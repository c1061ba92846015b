------------------------------- MODULE Calls --------------------------------
(***************************************************************************)
(* The calls of one order, between its customer and its courier.  A call   *)
(* is opened after a search for one under way, which a unique constraint   *)
(* decides again at the insertion; it is answered, declined and hung up on *)
(* the row the page had read, that nothing locks.                          *)
(***************************************************************************)
EXTENDS Naturals, FiniteSets

CONSTANTS
  PlacedCalls,   \* the calls that may be placed on the order
  Presses        \* requests of the two applications under way at once

ASSUME CallsAssumption == IsFiniteSet(PlacedCalls)

CALLABLE_STATUSES == {"accepted", "picked_up", "on_the_way"}
ActiveCall == {"ringing", "accepted"}

CALL_TRANSITIONS ==
  [s \in {"ringing", "accepted", "declined", "ended", "missed"} |->
     CASE s = "ringing" -> {"accepted", "declined", "missed"}
       [] s = "accepted" -> {"ended"}
       [] OTHER -> {}]

VARIABLES
  courseStatus, \* of the course of the order, whose end closes no call
  call,         \* status; whether there is an answered_at, a duration
  press,        \* what each request has read: a search without result, or a call
  outcome,      \* history: how each call ended first
  overlapped    \* history: calls written from a row that had changed since

callsVars == <<courseStatus, call, press, outcome, overlapped>>

NoPress == [at |-> "rest"]

CallsInit ==
  /\ courseStatus = "accepted"
  /\ call = [c \in PlacedCalls |-> [status |-> "none", answered |-> FALSE, timed |-> FALSE]]
  /\ press = [r \in Presses |-> NoPress]
  /\ outcome = [c \in PlacedCalls |-> "none"] /\ overlapped = {}

Active == {c \in PlacedCalls : call[c].status \in ActiveCall}

-----------------------------------------------------------------------------
CourseEnds ==
  /\ courseStatus # "delivered" /\ courseStatus' = "delivered"
  /\ UNCHANGED <<call, press, outcome, overlapped>>

(* place: a course in progress, and no call under way as far as it sees.   *)
SearchCall(r) ==
  /\ press[r] = NoPress
  /\ courseStatus \in CALLABLE_STATUSES /\ Active = {}
  /\ press' = [press EXCEPT ![r] = [at |-> "placing"]]
  /\ UNCHANGED <<courseStatus, call, outcome, overlapped>>

(* one_active_call_per_order, at the insertion and at every update.        *)
ActiveUnchecked(c) == FALSE                      \* mutant: no constraint
AnotherIsActive(c) == Active \ {c} # {}

place(r, c) ==
  /\ press[r].at = "placing"
  /\ call[c].status = "none" /\ ~AnotherIsActive(c)
  /\ call' = [call EXCEPT ![c].status = "ringing"]
  /\ press' = [press EXCEPT ![r] = NoPress]
  /\ UNCHANGED <<courseStatus, outcome, overlapped>>

(* get_object, by one of the two parties.                                  *)
ReadCall(r, c) ==
  /\ press[r] = NoPress /\ call[c].status # "none"
  /\ press' = [press EXCEPT ![r] = [at |-> "read", call |-> c,
                                    status |-> call[c].status,
                                    answered |-> call[c].answered]]
  /\ UNCHANGED <<courseStatus, call, outcome, overlapped>>

(* _transition and the save, from the row that was read.                   *)
Moves(r, status) ==
  LET c == press[r].call IN
  /\ press[r].at = "read" /\ status \in CALL_TRANSITIONS[press[r].status]
  /\ status \in ActiveCall => ~AnotherIsActive(c)
  /\ press' = [press EXCEPT ![r] = NoPress]
  /\ overlapped' = overlapped \cup {d \in {c} : call[d].status # press[r].status}
  /\ outcome' = IF status \in ActiveCall \/ outcome[c] # "none" THEN outcome
                ELSE [outcome EXCEPT ![c] = status]
  /\ UNCHANGED courseStatus

(* accept and decline are the callee's, end either party's.                 *)
accept(r) ==
  /\ Moves(r, "accepted")
  /\ call' = [call EXCEPT ![press[r].call] =
                [status |-> "accepted", answered |-> TRUE, timed |-> @.timed]]

decline(r) ==
  /\ Moves(r, "declined")
  /\ call' = [call EXCEPT ![press[r].call] =
                [status |-> "declined", answered |-> @.answered, timed |-> @.timed]]

(* end: a call that still rang is missed, and has no duration; the one     *)
(* written is that of the row that was read.                               *)
HungUpAs(r) == IF press[r].status = "accepted" THEN "ended" ELSE "missed"
end(r) ==
  /\ Moves(r, HungUpAs(r))
  /\ call' = [call EXCEPT ![press[r].call] =
                [status |-> HungUpAs(r), answered |-> @.answered,
                 timed |-> press[r].answered]]

(* A refusal of the rules or of the constraint.                            *)
GiveUp(r) ==
  /\ press[r] # NoPress /\ press' = [press EXCEPT ![r] = NoPress]
  /\ UNCHANGED <<courseStatus, call, outcome, overlapped>>

-----------------------------------------------------------------------------
CallsNext ==
  \/ CourseEnds
  \/ \E r \in Presses :
       \/ SearchCall(r) \/ accept(r) \/ decline(r) \/ end(r) \/ GiveUp(r)
       \/ \E c \in PlacedCalls : place(r, c) \/ ReadCall(r, c)

CallsSpec == CallsInit /\ [][CallsNext]_callsVars

-----------------------------------------------------------------------------
CallsTypeOK ==
  /\ courseStatus \in {"accepted", "delivered"}
  /\ call \in [PlacedCalls -> [status : {"none"} \cup DOMAIN CALL_TRANSITIONS,
                         answered : BOOLEAN, timed : BOOLEAN]]
  /\ press \in [Presses -> {NoPress, [at |-> "placing"]} \cup
                  [at : {"read"}, call : PlacedCalls, status : DOMAIN CALL_TRANSITIONS,
                   answered : BOOLEAN]]
  /\ outcome \in [PlacedCalls -> {"none", "declined", "ended", "missed"}]
  /\ overlapped \subseteq PlacedCalls

(* "Un seul appel en cours par commande", whatever is pressed at once; and *)
(* a call that is over stays as it ended - "raccrocher deux fois ne peut   *)
(* ni compter deux durees, ni rouvrir un canal" - and was answered exactly *)
(* when it is said to have been, unless two gestures overlapped on it.     *)
CallsHold ==
  /\ Cardinality(Active) <= 1
  /\ \A c \in PlacedCalls \ overlapped :
       /\ outcome[c] # "none" => call[c].status = outcome[c]
       /\ call[c].answered <=> call[c].status \in {"accepted", "ended"}
       /\ call[c].timed <=> call[c].status = "ended"
=============================================================================
