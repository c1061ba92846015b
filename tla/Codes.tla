-------------------------------- MODULE Codes --------------------------------
(***************************************************************************)
(* The codes mailed to one account for one purpose.  issue looks for a     *)
(* recent code, then ends the one that lives and inserts another, which a  *)
(* unique constraint lets live alone; the mail leaves after the commit, if *)
(* it leaves.  consume judges the code presented under a lock of its row.  *)
(***************************************************************************)
EXTENDS Naturals, FiniteSets

CONSTANTS
  Requests,                \* requests for a code, under way at once
  Cooldown, Ttl,           \* minutes before another is mailed, of validity
  MaxAttempts,             \* ACCOUNT_VERIFICATION_MAX_ATTEMPTS
  MaxCodes, LastMinute     \* bounds: codes issued, minutes that pass

ASSUME CodesAssumption ==
  /\ IsFiniteSet(Requests) /\ MaxAttempts \in Nat \ {0}
  /\ Cooldown \in Nat /\ Ttl \in Nat /\ MaxCodes \in Nat /\ LastMinute \in Nat

Numbers == 1..MaxCodes
NoRequest == MaxCodes + 1     \* no request is under way

VARIABLES
  minute,
  issued,      \* codes issued so far; code n is the n-th
  code,        \* its life, when it was created and ended, attempts counted
  request,     \* codes issued when a request found none recent, or NoRequest
  outbox, mailed,
  granted,     \* history: times the effect of a code was committed
  wrong,       \* history: wrong codes judged against it
  unseen        \* history: codes ended by a request that had not seen them

codesVars == <<minute, issued, code, request, outbox, mailed, granted, wrong, unseen>>

Live == {n \in Numbers : code[n].life = "live"}

CodesInit ==
  /\ minute = 0 /\ issued = 0
  /\ code = [n \in Numbers |-> [life |-> "none", at |-> 0, ended |-> 0, attempts |-> 0]]
  /\ request = [r \in Requests |-> NoRequest]
  /\ outbox = {} /\ mailed = {} /\ unseen = {}
  /\ granted = [n \in Numbers |-> 0] /\ wrong = [n \in Numbers |-> 0]

MinutePasses ==
  /\ minute < LastMinute /\ minute' = minute + 1
  /\ UNCHANGED <<issued, code, request, outbox, mailed, granted, wrong, unseen>>

-----------------------------------------------------------------------------
(* issue: a code too recent is answered again, and nothing is mailed.      *)
Expired(n) == minute >= code[n].at + Ttl
Recent == {n \in Live : ~Expired(n) /\ minute < code[n].at + Cooldown}

AskCode(r) ==
  /\ request[r] = NoRequest /\ Recent = {}
  /\ request' = [request EXCEPT ![r] = issued]
  /\ UNCHANGED <<minute, issued, code, outbox, mailed, granted, wrong, unseen>>

Ended(n, life) ==
  [life |-> life, at |-> code[n].at, ended |-> minute, attempts |-> code[n].attempts]

issue(r) ==
  /\ request[r] # NoRequest /\ issued < MaxCodes
  /\ issued' = issued + 1
  /\ code' = [n \in Numbers |->
                IF n = issued' THEN [life |-> "live", at |-> minute, ended |-> 0, attempts |-> 0]
                ELSE IF n \in Live THEN Ended(n, "replaced") ELSE code[n]]
  /\ unseen' = unseen \cup {n \in Live : n > request[r]}
  /\ request' = [request EXCEPT ![r] = NoRequest]
  /\ outbox' = outbox \cup {issued'}
  /\ UNCHANGED <<minute, mailed, granted, wrong>>

(* one_live_code_per_purpose: another was committed since the UPDATE.      *)
IssueRefused(r) ==
  /\ request[r] # NoRequest /\ \E n \in Live : n > request[r]
  /\ request' = [request EXCEPT ![r] = NoRequest]
  /\ UNCHANGED <<minute, issued, code, outbox, mailed, granted, wrong, unseen>>

(* _send, after the commit: a failure is absorbed, a worker may die first. *)
MailLeaves(n) ==
  /\ n \in outbox /\ outbox' = outbox \ {n}
  /\ mailed' \in {mailed, mailed \cup {n}}
  /\ UNCHANGED <<minute, issued, code, request, granted, wrong, unseen>>

-----------------------------------------------------------------------------
(* consume.  The code judged is the last one alive; the exception is       *)
(* raised outside of the transaction, so that the attempt is counted.      *)
Judged(n) == n \in Live /\ ~Expired(n)

AttemptUndone(n) == code[n].attempts             \* mutant: raised inside of it
AttemptCounted(n) == code[n].attempts + 1

PresentWrong(n) ==
  /\ Judged(n)
  /\ LET closes == AttemptCounted(n) >= MaxAttempts IN
     code' = [code EXCEPT ![n] =
                [life |-> IF closes THEN "closed" ELSE @.life, at |-> @.at,
                 ended |-> IF closes THEN minute ELSE @.ended,
                 attempts |-> AttemptCounted(n)]]
  /\ wrong' = [wrong EXCEPT ![n] = @ + 1]
  /\ UNCHANGED <<minute, issued, request, outbox, mailed, granted, unseen>>

(* on_success, in the same transaction: a password refused takes the       *)
(* consumption back with it, and nothing happened.                         *)
consume(n) ==
  /\ n \in mailed /\ Judged(n)
  /\ code' = [code EXCEPT ![n] = Ended(n, "used")]
  /\ granted' = [granted EXCEPT ![n] = @ + 1]
  /\ UNCHANGED <<minute, issued, request, outbox, mailed, wrong, unseen>>

-----------------------------------------------------------------------------
CodesNext ==
  \/ MinutePasses
  \/ \E r \in Requests : AskCode(r) \/ issue(r) \/ IssueRefused(r)
  \/ \E n \in Numbers : MailLeaves(n) \/ PresentWrong(n) \/ consume(n)

CodesSpec == CodesInit /\ [][CodesNext]_codesVars

-----------------------------------------------------------------------------
CodesTypeOK ==
  /\ minute \in Nat /\ issued \in 0..MaxCodes
  /\ code \in [Numbers -> [life : {"none", "live", "used", "replaced", "closed"},
                           at : Nat, ended : Nat, attempts : Nat]]
  /\ request \in [Requests -> 0..NoRequest]
  /\ outbox \subseteq Numbers /\ mailed \subseteq Numbers /\ unseen \subseteq Numbers
  /\ granted \in [Numbers -> Nat] /\ wrong \in [Numbers -> Nat]

(* "Un seul code vivant a la fois"; each opens once, and only by who was   *)
(* mailed it; no more wrong codes are judged against one than the limit,   *)
(* though each judgement ends in an exception; and an address is not sent  *)
(* a second code while the first is fresh and good, unless two requests    *)
(* overlapped.                                                             *)
CodesHold ==
  /\ \A m, n \in Live : m = n
  /\ \A n \in Numbers :
       /\ granted[n] = IF code[n].life = "used" THEN 1 ELSE 0
       /\ code[n].life = "used" => n \in mailed
       /\ wrong[n] <= MaxAttempts
       /\ code[n].life = "replaced" /\ code[n].ended < code[n].at + Cooldown
            => n \in unseen \/ code[n].ended >= code[n].at + Ttl
=============================================================================
