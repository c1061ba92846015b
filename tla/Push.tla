-------------------------------- MODULE Push --------------------------------
(***************************************************************************)
(* One notice and the phones it makes ring.  send_push reads the phones of *)
(* its addressee, tries them one after the other, removes those the push   *)
(* service no longer knows, and asks for a retry on those that failed.     *)
(* The broker keeps a message until the worker has ended: a worker that    *)
(* dies gives it back.                                                     *)
(***************************************************************************)
EXTENDS Naturals, FiniteSets

CONSTANTS
  Phones,
  MaxRetries,   \* max_retries of send_push
  MaxDeaths     \* bound: the workers that die

ASSUME PushAssumption == MaxRetries \in Nat /\ MaxDeaths \in Nat

FirstCall == [tokens |-> Phones, retries |-> 0]
Calls == [tokens : SUBSET Phones, retries : 0..MaxRetries]
Asleep == [at |-> "asleep"]

VARIABLES
  account,    \* whose each phone is: "hers", "another", "nobody"
  calls,      \* send_push messages that wait at the broker
  work,       \* the call a worker runs: where it stands, what it has left
  rung,       \* how many times the service said it had made a phone ring
  handed,     \* history: phones that changed hands since they were read
  strays,     \* history: phones that rang for another than their owner
  deaths

pushVars == <<account, calls, work, rung, handed, strays, deaths>>

PushInit ==
  /\ account = [p \in Phones |-> "hers"]
  /\ calls = {FirstCall} /\ work = Asleep
  /\ rung = [p \in Phones |-> 0]
  /\ handed = {} /\ strays = {} /\ deaths = 0

-----------------------------------------------------------------------------
(* register_device: the token belongs to the last account that gave it.    *)
register_device(p, who) ==
  /\ account[p] # who
  /\ account' = [account EXCEPT ![p] = who]
  /\ handed' = handed \cup {p}
  /\ UNCHANGED <<calls, work, rung, strays, deaths>>

EveryToken(call) == call.tokens                  \* mutant: a retry not filtered again
Reachable(call) == {p \in call.tokens : account[p] = "hers"}

StartCall(call) ==
  /\ work = Asleep /\ call \in calls
  /\ calls' = calls \ {call}
  /\ work' = [at |-> "sending", call |-> call, left |-> Reachable(call),
              failed |-> {}, unregistered |-> {}]
  /\ handed' = {}
  /\ UNCHANGED <<account, rung, strays, deaths>>

(* _send_one: an answer that does not come counts as a failure.            *)
Try(p, issue) ==
  /\ work.at = "sending" /\ p \in work.left
  /\ work' = [work EXCEPT !.left = @ \ {p},
                !.failed = IF issue = "failed" THEN @ \cup {p} ELSE @,
                !.unregistered = IF issue = "unregistered" THEN @ \cup {p} ELSE @]
  /\ IF issue = "delivered"
       THEN /\ rung' = [rung EXCEPT ![p] = @ + 1]
            /\ strays' = IF account[p] # "hers" /\ p \notin handed THEN strays \cup {p} ELSE strays
       ELSE UNCHANGED <<rung, strays>>
  /\ UNCHANGED <<account, calls, handed, deaths>>

(* What the service no longer knows is removed, whoever has it by now.     *)
RemoveUnregistered ==
  /\ work.at = "sending" /\ work.left = {} /\ work.unregistered # {}
  /\ account' = [p \in Phones |-> IF p \in work.unregistered THEN "nobody" ELSE account[p]]
  /\ work' = [work EXCEPT !.unregistered = {}]
  /\ UNCHANGED <<calls, rung, handed, strays, deaths>>

(* _demander_reprise posts the retry; the call itself is not given up yet. *)
TokensAgain(w) == w.call.tokens                  \* mutant: everybody again
TokensToRetry(w) == w.failed

Conclude ==
  /\ work.at = "sending" /\ work.left = {} /\ work.unregistered = {}
  /\ calls' = IF work.failed # {} /\ work.call.retries < MaxRetries
                THEN calls \cup {[tokens |-> TokensToRetry(work), retries |-> work.call.retries + 1]}
                ELSE calls
  /\ work' = [at |-> "concluded", call |-> work.call]
  /\ UNCHANGED <<account, rung, handed, strays, deaths>>

(* CELERY_TASK_ACKS_LATE                                                   *)
Acknowledge ==
  /\ work.at = "concluded"
  /\ work' = Asleep
  /\ UNCHANGED <<account, calls, rung, handed, strays, deaths>>

(* CELERY_TASK_REJECT_ON_WORKER_LOST                                       *)
PushWorkerDies ==
  /\ work # Asleep /\ deaths < MaxDeaths
  /\ calls' = calls \cup {work.call}
  /\ work' = Asleep
  /\ deaths' = deaths + 1
  /\ UNCHANGED <<account, rung, handed, strays>>

-----------------------------------------------------------------------------
PushNext ==
  \/ \E p \in Phones, who \in {"hers", "another"} : register_device(p, who)
  \/ \E call \in calls : StartCall(call)
  \/ \E p \in Phones, issue \in {"delivered", "failed", "unregistered"} : Try(p, issue)
  \/ RemoveUnregistered \/ Conclude \/ Acknowledge \/ PushWorkerDies

PushSpec == PushInit /\ [][PushNext]_pushVars

-----------------------------------------------------------------------------
PushTypeOK ==
  /\ account \in [Phones -> {"hers", "another", "nobody"}]
  /\ calls \subseteq Calls
  /\ work \in {Asleep} \cup [at : {"concluded"}, call : Calls]
       \cup [at : {"sending"}, call : Calls, left : SUBSET Phones,
             failed : SUBSET Phones, unregistered : SUBSET Phones]
  /\ rung \in [Phones -> Nat]
  /\ handed \subseteq Phones /\ strays \subseteq Phones
  /\ deaths \in 0..MaxDeaths

(* "Reprendre toute la liste ferait vibrer deux fois": retries ring a      *)
(* phone at most once more for each worker that died, and a phone that     *)
(* passed to another account before a call was started does not ring for   *)
(* the one that gave it up.                                                *)
RungOnce ==
  /\ \A p \in Phones : rung[p] <= 1 + deaths
  /\ strays = {}
=============================================================================
