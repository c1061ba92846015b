----------------------------- MODULE Reminders ------------------------------
(***************************************************************************)
(* The reminders a daily task sends before a paper of a courier expires.   *)
(* One paper; staff date it, withdraw the approval or receive a new paper  *)
(* at any time.  Two workers may run the task at once, and a worker may    *)
(* die between recording a reminder and sending it.                        *)
(***************************************************************************)
EXTENDS Integers, FiniteSets

CONSTANTS
  Beats,        \* workers that may run remind_document_expiry
  Thresholds,   \* RAPPELS_EN_JOURS
  LastDay       \* bound on the days that pass

ASSUME RemindersAssumption ==
  /\ Thresholds \subseteq Nat /\ 0 \in Thresholds
  /\ LastDay \in Nat

NoDate == -1
Days == 0..LastDay
AtRest == [at |-> "rest"]
Horizon == CHOOSE n \in Thresholds : \A m \in Thresholds : m <= n
Reminder == {<<d, t>> : d \in Days, t \in Thresholds}

VARIABLES
  expiresOn,  \* the date of the paper of an approved file, else NoDate
  day,
  beat,       \* where each run of the task stands
  reminded,   \* DocumentReminder: <<date, threshold>>
  sent        \* what was sent, and how many times

remindersVars == <<expiresOn, day, beat, reminded, sent>>

RemindersInit ==
  /\ expiresOn = NoDate /\ day = 0
  /\ beat = [b \in Beats |-> AtRest]
  /\ reminded = {}
  /\ sent = [r \in Reminder |-> 0]

-----------------------------------------------------------------------------
(* review approves no expired paper; the rest is the life of CourierFile.  *)
FileChanges ==
  /\ \E date \in {NoDate} \cup {d \in Days : d >= day} : expiresOn' = date
  /\ UNCHANGED <<day, beat, reminded, sent>>

NextDay ==
  /\ day < LastDay
  /\ day' = day + 1
  /\ UNCHANGED <<expiresOn, beat, reminded, sent>>

(* _seuil_atteint: the smallest threshold the date has reached.            *)
Reached(date) == {t \in Thresholds : date - day <= t}
ReachedToday(date) == {t \in Thresholds : date - day = t}   \* mutant: the exact day only
DueThresholds(date) == Reached(date)
SmallestOf(S) == CHOOSE t \in S : \A u \in S : t <= u

ReadFiles(b) ==
  /\ beat[b] = AtRest
  /\ expiresOn # NoDate /\ expiresOn <= day + Horizon /\ DueThresholds(expiresOn) # {}
  /\ beat' = [beat EXCEPT ![b] =
       [at |-> "read", reminder |-> <<expiresOn, SmallestOf(DueThresholds(expiresOn))>>]]
  /\ UNCHANGED <<expiresOn, day, reminded, sent>>

(* _consigner: the unique insertion decides who sends.                     *)
InsertsAnyway(b) == TRUE                         \* mutant: no unique constraint
Inserts(b) == beat[b].reminder \notin reminded

RecordReminder(b) ==
  /\ beat[b].at = "read"
  /\ IF Inserts(b)
       THEN /\ reminded' = reminded \cup {beat[b].reminder}
            /\ beat' = [beat EXCEPT ![b].at = "recorded"]
       ELSE /\ beat' = [beat EXCEPT ![b] = AtRest]
            /\ UNCHANGED reminded
  /\ UNCHANGED <<expiresOn, day, sent>>

SendReminder(b) ==
  /\ beat[b].at = "recorded"
  /\ sent' = [sent EXCEPT ![beat[b].reminder] = @ + 1]
  /\ beat' = [beat EXCEPT ![b] = AtRest]
  /\ UNCHANGED <<expiresOn, day, reminded>>

WorkerDies(b) ==
  /\ beat[b] # AtRest
  /\ beat' = [beat EXCEPT ![b] = AtRest]
  /\ UNCHANGED <<expiresOn, day, reminded, sent>>

-----------------------------------------------------------------------------
BeatWorks(b) == ReadFiles(b) \/ RecordReminder(b) \/ SendReminder(b)

RemindersNext ==
  \/ FileChanges \/ NextDay
  \/ \E b \in Beats : BeatWorks(b) \/ WorkerDies(b)

(* Celery beat calls the task every day, and a worker that dies is started *)
(* again: not every run dies between its reading and its writing.          *)
RemindersFairness ==
  /\ WF_remindersVars(\E b \in Beats : BeatWorks(b))
  /\ SF_remindersVars(\E b \in Beats : RecordReminder(b))

RemindersSpec ==
  RemindersInit /\ [][RemindersNext]_remindersVars /\ RemindersFairness

-----------------------------------------------------------------------------
RemindersTypeOK ==
  /\ expiresOn \in {NoDate} \cup Days /\ day \in Days
  /\ beat \in [Beats -> {AtRest} \cup [at : {"read", "recorded"}, reminder : Reminder]]
  /\ reminded \subseteq Reminder
  /\ sent \in [Reminder -> Nat]

(* Two runs at once, runs that die and runs that catch up after days       *)
(* without one never send the same reminder twice, and never for a         *)
(* threshold the date had not reached.                                     *)
RemindedOnce ==
  \A r \in Reminder :
    /\ sent[r] <= 1
    /\ sent[r] = 1 => r \in reminded /\ r[1] - day <= r[2]

(* "Ni ne sautera une echeance": whatever days the task missed, the paper  *)
(* of an approved file that has come to its last day ends in the record of *)
(* reminders, unless staff or the courier change the file first.           *)
Expiring == expiresOn # NoDate /\ expiresOn <= day
NoExpirySkipped ==
  [](Expiring => <>(~Expiring \/ <<expiresOn, 0>> \in reminded))
=============================================================================
