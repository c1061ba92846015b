--------------------------- MODULE Notices_proofs ----------------------------
(***************************************************************************)
(* Proofs about what the house tells - Reminders, Campaigns, Push and      *)
(* Realtime - for any workers, thresholds, campaigns, phones, events and   *)
(* bounds.                                                                 *)
(***************************************************************************)
EXTENDS Reminders, Campaigns, Push, Realtime, Sums_proofs, FiniteSetTheorems, TLAPS

-----------------------------------------------------------------------------
(* Reminders.                                                              *)

(* A worker in the middle of a run holds a reminder the date has reached;  *)
(* one that has recorded it is alone to hold it, and has not sent it.      *)
Recorded(b) == beat[b].at = "recorded"
RunsAreApart ==
  /\ \A b \in Beats : beat[b] # AtRest => beat[b].reminder[1] - day <= beat[b].reminder[2]
  /\ \A b \in Beats : Recorded(b) =>
       beat[b].reminder \in reminded /\ sent[beat[b].reminder] = 0
  /\ \A a, b \in Beats :
       Recorded(a) /\ Recorded(b) /\ beat[a].reminder = beat[b].reminder => a = b

RemindersInv == RemindersTypeOK /\ RemindedOnce /\ RunsAreApart

(* Of the thresholds reached there is a smallest.                          *)
LEMMA SmallestThreshold ==
  ASSUME NEW S, S \subseteq Nat, S # {}
  PROVE  SmallestOf(S) \in S
<1>1. PICK t \in S : \A u \in S : t <= u
  BY LeastNatural
<1> QED
  BY <1>1 DEF SmallestOf

LEMMA ReachedReminder ==
  ASSUME NEW date, DueThresholds(date) # {}
  PROVE  /\ SmallestOf(DueThresholds(date)) \in Thresholds
         /\ date - day <= SmallestOf(DueThresholds(date))
BY SmallestThreshold, RemindersAssumption DEF DueThresholds, Reached

LEMMA ReminderType ==
  /\ \A r \in Reminder : r[1] \in Nat /\ r[2] \in Nat
  /\ \A d \in Days, t \in Thresholds : <<d, t>> \in Reminder
BY RemindersAssumption DEF Reminder, Days

LEMMA InitReminders == RemindersInit => RemindersInv
BY RemindersAssumption DEF RemindersInit, RemindersInv, RemindersTypeOK, RemindedOnce, RunsAreApart, Recorded,
   Days, AtRest

LEMMA StepReminders == RemindersInv /\ [RemindersNext]_remindersVars => RemindersInv'
<1> SUFFICES ASSUME RemindersInv, [RemindersNext]_remindersVars PROVE RemindersInv'
  OBVIOUS
<1> USE RemindersAssumption, ReminderType DEF RemindersInv, RemindersTypeOK, RemindedOnce, RunsAreApart,
      Recorded, AtRest
<1>1. CASE FileChanges
  BY <1>1 DEF FileChanges
<1>2. CASE NextDay
  BY <1>2 DEF NextDay, Days
<1>3. ASSUME NEW b \in Beats, ReadFiles(b) PROVE RemindersInv'
  BY <1>3, ReachedReminder DEF ReadFiles, NoDate
<1>4. ASSUME NEW b \in Beats, RecordReminder(b) PROVE RemindersInv'
  BY <1>4 DEF RecordReminder, Inserts
<1>5. ASSUME NEW b \in Beats, SendReminder(b) PROVE RemindersInv'
  BY <1>5 DEF SendReminder
<1>6. ASSUME NEW b \in Beats, WorkerDies(b) PROVE RemindersInv'
  BY <1>6 DEF WorkerDies
<1>7. CASE UNCHANGED remindersVars
  BY <1>7 DEF remindersVars
<1> QED
  BY <1>1, <1>2, <1>3, <1>4, <1>5, <1>6, <1>7 DEF RemindersNext, BeatWorks

(* Whatever runs of the beat cross, die or catch up, an expiry is recorded *)
(* as reminded once for each of its thresholds.                            *)
THEOREM RemindedOnceHolds == RemindersSpec => []RemindedOnce
<1> QED
  BY InitReminders, StepReminders, PTL DEF RemindersSpec, RemindersInv
-----------------------------------------------------------------------------
(* Campaigns.                                                              *)

(* A campaign that is dated has an hour.                                   *)
DatedHasHour ==
  \A c \in Campaigns : campaign[c].status = "scheduled" => campaign[c].scheduledAt \in Hours
CampaignsInv == CampaignsTypeOK /\ MailedOnce /\ DatedHasHour

LEMMA ListType ==
  ASSUME NEW S, S \subseteq Campaigns, NEW q \in SetToSeqs(S)
  PROVE  q \in Seq(Campaigns)
<1>1. Cardinality(S) \in Nat
  BY CampaignsAssumption, FS_Subset, FS_CardinalityType
<1>2. q \in [1..Cardinality(S) -> S]
  BY DEF SetToSeqs
<1> QED
  BY <1>1, <1>2

LEMMA InitCampaigns == CampaignsInit => CampaignsInv
BY CampaignsAssumption DEF CampaignsInit, CampaignsInv, CampaignsTypeOK, MailedOnce, DatedHasHour,
   Hours, Undated

(* What was mailed is not touched again: no letter moves, and neither do   *)
(* the pages of what was sent.                                             *)
LEMMA QuietCampaign ==
  ASSUME CampaignsInv, UNCHANGED letters,
         \A c \in Campaigns :
           IF campaign[c].status = "sent" THEN campaign'[c] = campaign[c]
           ELSE campaign'[c].status # "sent"
  PROVE  MailedOnce'
<1>1. ASSUME NEW c \in Campaigns, NEW i \in DOMAIN letters[c] PROVE campaign[c].status = "sent"
  BY DEF CampaignsInv, CampaignsTypeOK, MailedOnce
<1>2. ASSUME NEW c \in Campaigns
      PROVE  Len(letters[c]) = IF campaign'[c].status = "sent" THEN 1 ELSE 0
  BY DEF CampaignsInv, MailedOnce
<1>3. ASSUME NEW c \in Campaigns, NEW i \in DOMAIN letters[c]
      PROVE  /\ letters[c][i].text = campaign'[c].text
             /\ letters[c][i].by = "beat" =>
                  campaign'[c].scheduledAt # Undated
                  /\ campaign'[c].scheduledAt <= letters[c][i].hour
  BY <1>1 DEF CampaignsInv, MailedOnce
<1> QED
  BY <1>2, <1>3 DEF MailedOnce

(* A letter goes out of a campaign that was not sent yet.                  *)
LEMMA LetterStep ==
  ASSUME CampaignsInv, NEW c \in Campaigns, NEW by \in {"click", "beat"},
         campaign[c].status # "sent", by = "beat" => IsDue(c), send_campaign(c, by),
         UNCHANGED <<hour, roundsLost>>, due' \in [Rounds -> Seq(Campaigns)]
  PROVE  CampaignsInv'
<1> DEFINE letter == Letter(c, by)
           Letters == [text : 0..MaxText, hour : Hours, by : {"click", "beat"}]
<1>1. letters[c] = <<>> /\ letters[c] \in Seq(Letters)
  BY DEF CampaignsInv, CampaignsTypeOK, MailedOnce
<1>2. letter \in Letters
  BY DEF Letter, CampaignsInv, CampaignsTypeOK
<1>3. letters' = [letters EXCEPT ![c] = <<letter>>]
  BY <1>1, <1>2 DEF send_campaign
<1>4. letters' \in [Campaigns -> Seq(Letters)]
  <2> HIDE DEF Letters, letter
  <2>1. letters \in [Campaigns -> Seq(Letters)]
    BY DEF CampaignsInv, CampaignsTypeOK, Letters
  <2> QED  BY <1>2, <1>3, <2>1
<1>5. CampaignsTypeOK' /\ DatedHasHour'
  <2>1. campaign' = [campaign EXCEPT ![c].status = "sent"]
    BY DEF send_campaign
  <2> QED  BY <1>4, <2>1 DEF CampaignsInv, CampaignsTypeOK, DatedHasHour
<1>6. ASSUME NEW d \in Campaigns
      PROVE  /\ Len(letters'[d]) = IF campaign'[d].status = "sent" THEN 1 ELSE 0
             /\ \A i \in DOMAIN letters'[d] :
                  /\ letters'[d][i].text = campaign'[d].text
                  /\ letters'[d][i].by = "beat" =>
                       campaign'[d].scheduledAt # Undated
                       /\ campaign'[d].scheduledAt <= letters'[d][i].hour
  <2> USE DEF CampaignsInv, CampaignsTypeOK
  <2>1. CASE d = c
    <3>1. letters'[d] = <<letter>>
      BY <1>3, <2>1
    <3>2. /\ campaign'[c].status = "sent" /\ campaign'[c].text = campaign[c].text
          /\ campaign'[c].scheduledAt = campaign[c].scheduledAt
      BY DEF send_campaign
    <3>3. letter.text = campaign[c].text /\ letter.by = by /\ letter.hour = hour
      BY DEF Letter
    <3>4. by = "beat" => campaign[c].scheduledAt # Undated /\ campaign[c].scheduledAt <= hour
      BY DEF IsDue, DatedHasHour, Hours, Undated
    <3> HIDE DEF letter
    <3> QED  BY <2>1, <3>1, <3>2, <3>3, <3>4
  <2>2. CASE d # c
    <3>1. letters'[d] = letters[d] /\ campaign'[d] = campaign[d]
      BY <1>3, <2>2 DEF send_campaign
    <3> QED  BY <3>1 DEF MailedOnce
  <2> QED  BY <2>1, <2>2
<1> QED
  BY <1>5, <1>6 DEF CampaignsInv, MailedOnce

LEMMA StepCampaigns == CampaignsInv /\ [CampaignsNext]_campaignsVars => CampaignsInv'
<1> SUFFICES ASSUME CampaignsInv, [CampaignsNext]_campaignsVars PROVE CampaignsInv'
  OBVIOUS
<1> USE CampaignsAssumption
<1>0. /\ campaign \in [Campaigns -> [status : {"draft", "scheduled", "sent"},
                                     scheduledAt : {Undated} \cup Hours, text : 0..MaxText]]
      /\ DatedHasHour
  BY DEF CampaignsInv, CampaignsTypeOK
<1>1. ASSUME NEW c \in Campaigns, NEW quand \in Hours,
             perform_update(c) \/ unschedule_campaign(c) \/ schedule_campaign(c, quand)
      PROVE  CampaignsInv'
  <2>1. /\ campaign' \in [Campaigns -> [status : {"draft", "scheduled", "sent"},
                                        scheduledAt : {Undated} \cup Hours, text : 0..MaxText]]
        /\ DatedHasHour'
    BY <1>0, <1>1 DEF perform_update, unschedule_campaign, schedule_campaign, DatedHasHour
  <2>2. UNCHANGED <<hour, due, roundsLost, letters>>
    BY <1>1 DEF perform_update, unschedule_campaign, schedule_campaign
  <2>3. MailedOnce'
    <3>1. \A d \in Campaigns :
            IF campaign[d].status = "sent" THEN campaign'[d] = campaign[d]
            ELSE campaign'[d].status # "sent"
      BY <1>0, <1>1 DEF perform_update, Editable, unschedule_campaign, schedule_campaign
    <3> QED  BY <2>2, <3>1, QuietCampaign
  <2> QED  BY <2>1, <2>2, <2>3 DEF CampaignsInv, CampaignsTypeOK
<1>2. ASSUME NEW c \in Campaigns, SendNow(c) PROVE CampaignsInv'
  <2>1. due' \in [Rounds -> Seq(Campaigns)]
    BY <1>2 DEF SendNow, CampaignsInv, CampaignsTypeOK
  <2> QED  BY <1>2, <2>1, LetterStep DEF SendNow
<1>3. CASE UNCHANGED <<campaign, letters>> /\ hour' \in Hours /\ roundsLost' \in 0..MaxRoundsLost
             /\ due' \in [Rounds -> Seq(Campaigns)]
  BY <1>3 DEF CampaignsInv, CampaignsTypeOK, MailedOnce, DatedHasHour
<1>4. CASE HourPasses
  <2>1. /\ UNCHANGED <<campaign, letters>> /\ hour' \in Hours /\ roundsLost' \in 0..MaxRoundsLost
        /\ due' \in [Rounds -> Seq(Campaigns)]
    BY <1>4 DEF HourPasses, Hours, CampaignsInv, CampaignsTypeOK
  <2> QED  BY <1>3, <2>1
<1>5. ASSUME NEW b \in Rounds, ReadDueCampaigns(b) PROVE CampaignsInv'
  BY <1>3, <1>5, ListType DEF ReadDueCampaigns, CampaignsInv, CampaignsTypeOK
<1>6. ASSUME NEW b \in Rounds, NEW c \in Campaigns, _send_if_still_due(b, c)
      PROVE  CampaignsInv'
  <2>1. due' \in [Rounds -> Seq(Campaigns)]
    <3>1. due[b] \in Seq(Campaigns) /\ due[b] # <<>> /\ due' = [due EXCEPT ![b] = Tail(due[b])]
      BY <1>6 DEF _send_if_still_due, AfterFailure, CampaignsInv, CampaignsTypeOK
    <3>2. Tail(due[b]) \in Seq(Campaigns)
      BY <3>1
    <3> QED  BY <3>1, <3>2 DEF CampaignsInv, CampaignsTypeOK
  <2>2. CASE StillDue(c) /\ c \in Mailable
    BY <1>6, <2>1, <2>2, LetterStep DEF _send_if_still_due, StillDue, IsDue
  <2>3. CASE ~(StillDue(c) /\ c \in Mailable)
    BY <1>3, <1>6, <2>1, <2>3 DEF _send_if_still_due, CampaignsInv, CampaignsTypeOK
  <2> QED  BY <2>2, <2>3
<1>7. ASSUME NEW b \in Rounds, RoundDies(b) PROVE CampaignsInv'
  <2>1. /\ UNCHANGED <<campaign, letters>> /\ hour' \in Hours /\ roundsLost' \in 0..MaxRoundsLost
    BY <1>7 DEF RoundDies, CampaignsInv, CampaignsTypeOK
  <2>2. due' \in [Rounds -> Seq(Campaigns)]
    BY <1>7 DEF RoundDies, CampaignsInv, CampaignsTypeOK
  <2> QED  BY <1>3, <2>1, <2>2
<1>8. CASE UNCHANGED campaignsVars
  BY <1>3, <1>8 DEF campaignsVars, CampaignsInv, CampaignsTypeOK
<1> QED
  BY <1>1, <1>2, <1>4, <1>5, <1>6, <1>7, <1>8 DEF CampaignsNext, RoundWorks, Hours

(* However many rounds of the beat there are, and whatever staff click     *)
(* meanwhile, a campaign is mailed once, in the text its page shows, and   *)
(* by the beat never before its hour.                                      *)
THEOREM MailedOnceHolds == CampaignsSpec => []MailedOnce
<1> QED
  BY InitCampaigns, StepCampaigns, PTL DEF CampaignsSpec, CampaignsInv

-----------------------------------------------------------------------------
(* Push.                                                                   *)

(* Where a phone may still ring from: the calls that carry it, and the one *)
(* a worker runs.                                                          *)
Carrying(p) == {call \in calls : p \in call.tokens}
InHand(p) == IF work.at = "sending" /\ p \in work.left \cup work.failed THEN 1 ELSE 0

(* A phone has rung once, or may still ring once, and once more for each   *)
(* death; what a worker has left to try was the customer's when the call   *)
(* was started.                                                            *)
RingsAreCounted == \A p \in Phones : rung[p] + Cardinality(Carrying(p)) + InHand(p) <= 1 + deaths
LeftToTry ==
  work.at = "sending" =>
    /\ work.left \cap work.failed = {}
    /\ \A p \in work.left : account[p] = "hers" \/ p \in handed

PushInv ==
  /\ PushTypeOK /\ IsFiniteSet(calls)
  /\ RingsAreCounted /\ LeftToTry /\ strays = {}

LEMMA CarryingIsFinite ==
  ASSUME IsFiniteSet(calls), NEW p
  PROVE  IsFiniteSet(Carrying(p)) /\ Cardinality(Carrying(p)) \in Nat
BY FS_Subset, FS_CardinalityType DEF Carrying

(* A call posted adds at most one place a phone may ring from, and none    *)
(* for a phone it does not carry; a call taken removes its own.            *)
LEMMA CallPosted ==
  ASSUME IsFiniteSet(calls), NEW call, calls' = calls \cup {call}
  PROVE  /\ IsFiniteSet(calls')
         /\ \A p : /\ Cardinality(Carrying(p)') <= Cardinality(Carrying(p)) + 1
                   /\ p \notin call.tokens => Cardinality(Carrying(p)') = Cardinality(Carrying(p))
                   /\ Cardinality(Carrying(p)') \in Nat
<1>1. IsFiniteSet(calls')
  BY FS_AddElement
<1>2. ASSUME NEW p
      PROVE  /\ Cardinality(Carrying(p)') <= Cardinality(Carrying(p)) + 1
             /\ p \notin call.tokens => Cardinality(Carrying(p)') = Cardinality(Carrying(p))
             /\ Cardinality(Carrying(p)') \in Nat
  <2>1. CASE p \in call.tokens
    <3>1. Carrying(p)' = Carrying(p) \cup {call}
      BY <2>1 DEF Carrying
    <3>2. /\ Cardinality(Carrying(p) \cup {call}) <= Cardinality(Carrying(p)) + 1
          /\ Cardinality(Carrying(p) \cup {call}) \in Nat
      <4>1. IsFiniteSet(Carrying(p)) /\ Cardinality(Carrying(p)) \in Nat
        BY CarryingIsFinite
      <4>2. Cardinality(Carrying(p) \cup {call}) =
              IF call \in Carrying(p) THEN Cardinality(Carrying(p)) ELSE Cardinality(Carrying(p)) + 1
        BY <4>1, FS_AddElement
      <4> QED  BY <4>1, <4>2
    <3> QED  BY <2>1, <3>1, <3>2
  <2>2. CASE p \notin call.tokens
    <3>1. Carrying(p)' = Carrying(p)
      BY <2>2 DEF Carrying
    <3> QED  BY <2>2, <3>1, CarryingIsFinite
  <2> QED  BY <2>1, <2>2
<1> QED
  BY <1>1, <1>2

LEMMA CallTaken ==
  ASSUME IsFiniteSet(calls), NEW call \in calls, calls' = calls \ {call}
  PROVE  /\ IsFiniteSet(calls')
         /\ \A p : /\ Cardinality(Carrying(p)') <= Cardinality(Carrying(p))
                   /\ p \in call.tokens => Cardinality(Carrying(p)') + 1 = Cardinality(Carrying(p))
                   /\ Cardinality(Carrying(p)') \in Nat
<1>1. IsFiniteSet(calls')
  BY FS_RemoveElement
<1>2. ASSUME NEW p
      PROVE  /\ Cardinality(Carrying(p)') <= Cardinality(Carrying(p))
             /\ p \in call.tokens => Cardinality(Carrying(p)') + 1 = Cardinality(Carrying(p))
             /\ Cardinality(Carrying(p)') \in Nat
  <2>1. CASE p \in call.tokens
    <3>1. Carrying(p)' = Carrying(p) \ {call} /\ call \in Carrying(p)
      BY <2>1 DEF Carrying
    <3>2. /\ Cardinality(Carrying(p) \ {call}) + 1 = Cardinality(Carrying(p))
          /\ Cardinality(Carrying(p) \ {call}) \in Nat
      <4>1. IsFiniteSet(Carrying(p)) /\ Cardinality(Carrying(p)) \in Nat
        BY CarryingIsFinite
      <4>2. /\ IsFiniteSet(Carrying(p) \ {call})
            /\ Cardinality(Carrying(p) \ {call}) = Cardinality(Carrying(p)) - 1
        BY <3>1, <4>1, FS_RemoveElement
      <4>3. Cardinality(Carrying(p) \ {call}) \in Nat
        BY <4>2, FS_CardinalityType
      <4> QED  BY <4>1, <4>2, <4>3
    <3> QED  BY <2>1, <3>1, <3>2
  <2>2. CASE p \notin call.tokens
    <3>1. Carrying(p)' = Carrying(p)
      BY <2>2 DEF Carrying
    <3> QED  BY <2>2, <3>1, CarryingIsFinite
  <2> QED  BY <2>1, <2>2
<1> QED
  BY <1>1, <1>2

LEMMA InitPush == PushInit => PushInv
<1> SUFFICES ASSUME PushInit PROVE PushInv
  OBVIOUS
<1> USE PushAssumption DEF PushInit
<1>1. PushTypeOK
  BY DEF PushTypeOK, FirstCall, Calls, Asleep
<1>2. IsFiniteSet(calls)
  BY FS_Singleton
<1>3. RingsAreCounted
  <2>1. ASSUME NEW p \in Phones PROVE Carrying(p) = {FirstCall}
    BY DEF FirstCall, Carrying
  <2>2. Cardinality({FirstCall}) = 1
    BY FS_Singleton
  <2> QED
    BY <2>1, <2>2 DEF RingsAreCounted, InHand, Asleep
<1> QED
  BY <1>1, <1>2, <1>3 DEF PushInv, LeftToTry, Asleep

LEMMA StepPush == PushInv /\ [PushNext]_pushVars => PushInv'
<1> SUFFICES ASSUME PushInv, [PushNext]_pushVars PROVE PushInv'
  OBVIOUS
<1> USE PushAssumption DEF PushInv
<1>0. \A p : Cardinality(Carrying(p)) \in Nat
  BY CarryingIsFinite
<1>1. ASSUME NEW p \in Phones, NEW who \in {"hers", "another"}, register_device(p, who)
      PROVE  PushInv'
  <2>1. RingsAreCounted'
    BY <1>1 DEF register_device, RingsAreCounted, Carrying, InHand
  <2> QED
    BY <1>1, <2>1 DEF register_device, PushTypeOK, LeftToTry
<1>2. ASSUME NEW call \in calls, StartCall(call) PROVE PushInv'
  <2>1. /\ work' = [at |-> "sending", call |-> call, left |-> Reachable(call),
                    failed |-> {}, unregistered |-> {}]
        /\ calls' = calls \ {call} /\ call \in Calls /\ Reachable(call) \subseteq call.tokens
        /\ call.tokens \subseteq Phones
    BY <1>2 DEF StartCall, Reachable, PushTypeOK, Calls
  <2>2. PushTypeOK'
    BY <1>2, <2>1 DEF StartCall, PushTypeOK
  <2>3. RingsAreCounted' /\ IsFiniteSet(calls')
    <3>1. ASSUME NEW p \in Phones
          PROVE  rung'[p] + Cardinality(Carrying(p)') + InHand(p)' <= 1 + deaths'
      <4>1. InHand(p) \in {0, 1} /\ InHand(p)' \in {0, 1} /\ (InHand(p)' = 1 => p \in call.tokens)
        BY <2>1 DEF InHand
      <4>2. rung[p] \in Nat /\ deaths \in Nat /\ rung' = rung /\ deaths' = deaths
        BY <1>2 DEF StartCall, PushTypeOK
      <4>3. Cardinality(Carrying(p)') + InHand(p)' <= Cardinality(Carrying(p))
        BY <1>0, <2>1, <4>1, CallTaken
      <4> QED
        BY <1>0, <2>1, <4>1, <4>2, <4>3, CallTaken DEF RingsAreCounted
    <3> QED  BY <2>1, <3>1, CallTaken DEF RingsAreCounted
  <2>4. LeftToTry' /\ strays' = {}
    BY <1>2, <2>1 DEF StartCall, LeftToTry, Reachable
  <2> QED  BY <2>2, <2>3, <2>4
<1>3. ASSUME NEW p \in Phones, NEW issue \in {"delivered", "failed", "unregistered"},
             Try(p, issue)
      PROVE  PushInv'
  <2>1. /\ work \in [at : {"sending"}, call : Calls, left : SUBSET Phones,
                     failed : SUBSET Phones, unregistered : SUBSET Phones]
        /\ p \in work.left /\ work.at = "sending"
    BY <1>3 DEF Try, PushTypeOK, Asleep
  <2>2. PushTypeOK'
    <3>1. work' \in [at : {"sending"}, call : Calls, left : SUBSET Phones,
                     failed : SUBSET Phones, unregistered : SUBSET Phones]
      BY <1>3, <2>1 DEF Try
    <3>2. rung' \in [Phones -> Nat] /\ strays' \subseteq Phones
      BY <1>3 DEF Try, PushTypeOK
    <3>3. UNCHANGED <<account, calls, handed, deaths>>
      BY <1>3 DEF Try
    <3> QED  BY <3>1, <3>2, <3>3 DEF PushTypeOK
  <2>3. LeftToTry' /\ strays' = {}
    BY <1>3, <2>1 DEF Try, LeftToTry
  <2>4. \A q \in Phones :
          /\ q # p => rung'[q] = rung[q] /\ InHand(q)' = InHand(q)
          /\ issue # "delivered" => rung'[p] = rung[p] /\ InHand(p)' <= InHand(p)
          /\ issue = "delivered" => rung'[p] = rung[p] + 1 /\ InHand(p)' = 0 /\ InHand(p) = 1
          /\ InHand(q)' \in Nat /\ InHand(q) \in Nat /\ rung[q] \in Nat
    BY <1>3, <2>1 DEF Try, InHand, LeftToTry, PushTypeOK
  <2>5. calls' = calls /\ deaths' = deaths /\ deaths \in Nat /\ \A q : Carrying(q)' = Carrying(q)
    BY <1>3 DEF Try, Carrying, PushTypeOK
  <2>6. RingsAreCounted'
    BY <1>0, <2>4, <2>5 DEF RingsAreCounted
  <2> QED  BY <2>2, <2>3, <2>5, <2>6
<1>4. CASE RemoveUnregistered
  <2>1. work \in [at : {"sending"}, call : Calls, left : SUBSET Phones,
                  failed : SUBSET Phones, unregistered : SUBSET Phones]
    BY <1>4 DEF RemoveUnregistered, PushTypeOK, Asleep
  <2>2. PushTypeOK' /\ LeftToTry'
    BY <1>4, <2>1 DEF RemoveUnregistered, PushTypeOK, LeftToTry
  <2>3. RingsAreCounted'
    BY <1>4, <2>1 DEF RemoveUnregistered, RingsAreCounted, Carrying, InHand
  <2> QED  BY <1>4, <2>2, <2>3 DEF RemoveUnregistered
<1>5. CASE Conclude
  <2>1. /\ work \in [at : {"sending"}, call : Calls, left : SUBSET Phones,
                     failed : SUBSET Phones, unregistered : SUBSET Phones]
        /\ work' = [at |-> "concluded", call |-> work.call]
        /\ UNCHANGED <<rung, deaths, strays>>
    BY <1>5 DEF Conclude, PushTypeOK, Asleep
  <2> DEFINE retry == [tokens |-> TokensToRetry(work), retries |-> work.call.retries + 1]
  <2>2. /\ \A p \in Phones : InHand(p)' = 0 /\ InHand(p) \in {0, 1} /\ rung[p] \in Nat
        /\ deaths \in Nat
    BY <2>1 DEF InHand, PushTypeOK
  <2>3. CASE calls' = calls
    <3>1. RingsAreCounted'
      <4>1. \A p : Carrying(p)' = Carrying(p)
        BY <2>3 DEF Carrying
      <4> QED  BY <1>0, <2>1, <2>2, <4>1 DEF RingsAreCounted
    <3> QED  BY <1>5, <2>1, <2>3, <3>1 DEF Conclude, PushTypeOK, LeftToTry
  <2>4. CASE calls' = calls \cup {retry} /\ work.call.retries < MaxRetries
    <3>1. retry \in Calls /\ retry.tokens = work.failed
      BY <2>1, <2>4 DEF Calls, TokensToRetry
    <3>2. \A p \in Phones : p \in retry.tokens => InHand(p) = 1
      BY <2>1, <3>1 DEF InHand
    <3>3. RingsAreCounted' /\ IsFiniteSet(calls')
      <4> HIDE DEF retry
      <4>1. /\ IsFiniteSet(calls')
            /\ \A p : /\ Cardinality(Carrying(p)') <= Cardinality(Carrying(p)) + 1
                      /\ p \notin retry.tokens => Cardinality(Carrying(p)') = Cardinality(Carrying(p))
                      /\ Cardinality(Carrying(p)') \in Nat
        BY <2>4, CallPosted
      <4> QED  BY <1>0, <2>1, <2>2, <3>2, <4>1 DEF RingsAreCounted
    <3>4. PushTypeOK'
      BY <1>5, <2>1, <2>4, <3>1 DEF Conclude, PushTypeOK
    <3> QED  BY <2>1, <3>3, <3>4 DEF LeftToTry
  <2> QED  BY <1>5, <2>3, <2>4 DEF Conclude
<1>6. CASE Acknowledge
  <2>1. RingsAreCounted'
    BY <1>6 DEF Acknowledge, Asleep, RingsAreCounted, Carrying, InHand
  <2> QED  BY <1>6, <2>1 DEF Acknowledge, Asleep, PushTypeOK, LeftToTry
<1>7. CASE PushWorkerDies
  <2>1. work.call \in Calls /\ calls' = calls \cup {work.call} /\ deaths' = deaths + 1
        /\ work' = Asleep /\ deaths \in Nat /\ UNCHANGED <<rung, strays>>
    BY <1>7 DEF PushWorkerDies, PushTypeOK
  <2>2. \A p \in Phones : InHand(p)' = 0 /\ InHand(p) \in {0, 1} /\ rung[p] \in Nat
    BY <2>1 DEF InHand, Asleep, PushTypeOK
  <2>3. RingsAreCounted' /\ IsFiniteSet(calls')
    <3>1. /\ IsFiniteSet(calls')
          /\ \A p : /\ Cardinality(Carrying(p)') <= Cardinality(Carrying(p)) + 1
                    /\ Cardinality(Carrying(p)') \in Nat
      BY <2>1, CallPosted
    <3> QED  BY <1>0, <2>1, <2>2, <3>1 DEF RingsAreCounted
  <2>4. PushTypeOK' /\ LeftToTry'
    BY <1>7, <2>1 DEF PushWorkerDies, PushTypeOK, LeftToTry, Asleep
  <2> QED  BY <2>1, <2>3, <2>4
<1>8. CASE UNCHANGED pushVars
  BY <1>8 DEF pushVars, PushTypeOK, RingsAreCounted, Carrying, InHand, LeftToTry
<1> QED
  BY <1>1, <1>2, <1>3, <1>4, <1>5, <1>6, <1>7, <1>8 DEF PushNext

LEMMA PushInvGives == PushInv => RungOnce
<1> SUFFICES ASSUME PushInv PROVE RungOnce
  OBVIOUS
<1>1. ASSUME NEW p \in Phones PROVE rung[p] <= 1 + deaths
  BY CarryingIsFinite DEF PushInv, PushTypeOK, RingsAreCounted, InHand
<1> QED  BY <1>1 DEF PushInv, RungOnce

(* A phone rings for a notice at most once more for each worker that died, *)
(* whatever fails and is tried again, and never for an account it had left *)
(* when the call was started.                                              *)
THEOREM RungOnceHolds == PushSpec => []RungOnce
<1> QED
  BY PushInvGives, InitPush, StepPush, PTL DEF PushSpec

-----------------------------------------------------------------------------
(* The events of a group.                                                  *)

(* The publications that are not over, the events that are out, and those  *)
(* a client owes nobody: it has them, was told of them, they died, or they *)
(* went out before it was there.                                           *)
Ids == {p.id : p \in publishing}
Sent == (1..Len(event)) \ Ids
DeadIds == {p.id : p \in publishing \ UnderWay}
Settled == received \cup forgiven \cup DeadIds \cup (Sent \ owed)

(* Publications are apart, and the counter never runs ahead of the events. *)
PublishersKnown ==
  /\ IsFiniteSet(publishing) /\ Cardinality(publishing) <= Workers
  /\ \A p, q \in publishing : p.id = q.id => p = q
  /\ \A p \in publishing : p.id <= Len(event)
  /\ counter <= Len(event) /\ Len(event) <= MaxEvents

(* Nothing is owed before the first message, nor waits without connection. *)
ClientKnown ==
  /\ owed \subseteq Sent
  /\ lastSeq = NoSeq => owed = {}
  /\ client.at = "away" => client = Away /\ inbox = <<>>
  /\ client.at \in {"joined", "replaying"} => lastSeq # NoSeq

(* While the counter lives, the number of an event is its rank: in the     *)
(* journal, in the inbox, and for a replay under way.                      *)
OneSeries ==
  /\ counter = Len(event) /\ client.upTo <= counter
  /\ \A i \in 1..Len(event) : event[i] = i
  /\ \A p \in publishing : p.seq = p.id /\ (p.at = "journaled" => journal[p.id] = p.id)
  /\ \A n \in Seqs : journal[n] \in {0, n} /\ (n > counter => journal[n] = 0)
  /\ \A n \in Sent : journal[n] = n
  /\ \A k \in 1..Len(inbox) : inbox[k].seq = inbox[k].id /\ inbox[k].id \in Sent
  /\ client.at = "replaying" => \A n \in Sent : n > client.upTo => n \in Waiting

(* And while events go out in order, whoever has received n has settled    *)
(* everything up to n.                                                     *)
InOrder ==
  /\ \A n \in Sent, q \in UnderWay : n < q.id
  /\ \A k, l \in 1..Len(inbox) : k < l => inbox[k].id < inbox[l].id
  /\ lastSeq # NoSeq => 1..lastSeq \subseteq Settled
  /\ client.at = "live" => owed \subseteq received \cup Waiting \cup forgiven

RealtimeInv ==
  /\ RealtimeTypeOK /\ PublishersKnown /\ ClientKnown
  /\ expiries = 0 => OneSeries
  /\ expiries = 0 /\ ~overtaken => InOrder

LEMMA InitRealtime == RealtimeInit => RealtimeInv
<1> SUFFICES ASSUME RealtimeInit PROVE RealtimeInv
  OBVIOUS
<1> USE RealtimeAssumption DEF RealtimeInit, Away, NoSeq
<1>0. 0 \in 0..MaxEvents /\ -1 \in -1..MaxEvents /\ 0 \in 0..MaxCuts /\ 0 \in 0..MaxExpiries
  OBVIOUS
<1>1. RealtimeTypeOK
  <2>1. client \in [at : {"away", "joined", "replaying", "live"}, upTo : 0..MaxEvents]
    BY <1>0
  <2>2. event \in Seq(Seqs) /\ inbox \in Seq([seq : Seqs, id : Seqs])
    OBVIOUS
  <2>3. journal \in [Seqs -> 0..MaxEvents]
    BY <1>0
  <2> QED  BY <1>0, <2>1, <2>2, <2>3 DEF RealtimeTypeOK
<1>2. IsFiniteSet(publishing) /\ Cardinality(publishing) = 0
  BY FS_EmptySet
<1>3. PublishersKnown
  BY <1>2 DEF PublishersKnown
<1>4. ClientKnown
  BY DEF ClientKnown, Sent, Ids
<1>5. OneSeries
  BY DEF OneSeries, Sent, Ids, Seqs
<1>6. InOrder
  BY DEF InOrder, Sent, Ids
<1> QED
  BY <1>1, <1>3, <1>4, <1>5, <1>6 DEF RealtimeInv

(* What a publication becomes, step after step, keeps its number.          *)
LEMMA BecomesKeeps ==
  ASSUME RealtimeInv, NEW p \in publishing, NEW at \in {"journaled", "dead"}, Becomes(p, at)
  PROVE  /\ publishing' \subseteq [at : {"numbered", "journaled", "dead"}, seq : Seqs, id : Seqs]
         /\ IsFiniteSet(publishing') /\ Cardinality(publishing') <= Workers
         /\ \A q, r \in publishing' : q.id = r.id => q = r
         /\ {q.id : q \in publishing'} = Ids
         /\ \A q \in publishing' :
              q \in publishing \ {p} \/ (q.id = p.id /\ q.seq = p.seq /\ q.at = at)
         /\ \A q \in publishing \ {p} : q \in publishing'
         /\ \E q \in publishing' : q.id = p.id /\ q.seq = p.seq /\ q.at = at
<1> DEFINE q0 == [p EXCEPT !.at = at]
<1>1. p \in [at : {"numbered", "journaled", "dead"}, seq : Seqs, id : Seqs]
  BY DEF RealtimeInv, RealtimeTypeOK
<1>2. q0 \in [at : {"numbered", "journaled", "dead"}, seq : Seqs, id : Seqs]
      /\ q0.id = p.id /\ q0.seq = p.seq /\ q0.at = at
  BY <1>1
<1>3. publishing' = (publishing \ {p}) \cup {q0}
  BY DEF Becomes
<1> HIDE DEF q0
<1>4. IsFiniteSet(publishing \ {p}) /\ Cardinality(publishing \ {p}) = Cardinality(publishing) - 1
      /\ IsFiniteSet(publishing) /\ Cardinality(publishing) \in Nat
  BY FS_RemoveElement, FS_CardinalityType DEF RealtimeInv, PublishersKnown
<1>5. IsFiniteSet(publishing') /\ Cardinality(publishing') <= Cardinality(publishing)
  BY <1>3, <1>4, FS_AddElement
<1>6. Cardinality(publishing') \in Nat /\ Cardinality(publishing) <= Workers /\ Workers \in Nat
  BY <1>5, FS_CardinalityType, RealtimeAssumption DEF RealtimeInv, PublishersKnown
<1>7. \A q, r \in publishing : q.id = r.id => q = r
  BY DEF RealtimeInv, PublishersKnown
<1>8. {q.id : q \in publishing'} = Ids
  BY <1>2, <1>3 DEF Ids
<1> QED
  BY <1>2, <1>3, <1>4, <1>5, <1>6, <1>7, <1>8 DEF RealtimeInv, RealtimeTypeOK

LEMMA NumberKeeps == ASSUME RealtimeInv, NumberEvent PROVE RealtimeInv'
<1> DEFINE id0 == Len(event) + 1
           p0 == [at |-> "numbered", seq |-> counter + 1, id |-> id0]
<1> USE RealtimeAssumption
<1>1. /\ counter \in 0..MaxEvents /\ event \in Seq(Seqs) /\ Len(event) \in Nat
      /\ counter <= Len(event) /\ Len(event) < MaxEvents /\ MaxEvents \in Nat
      /\ publishing \subseteq [at : {"numbered", "journaled", "dead"}, seq : Seqs, id : Seqs]
  BY DEF RealtimeInv, RealtimeTypeOK, PublishersKnown, NumberEvent
<1>2. counter + 1 \in Seqs /\ id0 \in Seqs
  BY <1>1 DEF Seqs
<1>3. /\ event' \in Seq(Seqs) /\ Len(event') = id0
      /\ event'[id0] = counter + 1
      /\ \A i \in 1..Len(event) : event'[i] = event[i]
  BY <1>1, <1>2 DEF NumberEvent
<1>4. p0 \in [at : {"numbered", "journaled", "dead"}, seq : Seqs, id : Seqs]
      /\ p0.id = id0 /\ p0.seq = counter + 1 /\ p0.at = "numbered"
  BY <1>2
<1>5. publishing' = publishing \cup {p0}
  BY DEF NumberEvent
<1> HIDE DEF p0
<1>6. UNCHANGED <<journal, expiries, owed, client, lastSeq, inbox, received, forgiven, cuts, overtaken>>
  BY DEF NumberEvent, connection
<1>7. counter' = counter + 1
  BY DEF NumberEvent
<1>8. RealtimeTypeOK'
  BY <1>1, <1>2, <1>3, <1>4, <1>5, <1>6, <1>7 DEF RealtimeInv, RealtimeTypeOK
<1>9. PublishersKnown'
  <2>1. IsFiniteSet(publishing) /\ Cardinality(publishing) < Workers /\ Cardinality(publishing) \in Nat
    BY FS_CardinalityType DEF RealtimeInv, PublishersKnown, NumberEvent
  <2>2. IsFiniteSet(publishing') /\ Cardinality(publishing') <= Workers
    BY <1>5, <2>1, FS_AddElement
  <2>3. \A p \in publishing : p.id <= Len(event) /\ p.id \in Nat
    BY <1>1 DEF RealtimeInv, PublishersKnown, Seqs
  <2>4. \A p, q \in publishing' : p.id = q.id => p = q
    BY <1>1, <1>4, <1>5, <2>3 DEF RealtimeInv, PublishersKnown
  <2> QED
    BY <1>1, <1>3, <1>4, <1>5, <1>7, <2>2, <2>3, <2>4 DEF PublishersKnown
<1>10. Sent' = Sent
  <2>1. Ids' = Ids \cup {id0}
    BY <1>4, <1>5 DEF Ids
  <2>2. id0 \notin 1..Len(event) /\ 1..Len(event') = (1..Len(event)) \cup {id0}
    BY <1>1, <1>3
  <2> QED  BY <2>1, <2>2 DEF Sent
<1>11. Waiting' = Waiting
  BY <1>6 DEF Waiting
<1>12. ClientKnown'
  BY <1>6, <1>10 DEF RealtimeInv, ClientKnown
<1>13. ASSUME expiries' = 0 PROVE OneSeries'
  <2>1. OneSeries
    BY <1>6, <1>13 DEF RealtimeInv
  <2>2. \A i \in 1..Len(event') : event'[i] = i
    BY <1>1, <1>3, <2>1 DEF OneSeries
  <2>3. client.upTo \in Nat
    BY DEF RealtimeInv, RealtimeTypeOK
  <2> QED
    BY <1>1, <1>3, <1>4, <1>5, <1>6, <1>7, <1>10, <1>11, <2>1, <2>2, <2>3 DEF OneSeries, Seqs
<1>14. ASSUME expiries' = 0, ~overtaken' PROVE InOrder'
  <2>1. InOrder
    BY <1>6, <1>14 DEF RealtimeInv
  <2>2. UnderWay' = UnderWay \cup {p0} /\ DeadIds' = DeadIds
    BY <1>4, <1>5 DEF UnderWay, DeadIds
  <2>3. Settled' = Settled
    BY <1>6, <1>10, <2>2 DEF Settled
  <2>4. \A n \in Sent : n < p0.id
    BY <1>1, <1>4 DEF Sent
  <2>5. \A n \in Sent', q \in UnderWay' : n < q.id
    BY <1>10, <2>1, <2>2, <2>4 DEF InOrder
  <2> QED
    BY <1>6, <1>11, <2>1, <2>3, <2>5 DEF InOrder
<1> QED
  BY <1>8, <1>9, <1>12, <1>13, <1>14 DEF RealtimeInv

(* What no publisher or connection touches stays as it was.                *)
LEMMA JournalKeeps ==
  ASSUME RealtimeInv, NEW p \in publishing, JournalEvent(p) PROVE RealtimeInv'
<1> USE RealtimeAssumption
<1>1. p \in [at : {"numbered", "journaled", "dead"}, seq : Seqs, id : Seqs] /\ p.at = "numbered"
  BY DEF RealtimeInv, RealtimeTypeOK, JournalEvent
<1>2. Becomes(p, "journaled")
  BY DEF JournalEvent
<1>3. /\ publishing' \subseteq [at : {"numbered", "journaled", "dead"}, seq : Seqs, id : Seqs]
      /\ IsFiniteSet(publishing') /\ Cardinality(publishing') <= Workers
      /\ \A q, r \in publishing' : q.id = r.id => q = r
      /\ {q.id : q \in publishing'} = Ids
      /\ \A q \in publishing' :
           q \in publishing \ {p} \/ (q.id = p.id /\ q.seq = p.seq /\ q.at = "journaled")
      /\ \A q \in publishing \ {p} : q \in publishing'
      /\ \E q \in publishing' : q.id = p.id /\ q.seq = p.seq /\ q.at = "journaled"
  BY <1>2, BecomesKeeps
<1>4. /\ UNCHANGED <<counter, expiries, event, owed, client, lastSeq, inbox, received,
                     forgiven, cuts, overtaken>>
      /\ journal' = [journal EXCEPT ![p.seq] = p.id]
  BY DEF JournalEvent, connection
<1>5. journal \in [Seqs -> 0..MaxEvents] /\ p.seq \in Seqs /\ p.id \in Seqs /\ p.id \in 0..MaxEvents
  BY <1>1 DEF RealtimeInv, RealtimeTypeOK, Seqs
<1>6. RealtimeTypeOK'
  BY <1>3, <1>4, <1>5 DEF RealtimeInv, RealtimeTypeOK
<1>7. Ids' = Ids /\ Sent' = Sent /\ Waiting' = Waiting
  BY <1>3, <1>4 DEF Ids, Sent, Waiting
<1>8. PublishersKnown'
  BY <1>3, <1>4 DEF RealtimeInv, PublishersKnown
<1>9. ClientKnown'
  BY <1>4, <1>7 DEF RealtimeInv, ClientKnown
<1>10. ASSUME expiries' = 0 PROVE OneSeries'
  <2>1. OneSeries
    BY <1>4, <1>10 DEF RealtimeInv
  <2>2. p.seq = p.id
    BY <2>1 DEF OneSeries
  <2>3. \A n \in Seqs : journal'[n] = IF n = p.id THEN p.id ELSE journal[n]
    BY <1>4, <1>5, <2>2
  <2>4. p.id <= counter /\ p.id \in Ids
    BY <2>1 DEF OneSeries, RealtimeInv, PublishersKnown, Ids
  <2>5. ASSUME NEW n \in Seqs PROVE journal'[n] \in {0, n} /\ (n > counter' => journal'[n] = 0)
    <3>1. p.id \in Nat /\ counter \in Nat
      BY <1>5 DEF RealtimeInv, RealtimeTypeOK, Seqs
    <3>2. ~(p.id > counter)
      BY <2>4, <3>1
    <3> QED  BY <1>4, <2>1, <2>3, <3>2 DEF OneSeries
  <2>6. Sent \subseteq Seqs
    BY DEF Sent, Seqs, RealtimeInv, PublishersKnown, RealtimeTypeOK
  <2>7. \A n \in Sent : journal'[n] = n
    BY <2>1, <2>3, <2>6 DEF OneSeries
  <2>8. \A q \in publishing' : q.seq = q.id /\ (q.at = "journaled" => journal'[q.id] = q.id)
    BY <1>1, <1>3, <2>1, <2>2, <2>3 DEF OneSeries
  <2> QED
    BY <1>4, <1>7, <2>1, <2>5, <2>7, <2>8 DEF OneSeries
<1>11. ASSUME expiries' = 0, ~overtaken' PROVE InOrder'
  <2>1. InOrder
    BY <1>4, <1>11 DEF RealtimeInv
  <2>2. DeadIds' = DeadIds
    BY <1>1, <1>3 DEF DeadIds, UnderWay
  <2>3. \A q \in UnderWay' : \E r \in UnderWay : r.id = q.id
    BY <1>1, <1>3 DEF UnderWay
  <2>4. \A n \in Sent', q \in UnderWay' : n < q.id
    BY <1>7, <2>1, <2>3 DEF InOrder
  <2>5. Settled' = Settled
    BY <1>4, <1>7, <2>2 DEF Settled
  <2> QED
    BY <1>4, <1>7, <2>1, <2>4, <2>5 DEF InOrder
<1> QED
  BY <1>6, <1>8, <1>9, <1>10, <1>11 DEF RealtimeInv

LEMMA DiesKeeps ==
  ASSUME RealtimeInv, NEW p \in publishing, PublisherDies(p) PROVE RealtimeInv'
<1> USE RealtimeAssumption
<1>1. p \in [at : {"numbered", "journaled", "dead"}, seq : Seqs, id : Seqs] /\ p.at # "dead"
  BY DEF RealtimeInv, RealtimeTypeOK, PublisherDies
<1>2. Becomes(p, "dead")
  BY DEF PublisherDies
<1>3. /\ publishing' \subseteq [at : {"numbered", "journaled", "dead"}, seq : Seqs, id : Seqs]
      /\ IsFiniteSet(publishing') /\ Cardinality(publishing') <= Workers
      /\ \A q, r \in publishing' : q.id = r.id => q = r
      /\ {q.id : q \in publishing'} = Ids
      /\ \A q \in publishing' :
           q \in publishing \ {p} \/ (q.id = p.id /\ q.seq = p.seq /\ q.at = "dead")
      /\ \A q \in publishing \ {p} : q \in publishing'
      /\ \E q \in publishing' : q.id = p.id /\ q.seq = p.seq /\ q.at = "dead"
  BY <1>2, BecomesKeeps
<1>4. UNCHANGED <<counter, journal, expiries, event, owed, client, lastSeq, inbox, received,
                  forgiven, cuts, overtaken>>
  BY DEF PublisherDies, connection, log
<1>6. RealtimeTypeOK'
  BY <1>3, <1>4 DEF RealtimeInv, RealtimeTypeOK
<1>7. Ids' = Ids /\ Sent' = Sent /\ Waiting' = Waiting
  BY <1>3, <1>4 DEF Ids, Sent, Waiting
<1>8. PublishersKnown'
  BY <1>3, <1>4 DEF RealtimeInv, PublishersKnown
<1>9. ClientKnown'
  BY <1>4, <1>7 DEF RealtimeInv, ClientKnown
<1>10. ASSUME expiries' = 0 PROVE OneSeries'
  <2>1. OneSeries
    BY <1>4, <1>10 DEF RealtimeInv
  <2>8. \A q \in publishing' : q.seq = q.id /\ (q.at = "journaled" => journal'[q.id] = q.id)
    BY <1>1, <1>3, <1>4, <2>1 DEF OneSeries
  <2> QED
    BY <1>4, <1>7, <2>1, <2>8 DEF OneSeries
<1>11. ASSUME expiries' = 0, ~overtaken' PROVE InOrder'
  <2>1. InOrder
    BY <1>4, <1>11 DEF RealtimeInv
  <2>2. DeadIds \subseteq DeadIds'
    BY <1>1, <1>3 DEF DeadIds, UnderWay
  <2>3. \A q \in UnderWay' : q \in UnderWay
    BY <1>1, <1>3 DEF UnderWay
  <2>4. \A n \in Sent', q \in UnderWay' : n < q.id
    BY <1>7, <2>1, <2>3 DEF InOrder
  <2>5. Settled \subseteq Settled'
    BY <1>4, <1>7, <2>2 DEF Settled
  <2> QED
    BY <1>4, <1>7, <2>1, <2>4, <2>5 DEF InOrder
<1> QED
  BY <1>6, <1>8, <1>9, <1>10, <1>11 DEF RealtimeInv

LEMMA SendKeeps ==
  ASSUME RealtimeInv, NEW p \in publishing, SendEvent(p) PROVE RealtimeInv'
<1> USE RealtimeAssumption
<1>1. p \in [at : {"numbered", "journaled", "dead"}, seq : Seqs, id : Seqs] /\ p.at = "journaled"
  BY DEF RealtimeInv, RealtimeTypeOK, SendEvent
<1>2. /\ owed' = IF lastSeq = NoSeq THEN owed ELSE owed \cup {p.id}
      /\ inbox' = IF client = Away THEN inbox ELSE Append(inbox, Message(p))
      /\ overtaken' = (overtaken \/ Overtakes(p))
      /\ publishing' = publishing \ {p}
      /\ UNCHANGED <<counter, journal, expiries, event, client, lastSeq, received, forgiven, cuts>>
  BY DEF SendEvent, log
<1>3. Message(p) \in [seq : Seqs, id : Seqs] /\ Message(p).seq = p.seq /\ Message(p).id = p.id
  BY <1>1 DEF Message
<1>4. inbox \in Seq([seq : Seqs, id : Seqs])
  BY DEF RealtimeInv, RealtimeTypeOK
<1>5. /\ Len(inbox) \in Nat /\ Len(Append(inbox, Message(p))) = Len(inbox) + 1
      /\ Append(inbox, Message(p)) \in Seq([seq : Seqs, id : Seqs])
      /\ \A k \in 1..Len(inbox) : Append(inbox, Message(p))[k] = inbox[k]
      /\ Append(inbox, Message(p))[Len(inbox) + 1] = Message(p)
  BY <1>3, <1>4
<1> HIDE DEF Message
<1>6. RealtimeTypeOK'
  BY <1>1, <1>2, <1>4, <1>5 DEF RealtimeInv, RealtimeTypeOK
<1>7. PublishersKnown'
  <2>1. IsFiniteSet(publishing) /\ Cardinality(publishing) \in Nat
    BY FS_CardinalityType DEF RealtimeInv, PublishersKnown
  <2>2. IsFiniteSet(publishing') /\ Cardinality(publishing') = Cardinality(publishing) - 1
    BY <1>2, <2>1, FS_RemoveElement
  <2> QED
    BY <1>2, <2>1, <2>2 DEF RealtimeInv, PublishersKnown
<1>8. p.id \in Nat /\ p.id \in 1..Len(event)
  BY <1>1 DEF RealtimeInv, RealtimeTypeOK, PublishersKnown, Seqs
<1>9. Sent' = Sent \cup {p.id} /\ p.id \notin Sent
  <2>1. Ids' = Ids \ {p.id} /\ p.id \in Ids
    BY <1>2 DEF Ids, RealtimeInv, PublishersKnown
  <2> QED
    BY <1>2, <1>8, <2>1 DEF Sent
<1>10. Waiting \subseteq Waiting' /\ (client # Away => p.id \in Waiting') /\ Waiting' \subseteq Waiting \cup {p.id}
  <2>1. DOMAIN inbox = 1..Len(inbox) /\ DOMAIN Append(inbox, Message(p)) = 1..(Len(inbox) + 1)
    BY <1>4, <1>5
  <2>2. CASE client = Away
    BY <1>2, <2>2 DEF Waiting
  <2>3. CASE client # Away
    <3>1. ToSet(inbox') = ToSet(inbox) \cup {Message(p)}
      BY <1>2, <1>5, <2>1, <2>3 DEF ToSet
    <3> QED
      BY <1>3, <3>1 DEF Waiting
  <2> QED  BY <2>2, <2>3
<1>11. ClientKnown'
  BY <1>2, <1>9 DEF RealtimeInv, ClientKnown, Away
<1>12. ASSUME expiries' = 0 PROVE OneSeries'
  <2>1. OneSeries
    BY <1>2, <1>12 DEF RealtimeInv
  <2>2. journal'[p.id] = p.id /\ p.seq = p.id
    BY <1>1, <1>2, <2>1 DEF OneSeries
  <2>3. \A k \in 1..Len(inbox') : inbox'[k].seq = inbox'[k].id /\ inbox'[k].id \in Sent'
    <3>1. CASE client = Away
      BY <1>2, <1>9, <2>1, <3>1 DEF OneSeries
    <3>2. CASE client # Away
      BY <1>2, <1>3, <1>5, <1>9, <2>1, <2>2, <3>2 DEF OneSeries
    <3> QED  BY <3>1, <3>2
  <2>4. client.at = "replaying" => \A n \in Sent' : n > client.upTo => n \in Waiting'
    BY <1>9, <1>10, <2>1 DEF OneSeries, Away
  <2> QED
    BY <1>2, <1>9, <2>1, <2>2, <2>3, <2>4 DEF OneSeries
<1>13. ASSUME expiries' = 0, ~overtaken' PROVE InOrder'
  <2>1. InOrder /\ OneSeries
    BY <1>2, <1>13 DEF RealtimeInv
  <2>2. p \in UnderWay /\ UnderWay' = UnderWay \ {p} /\ DeadIds' = DeadIds
    BY <1>1, <1>2 DEF UnderWay, DeadIds
  <2>3. \A q \in UnderWay' : p.id < q.id
    <3>1. ASSUME NEW q \in UnderWay' PROVE p.id < q.id
      <4>1. q \in UnderWay /\ q # p /\ q \in publishing /\ q.id \in Nat
        BY <2>2 DEF UnderWay, RealtimeInv, RealtimeTypeOK, Seqs
      <4>2. ~(q.id < p.id)
        BY <1>2, <1>13, <4>1 DEF Overtakes
      <4>3. q.id # p.id
        BY <4>1 DEF RealtimeInv, PublishersKnown
      <4> QED  BY <1>8, <4>1, <4>2, <4>3
    <3> QED  BY <3>1
  <2>4. \A n \in Sent', q \in UnderWay' : n < q.id
    BY <1>9, <2>1, <2>2, <2>3 DEF InOrder
  <2>5. \A n \in Sent : n < p.id
    BY <2>1, <2>2 DEF InOrder
  <2>6. \A k, l \in 1..Len(inbox') : k < l => inbox'[k].id < inbox'[l].id
    <3>1. CASE client = Away
      BY <1>2, <2>1, <3>1 DEF InOrder
    <3>2. CASE client # Away
      <4>1. \A k \in 1..Len(inbox) : inbox[k].id < p.id
        BY <2>1, <2>5 DEF OneSeries
      <4>2. ASSUME NEW k \in 1..Len(inbox'), NEW l \in 1..Len(inbox'), k < l
            PROVE  inbox'[k].id < inbox'[l].id
        <5>1. k \in 1..Len(inbox) /\ inbox'[k] = inbox[k]
          BY <1>2, <1>5, <3>2, <4>2
        <5>2. CASE l \in 1..Len(inbox)
          BY <1>2, <1>5, <2>1, <3>2, <4>2, <5>1, <5>2 DEF InOrder
        <5>3. CASE l = Len(inbox) + 1
          BY <1>2, <1>3, <1>5, <3>2, <4>1, <5>1, <5>3
        <5> QED  BY <1>2, <1>5, <3>2, <5>2, <5>3
      <4> QED  BY <4>2
    <3> QED  BY <3>1, <3>2
  <2>7. Settled \subseteq Settled'
    <3>1. Sent \ owed \subseteq Sent' \ owed'
      BY <1>2, <1>9
    <3> QED  BY <1>2, <2>2, <3>1 DEF Settled
  <2>8. lastSeq' # NoSeq => 1..lastSeq' \subseteq Settled'
    BY <1>2, <2>1, <2>7 DEF InOrder
  <2>9. client'.at = "live" => owed' \subseteq received' \cup Waiting' \cup forgiven'
    BY <1>2, <1>10, <2>1 DEF InOrder, Away
  <2> QED
    BY <2>4, <2>6, <2>8, <2>9 DEF InOrder
<1> QED
  BY <1>6, <1>7, <1>11, <1>12, <1>13 DEF RealtimeInv

LEMMA ExpiresKeeps == ASSUME RealtimeInv, CounterExpires PROVE RealtimeInv'
<1> USE RealtimeAssumption
<1>1. /\ UNCHANGED <<journal, publishing, event, owed, client, lastSeq, inbox, received,
                     forgiven, cuts, overtaken>>
      /\ counter' = 0 /\ expiries' = expiries + 1 /\ expiries < MaxExpiries
  BY DEF CounterExpires, connection
<1>2. counter' \in 0..MaxEvents /\ expiries' \in 0..MaxExpiries /\ expiries' # 0
  BY <1>1 DEF RealtimeInv, RealtimeTypeOK
<1>3. RealtimeTypeOK'
  BY <1>1, <1>2 DEF RealtimeInv, RealtimeTypeOK
<1>4. event \in Seq(Seqs)
  BY DEF RealtimeInv, RealtimeTypeOK
<1>5. PublishersKnown'
  BY <1>1, <1>4 DEF RealtimeInv, PublishersKnown
<1>6. ClientKnown'
  BY <1>1 DEF RealtimeInv, ClientKnown, Sent, Ids
<1> QED
  BY <1>2, <1>3, <1>5, <1>6 DEF RealtimeInv

(* Of the group, a connection only reads.                                  *)
LEMMA PublishersStay ==
  ASSUME RealtimeInv, UNCHANGED <<log, publishing, event>>
  PROVE  PublishersKnown' /\ Sent' = Sent /\ DeadIds' = DeadIds /\ UnderWay' = UnderWay
BY DEF RealtimeInv, PublishersKnown, Sent, Ids, DeadIds, UnderWay, log

LEMMA ConnectKeeps == ASSUME RealtimeInv, Connect PROVE RealtimeInv'
<1> USE RealtimeAssumption
<1>1. /\ UNCHANGED <<log, publishing, event, owed, lastSeq, inbox, received, forgiven, cuts, overtaken>>
      /\ UNCHANGED <<counter, journal, expiries>> /\ client = Away
      /\ client' = IF lastSeq = NoSeq THEN [at |-> "live", upTo |-> 0]
                   ELSE [at |-> "joined", upTo |-> 0]
  BY DEF Connect, log
<1>2. 0 \in 0..MaxEvents
  OBVIOUS
<1>3. RealtimeTypeOK'
  BY <1>1, <1>2 DEF RealtimeInv, RealtimeTypeOK
<1>4. PublishersKnown' /\ Sent' = Sent /\ DeadIds' = DeadIds /\ UnderWay' = UnderWay /\ Waiting' = Waiting
  BY <1>1, PublishersStay DEF Waiting
<1>5. ClientKnown'
  BY <1>1, <1>4 DEF RealtimeInv, ClientKnown
<1>6. ASSUME expiries' = 0 PROVE OneSeries'
  BY <1>1, <1>2, <1>4, <1>6 DEF RealtimeInv, OneSeries, Away
<1>7. ASSUME expiries' = 0, ~overtaken' PROVE InOrder'
  <2>1. InOrder
    BY <1>1, <1>7 DEF RealtimeInv
  <2>2. client'.at = "live" => owed' = {}
    BY <1>1 DEF RealtimeInv, ClientKnown
  <2> QED
    BY <1>1, <1>4, <2>1, <2>2 DEF InOrder, Settled
<1> QED
  BY <1>3, <1>4, <1>5, <1>6, <1>7 DEF RealtimeInv

LEMMA ReadKeeps == ASSUME RealtimeInv, ReadCounter PROVE RealtimeInv'
<1> USE RealtimeAssumption
<1>1. /\ UNCHANGED <<log, publishing, event, owed, lastSeq, inbox, received, forgiven, cuts, overtaken>>
      /\ UNCHANGED <<counter, journal, expiries>> /\ client.at = "joined"
      /\ client' = [at |-> "replaying", upTo |-> counter]
  BY DEF ReadCounter, log
<1>3. RealtimeTypeOK'
  BY <1>1 DEF RealtimeInv, RealtimeTypeOK
<1>4. PublishersKnown' /\ Sent' = Sent /\ DeadIds' = DeadIds /\ UnderWay' = UnderWay /\ Waiting' = Waiting
  BY <1>1, PublishersStay DEF Waiting
<1>5. ClientKnown'
  BY <1>1, <1>4 DEF RealtimeInv, ClientKnown
<1>6. ASSUME expiries' = 0 PROVE OneSeries'
  <2>1. OneSeries
    BY <1>1, <1>6 DEF RealtimeInv
  <2>2. counter \in Nat /\ counter = Len(event)
    BY <2>1 DEF RealtimeInv, RealtimeTypeOK, OneSeries
  <2>3. \A n \in Sent : ~(n > counter)
    BY <2>2 DEF Sent
  <2> QED
    BY <1>1, <1>4, <2>1, <2>2, <2>3 DEF OneSeries
<1>7. ASSUME expiries' = 0, ~overtaken' PROVE InOrder'
  BY <1>1, <1>4, <1>7 DEF RealtimeInv, InOrder, Settled
<1> QED
  BY <1>3, <1>4, <1>5, <1>6, <1>7 DEF RealtimeInv

LEMMA CutKeeps == ASSUME RealtimeInv, ConnectionCut PROVE RealtimeInv'
<1> USE RealtimeAssumption
<1>1. /\ UNCHANGED <<log, publishing, event, owed, lastSeq, received, forgiven, overtaken>>
      /\ UNCHANGED <<counter, journal, expiries>>
      /\ client' = [at |-> "away", upTo |-> 0] /\ inbox' = <<>> /\ cuts < MaxCuts
      /\ cuts' = IF lastSeq = NoSeq THEN cuts ELSE cuts + 1
  BY DEF ConnectionCut, log, Away
<1>2. 0 \in 0..MaxEvents /\ cuts' \in 0..MaxCuts /\ inbox' \in Seq([seq : Seqs, id : Seqs])
  BY <1>1 DEF RealtimeInv, RealtimeTypeOK
<1>3. RealtimeTypeOK'
  BY <1>1, <1>2 DEF RealtimeInv, RealtimeTypeOK
<1>4. PublishersKnown' /\ Sent' = Sent /\ DeadIds' = DeadIds /\ UnderWay' = UnderWay
  BY <1>1, PublishersStay
<1>5. ClientKnown'
  BY <1>1, <1>4 DEF RealtimeInv, ClientKnown, Away
<1>6. ASSUME expiries' = 0 PROVE OneSeries'
  <2>1. OneSeries
    BY <1>1, <1>6 DEF RealtimeInv
  <2>2. counter \in Nat /\ 0 <= counter
    BY DEF RealtimeInv, RealtimeTypeOK
  <2> QED
    BY <1>1, <1>4, <2>1, <2>2 DEF OneSeries
<1>7. ASSUME expiries' = 0, ~overtaken' PROVE InOrder'
  BY <1>1, <1>4, <1>7 DEF RealtimeInv, InOrder, Settled
<1> QED
  BY <1>3, <1>4, <1>5, <1>6, <1>7 DEF RealtimeInv

LEMMA RelayKeeps == ASSUME RealtimeInv, Relay PROVE RealtimeInv'
<1> USE RealtimeAssumption
<1>1. /\ UNCHANGED <<log, publishing, event, owed, client, forgiven, cuts, overtaken>>
      /\ UNCHANGED <<counter, journal, expiries>>
      /\ client.at = "live" /\ inbox # <<>>
      /\ received' = received \cup {Head(inbox).id}
      /\ lastSeq' = Head(inbox).seq /\ inbox' = Tail(inbox)
  BY DEF Relay, log
<1>2. /\ inbox \in Seq([seq : Seqs, id : Seqs]) /\ Len(inbox) \in Nat /\ Len(inbox) >= 1
      /\ Head(inbox) = inbox[1] /\ inbox[1] \in [seq : Seqs, id : Seqs]
      /\ inbox' \in Seq([seq : Seqs, id : Seqs]) /\ Len(inbox') = Len(inbox) - 1
      /\ \A k \in 1..Len(inbox') : inbox'[k] = inbox[k + 1]
  <2> DEFINE M == [seq : Seqs, id : Seqs]
  <2>1. inbox \in Seq(M) /\ inbox # <<>> /\ inbox' = Tail(inbox)
    BY <1>1 DEF RealtimeInv, RealtimeTypeOK
  <2> HIDE DEF M
  <2>2. Len(inbox) \in Nat /\ Len(inbox) >= 1
    BY <2>1
  <2>3. Head(inbox) = inbox[1] /\ inbox[1] \in M
    BY <2>1, <2>2
  <2>4. inbox' \in Seq(M) /\ Len(inbox') = Len(inbox) - 1
    BY <2>1, <2>2
  <2>5. \A k \in 1..Len(inbox') : inbox'[k] = inbox[k + 1]
    BY <2>1, <2>2
  <2> QED  BY <2>1, <2>2, <2>3, <2>4, <2>5 DEF M
<1> DEFINE m == inbox[1]
<1>3. m.seq \in Seqs /\ m.id \in Seqs /\ m.seq \in Nat /\ m.id \in Nat /\ m.seq \in -1..MaxEvents
      /\ m.seq # -1
  BY <1>2 DEF Seqs
<1>4. RealtimeTypeOK'
  BY <1>1, <1>2, <1>3 DEF RealtimeInv, RealtimeTypeOK
<1>5. PublishersKnown' /\ Sent' = Sent /\ DeadIds' = DeadIds /\ UnderWay' = UnderWay
  BY <1>1, PublishersStay
<1>6. ClientKnown'
  BY <1>1, <1>2, <1>3, <1>5 DEF RealtimeInv, ClientKnown, Away, NoSeq
<1>7. Waiting \subseteq Waiting' \cup {m.id}
  <2>1. DOMAIN inbox = 1..Len(inbox) /\ DOMAIN inbox' = 1..Len(inbox')
    BY <1>2
  <2>2. ASSUME NEW w \in Waiting PROVE w \in Waiting' \cup {m.id}
    <3>1. PICK k \in 1..Len(inbox) : w = inbox[k].id
      BY <2>1 DEF Waiting, ToSet
    <3>2. CASE k = 1
      BY <3>1, <3>2
    <3>3. CASE k # 1
      <4>1. k - 1 \in 1..Len(inbox') /\ inbox'[k - 1] = inbox[k]
        BY <1>2, <3>3
      <4> QED  BY <2>1, <3>1, <4>1 DEF Waiting, ToSet
    <3> QED  BY <3>2, <3>3
  <2> QED  BY <2>2
<1>8. ASSUME expiries' = 0 PROVE OneSeries'
  <2>1. OneSeries
    BY <1>1, <1>8 DEF RealtimeInv
  <2>2. ASSUME NEW k \in 1..Len(inbox')
        PROVE  inbox'[k].seq = inbox'[k].id /\ inbox'[k].id \in Sent
    <3>1. k + 1 \in 1..Len(inbox) /\ inbox'[k] = inbox[k + 1]
      BY <1>2
    <3> QED  BY <2>1, <3>1 DEF OneSeries
  <2> QED
    BY <1>1, <1>5, <2>1, <2>2 DEF OneSeries
<1>9. ASSUME expiries' = 0, ~overtaken' PROVE InOrder'
  <2>1. InOrder /\ OneSeries
    BY <1>1, <1>9 DEF RealtimeInv
  <2>2. ASSUME NEW k \in 1..Len(inbox'), NEW l \in 1..Len(inbox'), k < l
        PROVE  inbox'[k].id < inbox'[l].id
    <3>1. /\ k + 1 \in 1..Len(inbox) /\ inbox'[k] = inbox[k + 1]
          /\ l + 1 \in 1..Len(inbox) /\ inbox'[l] = inbox[l + 1] /\ k + 1 < l + 1
      BY <1>2, <2>2
    <3> QED  BY <2>1, <3>1 DEF InOrder
  <2>3. owed' \subseteq received' \cup Waiting' \cup forgiven'
    BY <1>1, <1>7, <2>1 DEF InOrder
  <2>4. m.seq = m.id /\ m.id \in Sent
    BY <1>2, <2>1 DEF OneSeries
  <2>5. Settled \subseteq Settled'
    BY <1>1, <1>5 DEF Settled
  <2>6. ASSUME NEW n \in 1..m.id PROVE n \in Settled'
    <3>1. n \in 1..Len(event)
      BY <2>4 DEF Sent
    <3>2. CASE n \in Sent
      <4>1. CASE n \in Waiting
        <5>1. PICK k \in 1..Len(inbox) : n = inbox[k].id
          BY <1>2, <4>1 DEF Waiting, ToSet
        <5>2. k # 1 => m.id < n
          BY <1>2, <2>1, <5>1 DEF InOrder
        <5>3. n = m.id
          BY <1>3, <5>1, <5>2
        <5> QED  BY <1>1, <1>2, <5>3 DEF Settled
      <4>2. CASE n \notin Waiting /\ n \in owed
        BY <1>1, <2>1, <2>5, <4>2 DEF InOrder, Settled
      <4>3. CASE n \notin owed
        BY <1>1, <1>5, <3>2, <4>3 DEF Settled
      <4> QED  BY <4>1, <4>2, <4>3
    <3>3. CASE n \notin Sent
      <4>1. PICK q \in publishing : q.id = n
        BY <3>1, <3>3 DEF Sent, Ids
      <4>2. q \notin UnderWay
        BY <1>3, <2>1, <2>4, <4>1 DEF InOrder
      <4> QED  BY <1>5, <4>1, <4>2 DEF Settled, DeadIds
    <3> QED  BY <3>2, <3>3
  <2>7. lastSeq' = m.id
    BY <1>1, <1>2, <2>4
  <2>8. 1..lastSeq' \subseteq Settled'
    BY <2>6, <2>7
  <2> QED
    BY <1>1, <1>5, <2>1, <2>2, <2>3, <2>8 DEF InOrder
<1> QED
  BY <1>4, <1>5, <1>6, <1>8, <1>9 DEF RealtimeInv

(* The numbers the client missed have a least and a greatest one.          *)
LEMMA MissedHasEnds ==
  ASSUME RealtimeInv, Missed # {}
  PROVE  /\ Missed \subseteq Seqs
         /\ Min(Missed) \in Missed /\ \A n \in Missed : Min(Missed) <= n
         /\ Max(Missed) \in Missed /\ \A n \in Missed : n <= Max(Missed)
<1>1. Missed \subseteq 0..MaxEvents /\ Missed \subseteq Seqs /\ MaxEvents \in Nat /\ Missed \subseteq Nat
  BY RealtimeAssumption DEF Missed, Window, Seqs
<1>2. \E t \in Missed : \A n \in Missed : t <= n
  BY <1>1, LeastNatural
<1>3. \E t \in Missed : \A n \in Missed : n <= t
  BY <1>1, GreatestNatural
<1>4. \E t \in Missed : \A n \in Missed : t >= n
  BY <1>1, <1>3
<1>5. Min(Missed) \in Missed /\ \A n \in Missed : Min(Missed) <= n
  BY <1>2 DEF Min
<1>6. Max(Missed) \in Missed /\ \A n \in Missed : Max(Missed) >= n
  BY <1>4 DEF Max
<1> QED
  BY <1>1, <1>5, <1>6

(* The journal lacks only what publishers still hold, or took with them,   *)
(* and there are fewer of them than the replay looks back at numbers.      *)
LEMMA BacklogReaches ==
  ASSUME RealtimeInv, OneSeries, lastSeq # NoSeq, lastSeq < client.upTo - BacklogSize
  PROVE  Missed # {}
<1> DEFINE Back == ((client.upTo - BacklogSize) + 1)..client.upTo
<1> USE RealtimeAssumption
<1>1. /\ client.upTo \in Nat /\ counter \in Nat /\ client.upTo <= counter /\ counter = Len(event)
      /\ lastSeq \in Int /\ lastSeq >= 0 /\ counter <= MaxEvents
  BY DEF RealtimeInv, RealtimeTypeOK, OneSeries, NoSeq, PublishersKnown
<1>2. Back \subseteq Window /\ Back \subseteq 1..Len(event) /\ Back \subseteq Seqs
  BY <1>1 DEF Window, Seqs
<1>3. IsFiniteSet(Back) /\ Cardinality(Back) = BacklogSize
  <2> DEFINE a == (client.upTo - BacklogSize) + 1
             b == client.upTo
  <2>1. a \in Int /\ b \in Int /\ ~(a > b) /\ (b - a) + 1 = BacklogSize
    BY <1>1
  <2> HIDE DEF a, b
  <2>2. IsFiniteSet(a..b) /\ Cardinality(a..b) = BacklogSize
    BY <2>1, FS_Interval
  <2> QED  BY <2>2 DEF a, b
<1>4. SUFFICES ASSUME Missed = {} PROVE FALSE
  OBVIOUS
<1>5. Back \subseteq Ids
  <2>1. \A n \in Back : journal[n] = 0 /\ n # 0
    BY <1>1, <1>2, <1>4 DEF Missed
  <2>2. \A n \in Back : n \notin Sent
    BY <2>1 DEF OneSeries
  <2> QED  BY <1>2, <2>2 DEF Sent
<1>6. IsFiniteSet(publishing) /\ Cardinality(publishing) <= Workers
  BY DEF RealtimeInv, PublishersKnown
<1>7. IsFiniteSet(Ids) /\ Cardinality(Ids) <= Cardinality(publishing)
  <2> DEFINE f == [p \in publishing |-> p.id]
  <2>1. f \in Surjection(publishing, Ids)
    BY DEF Surjection, Ids
  <2> QED  BY <1>6, <2>1, FS_Surjection
<1>8. Cardinality(Back) <= Cardinality(Ids)
  BY <1>5, <1>7, FS_Subset
<1> QED
  BY <1>3, <1>6, <1>7, <1>8, FS_CardinalityType

LEMMA CatchUpKeeps == ASSUME RealtimeInv, CatchUp PROVE RealtimeInv'
<1> USE RealtimeAssumption
<1>1. /\ UNCHANGED <<log, publishing, event, owed, inbox, cuts>>
      /\ UNCHANGED <<counter, journal, expiries>>
      /\ client.at = "replaying" /\ client' = [at |-> "live", upTo |-> 0]
      /\ received' = received \cup {journal[n] : n \in Missed}
      /\ forgiven' = forgiven \cup Announced
      /\ lastSeq' = IF Missed = {} THEN lastSeq ELSE Max(Missed)
      /\ overtaken' = (overtaken \/ JumpsOver)
  BY DEF CatchUp, log
<1>2. Missed \subseteq Seqs /\ \A n \in Missed : journal[n] \in Seqs
  <2>1. Missed \subseteq Seqs /\ journal \in [Seqs -> 0..MaxEvents]
    BY DEF Missed, Window, RealtimeInv, RealtimeTypeOK
  <2> QED  BY <2>1 DEF Missed, Seqs
<1>3. Announced \subseteq Seqs
  <2>1. 1..Len(event) \subseteq Seqs
    BY DEF RealtimeInv, RealtimeTypeOK, PublishersKnown, Seqs
  <2> QED  BY <2>1 DEF Announced
<1>4. lastSeq' \in -1..MaxEvents /\ (Missed # {} => lastSeq' \in Missed)
  <2>1. CASE Missed = {}
    BY <1>1, <2>1 DEF RealtimeInv, RealtimeTypeOK
  <2>2. CASE Missed # {}
    <3>1. lastSeq' = Max(Missed) /\ Max(Missed) \in Missed
      BY <1>1, <2>2, MissedHasEnds
    <3>2. \A n \in Seqs : n \in -1..MaxEvents
      BY DEF Seqs
    <3> QED  BY <1>2, <3>1, <3>2
  <2> QED  BY <2>1, <2>2
<1>5. RealtimeTypeOK'
  <2>1. overtaken' \in BOOLEAN /\ 0 \in 0..MaxEvents
    BY <1>1
  <2> QED
    BY <1>1, <1>2, <1>3, <1>4, <2>1 DEF RealtimeInv, RealtimeTypeOK
<1>6. PublishersKnown' /\ Sent' = Sent /\ DeadIds' = DeadIds /\ UnderWay' = UnderWay /\ Waiting' = Waiting
  BY <1>1, PublishersStay DEF Waiting
<1>7. lastSeq # NoSeq
  BY <1>1 DEF RealtimeInv, ClientKnown
<1>8. lastSeq' # NoSeq
  BY <1>1, <1>2, <1>4, <1>7 DEF Seqs, NoSeq
<1>9. ClientKnown'
  BY <1>1, <1>6, <1>8 DEF RealtimeInv, ClientKnown
<1>10. ASSUME expiries' = 0 PROVE OneSeries'
  <2>1. OneSeries
    BY <1>1, <1>10 DEF RealtimeInv
  <2>2. counter \in Nat /\ 0 <= counter
    BY DEF RealtimeInv, RealtimeTypeOK
  <2> QED
    BY <1>1, <1>6, <2>1, <2>2 DEF OneSeries
<1>11. ASSUME expiries' = 0, ~overtaken' PROVE InOrder'
  <2>1. InOrder /\ OneSeries /\ ~JumpsOver
    BY <1>1, <1>11 DEF RealtimeInv
  <2>2. \A n \in Missed : n \in received'
    BY <1>1, <1>2, <2>1 DEF OneSeries, Missed
  <2>3. lastSeq \in Int /\ client.upTo \in Nat /\ BacklogSize \in Nat /\ Len(event) \in Nat
        /\ lastSeq >= 0 /\ Len(event) <= MaxEvents
    BY <1>7 DEF RealtimeInv, RealtimeTypeOK, NoSeq, PublishersKnown
  <2>4. Settled \subseteq Settled'
    BY <1>1, <1>6 DEF Settled
  (* What lies between the last number received and the replay.            *)
  <2>5. ASSUME NEW n \in 1..Len(event), n > lastSeq, n <= client.upTo
        PROVE  \/ n \in received' \cup forgiven'
               \/ n \notin Sent /\ n > client.upTo - BacklogSize /\ n \in Seqs
    <3>1. n \in Seqs /\ n \in Nat
      BY <2>3, <2>5 DEF Seqs
    <3>2. CASE n \in Missed
      BY <2>2, <3>2
    <3>3. CASE n \notin Missed /\ n > client.upTo - BacklogSize
      <4>1. journal[n] = 0
        BY <2>5, <3>1, <3>3 DEF Missed, Window
      <4> QED  BY <2>1, <3>1, <3>3, <4>1 DEF OneSeries
    <3>4. CASE ~(n > client.upTo - BacklogSize)
      <4>1. lastSeq < client.upTo - BacklogSize
        BY <2>3, <2>5, <3>1, <3>4
      <4>2. Missed # {}
        BY <1>7, <2>1, <4>1, BacklogReaches
      <4>3. Min(Missed) \in Missed
        BY <4>2, MissedHasEnds
      <4>4. n < Min(Missed)
        <5>1. \A m \in Missed : m \in Int /\ m > client.upTo - BacklogSize
          BY <1>2 DEF Missed, Window, Seqs
        <5>2. \A m \in Missed : n < m
          BY <2>3, <3>1, <3>4, <5>1
        <5> QED  BY <4>3, <5>2
      <4>5. event[n] = n
        BY <2>1, <2>5 DEF OneSeries
      <4>6. n \in Announced
        BY <2>3, <2>5, <4>2, <4>4, <4>5 DEF Announced
      <4> QED  BY <1>1, <4>6
    <3> QED  BY <3>2, <3>3, <3>4
  <2>6. 1..lastSeq' \subseteq Settled'
    <3>1. CASE Missed = {}
      BY <1>1, <1>7, <2>1, <2>4, <3>1 DEF InOrder
    <3>2. CASE Missed # {}
      <4> DEFINE last == Max(Missed)
      <4>1. last \in Missed /\ lastSeq' = last
        BY <1>1, <3>2, MissedHasEnds
      <4>2. last \in Nat /\ last <= client.upTo /\ last <= Len(event)
        <5>1. \A m \in Missed : m \in Nat /\ m <= client.upTo
          BY DEF Missed, Window, Seqs
        <5>2. client.upTo <= Len(event)
          BY <2>1 DEF OneSeries
        <5>3. \A m \in Missed : m <= Len(event)
          BY <2>3, <5>1, <5>2
        <5> QED  BY <4>1, <5>1, <5>3
      <4>3. ASSUME NEW n \in 1..last PROVE n \in Settled'
        <5>1. n \in 1..Len(event) /\ n <= client.upTo
          BY <2>3, <4>2
        <5>2. CASE n \in 1..lastSeq
          BY <1>7, <2>1, <2>4, <5>2 DEF InOrder
        <5>3. CASE n > lastSeq
          <6>1. CASE n \in received' \cup forgiven'
            BY <6>1 DEF Settled
          <6>2. CASE n \notin received' \cup forgiven'
            <7>1. n \notin Sent
              BY <2>5, <5>1, <5>3, <6>2
            <7>2. PICK q \in publishing : q.id = n
              BY <5>1, <7>1 DEF Sent, Ids
            <7>3. q.seq = n /\ (q.at = "journaled" => journal[n] = n)
              BY <2>1, <7>2 DEF OneSeries
            <7>4. n # last
              BY <2>2, <4>1, <6>2
            <7>5. n < last
              BY <4>2, <7>4
            <7>6. q.at # "numbered"
              BY <2>1, <4>1, <7>2, <7>3, <7>5 DEF JumpsOver
            <7>7. q.at # "journaled"
              <8> SUFFICES ASSUME q.at = "journaled" PROVE FALSE
                OBVIOUS
              <8>1. journal[n] # 0 /\ n \in Seqs
                BY <5>1, <2>3, <7>3 DEF Seqs
              <8>2. n > client.upTo - BacklogSize
                BY <2>5, <5>1, <5>3, <6>2
              <8>3. n \in Missed
                BY <5>1, <5>3, <8>1, <8>2 DEF Missed, Window
              <8> QED  BY <2>2, <6>2, <8>3
            <7>8. q.at = "dead"
              BY <7>6, <7>7 DEF RealtimeInv, RealtimeTypeOK
            <7> QED  BY <1>6, <7>2, <7>8 DEF Settled, DeadIds, UnderWay
          <6> QED  BY <6>1, <6>2
        <5> QED  BY <2>3, <4>2, <5>2, <5>3
      <4> QED  BY <4>1, <4>3
    <3> QED  BY <3>1, <3>2
  <2>7. owed' \subseteq received' \cup Waiting' \cup forgiven'
    <3> SUFFICES ASSUME NEW n \in owed PROVE n \in received' \cup Waiting' \cup forgiven'
      BY <1>1
    <3>1. n \in Sent /\ n \in 1..Len(event) /\ n \in Nat
      BY DEF RealtimeInv, ClientKnown, Sent
    <3>2. CASE n \in 1..lastSeq
      <4>1. n \in Settled
        BY <1>7, <2>1, <3>2 DEF InOrder
      <4>2. n \notin DeadIds
        BY <3>1 DEF Sent, Ids, DeadIds
      <4> QED  BY <1>1, <4>1, <4>2 DEF Settled
    <3>3. CASE n > lastSeq /\ n <= client.upTo
      BY <2>5, <3>1, <3>3
    <3>4. CASE n > client.upTo
      BY <1>1, <1>6, <2>1, <3>1, <3>4 DEF OneSeries
    <3> QED  BY <2>3, <3>1, <3>2, <3>3, <3>4
  <2> QED
    BY <1>1, <1>6, <2>1, <2>6, <2>7 DEF InOrder
<1> QED
  BY <1>5, <1>6, <1>9, <1>10, <1>11 DEF RealtimeInv

LEMMA StepRealtime == RealtimeInv /\ [RealtimeNext]_realtimeVars => RealtimeInv'
<1> SUFFICES ASSUME RealtimeInv, [RealtimeNext]_realtimeVars PROVE RealtimeInv'
  OBVIOUS
<1>1. CASE UNCHANGED realtimeVars
  BY <1>1 DEF realtimeVars, RealtimeInv, RealtimeTypeOK, PublishersKnown, ClientKnown,
              OneSeries, InOrder, Sent, Ids, DeadIds, UnderWay, Settled, Waiting
<1>2. ASSUME NEW p \in publishing, JournalEvent(p) \/ SendEvent(p) \/ PublisherDies(p)
      PROVE  RealtimeInv'
  BY <1>2, JournalKeeps, SendKeeps, DiesKeeps
<1> QED
  BY <1>1, <1>2, NumberKeeps, ExpiresKeeps, ConnectKeeps, ReadKeeps, CatchUpKeeps,
     RelayKeeps, CutKeeps DEF RealtimeNext

LEMMA RealtimeInvGives == RealtimeInv => NothingLostSilently
BY DEF RealtimeInv, InOrder, NothingLostSilently

(* ADR-008, for any workers, any backlog wider than they are many, and any *)
(* cuts: what goes out is received, is waiting, or is told of as a gap.    *)
THEOREM NothingLostHolds == RealtimeSpec => []NothingLostSilently
<1>1. RealtimeInit => RealtimeInv
  BY InitRealtime
<1>2. RealtimeInv /\ [RealtimeNext]_realtimeVars => RealtimeInv'
  BY StepRealtime
<1> QED
  BY <1>1, <1>2, RealtimeInvGives, PTL DEF RealtimeSpec

(* "seq ... jamais reutilise" is true of a group whose counter has not     *)
(* expired: the expiry is what breaks it, and nothing else does.           *)
THEOREM SeqReusedOnlyAfterExpiry == RealtimeSpec => [](expiries = 0 => SeqNeverReused)
<1>1. RealtimeInit => RealtimeInv
  BY InitRealtime
<1>2. RealtimeInv /\ [RealtimeNext]_realtimeVars => RealtimeInv'
  BY StepRealtime
<1>3. RealtimeInv => (expiries = 0 => SeqNeverReused)
  <2> SUFFICES ASSUME RealtimeInv, expiries = 0, NEW i \in DOMAIN event, NEW j \in DOMAIN event,
                      i < j
               PROVE  event[i] < event[j]
    BY DEF SeqNeverReused
  <2>1. DOMAIN event = 1..Len(event) /\ OneSeries
    BY DEF RealtimeInv, RealtimeTypeOK
  <2> QED  BY <2>1 DEF OneSeries
<1> QED
  BY <1>1, <1>2, <1>3, PTL DEF RealtimeSpec

=============================================================================
