----------------------------- MODULE Campaigns ------------------------------
(***************************************************************************)
(* Mass mailings: written, dated, taken back, sent by a click or by the    *)
(* beat when their hour has come.  Every handler locks the campaign and    *)
(* reads it again; the beat works through a list it has read without a     *)
(* lock, one campaign after the other, and may die between two of them.    *)
(***************************************************************************)
EXTENDS Integers, FiniteSets, Sequences, SequencesExt

CONSTANTS
  Campaigns, Mailable,   \* those whose sending does not fail
  Rounds,                \* workers that may run send_scheduled_campaigns
  LastHour, MaxText,     \* bounds: the hours that pass, the rewritings,
  MaxRoundsLost          \* and the rounds that die

ASSUME CampaignsAssumption ==
  /\ Mailable \subseteq Campaigns /\ IsFiniteSet(Campaigns)
  /\ LastHour \in Nat /\ MaxText \in Nat /\ MaxRoundsLost \in Nat

Undated == -1
Hours == 0..LastHour

VARIABLES
  campaign,  \* [status, scheduledAt, text] of each
  hour,
  due,       \* the list each round has still to work through
  roundsLost,
  letters    \* history: what was sent of each campaign

campaignsVars == <<campaign, hour, due, roundsLost, letters>>

CampaignsInit ==
  /\ campaign = [c \in Campaigns |-> [status |-> "draft", scheduledAt |-> Undated, text |-> 0]]
  /\ hour = 0
  /\ due = [b \in Rounds |-> <<>>] /\ roundsLost = 0
  /\ letters = [c \in Campaigns |-> <<>>]

-----------------------------------------------------------------------------
(* Staff.                                                                  *)

(* perform_update: neither what was sent nor what is dated is rewritten.   *)
Editable(c) == campaign[c].status = "draft"
perform_update(c) ==
  /\ Editable(c) /\ campaign[c].text < MaxText
  /\ campaign' = [campaign EXCEPT ![c].text = @ + 1]
  /\ UNCHANGED <<hour, due, roundsLost, letters>>

schedule_campaign(c, quand) ==
  /\ campaign[c].status # "sent" /\ quand > hour
  /\ campaign' = [campaign EXCEPT ![c].status = "scheduled", ![c].scheduledAt = quand]
  /\ UNCHANGED <<hour, due, roundsLost, letters>>

unschedule_campaign(c) ==
  /\ campaign[c].status = "scheduled"
  /\ campaign' = [campaign EXCEPT ![c].status = "draft", ![c].scheduledAt = Undated]
  /\ UNCHANGED <<hour, due, roundsLost, letters>>

(* send_campaign: the notices and the status commit together.              *)
Letter(c, by) == [text |-> campaign[c].text, hour |-> hour, by |-> by]
send_campaign(c, by) ==
  /\ campaign' = [campaign EXCEPT ![c].status = "sent"]
  /\ letters' = [letters EXCEPT ![c] = Append(@, Letter(c, by))]

SendNow(c) ==
  /\ campaign[c].status # "sent" /\ c \in Mailable
  /\ send_campaign(c, "click")
  /\ UNCHANGED <<hour, due, roundsLost>>

HourPasses ==
  /\ hour < LastHour
  /\ hour' = hour + 1
  /\ UNCHANGED <<campaign, due, roundsLost, letters>>

-----------------------------------------------------------------------------
(* The beat.                                                               *)

IsDue(c) == campaign[c].status = "scheduled" /\ campaign[c].scheduledAt <= hour
ByHour(q) == \A i \in 1..Len(q) - 1 :
  campaign[q[i]].scheduledAt <= campaign[q[i + 1]].scheduledAt

ReadDueCampaigns(b) ==
  LET echues == {c \in Campaigns : IsDue(c)} IN
  /\ due[b] = <<>> /\ echues # {}
  /\ \E q \in SetToSeqs(echues) : ByHour(q) /\ due' = [due EXCEPT ![b] = q]
  /\ UNCHANGED <<campaign, hour, roundsLost, letters>>

(* _send_if_still_due, read again under the lock.                          *)
StillThere(c) == campaign[c].status # "sent"     \* mutant: only what was sent is refused
StillDue(c) == IsDue(c)

(* A campaign whose sending fails is left for the next round.              *)
RoundEnds(q) == <<>>                             \* mutant: and ends this one
AfterFailure(q) == Tail(q)

_send_if_still_due(b, c) ==
  /\ due[b] # <<>> /\ Head(due[b]) = c
  /\ IF StillDue(c) /\ c \notin Mailable
       THEN due' = [due EXCEPT ![b] = AfterFailure(@)]
       ELSE due' = [due EXCEPT ![b] = Tail(@)]
  /\ IF StillDue(c) /\ c \in Mailable
       THEN send_campaign(c, "beat")
       ELSE UNCHANGED <<campaign, letters>>
  /\ UNCHANGED <<hour, roundsLost>>

RoundDies(b) ==
  /\ due[b] # <<>> /\ roundsLost < MaxRoundsLost
  /\ due' = [due EXCEPT ![b] = <<>>]
  /\ roundsLost' = roundsLost + 1
  /\ UNCHANGED <<campaign, hour, letters>>

-----------------------------------------------------------------------------
RoundWorks(b) == ReadDueCampaigns(b) \/ \E c \in Campaigns : _send_if_still_due(b, c)

CampaignsNext ==
  \/ \E c \in Campaigns :
       perform_update(c) \/ unschedule_campaign(c) \/ SendNow(c)
  \/ \E c \in Campaigns, quand \in Hours : schedule_campaign(c, quand)
  \/ HourPasses
  \/ \E b \in Rounds : RoundWorks(b) \/ RoundDies(b)

(* Celery beat calls the task every five minutes, and a worker that dies   *)
(* is started again.                                                       *)
CampaignsFairness == WF_campaignsVars(\E b \in Rounds : RoundWorks(b))

CampaignsSpec ==
  CampaignsInit /\ [][CampaignsNext]_campaignsVars /\ CampaignsFairness

-----------------------------------------------------------------------------
CampaignsTypeOK ==
  /\ campaign \in [Campaigns -> [status : {"draft", "scheduled", "sent"},
                                 scheduledAt : {Undated} \cup Hours, text : 0..MaxText]]
  /\ hour \in Hours
  /\ due \in [Rounds -> Seq(Campaigns)] /\ roundsLost \in 0..MaxRoundsLost
  /\ letters \in [Campaigns -> Seq([text : 0..MaxText, hour : Hours, by : {"click", "beat"}])]

(* Two rounds, a click and a change of the date at once never mail a       *)
(* campaign twice; its page shows the text that was mailed; and the beat   *)
(* mails none before the hour its page gives, nor one taken back.          *)
MailedOnce ==
  \A c \in Campaigns :
    /\ Len(letters[c]) = IF campaign[c].status = "sent" THEN 1 ELSE 0
    /\ \A i \in DOMAIN letters[c] :
         /\ letters[c][i].text = campaign[c].text
         /\ letters[c][i].by = "beat" =>
              campaign[c].scheduledAt # Undated /\ campaign[c].scheduledAt <= letters[c][i].hour

(* "Avec du retard plutot que jamais": whatever rounds die, and whatever   *)
(* campaign fails before it, a campaign whose hour has come is mailed,     *)
(* unless staff take it back or date it anew.                              *)
NoCampaignForgotten ==
  \A c \in Mailable : [](IsDue(c) => <>(~IsDue(c)))
=============================================================================
