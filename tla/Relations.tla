----------------------------- MODULE Relations ------------------------------
(***************************************************************************)
(* What links the house to its customers and couriers, in one              *)
(* specification: money collected and given back (Ledger), couriers'       *)
(* earnings and ratings (Payouts) and files (CourierFile); what they are   *)
(* told - reminders of expiries (Reminders), mass mailings (Campaigns),    *)
(* phones that ring (Push), the events screens follow (Realtime);          *)
(* customers' points (Loyalty), achievements (Achievements), subscriptions *)
(* (Subscriptions) and groups (Circles); and what they do on their screens *)
(* (Front).  The parts share no variable: a behaviour follows one of them, *)
(* the focus.                                                              *)
(***************************************************************************)
EXTENDS Ledger, Payouts, CourierFile, Reminders, Campaigns, Push, Realtime,
        Loyalty, Achievements, Subscriptions, Circles, Front

relationsVars == <<focus, ledgerVars, payoutsVars, fileVars, remindersVars,
                    campaignsVars, pushVars, loyaltyVars, achievementsVars,
                    subsVars, circlesVars, realtimeVars, frontVars>>

RelationsInit ==
  /\ focus \in {"ledger", "payouts", "file", "reminders", "campaigns", "push",
               "loyalty", "achievements", "subs", "circles", "realtime"} \cup FrontFoci
  /\ focus # "ledger" => cash = {}        \* the choice is told apart where it matters
  /\ LedgerInit /\ PayoutsInit /\ FileInit /\ RemindersInit /\ CampaignsInit /\ PushInit
  /\ LoyaltyInit /\ AchievementsInit /\ SubsInit /\ CirclesInit /\ RealtimeInit
  /\ FrontInit

LedgerStep ==
  /\ focus = "ledger" /\ LedgerNext
  /\ UNCHANGED <<focus, payoutsVars, fileVars, remindersVars, campaignsVars, pushVars,
                  loyaltyVars, achievementsVars, subsVars, circlesVars,
                  realtimeVars, frontVars>>
PayoutsStep ==
  /\ focus = "payouts" /\ PayoutsNext
  /\ UNCHANGED <<focus, ledgerVars, fileVars, remindersVars, campaignsVars, pushVars,
                  loyaltyVars, achievementsVars, subsVars, circlesVars,
                  realtimeVars, frontVars>>
FileStep ==
  /\ focus = "file" /\ FileNext
  /\ UNCHANGED <<focus, ledgerVars, payoutsVars, remindersVars, campaignsVars,
                  pushVars, loyaltyVars, achievementsVars, subsVars, circlesVars,
                  realtimeVars, frontVars>>
RemindersStep ==
  /\ focus = "reminders" /\ RemindersNext
  /\ UNCHANGED <<focus, ledgerVars, payoutsVars, fileVars, campaignsVars, pushVars,
                  loyaltyVars, achievementsVars, subsVars, circlesVars,
                  realtimeVars, frontVars>>
CampaignsStep ==
  /\ focus = "campaigns" /\ CampaignsNext
  /\ UNCHANGED <<focus, ledgerVars, payoutsVars, fileVars, remindersVars, pushVars,
                  loyaltyVars, achievementsVars, subsVars, circlesVars,
                  realtimeVars, frontVars>>
PushStep ==
  /\ focus = "push" /\ PushNext
  /\ UNCHANGED <<focus, ledgerVars, payoutsVars, fileVars, remindersVars,
                  campaignsVars, loyaltyVars, achievementsVars, subsVars,
                  circlesVars, realtimeVars, frontVars>>
LoyaltyStep ==
  /\ focus = "loyalty" /\ LoyaltyNext
  /\ UNCHANGED <<focus, ledgerVars, payoutsVars, fileVars, remindersVars,
                  campaignsVars, pushVars, achievementsVars, subsVars,
                  circlesVars, realtimeVars, frontVars>>
AchievementsStep ==
  /\ focus = "achievements" /\ AchievementsNext
  /\ UNCHANGED <<focus, ledgerVars, payoutsVars, fileVars, remindersVars,
                  campaignsVars, pushVars, loyaltyVars, subsVars, circlesVars,
                  realtimeVars, frontVars>>
SubsStep ==
  /\ focus = "subs" /\ SubsNext
  /\ UNCHANGED <<focus, ledgerVars, payoutsVars, fileVars, remindersVars,
                  campaignsVars, pushVars, loyaltyVars, achievementsVars,
                  circlesVars, realtimeVars, frontVars>>
CirclesStep ==
  /\ focus = "circles" /\ CirclesNext
  /\ UNCHANGED <<focus, ledgerVars, payoutsVars, fileVars, remindersVars,
                  campaignsVars, pushVars, loyaltyVars, achievementsVars,
                  subsVars, realtimeVars, frontVars>>
RealtimeStep ==
  /\ focus = "realtime" /\ RealtimeNext
  /\ UNCHANGED <<focus, ledgerVars, payoutsVars, fileVars, remindersVars,
                  campaignsVars, pushVars, loyaltyVars, achievementsVars,
                  subsVars, circlesVars, frontVars>>

FrontStep ==
  /\ FrontNext
  /\ UNCHANGED <<focus, ledgerVars, payoutsVars, fileVars, remindersVars,
                  campaignsVars, pushVars, loyaltyVars, achievementsVars,
                  subsVars, circlesVars, realtimeVars>>

RelationsNext ==
  \/ LedgerStep \/ PayoutsStep \/ FileStep \/ RemindersStep
  \/ CampaignsStep \/ PushStep \/ LoyaltyStep \/ AchievementsStep
  \/ SubsStep \/ CirclesStep \/ RealtimeStep \/ FrontStep

(* RemindersFairness, CampaignsFairness and SubsFairness, each owed where  *)
(* the behaviour follows its tasks.                                        *)
RelationsFairness ==
  /\ WF_remindersVars(focus = "reminders" /\ \E b \in Beats : BeatWorks(b))
  /\ SF_remindersVars(focus = "reminders" /\ \E b \in Beats : RecordReminder(b))
  /\ WF_campaignsVars(focus = "campaigns" /\ \E b \in Rounds : RoundWorks(b))
  /\ WF_subsVars(focus = "subs" /\ TaskWorks)
  /\ \A s \in Subs : SF_subsVars(focus = "subs" /\ \E p \in Passes : expire(p, s))

RelationsSpec == RelationsInit /\ [][RelationsNext]_relationsVars /\ RelationsFairness

(* Every variable of every part has its type.                              *)
RelationsTypeOK ==
  /\ LedgerTypeOK /\ PayoutsTypeOK /\ FileTypeOK /\ RemindersTypeOK
  /\ CampaignsTypeOK /\ PushTypeOK /\ LoyaltyTypeOK /\ AchievementsTypeOK
  /\ SubsTypeOK /\ CirclesTypeOK /\ RealtimeTypeOK /\ FrontTypeOK

(* What the house says, it says once: a reminder whatever runs cross or    *)
(* die, a mailing whatever clicks and rounds meet on it, and a phone rings *)
(* for one notice no more often than workers died.                         *)
ToldOnce == RemindedOnce /\ MailedOnce /\ RungOnce

(* What the beat owes: a paper that comes to its last day ends in the      *)
(* record of reminders, a mailing whose hour has come leaves, and a        *)
(* subscription nobody pays for is closed, whatever days were missed and   *)
(* whatever passes died on the way.                                        *)
DailyTasksCatchUp == NoExpirySkipped /\ NoCampaignForgotten /\ OverdueIsClosed

(* Points are what deliveries and achievements were worth, and an          *)
(* achievement is worth its reward once.                                   *)
RewardsAddUp == PointsAddUp /\ RewardedOnce

(* Counts kept beside what they count agree with it: a courier's earnings, *)
(* withdrawals and ratings, a group's members, a dish's note, a post's     *)
(* likes; and the shares of a bill add up to it.                           *)
CountsAreTrue ==
  CountersAddUp /\ PlacesAreCounted /\ BillHolds /\ ReviewsHold /\ FeedHolds
=============================================================================
