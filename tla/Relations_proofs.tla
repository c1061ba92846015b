-------------------------- MODULE Relations_proofs --------------------------
(***************************************************************************)
(* What is proved of each part of Relations holds of their composition:    *)
(* every step of it is a step, or a stutter, of each part, so the          *)
(* invariants of the parts hold together, for any customers, couriers,     *)
(* orders, payments, messages and workers.                                 *)
(***************************************************************************)
EXTENDS Relations, Accounts_proofs, Notices_proofs, People_proofs

(* Every step of the composition is a step, or a stutter, of each part.    *)
LEMMA RelationsSteps ==
  ASSUME [RelationsNext]_relationsVars
  PROVE  /\ [LedgerNext]_ledgerVars
         /\ [PayoutsNext]_payoutsVars
         /\ [FileNext]_fileVars
         /\ [RemindersNext]_remindersVars
         /\ [CampaignsNext]_campaignsVars
         /\ [PushNext]_pushVars
         /\ [LoyaltyNext]_loyaltyVars
         /\ [AchievementsNext]_achievementsVars
         /\ [SubsNext]_subsVars
         /\ [CirclesNext]_circlesVars
         /\ [RealtimeNext]_realtimeVars
         /\ [DeskNext]_deskVars
         /\ [CallsNext]_callsVars
         /\ [CodesNext]_codesVars
         /\ [BasketsNext]_basketsVars
         /\ [BillNext]_billVars
         /\ [ReviewsNext]_reviewsVars
         /\ [FeedNext]_feedVars
<1> USE DEF relationsVars, frontVars
<1>1. CASE LedgerStep
  BY <1>1 DEF LedgerStep
<1>2. CASE PayoutsStep
  BY <1>2 DEF PayoutsStep
<1>3. CASE FileStep
  BY <1>3 DEF FileStep
<1>4. CASE RemindersStep
  BY <1>4 DEF RemindersStep
<1>5. CASE CampaignsStep
  BY <1>5 DEF CampaignsStep
<1>6. CASE PushStep
  BY <1>6 DEF PushStep
<1>7. CASE LoyaltyStep
  BY <1>7 DEF LoyaltyStep
<1>8. CASE AchievementsStep
  BY <1>8 DEF AchievementsStep
<1>9. CASE SubsStep
  BY <1>9 DEF SubsStep
<1>10. CASE CirclesStep
  BY <1>10 DEF CirclesStep
<1>11. CASE RealtimeStep
  BY <1>11 DEF RealtimeStep
<1>12. CASE FrontStep
  BY <1>12 DEF FrontStep, FrontNext, DeskStep, CallsStep, CodesStep, BasketsStep,
                    BillStep, ReviewsStep, FeedStep
<1>13. CASE UNCHANGED relationsVars
  BY <1>13
<1> QED
  BY <1>1, <1>2, <1>3, <1>4, <1>5, <1>6, <1>7, <1>8, <1>9, <1>10, <1>11, <1>12, <1>13
     DEF RelationsNext

-----------------------------------------------------------------------------
(* Whatever demands, settlements, hand-overs, refunds and returns cross,   *)
(* no order gives back more than it collected, a payment is refunded when  *)
(* its settled refunds add up to it, and the copy delivery reads is exact  *)
(* unless a settlement overtaken by another was the last to write it, and  *)
(* always for an order in cash.                                            *)
THEOREM BooksBalance == RelationsSpec => []AccountsBalance
<1>1. RelationsInit => LedgerInv
  BY InitLedger DEF RelationsInit
<1>2. LedgerInv /\ [RelationsNext]_relationsVars => LedgerInv'
  BY StepLedger, RelationsSteps
<1>3. LedgerInv => AccountsBalance
  BY LedgerInvGives
<1> QED
  BY <1>1, <1>2, <1>3, PTL DEF RelationsSpec

(* A courier's earnings, withdrawals and ratings, a group's members, the   *)
(* note of a dish and the likes of a post agree with the counts kept beside*)
(* them, and shares with their bill, whatever crosses.                     *)
THEOREM CountsStayTrue == RelationsSpec => []CountsAreTrue
<1>1. RelationsInit => PayoutsInv /\ CirclesInv /\ BillInv /\ ReviewsInv /\ FeedInv
  BY InitPayouts, InitCircles, InitBill, InitReviews, InitFeed DEF RelationsInit, FrontInit
<1>2. PayoutsInv /\ CirclesInv /\ BillInv /\ ReviewsInv /\ FeedInv /\ [RelationsNext]_relationsVars
        => (PayoutsInv /\ CirclesInv /\ BillInv /\ ReviewsInv /\ FeedInv)'
  BY StepPayouts, StepCircles, StepBill, StepReviews, StepFeed, RelationsSteps
<1>3. PayoutsInv /\ CirclesInv /\ BillInv /\ ReviewsInv /\ FeedInv => CountsAreTrue
  BY CountersByCourier
     DEF PayoutsInv, CountersAddUp, CirclesInv, BillInv, ReviewsInv, FeedInv, CountsAreTrue
<1> QED
  BY <1>1, <1>2, <1>3, PTL DEF RelationsSpec

(* A courier who may take courses has the papers staff approved, unless a  *)
(* decision fell while an upload was under way.                            *)
THEOREM PapersWereJudged == RelationsSpec => []ApprovedPapersWereJudged
<1>1. RelationsInit => FileInv
  BY InitFile DEF RelationsInit
<1>2. FileInv /\ [RelationsNext]_relationsVars => FileInv'
  BY StepFile, RelationsSteps
<1>3. FileInv => ApprovedPapersWereJudged
  BY DEF FileInv
<1> QED
  BY <1>1, <1>2, <1>3, PTL DEF RelationsSpec

(* Reminders, mailings and rings are told once, whatever runs of the beat, *)
(* clicks, rounds and workers cross, die or start again.                   *)
THEOREM ToldOnceHolds == RelationsSpec => []ToldOnce
<1>1. RelationsInit => RemindersInv /\ CampaignsInv /\ PushInv
  BY InitReminders, InitCampaigns, InitPush DEF RelationsInit
<1>2. RemindersInv /\ CampaignsInv /\ PushInv /\ [RelationsNext]_relationsVars => (RemindersInv /\ CampaignsInv /\ PushInv)'
  BY StepReminders, StepCampaigns, StepPush, RelationsSteps
<1>3. RemindersInv /\ CampaignsInv /\ PushInv => ToldOnce
  BY PushInvGives DEF RemindersInv, CampaignsInv, ToldOnce
<1> QED
  BY <1>1, <1>2, <1>3, PTL DEF RelationsSpec

(* Codes are minted for points that deliveries and achievements were worth,*)
(* and an achievement is worth its reward once.                            *)
THEOREM RewardsStayTrue == RelationsSpec => []RewardsAddUp
<1>1. RelationsInit => LoyaltyInv /\ AchievementsInv
  BY InitLoyalty, InitAchievements DEF RelationsInit
<1>2. LoyaltyInv /\ AchievementsInv /\ [RelationsNext]_relationsVars => (LoyaltyInv /\ AchievementsInv)'
  BY StepLoyalty, StepAchievements, RelationsSteps
<1>3. LoyaltyInv /\ AchievementsInv => RewardsAddUp
  BY DEF LoyaltyInv, AchievementsInv, RewardsAddUp
<1> QED
  BY <1>1, <1>2, <1>3, PTL DEF RelationsSpec

(* However passes of the hourly task overlap and die, a subscription awaits*)
(* two payments only if one pass listed it while another was charging it,  *)
(* and a customer has one open subscription.                               *)
THEOREM OneChargeInRelations == RelationsSpec => []OneChargeAtATime
<1>1. RelationsInit => SubsInv
  BY InitSubs DEF RelationsInit
<1>2. SubsInv /\ [RelationsNext]_relationsVars => SubsInv'
  BY StepSubs, RelationsSteps
<1>3. SubsInv => OneChargeAtATime
  BY SubsInvGives
<1> QED
  BY <1>1, <1>2, <1>3, PTL DEF RelationsSpec

(* What customers write, call, prove and put in their basket is kept as    *)
(* they said it, whatever agents, requests and screens cross.              *)
THEOREM SaidStaysKept == RelationsSpec => []SaidIsKept
<1> DEFINE SaidInv == DeskInv /\ CallsInv /\ CodesInv /\ BasketsInv
<1>1. RelationsInit => SaidInv
  BY InitDesk, InitCalls, InitCodes, InitBaskets DEF RelationsInit, FrontInit
<1>2. SaidInv /\ [RelationsNext]_relationsVars => SaidInv'
  BY StepDesk, StepCalls, StepCodes, StepBaskets, RelationsSteps
<1>3. SaidInv => SaidIsKept
  BY CallsInvGives, CodesInvGives DEF DeskInv, BasketsInv, SaidIsKept
<1> HIDE DEF SaidInv
<1> QED
  BY <1>1, <1>2, <1>3, PTL DEF RelationsSpec

(* A client that comes back misses no event without being told of a gap,   *)
(* while its counter lives and events go out in the order of their numbers.*)
THEOREM NothingIsLost == RelationsSpec => []NothingLostSilently
<1>1. RelationsInit => RealtimeInv
  BY InitRealtime DEF RelationsInit
<1>2. RealtimeInv /\ [RelationsNext]_relationsVars => RealtimeInv'
  BY StepRealtime, RelationsSteps
<1> QED
  BY <1>1, <1>2, RealtimeInvGives, PTL DEF RelationsSpec

(* Every variable of every part keeps its type: the invariants of the parts*)
(* hold together, and each says the types of its part.                     *)
THEOREM RelationsTypesHold == RelationsSpec => []RelationsTypeOK
<1> DEFINE Books == LedgerInv /\ PayoutsInv /\ LoyaltyInv
           ToldInv == RemindersInv /\ CampaignsInv /\ PushInv /\ RealtimeInv
           KnownInv == FileInv /\ AchievementsInv /\ SubsInv /\ CirclesInv
           ScreensInv == DeskInv /\ CallsInv /\ CodesInv /\ BasketsInv /\ BillInv /\ ReviewsInv /\ FeedInv
           AllInv == Books /\ ToldInv /\ KnownInv /\ ScreensInv
<1>1. RelationsInit => AllInv
  BY InitLedger, InitPayouts, InitLoyalty, InitReminders, InitCampaigns, InitPush, InitRealtime,
     InitFile, InitAchievements, InitSubs, InitCircles, InitDesk, InitCalls, InitCodes,
     InitBaskets, InitBill, InitReviews, InitFeed
  DEF RelationsInit, FrontInit
<1>2. AllInv /\ [RelationsNext]_relationsVars => AllInv'
  <2>1. Books /\ [RelationsNext]_relationsVars => Books'
    BY StepLedger, StepPayouts, StepLoyalty, RelationsSteps
  <2>2. ToldInv /\ [RelationsNext]_relationsVars => ToldInv'
    BY StepReminders, StepCampaigns, StepPush, StepRealtime, RelationsSteps
  <2>3. KnownInv /\ [RelationsNext]_relationsVars => KnownInv'
    BY StepFile, StepAchievements, StepSubs, StepCircles, RelationsSteps
  <2>4. ScreensInv /\ [RelationsNext]_relationsVars => ScreensInv'
    BY StepDesk, StepCalls, StepCodes, StepBaskets, StepBill, StepReviews, StepFeed, RelationsSteps
  <2> QED  BY <2>1, <2>2, <2>3, <2>4
<1>3. AllInv => RelationsTypeOK
  BY DEF LedgerInv, PayoutsInv, LoyaltyInv, RemindersInv, CampaignsInv, PushInv, RealtimeInv,
         FileInv, AchievementsInv, SubsInv, CirclesInv, DeskInv, CallsInv, CodesInv, BasketsInv,
         BillInv, ReviewsInv, FeedInv, RelationsTypeOK, FrontTypeOK
<1> HIDE DEF AllInv
<1> QED
  BY <1>1, <1>2, <1>3, PTL DEF RelationsSpec

=============================================================================
