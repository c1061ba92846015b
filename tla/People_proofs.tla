---------------------------- MODULE People_proofs ----------------------------
(***************************************************************************)
(* Proofs about what the house keeps of people: the files of couriers      *)
(* (CourierFile), what customers achieve (Achievements) and subscribe to   *)
(* (Subscriptions), the groups they join (Circles), and what they do on    *)
(* their screens (Front: Desk, Calls, Codes, Baskets, SplitBill, Reviews,  *)
(* Feed) - for any of them.                                                *)
(***************************************************************************)
EXTENDS CourierFile, Achievements, Subscriptions, Circles, Front, Sums_proofs,
        FiniteSetTheorems, TLAPS

-----------------------------------------------------------------------------
(* The file of a courier.                                                  *)

(* As long as no decision crossed an upload, the upload has read the       *)
(* status the file still has.                                              *)
UploadIsUpToDate == ~crossed => upload \in {"none", dossier}
UploadFits == upload # "none" => version < MaxVersion
FileInv == FileTypeOK /\ ApprovedPapersWereJudged /\ UploadIsUpToDate /\ UploadFits

LEMMA StatusList == Statuses = {"pending", "approved", "rejected", "suspended"}
BY DEF Statuses, VERIFICATION_TRANSITIONS

LEMMA InitFile == FileInit => FileInv
<1> SUFFICES ASSUME FileInit PROVE FileInv
  OBVIOUS
<1> USE DEF FileInit
<1>1. FileTypeOK
  <2>1. version \in 0..MaxVersion /\ judged \in 0..MaxVersion
    BY CourierFileAssumption
  <2>2. dossier \in Statuses /\ upload \in Statuses \cup {"none"}
        /\ paperDate \in {"undated", "ahead", "past"}
    BY StatusList
  <2>3. online \in BOOLEAN /\ crossed \in BOOLEAN
    BY Zenon
  <2> QED  BY <2>1, <2>2, <2>3 DEF FileTypeOK
<1>2. ApprovedPapersWereJudged /\ UploadIsUpToDate /\ UploadFits
  BY DEF ApprovedPapersWereJudged, UploadIsUpToDate, UploadFits
<1> QED
  BY <1>1, <1>2 DEF FileInv

LEMMA StepFile == FileInv /\ [FileNext]_fileVars => FileInv'
<1> SUFFICES ASSUME FileInv, [FileNext]_fileVars PROVE FileInv'
  OBVIOUS
<1> USE CourierFileAssumption, StatusList DEF FileInv, FileTypeOK, ApprovedPapersWereJudged,
      UploadIsUpToDate, UploadFits
<1>2. CASE set_online
  BY <1>2 DEF set_online
<1>3. CASE BeginUpload
  BY <1>3 DEF BeginUpload
<1>4. CASE replace_documents
  <2>1. version < MaxVersion /\ version' = version + 1 /\ version' \in 0..MaxVersion
        /\ upload' = "none" /\ paperDate' = "undated" /\ judged' = judged /\ crossed' = crossed
    BY <1>4 DEF replace_documents
  <2>2. CASE upload \in {"approved", "rejected"}
    BY <1>4, <2>1, <2>2 DEF replace_documents, ROUVRE_L_INSTRUCTION
  <2>3. CASE upload \notin {"approved", "rejected"}
    BY <1>4, <2>1, <2>3 DEF replace_documents, ROUVRE_L_INSTRUCTION
  <2> QED  BY <2>2, <2>3
<1>5. ASSUME NEW target \in Statuses, NEW date \in {"undated", "ahead", "past"},
             review(target, date)
      PROVE  FileInv'
  BY <1>5 DEF review
<1>6. CASE PaperExpires
  BY <1>6 DEF PaperExpires
<1>7. CASE UNCHANGED fileVars
  BY <1>7 DEF fileVars
<1> QED
  BY <1>2, <1>3, <1>4, <1>5, <1>6, <1>7 DEF FileNext

(* Whatever uploads, decisions and expiries follow each other, a courier   *)
(* who may take courses has the papers staff approved, unless a decision   *)
(* fell while an upload was under way.                                     *)
THEOREM ApprovedPapersHold == FileSpec => []ApprovedPapersWereJudged
<1> QED
  BY InitFile, StepFile, PTL DEF FileSpec, FileInv

-----------------------------------------------------------------------------
(* Achievements.                                                           *)

(* Two orders worth points are never under way at once; an order has       *)
(* counted what was done, and only lacks what was done without points.     *)
OneWithPoints ==
  \A o, p \in Open \cap WorthPoints : o = p
CountsAreSound ==
  \A o \in Meals : meal[o] = "counted" =>
    /\ seen[o] <= Cardinality(Done) + 1
    /\ o \in WorthPoints /\ Done \subseteq WorthPoints => seen[o] = Cardinality(Done) + 1
AchievementsInv ==
  AchievementsTypeOK /\ RewardedOnce /\ OneWithPoints /\ CountsAreSound

LEMMA DoneIsFinite ==
  /\ IsFiniteSet(Done) /\ Cardinality(Done) \in Nat
  /\ IsFiniteSet(Done') /\ Cardinality(Done') \in Nat
<1>1. Done \subseteq Meals /\ Done' \subseteq Meals
  BY DEF Done
<1> QED
  BY <1>1, AchievementsAssumption, FS_Subset, FS_CardinalityType

LEMMA InitAchievements == AchievementsInit => AchievementsInv
<1> SUFFICES ASSUME AchievementsInit PROVE AchievementsInv
  OBVIOUS
<1> USE AchievementsAssumption DEF AchievementsInit
<1>1. Done = {} /\ Open = {} /\ Cardinality(Done) = 0
  BY FS_EmptySet DEF Done, Open
<1>2. RewardedOnce
  BY <1>1 DEF RewardedOnce, Smaller
<1> QED
  BY <1>1, <1>2 DEF AchievementsInv, AchievementsTypeOK, OneWithPoints, CountsAreSound

(* Until an order is done, nothing that is counted moves.                  *)
LEMMA NothingDone ==
  ASSUME AchievementsInv, Done' = Done, UNCHANGED <<progress, unlocked, gifts>>
  PROVE  RewardedOnce'
BY DEF AchievementsInv, RewardedOnce

LEMMA StepAchievements == AchievementsInv /\ [AchievementsNext]_achievementsVars => AchievementsInv'
<1> SUFFICES ASSUME AchievementsInv, [AchievementsNext]_achievementsVars PROVE AchievementsInv'
  OBVIOUS
<1> USE AchievementsAssumption DEF AchievementsInv
<1>1. ASSUME NEW o \in Meals, earnPoints(o) PROVE AchievementsInv'
  <2>1. meal' = [meal EXCEPT ![o] = "credited"] /\ meal[o] = "waiting"
        /\ UNCHANGED <<seen, progress, unlocked, gifts>>
    BY <1>1 DEF earnPoints
  <2>2. Done' = Done /\ Open' = Open \cup {o} /\ o \notin Open
    BY <2>1 DEF Done, Open, AchievementsTypeOK
  <2>3. OneWithPoints'
    BY <1>1, <2>2 DEF earnPoints, AccountFree, OneWithPoints
  <2>4. AchievementsTypeOK' /\ CountsAreSound'
    BY <2>1, <2>2 DEF AchievementsTypeOK, CountsAreSound
  <2> QED  BY <2>1, <2>2, <2>3, <2>4, NothingDone
<1>2. ASSUME NEW o \in Meals, _lifetime_stats(o) PROVE AchievementsInv'
  <2>1. /\ meal' = [meal EXCEPT ![o] = "counted"] /\ meal[o] = "credited"
        /\ seen' = [seen EXCEPT ![o] = Cardinality(Done) + 1]
        /\ UNCHANGED <<progress, unlocked, gifts>>
    BY <1>2 DEF _lifetime_stats
  <2>2. Done' = Done /\ Open' = Open
    BY <2>1 DEF Done, Open, AchievementsTypeOK
  <2>3. AchievementsTypeOK' /\ CountsAreSound' /\ OneWithPoints'
    BY <2>1, <2>2, DoneIsFinite DEF AchievementsTypeOK, CountsAreSound, OneWithPoints
  <2> QED  BY <2>1, <2>2, <2>3, NothingDone
<1>3. ASSUME NEW o \in Meals, _check_achievements(o) PROVE AchievementsInv'
  <2>1. /\ meal' = [meal EXCEPT ![o] = "done"] /\ meal[o] = "counted" /\ seen' = seen
        /\ progress' = Smaller(seen[o], ConditionValue)
    BY <1>3 DEF _check_achievements
  <2>0. \/ seen[o] >= ConditionValue /\ ~unlocked /\ unlocked' /\ gifts' = gifts + 1
             /\ unlocked' \in BOOLEAN
        \/ (seen[o] >= ConditionValue => unlocked) /\ unlocked' = unlocked /\ gifts' = gifts
    <3>1. seen[o] \in Nat /\ ConditionValue \in Nat
      BY DEF AchievementsTypeOK
    <3>2. Smaller(seen[o], ConditionValue) = ConditionValue <=> seen[o] >= ConditionValue
      BY <3>1 DEF Smaller
    <3>3. IF seen[o] >= ConditionValue /\ ~unlocked
            THEN unlocked' = TRUE /\ gifts' = gifts + 1
            ELSE UNCHANGED <<unlocked, gifts>>
      BY <1>3, <3>2, Zenon DEF _check_achievements
    <3> QED  BY <3>3
  <2>2. Done' = Done \cup {o} /\ Open' = Open \ {o} /\ o \notin Done /\ o \in Open
    BY <2>1 DEF Done, Open, AchievementsTypeOK
  <2>3. Cardinality(Done') = Cardinality(Done) + 1
    BY <2>2, DoneIsFinite, FS_AddElement
  <2>4. seen[o] \in Nat /\ seen[o] <= Cardinality(Done')
        /\ (Done' \subseteq WorthPoints => seen[o] = Cardinality(Done'))
    BY <2>1, <2>2, <2>3 DEF CountsAreSound, AchievementsTypeOK
  <2>5. AchievementsTypeOK' /\ OneWithPoints'
    BY <2>1, <2>2, <2>0 DEF AchievementsTypeOK, OneWithPoints, Smaller
  <2>6. RewardedOnce'
    <3>1. gifts' = IF unlocked' THEN 1 ELSE 0
      BY <2>0 DEF RewardedOnce, AchievementsTypeOK
    <3>2. unlocked' => Cardinality(Done') >= ConditionValue
      <4>1. unlocked => Cardinality(Done) >= ConditionValue
        BY DEF RewardedOnce
      <4>2. unlocked' => unlocked \/ seen[o] >= ConditionValue
        BY <2>0
      <4>3. Cardinality(Done) >= ConditionValue \/ seen[o] >= ConditionValue =>
              Cardinality(Done') >= ConditionValue
        BY <2>3, <2>4, DoneIsFinite
      <4> QED  BY <4>1, <4>2, <4>3
    <3>3. Done' \subseteq WorthPoints =>
            progress' = Smaller(Cardinality(Done'), ConditionValue)
            /\ (Cardinality(Done') >= ConditionValue => unlocked')
      BY <2>1, <2>0, <2>4, DoneIsFinite DEF AchievementsTypeOK, Smaller
    <3> QED  BY <3>1, <3>2, <3>3 DEF RewardedOnce, Smaller
  <2>7. CountsAreSound'
    <3> SUFFICES ASSUME NEW p \in Meals, meal'[p] = "counted"
                 PROVE  /\ seen'[p] <= Cardinality(Done') + 1
                        /\ p \in WorthPoints /\ Done' \subseteq WorthPoints =>
                             seen'[p] = Cardinality(Done') + 1
      BY DEF CountsAreSound
    <3>1. p # o /\ meal[p] = "counted" /\ p \in Open
      BY <2>1 DEF AchievementsTypeOK, Open
    <3>2. ~(p \in WorthPoints /\ Done' \subseteq WorthPoints)
      BY <2>2, <3>1 DEF OneWithPoints
    <3> QED  BY <2>1, <2>3, <3>1, <3>2, DoneIsFinite DEF CountsAreSound, AchievementsTypeOK
  <2> QED  BY <2>5, <2>6, <2>7
<1>4. CASE UNCHANGED achievementsVars
  <2>1. Done' = Done /\ Open' = Open
    BY <1>4 DEF achievementsVars, Done, Open
  <2>2. AchievementsTypeOK' /\ CountsAreSound' /\ OneWithPoints'
    BY <1>4, <2>1 DEF achievementsVars, AchievementsTypeOK, CountsAreSound, OneWithPoints
  <2> QED  BY <1>4, <2>1, <2>2, NothingDone DEF achievementsVars
<1> QED
  BY <1>1, <1>2, <1>3, <1>4 DEF AchievementsNext

(* However the deliveries of a customer overlap, an achievement is         *)
(* rewarded once, not before its condition, and not missed while every     *)
(* order is worth points.                                                  *)
THEOREM RewardedOnceHolds == AchievementsSpec => []RewardedOnce
<1> QED
  BY InitAchievements, StepAchievements, PTL DEF AchievementsSpec, AchievementsInv

-----------------------------------------------------------------------------
(* Groups.                                                                 *)

CirclesInv == CirclesTypeOK /\ PlacesAreCounted

LEMMA MembersAreFinite ==
  /\ IsFiniteSet(Members) /\ Cardinality(Members) \in Nat
  /\ IsFiniteSet(Members') /\ Cardinality(Members') \in Nat
<1>1. Members \subseteq People /\ Members' \subseteq People
  BY DEF Members
<1> QED
  BY <1>1, CirclesAssumption, FS_Subset, FS_CardinalityType

LEMMA InitCircles == CirclesInit => CirclesInv
<1> SUFFICES ASSUME CirclesInit PROVE CirclesInv
  OBVIOUS
<1>1. Cardinality(Members) = 0
  <2>1. Members = {}
    BY DEF CirclesInit, Members
  <2> QED  BY <2>1, FS_EmptySet
<1> QED
  BY <1>1, CirclesAssumption DEF CirclesInit, CirclesInv, CirclesTypeOK, PlacesAreCounted

LEMMA StepCircles == CirclesInv /\ [CirclesNext]_circlesVars => CirclesInv'
<1> SUFFICES ASSUME CirclesInv, [CirclesNext]_circlesVars PROVE CirclesInv'
  OBVIOUS
<1> USE CirclesAssumption DEF CirclesInv
<1>1. ASSUME UNCHANGED <<membership, memberCount, twice>> PROVE PlacesAreCounted'
  <2>1. Members' = Members
    BY <1>1 DEF Members
  <2> QED  BY <1>1, <2>1 DEF PlacesAreCounted
<1>2. ASSUME NEW r \in JoinRequests, ReadMembership(r) PROVE CirclesInv'
  BY <1>1, <1>2 DEF ReadMembership, CirclesTypeOK
<1>3. ASSUME NEW r \in JoinRequests, join(r) PROVE CirclesInv'
  <2> DEFINE u == By[r]
  <2>1. u \in People
    OBVIOUS
  <2>2. CASE UNCHANGED <<membership, memberCount, twice>>
    BY <1>1, <1>3, <2>2 DEF join, CirclesTypeOK
  <2>3. CASE /\ RoomLeft
             /\ memberCount' = memberCount + 1
             /\ membership' = [membership EXCEPT ![u] = "active"]
             /\ twice' = IF membership[u] = "active" THEN twice + 1 ELSE twice
    <3>1. Members' = Members \cup {u} /\ (u \in Members <=> membership[u] = "active")
      BY <2>1, <2>3 DEF Members, CirclesTypeOK
    <3>2. Cardinality(Members') =
            IF u \in Members THEN Cardinality(Members) ELSE Cardinality(Members) + 1
      BY <3>1, MembersAreFinite, FS_AddElement
    <3>3. CirclesTypeOK'
      BY <1>3, <2>1, <2>3 DEF join, CirclesTypeOK
    <3>4. PlacesAreCounted'
      BY <2>3, <3>1, <3>2, MembersAreFinite DEF PlacesAreCounted, CirclesTypeOK, RoomLeft
    <3> QED  BY <3>3, <3>4
  <2> QED  BY <1>3, <2>2, <2>3 DEF join
<1>4. ASSUME NEW u \in People, leave(u) PROVE CirclesInv'
  <2>1. Members' = Members \ {u} /\ u \in Members
    BY <1>4 DEF leave, Members, CirclesTypeOK
  <2>2. Cardinality(Members') = Cardinality(Members) - 1
    BY <2>1, MembersAreFinite, FS_RemoveElement
  <2>3. PlacesAreCounted' /\ memberCount' \in Nat
    BY <1>4, <2>2, MembersAreFinite DEF leave, PlacesAreCounted, CirclesTypeOK
  <2> QED  BY <1>4, <2>3 DEF leave, CirclesTypeOK
<1>5. CASE UNCHANGED circlesVars
  BY <1>1, <1>5 DEF circlesVars, CirclesTypeOK
<1> QED
  BY <1>2, <1>3, <1>4, <1>5 DEF CirclesNext

(* However many people join, leave and come back at once, a group never    *)
(* has more members than it holds, and its count is theirs but for those   *)
(* who came back twice.                                                    *)
THEOREM PlacesHold == CirclesSpec => []PlacesAreCounted
<1> QED
  BY InitCircles, StepCircles, PTL DEF CirclesSpec, CirclesInv

-----------------------------------------------------------------------------
(* Subscriptions.                                                          *)

ChargeType ==
  [status : {"open", "answered"}, of : Subs, linked : BOOLEAN, end : Nat]
SubType == [status : {"none", "pending", "active", "cancelled", "expired"},
            autoRenew : BOOLEAN, end : Nat]
TaskType == [at : {"rest", "expiring", "charging"}, moment : 0..LastTick,
             list : SUBSET Subs, opened : SUBSET Charges]

Awaited(k) == charge[k] # NoCharge /\ charge[k].status = "open" /\ charge[k].linked
Lists(p, s) == task[p].at = "charging" /\ s \in task[p].list
Opens(p, s) == \E k \in task[p].opened : charge[k].of = s

(* A charge is that of a subscription somebody took, and so is a line of a *)
(* list.                                                                   *)
OnlyWhatWasTaken ==
  /\ \A k \in Charges : charge[k] # NoCharge => sub[charge[k].of].status # "none"
  /\ \A p \in Passes, s \in Subs : Lists(p, s) => sub[s].status # "none"

(* A pass links the one payment it has opened.                             *)
OpensOne ==
  \A p \in Passes :
    /\ task[p].opened # {} => task[p].at = "charging"
    /\ \A k \in task[p].opened : charge[k] # NoCharge
    /\ \A k, l \in task[p].opened : k = l

(* What one pass is about to charge, no other is, and no payment of it is  *)
(* awaited.                                                                *)
HeldOnce ==
  \A s \in Subs \ doubled, p \in Passes :
    /\ Lists(p, s) => ~Opens(p, s)
    /\ Lists(p, s) \/ Opens(p, s) =>
         /\ \A k \in Charges : Awaited(k) => charge[k].of # s
         /\ \A q \in Passes : Lists(q, s) \/ Opens(q, s) => q = p

OneCharge ==
  \A k, l \in Charges :
    Awaited(k) /\ Awaited(l) /\ charge[k].of = charge[l].of /\ charge[k].of \notin doubled => k = l
OneOpen ==
  \A s, t \in Subs :
    sub[s].status \in OpenStatuses /\ sub[t].status \in OpenStatuses
      /\ Customer[s] = Customer[t] => s = t

SubsInv ==
  /\ SubsTypeOK /\ OnlyWhatWasTaken /\ OpensOne
  /\ HeldOnce /\ OneCharge /\ OneOpen

LEMMA SubsTypes ==
  SubsTypeOK <=> /\ now \in 0..LastTick /\ sub \in [Subs -> SubType]
                 /\ charge \in [Charges -> {NoCharge} \cup ChargeType]
                 /\ task \in [Passes -> TaskType] /\ doubled \subseteq Subs
BY DEF SubsTypeOK, SubType, ChargeType, TaskType

LEMMA SubsTypesNext ==
  SubsTypeOK' <=> /\ now' \in 0..LastTick /\ sub' \in [Subs -> SubType]
                  /\ charge' \in [Charges -> {NoCharge} \cup ChargeType]
                  /\ task' \in [Passes -> TaskType] /\ doubled' \subseteq Subs
BY DEF SubsTypeOK, SubType, ChargeType, TaskType

LEMMA ChargesAreSomething ==
  ASSUME NEW c \in ChargeType
  PROVE  c # NoCharge /\ c.of \in Subs /\ c.status \in {"open", "answered"}
<1>1. c.status \in {"open", "answered"} /\ c.of \in Subs
  BY DEF ChargeType
<1>2. NoCharge.status = "none"
  BY DEF NoCharge
<1> QED
  BY <1>1, <1>2

(* A row of the task with a shorter list, or with another one to charge.   *)
LEMMA TaskRows ==
  ASSUME NEW row \in TaskType, NEW list \in SUBSET Subs
  PROVE  /\ [row EXCEPT !.list = list] \in TaskType
         /\ [row EXCEPT !.list = list].at = row.at
         /\ [row EXCEPT !.list = list].opened = row.opened
         /\ [row EXCEPT !.at = "charging", !.list = list] \in TaskType
         /\ [row EXCEPT !.at = "charging", !.list = list].at = "charging"
         /\ [row EXCEPT !.at = "charging", !.list = list].list = list
         /\ [row EXCEPT !.at = "charging", !.list = list].opened = row.opened
BY DEF TaskType

LEMMA ChargeIsOfASub ==
  ASSUME NEW k, charge[k] \in {NoCharge} \cup ChargeType
  PROVE  charge[k] # NoCharge => charge[k] \in ChargeType /\ charge[k].of \in Subs
BY DEF NoCharge, ChargeType

LEMMA IdleIsTyped == Idle \in TaskType /\ Idle.at = "rest" /\ Idle.list = {} /\ Idle.opened = {}
BY SubscriptionsAssumption DEF Idle, TaskType

LEMMA InitSubs == SubsInit => SubsInv
<1> SUFFICES ASSUME SubsInit PROVE SubsInv
  OBVIOUS
<1>1. /\ \A k \in Charges : charge[k] = NoCharge
      /\ \A p \in Passes : task[p] = Idle
      /\ \A s \in Subs : sub[s].status = "none"
  BY DEF SubsInit
<1>2. SubsTypeOK
  <2>1. sub \in [Subs -> SubType] /\ now \in 0..LastTick
    BY SubscriptionsAssumption DEF SubsInit, SubType
  <2>2. charge \in [Charges -> {NoCharge} \cup ChargeType] /\ doubled \subseteq Subs
    BY DEF SubsInit
  <2>3. task \in [Passes -> TaskType]
    BY IdleIsTyped DEF SubsInit
  <2> QED  BY <2>1, <2>2, <2>3, SubsTypes
<1>3. OnlyWhatWasTaken /\ OpensOne /\ HeldOnce
  BY <1>1, IdleIsTyped DEF OnlyWhatWasTaken, OpensOne, HeldOnce, Lists, Opens
<1>4. OneCharge /\ OneOpen
  BY <1>1 DEF OneCharge, OneOpen, Awaited, OpenStatuses
<1> QED
  BY <1>2, <1>3, <1>4 DEF SubsInv

(* Nothing new is awaited: whatever else moves, no payment is opened or    *)
(* linked, no subscription opens, and no pass has more to charge.          *)
LEMMA NothingNew ==
  ASSUME SubsInv, SubsTypeOK', UNCHANGED doubled,
         \A p \in Passes : task'[p] = task[p] \/ (task'[p].at # "charging" /\ task'[p].opened = {}),
         \A k \in Charges : /\ charge'[k] # NoCharge <=> charge[k] # NoCharge
                            /\ charge[k] # NoCharge => charge'[k].of = charge[k].of
                            /\ Awaited(k)' => Awaited(k),
         \A s \in Subs : /\ sub[s].status # "none" => sub'[s].status # "none"
                         /\ sub'[s].status \in OpenStatuses => sub[s].status \in OpenStatuses
  PROVE  SubsInv'
<1>0. /\ \A k \in Charges : charge[k] # NoCharge => charge[k].of \in Subs
      /\ \A p \in Passes : task[p].opened \subseteq Charges
      /\ \A p \in Passes : \A k \in task[p].opened : charge[k] # NoCharge
  <2>1. \A k \in Charges : charge[k] \in {NoCharge} \cup ChargeType
    BY SubsTypes DEF SubsInv
  <2>2. \A p \in Passes : task[p].opened \subseteq Charges
    BY SubsTypes DEF SubsInv, TaskType
  <2> QED  BY <2>1, <2>2, ChargeIsOfASub DEF SubsInv, OpensOne
<1>1. ASSUME NEW p \in Passes, NEW s
      PROVE  (Lists(p, s)' => Lists(p, s)) /\ (Opens(p, s)' => Opens(p, s))
  <2>1. CASE task'[p] = task[p]
    BY <1>0, <2>1 DEF Lists, Opens
  <2>2. CASE task'[p].at # "charging" /\ task'[p].opened = {}
    BY <2>2 DEF Lists, Opens
  <2> QED  BY <2>1, <2>2
<1>2. OnlyWhatWasTaken'
  BY <1>0, <1>1 DEF SubsInv, OnlyWhatWasTaken
<1>3. OpensOne'
  BY <1>0 DEF SubsInv, OpensOne
<1>4. HeldOnce'
  <2>1. ASSUME NEW k \in Charges, Awaited(k)'
        PROVE  Awaited(k) /\ charge'[k].of = charge[k].of
    BY <2>1 DEF Awaited
  <2> SUFFICES ASSUME NEW s \in Subs \ doubled, NEW p \in Passes
               PROVE  /\ Lists(p, s)' => ~Opens(p, s)'
                      /\ Lists(p, s)' \/ Opens(p, s)' =>
                           /\ \A k \in Charges : Awaited(k)' => charge'[k].of # s
                           /\ \A q \in Passes : Lists(q, s)' \/ Opens(q, s)' => q = p
    BY DEF HeldOnce
  <2> QED  BY <1>1, <2>1 DEF SubsInv, HeldOnce
<1>5. OneCharge'
  BY DEF SubsInv, OneCharge, Awaited
<1>6. OneOpen'
  BY DEF SubsInv, OneOpen, OpenStatuses
<1> QED
  BY <1>2, <1>3, <1>4, <1>5, <1>6 DEF SubsInv

LEMMA StepSubs == SubsInv /\ [SubsNext]_subsVars => SubsInv'
<1> SUFFICES ASSUME SubsInv, [SubsNext]_subsVars PROVE SubsInv'
  OBVIOUS
<1> USE SubscriptionsAssumption
<1>0. /\ now \in 0..LastTick /\ sub \in [Subs -> SubType]
      /\ charge \in [Charges -> {NoCharge} \cup ChargeType]
      /\ task \in [Passes -> TaskType] /\ doubled \subseteq Subs
      /\ \A k \in Charges : charge[k] # NoCharge => charge[k] \in ChargeType /\ charge[k].of \in Subs
      /\ \A p \in Passes : task[p].opened \subseteq Charges /\ task[p].list \subseteq Subs
  BY SubsTypes, ChargeIsOfASub DEF SubsInv, TaskType
<1>1. CASE Tick
  <2>1. now' \in 0..LastTick /\ UNCHANGED <<sub, charge, task, doubled>>
    BY <1>0, <1>1 DEF Tick
  <2>2. SubsTypeOK'
    BY <1>0, <2>1, SubsTypesNext
  <2> QED  BY <2>1, <2>2, NothingNew DEF Awaited
<1>2. ASSUME NEW s \in Subs, NEW k \in Charges, subscribe(s, k) PROVE SubsInv'
  <2>1. /\ sub[s].status = "none" /\ OpenOf(Customer[s]) = {} /\ charge[k] = NoCharge
        /\ sub' = [sub EXCEPT ![s].status = "pending"]
        /\ charge' = [charge EXCEPT ![k] = NewCharge(s, TRUE)]
        /\ UNCHANGED <<now, task, doubled>>
    BY <1>2 DEF subscribe, NextSub, NextKey
  <2>2. NewCharge(s, TRUE) \in ChargeType /\ NewCharge(s, TRUE).of = s
    BY <1>0 DEF NewCharge, ChargeType
  <2>3. SubsTypeOK'
    <3>1. sub' \in [Subs -> SubType]
      BY <1>0, <2>1 DEF SubType
    <3> QED  BY <1>0, <2>1, <2>2, <3>1, SubsTypesNext
  <2>4. \A t \in Subs : /\ t # s => sub'[t] = sub[t]
                        /\ sub'[t].status # "none" <=> t = s \/ sub[t].status # "none"
    BY <1>0, <2>1 DEF SubType
  <2>5. /\ charge'[k].of = s /\ charge'[k] # NoCharge
        /\ \A l \in Charges : l # k => charge'[l] = charge[l]
        /\ \A l \in Charges : charge[l] # NoCharge => charge[l].of # s
    <3>1. charge'[k] = NewCharge(s, TRUE)
      BY <1>0, <2>1
    <3>2. charge'[k].of = s /\ charge'[k] # NoCharge
      BY <2>2, <3>1, ChargesAreSomething
    <3>3. \A l \in Charges : l # k => charge'[l] = charge[l]
      BY <1>0, <2>1
    <3>4. \A l \in Charges : charge[l] # NoCharge => charge[l].of # s
      BY <2>1 DEF SubsInv, OnlyWhatWasTaken
    <3> QED  BY <3>2, <3>3, <3>4
  <2>6. ASSUME NEW p \in Passes, NEW t \in Subs
        PROVE  /\ Lists(p, t)' <=> Lists(p, t)
               /\ Opens(p, t)' <=> Opens(p, t)
               /\ Lists(p, t) \/ Opens(p, t) => t # s
    <3>1. \A l \in task[p].opened : l # k /\ charge[l] # NoCharge /\ charge'[l] = charge[l]
      BY <1>0, <2>1, <2>5 DEF SubsInv, OpensOne
    <3> QED  BY <1>0, <2>1, <2>5, <3>1 DEF Lists, Opens, SubsInv, OnlyWhatWasTaken
  <2>7. OnlyWhatWasTaken'
    BY <1>0, <2>4, <2>5, <2>6 DEF SubsInv, OnlyWhatWasTaken
  <2>8. OpensOne'
    <3>1. OpensOne
      BY DEF SubsInv
    <3>2. \A p \in Passes : \A l \in task[p].opened : l # k /\ charge'[l] = charge[l]
      BY <1>0, <2>1, <2>5, <3>1 DEF OpensOne
    <3> QED  BY <2>1, <3>1, <3>2 DEF OpensOne
  <2>9. HeldOnce'
    <3> SUFFICES ASSUME NEW t \in Subs \ doubled, NEW p \in Passes
                 PROVE  /\ Lists(p, t)' => ~Opens(p, t)'
                        /\ Lists(p, t)' \/ Opens(p, t)' =>
                             /\ \A l \in Charges : Awaited(l)' => charge'[l].of # t
                             /\ \A q \in Passes : Lists(q, t)' \/ Opens(q, t)' => q = p
      BY <2>1 DEF HeldOnce
    <3>1. \A l \in Charges : Awaited(l)' => l = k \/ (Awaited(l) /\ charge'[l].of = charge[l].of)
      BY <2>5 DEF Awaited
    <3> QED  BY <2>5, <2>6, <3>1 DEF SubsInv, HeldOnce
  <2>10. OneCharge'
    <3> SUFFICES ASSUME NEW l \in Charges, NEW m \in Charges, Awaited(l)', Awaited(m)',
                        charge'[l].of = charge'[m].of, charge'[l].of \notin doubled
                 PROVE  l = m
      BY <2>1 DEF OneCharge
    <3>1. \A c \in Charges : c # k /\ Awaited(c)' =>
            charge'[c] = charge[c] /\ Awaited(c) /\ charge[c].of # s
      BY <2>5 DEF Awaited
    <3>2. CASE l = k \/ m = k
      BY <2>5, <3>1, <3>2
    <3>3. CASE l # k /\ m # k
      BY <3>1, <3>3 DEF SubsInv, OneCharge
    <3> QED  BY <3>2, <3>3
  <2>11. OneOpen'
    BY <2>1, <2>4 DEF SubsInv, OneOpen, OpenOf
  <2> QED  BY <2>3, <2>7, <2>8, <2>9, <2>10, <2>11 DEF SubsInv
<1>3. ASSUME NEW s \in Subs, cancel(s) PROVE SubsInv'
  <2>1. /\ sub' \in [Subs -> SubType] /\ UNCHANGED <<now, charge, task, doubled>>
        /\ \A t \in Subs : /\ sub[t].status # "none" => sub'[t].status # "none"
                           /\ sub'[t].status \in OpenStatuses => sub[t].status \in OpenStatuses
    BY <1>0, <1>3 DEF cancel, SubType, OpenStatuses
  <2>2. SubsTypeOK'
    BY <1>0, <2>1, SubsTypesNext
  <2> QED  BY <2>1, <2>2, NothingNew DEF Awaited
<1>4. ASSUME NEW k \in Charges, Settle(k) \/ Refuse(k) PROVE SubsInv'
  <2>1. /\ charge[k].status = "open" /\ UNCHANGED <<now, task, doubled>>
        /\ charge[k] \in ChargeType /\ charge[k].of \in Subs /\ charge[k].end \in Nat
        /\ charge' = [charge EXCEPT ![k] = [charge[k] EXCEPT !.status = "answered", !.end = 0]]
    <3>1. charge[k].status = "open" /\ charge[k] # NoCharge
      BY <1>4 DEF Settle, Refuse, NoCharge
    <3> QED  BY <1>0, <1>4, <3>1 DEF Settle, Refuse, Answered, ChargeType
  <2>2. \/ sub' = sub
        \/ /\ sub[charge[k].of].status \in OpenStatuses
           /\ sub' = [sub EXCEPT ![charge[k].of].status = "active", ![charge[k].of].end = charge[k].end]
    BY <1>4 DEF Settle, Refuse
  <2>3. charge' \in [Charges -> {NoCharge} \cup ChargeType]
    BY <1>0, <2>1 DEF ChargeType
  <2>4. sub' \in [Subs -> SubType]
    BY <1>0, <2>1, <2>2 DEF SubType
  <2>5. \A l \in Charges : /\ charge'[l] # NoCharge <=> charge[l] # NoCharge
                           /\ charge[l] # NoCharge => charge'[l].of = charge[l].of
                           /\ Awaited(l)' => Awaited(l)
    <3>1. charge'[k] \in ChargeType /\ charge'[k].of = charge[k].of /\ charge'[k].status = "answered"
      BY <1>0, <2>1 DEF ChargeType
    <3>2. charge'[k] # NoCharge /\ charge[k] # NoCharge
      BY <2>1, <3>1, ChargesAreSomething
    <3>3. \A l \in Charges : l # k => charge'[l] = charge[l]
      BY <1>0, <2>1
    <3>4. ~Awaited(k)'
      BY <3>1 DEF Awaited
    <3> QED  BY <3>1, <3>2, <3>3, <3>4 DEF Awaited
  <2>6. \A t \in Subs : /\ sub[t].status # "none" => sub'[t].status # "none"
                        /\ sub'[t].status \in OpenStatuses => sub[t].status \in OpenStatuses
    BY <1>0, <2>1, <2>2 DEF SubType, OpenStatuses
  <2>7. SubsTypeOK'
    BY <1>0, <2>1, <2>3, <2>4, SubsTypesNext
  <2> QED  BY <2>1, <2>5, <2>6, <2>7, NothingNew
<1>5. ASSUME NEW p \in Passes, ReadOverdue(p) \/ EndPass(p) \/ TaskDies(p) PROVE SubsInv'
  <2>1. PICK row \in TaskType :
          task' = [task EXCEPT ![p] = row] /\ row.at # "charging" /\ row.opened = {}
    <3>1. CASE ReadOverdue(p)
      <4>1. [at |-> "expiring", moment |-> now, list |-> {s \in Subs : Listed(s, now)},
             opened |-> {}] \in TaskType
        BY <1>0 DEF TaskType
      <4> QED  BY <3>1, <4>1 DEF ReadOverdue
    <3>2. CASE EndPass(p) \/ TaskDies(p)
      BY <3>2, IdleIsTyped DEF EndPass, TaskDies
    <3> QED  BY <1>5, <3>1, <3>2
  <2>2. UNCHANGED <<now, sub, charge, doubled>>
    BY <1>5 DEF ReadOverdue, EndPass, TaskDies
  <2>3. \A q \in Passes : task'[q] = task[q] \/ (task'[q].at # "charging" /\ task'[q].opened = {})
    BY <1>0, <2>1
  <2>4. SubsTypeOK'
    BY <1>0, <2>1, <2>2, SubsTypesNext
  <2> QED  BY <2>2, <2>3, <2>4, NothingNew DEF Awaited
<1>6. ASSUME NEW p \in Passes, NEW s \in Subs, expire(p, s) PROVE SubsInv'
  <2>1. /\ task[p].at = "expiring" /\ task' = [task EXCEPT ![p].list = @ \ {s}]
        /\ UNCHANGED <<now, charge, doubled>>
        /\ (sub' = sub \/ sub' = [sub EXCEPT ![s].status = "expired"])
        /\ (sub' # sub => sub[s].status = "active")
    BY <1>6 DEF expire
  <2>2. task' \in [Passes -> TaskType] /\ sub' \in [Subs -> SubType]
    <3>1. PICK row \in TaskType : row = task[p]
      BY <1>0
    <3>2. row.list \ {s} \in SUBSET Subs
      BY <3>1 DEF TaskType
    <3>3. task' = [task EXCEPT ![p] = [row EXCEPT !.list = row.list \ {s}]]
      BY <2>1, <3>1
    <3>4. task' \in [Passes -> TaskType]
      BY <1>0, <3>2, <3>3, TaskRows
    <3> QED  BY <1>0, <2>1, <3>4 DEF SubType
  <2>3. \A t \in Subs : /\ sub[t].status # "none" => sub'[t].status # "none"
                        /\ sub'[t].status \in OpenStatuses => sub[t].status \in OpenStatuses
    BY <1>0, <2>1 DEF SubType, OpenStatuses
  <2>4. \A q \in Passes : task'[q] = task[q] \/ (task'[q].at # "charging" /\ task'[q].opened = {})
    <3>1. task'[p].at = "expiring" /\ task'[p].opened = task[p].opened
      BY <1>0, <2>1 DEF TaskType
    <3> QED  BY <1>0, <2>1, <3>1 DEF SubsInv, OpensOne
  <2>5. SubsTypeOK'
    BY <1>0, <2>1, <2>2, SubsTypesNext
  <2> QED  BY <2>1, <2>3, <2>4, <2>5, NothingNew DEF Awaited
<1>7. ASSUME NEW p \in Passes, ReadDue(p) PROVE SubsInv'
  <2> DEFINE due == {s \in Subs : Due(s, task[p].moment)}
             row == [Idle EXCEPT !.at = "charging", !.list = due]
  <2>1. /\ task[p].at = "expiring" /\ task' = [task EXCEPT ![p] = row]
        /\ doubled' = doubled \cup {s \in due : \E q \in Passes : Charging(q, s)}
        /\ UNCHANGED <<now, sub, charge>>
    BY <1>7 DEF ReadDue
  <2>2. row \in TaskType /\ row.at = "charging" /\ row.list = due /\ row.opened = {}
    <3>1. Idle \in TaskType /\ Idle.opened = {}
      BY IdleIsTyped DEF Idle
    <3>2. due \in SUBSET Subs
      OBVIOUS
    <3> HIDE DEF due
    <3> QED  BY <3>1, <3>2, TaskRows
  <2>3. \A s \in due : sub[s].status = "active" /\ \A k \in Charges : Awaited(k) => charge[k].of # s
    BY DEF Due, Awaiting, Awaited
  <2>4. due \subseteq Subs
    OBVIOUS
  <2> HIDE DEF due, row
  <2>5. SubsTypeOK'
    BY <1>0, <2>1, <2>2, <2>4, SubsTypesNext
  <2>6. /\ \A q \in Passes : q # p => task'[q] = task[q]
        /\ task'[p] = row
    BY <1>0, <2>1
  <2>7. ASSUME NEW q \in Passes, NEW s
        PROVE  /\ Lists(q, s)' <=> (q = p /\ s \in due) \/ (q # p /\ Lists(q, s))
               /\ Opens(q, s)' <=> q # p /\ Opens(q, s)
    BY <2>1, <2>2, <2>6 DEF Lists, Opens
  <2>8. ASSUME NEW q \in Passes, NEW s
        PROVE  Charging(q, s) <=> Lists(q, s) \/ Opens(q, s)
    BY DEF Charging, Lists, Opens, SubsInv, OpensOne
  <2>9. OnlyWhatWasTaken' /\ OpensOne'
    <3>1. OnlyWhatWasTaken'
      BY <2>1, <2>3, <2>7 DEF SubsInv, OnlyWhatWasTaken
    <3>2. OpensOne'
      BY <2>1, <2>2, <2>6 DEF SubsInv, OpensOne
    <3> QED  BY <3>1, <3>2
  <2>10. HeldOnce'
    <3> SUFFICES ASSUME NEW s \in Subs \ doubled', NEW q \in Passes
                 PROVE  /\ Lists(q, s)' => ~Opens(q, s)'
                        /\ Lists(q, s)' \/ Opens(q, s)' =>
                             /\ \A k \in Charges : Awaited(k)' => charge'[k].of # s
                             /\ \A r \in Passes : Lists(r, s)' \/ Opens(r, s)' => r = q
      BY DEF HeldOnce
    <3>1. s \notin doubled /\ \A k \in Charges : Awaited(k)' <=> Awaited(k)
      BY <2>1 DEF Awaited
    <3>2. CASE s \in due
      <4>1. \A r \in Passes : ~Lists(r, s) /\ ~Opens(r, s)
        BY <2>1, <2>8, <3>2
      <4> QED  BY <2>1, <2>3, <2>7, <3>1, <3>2, <4>1
    <3>3. CASE s \notin due
      BY <2>1, <2>7, <3>1, <3>3 DEF SubsInv, HeldOnce
    <3> QED  BY <3>2, <3>3
  <2>11. OneCharge' /\ OneOpen'
    BY <2>1 DEF SubsInv, OneCharge, OneOpen, Awaited
  <2> QED  BY <2>5, <2>9, <2>10, <2>11 DEF SubsInv
<1>8. ASSUME NEW p \in Passes, NEW s \in Subs, NEW k \in Charges, OpenPayment(p, s, k) PROVE SubsInv'
  <2>1. /\ task[p].at = "charging" /\ s \in task[p].list /\ task[p].opened = {}
        /\ charge[k] = NoCharge
        /\ charge' = [charge EXCEPT ![k] = NewCharge(s, FALSE)]
        /\ task' = [task EXCEPT ![p].list = @ \ {s}, ![p].opened = {k}]
        /\ UNCHANGED <<now, sub, doubled>>
    BY <1>8 DEF OpenPayment, NextKey
  <2>2. NewCharge(s, FALSE) \in ChargeType /\ NewCharge(s, FALSE).of = s /\ ~NewCharge(s, FALSE).linked
    BY <1>0 DEF NewCharge, ChargeType
  <2>3. /\ task' \in [Passes -> TaskType] /\ task'[p].at = "charging"
        /\ task'[p].list = task[p].list \ {s} /\ task'[p].opened = {k}
        /\ \A q \in Passes : q # p => task'[q] = task[q]
    BY <1>0, <2>1 DEF TaskType
  <2>4. SubsTypeOK'
    BY <1>0, <2>1, <2>2, <2>3, SubsTypesNext
  <2>5. /\ charge'[k].of = s /\ charge'[k] # NoCharge /\ ~Awaited(k)'
        /\ \A l \in Charges : l # k => charge'[l] = charge[l]
    <3>1. charge'[k] = NewCharge(s, FALSE)
      BY <1>0, <2>1
    <3>2. charge'[k] # NoCharge /\ charge'[k].of = s /\ ~charge'[k].linked
      BY <2>2, <3>1, ChargesAreSomething
    <3>3. \A l \in Charges : l # k => charge'[l] = charge[l]
      BY <1>0, <2>1
    <3> QED  BY <3>2, <3>3 DEF Awaited
  <2>6. \A l \in Charges : Awaited(l)' => Awaited(l) /\ charge'[l].of = charge[l].of
    BY <2>5 DEF Awaited
  <2>7. Lists(p, s) /\ sub[s].status # "none"
    BY <2>1 DEF SubsInv, OnlyWhatWasTaken, Lists
  <2>8. ASSUME NEW q \in Passes, NEW t
        PROVE  /\ Lists(q, t)' <=> Lists(q, t) /\ ~(q = p /\ t = s)
               /\ Opens(q, t)' <=> (q = p /\ t = s) \/ (q # p /\ Opens(q, t))
    <3>1. CASE q = p
      BY <2>1, <2>3, <2>5, <3>1 DEF Lists, Opens
    <3>2. CASE q # p
      <4>1. \A l \in task[q].opened : l # k /\ charge'[l] = charge[l]
        BY <1>0, <2>1, <2>5 DEF SubsInv, OpensOne
      <4> QED  BY <2>3, <3>2, <4>1 DEF Lists, Opens
    <3> QED  BY <3>1, <3>2
  <2>9. OnlyWhatWasTaken' /\ OpensOne'
    <3>1. OnlyWhatWasTaken'
      BY <2>1, <2>5, <2>7, <2>8 DEF SubsInv, OnlyWhatWasTaken
    <3>2. OpensOne'
      <4>1. ASSUME NEW q \in Passes, q # p
            PROVE  \A l \in task[q].opened : charge'[l] # NoCharge
        BY <1>0, <2>1, <2>5, <4>1 DEF SubsInv, OpensOne
      <4> QED  BY <2>3, <2>5, <4>1 DEF SubsInv, OpensOne
    <3> QED  BY <3>1, <3>2
  <2>10. HeldOnce'
    <3> SUFFICES ASSUME NEW t \in Subs \ doubled, NEW q \in Passes
                 PROVE  /\ Lists(q, t)' => ~Opens(q, t)'
                        /\ Lists(q, t)' \/ Opens(q, t)' =>
                             /\ \A l \in Charges : Awaited(l)' => charge'[l].of # t
                             /\ \A r \in Passes : Lists(r, t)' \/ Opens(r, t)' => r = q
      BY <2>1 DEF HeldOnce
    <3>1. \A r \in Passes : Lists(r, t)' \/ Opens(r, t)' => Lists(r, t) \/ Opens(r, t)
      BY <2>7, <2>8
    <3> QED  BY <2>6, <2>7, <2>8, <3>1 DEF SubsInv, HeldOnce
  <2>11. OneCharge'
    <3> SUFFICES ASSUME NEW l \in Charges, NEW m \in Charges, Awaited(l)', Awaited(m)',
                        charge'[l].of = charge'[m].of, charge'[l].of \notin doubled
                 PROVE  l = m
      BY <2>1 DEF OneCharge
    <3> QED  BY <2>6 DEF SubsInv, OneCharge
  <2>12. OneOpen'
    BY <2>1 DEF SubsInv, OneOpen
  <2> QED  BY <2>4, <2>9, <2>10, <2>11, <2>12 DEF SubsInv
<1>9. ASSUME NEW p \in Passes, NEW k \in Charges, LinkPayment(p, k) PROVE SubsInv'
  <2>1. /\ k \in task[p].opened /\ charge' = [charge EXCEPT ![k].linked = TRUE]
        /\ task' = [task EXCEPT ![p].opened = {}] /\ UNCHANGED <<now, sub, doubled>>
    BY <1>9 DEF LinkPayment
  <2>2. charge[k] \in ChargeType /\ charge[k] # NoCharge /\ charge[k].of \in Subs
    BY <1>0, <2>1 DEF SubsInv, OpensOne
  <2>3. /\ charge' \in [Charges -> {NoCharge} \cup ChargeType]
        /\ charge'[k].of = charge[k].of /\ charge'[k] # NoCharge
        /\ \A l \in Charges : l # k => charge'[l] = charge[l]
    BY <1>0, <2>1, <2>2 DEF ChargeType, NoCharge
  <2>4. /\ task' \in [Passes -> TaskType] /\ task'[p].opened = {}
        /\ task'[p].at = task[p].at /\ task'[p].list = task[p].list
        /\ \A q \in Passes : q # p => task'[q] = task[q]
    BY <1>0, <2>1 DEF TaskType
  <2>5. SubsTypeOK'
    BY <1>0, <2>1, <2>3, <2>4, SubsTypesNext
  <2>6. ASSUME NEW q \in Passes, NEW t
        PROVE  /\ Lists(q, t)' <=> Lists(q, t)
               /\ Opens(q, t)' <=> q # p /\ Opens(q, t)
    <3>1. \A l \in Charges : charge'[l].of = charge[l].of
      BY <2>3
    <3> QED  BY <1>0, <2>4, <3>1 DEF Lists, Opens
  <2>7. Opens(p, charge[k].of)
    BY <2>1 DEF Opens
  <2>8. \A l \in Charges : l # k /\ Awaited(l)' => Awaited(l) /\ charge'[l] = charge[l]
    BY <2>3 DEF Awaited
  <2>9. OnlyWhatWasTaken' /\ OpensOne'
    <3>1. OnlyWhatWasTaken'
      BY <2>1, <2>2, <2>3, <2>6 DEF SubsInv, OnlyWhatWasTaken
    <3>2. OpensOne'
      BY <1>0, <2>3, <2>4 DEF SubsInv, OpensOne
    <3> QED  BY <3>1, <3>2
  <2>10. HeldOnce'
    <3> SUFFICES ASSUME NEW t \in Subs \ doubled, NEW q \in Passes
                 PROVE  /\ Lists(q, t)' => ~Opens(q, t)'
                        /\ Lists(q, t)' \/ Opens(q, t)' =>
                             /\ \A l \in Charges : Awaited(l)' => charge'[l].of # t
                             /\ \A r \in Passes : Lists(r, t)' \/ Opens(r, t)' => r = q
      BY <2>1 DEF HeldOnce
    <3>1. CASE t = charge[k].of
      <4>1. ~Lists(p, t) /\ \A r \in Passes : Lists(r, t) \/ Opens(r, t) => r = p
        BY <2>7, <3>1 DEF SubsInv, HeldOnce
      <4>2. \A r \in Passes : ~Lists(r, t)' /\ ~Opens(r, t)'
        BY <2>6, <4>1
      <4> QED  BY <4>2
    <3>2. CASE t # charge[k].of
      BY <2>3, <2>6, <2>8, <3>2 DEF SubsInv, HeldOnce
    <3> QED  BY <3>1, <3>2
  <2>11. OneCharge'
    <3>1. charge[k].of \notin doubled => \A l \in Charges : Awaited(l) => charge[l].of # charge[k].of
      BY <2>2, <2>7 DEF SubsInv, HeldOnce
    <3> QED  BY <2>1, <2>3, <2>8, <3>1 DEF SubsInv, OneCharge
  <2>12. OneOpen'
    BY <2>1 DEF SubsInv, OneOpen
  <2> QED  BY <2>5, <2>9, <2>10, <2>11, <2>12 DEF SubsInv
<1>10. CASE UNCHANGED subsVars
  <2>1. UNCHANGED <<now, sub, charge, task, doubled>>
    BY <1>10 DEF subsVars
  <2>2. SubsTypeOK'
    BY <2>1 DEF SubsInv, SubsTypeOK
  <2> QED  BY <2>1, <2>2, NothingNew DEF Awaited
<1> QED
  BY <1>1, <1>2, <1>3, <1>4, <1>5, <1>6, <1>7, <1>8, <1>9, <1>10 DEF SubsNext, TaskWorks, PassWorks

(* A set whose elements are all the same has at most one.                  *)
LEMMA AtMostOne ==
  ASSUME NEW S, \A x, y \in S : x = y
  PROVE  Cardinality(S) <= 1
<1>1. CASE S = {}
  BY <1>1, FS_EmptySet
<1>2. CASE S # {}
  <2>1. PICK x \in S : S = {x}
    BY <1>2
  <2> QED  BY <2>1, FS_Singleton
<1> QED
  BY <1>1, <1>2

LEMMA SubsInvGives == SubsInv => OneChargeAtATime
<1> SUFFICES ASSUME SubsInv PROVE OneChargeAtATime
  OBVIOUS
<1>1. ASSUME NEW s \in Subs \ doubled PROVE Cardinality(Awaiting(s)) <= 1
  <2>1. \A k \in Awaiting(s) : k \in Charges /\ Awaited(k) /\ charge[k].of = s
    BY DEF Awaiting, Awaited, NoCharge
  <2> QED  BY <2>1, AtMostOne DEF SubsInv, OneCharge
<1>2. ASSUME NEW s \in Subs PROVE Cardinality(OpenOf(Customer[s])) <= 1
  BY AtMostOne DEF SubsInv, OneOpen, OpenOf
<1> QED  BY <1>1, <1>2 DEF OneChargeAtATime

(* Whatever passes of the task overlap, and die between opening a payment  *)
(* and linking it, and whenever the provider answers, a subscription awaits*)
(* one payment at most unless one pass listed it while another was charging*)
(* it, and a customer has one open subscription.                           *)
THEOREM OneChargeHolds == SubsSpec => []OneChargeAtATime
<1> QED
  BY SubsInvGives, InitSubs, StepSubs, PTL DEF SubsSpec

-----------------------------------------------------------------------------
(* Tickets and complaints.                                                 *)

(* The customer believes what he was told as long as it is so.             *)
DeskInv == DeskTypeOK /\ DeskHolds /\ (believes => ticket = "resolved")

LEMMA InitDesk == DeskInit => DeskInv
<1> SUFFICES ASSUME DeskInit PROVE DeskInv
  OBVIOUS
<1> USE DeskAssumption DEF DeskInit, TicketStatuses, TicketTerminal, ComplaintStatuses, ComplaintTerminal
<1>1. DeskTypeOK
  <2>1. page \in [Agents -> [on : {"nothing", "ticket", "complaint"},
                           read : TicketStatuses \cup ComplaintStatuses,
                           seen : 0..MaxMessages]]
    BY DEF NoPage
  <2>2. written \in 0..MaxMessages /\ handled \in 0..MaxMessages /\ verdicts \in Nat
    OBVIOUS
  <2>3. /\ ticket \in TicketStatuses /\ resolution \in BOOLEAN
        /\ complaint \in ComplaintStatuses /\ lastWord \in {"customer", "answer", "status"}
        /\ believes \in BOOLEAN
        /\ hasty \in BOOLEAN /\ interrupted \in BOOLEAN /\ repeated \in BOOLEAN
    OBVIOUS
  <2> QED  BY <2>1, <2>2, <2>3 DEF DeskTypeOK
<1>2. DeskHolds /\ (believes => ticket = "resolved")
  BY DEF DeskHolds, NoMessageIsBuried, AnswersAreFollowed, OneVerdict
<1> QED
  BY <1>1, <1>2 DEF DeskInv

LEMMA StepDesk == DeskInv /\ [DeskNext]_deskVars => DeskInv'
<1> SUFFICES ASSUME DeskInv, [DeskNext]_deskVars PROVE DeskInv'
  OBVIOUS
<1> USE DeskAssumption DEF DeskInv, TicketStatuses, TicketTerminal, ComplaintStatuses, ComplaintTerminal
<1>1. CASE Reply
  <2>1. DeskTypeOK'
    BY <1>1 DEF Reply, Reopened, DeskTypeOK
  <2>2. DeskHolds' /\ (believes => ticket = "resolved")'
    BY <1>1 DEF Reply, Reopened, DeskTypeOK, DeskHolds, NoMessageIsBuried, AnswersAreFollowed,
       OneVerdict
  <2> QED  BY <2>1, <2>2
<1>2. ASSUME NEW a \in Agents, OpenTicket(a) \/ OpenComplaint(a) \/ ClosePage(a) PROVE DeskInv'
  BY <1>2 DEF OpenTicket, OpenComplaint, ClosePage, Leaves, NoPage, DeskTypeOK, DeskHolds,
     NoMessageIsBuried, AnswersAreFollowed, OneVerdict
<1>3. ASSUME NEW a \in Agents, Answer(a) PROVE DeskInv'
  <2>1. DeskTypeOK'
    <3>1. ticket' \in TicketStatuses /\ resolution' \in BOOLEAN /\ complaint' \in ComplaintStatuses
      BY <1>3 DEF Answer, DeskTypeOK
    <3>2. page' \in [Agents -> [on : {"nothing", "ticket", "complaint"},
                               read : TicketStatuses \cup ComplaintStatuses,
                               seen : 0..MaxMessages]]
          /\ handled' \in 0..MaxMessages /\ written' \in 0..MaxMessages
      BY <1>3 DEF Answer, Leaves, Acted, NoPage, DeskTypeOK
    <3>3. lastWord' = "answer" /\ verdicts' = verdicts /\ hasty' = hasty
          /\ believes' = FALSE /\ repeated' = repeated
      BY <1>3 DEF Answer
    <3>4. interrupted' \in BOOLEAN
      BY <1>3 DEF Answer
    <3> QED  BY <3>1, <3>2, <3>3, <3>4 DEF DeskTypeOK
  <2>2. AnswersAreFollowed' /\ (believes => ticket = "resolved")'
    BY <1>3 DEF Answer, DeskTypeOK, DeskHolds, AnswersAreFollowed
  <2>3. OneVerdict'
    BY <1>3 DEF Answer, DeskHolds, OneVerdict
  <2>4. NoMessageIsBuried'
    BY <1>3 DEF Answer, Acted, DeskTypeOK, DeskHolds, NoMessageIsBuried
  <2> QED  BY <2>1, <2>2, <2>3, <2>4 DEF DeskHolds
<1>4. ASSUME NEW a \in Agents, NEW status \in TicketStatuses, NEW explains \in BOOLEAN,
             set_ticket_status(a, status, explains)
      PROVE  DeskInv'
  <2>1. DeskTypeOK'
    <3>1. ticket' \in TicketStatuses /\ resolution' \in BOOLEAN /\ complaint' \in ComplaintStatuses
      BY <1>4 DEF set_ticket_status, DeskTypeOK
    <3>2. page' \in [Agents -> [on : {"nothing", "ticket", "complaint"},
                               read : TicketStatuses \cup ComplaintStatuses,
                               seen : 0..MaxMessages]]
          /\ handled' \in 0..MaxMessages /\ written' \in 0..MaxMessages
      BY <1>4 DEF set_ticket_status, Leaves, Acted, NoPage, DeskTypeOK
    <3>3. lastWord' = "status" /\ verdicts' = verdicts /\ interrupted' = interrupted
          /\ believes' \in BOOLEAN /\ repeated' \in BOOLEAN
      BY <1>4 DEF set_ticket_status, DeskTypeOK
    <3>4. hasty' \in BOOLEAN
      BY <1>4 DEF set_ticket_status, DeskTypeOK
    <3> QED  BY <3>1, <3>2, <3>3, <3>4 DEF DeskTypeOK
  <2>2. AnswersAreFollowed' /\ (believes => ticket = "resolved")'
    BY <1>4 DEF set_ticket_status, Before, DeskTypeOK, DeskHolds, AnswersAreFollowed
  <2>3. OneVerdict'
    BY <1>4 DEF set_ticket_status, DeskHolds, OneVerdict
  <2>4. NoMessageIsBuried'
    <3>1. hasty' = IF status \in TicketTerminal
                     THEN page[a].seen < written /\ handled < written ELSE hasty
      BY <1>4 DEF set_ticket_status
    <3>2. ticket' = status /\ written' = written
          /\ handled' = IF page[a].seen > handled THEN page[a].seen ELSE handled
      BY <1>4 DEF set_ticket_status, Acted
    <3>3. handled \in Int /\ written \in Int /\ page[a].seen \in Int
      BY DEF DeskTypeOK
    <3>4. ASSUME status \in TicketTerminal, handled' < written' PROVE hasty'
      <4>1. page[a].seen < written /\ handled < written
        BY <3>2, <3>3, <3>4
      <4> QED  BY <3>1, <3>4, <4>1, Zenon
    <3> QED  BY <3>2, <3>4 DEF NoMessageIsBuried
  <2> QED  BY <2>1, <2>2, <2>3, <2>4 DEF DeskHolds
<1>5. ASSUME NEW a \in Agents, NEW status \in ComplaintStatuses \ {"pending"},
             decide_complaint(a, status)
      PROVE  DeskInv'
  BY <1>5 DEF decide_complaint, Leaves, NoPage, DeskTypeOK, DeskHolds,
     NoMessageIsBuried, AnswersAreFollowed, OneVerdict
<1>6. CASE UNCHANGED deskVars
  BY <1>6 DEF deskVars, DeskTypeOK, DeskHolds, NoMessageIsBuried, AnswersAreFollowed, OneVerdict
<1> QED
  BY <1>1, <1>2, <1>3, <1>4, <1>5, <1>6 DEF DeskNext

-----------------------------------------------------------------------------
(* Calls.                                                                  *)

(* A request has read a call as answered when it was, unless two gestures  *)
(* overlapped on it.                                                       *)
ReadAsItWas ==
  \A r \in Presses : press[r].at = "read" /\ press[r].call \notin overlapped =>
    (press[r].answered <=> press[r].status \in {"accepted", "ended"})
OneActive == \A c, d \in Active : c = d
CallIsTrue(c) ==
  /\ outcome[c] # "none" => call[c].status = outcome[c]
  /\ call[c].answered <=> call[c].status \in {"accepted", "ended"}
  /\ call[c].timed <=> call[c].status = "ended"
CallsInv ==
  /\ CallsTypeOK /\ ReadAsItWas /\ OneActive
  /\ \A c \in PlacedCalls \ overlapped : CallIsTrue(c)

LEMMA CallStatuses ==
  /\ DOMAIN CALL_TRANSITIONS = {"ringing", "accepted", "declined", "ended", "missed"}
  /\ CALL_TRANSITIONS["ringing"] = {"accepted", "declined", "missed"}
  /\ CALL_TRANSITIONS["accepted"] = {"ended"}
  /\ \A s \in {"declined", "ended", "missed"} : CALL_TRANSITIONS[s] = {}
BY DEF CALL_TRANSITIONS

LEMMA InitCalls == CallsInit => CallsInv
<1> SUFFICES ASSUME CallsInit PROVE CallsInv
  OBVIOUS
<1> USE DEF CallsInit
<1>1. CallsTypeOK
  BY CallStatuses DEF CallsTypeOK, NoPress
<1>2. ReadAsItWas
  BY DEF ReadAsItWas, NoPress
<1>3. OneActive
  BY DEF OneActive, Active, ActiveCall
<1>4. ASSUME NEW c \in PlacedCalls PROVE CallIsTrue(c)
  BY DEF CallIsTrue
<1> QED
  BY <1>1, <1>2, <1>3, <1>4 DEF CallsInv

LEMMA CallsInvGives == CallsInv => CallsHold
<1> SUFFICES ASSUME CallsInv PROVE CallsHold
  OBVIOUS
<1>1. Cardinality(Active) <= 1
  <2>1. CASE Active = {}
    BY <2>1, FS_EmptySet
  <2>2. CASE Active # {}
    <3>1. PICK c \in Active : Active = {c}
      BY <2>2 DEF CallsInv, OneActive
    <3> QED  BY <3>1, FS_Singleton
  <2> QED  BY <2>1, <2>2
<1> QED
  BY <1>1 DEF CallsInv, CallsHold, CallIsTrue

(* What a gesture makes of the call whose row it read.                     *)
LEMMA GestureKeeps ==
  ASSUME CallsInv, NEW r \in Presses, NEW status, Moves(r, status),
         NEW new \in [status : DOMAIN CALL_TRANSITIONS, answered : BOOLEAN, timed : BOOLEAN],
         call' = [call EXCEPT ![press[r].call] = new],
         new.status = status,
         press[r].call \notin overlapped' =>
            /\ new.answered <=> status \in {"accepted", "ended"}
            /\ new.timed <=> status = "ended"
  PROVE  CallsInv'
<1> DEFINE c == press[r].call
<1>1. /\ press[r].at = "read" /\ c \in PlacedCalls /\ status \in CALL_TRANSITIONS[press[r].status]
      /\ status \in ActiveCall => Active \ {c} = {}
      /\ press' = [press EXCEPT ![r] = NoPress] /\ UNCHANGED courseStatus
      /\ overlapped' = overlapped \cup {d \in {c} : call[d].status # press[r].status}
      /\ outcome' = IF status \in ActiveCall \/ outcome[c] # "none" THEN outcome
                    ELSE [outcome EXCEPT ![c] = status]
  BY DEF Moves, AnotherIsActive, CallsInv, CallsTypeOK, NoPress
<1>2. CallsTypeOK'
  BY <1>1, CallStatuses DEF CallsInv, CallsTypeOK, NoPress, ActiveCall
<1>3. ReadAsItWas'
  BY <1>1 DEF CallsInv, CallsTypeOK, ReadAsItWas, NoPress
<1>4. OneActive'
  <2>1. Active' \subseteq Active \cup {c} /\ (c \in Active' => status \in ActiveCall)
    BY <1>1 DEF CallsInv, CallsTypeOK, Active
  <2>2. CASE status \in ActiveCall
    BY <1>1, <2>1, <2>2 DEF OneActive
  <2>3. CASE status \notin ActiveCall
    BY <2>1, <2>3 DEF OneActive, CallsInv
  <2> QED  BY <2>2, <2>3
<1>5. ASSUME NEW d \in PlacedCalls \ overlapped' PROVE CallIsTrue(d)'
  <2>1. d \in PlacedCalls \ overlapped /\ CallIsTrue(d)
    BY <1>1 DEF CallsInv
  <2>2. CASE d # c
    BY <1>1, <2>1, <2>2 DEF CallIsTrue, CallsInv, CallsTypeOK
  <2>3. CASE d = c
    <3>1. call[c].status = press[r].status /\ call'[c] = new
      BY <1>1, <1>5, <2>3 DEF CallsInv, CallsTypeOK
    <3>2. outcome[c] = "none" /\ outcome' \in [PlacedCalls -> {"none", "declined", "ended", "missed"}]
      BY <1>1, <1>2, <2>1, <2>3, <3>1, CallStatuses DEF CallIsTrue, CallsInv, CallsTypeOK
    <3>3. outcome'[c] # "none" => status = outcome'[c]
      BY <1>1, <3>2 DEF CallsInv, CallsTypeOK
    <3> QED  BY <1>5, <2>3, <3>1, <3>3 DEF CallIsTrue
  <2> QED  BY <2>2, <2>3
<1> QED
  BY <1>2, <1>3, <1>4, <1>5 DEF CallsInv

LEMMA StepCalls == CallsInv /\ [CallsNext]_callsVars => CallsInv'
<1> SUFFICES ASSUME CallsInv, [CallsNext]_callsVars PROVE CallsInv'
  OBVIOUS
<1> USE DEF CallsInv
<1>1. CASE CourseEnds
  BY <1>1 DEF CourseEnds, CallsTypeOK, ReadAsItWas, OneActive, Active, CallIsTrue
<1>2. ASSUME NEW r \in Presses, SearchCall(r) \/ GiveUp(r) PROVE CallsInv'
  BY <1>2 DEF SearchCall, GiveUp, NoPress, CallsTypeOK, ReadAsItWas, OneActive, Active, CallIsTrue
<1>3. ASSUME NEW r \in Presses, NEW c \in PlacedCalls, ReadCall(r, c) PROVE CallsInv'
  <2>1. CallsTypeOK'
    BY <1>3 DEF ReadCall, CallsTypeOK
  <2>2. ReadAsItWas'
    BY <1>3 DEF ReadCall, CallsTypeOK, ReadAsItWas, CallIsTrue
  <2> QED  BY <1>3, <2>1, <2>2 DEF ReadCall, OneActive, Active, CallIsTrue
<1>4. ASSUME NEW r \in Presses, NEW c \in PlacedCalls, place(r, c) PROVE CallsInv'
  <2>1. CallsTypeOK'
    BY <1>4, CallStatuses DEF place, CallsTypeOK, NoPress
  <2>2. ReadAsItWas'
    BY <1>4 DEF place, CallsTypeOK, ReadAsItWas, NoPress
  <2>3. OneActive'
    BY <1>4 DEF place, AnotherIsActive, CallsTypeOK, OneActive, Active
  <2>4. ASSUME NEW d \in PlacedCalls \ overlapped' PROVE CallIsTrue(d)'
    BY <1>4, <2>4 DEF place, CallsTypeOK, CallIsTrue
  <2> QED  BY <2>1, <2>2, <2>3, <2>4
<1>5. ASSUME NEW r \in Presses, accept(r) PROVE CallsInv'
  <2> DEFINE c == press[r].call
             new == [status |-> "accepted", answered |-> TRUE, timed |-> call[c].timed]
  <2>1. Moves(r, "accepted") /\ c \in PlacedCalls /\ press[r].at = "read"
    BY <1>5 DEF accept, Moves, CallsTypeOK, NoPress
  <2>2. call' = [call EXCEPT ![c] = new]
    BY <1>5, <2>1 DEF accept, CallsTypeOK
  <2>3. new \in [status : DOMAIN CALL_TRANSITIONS, answered : BOOLEAN, timed : BOOLEAN]
    BY <2>1, CallStatuses DEF CallsTypeOK, Moves
  <2>4. c \notin overlapped' => new.answered /\ ~new.timed
    BY <2>1, CallStatuses DEF Moves, CallsTypeOK, CallIsTrue
  <2> HIDE DEF c, new
  <2> QED  BY <2>1, <2>2, <2>3, <2>4, GestureKeeps DEF c, new
<1>6. ASSUME NEW r \in Presses, decline(r) PROVE CallsInv'
  <2> DEFINE c == press[r].call
             new == [status |-> "declined", answered |-> call[c].answered, timed |-> call[c].timed]
  <2>1. Moves(r, "declined") /\ c \in PlacedCalls /\ press[r].at = "read"
    BY <1>6 DEF decline, Moves, CallsTypeOK, NoPress
  <2>2. call' = [call EXCEPT ![c] = new]
    BY <1>6, <2>1 DEF decline, CallsTypeOK
  <2>3. new \in [status : DOMAIN CALL_TRANSITIONS, answered : BOOLEAN, timed : BOOLEAN]
    BY <2>1, CallStatuses DEF CallsTypeOK, Moves
  <2>4. c \notin overlapped' => ~new.timed /\ ~new.answered
    BY <2>1, CallStatuses DEF Moves, CallsTypeOK, CallIsTrue
  <2>5. new.status = "declined" /\ "declined" \notin {"accepted", "ended"} /\ new.timed = call[c].timed
        /\ new.answered = call[c].answered
    OBVIOUS
  <2>6. c \notin overlapped' =>
          (new.answered <=> "declined" \in {"accepted", "ended"}) /\ (new.timed <=> "declined" = "ended")
    BY <2>4, <2>5
  <2> HIDE DEF new
  <2> QED  BY <2>1, <2>2, <2>3, <2>5, <2>6, GestureKeeps
<1>7. ASSUME NEW r \in Presses, end(r) PROVE CallsInv'
  <2> DEFINE c == press[r].call
             status == HungUpAs(r)
             new == [status |-> status, answered |-> call[c].answered,
                     timed |-> press[r].answered]
  <2>1. Moves(r, status) /\ c \in PlacedCalls /\ press[r].at = "read"
    BY <1>7 DEF end, Moves, CallsTypeOK, NoPress
  <2>2. call' = [call EXCEPT ![c] = new]
    BY <1>7, <2>1 DEF end, CallsTypeOK
  <2>3. new \in [status : DOMAIN CALL_TRANSITIONS, answered : BOOLEAN, timed : BOOLEAN]
    <3>1. press[r].answered \in BOOLEAN
      BY <2>1 DEF CallsTypeOK, NoPress
    <3>2. status \in DOMAIN CALL_TRANSITIONS
      BY CallStatuses DEF HungUpAs
    <3>3. call[c].answered \in BOOLEAN
      <4>1. call \in [PlacedCalls -> [status : {"none"} \cup DOMAIN CALL_TRANSITIONS,
                                     answered : BOOLEAN, timed : BOOLEAN]]
        BY DEF CallsTypeOK
      <4> HIDE DEF c
      <4> QED  BY <4>1, <2>1
    <3> HIDE DEF c, status
    <3> QED  BY <3>1, <3>2, <3>3
  <2>4. c \notin overlapped' => (new.answered <=> status \in {"accepted", "ended"})
                                /\ (new.timed <=> status = "ended")
    BY <2>1, CallStatuses DEF Moves, CallsTypeOK, CallIsTrue, HungUpAs, ReadAsItWas
  <2>5. new.status = status
    OBVIOUS
  <2> HIDE DEF new, status
  <2> QED  BY <2>1, <2>2, <2>3, <2>4, <2>5, GestureKeeps
<1>8. CASE UNCHANGED callsVars
  BY <1>8 DEF callsVars, CallsTypeOK, ReadAsItWas, OneActive, Active, CallIsTrue
<1> QED
  BY <1>1, <1>2, <1>3, <1>4, <1>5, <1>6, <1>7, <1>8 DEF CallsNext
-----------------------------------------------------------------------------
(* Shared bills.                                                           *)

BillInv == BillTypeOK /\ BillHolds

LEMMA InitBill == BillInit => BillInv
BY DEF BillInit, BillInv, BillTypeOK, BillHolds

(* So much for everyone, and one unit more up to a guest: the sum.         *)
LEMMA StepSum ==
  ASSUME NEW n \in Nat, NEW q \in Int, NEW r \in Nat, NEW f,
         \A x \in 1..n : f[x] = q + (IF x <= r THEN 1 ELSE 0)
  PROVE  SumFunctionOnSet(f, 1..n) = q * n + Cardinality({x \in 1..n : x <= r})
<1> DEFINE Low(T) == {x \in T : x <= r}
           Good(T) == SumFunctionOnSet(f, T) = q * Cardinality(T) + Cardinality(Low(T))
           Bad == {T \in SUBSET (1..n) : ~Good(T)}
<1>1. IsFiniteSet(1..n) /\ Cardinality(1..n) = n
  BY FS_Interval
<1>2. ASSUME Bad # {} PROVE FALSE
  <2>1. PICK T \in Bad : \A U \in Bad : U \subseteq T => U = T
    <3> DEFINE D == 1..n
    <3>1. Bad \subseteq SUBSET D /\ IsFiniteSet(D) /\ Bad # {}
      BY <1>1, <1>2
    <3> HIDE DEF Bad, D
    <3> QED  BY <3>1, SmallestSubset
  <2>2. T \subseteq 1..n /\ IsFiniteSet(T) /\ IsFiniteSet(Low(T)) /\ ~Good(T)
    <3>1. T \subseteq 1..n /\ ~Good(T)
      OBVIOUS
    <3>2. IsFiniteSet(T)
      BY <1>1, <3>1, FS_Subset
    <3> QED  BY <3>1, <3>2, FS_Subset
  <2>3. T # {}
    <3>1. ASSUME T = {} PROVE FALSE
      <4>1. Low(T) = {} /\ Cardinality({}) = 0
        BY <3>1, FS_EmptySet
      <4>2. SumFunctionOnSet(f, T) = 0
        BY <3>1, SumOfNone
      <4> QED  BY <2>2, <3>1, <4>1, <4>2
    <3> QED  BY <3>1
  <2> DEFINE a == Pick(T)
             U == T \ {a}
  <2>4. a \in T /\ SumFunctionOnSet(f, T) = f[a] + SumFunctionOnSet(f, U)
    BY <2>2, <2>3, SumUnfolds, PickIsMember DEF Rest
  <2>5. Good(U)
    BY <2>1, <2>2, <2>4
  <2>6. Cardinality(U) = Cardinality(T) - 1 /\ Cardinality(T) \in Nat
    BY <2>2, <2>4, FS_RemoveElement, FS_CardinalityType
  <2>7. /\ Cardinality(Low(T)) = Cardinality(Low(U)) + (IF a <= r THEN 1 ELSE 0)
        /\ Cardinality(Low(T)) \in Nat
    <3>1. CASE a <= r
      <4> DEFINE low == Low(T)
                 rest == Low(U)
      <4>1. a \in low /\ rest = low \ {a} /\ IsFiniteSet(low)
        BY <2>2, <2>4, <3>1
      <4> HIDE DEF a, low, rest
      <4>2. Cardinality(low) = Cardinality(rest) + 1 /\ Cardinality(low) \in Nat
        <5>1. Cardinality(low \ {a}) = Cardinality(low) - 1
          BY <4>1, FS_RemoveElement
        <5>2. Cardinality(low) \in Nat
          BY <4>1, FS_CardinalityType
        <5> HIDE DEF Low
        <5> QED  BY <4>1, <5>1, <5>2
      <4> QED  BY <3>1, <4>2 DEF low, rest, a
    <3>2. CASE ~(a <= r)
      <4>1. Low(U) = Low(T)
        BY <3>2
      <4> HIDE DEF a, U, Low
      <4> QED  BY <2>2, <3>2, <4>1, FS_CardinalityType
    <3> QED  BY <3>1, <3>2
  <2>8. f[a] = q + (IF a <= r THEN 1 ELSE 0)
    BY <2>2, <2>4
  <2> DEFINE k == Cardinality(T)
  <2>9. q * k = q + q * (k - 1) /\ q * (k - 1) \in Int /\ q * k \in Int
    BY <2>6
  <2> DEFINE more == IF a <= r THEN 1 ELSE 0
  <2>10. more \in Int
    OBVIOUS
  <2>11. /\ SumFunctionOnSet(f, T) = (q + more) + (q * (k - 1) + Cardinality(Low(U)))
         /\ Cardinality(Low(T)) = Cardinality(Low(U)) + more
         /\ Cardinality(Low(U)) \in Int
    <3>1. Cardinality(Low(U)) \in Int
      <4>1. IsFiniteSet(Low(U))
        BY <2>2, FS_Subset
      <4> QED  BY <4>1, FS_CardinalityType
    <3> QED  BY <2>4, <2>5, <2>6, <2>7, <2>8, <3>1
  <2>12. SumFunctionOnSet(f, T) # q * k + Cardinality(Low(T))
    BY <2>2
  <2> HIDE DEF k, more, U, Low, a
  <2> QED  BY <2>9, <2>10, <2>11, <2>12
<1>3. Good(1..n)
  BY <1>2
<1> QED
  BY <1>1, <1>3

(* The division: the quotient for each, a unit more for the first ones.    *)
LEMMA EvenShares ==
  ASSUME NEW n \in Nat, n >= 1, NEW amount \in Nat
  PROVE  \E q \in Int, r \in 0..(n - 1) :
           /\ amount = n * q + r
           /\ allocate(amount, [g \in 1..n |-> 1])
                = [g \in 1..n |-> q + (IF g <= r THEN 1 ELSE 0)]
<1> DEFINE ones == [g \in 1..n |-> 1]
           q == amount \div n
           r == amount - n * q
           base == [g \in 1..n |-> q]
<1>1. IsFiniteSet(1..n) /\ Cardinality(1..n) = n
  BY FS_Interval
<1>2. SumFunction(ones) = n
  <2>1. {x \in 1..n : x <= n} = 1..n
    OBVIOUS
  <2>2. \A x \in 1..n : ones[x] = 0 + (IF x <= n THEN 1 ELSE 0)
    OBVIOUS
  <2>3. DOMAIN ones = 1..n
    OBVIOUS
  <2> HIDE DEF ones
  <2>4. SumFunctionOnSet(ones, 1..n) = 0 * n + Cardinality({x \in 1..n : x <= n})
    <3>1. 0 \in Int
      OBVIOUS
    <3> QED  BY <2>2, <3>1, StepSum, Zenon
  <2>5. SumFunctionOnSet(ones, 1..n) = n
    <3>1. Cardinality({x \in 1..n : x <= n}) = n
      BY <1>1, <2>1
    <3> QED  BY <2>4, <3>1
  <2> QED  BY <2>3, <2>5 DEF SumFunction
<1>3. q \in Int /\ r \in 0..(n - 1) /\ amount = n * q + r
  OBVIOUS
<1>4. RoundedDown(amount, ones) = base
  <2>1. \A g \in 1..n : amount * ones[g] = amount
    OBVIOUS
  <2>2. \A g \in 1..n : (amount * ones[g]) \div SumFunction(ones) = q
    BY <1>2, <2>1
  <2>3. DOMAIN ones = 1..n
    OBVIOUS
  <2> HIDE DEF ones, q
  <2> QED  BY <2>2, <2>3 DEF RoundedDown
<1>5. SumFunction(base) = n * q
  <2>1. \A x \in 1..n : base[x] = q + (IF x <= 0 THEN 1 ELSE 0)
    BY <1>3
  <2>2. {x \in 1..n : x <= 0} = {} /\ DOMAIN base = 1..n
    OBVIOUS
  <2> HIDE DEF base, q
  <2>3. SumFunctionOnSet(base, 1..n) = q * n + Cardinality({x \in 1..n : x <= 0})
    <3>1. 0 \in Nat
      OBVIOUS
    <3> QED  BY <1>3, <2>1, <3>1, StepSum, Zenon
  <2>4. q * n = n * q /\ q * n \in Int
    BY <1>3
  <2>5. Cardinality({x \in 1..n : x <= 0}) = 0
    BY <2>2, FS_EmptySet
  <2> QED  BY <2>2, <2>3, <2>4, <2>5 DEF SumFunction
<1>6. ASSUME NEW g \in 1..n
      PROVE  DealtOut(r, n, g) = IF g <= r THEN 1 ELSE 0
  <2> HIDE DEF r, q
  <2>1. \A i \in 0..(r - 1) : i % n = i
    BY <1>3
  <2>2. {i \in 0..(r - 1) : (i % n) + 1 = g} = {i \in 0..(r - 1) : i + 1 = g}
    BY <2>1
  <2>3. CASE g <= r
    <3>1. {i \in 0..(r - 1) : i + 1 = g} = {g - 1}
      BY <1>3, <2>3
    <3> QED  BY <2>2, <2>3, <3>1, FS_Singleton DEF DealtOut
  <2>4. CASE ~(g <= r)
    <3>1. {i \in 0..(r - 1) : i + 1 = g} = {}
      BY <1>3, <2>4
    <3> QED  BY <2>2, <2>4, <3>1, FS_EmptySet DEF DealtOut
  <2> QED  BY <2>3, <2>4
<1>7. allocate(amount, ones) = [g \in 1..n |-> base[g] + DealtOut(r, n, g)]
  <2>1. DOMAIN ones = 1..n /\ amount - SumFunction(base) = r
    BY <1>3, <1>5
  <2> HIDE DEF ones, base, q, r
  <2> QED  BY <1>1, <1>4, <2>1 DEF allocate
<1>8. \A g \in 1..n : base[g] + DealtOut(r, n, g) = q + (IF g <= r THEN 1 ELSE 0)
  <2> HIDE DEF r, q
  <2> QED  BY <1>6
<1>9. allocate(amount, ones) = [g \in 1..n |-> q + (IF g <= r THEN 1 ELSE 0)]
  <2> HIDE DEF ones, base, q, r
  <2> QED  BY <1>7, <1>8
<1> HIDE DEF q, r
<1> QED
  BY <1>3, <1>9

LEMMA EvenSharesHold ==
  ASSUME NEW n \in Nat, n >= 1, NEW amount \in Nat, amount >= n
  PROVE  LET s == allocate(amount, [g \in 1..n |-> 1])
         IN  /\ s \in [1..n -> Int]
             /\ SumFunction(s) = amount
             /\ \A g \in 1..n : s[g] >= 1
             /\ \A g, h \in 1..n : g <= h => s[h] <= s[g] /\ s[g] <= s[h] + 1
<1> DEFINE s == allocate(amount, [g \in 1..n |-> 1])
<1>1. PICK q \in Int, r \in 0..(n - 1) :
        amount = n * q + r /\ s = [g \in 1..n |-> q + (IF g <= r THEN 1 ELSE 0)]
  BY EvenShares
<1> HIDE DEF s
<1>2. \A g \in 1..n : s[g] = q + (IF g <= r THEN 1 ELSE 0)
  BY <1>1
<1>3. DOMAIN s = 1..n /\ s \in [1..n -> Int]
  BY <1>1
<1>4. SumFunction(s) = amount
  <2>1. {x \in 1..n : x <= r} = 1..r
    OBVIOUS
  <2>2. Cardinality(1..r) = r
    BY FS_Interval
  <2>3. SumFunctionOnSet(s, 1..n) = q * n + Cardinality({x \in 1..n : x <= r})
    <3>1. r \in Nat
      OBVIOUS
    <3> QED  BY <1>2, <3>1, StepSum, Zenon
  <2>4. q * n = n * q
    OBVIOUS
  <2> QED  BY <1>1, <1>3, <2>1, <2>2, <2>3, <2>4 DEF SumFunction
<1>5. q >= 1
  <2>1. ASSUME q <= 0 PROVE FALSE
    <3>1. n * q <= n * 0
      BY <2>1
    <3> QED  BY <1>1, <3>1
  <2> QED  BY <2>1
<1>6. \A g \in 1..n : s[g] >= 1
  BY <1>2, <1>5
<1>7. \A g, h \in 1..n : g <= h => s[h] <= s[g] /\ s[g] <= s[h] + 1
  BY <1>2
<1> QED
  BY <1>3, <1>4, <1>6, <1>7 DEF s

LEMMA StepBill == BillInv /\ [BillNext]_billVars => BillInv'
<1> SUFFICES ASSUME BillInv, [BillNext]_billVars PROVE BillInv'
  OBVIOUS
<1>1. CASE PlaceOrder
  <2>1. shares' = NoShares /\ bill' \in 0..MaxTotal /\ evenly' \in BOOLEAN
    BY <1>1 DEF PlaceOrder, BillInv, BillTypeOK
  <2> QED  BY <2>1 DEF BillInv, BillTypeOK, BillHolds, NoShares
<1>2. ASSUME NEW n \in 1..MaxGuests, NEW sent \in [1..n -> SentAmounts \cup {NoAmount}],
             DivideBill(n, sent)
      PROVE  BillInv'
  <2>1. /\ bill \in 0..MaxTotal /\ bill' = bill /\ n \in 2..MaxGuests
        /\ Divisible(sent) /\ shares' = _allocate(sent) /\ evenly' = (Said(sent) = {})
        /\ DOMAIN sent = 1..n
    BY <1>2 DEF DivideBill, BillInv, BillTypeOK
  <2>2. evenly' \in BOOLEAN
    BY <2>1, Zenon
  <2>3. bill # NoAmount /\ bill \in Nat /\ n \in Nat /\ n >= 1
    BY <2>1, SplitBillAssumption
  <2>4. CASE Said(sent) = {}
    <3>1. bill >= n
      <4>1. Said(sent) # DOMAIN sent
        <5>1. 1 \in DOMAIN sent
          BY <2>1, <2>3
        <5> QED  BY <2>4, <5>1
      <4>2. Cardinality(DOMAIN sent) = n
        BY <2>1, <2>3, FS_Interval
      <4> QED  BY <2>1, <4>1, <4>2 DEF Divisible
    <3>2. shares' = allocate(bill, [g \in 1..n |-> 1])
      BY <2>1, <2>4 DEF _allocate
    <3>3. /\ shares' \in [1..n -> Int]
          /\ SumFunction(shares') = bill
          /\ \A g \in 1..n : shares'[g] >= 1
          /\ \A g, h \in 1..n : g <= h => shares'[h] <= shares'[g] /\ shares'[g] <= shares'[h] + 1
      BY <2>3, <3>1, <3>2, EvenSharesHold
    <3>4. BillTypeOK'
      BY <2>1, <2>2, <2>3, <3>3 DEF BillTypeOK
    <3>5. DOMAIN shares' = 1..n
      BY <3>3
    <3>6. BillHolds'
      BY <2>1, <3>3, <3>5 DEF BillHolds
    <3> QED  BY <3>4, <3>6 DEF BillInv
  <2>5. CASE Said(sent) # {}
    <3>1. /\ Said(sent) = DOMAIN sent /\ \A g \in DOMAIN sent : sent[g] > 0
          /\ SumFunction(sent) = bill
      BY <2>1, <2>5 DEF Divisible
    <3>2. \A g \in 1..n : sent[g] \in Int
      BY <2>1, <3>1, SplitBillAssumption DEF Said
    <3>3. shares' = sent /\ sent \in [1..n -> Int] /\ evenly' = FALSE
      BY <2>1, <2>5, <3>2 DEF _allocate
    <3>4. BillTypeOK'
      BY <2>1, <2>2, <2>3, <3>3 DEF BillTypeOK
    <3>5. \A g \in DOMAIN sent : sent[g] >= 1
      BY <2>1, <3>1, <3>2
    <3>6. BillHolds'
      BY <2>1, <3>1, <3>3, <3>5 DEF BillHolds
    <3> QED  BY <3>4, <3>6 DEF BillInv
  <2> QED  BY <2>4, <2>5
<1>3. CASE UNCHANGED billVars
  BY <1>3 DEF billVars, BillInv, BillTypeOK, BillHolds
<1> QED
  BY <1>1, <1>2, <1>3 DEF BillNext

-----------------------------------------------------------------------------
(* The feed.                                                               *)

FeedInv == FeedTypeOK /\ FeedHolds

LEMMA LikedIsFinite == IsFiniteSet(Liked)
BY FeedAssumption, FS_Subset DEF Liked

LEMMA InitFeed == FeedInit => FeedInv
<1> SUFFICES ASSUME FeedInit PROVE FeedInv
  OBVIOUS
<1>1. Liked = {} /\ Cardinality(Liked) = 0
  BY FS_EmptySet DEF FeedInit, Liked
<1> QED
  BY <1>1, FeedAssumption DEF FeedInit, FeedInv, FeedTypeOK, FeedHolds

LEMMA StepFeed == FeedInv /\ [FeedNext]_feedVars => FeedInv'
<1> SUFFICES ASSUME FeedInv, [FeedNext]_feedVars PROVE FeedInv'
  OBVIOUS
<1>0. Cardinality(Liked) \in Nat /\ FeedTypeOK /\ FeedHolds
  BY LikedIsFinite, FS_CardinalityType DEF FeedInv
<1>1. ASSUME UNCHANGED <<like, likesCount, ghosts>>, FeedTypeOK' PROVE FeedInv'
  BY <1>0, <1>1 DEF FeedInv, FeedHolds, Liked
<1>2. ASSUME NEW t \in Taps, ReadLike(t) PROVE FeedInv'
  BY <1>0, <1>1, <1>2, FeedAssumption DEF ReadLike, FeedTypeOK
<1>3. ASSUME NEW t \in Taps, Unlike(t) PROVE FeedInv'
  <2> DEFINE u == TappedBy[t]
  <2>1. u \in Readers
    BY FeedAssumption
  <2>2. FeedTypeOK'
    <3>1. tap' \in [Taps -> Taps \cup {"rest", "none"}] /\ served' \subseteq Taps
          /\ UNCHANGED <<commentsCount, comment>>
      BY <1>0, <1>3 DEF Unlike, Serves, FeedTypeOK
    <3>2. like' \in [Readers -> Taps \cup {"none"}] /\ likesCount' \in Nat /\ ghosts' \in Nat
      BY <1>0, <1>3 DEF Unlike, FeedTypeOK
    <3> QED  BY <1>0, <3>1, <3>2 DEF FeedTypeOK
  <2>3. CASE likesCount = 0
    BY <1>1, <1>3, <2>2, <2>3 DEF Unlike
  <2>4. CASE likesCount # 0 /\ like[u] = tap[t]
    <3>1. u \in Liked /\ Liked' = Liked \ {u}
      BY <1>0, <1>3, <2>1, <2>4 DEF Unlike, Liked, FeedTypeOK
    <3>2. Cardinality(Liked') = Cardinality(Liked) - 1
      BY <3>1, LikedIsFinite, FS_RemoveElement
    <3> QED  BY <1>0, <1>3, <2>2, <2>4, <3>2 DEF Unlike, FeedInv, FeedHolds, FeedTypeOK
  <2>5. CASE likesCount # 0 /\ like[u] # tap[t]
    <3>1. Liked' = Liked
      BY <1>3, <2>5 DEF Unlike, Liked
    <3> QED  BY <1>0, <1>3, <2>2, <2>5, <3>1 DEF Unlike, FeedInv, FeedHolds, FeedTypeOK
  <2> QED  BY <2>3, <2>4, <2>5
<1>4. ASSUME NEW t \in Taps, LikeIt(t) PROVE FeedInv'
  <2> DEFINE u == TappedBy[t]
  <2>1. u \in Readers
    BY FeedAssumption
  <2>2. FeedTypeOK'
    <3>1. like' \in [Readers -> Taps \cup {"none"}]
      BY <1>0, <1>4, <2>1 DEF LikeIt, FeedTypeOK
    <3>2. likesCount' \in Nat
      BY <1>0, <1>4 DEF LikeIt, FeedTypeOK
    <3>3. tap' \in [Taps -> Taps \cup {"rest", "none"}] /\ served' \subseteq Taps
          /\ UNCHANGED <<commentsCount, comment, ghosts>>
      BY <1>0, <1>4 DEF LikeIt, Serves, FeedTypeOK
    <3> QED  BY <1>0, <3>1, <3>2, <3>3 DEF FeedTypeOK
  <2>3. CASE like[u] = "none"
    <3>1. u \notin Liked /\ Liked' = Liked \cup {u}
      BY <1>0, <1>4, <2>1, <2>3, FeedAssumption DEF LikeIt, Liked, FeedTypeOK
    <3>2. Cardinality(Liked') = Cardinality(Liked) + 1
      BY <3>1, LikedIsFinite, FS_AddElement
    <3> QED  BY <1>0, <1>4, <2>2, <2>3, <3>2 DEF LikeIt, Created, FeedInv, FeedHolds, FeedTypeOK
  <2>4. CASE like[u] # "none"
    BY <1>1, <1>4, <2>2, <2>4 DEF LikeIt, Created
  <2> QED  BY <2>3, <2>4
<1>5. ASSUME NEW c \in Comments, add_comment(c) \/ CountComment(c) \/ CommentNotCounted(c)
      PROVE  FeedInv'
  BY <1>0, <1>1, <1>5 DEF add_comment, CountComment, CommentNotCounted, FeedTypeOK
<1>6. CASE UNCHANGED feedVars
  BY <1>0, <1>1, <1>6 DEF feedVars, FeedTypeOK
<1> QED
  BY <1>2, <1>3, <1>4, <1>5, <1>6 DEF FeedNext

-----------------------------------------------------------------------------
(* Reviews.                                                                *)

(* What the note of each transaction counts, as long as nothing was        *)
(* committed since it was computed.                                        *)
NoteIsFresh(p) ==
  LET d == post[p].who IN
  CASE post[p].does = "edit" -> stale \/ post[p].note = Shown
    [] post[p].does = "hide" -> post[p].note = Shown \ {d}
    [] OTHER -> post[p].note = Shown \cup {d}
ReviewsInv ==
  /\ ReviewsTypeOK /\ ReviewsHold
  /\ \A p \in Posts : post[p] # NotPosting /\ ~post[p].late => NoteIsFresh(p)

LEMMA InitReviews == ReviewsInit => ReviewsInv
<1> SUFFICES ASSUME ReviewsInit PROVE ReviewsInv
  OBVIOUS
<1>1. ReviewsTypeOK
  BY DEF ReviewsInit, ReviewsTypeOK
<1>2. ReviewsHold /\ \A p \in Posts : post[p] = NotPosting
  BY DEF ReviewsInit, ReviewsHold, Shown
<1> QED
  BY <1>1, <1>2 DEF ReviewsInv

LEMMA StepReviews == ReviewsInv /\ [ReviewsNext]_reviewsVars => ReviewsInv'
<1> SUFFICES ASSUME ReviewsInv, [ReviewsNext]_reviewsVars PROVE ReviewsInv'
  OBVIOUS
<1>0. ReviewsTypeOK /\ ReviewsHold
      /\ \A p \in Posts : post[p] # NotPosting /\ ~post[p].late => NoteIsFresh(p)
  BY DEF ReviewsInv
<1>1. ASSUME NEW p \in Posts, NEW new \in {NotPosting} \cup
               [does : {"edit"}, note : SUBSET Diners, late : BOOLEAN] \cup
               [does : {"post", "hide", "show"}, who : Diners, note : SUBSET Diners, late : BOOLEAN],
             post' = [post EXCEPT ![p] = new], UNCHANGED <<reviewOf, noted, stale>>,
             new # NotPosting => NoteIsFresh(p)'
      PROVE  ReviewsInv'
  <2>1. ReviewsTypeOK' /\ ReviewsHold'
    BY <1>0, <1>1 DEF ReviewsTypeOK, ReviewsHold, Shown
  <2>2. ASSUME NEW q \in Posts, post'[q] # NotPosting, ~post'[q].late PROVE NoteIsFresh(q)'
    <3>1. CASE q = p
      BY <1>0, <1>1, <2>2, <3>1 DEF ReviewsTypeOK
    <3>2. CASE q # p
      <4>1. post'[q] = post[q]
        BY <1>0, <1>1, <3>2 DEF ReviewsTypeOK
      <4>2. Shown' = Shown
        BY <1>1 DEF Shown
      <4> QED  BY <1>0, <1>1, <2>2, <4>1, <4>2 DEF NoteIsFresh
    <3> QED  BY <3>1, <3>2
  <2> QED  BY <2>1, <2>2 DEF ReviewsInv
<1>2. ASSUME NEW r \in Reviewers, NEW d \in Diners, submit(r, d) PROVE ReviewsInv'
  <2> DEFINE new == [does |-> "post", who |-> d, note |-> NoteWith(d), late |-> FALSE]
  <2>1. new \in [does : {"post", "hide", "show"}, who : Diners, note : SUBSET Diners, late : BOOLEAN]
    BY DEF NoteWith, Shown
  <2>2. r \in Posts /\ post' = [post EXCEPT ![r] = new] /\ UNCHANGED <<reviewOf, noted, stale>>
    BY <1>2 DEF submit, Posts
  <2>3. post'[r] = new /\ Shown' = Shown
    BY <1>0, <2>2 DEF ReviewsTypeOK, Shown
  <2>4. NoteIsFresh(r)'
    BY <2>3 DEF NoteIsFresh, NoteWith
  <2> QED  BY <1>1, <2>1, <2>2, <2>4
<1>3. ASSUME NEW d \in Diners, hide(d) PROVE ReviewsInv'
  <2> DEFINE r == "moderation"
             new == [does |-> "hide", who |-> d, note |-> Shown \ {d}, late |-> FALSE]
  <2>1. new \in [does : {"post", "hide", "show"}, who : Diners, note : SUBSET Diners, late : BOOLEAN]
    BY DEF Shown
  <2>2. r \in Posts /\ post' = [post EXCEPT ![r] = new] /\ UNCHANGED <<reviewOf, noted, stale>>
    BY <1>3 DEF hide, Posts, Desks
  <2>3. post'[r] = new /\ Shown' = Shown
    BY <1>0, <2>2 DEF ReviewsTypeOK, Shown
  <2>4. NoteIsFresh(r)'
    BY <2>3 DEF NoteIsFresh
  <2> QED  BY <1>1, <2>1, <2>2, <2>4
<1>4. ASSUME NEW d \in Diners, show(d) PROVE ReviewsInv'
  <2> DEFINE r == "moderation"
             new == [does |-> "show", who |-> d, note |-> Shown \cup {d}, late |-> FALSE]
  <2>1. new \in [does : {"post", "hide", "show"}, who : Diners, note : SUBSET Diners, late : BOOLEAN]
    BY DEF Shown
  <2>2. r \in Posts /\ post' = [post EXCEPT ![r] = new] /\ UNCHANGED <<reviewOf, noted, stale>>
    BY <1>4 DEF show, Posts, Desks
  <2>3. post'[r] = new /\ Shown' = Shown
    BY <1>0, <2>2 DEF ReviewsTypeOK, Shown
  <2>4. NoteIsFresh(r)'
    BY <2>3 DEF NoteIsFresh
  <2> QED  BY <1>1, <2>1, <2>2, <2>4
<1>5. CASE OpenDish
  <2> DEFINE r == "sheet"
             new == [does |-> "edit", note |-> noted, late |-> FALSE]
  <2>1. new \in [does : {"edit"}, note : SUBSET Diners, late : BOOLEAN]
    BY <1>0 DEF ReviewsTypeOK
  <2>2. r \in Posts /\ post' = [post EXCEPT ![r] = new] /\ UNCHANGED <<reviewOf, noted, stale>>
    BY <1>5 DEF OpenDish, Posts, Desks
  <2>3. post'[r] = new /\ Shown' = Shown
    BY <1>0, <2>2 DEF ReviewsTypeOK, Shown
  <2>4. NoteIsFresh(r)'
    BY <1>0, <2>2, <2>3 DEF NoteIsFresh, ReviewsHold
  <2> QED  BY <1>1, <2>1, <2>2, <2>4
<1>6. ASSUME NEW p \in Posts, TakenBack(p) PROVE ReviewsInv'
  BY <1>1, <1>6 DEF TakenBack
<1>7. ASSUME NEW p \in Posts, Commit(p) PROVE ReviewsInv'
  <2>1. /\ post[p] # NotPosting /\ reviewOf' = Written(p) /\ noted' = post[p].note
        /\ stale' = (IF post[p].does = "edit" THEN stale \/ post[p].late ELSE post[p].late)
        /\ post' = Late(p)
    BY <1>7 DEF Commit
  <2>2. reviewOf' \in [Diners -> {"none", "shown", "hidden"}]
    BY <1>0, <2>1 DEF Written, ReviewsTypeOK, NotPosting
  <2>3. noted' \subseteq Diners
    BY <1>0, <2>1 DEF ReviewsTypeOK
  <2>4. post' \in [Posts -> {NotPosting} \cup
               [does : {"edit"}, note : SUBSET Diners, late : BOOLEAN] \cup
               [does : {"post", "hide", "show"}, who : Diners, note : SUBSET Diners, late : BOOLEAN]]
    BY <1>0, <2>1 DEF Late, ReviewsTypeOK
  <2>5. stale' \in BOOLEAN
    BY <1>0, <2>1 DEF ReviewsTypeOK
  <2>6. ReviewsTypeOK'
    BY <2>2, <2>3, <2>4, <2>5 DEF ReviewsTypeOK
  <2>7. ASSUME ~stale' PROVE noted' = Shown'
    <3>1. ~post[p].late /\ NoteIsFresh(p)
      BY <1>0, <2>1, <2>7
    <3>2. CASE post[p].does = "edit"
      <4>1. reviewOf' = reviewOf /\ ~stale
        BY <2>1, <2>7, <3>2 DEF Written
      <4> QED  BY <2>1, <3>1, <3>2, <4>1 DEF NoteIsFresh, Shown
    <3>3. CASE post[p].does = "hide"
      <4>1. post[p].who \in Diners /\ reviewOf' = [reviewOf EXCEPT ![post[p].who] = "hidden"]
        BY <1>0, <2>1, <3>3 DEF Written, ReviewsTypeOK
      <4> QED  BY <1>0, <2>1, <3>1, <3>3, <4>1 DEF NoteIsFresh, Shown, ReviewsTypeOK
    <3>4. CASE post[p].does \in {"post", "show"}
      <4>1. post[p].who \in Diners /\ reviewOf' = [reviewOf EXCEPT ![post[p].who] = "shown"]
        BY <1>0, <2>1, <3>4 DEF Written, ReviewsTypeOK
      <4> QED  BY <1>0, <2>1, <3>1, <3>4, <4>1 DEF NoteIsFresh, Shown, ReviewsTypeOK
    <3>5. post[p].does \in {"edit", "hide", "post", "show"}
      BY <1>0, <2>1 DEF ReviewsTypeOK
    <3> QED  BY <3>2, <3>3, <3>4, <3>5
  <2>8. ASSUME NEW q \in Posts, post'[q] # NotPosting PROVE post'[q].late
    BY <1>0, <2>1, <2>8 DEF Late, ReviewsTypeOK
  <2> QED  BY <2>6, <2>7, <2>8 DEF ReviewsInv, ReviewsHold
<1>8. CASE UNCHANGED reviewsVars
  BY <1>0, <1>8 DEF reviewsVars, ReviewsInv, ReviewsTypeOK, ReviewsHold, NoteIsFresh, Shown
<1> QED
  BY <1>2, <1>3, <1>4, <1>5, <1>6, <1>7, <1>8 DEF ReviewsNext
-----------------------------------------------------------------------------
(* Codes.                                                                  *)

(* What the tries, the grants and the mails say of a code.                 *)
CodeIsTrue(n) ==
  /\ n > issued => code[n].life = "none"
  /\ granted[n] = IF code[n].life = "used" THEN 1 ELSE 0
  /\ code[n].life = "used" => n \in mailed
  /\ wrong[n] = code[n].attempts /\ wrong[n] <= MaxAttempts
  /\ code[n].life = "live" => code[n].attempts < MaxAttempts
  /\ code[n].life = "none" => code[n].attempts = 0
  /\ code[n].life = "replaced" /\ code[n].ended < code[n].at + Cooldown
       => n \in unseen \/ code[n].ended >= code[n].at + Ttl
(* A request found no recent code among those issued when it looked.       *)
FoundNoneRecent ==
  \A r \in Requests : request[r] # NoRequest =>
    /\ request[r] <= issued
    /\ \A n \in Live : n <= request[r] => minute >= code[n].at + Cooldown \/ Expired(n)
OneLives == \A m, n \in Live : m = n
CodesInv ==
  /\ CodesTypeOK /\ FoundNoneRecent /\ OneLives
  /\ \A n \in Numbers : CodeIsTrue(n)

LEMMA CodesInvGives == CodesInv => CodesHold
BY DEF CodesInv, CodesHold, CodeIsTrue, OneLives

LEMMA InitCodes == CodesInit => CodesInv
<1> SUFFICES ASSUME CodesInit PROVE CodesInv
  OBVIOUS
<1> USE CodesAssumption DEF CodesInit
<1>1. CodesTypeOK
  BY DEF CodesTypeOK, NoRequest
<1>2. FoundNoneRecent /\ OneLives
  BY DEF FoundNoneRecent, OneLives, Live
<1>3. \A n \in Numbers : CodeIsTrue(n)
  BY DEF CodeIsTrue
<1> QED
  BY <1>1, <1>2, <1>3 DEF CodesInv

LEMMA StepCodes == CodesInv /\ [CodesNext]_codesVars => CodesInv'
<1> SUFFICES ASSUME CodesInv, [CodesNext]_codesVars PROVE CodesInv'
  OBVIOUS
<1> USE CodesAssumption
<1>0. /\ CodesTypeOK /\ FoundNoneRecent /\ OneLives /\ \A n \in Numbers : CodeIsTrue(n)
      /\ \A n \in Numbers : n \in Nat /\ code[n].at \in Nat /\ code[n].ended \in Nat
                           /\ code[n].attempts \in Nat /\ granted[n] \in Nat /\ wrong[n] \in Nat
      /\ issued \in Nat /\ minute \in Nat /\ NoRequest \in Nat /\ MaxCodes \in Nat
      /\ NoRequest = MaxCodes + 1 /\ issued <= MaxCodes
      /\ \A r \in Requests : request[r] \in Nat
  <2>1. /\ CodesTypeOK /\ FoundNoneRecent /\ OneLives /\ \A n \in Numbers : CodeIsTrue(n)
    BY DEF CodesInv
  <2>2. \A n \in Numbers : n \in Nat /\ code[n].at \in Nat /\ code[n].ended \in Nat
                           /\ code[n].attempts \in Nat /\ granted[n] \in Nat /\ wrong[n] \in Nat
    BY <2>1 DEF CodesTypeOK, Numbers
  <2>3. /\ issued \in Nat /\ minute \in Nat /\ NoRequest \in Nat /\ MaxCodes \in Nat
        /\ NoRequest = MaxCodes + 1 /\ issued <= MaxCodes
    BY <2>1 DEF CodesTypeOK, NoRequest
  <2>4. \A r \in Requests : request[r] \in Nat
    BY <2>1, <2>3 DEF CodesTypeOK
  <2> QED  BY <2>1, <2>2, <2>3, <2>4
<1>1. CASE MinutePasses
  <2>1. CodesTypeOK'
    BY <1>0, <1>1 DEF MinutePasses, CodesTypeOK
  <2>2. FoundNoneRecent'
    BY <1>0, <1>1 DEF MinutePasses, FoundNoneRecent, Live, Expired
  <2> QED  BY <1>0, <1>1, <2>1, <2>2 DEF MinutePasses, CodesInv, OneLives, Live, CodeIsTrue
<1>2. ASSUME NEW r \in Requests, AskCode(r) PROVE CodesInv'
  <2>1. CodesTypeOK'
    BY <1>0, <1>2 DEF AskCode, CodesTypeOK
  <2>2. FoundNoneRecent'
    <3>1. ASSUME NEW s \in Requests, request'[s] # NoRequest, NEW n \in Live, n <= request'[s]
          PROVE  request'[s] <= issued /\ (minute >= code[n].at + Cooldown \/ Expired(n))
      <4>1. n \in Numbers
        BY DEF Live
      <4>2. CASE s = r
        BY <1>0, <1>2, <3>1, <4>1, <4>2 DEF AskCode, CodesTypeOK, Recent
      <4>3. CASE s # r
        BY <1>0, <1>2, <3>1, <4>1, <4>3 DEF AskCode, CodesTypeOK, FoundNoneRecent
      <4> QED  BY <4>2, <4>3
    <3>2. ASSUME NEW s \in Requests, request'[s] # NoRequest PROVE request'[s] <= issued
      BY <1>0, <1>2, <3>2 DEF AskCode, CodesTypeOK, FoundNoneRecent
    <3> QED  BY <1>2, <3>1, <3>2 DEF AskCode, FoundNoneRecent, Live, Expired
  <2> QED  BY <1>0, <1>2, <2>1, <2>2 DEF AskCode, CodesInv, OneLives, Live, CodeIsTrue
<1>3. ASSUME NEW r \in Requests, IssueRefused(r) PROVE CodesInv'
  <2>1. CodesTypeOK'
    BY <1>0, <1>3 DEF IssueRefused, CodesTypeOK, NoRequest
  <2>2. FoundNoneRecent'
    BY <1>0, <1>3 DEF IssueRefused, CodesTypeOK, FoundNoneRecent, Live, Expired
  <2> QED  BY <1>0, <1>3, <2>1, <2>2 DEF IssueRefused, CodesInv, OneLives, Live, CodeIsTrue
<1>4. ASSUME NEW r \in Requests, issue(r) PROVE CodesInv'
  <2> DEFINE k == issued + 1
             fresh == [life |-> "live", at |-> minute, ended |-> 0, attempts |-> 0]
  <2>1. /\ request[r] # NoRequest /\ issued < MaxCodes /\ issued' = k /\ k \in Numbers
        /\ unseen' = unseen \cup {n \in Live : n > request[r]}
        /\ request' = [request EXCEPT ![r] = NoRequest]
        /\ outbox' = outbox \cup {k} /\ UNCHANGED <<minute, mailed, granted, wrong>>
    BY <1>0, <1>4 DEF issue, Numbers
  <2>2. code' = [n \in Numbers |->
                  IF n = k THEN fresh ELSE IF n \in Live THEN Ended(n, "replaced") ELSE code[n]]
    BY <1>4 DEF issue
  <2>3. ASSUME NEW n \in Numbers
        PROVE  Ended(n, "replaced") = [life |-> "replaced", at |-> code[n].at, ended |-> minute,
                                       attempts |-> code[n].attempts]
    BY <1>0 DEF Ended, CodesTypeOK
  <2>4. CodesTypeOK'
    <3>1. code' \in [Numbers -> [life : {"none", "live", "used", "replaced", "closed"},
                                at : Nat, ended : Nat, attempts : Nat]]
      <4> SUFFICES ASSUME NEW n \in Numbers
                   PROVE  code'[n] \in [life : {"none", "live", "used", "replaced", "closed"},
                                        at : Nat, ended : Nat, attempts : Nat]
        BY <2>2
      <4>1. fresh \in [life : {"none", "live", "used", "replaced", "closed"},
                       at : Nat, ended : Nat, attempts : Nat]
        BY <1>0
      <4>2. Ended(n, "replaced") \in [life : {"none", "live", "used", "replaced", "closed"},
                                      at : Nat, ended : Nat, attempts : Nat]
        BY <1>0, <2>3
      <4> HIDE DEF fresh
      <4> QED  BY <1>0, <2>2, <4>1, <4>2 DEF CodesTypeOK
    <3>2. request' \in [Requests -> 0..NoRequest] /\ issued' \in 0..MaxCodes
          /\ outbox' \subseteq Numbers /\ unseen' \subseteq Numbers
      <4>1. request' \in [Requests -> 0..NoRequest]
        BY <1>0, <2>1 DEF CodesTypeOK
      <4>2. issued' \in 0..MaxCodes
        BY <1>0, <2>1
      <4>3. outbox' \subseteq Numbers /\ unseen' \subseteq Numbers
        BY <1>0, <2>1 DEF CodesTypeOK, Live
      <4> QED  BY <4>1, <4>2, <4>3
    <3> QED  BY <1>0, <2>1, <3>1, <3>2 DEF CodesTypeOK
  <2>5. Live' = {k}
    <3>1. code'[k].life = "live"
      BY <2>1, <2>2
    <3>2. \A n \in Numbers : n # k => code'[n].life # "live"
      BY <2>2, <2>3 DEF Live
    <3> QED  BY <2>1, <3>1, <3>2 DEF Live
  <2>6. FoundNoneRecent'
    BY <1>0, <2>1, <2>5 DEF FoundNoneRecent, CodesTypeOK
  <2>7. ASSUME NEW n \in Numbers PROVE CodeIsTrue(n)'
    <3>1. CodeIsTrue(n)
      BY <1>0
    <3>2. CASE n = k
      <4>1. code'[n] = fresh
        BY <2>2, <3>2
      <4>2. code[n].life = "none"
        BY <1>0, <3>1, <3>2 DEF CodeIsTrue
      <4> QED  BY <1>0, <2>1, <3>1, <3>2, <4>1, <4>2 DEF CodeIsTrue
    <3>3. CASE n # k /\ n \in Live
      <4>1. code'[n] = [life |-> "replaced", at |-> code[n].at, ended |-> minute,
                        attempts |-> code[n].attempts]
        BY <2>2, <2>3, <3>3
      <4>2. code[n].life = "live" /\ n <= issued
        BY <1>0, <3>1, <3>3 DEF Live, CodeIsTrue
      <4>3. n \in unseen' \/ minute >= code[n].at + Cooldown \/ minute >= code[n].at + Ttl
        BY <1>0, <2>1, <3>3 DEF FoundNoneRecent, Expired
      <4> QED  BY <1>0, <2>1, <3>1, <4>1, <4>2, <4>3 DEF CodeIsTrue
    <3>4. CASE n # k /\ n \notin Live
      <4>1. code'[n] = code[n]
        BY <2>2, <3>4
      <4> QED  BY <1>0, <2>1, <3>1, <3>4, <4>1 DEF CodeIsTrue
    <3> QED  BY <3>2, <3>3, <3>4
  <2> QED  BY <2>4, <2>5, <2>6, <2>7 DEF CodesInv, OneLives
<1>5. ASSUME NEW n \in Numbers, MailLeaves(n) PROVE CodesInv'
  <2>1. CodesTypeOK'
    BY <1>0, <1>5 DEF MailLeaves, CodesTypeOK
  <2>2. FoundNoneRecent'
    BY <1>0, <1>5 DEF MailLeaves, FoundNoneRecent, Live, Expired
  <2>3. mailed \subseteq mailed'
    BY <1>5 DEF MailLeaves
  <2> QED  BY <1>0, <1>5, <2>1, <2>2, <2>3 DEF MailLeaves, CodesInv, OneLives, Live, CodeIsTrue
(* One code moves on, and no longer lives unless it did.                   *)
<1>6. ASSUME NEW n \in Live,
             NEW new \in [life : {"none", "live", "used", "replaced", "closed"},
                          at : Nat, ended : Nat, attempts : Nat],
             code' = [code EXCEPT ![n] = new], new.at = code[n].at,
             UNCHANGED <<minute, issued, request, outbox, mailed, unseen>>,
             \A m \in Numbers \ {n} : granted'[m] = granted[m] /\ wrong'[m] = wrong[m],
             granted' \in [Numbers -> Nat], wrong' \in [Numbers -> Nat],
             CodeIsTrue(n)'
      PROVE  CodesInv'
  <2>0. n \in Numbers
    BY DEF Live
  <2>1. CodesTypeOK'
    BY <1>0, <1>6, <2>0 DEF CodesTypeOK
  <2>2. Live' \subseteq Live /\ \A m \in Numbers : code'[m].at = code[m].at
    BY <1>0, <1>6, <2>0 DEF CodesTypeOK, Live
  <2>3. FoundNoneRecent'
    <3> SUFFICES ASSUME NEW s \in Requests, request'[s] # NoRequest
                 PROVE  /\ request'[s] <= issued'
                        /\ \A m \in Live' : m <= request'[s] =>
                             minute' >= code'[m].at + Cooldown \/ minute' >= code'[m].at + Ttl
      BY DEF FoundNoneRecent, Expired, NoRequest
    <3>1. \A m \in Live' : m \in Live /\ m \in Numbers /\ code'[m].at = code[m].at
      BY <2>2 DEF Live
    <3> QED  BY <1>0, <1>6, <3>1 DEF FoundNoneRecent, Expired
  <2>4. OneLives'
    BY <1>0, <2>2 DEF OneLives
  <2>5. ASSUME NEW m \in Numbers PROVE CodeIsTrue(m)'
    <3>1. CASE m # n
      <4>1. code'[m] = code[m] /\ CodeIsTrue(m)
        BY <1>0, <1>6, <2>0, <3>1 DEF CodesTypeOK
      <4> QED  BY <1>6, <3>1, <4>1 DEF CodeIsTrue
    <3> QED  BY <1>6, <3>1
  <2> QED  BY <2>1, <2>3, <2>4, <2>5 DEF CodesInv
<1>7. ASSUME NEW n \in Numbers, PresentWrong(n) PROVE CodesInv'
  <2> DEFINE tries == code[n].attempts + 1
             closes == tries >= MaxAttempts
             new == [life |-> IF closes THEN "closed" ELSE code[n].life, at |-> code[n].at,
                     ended |-> IF closes THEN minute ELSE code[n].ended, attempts |-> tries]
  <2>1. n \in Live /\ code[n].life = "live"
    BY <1>7 DEF PresentWrong, Judged, Live
  <2>2. code' = [code EXCEPT ![n] = new]
    BY <1>0, <1>7 DEF PresentWrong, AttemptCounted, Ended, CodesTypeOK
  <2>3. new \in [life : {"none", "live", "used", "replaced", "closed"},
                 at : Nat, ended : Nat, attempts : Nat]
    BY <1>0, <2>1
  <2>4. /\ new.at = code[n].at /\ new.attempts = tries
        /\ new.life = (IF tries >= MaxAttempts THEN "closed" ELSE "live")
    BY <2>1
  <2>5. wrong' = [wrong EXCEPT ![n] = @ + 1] /\ UNCHANGED <<minute, issued, request, outbox, mailed, granted, unseen>>
    BY <1>7 DEF PresentWrong
  <2>6. CodeIsTrue(n) /\ code'[n] = new /\ wrong'[n] = wrong[n] + 1
    BY <1>0, <2>2, <2>5 DEF CodesTypeOK
  <2> HIDE DEF new
  <2>7. CodeIsTrue(n)'
    BY <1>0, <2>1, <2>4, <2>5, <2>6 DEF CodeIsTrue
  <2>8. \A m \in Numbers \ {n} : granted'[m] = granted[m] /\ wrong'[m] = wrong[m]
    BY <1>0, <2>5 DEF CodesTypeOK
  <2>9. granted' \in [Numbers -> Nat] /\ wrong' \in [Numbers -> Nat]
    BY <1>0, <2>5 DEF CodesTypeOK
  <2> QED  BY <1>6, <2>1, <2>2, <2>3, <2>4, <2>5, <2>7, <2>8, <2>9
<1>8. ASSUME NEW n \in Numbers, consume(n) PROVE CodesInv'
  <2> DEFINE new == [life |-> "used", at |-> code[n].at, ended |-> minute,
                     attempts |-> code[n].attempts]
  <2>1. n \in Live /\ code[n].life = "live" /\ n \in mailed
    BY <1>8 DEF consume, Judged, Live
  <2>2. code' = [code EXCEPT ![n] = new]
    BY <1>0, <1>8 DEF consume, Ended, CodesTypeOK
  <2>3. new \in [life : {"none", "live", "used", "replaced", "closed"},
                 at : Nat, ended : Nat, attempts : Nat]
    BY <1>0
  <2>5. granted' = [granted EXCEPT ![n] = @ + 1] /\ UNCHANGED <<minute, issued, request, outbox, mailed, wrong, unseen>>
    BY <1>8 DEF consume
  <2>6. CodeIsTrue(n) /\ code'[n] = new /\ granted'[n] = granted[n] + 1
    BY <1>0, <2>2, <2>5 DEF CodesTypeOK
  <2>7. CodeIsTrue(n)'
    BY <1>0, <2>1, <2>5, <2>6 DEF CodeIsTrue
  <2>8. \A m \in Numbers \ {n} : granted'[m] = granted[m] /\ wrong'[m] = wrong[m]
    BY <1>0, <2>5 DEF CodesTypeOK
  <2>9. granted' \in [Numbers -> Nat] /\ wrong' \in [Numbers -> Nat] /\ new.at = code[n].at
    BY <1>0, <2>5 DEF CodesTypeOK
  <2> HIDE DEF new
  <2> QED  BY <1>6, <2>1, <2>2, <2>3, <2>5, <2>7, <2>8, <2>9
<1>9. CASE UNCHANGED codesVars
  BY <1>0, <1>9 DEF codesVars, CodesInv, CodesTypeOK, FoundNoneRecent, OneLives, Live, Expired, CodeIsTrue
<1> QED
  BY <1>1, <1>2, <1>3, <1>4, <1>5, <1>7, <1>8, <1>9 DEF CodesNext
-----------------------------------------------------------------------------
(* Baskets.                                                                *)

LineType == [of : Kinds, quantity : 0..MaxQuantity]
ScreenType == [does : {"new", "more", "update", "gone"}, at : Lines, of : Sizes,
               quantity : 0..MaxQuantity, moved : BOOLEAN]

Share(row, c) == IF row.of = c THEN row.quantity ELSE 0
Part(next, c) == [l \in Lines |-> Share(next[l], c)]
HeldIn(next, c) == SumFunctionOnSet(Part(next, c), Lines)
OfIn(next, c) == {l \in Lines : next[l].quantity > 0 /\ next[l].of = c}
(* A row that is gone is forgotten.                                        *)
Clean(next) == \A l \in Lines : next[l].quantity = 0 => next[l] = NoLine
(* A request whose row is still there, and that no write followed, knows   *)
(* it as it is.                                                            *)
Knows(s) ==
  /\ screen[s].does \in {"more", "update"} => screen[s].at \in Rows /\ screen[s].quantity > 0
  /\ ~screen[s].moved =>
       /\ screen[s].does \in {"more", "update"} => line[screen[s].at].quantity = screen[s].quantity
       /\ screen[s].does = "more" => line[screen[s].at].of = screen[s].of
       /\ screen[s].does = "new" => LinesOf(screen[s].of) = {}
BasketsInv ==
  /\ BasketsTypeOK /\ BasketsHold /\ Clean(line)
  /\ \A s \in Screens : screen[s] # NoScreen => Knows(s)

LEMMA BasketFacts ==
  ASSUME BasketsInv
  PROVE  /\ line \in [Lines -> LineType] /\ screen \in [Screens -> {NoScreen} \cup ScreenType]
         /\ sold \subseteq Sizes /\ wanted \in [Kinds -> Nat] /\ mixed \in BOOLEAN
         /\ BasketsHold /\ Clean(line) /\ \A s \in Screens : screen[s] # NoScreen => Knows(s)
         /\ MaxQuantity \in Nat /\ Sizes \subseteq Kinds /\ NoSize \in Kinds
         /\ \A l \in Lines : line[l].of \in Kinds /\ line[l].quantity \in Nat
         /\ NoLine.quantity = 0 /\ NoLine.of = NoSize
<1>1. /\ line \in [Lines -> LineType] /\ screen \in [Screens -> {NoScreen} \cup ScreenType]
      /\ sold \subseteq Sizes /\ wanted \in [Kinds -> Nat] /\ mixed \in BOOLEAN
  BY DEF BasketsInv, BasketsTypeOK, LineType, ScreenType
<1>2. MaxQuantity \in Nat /\ Sizes \subseteq Kinds /\ NoSize \in Kinds
  BY BasketsAssumption DEF Kinds
<1>3. \A l \in Lines : line[l].of \in Kinds /\ line[l].quantity \in Nat
  BY <1>1, <1>2 DEF LineType
<1> QED
  BY <1>1, <1>2, <1>3 DEF BasketsInv, NoLine

LEMMA PartType ==
  ASSUME NEW next \in [Lines -> [of : Kinds, quantity : Nat]], NEW c
  PROVE  \A l \in Lines : Part(next, c)[l] \in Nat /\ Part(next, c)[l] \in Int
BY DEF Part, Share

(* What is held of a choice changes by what one row becomes.               *)
LEMMA HeldChanges ==
  ASSUME NEW next \in [Lines -> [of : Kinds, quantity : Nat]], NEW l \in Lines,
         NEW new \in [Lines -> [of : Kinds, quantity : Nat]], NEW c,
         \A m \in Lines \ {l} : new[m] = next[m]
  PROVE  /\ HeldIn(next, c) \in Nat
         /\ HeldIn(new, c) =
              HeldIn(next, c) - Share(next[l], c) + Share(new[l], c)
<1> DEFINE f == Part(next, c)    g == Part(new, c)
<1>2. \A m \in Lines : f[m] \in Int /\ g[m] \in Int
  BY PartType
<1>3. \A m \in Lines \ {l} : f[m] = g[m]
  BY DEF Part
<1>4. f[l] = Share(next[l], c) /\ g[l] = Share(new[l], c)
  BY DEF Part
<1>5. IsFiniteSet(Lines)
  BY BasketsAssumption
<1>6. HeldIn(next, c) \in Nat
  BY <1>5, PartType, SumIsNatural DEF HeldIn
<1> HIDE DEF f, g
<1>7. SumFunctionOnSet(g, Lines) = SumFunctionOnSet(f, Lines) - f[l] + g[l]
  BY <1>2, <1>3, <1>5, SumChangesAt
<1> QED
  BY <1>4, <1>6, <1>7 DEF HeldIn, f, g

LEMMA HeldIsHeld == \A c : Held(c) = HeldIn(line, c) /\ LinesOf(c) = OfIn(line, c)
BY DEF Held, HeldIn, Part, Share, LinesOf, Rows, OfIn

LEMMA NothingHeld ==
  ASSUME NEW next, NEW c, \A l \in Lines : next[l].of = c => next[l].quantity = 0
  PROVE  HeldIn(next, c) = 0
<1>1. \A l \in Lines : Part(next, c)[l] = 0
  BY DEF Part, Share
<1> QED
  BY <1>1, SumOfZeros, BasketsAssumption DEF HeldIn

LEMMA InitBaskets == BasketsInit => BasketsInv
<1> SUFFICES ASSUME BasketsInit PROVE BasketsInv
  OBVIOUS
<1> USE BasketsAssumption
<1>1. BasketsTypeOK
  <2>1. line \in [Lines -> [of : Kinds, quantity : 0..MaxQuantity]]
    BY DEF BasketsInit, NoLine, Kinds
  <2>2. wanted \in [Kinds -> Nat] /\ mixed \in BOOLEAN /\ sold \subseteq Sizes
    BY DEF BasketsInit
  <2>3. \A s \in Screens : screen[s] = NoScreen
    BY DEF BasketsInit
  <2>4. screen = [s \in Screens |-> NoScreen]
    BY DEF BasketsInit
  <2>5. screen \in [Screens -> {NoScreen}]
    BY <2>4
  <2> QED  BY <2>1, <2>2, <2>5 DEF BasketsTypeOK
<1>2. Clean(line) /\ \A s \in Screens : screen[s] = NoScreen
  BY DEF BasketsInit, Clean
<1>3. \A l \in Lines : line[l].quantity = 0
  BY DEF BasketsInit, NoLine
<1>4. \A c \in Kinds : wanted[c] = Held(c)
  BY <1>3, NothingHeld, HeldIsHeld DEF BasketsInit
<1>5. \A c : LinesOf(c) = {}
  BY <1>3 DEF LinesOf, Rows
<1> QED
  BY <1>1, <1>2, <1>4, <1>5 DEF BasketsInv, BasketsHold

(* The lines become what was asked, and the others will know they moved.   *)
LEMMA LinesBecomeKeeps ==
  ASSUME BasketsInv, NEW s \in Screens, NEW next \in [Lines -> [of : Kinds, quantity : Nat]],
         NEW demand, Clean(next), LinesBecome(s, next, demand),
         ~mixed /\ (screen[s] = NoScreen \/ ~screen[s].moved) =>
            /\ demand = [c \in Kinds |-> HeldIn(next, c)]
            /\ \A c \in Sizes : \A l, m \in OfIn(next, c) : l = m
  PROVE  BasketsInv'
<1> DEFINE kept == {l \in Lines : next[l].quantity > 0}
<1>0. /\ \A l \in Lines : next[l].quantity <= MaxQuantity
      /\ line' = next
      /\ screen' = [t \in Screens |->
           IF t = s \/ screen[t] = NoScreen THEN NoScreen
           ELSE IF screen[t].does # "new" /\ screen[t].at \notin kept
             THEN [screen[t] EXCEPT !.does = "gone"]
           ELSE [screen[t] EXCEPT !.moved = TRUE]]
      /\ mixed' = (kept # {} /\ (mixed \/ (screen[s] # NoScreen /\ screen[s].moved)))
      /\ wanted' = (IF mixed' \/ kept = {} THEN Empty ELSE demand)
      /\ sold' = sold
  BY DEF LinesBecome
<1>1. line' \in [Lines -> LineType] /\ Clean(line)'
  BY <1>0, BasketFacts DEF LineType, Clean
<1>2. screen' \in [Screens -> {NoScreen} \cup ScreenType]
  <2> SUFFICES ASSUME NEW t \in Screens PROVE screen'[t] \in {NoScreen} \cup ScreenType
    BY <1>0
  <2>1. screen[t] \in {NoScreen} \cup ScreenType
    BY BasketFacts
  <2>2. screen[t] # NoScreen => [screen[t] EXCEPT !.does = "gone"] \in ScreenType
                              /\ [screen[t] EXCEPT !.moved = TRUE] \in ScreenType
    BY <2>1 DEF ScreenType
  <2>3. CASE t = s \/ screen[t] = NoScreen
    BY <1>0, <2>3
  <2>4. CASE ~(t = s \/ screen[t] = NoScreen)
    <3>1. CASE screen[t].does # "new" /\ screen[t].at \notin kept
      BY <1>0, <2>2, <2>4, <3>1
    <3>2. CASE ~(screen[t].does # "new" /\ screen[t].at \notin kept)
      BY <1>0, <2>2, <2>4, <3>2
    <3> QED  BY <3>1, <3>2
  <2> QED  BY <2>3, <2>4
<1>3. ASSUME NEW t \in Screens, screen'[t] # NoScreen PROVE Knows(t)'
  <2>1. screen[t] # NoScreen /\ screen[t] \in ScreenType /\ Knows(t)
    BY <1>0, <1>3, BasketFacts
  <2>2. CASE screen[t].does # "new" /\ screen[t].at \notin kept
    <3>1. screen'[t].does = "gone"
      BY <1>0, <1>3, <2>1, <2>2 DEF ScreenType
    <3> QED  BY <3>1 DEF Knows
  <2>3. CASE ~(screen[t].does # "new" /\ screen[t].at \notin kept)
    <3>1. screen'[t] = [screen[t] EXCEPT !.moved = TRUE]
      BY <1>0, <1>3, <2>1, <2>3
    <3>2. screen'[t].moved = TRUE /\ screen'[t].does = screen[t].does
          /\ screen'[t].at = screen[t].at /\ screen'[t].quantity = screen[t].quantity
      BY <2>1, <3>1 DEF ScreenType
    <3>3. Rows' = kept
      BY <1>0 DEF Rows
    <3> QED  BY <2>1, <2>3, <3>2, <3>3 DEF Knows
  <2> QED  BY <2>2, <2>3
<1>4. mixed' \in BOOLEAN
  BY <1>0
<1>5. CASE kept = {}
  <2>1. \A l \in Lines : line'[l].quantity = 0
    BY <1>0, <1>5
  <2>2. \A c : HeldIn(line', c) = 0
    BY <2>1, NothingHeld
  <2>3. wanted' \in [Kinds -> Nat] /\ \A c \in Kinds : wanted'[c] = 0
    BY <1>0, <1>5 DEF Empty
  <2>4. \A c : OfIn(line', c) = {}
    BY <2>1 DEF OfIn
  <2>5. \A c : Held(c)' = HeldIn(line', c) /\ LinesOf(c)' = OfIn(line', c)
    BY DEF Held, HeldIn, Part, Share, LinesOf, Rows, OfIn
  <2>6. BasketsHold'
    BY <2>2, <2>3, <2>4, <2>5 DEF BasketsHold
  <2> QED
    BY <1>0, <1>1, <1>2, <1>3, <1>4, <2>3, <2>6, BasketFacts
       DEF BasketsInv, BasketsTypeOK, LineType, ScreenType
<1>6. CASE kept # {} /\ mixed'
  <2>1. wanted' \in [Kinds -> Nat]
    BY <1>0, <1>6 DEF Empty
  <2>2. BasketsHold'
    BY <1>6 DEF BasketsHold
  <2> QED
    BY <1>0, <1>1, <1>2, <1>3, <1>4, <2>1, <2>2, BasketFacts
       DEF BasketsInv, BasketsTypeOK, LineType, ScreenType
<1>7. CASE kept # {} /\ ~mixed'
  <2>1. ~mixed /\ (screen[s] = NoScreen \/ ~screen[s].moved)
    BY <1>0, <1>7
  <2>2. wanted' = [c \in Kinds |-> HeldIn(next, c)]
    BY <1>0, <1>7, <2>1
  <2>3. \A c \in Kinds : HeldIn(next, c) \in Nat
    <3> SUFFICES ASSUME NEW c \in Kinds PROVE HeldIn(next, c) \in Nat
      OBVIOUS
    <3> QED  BY PartType, SumIsNatural, BasketsAssumption DEF HeldIn
  <2>4. wanted' \in [Kinds -> Nat]
    BY <2>2, <2>3
  <2>5. \A c : Held(c)' = HeldIn(next, c) /\ LinesOf(c)' = OfIn(next, c)
    BY <1>0 DEF Held, HeldIn, Part, Share, LinesOf, Rows, OfIn
  <2>6. BasketsHold'
    BY <2>1, <2>2, <2>5 DEF BasketsHold
  <2> QED
    BY <1>0, <1>1, <1>2, <1>3, <1>4, <2>4, <2>6, BasketFacts
       DEF BasketsInv, BasketsTypeOK, LineType, ScreenType
<1> QED
  BY <1>4, <1>5, <1>6, <1>7

LEMMA ReadsKeeps ==
  ASSUME BasketsInv, NEW s \in Screens, NEW does \in {"new", "more", "update"},
         NEW l \in Lines, NEW c \in Sizes, Reads(s, does, l, c),
         does = "new" => LinesOf(c) = {},
         does = "more" => line[l].of = c,
         does \in {"more", "update"} => l \in Rows
  PROVE  BasketsInv'
<1> DEFINE new == [does |-> does, at |-> l, of |-> c, quantity |-> line[l].quantity, moved |-> FALSE]
<1>1. screen' = [screen EXCEPT ![s] = new] /\ UNCHANGED <<line, sold, wanted, mixed>>
  BY DEF Reads
<1>2. new \in ScreenType
  BY BasketFacts DEF ScreenType, LineType
<1>3. screen' \in [Screens -> {NoScreen} \cup ScreenType]
  <2> HIDE DEF new
  <2> QED  BY <1>1, <1>2, BasketFacts
<1>4. BasketsTypeOK' /\ BasketsHold' /\ Clean(line)'
  BY <1>1, <1>3, BasketFacts, HeldIsHeld
     DEF BasketsTypeOK, LineType, ScreenType, BasketsHold, Held, LinesOf, Rows, Clean
<1>5. ASSUME NEW t \in Screens, screen'[t] # NoScreen PROVE Knows(t)'
  <2>1. CASE t = s
    <3>1. screen'[t] = new
      BY <1>1, <2>1, BasketFacts
    <3> QED  BY <1>1, <3>1, BasketFacts DEF Knows, Rows, LinesOf
  <2>2. CASE t # s
    <3>1. screen'[t] = screen[t]
      BY <1>1, <2>2, BasketFacts
    <3> QED  BY <1>1, <1>5, <3>1, BasketFacts DEF Knows, Rows, LinesOf
  <2> QED  BY <2>1, <2>2
<1> QED
  BY <1>4, <1>5 DEF BasketsInv

LEMMA LinesAreTyped == BasketsInv => line \in [Lines -> [of : Kinds, quantity : Nat]]
BY BasketFacts DEF LineType

(* What was wanted and held when nothing was mixed.                        *)
LEMMA WantedIsHeld ==
  ASSUME BasketsInv, ~mixed
  PROVE  /\ \A c \in Kinds : wanted[c] = HeldIn(line, c)
         /\ \A c \in Sizes : \A l, m \in OfIn(line, c) : l = m
BY BasketFacts, HeldIsHeld DEF BasketsHold

LEMMA AddKeeps == ASSUME BasketsInv, NEW s \in Screens, add_line(s) PROVE BasketsInv'
<1>1. screen[s] # NoScreen /\ screen[s] \in ScreenType /\ screen[s].does \in {"more", "new"}
      /\ Knows(s) /\ screen[s].of \in Sizes /\ screen[s].quantity \in Nat
  BY BasketFacts DEF add_line, NoScreen, ScreenType
<1> DEFINE c == screen[s].of
           demand == [wanted EXCEPT ![c] = @ + 1]
<1>2. PICK l \in IF screen[s].does = "more" THEN {screen[s].at} ELSE Lines \ Rows :
         LinesBecome(s, [line EXCEPT ![l] = Added(s, l)], demand)
  BY DEF add_line
<1> DEFINE row == Added(s, l)
           next == [line EXCEPT ![l] = row]
<1>3. l \in Lines /\ (screen[s].does = "more" => l = screen[s].at /\ l \in Rows)
      /\ (screen[s].does = "new" => l \notin Rows)
  BY <1>1, <1>2 DEF ScreenType, Knows
<1>4. row \in [of : Kinds, quantity : Nat] /\ row.quantity > 0
      /\ row.quantity = (IF screen[s].does = "more" THEN screen[s].quantity + 1 ELSE 1)
      /\ row.of = (IF screen[s].does = "more" THEN line[l].of ELSE c)
  BY <1>1, <1>3, BasketFacts DEF Added
<1>5. next \in [Lines -> [of : Kinds, quantity : Nat]]
  <2> HIDE DEF row
  <2> QED  BY <1>4, LinesAreTyped
<1>6. Clean(next)
  <2> HIDE DEF row
  <2> QED  BY <1>3, <1>4, BasketFacts DEF Clean
<1>7. ASSUME ~mixed, ~screen[s].moved
      PROVE  /\ demand = [d \in Kinds |-> HeldIn(next, d)]
             /\ \A d \in Sizes : \A m, n \in OfIn(next, d) : m = n
  <2>1. /\ screen[s].does = "more" => line[l].of = c /\ line[l].quantity = screen[s].quantity
        /\ screen[s].does = "new" => LinesOf(c) = {} /\ line[l].quantity = 0
    BY <1>1, <1>3, <1>7, BasketFacts DEF Knows, Rows
  <2>2. row.of = c /\ row.quantity = line[l].quantity + 1
    BY <1>1, <1>4, <2>1
  <2> HIDE DEF row
  <2>3. ASSUME NEW d \in Kinds PROVE demand[d] = HeldIn(next, d)
    <3>1. HeldIn(next, d) = HeldIn(line, d) - Share(line[l], d) + Share(row, d)
          /\ HeldIn(line, d) \in Nat
      <4>1. line \in [Lines -> [of : Kinds, quantity : Nat]]
        BY LinesAreTyped
      <4>2. l \in Lines /\ row \in [of : Kinds, quantity : Nat]
        BY <1>3, <1>4
      <4>3. next \in [Lines -> [of : Kinds, quantity : Nat]] /\ next[l] = row
            /\ \A m \in Lines \ {l} : next[m] = line[m]
        BY <4>1, <4>2
      <4> HIDE DEF next
      <4> QED  BY <4>1, <4>2, <4>3, HeldChanges
    <3>2. line[l].quantity # 0 => line[l].of = c
      BY <1>1, <2>1
    <3>3. wanted[d] = HeldIn(line, d) /\ demand[d] = IF d = c THEN wanted[d] + 1 ELSE wanted[d]
      BY <1>7, WantedIsHeld, BasketFacts
    <3>4. line[l].quantity \in Nat
      BY <1>3, BasketFacts
    <3>5. CASE d = c
      BY <2>2, <3>1, <3>2, <3>3, <3>4, <3>5 DEF Share
    <3>6. CASE d # c
      BY <2>2, <3>1, <3>2, <3>3, <3>4, <3>6 DEF Share
    <3> QED  BY <3>5, <3>6
  <2>4. demand = [d \in Kinds |-> HeldIn(next, d)]
    BY <2>3, BasketFacts
  <2>5. ASSUME NEW d \in Sizes, NEW m \in OfIn(next, d), NEW n \in OfIn(next, d) PROVE m = n
    <3>1. CASE d # c
      <4>1. m \in OfIn(line, d) /\ n \in OfIn(line, d)
        BY <2>2, <2>5, <3>1 DEF OfIn
      <4> QED  BY <1>7, <2>5, <4>1, WantedIsHeld
    <3>2. CASE d = c
      <4>1. \A x \in OfIn(next, c) : x = l \/ x \in OfIn(line, c)
        BY DEF OfIn
      <4>2. CASE screen[s].does = "more"
        <5>1. l \in OfIn(line, c)
          BY <1>3, <2>1, <4>2 DEF OfIn, Rows
        <5> QED  BY <1>1, <1>7, <2>5, <3>2, <4>1, <5>1, WantedIsHeld
      <4>3. CASE screen[s].does = "new"
        <5>1. OfIn(line, c) = {}
          BY <2>1, <4>3, HeldIsHeld
        <5> QED  BY <2>5, <3>2, <4>1, <5>1
      <4> QED  BY <1>1, <4>2, <4>3
    <3> QED  BY <3>1, <3>2
  <2> QED  BY <2>4, <2>5
<1> HIDE DEF next, demand
<1> QED
  BY <1>1, <1>2, <1>5, <1>6, <1>7, LinesBecomeKeeps DEF next, demand

(* A row becomes another of the same choice, or none.                      *)
LEMMA RowBecomes ==
  ASSUME BasketsInv, NEW s \in Screens, NEW l \in Rows,
         NEW row \in [of : Kinds, quantity : Nat],
         row = NoLine \/ (row.of = line[l].of /\ row.quantity > 0), NEW demand,
         demand = [wanted EXCEPT ![line[l].of] = @ + (row.quantity - line[l].quantity)],
         LinesBecome(s, [line EXCEPT ![l] = row], demand)
  PROVE  BasketsInv'
<1> DEFINE next == [line EXCEPT ![l] = row]
<1>1. l \in Lines /\ line[l].quantity \in Nat /\ line[l].of \in Kinds /\ row.quantity \in Nat
  BY BasketFacts DEF Rows
<1>2. next \in [Lines -> [of : Kinds, quantity : Nat]] /\ Clean(next)
  <2>1. next \in [Lines -> [of : Kinds, quantity : Nat]]
    BY LinesAreTyped
  <2>2. \A m \in Lines : next[m] = IF m = l THEN row ELSE line[m]
    BY <1>1, LinesAreTyped
  <2>3. Clean(line) /\ (row.quantity = 0 => row = NoLine)
    BY <1>1, BasketFacts
  <2> QED  BY <2>1, <2>2, <2>3 DEF Clean
<1>3. ASSUME ~mixed
      PROVE  /\ demand = [d \in Kinds |-> HeldIn(next, d)]
             /\ \A d \in Sizes : \A m, n \in OfIn(next, d) : m = n
  <2>1. ASSUME NEW d \in Kinds PROVE demand[d] = HeldIn(next, d)
    <3>1. HeldIn(next, d) = HeldIn(line, d) - Share(line[l], d) + Share(row, d)
          /\ HeldIn(line, d) \in Nat
      <4>1. line \in [Lines -> [of : Kinds, quantity : Nat]]
        BY LinesAreTyped
      <4>2. next \in [Lines -> [of : Kinds, quantity : Nat]] /\ next[l] = row
            /\ \A m \in Lines \ {l} : next[m] = line[m]
        BY <1>1, <4>1
      <4> HIDE DEF next
      <4>3. row \in [of : Kinds, quantity : Nat] /\ l \in Lines
        BY <1>1
      <4> QED  BY <4>1, <4>2, <4>3, HeldChanges
    <3>2. wanted[d] = HeldIn(line, d)
          /\ demand[d] = (IF d = line[l].of THEN wanted[d] + (row.quantity - line[l].quantity) ELSE wanted[d])
      BY <1>3, WantedIsHeld, BasketFacts
    <3>3. row.quantity = 0 \/ row.of = line[l].of
      BY BasketFacts
    <3> QED  BY <1>1, <3>1, <3>2, <3>3 DEF Share
  <2>2. demand = [d \in Kinds |-> HeldIn(next, d)]
    BY <2>1, BasketFacts
  <2>3. ASSUME NEW d \in Sizes PROVE OfIn(next, d) \subseteq OfIn(line, d)
    <3>1. row.quantity > 0 => row.of = line[l].of
      BY BasketFacts
    <3> QED  BY <1>1, <3>1 DEF OfIn, Rows
  <2> QED  BY <1>3, <2>2, <2>3, WantedIsHeld
<1> HIDE DEF next
<1> QED
  BY <1>2, <1>3, LinesBecomeKeeps DEF next

LEMMA SetOrRemoveKeeps ==
  ASSUME BasketsInv, NEW s \in Screens, NEW l \in Lines,
         remove_line(s, l) \/ \E n \in 1..MaxQuantity : set_quantity(s, l, n)
  PROVE  BasketsInv'
<1>1. CASE remove_line(s, l)
  <2>1. l \in Rows /\ NoLine \in [of : Kinds, quantity : Nat]
    BY <1>1, BasketFacts DEF remove_line, NoLine
  <2>2. [wanted EXCEPT ![line[l].of] = @ - line[l].quantity]
         = [wanted EXCEPT ![line[l].of] = @ + (NoLine.quantity - line[l].quantity)]
    <3>1. line[l].quantity \in Nat /\ line[l].of \in Kinds /\ wanted[line[l].of] \in Nat
          /\ NoLine.quantity = 0
      BY BasketFacts
    <3>2. wanted[line[l].of] - line[l].quantity
            = wanted[line[l].of] + (NoLine.quantity - line[l].quantity)
      BY <3>1
    <3> QED  BY <3>2, Zenon
  <2> QED  BY <1>1, <2>1, <2>2, RowBecomes DEF remove_line
<1>2. ASSUME NEW n \in 1..MaxQuantity, set_quantity(s, l, n) PROVE BasketsInv'
  <2> DEFINE row == [of |-> line[l].of, quantity |-> n]
  <2>1. l \in Rows /\ row \in [of : Kinds, quantity : Nat] /\ row.of = line[l].of /\ row.quantity > 0
        /\ row.quantity = n
    BY <1>2, BasketFacts DEF set_quantity
  <2>2. [wanted EXCEPT ![line[l].of] = @ + n - line[l].quantity]
         = [wanted EXCEPT ![line[l].of] = @ + (n - line[l].quantity)]
    BY <1>2, BasketFacts
  <2>3. LinesBecome(s, [line EXCEPT ![l] = row], [wanted EXCEPT ![line[l].of] = @ + n - line[l].quantity])
    BY <1>2 DEF set_quantity
  <2> HIDE DEF row
  <2> QED  BY <2>1, <2>2, <2>3, RowBecomes
<1> QED
  BY <1>1, <1>2

LEMMA UpdateKeeps == ASSUME BasketsInv, NEW s \in Screens, update_line(s) PROVE BasketsInv'
<1> DEFINE l == screen[s].at    c == screen[s].of    n == screen[s].quantity
           row == [of |-> c, quantity |-> n]
           rewritten == [line EXCEPT ![l] = row]
           demand == [[wanted EXCEPT ![line[l].of] = @ - line[l].quantity] EXCEPT ![c] = @ + n]
<1>1. /\ screen[s] # NoScreen /\ screen[s] \in ScreenType /\ screen[s].does = "update" /\ Knows(s)
      /\ c \in sold
      /\ \/ Twins(l, c) = {} /\ LinesBecome(s, rewritten, demand)
         \/ \E twin \in Twins(l, c) : LinesBecome(s, Merged(rewritten, l, twin), demand)
  <2>1. screen[s].does = "update" /\ c \in sold
    BY DEF update_line
  <2>2. screen[s] # NoScreen
    BY <2>1 DEF NoScreen
  <2>3. screen[s] \in ScreenType /\ Knows(s)
    BY <2>2, BasketFacts
  <2>4. \/ Twins(l, c) = {} /\ LinesBecome(s, rewritten, demand)
        \/ \E twin \in Twins(l, c) : LinesBecome(s, Merged(rewritten, l, twin), demand)
    BY DEF update_line
  <2> QED  BY <2>1, <2>2, <2>3, <2>4
<1>2. /\ l \in Lines /\ c \in Sizes /\ c \in Kinds /\ n \in Nat /\ n > 0
      /\ line[l].quantity \in Nat /\ line[l].quantity > 0 /\ line[l].of \in Kinds
      /\ line \in [Lines -> [of : Kinds, quantity : Nat]]
  <2>1. l \in Rows /\ n > 0
    BY <1>1 DEF Knows
  <2>2. l \in Lines /\ line[l].quantity > 0
    BY <2>1 DEF Rows
  <2>3. c \in Sizes /\ n \in 0..MaxQuantity
    BY <1>1 DEF ScreenType
  <2> QED  BY <2>1, <2>2, <2>3, BasketFacts, LinesAreTyped
<1>3. row \in [of : Kinds, quantity : Nat] /\ row.of = c /\ row.quantity = n
  BY <1>2
<1>4. ASSUME ~mixed, ~screen[s].moved
      PROVE  /\ n = line[l].quantity
             /\ \A d \in Kinds : wanted[d] = HeldIn(line, d) /\ HeldIn(line, d) \in Nat
             /\ \A d \in Kinds : demand[d] =
                  (wanted[d] - Share(line[l], d)) + (IF d = c THEN line[l].quantity ELSE 0)
  <2>1. n = line[l].quantity
    BY <1>1, <1>4 DEF Knows
  <2>2. \A d \in Kinds : wanted[d] = HeldIn(line, d) /\ wanted[d] \in Nat
    BY <1>4, WantedIsHeld, BasketFacts
  <2>3. ASSUME NEW d \in Kinds
        PROVE  demand[d] = (wanted[d] - Share(line[l], d)) + (IF d = c THEN line[l].quantity ELSE 0)
    <3> DEFINE less == [wanted EXCEPT ![line[l].of] = @ - line[l].quantity]
    <3>1. DOMAIN less = Kinds /\ less[d] = wanted[d] - Share(line[l], d)
      BY <1>2, <2>2, BasketFacts DEF Share
    <3>2. demand[d] = IF d = c THEN less[d] + n ELSE less[d]
      BY <3>1
    <3>3. Share(line[l], d) \in Nat
      BY <1>2 DEF Share
    <3> HIDE DEF less, demand
    <3> QED  BY <1>2, <2>1, <2>2, <3>1, <3>2, <3>3
  <2> HIDE DEF demand
  <2> QED  BY <2>1, <2>2, <2>3
<1>5. demand = [d \in Kinds |-> demand[d]]
  BY BasketFacts
<1> HIDE DEF l, c, n, row, demand
<1>6. CASE Twins(l, c) = {} /\ LinesBecome(s, rewritten, demand)
  <2>1. /\ rewritten \in [Lines -> [of : Kinds, quantity : Nat]] /\ rewritten[l] = row
        /\ \A m \in Lines \ {l} : rewritten[m] = line[m]
    BY <1>2, <1>3
  <2> HIDE DEF rewritten
  <2>2. Clean(rewritten)
    BY <1>2, <1>3, <2>1, BasketFacts DEF Clean
  <2>3. ASSUME ~mixed, ~screen[s].moved
        PROVE  /\ demand = [d \in Kinds |-> HeldIn(rewritten, d)]
               /\ \A d \in Sizes : \A m, o \in OfIn(rewritten, d) : m = o
    <3>1. ASSUME NEW d \in Kinds PROVE demand[d] = HeldIn(rewritten, d)
      <4>1. HeldIn(rewritten, d) = HeldIn(line, d) - Share(line[l], d) + Share(rewritten[l], d)
        BY <1>2, <2>1, HeldChanges
      <4>2. Share(rewritten[l], d) = IF d = c THEN line[l].quantity ELSE 0
        BY <1>3, <1>4, <2>1, <2>3 DEF Share
      <4>3. Share(line[l], d) \in Nat
        BY <1>2 DEF Share
      <4> QED  BY <1>2, <1>4, <2>3, <4>1, <4>2, <4>3
    <3>2. ASSUME NEW d \in Sizes, NEW m \in OfIn(rewritten, d), NEW o \in OfIn(rewritten, d) PROVE m = o
      <4>1. CASE d = c
        <5>1. \A x \in LinesOf(c) : x = l
          BY <1>6 DEF Twins
        <5>2. \A x \in OfIn(rewritten, c) : x = l \/ x \in LinesOf(c)
          BY <2>1 DEF OfIn, LinesOf, Rows
        <5> QED  BY <3>2, <4>1, <5>1, <5>2
      <4>2. CASE d # c
        <5>1. \A x \in OfIn(rewritten, d) : x \in OfIn(line, d)
          BY <1>3, <2>1, <4>2 DEF OfIn
        <5> QED  BY <2>3, <3>2, <5>1, WantedIsHeld
      <4> QED  BY <4>1, <4>2
    <3> QED  BY <1>5, <3>1, <3>2
  <2> QED  BY <1>1, <1>6, <2>1, <2>2, <2>3, LinesBecomeKeeps
<1>7. ASSUME NEW twin \in Twins(l, c), LinesBecome(s, Merged(rewritten, l, twin), demand) PROVE BasketsInv'
  <2> DEFINE grown == [of |-> line[twin].of, quantity |-> line[twin].quantity + n]
             mid == [line EXCEPT ![twin] = grown]
             next == Merged(rewritten, l, twin)
  <2>1. /\ twin \in Lines /\ twin # l /\ line[twin].of = c /\ line[twin].quantity \in Nat
        /\ line[twin].quantity > 0 /\ twin \in OfIn(line, c)
    BY BasketFacts DEF Twins, LinesOf, Rows, OfIn
  <2>2. /\ grown \in [of : Kinds, quantity : Nat] /\ grown.of = c
        /\ grown.quantity = line[twin].quantity + n
    BY <1>2, <2>1
  <2>3. NoLine \in [of : Kinds, quantity : Nat] /\ NoLine.quantity = 0 /\ NoLine.of = NoSize
        /\ NoSize # c
    BY <1>2, BasketsAssumption, BasketFacts DEF NoLine
  <2>4. /\ mid \in [Lines -> [of : Kinds, quantity : Nat]] /\ mid[twin] = grown
        /\ \A m \in Lines \ {twin} : mid[m] = line[m]
    <3> HIDE DEF grown
    <3> QED  BY <1>2, <2>1, <2>2
  <2>5. next = [mid EXCEPT ![l] = NoLine]
    <3>1. /\ rewritten \in [Lines -> [of : Kinds, quantity : Nat]] /\ rewritten[l] = row
          /\ rewritten[twin] = line[twin] /\ \A m \in Lines \ {l} : rewritten[m] = line[m]
      BY <1>2, <1>3, <2>1
    <3>2. next = [[rewritten EXCEPT ![twin] = grown] EXCEPT ![l] = NoLine]
      BY <1>3, <2>1, <3>1 DEF Merged
    <3> HIDE DEF rewritten, next, grown
    <3>3. \A m \in Lines : [[rewritten EXCEPT ![twin] = grown] EXCEPT ![l] = NoLine][m]
                          = [mid EXCEPT ![l] = NoLine][m]
      BY <1>2, <2>1, <3>1
    <3> QED  BY <1>2, <3>1, <3>2, <3>3
  <2>6. /\ next \in [Lines -> [of : Kinds, quantity : Nat]] /\ next[l] = NoLine
        /\ next[twin] = grown /\ \A m \in Lines \ {l} : next[m] = mid[m]
    <3> HIDE DEF mid, next, NoLine, grown
    <3> QED  BY <1>2, <2>1, <2>3, <2>4, <2>5
  <2> HIDE DEF mid, next, grown, rewritten
  <2>7. Clean(next)
    BY <1>2, <2>1, <2>2, <2>4, <2>6, BasketFacts DEF Clean
  <2>8. ASSUME ~mixed, ~screen[s].moved
        PROVE  /\ demand = [d \in Kinds |-> HeldIn(next, d)]
               /\ \A d \in Sizes : \A m, o \in OfIn(next, d) : m = o
    <3>1. ASSUME NEW d \in Kinds PROVE demand[d] = HeldIn(next, d)
      <4>1. HeldIn(mid, d) = HeldIn(line, d) - Share(line[twin], d) + Share(mid[twin], d)
            /\ HeldIn(mid, d) \in Nat
        BY <1>2, <2>1, <2>4, HeldChanges
      <4>2. HeldIn(next, d) = HeldIn(mid, d) - Share(mid[l], d) + Share(next[l], d)
        BY <1>2, <2>4, <2>6, HeldChanges
      <4>3. mid[l] = line[l]
        BY <1>2, <2>1, <2>4
      <4>4. Share(mid[twin], d) = Share(line[twin], d) + (IF d = c THEN line[l].quantity ELSE 0)
            /\ Share(line[twin], d) \in Nat
        BY <1>2, <1>4, <2>1, <2>2, <2>4, <2>8 DEF Share
      <4>5. Share(next[l], d) = 0 /\ Share(line[l], d) \in Nat
        BY <1>2, <2>3, <2>6 DEF Share
      <4> QED  BY <1>2, <1>4, <2>8, <4>1, <4>2, <4>3, <4>4, <4>5
    <3>2. ASSUME NEW d \in Sizes, NEW m \in OfIn(next, d), NEW o \in OfIn(next, d) PROVE m = o
      <4>1. \A x \in OfIn(next, d) : x \in OfIn(line, d)
        BY <2>1, <2>2, <2>3, <2>4, <2>6 DEF OfIn
      <4> QED  BY <2>8, <3>2, <4>1, WantedIsHeld
    <3> QED  BY <1>5, <3>1, <3>2
  <2>9. LinesBecome(s, next, demand)
    BY <1>7 DEF next
  <2> QED  BY <1>1, <2>6, <2>7, <2>8, <2>9, LinesBecomeKeeps
<1> QED
  BY <1>1, <1>6, <1>7 DEF l, c, n, row, demand

LEMMA ClearKeeps == ASSUME BasketsInv, NEW s \in Screens, clear(s) PROVE BasketsInv'
<1> DEFINE next == [l \in Lines |-> NoLine]
<1>1. screen[s] = NoScreen /\ LinesBecome(s, next, Empty)
  BY DEF clear
<1>2. next \in [Lines -> [of : Kinds, quantity : Nat]] /\ Clean(next)
      /\ \A l \in Lines : next[l].quantity = 0
  BY BasketFacts DEF Clean, NoLine
<1>3. \A d : HeldIn(next, d) = 0 /\ OfIn(next, d) = {}
  BY <1>2, NothingHeld DEF OfIn
<1>4. Empty = [d \in Kinds |-> HeldIn(next, d)]
  BY <1>3 DEF Empty
<1> HIDE DEF next
<1> QED
  BY <1>1, <1>2, <1>3, <1>4, LinesBecomeKeeps

LEMMA RefusedKeeps == ASSUME BasketsInv, NEW s \in Screens, Refused(s) PROVE BasketsInv'
<1>1. screen' = [screen EXCEPT ![s] = NoScreen] /\ UNCHANGED <<line, sold, wanted, mixed>>
  BY DEF Refused
<1>2. screen' \in [Screens -> {NoScreen} \cup ScreenType]
  BY <1>1, BasketFacts
<1>3. BasketsTypeOK' /\ BasketsHold' /\ Clean(line)'
  BY <1>1, <1>2, BasketFacts
     DEF BasketsTypeOK, LineType, ScreenType, BasketsHold, Held, LinesOf, Rows, Clean
<1>4. ASSUME NEW t \in Screens, screen'[t] # NoScreen PROVE Knows(t)'
  <2>1. screen'[t] = screen[t]
    BY <1>1, <1>4, BasketFacts
  <2> QED  BY <1>1, <1>4, <2>1, BasketFacts DEF Knows, Rows, LinesOf
<1> QED
  BY <1>3, <1>4 DEF BasketsInv

LEMMA DeleteSizeKeeps == ASSUME BasketsInv, NEW c \in Retired, DeleteSize(c) PROVE BasketsInv'
<1>1. /\ c \in sold /\ sold' = sold \ {c} /\ mixed' = mixed
      /\ line' = [l \in Lines |-> IF line[l].of = c
                    THEN [of |-> NoSize, quantity |-> line[l].quantity] ELSE line[l]]
      /\ wanted' = [wanted EXCEPT ![NoSize] = @ + wanted[c], ![c] = 0]
      /\ screen' = [s \in Screens |->
           IF screen[s] = NoScreen THEN NoScreen ELSE [screen[s] EXCEPT !.moved = TRUE]]
  BY DEF DeleteSize
<1>2. c \in Sizes /\ c \in Kinds /\ NoSize \in Kinds /\ c # NoSize
  BY <1>1, BasketFacts, BasketsAssumption
<1>3. ASSUME NEW l \in Lines
      PROVE  /\ line'[l].quantity = line[l].quantity
             /\ line'[l].of = IF line[l].of = c THEN NoSize ELSE line[l].of
  BY <1>1
<1>4. line' \in [Lines -> LineType]
  <2> SUFFICES ASSUME NEW l \in Lines PROVE line'[l] \in LineType
    BY <1>1
  <2> QED  BY <1>1, <1>2, BasketFacts DEF LineType
<1>5. Clean(line')
  <2> SUFFICES ASSUME NEW l \in Lines, line'[l].quantity = 0 PROVE line'[l] = NoLine
    BY DEF Clean
  <2>1. line[l] = NoLine
    BY <1>3, BasketFacts DEF Clean
  <2>2. line[l].of # c
    BY <1>2, <2>1, BasketFacts
  <2> QED  BY <1>1, <2>1, <2>2
<1>6. screen' \in [Screens -> {NoScreen} \cup ScreenType]
  <2> SUFFICES ASSUME NEW t \in Screens PROVE screen'[t] \in {NoScreen} \cup ScreenType
    BY <1>1
  <2>1. screen[t] \in {NoScreen} \cup ScreenType
    BY BasketFacts
  <2>2. screen[t] # NoScreen => [screen[t] EXCEPT !.moved = TRUE] \in ScreenType
    BY <2>1 DEF ScreenType
  <2> QED  BY <1>1, <2>2
<1>7. wanted' \in [Kinds -> Nat] /\ wanted'[c] = 0 /\ wanted'[NoSize] = wanted[NoSize] + wanted[c]
      /\ \A d \in Kinds \ {c, NoSize} : wanted'[d] = wanted[d]
  <2> DEFINE more == [wanted EXCEPT ![NoSize] = @ + wanted[c]]
  <2>1. wanted[c] \in Nat /\ wanted[NoSize] \in Nat
    BY <1>2, BasketFacts
  <2>2. more \in [Kinds -> Nat] /\ more[NoSize] = wanted[NoSize] + wanted[c]
        /\ \A d \in Kinds \ {NoSize} : more[d] = wanted[d]
    BY <1>2, <2>1, BasketFacts
  <2>3. wanted' = [more EXCEPT ![c] = 0]
    BY <1>1
  <2> HIDE DEF more
  <2> QED  BY <1>2, <2>2, <2>3
<1>8. BasketsTypeOK'
  BY <1>1, <1>4, <1>6, <1>7, BasketFacts DEF BasketsTypeOK, LineType, ScreenType
<1>9. ASSUME NEW t \in Screens, screen'[t] # NoScreen PROVE Knows(t)'
  <2>1. screen[t] # NoScreen /\ screen[t] \in ScreenType /\ Knows(t)
        /\ screen'[t] = [screen[t] EXCEPT !.moved = TRUE]
    BY <1>1, <1>9, BasketFacts
  <2>2. screen'[t].moved = TRUE /\ screen'[t].does = screen[t].does
        /\ screen'[t].at = screen[t].at /\ screen'[t].quantity = screen[t].quantity
    BY <2>1 DEF ScreenType
  <2>3. Rows' = Rows
    BY <1>3 DEF Rows
  <2> QED  BY <2>1, <2>2, <2>3 DEF Knows
<1>10. ASSUME ~mixed
       PROVE  /\ \A d \in Kinds : wanted'[d] = HeldIn(line', d)
              /\ \A d \in Sizes : \A l, m \in OfIn(line', d) : l = m
  <2>0. line \in [Lines -> [of : Kinds, quantity : Nat]] /\ line' \in [Lines -> [of : Kinds, quantity : Nat]]
    BY <1>4, LinesAreTyped, BasketFacts DEF LineType
  <2>1. /\ \A d \in Kinds : wanted[d] = HeldIn(line, d) /\ HeldIn(line, d) \in Nat
        /\ \A d \in Sizes : \A l, m \in OfIn(line, d) : l = m
    BY <1>10, WantedIsHeld, BasketFacts
  <2>2. ASSUME NEW d \in Sizes, NEW l \in OfIn(line', d), NEW m \in OfIn(line', d) PROVE l = m
    <3>1. \A x \in OfIn(line', d) : x \in OfIn(line, d)
      BY <1>3, BasketsAssumption DEF OfIn
    <3> QED  BY <2>1, <2>2, <3>1
  <2>3. HeldIn(line', c) = 0
    <3>1. \A l \in Lines : line'[l].of # c
      BY <1>2, <1>3
    <3> QED  BY <3>1, NothingHeld
  <2>4. CASE \A l \in Lines : line[l].of # c
    <3>1. \A l \in Lines : line'[l] = line[l]
      BY <1>1, <2>4
    <3>2. line' = line
      BY <2>0, <3>1
    <3>3. wanted[c] = 0
      BY <1>2, <2>1, <2>3, <3>2
    <3>4. \A d \in Kinds : wanted'[d] = wanted[d]
      BY <1>2, <1>7, <3>3, BasketFacts
    <3> QED  BY <2>1, <3>2, <3>4
  <2>5. ASSUME NEW l \in Lines, line[l].of = c PROVE \A d \in Kinds : wanted'[d] = HeldIn(line', d)
    <3>1. line[l].quantity \in Nat /\ line[l].quantity > 0
      BY <1>2, <2>5, BasketFacts DEF Clean
    <3>2. \A m \in Lines \ {l} : line'[m] = line[m]
      <4> SUFFICES ASSUME NEW m \in Lines \ {l}, line[m].of = c PROVE FALSE
        BY <1>1
      <4>1. line[m].quantity \in Nat /\ line[m].quantity > 0
        BY <1>2, BasketFacts DEF Clean
      <4>2. m \in OfIn(line, c) /\ l \in OfIn(line, c)
        BY <2>5, <3>1, <4>1 DEF OfIn
      <4> QED  BY <1>2, <2>1, <4>2
    <3>3. line'[l].of = NoSize /\ line'[l].quantity = line[l].quantity
      BY <1>3, <2>5
    <3>4. ASSUME NEW d \in Kinds PROVE wanted'[d] = HeldIn(line', d)
      <4>1. HeldIn(line', d) = HeldIn(line, d) - Share(line[l], d) + Share(line'[l], d)
        BY <2>0, <3>2, HeldChanges
      <4>2. HeldIn(line', c) = HeldIn(line, c) - Share(line[l], c) + Share(line'[l], c)
        BY <2>0, <3>2, HeldChanges
      <4>3. /\ Share(line[l], d) = (IF d = c THEN line[l].quantity ELSE 0)
            /\ Share(line'[l], d) = (IF d = NoSize THEN line[l].quantity ELSE 0)
            /\ Share(line[l], c) = line[l].quantity /\ Share(line'[l], c) = 0
        BY <1>2, <2>5, <3>3 DEF Share
      <4>4. wanted[c] = line[l].quantity
        BY <1>2, <2>1, <2>3, <3>1, <4>2, <4>3
      <4>5. CASE d = c
        BY <1>7, <2>3, <4>5
      <4>6. CASE d = NoSize
        BY <1>2, <1>7, <2>1, <3>1, <4>1, <4>3, <4>4, <4>6
      <4>7. CASE d \notin {c, NoSize}
        BY <1>7, <2>1, <4>1, <4>3, <4>7
      <4> QED  BY <4>5, <4>6, <4>7
    <3> QED  BY <3>4
  <2> QED  BY <2>2, <2>4, <2>5
<1>11. BasketsHold'
  <2>1. \A d : Held(d)' = HeldIn(line', d) /\ LinesOf(d)' = OfIn(line', d)
    BY DEF Held, HeldIn, Part, Share, LinesOf, Rows, OfIn
  <2> QED  BY <1>1, <1>10, <2>1 DEF BasketsHold
<1> QED
  BY <1>5, <1>8, <1>9, <1>11 DEF BasketsInv, Clean

LEMMA StepBaskets == BasketsInv /\ [BasketsNext]_basketsVars => BasketsInv'
<1> SUFFICES ASSUME BasketsInv, [BasketsNext]_basketsVars PROVE BasketsInv'
  OBVIOUS
<1>1. ASSUME NEW s \in Screens, NEW c \in sold, ReadForAdd(s, c) PROVE BasketsInv'
  <2>1. c \in Sizes
    BY BasketFacts
  <2>2. ASSUME NEW l \in LinesOf(c), Reads(s, "more", l, c) PROVE BasketsInv'
    <3>1. l \in Lines /\ l \in Rows /\ line[l].of = c
      BY DEF LinesOf, Rows
    <3> QED  BY <2>1, <2>2, <3>1, ReadsKeeps
  <2>3. ASSUME LinesOf(c) = {}, Reads(s, "new", CHOOSE l \in Lines : TRUE, c) PROVE BasketsInv'
    <3>1. (CHOOSE l \in Lines : TRUE) \in Lines
      BY BasketsAssumption
    <3> QED  BY <2>1, <2>3, <3>1, ReadsKeeps
  <2> QED  BY <1>1, <2>2, <2>3 DEF ReadForAdd
<1>2. ASSUME NEW s \in Screens, NEW c \in sold, NEW l \in Lines, ReadForUpdate(s, l, c) PROVE BasketsInv'
  BY <1>2, BasketFacts, ReadsKeeps DEF ReadForUpdate
<1>3. CASE UNCHANGED basketsVars
  BY <1>3, BasketFacts
     DEF basketsVars, BasketsInv, BasketsTypeOK, BasketsHold, Held, LinesOf, Rows, Clean, Knows
<1> QED
  BY <1>1, <1>2, <1>3, AddKeeps, UpdateKeeps, ClearKeeps, RefusedKeeps, SetOrRemoveKeeps, DeleteSizeKeeps
     DEF BasketsNext
=============================================================================
