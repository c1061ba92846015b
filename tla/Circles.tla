------------------------------ MODULE Circles -------------------------------
(***************************************************************************)
(* A social group of limited size.  join reads the membership, then takes  *)
(* a place by one conditional UPDATE and writes the membership in the same *)
(* transaction: the UPDATE keeps the group locked until it commits, the    *)
(* reading was before it.                                                  *)
(***************************************************************************)
EXTENDS Naturals, FiniteSets

CONSTANTS
  People,            \* who may join; the creator is not among them
  JoinRequests, By,  \* who sends each request
  MaxMembers

ASSUME CirclesAssumption ==
  /\ By \in [JoinRequests -> People] /\ IsFiniteSet(People)
  /\ MaxMembers \in Nat \ {0}

VARIABLES
  membership,   \* "none", "active", "inactive"
  memberCount,  \* SocialGroup.member_count, the creator included
  asked,        \* the membership a request has read, "rest" when none is served
  twice         \* history: places taken for somebody who had one

circlesVars == <<membership, memberCount, asked, twice>>

CirclesInit ==
  /\ membership = [u \in People |-> "none"] /\ memberCount = 1
  /\ asked = [r \in JoinRequests |-> "rest"]
  /\ twice = 0

(* An active member is told he is one; nothing is taken.                   *)
ReadMembership(r) ==
  /\ asked[r] = "rest" /\ membership[By[r]] # "active"
  /\ asked' = [asked EXCEPT ![r] = membership[By[r]]]
  /\ UNCHANGED <<membership, memberCount, twice>>

(* UPDATE ... WHERE member_count < max_members, then the membership: an    *)
(* insertion that finds one already takes the whole back.                  *)
RoomLeftAsRead == TRUE                           \* mutant: read before, not compared again
RoomLeft == memberCount < MaxMembers
join(r) ==
  LET u == By[r] IN
  /\ asked[r] # "rest"
  /\ IF RoomLeft /\ (asked[r] = "none" => membership[u] = "none")
       THEN /\ memberCount' = memberCount + 1
            /\ membership' = [membership EXCEPT ![u] = "active"]
            /\ twice' = IF membership[u] = "active" THEN twice + 1 ELSE twice
       ELSE UNCHANGED <<membership, memberCount, twice>>
  /\ asked' = [asked EXCEPT ![r] = "rest"]

leave(u) ==
  /\ membership[u] = "active"
  /\ membership' = [membership EXCEPT ![u] = "inactive"]
  /\ memberCount' = memberCount - 1
  /\ UNCHANGED <<asked, twice>>

-----------------------------------------------------------------------------
CirclesNext ==
  \/ \E r \in JoinRequests : ReadMembership(r) \/ join(r)
  \/ \E u \in People : leave(u)

CirclesSpec == CirclesInit /\ [][CirclesNext]_circlesVars

-----------------------------------------------------------------------------
CirclesTypeOK ==
  /\ membership \in [People -> {"none", "active", "inactive"}]
  /\ memberCount \in Nat /\ twice \in Nat
  /\ asked \in [JoinRequests -> {"rest", "none", "inactive"}]

(* "Deux personnes prendre la derniere place": whoever joins, leaves and   *)
(* comes back at once, a group never has more members than it holds; and   *)
(* its count is that of its members, one place more for each time somebody *)
(* who comes back was counted twice.                                       *)
Members == {u \in People : membership[u] = "active"}
PlacesAreCounted ==
  /\ memberCount = 1 + Cardinality(Members) + twice
  /\ memberCount <= MaxMembers
=============================================================================
