-------------------------------- MODULE Feed ---------------------------------
(***************************************************************************)
(* One publication: its likes, its comments, and the counts shown beside   *)
(* it.  A tap on the heart reads the like, then removes or inserts it with *)
(* its count in one transaction; a comment and its count are two.          *)
(***************************************************************************)
EXTENDS Naturals, FiniteSets

CONSTANTS
  Readers, Taps, TappedBy,   \* who follows it, taps on the heart, by whom
  Comments                   \* comments that may be written

ASSUME FeedAssumption ==
  /\ IsFiniteSet(Readers) /\ IsFiniteSet(Comments) /\ TappedBy \in [Taps -> Readers]
  /\ Taps \cap {"rest", "none"} = {}

VARIABLES
  like,        \* the row of each reader's like: the tap that inserted it
  tap,         \* the row a tap has read; "rest" before it and once it is served
  likesCount, commentsCount,
  comment,     \* "none", "written" when it is not counted yet, "counted", "uncounted"
  served,      \* taps that are over
  ghosts       \* history: removals counted that removed nothing

feedVars == <<like, tap, likesCount, commentsCount, comment, served, ghosts>>

FeedInit ==
  /\ like = [u \in Readers |-> "none"] /\ tap = [t \in Taps |-> "rest"]
  /\ likesCount = 0 /\ commentsCount = 0
  /\ comment = [c \in Comments |-> "none"]
  /\ served = {} /\ ghosts = 0

-----------------------------------------------------------------------------
(* toggle_like: what was liked when it was read.                           *)
ReadLike(t) ==
  /\ tap[t] = "rest" /\ t \notin served
  /\ tap' = [tap EXCEPT ![t] = like[TappedBy[t]]]
  /\ UNCHANGED <<like, likesCount, commentsCount, comment, served, ghosts>>

Serves(t) == tap' = [tap EXCEPT ![t] = "rest"] /\ served' = served \cup {t}

(* The row that was read is deleted, if it is still there, and counted;    *)
(* a count is never negative: the whole is taken back.                     *)
Unlike(t) ==
  LET u == TappedBy[t] IN
  /\ tap[t] \notin {"rest", "none"}
  /\ IF likesCount = 0 THEN UNCHANGED <<like, likesCount, ghosts>>
     ELSE /\ likesCount' = likesCount - 1
          /\ IF like[u] = tap[t]
               THEN like' = [like EXCEPT ![u] = "none"] /\ UNCHANGED ghosts
               ELSE ghosts' = ghosts + 1 /\ UNCHANGED like
  /\ Serves(t) /\ UNCHANGED <<commentsCount, comment>>

(* get_or_create: only the one who inserted it is counted.                 *)
CountedAnyway(u) == TRUE                         \* mutant: created is not looked at
Created(u) == like[u] = "none"
LikeIt(t) ==
  LET u == TappedBy[t] IN
  /\ tap[t] = "none"
  /\ like' = IF like[u] = "none" THEN [like EXCEPT ![u] = t] ELSE like
  /\ likesCount' = IF Created(u) THEN likesCount + 1 ELSE likesCount
  /\ Serves(t) /\ UNCHANGED <<commentsCount, comment, ghosts>>

(* add_comment: two transactions, between which a worker may die.          *)
add_comment(c) ==
  /\ comment[c] = "none" /\ comment' = [comment EXCEPT ![c] = "written"]
  /\ UNCHANGED <<like, tap, likesCount, commentsCount, served, ghosts>>

CountComment(c) ==
  /\ comment[c] = "written" /\ comment' = [comment EXCEPT ![c] = "counted"]
  /\ commentsCount' = commentsCount + 1
  /\ UNCHANGED <<like, tap, likesCount, served, ghosts>>

CommentNotCounted(c) ==
  /\ comment[c] = "written" /\ comment' = [comment EXCEPT ![c] = "uncounted"]
  /\ UNCHANGED <<like, tap, likesCount, commentsCount, served, ghosts>>

-----------------------------------------------------------------------------
FeedNext ==
  \/ \E t \in Taps : ReadLike(t) \/ Unlike(t) \/ LikeIt(t)
  \/ \E c \in Comments : add_comment(c) \/ CountComment(c) \/ CommentNotCounted(c)

FeedSpec == FeedInit /\ [][FeedNext]_feedVars

-----------------------------------------------------------------------------
FeedTypeOK ==
  /\ like \in [Readers -> Taps \cup {"none"}]
  /\ tap \in [Taps -> Taps \cup {"rest", "none"}]
  /\ likesCount \in Nat /\ commentsCount \in Nat /\ ghosts \in Nat
  /\ comment \in [Comments -> {"none", "written", "counted", "uncounted"}]
  /\ served \subseteq Taps

Liked == {u \in Readers : like[u] # "none"}

(* "Un double clic sur un coeur": a like is counted once, whatever taps    *)
(* meet; the count is that of the likes, less one for each like that two   *)
(* taps removed at once.                                                   *)
FeedHolds == likesCount + ghosts = Cardinality(Liked)
=============================================================================
