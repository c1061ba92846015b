------------------------------- MODULE Reviews -------------------------------
(***************************************************************************)
(* The reviews of one dish, and the note kept on the dish.  A review       *)
(* posted, hidden or shown again computes the note from every review its   *)
(* transaction sees, then writes it on the dish, that nothing locked.      *)
(***************************************************************************)
EXTENDS Naturals, FiniteSets

CONSTANTS
  Diners,        \* who may review the dish, once each
  Reviewers      \* requests that post a review, under way at once

ASSUME ReviewsAssumption == IsFiniteSet(Diners)

Desks == {"moderation", "sheet"}     \* staff: who hides and shows, who edits the dish

VARIABLES
  reviewOf,     \* of each diner: "none", "shown", "hidden"
  noted,      \* the reviews the note of the dish stands for
  post,       \* of each transaction: what it does, to whose review, what its note counts
  stale       \* history: the note was written by one that did not see the last

reviewsVars == <<reviewOf, noted, post, stale>>

Posts == Reviewers \cup Desks
NotPosting == [does |-> "nothing"]

ReviewsInit ==
  /\ reviewOf = [d \in Diners |-> "none"]
  /\ noted = {} /\ stale = FALSE
  /\ post = [p \in Posts |-> NotPosting]

Shown == {d \in Diners : reviewOf[d] = "shown"}

-----------------------------------------------------------------------------
(* The row written, and the note computed after it: from the reviews       *)
(* committed by then and its own.                                          *)
NoteBefore(d) == Shown                           \* mutant: computed before the row
NoteWith(d) == Shown \cup {d}

(* submit: nothing was found of this diner; a twin is refused at its end.  *)
submit(r, d) ==
  /\ post[r] = NotPosting /\ reviewOf[d] = "none"
  /\ post' = [post EXCEPT ![r] =
                [does |-> "post", who |-> d, note |-> NoteWith(d), late |-> FALSE]]
  /\ UNCHANGED <<reviewOf, noted, stale>>

(* hide, show: under the lock of the review, which is read again.          *)
hide(d) ==
  /\ post["moderation"] = NotPosting /\ reviewOf[d] = "shown"
  /\ post' = [post EXCEPT !["moderation"] =
                [does |-> "hide", who |-> d, note |-> Shown \ {d}, late |-> FALSE]]
  /\ UNCHANGED <<reviewOf, noted, stale>>
show(d) ==
  /\ post["moderation"] = NotPosting /\ reviewOf[d] = "hidden"
  /\ post' = [post EXCEPT !["moderation"] =
                [does |-> "show", who |-> d, note |-> Shown \cup {d}, late |-> FALSE]]
  /\ UNCHANGED <<reviewOf, noted, stale>>

(* The sheet of the dish: the row read is written whole, its note with it. *)
OpenDish ==
  /\ post["sheet"] = NotPosting
  /\ post' = [post EXCEPT !["sheet"] = [does |-> "edit", note |-> noted, late |-> FALSE]]
  /\ UNCHANGED <<reviewOf, noted, stale>>

(* The commit: the review and the note together.  A transaction that was   *)
(* already under way has not seen it: its own note comes late.             *)
Late(p) == [q \in Posts |->
              IF q = p THEN NotPosting
              ELSE IF post[q] = NotPosting THEN NotPosting ELSE [post[q] EXCEPT !.late = TRUE]]

Written(p) ==
  LET d == post[p].who IN
  CASE post[p].does = "post" -> [reviewOf EXCEPT ![d] = "shown"]
    [] post[p].does = "hide" -> [reviewOf EXCEPT ![d] = "hidden"]
    [] post[p].does = "show" -> [reviewOf EXCEPT ![d] = "shown"]
    [] OTHER -> reviewOf

Commit(p) ==
  /\ post[p] # NotPosting
  /\ post[p].does = "post" => reviewOf[post[p].who] = "none"
  /\ reviewOf' = Written(p) /\ noted' = post[p].note
  /\ stale' = IF post[p].does = "edit" THEN stale \/ post[p].late ELSE post[p].late
  /\ post' = Late(p)

(* Refused, or taken back: a second review of one diner among others.      *)
TakenBack(p) ==
  /\ post[p] # NotPosting /\ post' = [post EXCEPT ![p] = NotPosting]
  /\ UNCHANGED <<reviewOf, noted, stale>>

-----------------------------------------------------------------------------
ReviewsNext ==
  \/ \E d \in Diners :
       \/ hide(d) \/ show(d)
       \/ \E r \in Reviewers : submit(r, d)
  \/ \E p \in Posts : Commit(p) \/ TakenBack(p)
  \/ OpenDish

ReviewsSpec == ReviewsInit /\ [][ReviewsNext]_reviewsVars

-----------------------------------------------------------------------------
ReviewsTypeOK ==
  /\ reviewOf \in [Diners -> {"none", "shown", "hidden"}]
  /\ noted \subseteq Diners /\ stale \in BOOLEAN
  /\ post \in [Posts ->
       {NotPosting} \cup [does : {"edit"}, note : SUBSET Diners, late : BOOLEAN] \cup
       [does : {"post", "hide", "show"}, who : Diners, note : SUBSET Diners, late : BOOLEAN]]

(* "Recalcul complet plutot que moyenne glissante": the note of the dish   *)
(* stands for the reviews shown, and no hidden one, unless two writers     *)
(* overlapped - and then only until the next review computes it again.     *)
ReviewsHold == ~stale => noted = Shown
=============================================================================
