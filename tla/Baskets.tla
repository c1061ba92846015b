------------------------------- MODULE Baskets -------------------------------
(***************************************************************************)
(* One customer's basket in one kitchen, from two screens.  Adding, or     *)
(* changing a line, reads the lines and writes what it made of them; a     *)
(* quantity sent replaces the other; an order takes the lines it read and  *)
(* clears the basket.  Nothing locks it.                                   *)
(***************************************************************************)
EXTENDS Integers, FiniteSets, Functions

CONSTANTS
  Lines,           \* rows the basket may have
  Screens,         \* requests under way at once
  Sizes,           \* what distinguishes two lines: a size of the dish
  Retired,         \* bound: sizes that may be deleted from the catalogue
  NoSize,          \* what is left of a line whose size was deleted
  MaxQuantity      \* bound: of a line, and of what is asked of a size

ASSUME BasketsAssumption ==
  /\ IsFiniteSet(Lines) /\ Lines # {} /\ NoSize \notin Sizes /\ Retired \subseteq Sizes
  /\ MaxQuantity \in Nat

Kinds == Sizes \cup {NoSize}

VARIABLES
  line,       \* the choice and the quantity of each row; quantity 0: no row
  screen,     \* what each request has read
  sold,       \* the sizes of the catalogue
  wanted,     \* abstract: what the customer asked of each choice, one request at a time
  mixed       \* history: a request wrote from lines that had changed since it read

basketsVars == <<line, screen, sold, wanted, mixed>>

NoLine == [of |-> NoSize, quantity |-> 0]
NoScreen == [does |-> "nothing"]

BasketsInit ==
  /\ line = [l \in Lines |-> NoLine]
  /\ screen = [s \in Screens |-> NoScreen]
  /\ sold = Sizes /\ wanted = [c \in Kinds |-> 0] /\ mixed = FALSE

Rows == {l \in Lines : line[l].quantity > 0}
LinesOf(c) == {l \in Rows : line[l].of = c}

(* The lines become next and what is asked of each choice asked; requests  *)
(* under way have read others, and one whose row went will be refused.     *)
(* Nothing is wrong in an empty basket, nor kept of what was asked in one  *)
(* that two requests wrote at once.                                        *)
Empty == [c \in Kinds |-> 0]
LinesBecome(s, next, asked) ==
  LET kept == {l \in Lines : next[l].quantity > 0} IN
  /\ \A l \in Lines : next[l].quantity <= MaxQuantity
  /\ line' = next
  /\ screen' = [t \in Screens |->
       IF t = s \/ screen[t] = NoScreen THEN NoScreen
       ELSE IF screen[t].does # "new" /\ screen[t].at \notin kept
         THEN [screen[t] EXCEPT !.does = "gone"]
       ELSE [screen[t] EXCEPT !.moved = TRUE]]
  /\ mixed' = (kept # {} /\ (mixed \/ (screen[s] # NoScreen /\ screen[s].moved)))
  /\ wanted' = IF mixed' \/ kept = {} THEN Empty ELSE asked
  /\ UNCHANGED sold

Reads(s, does, l, c) ==
  /\ screen[s] = NoScreen
  /\ screen' = [screen EXCEPT ![s] = [does |-> does, at |-> l, of |-> c,
                                      quantity |-> line[l].quantity, moved |-> FALSE]]
  /\ UNCHANGED <<line, sold, wanted, mixed>>

-----------------------------------------------------------------------------
(* add_line: a line of the same choice, or none.                           *)
ReadForAdd(s, c) ==
  \/ \E l \in LinesOf(c) : Reads(s, "more", l, c)
  \/ LinesOf(c) = {} /\ Reads(s, "new", CHOOSE l \in Lines : TRUE, c)

(* What was read is written with one more, or a new line.                  *)
Added(s, l) ==
  IF screen[s].does = "more" THEN [of |-> line[l].of, quantity |-> screen[s].quantity + 1]
  ELSE [of |-> screen[s].of, quantity |-> 1]

add_line(s) ==
  /\ screen[s].does \in {"more", "new"}
  /\ screen[s].does = "new" => screen[s].of \in sold
  /\ \E l \in IF screen[s].does = "more" THEN {screen[s].at} ELSE Lines \ Rows :
       LinesBecome(s, [line EXCEPT ![l] = Added(s, l)],
                   [wanted EXCEPT ![screen[s].of] = @ + 1])

(* set_quantity: what the screen sends, whatever there was.                *)
set_quantity(s, l, n) ==
  /\ screen[s] = NoScreen /\ l \in Rows
  /\ LinesBecome(s, [line EXCEPT ![l] = [of |-> @.of, quantity |-> n]],
             [wanted EXCEPT ![line[l].of] = @ + n - line[l].quantity])

(* update_line: the line as it was read, its quantity with it, merged in   *)
(* its twin when it has one.                                               *)
ReadForUpdate(s, l, c) == l \in Rows /\ c # line[l].of /\ Reads(s, "update", l, c)

TwinsOrSelf(l, c) == LinesOf(c) \cup {l}         \* mutant: nothing is excluded
Twins(l, c) == LinesOf(c) \ {l}
Merged(next, l, twin) ==
  [[next EXCEPT ![twin] = [of |-> @.of, quantity |-> @.quantity + next[l].quantity]]
     EXCEPT ![l] = NoLine]

update_line(s) ==
  LET l == screen[s].at    c == screen[s].of    n == screen[s].quantity
      rewritten == [line EXCEPT ![l] = [of |-> c, quantity |-> n]]
      asked == [[wanted EXCEPT ![line[l].of] = @ - line[l].quantity] EXCEPT ![c] = @ + n]
  IN
  /\ screen[s].does = "update" /\ c \in sold
  /\ \/ Twins(l, c) = {} /\ LinesBecome(s, rewritten, asked)
     \/ \E twin \in Twins(l, c) : LinesBecome(s, Merged(rewritten, l, twin), asked)

remove_line(s, l) ==
  /\ screen[s] = NoScreen /\ l \in Rows
  /\ LinesBecome(s, [line EXCEPT ![l] = NoLine],
             [wanted EXCEPT ![line[l].of] = @ - line[l].quantity])

(* clear, at the customer's wish or when his order is written.             *)
clear(s) ==
  /\ screen[s] = NoScreen /\ Rows # {}
  /\ LinesBecome(s, [l \in Lines |-> NoLine], Empty)

(* A row or a size that is gone, or a screen that was closed.              *)
Refused(s) ==
  /\ screen[s] # NoScreen /\ screen' = [screen EXCEPT ![s] = NoScreen]
  /\ UNCHANGED <<line, sold, wanted, mixed>>

(* SET_NULL: the size of these lines is deleted from the catalogue.        *)
DeleteSize(c) ==
  /\ c \in sold /\ sold' = sold \ {c}
  /\ line' = [l \in Lines |-> IF line[l].of = c
                 THEN [of |-> NoSize, quantity |-> line[l].quantity] ELSE line[l]]
  /\ wanted' = [wanted EXCEPT ![NoSize] = @ + wanted[c], ![c] = 0]
  /\ screen' = [s \in Screens |->
       IF screen[s] = NoScreen THEN NoScreen ELSE [screen[s] EXCEPT !.moved = TRUE]]
  /\ UNCHANGED mixed

-----------------------------------------------------------------------------
BasketsNext ==
  \/ \E s \in Screens :
       \/ \E c \in sold : ReadForAdd(s, c) \/ \E l \in Lines : ReadForUpdate(s, l, c)
       \/ add_line(s) \/ update_line(s) \/ clear(s) \/ Refused(s)
       \/ \E l \in Lines : \/ remove_line(s, l)
                           \/ \E n \in 1..MaxQuantity : set_quantity(s, l, n)
  \/ \E c \in Retired : DeleteSize(c)

BasketsSpec == BasketsInit /\ [][BasketsNext]_basketsVars

-----------------------------------------------------------------------------
BasketsTypeOK ==
  /\ line \in [Lines -> [of : Kinds, quantity : 0..MaxQuantity]]
  /\ screen \in [Screens -> {NoScreen} \cup
                   [does : {"new", "more", "update", "gone"}, at : Lines, of : Sizes,
                    quantity : 0..MaxQuantity, moved : BOOLEAN]]
  /\ sold \subseteq Sizes /\ wanted \in [Kinds -> Nat] /\ mixed \in BOOLEAN

Held(c) ==
  SumFunctionOnSet([l \in Lines |-> IF line[l].of = c THEN line[l].quantity ELSE 0], Lines)

(* "Deux fois le meme burger n'en font qu'une, de quantite 2": the basket  *)
(* holds what was asked of each choice and one line of each, whatever was  *)
(* added, changed, merged, or lost its size in between; unless two         *)
(* requests wrote it from the same reading, and then until it is emptied.  *)
BasketsHold ==
  ~mixed => /\ \A c \in Kinds : wanted[c] = Held(c)
            /\ \A c \in Sizes : \A l, m \in LinesOf(c) : l = m
=============================================================================
