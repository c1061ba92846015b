------------------------------ MODULE RowLocks ------------------------------
(***************************************************************************)
(* The row locks the transactions of an order take, one after the other,   *)
(* and keep until they commit.  PostgreSQL lets a transaction wait for a   *)
(* row, finds the cycles, and kills one of the transactions of each.       *)
(***************************************************************************)
EXTENDS Naturals, Sequences, FiniteSets, SequencesExt

CONSTANTS
  Sales,            \* orders
  DishRows,         \* the dishes of each, in the order of its lines
  MaterialRows,     \* the ingredients they take, in the order they are met
  CouponRow,        \* the promotion of each, <<>> or a sequence of one row
  Rank,             \* the identifiers of the ingredients
  Tasks, Task       \* the transactions: [kind, sale]

Kinds == {"create", "cancel", "fire"}
Materials == DOMAIN Rank
OtherRows == Sales \cup UNION {ToSet(DishRows[s]) \cup ToSet(CouponRow[s]) : s \in Sales}

(* A row is of one table, identifiers are unique, and requirements is a    *)
(* dictionary: it names an ingredient once.                                *)
ASSUME RowLocksAssumption ==
  /\ IsFiniteSet(Tasks) /\ Task \in [Tasks -> [kind : Kinds, sale : Sales]]
  /\ Rank \in [Materials -> Nat] /\ \A a, b \in Materials : Rank[a] = Rank[b] => a = b
  /\ OtherRows \cap Materials = {}
  /\ \A s \in Sales :
       /\ DishRows[s] \in Seq(OtherRows) /\ CouponRow[s] \in Seq(OtherRows)
       /\ MaterialRows[s] \in Seq(Materials)
       /\ \A i, j \in DOMAIN MaterialRows[s] : MaterialRows[s][i] = MaterialRows[s][j] => i = j

VARIABLES
  held,      \* how many of its rows each transaction has locked
  ended      \* "committed" or "killed", "running" until then

locksVars == <<held, ended>>

-----------------------------------------------------------------------------
(* _engager sorts the ingredients; consume and restore go by the lines.    *)
Unsorted == MaterialRows                         \* mutant: as they are met
Before(s, m) == {k \in ToSet(MaterialRows[s]) : Rank[k] < Rank[m]}
Sorted == [s \in Sales |-> [n \in DOMAIN MaterialRows[s] |->
  CHOOSE m \in ToSet(MaterialRows[s]) : Cardinality(Before(s, m)) = n - 1]]

Rows(w) ==
  LET s == Task[w].sale IN
  CASE Task[w].kind = "create" -> DishRows[s] \o Sorted[s] \o CouponRow[s]
    [] Task[w].kind = "cancel" -> <<s>> \o CouponRow[s] \o DishRows[s] \o Sorted[s]
    [] Task[w].kind = "fire"   -> <<s>> \o Sorted[s]

Locked(w) == IF ended[w] = "running" THEN {Rows(w)[n] : n \in 1..held[w]} ELSE {}
Wanted(w) == IF ended[w] = "running" /\ held[w] < Len(Rows(w))
               THEN {Rows(w)[held[w] + 1]} ELSE {}

WaitsFor(v, w) == v # w /\ Wanted(v) \cap Locked(w) # {}
Stuck(c) == c # {} /\ \A v \in c : \E w \in c : WaitsFor(v, w)
Cycles == {c \in SUBSET Tasks : Stuck(c) /\ \A b \in SUBSET c \ {c} : ~Stuck(b)}

-----------------------------------------------------------------------------
LocksInit ==
  /\ held = [w \in Tasks |-> 0]
  /\ ended = [w \in Tasks |-> "running"]

LockRow(w) ==
  /\ Wanted(w) # {} /\ \A v \in Tasks : ~WaitsFor(w, v)
  /\ held' = [held EXCEPT ![w] = @ + 1]
  /\ UNCHANGED ended

CommitTask(w) ==
  /\ ended[w] = "running" /\ held[w] = Len(Rows(w))
  /\ ended' = [ended EXCEPT ![w] = "committed"]
  /\ UNCHANGED held

KillOne ==
  /\ \E c \in Cycles : \E w \in c : ended' = [ended EXCEPT ![w] = "killed"]
  /\ UNCHANGED held

LocksNext == KillOne \/ \E w \in Tasks : LockRow(w) \/ CommitTask(w)

LocksSpec == LocksInit /\ [][LocksNext]_locksVars

-----------------------------------------------------------------------------
LocksTypeOK ==
  /\ held \in [Tasks -> Nat]
  /\ ended \in [Tasks -> {"running", "committed", "killed"}]

(* "Deux commandes simultanees portant sur les memes matieres prendraient  *)
(* sinon leurs verrous dans des ordres opposes": orders kill one another   *)
(* over dishes and promotions, which nothing sorts, never over ingredients.*)
OnIngredient(w) == Wanted(w) \subseteq Materials
NoCycleOfIngredients == \A c \in Cycles : \E w \in c : ~OnIngredient(w)
=============================================================================
