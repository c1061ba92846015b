----------------------------- MODULE Sums_proofs -----------------------------
(***************************************************************************)
(* Facts about sums over finite sets, as the models take them              *)
(* (SumFunctionOnSet of the community modules): what the fold that defines *)
(* the sum computes, and how the sum moves with its set and its function.  *)
(* And about least elements: induction over finite sets goes by a smallest *)
(* counterexample, a set of sets and not a predicate.  And about quotients *)
(* and remainders, which count the hours of a day and the days of a week.  *)
(***************************************************************************)
EXTENDS Integers, FiniteSets, Functions, FiniteSetTheorems, WellFoundedInduction, TLAPS

(* A set of subsets of a finite set has a member none of its other members *)
(* is included in.                                                         *)
LEMMA SmallestSubset ==
  ASSUME NEW S, IsFiniteSet(S), NEW Bad, Bad \subseteq SUBSET S, Bad # {}
  PROVE  \E T \in Bad : \A U \in Bad : U \subseteq T => U = T
<1>1. Bad \subseteq FiniteSubsetsOf(S)
  BY FS_Subset DEF FiniteSubsetsOf
<1>2. IsWellFoundedOn(StrictSubsetOrdering(S), FiniteSubsetsOf(S))
  BY FS_StrictSubsetOrderingWellFounded
<1>3. PICK T \in Bad : \A U \in Bad : <<U, T>> \notin StrictSubsetOrdering(S)
  BY <1>1, <1>2, WFMin
<1> QED
  BY <1>3 DEF StrictSubsetOrdering

(* A set of naturals has a least one: the intervals below its members are  *)
(* finite sets.                                                            *)
LEMMA LeastNatural ==
  ASSUME NEW S, S \subseteq Nat, S # {}
  PROVE  \E t \in S : \A u \in S : t <= u
<1> DEFINE UpTo == {0..u : u \in S}
<1>1. UpTo \subseteq FiniteSubsetsOf(Nat) /\ UpTo # {}
  <2>1. ASSUME NEW u \in S PROVE 0..u \in FiniteSubsetsOf(Nat)
    BY FS_Interval DEF FiniteSubsetsOf
  <2> QED  BY <2>1
<1>2. PICK I \in UpTo : \A J \in UpTo : <<J, I>> \notin StrictSubsetOrdering(Nat)
  <2> HIDE DEF UpTo
  <2> QED  BY <1>1, FS_StrictSubsetOrderingWellFounded, WFMin
<1>3. PICK t \in S : I = 0..t
  OBVIOUS
<1>4. ASSUME NEW u \in S, u < t PROVE FALSE
  <2>1. <<0..u, 0..t>> \notin StrictSubsetOrdering(Nat)
    BY <1>2, <1>3
  <2>2. 0..u \subseteq 0..t /\ t \in 0..t /\ t \notin 0..u /\ 0..t \subseteq Nat
    BY <1>4
  <2> QED  BY <2>1, <2>2 DEF StrictSubsetOrdering
<1> QED
  BY <1>4

(* And a set of naturals that is bounded has a greatest element.           *)
LEMMA GreatestNatural ==
  ASSUME NEW S, NEW bound \in Nat, S \subseteq 0..bound, S # {}
  PROVE  \E t \in S : \A u \in S : u <= t
<1> DEFINE Gaps == {bound - u : u \in S}
<1>1. Gaps \subseteq Nat /\ Gaps # {}
  <2>1. ASSUME NEW u \in S PROVE bound - u \in Nat
    OBVIOUS
  <2> QED  BY <2>1
<1>2. PICK g \in Gaps : \A h \in Gaps : g <= h
  <2> HIDE DEF Gaps
  <2> QED  BY <1>1, LeastNatural
<1>3. PICK t \in S : g = bound - t
  OBVIOUS
<1>4. ASSUME NEW u \in S PROVE u <= t
  <2>1. bound - t <= bound - u
    BY <1>2, <1>3
  <2>2. bound \in Int /\ t \in Int /\ u \in Int
    OBVIOUS
  <2> QED  BY <2>1, <2>2
<1> QED
  BY <1>4

-----------------------------------------------------------------------------
(* The recursive function behind the sum.                                  *)
Pick(T) == CHOOSE x \in T : TRUE
Rest(T) == T \ {Pick(T)}
Body(g, f, S) == [T \in SUBSET S |-> IF T = {} THEN 0 ELSE f[Pick(T)] + g[Rest(T)]]
Fold(f, S) == CHOOSE h : h = Body(h, f, S)

LEMMA SumIsFold == ASSUME NEW f, NEW S PROVE SumFunctionOnSet(f, S) = Fold(f, S)[S]
BY DEF SumFunctionOnSet, FoldFunctionOnSet, MapThenFoldSet, Fold, Body, Pick, Rest

LEMMA PickIsMember == ASSUME NEW T, T # {} PROVE Pick(T) \in T
BY DEF Pick

(* Two such functions agree where both are defined.                        *)
LEMMA FoldsAgree ==
  ASSUME NEW f, NEW S, IsFiniteSet(S), NEW R, S \subseteq R,
         NEW g, g = Body(g, f, S), NEW h, h = Body(h, f, R)
  PROVE  \A T \in SUBSET S : g[T] = h[T]
<1> DEFINE Bad == {T \in SUBSET S : g[T] # h[T]}
<1> SUFFICES ASSUME Bad # {} PROVE FALSE
  OBVIOUS
<1>1. PICK T \in Bad : \A U \in Bad : U \subseteq T => U = T
  <2>1. Bad \subseteq SUBSET S
    OBVIOUS
  <2> HIDE DEF Bad
  <2> QED  BY <2>1, SmallestSubset
<1>2. T \in SUBSET S /\ T \in SUBSET R /\ g[T] # h[T]
  OBVIOUS
<1>3. /\ g[T] = IF T = {} THEN 0 ELSE f[Pick(T)] + g[Rest(T)]
      /\ h[T] = IF T = {} THEN 0 ELSE f[Pick(T)] + h[Rest(T)]
  <2>1. \A U \in SUBSET S : Body(g, f, S)[U] = IF U = {} THEN 0 ELSE f[Pick(U)] + g[Rest(U)]
    BY DEF Body
  <2>2. \A U \in SUBSET R : Body(h, f, R)[U] = IF U = {} THEN 0 ELSE f[Pick(U)] + h[Rest(U)]
    BY DEF Body
  <2> QED  BY <1>2, <2>1, <2>2
<1>4. T # {} /\ g[Rest(T)] # h[Rest(T)]
  BY <1>2, <1>3
<1>5. Rest(T) \in Bad /\ Rest(T) \subseteq T /\ Rest(T) # T
  BY <1>2, <1>4, PickIsMember DEF Rest
<1> QED
  BY <1>1, <1>5

(* There is one on every finite set.                                       *)
LEMMA FoldExists ==
  ASSUME NEW f, NEW S, IsFiniteSet(S)
  PROVE  \E h : h = Body(h, f, S)
<1> DEFINE Folds(T) == \E h : h = Body(h, f, T)
           Bad == {T \in SUBSET S : ~Folds(T)}
<1> SUFFICES ASSUME Bad # {} PROVE FALSE
  OBVIOUS
<1>1. PICK T \in Bad : \A U \in Bad : U \subseteq T => U = T
  <2>1. Bad \subseteq SUBSET S
    OBVIOUS
  <2> HIDE DEF Bad
  <2> QED  BY <2>1, SmallestSubset
<1>2. T \in SUBSET S /\ ~Folds(T) /\ \A U \in SUBSET T : U # T => Folds(U)
  BY <1>1
<1>3. ASSUME NEW U \in SUBSET T, U # T PROVE Fold(f, U) = Body(Fold(f, U), f, U)
  BY <1>2, <1>3 DEF Fold
<1> DEFINE H == [U \in SUBSET T |-> IF U = {} THEN 0 ELSE f[Pick(U)] + Fold(f, Rest(U))[Rest(U)]]
<1>4. ASSUME NEW U \in SUBSET T, U # {} PROVE H[Rest(U)] = Fold(f, Rest(U))[Rest(U)]
  <2> DEFINE V == Rest(U)
  <2>1. V \in SUBSET T /\ V # T /\ IsFiniteSet(V)
    BY <1>2, <1>4, PickIsMember, FS_Subset DEF Rest
  <2>2. Fold(f, V) = Body(Fold(f, V), f, V)
    BY <1>3, <2>1
  <2>3. Fold(f, V)[V] = IF V = {} THEN 0 ELSE f[Pick(V)] + Fold(f, V)[Rest(V)]
    <3>1. Body(Fold(f, V), f, V)[V] = IF V = {} THEN 0 ELSE f[Pick(V)] + Fold(f, V)[Rest(V)]
      BY DEF Body
    <3> QED  BY <2>2, <3>1
  <2>4. ASSUME V # {} PROVE Fold(f, V)[Rest(V)] = Fold(f, Rest(V))[Rest(V)]
    <3> DEFINE W == Rest(V)
    <3>1. W \in SUBSET V /\ W \in SUBSET T /\ W # T /\ IsFiniteSet(W)
      BY <2>1, <2>4, PickIsMember, FS_Subset DEF Rest
    <3>2. Fold(f, W) = Body(Fold(f, W), f, W)
      BY <1>3, <3>1
    <3> HIDE DEF W, V
    <3>3. Fold(f, W)[W] = Fold(f, V)[W]
      BY <3>1, <3>2, <2>2, FoldsAgree
    <3> QED  BY <3>3 DEF W
  <2>5. H[V] = IF V = {} THEN 0 ELSE f[Pick(V)] + Fold(f, Rest(V))[Rest(V)]
    BY <2>1
  <2> QED  BY <2>3, <2>4, <2>5
<1>5. H = Body(H, f, T)
  <2>1. ASSUME NEW U \in SUBSET T
        PROVE  H[U] = IF U = {} THEN 0 ELSE f[Pick(U)] + H[Rest(U)]
    BY <1>4
  <2>2. H = [U \in SUBSET T |-> H[U]]
    OBVIOUS
  <2> HIDE DEF H
  <2> QED  BY <2>1, <2>2 DEF Body
<1> QED
  BY <1>2, <1>5

-----------------------------------------------------------------------------
(* What the sum is: nothing for no element, and one element more.          *)
LEMMA SumUnfolds ==
  ASSUME NEW f, NEW S, IsFiniteSet(S)
  PROVE  SumFunctionOnSet(f, S) =
           IF S = {} THEN 0 ELSE f[Pick(S)] + SumFunctionOnSet(f, Rest(S))
<1>1. Fold(f, S) = Body(Fold(f, S), f, S)
  BY FoldExists DEF Fold
<1>2. Fold(f, S)[S] = IF S = {} THEN 0 ELSE f[Pick(S)] + Fold(f, S)[Rest(S)]
  <2>1. Body(Fold(f, S), f, S)[S] = IF S = {} THEN 0 ELSE f[Pick(S)] + Fold(f, S)[Rest(S)]
    BY DEF Body
  <2> QED  BY <1>1, <2>1
<1>3. Rest(S) \in SUBSET S /\ IsFiniteSet(Rest(S))
  BY FS_Subset DEF Rest
<1>4. Fold(f, Rest(S)) = Body(Fold(f, Rest(S)), f, Rest(S))
  BY <1>3, FoldExists DEF Fold
<1>5. Fold(f, Rest(S))[Rest(S)] = Fold(f, S)[Rest(S)]
  <2> DEFINE W == Rest(S)
             g == Fold(f, W)
             h == Fold(f, S)
  <2>1. g = Body(g, f, W) /\ h = Body(h, f, S) /\ W \subseteq S /\ IsFiniteSet(W)
    BY <1>1, <1>3, <1>4
  <2> HIDE DEF W, g, h
  <2>2. \A T \in SUBSET W : g[T] = h[T]
    BY <2>1, FoldsAgree
  <2>3. g[W] = h[W]
    BY <2>2
  <2> QED  BY <2>3 DEF W, g, h
<1> QED
  BY <1>2, <1>5, SumIsFold

LEMMA SumOfNone == ASSUME NEW f PROVE SumFunctionOnSet(f, {}) = 0
BY SumUnfolds, FS_EmptySet

LEMMA SumType ==
  ASSUME NEW S, IsFiniteSet(S), NEW f, \A x \in S : f[x] \in Int
  PROVE  SumFunctionOnSet(f, S) \in Int
<1> DEFINE Bad == {T \in SUBSET S : SumFunctionOnSet(f, T) \notin Int}
<1> SUFFICES ASSUME Bad # {} PROVE FALSE
  OBVIOUS
<1>1. PICK T \in Bad : \A U \in Bad : U \subseteq T => U = T
  <2>1. Bad \subseteq SUBSET S
    OBVIOUS
  <2> HIDE DEF Bad
  <2> QED  BY <2>1, SmallestSubset
<1>2. T \subseteq S /\ IsFiniteSet(T) /\ SumFunctionOnSet(f, T) \notin Int
  BY FS_Subset
<1>3. T # {} /\ SumFunctionOnSet(f, T) = f[Pick(T)] + SumFunctionOnSet(f, Rest(T))
  BY <1>2, SumUnfolds
<1>4. Pick(T) \in T /\ Rest(T) \subseteq T /\ Rest(T) # T
  BY <1>3, PickIsMember DEF Rest
<1>5. SumFunctionOnSet(f, Rest(T)) \in Int
  BY <1>1, <1>2, <1>4
<1> QED
  BY <1>2, <1>3, <1>4, <1>5

(* Whichever element is taken out, the sum is its value and the rest.      *)
LEMMA SumTakesOut ==
  ASSUME NEW S, IsFiniteSet(S), NEW f, \A x \in S : f[x] \in Int, NEW a \in S
  PROVE  SumFunctionOnSet(f, S) = f[a] + SumFunctionOnSet(f, S \ {a})
<1> DEFINE Splits(T) == \A x \in T : SumFunctionOnSet(f, T) = f[x] + SumFunctionOnSet(f, T \ {x})
           Bad == {T \in SUBSET S : ~Splits(T)}
<1> SUFFICES ASSUME Bad # {} PROVE FALSE
  OBVIOUS
<1>1. PICK T \in Bad : \A U \in Bad : U \subseteq T => U = T
  <2>1. Bad \subseteq SUBSET S
    OBVIOUS
  <2> HIDE DEF Bad
  <2> QED  BY <2>1, SmallestSubset
<1>2. T \subseteq S /\ IsFiniteSet(T)
  BY FS_Subset
<1>3. PICK x \in T : SumFunctionOnSet(f, T) # f[x] + SumFunctionOnSet(f, T \ {x})
  OBVIOUS
<1> DEFINE c == Pick(T)
<1>4. c \in T /\ SumFunctionOnSet(f, T) = f[c] + SumFunctionOnSet(f, T \ {c})
  BY <1>2, <1>3, SumUnfolds, PickIsMember DEF Rest
<1>5. c # x
  BY <1>3, <1>4
<1>6. \A y \in T : Splits(T \ {y})
  BY <1>1, <1>2
<1> HIDE DEF c
<1>7. SumFunctionOnSet(f, T \ {c}) = f[x] + SumFunctionOnSet(f, (T \ {c}) \ {x})
  BY <1>4, <1>5, <1>6
<1>8. SumFunctionOnSet(f, T \ {x}) = f[c] + SumFunctionOnSet(f, (T \ {x}) \ {c})
  BY <1>4, <1>5, <1>6
<1>9. (T \ {c}) \ {x} = (T \ {x}) \ {c}
  OBVIOUS
<1>10. /\ f[c] \in Int /\ f[x] \in Int
       /\ SumFunctionOnSet(f, (T \ {c}) \ {x}) \in Int
  <2>1. IsFiniteSet((T \ {c}) \ {x})
    BY <1>2, FS_Subset
  <2> QED  BY <1>2, <1>4, <2>1, SumType
<1> DEFINE both == SumFunctionOnSet(f, (T \ {c}) \ {x})
<1>11. /\ SumFunctionOnSet(f, T) = f[c] + (f[x] + both)
       /\ SumFunctionOnSet(f, T \ {x}) = f[c] + both
  BY <1>4, <1>7, <1>8, <1>9
<1>12. both \in Int /\ f[c] \in Int /\ f[x] \in Int
  BY <1>10
<1>13. f[c] + (f[x] + both) = f[x] + (f[c] + both)
  <2> HIDE DEF both
  <2> QED  BY <1>12
<1> QED
  BY <1>3, <1>11, <1>13

LEMMA SumPutsIn ==
  ASSUME NEW S, IsFiniteSet(S), NEW a, a \notin S,
         NEW f, \A x \in S \cup {a} : f[x] \in Int
  PROVE  SumFunctionOnSet(f, S \cup {a}) = f[a] + SumFunctionOnSet(f, S)
<1>1. IsFiniteSet(S \cup {a}) /\ (S \cup {a}) \ {a} = S
  BY FS_AddElement
<1> QED
  BY <1>1, SumTakesOut

(* The sum only looks at the function on the set.                          *)
LEMMA SumLooksAt ==
  ASSUME NEW S, IsFiniteSet(S), NEW f, NEW g, \A x \in S : f[x] = g[x]
  PROVE  SumFunctionOnSet(f, S) = SumFunctionOnSet(g, S)
<1> DEFINE Bad == {T \in SUBSET S : SumFunctionOnSet(f, T) # SumFunctionOnSet(g, T)}
<1> SUFFICES ASSUME Bad # {} PROVE FALSE
  OBVIOUS
<1>1. PICK T \in Bad : \A U \in Bad : U \subseteq T => U = T
  <2>1. Bad \subseteq SUBSET S
    OBVIOUS
  <2> HIDE DEF Bad
  <2> QED  BY <2>1, SmallestSubset
<1>2. T \subseteq S /\ IsFiniteSet(T) /\ SumFunctionOnSet(f, T) # SumFunctionOnSet(g, T)
  BY FS_Subset
<1>3. /\ SumFunctionOnSet(f, T) = IF T = {} THEN 0 ELSE f[Pick(T)] + SumFunctionOnSet(f, Rest(T))
      /\ SumFunctionOnSet(g, T) = IF T = {} THEN 0 ELSE g[Pick(T)] + SumFunctionOnSet(g, Rest(T))
  BY <1>2, SumUnfolds
<1>4. T # {}
  BY <1>2, <1>3
<1>5. Pick(T) \in T /\ Rest(T) \subseteq T /\ Rest(T) # T
  BY <1>4, PickIsMember DEF Rest
<1>6. SumFunctionOnSet(f, Rest(T)) = SumFunctionOnSet(g, Rest(T))
  BY <1>1, <1>2, <1>5
<1> QED
  BY <1>2, <1>3, <1>4, <1>5, <1>6

LEMMA SumOfZeros ==
  ASSUME NEW S, IsFiniteSet(S), NEW f, \A x \in S : f[x] = 0
  PROVE  SumFunctionOnSet(f, S) = 0
<1> DEFINE Bad == {T \in SUBSET S : SumFunctionOnSet(f, T) # 0}
<1> SUFFICES ASSUME Bad # {} PROVE FALSE
  OBVIOUS
<1>1. PICK T \in Bad : \A U \in Bad : U \subseteq T => U = T
  <2>1. Bad \subseteq SUBSET S
    OBVIOUS
  <2> HIDE DEF Bad
  <2> QED  BY <2>1, SmallestSubset
<1>2. T \subseteq S /\ IsFiniteSet(T) /\ SumFunctionOnSet(f, T) # 0
  BY FS_Subset
<1>3. T # {} /\ SumFunctionOnSet(f, T) = f[Pick(T)] + SumFunctionOnSet(f, Rest(T))
  BY <1>2, SumUnfolds
<1>4. Pick(T) \in T /\ Rest(T) \subseteq T /\ Rest(T) # T
  BY <1>3, PickIsMember DEF Rest
<1>5. SumFunctionOnSet(f, Rest(T)) = 0
  BY <1>1, <1>2, <1>4
<1> QED
  BY <1>2, <1>3, <1>4, <1>5

(* One value changed under the sum.                                        *)
LEMMA SumChangesAt ==
  ASSUME NEW S, IsFiniteSet(S), NEW a \in S, NEW f, NEW g,
         \A x \in S : f[x] \in Int /\ g[x] \in Int,
         \A x \in S \ {a} : f[x] = g[x]
  PROVE  SumFunctionOnSet(g, S) = SumFunctionOnSet(f, S) - f[a] + g[a]
<1>1. IsFiniteSet(S \ {a})
  BY FS_Subset
<1>2. SumFunctionOnSet(f, S \ {a}) = SumFunctionOnSet(g, S \ {a})
  BY <1>1, SumLooksAt
<1>3. SumFunctionOnSet(f, S \ {a}) \in Int
  BY <1>1, SumType
<1>4. /\ SumFunctionOnSet(f, S) = f[a] + SumFunctionOnSet(f, S \ {a})
      /\ SumFunctionOnSet(g, S) = g[a] + SumFunctionOnSet(g, S \ {a})
  BY SumTakesOut
<1> QED
  BY <1>2, <1>3, <1>4

(* One element comes, goes or changes its value; the others stay.          *)
LEMMA SumMoves ==
  ASSUME NEW S, IsFiniteSet(S), NEW T, IsFiniteSet(T), NEW a, S \ {a} = T \ {a},
         NEW f, \A x \in S : f[x] \in Int, NEW g, \A x \in T : g[x] \in Int,
         \A x \in S \ {a} : f[x] = g[x]
  PROVE  SumFunctionOnSet(g, T) = SumFunctionOnSet(f, S)
           - (IF a \in S THEN f[a] ELSE 0) + (IF a \in T THEN g[a] ELSE 0)
<1> DEFINE B == S \ {a}
<1>1. IsFiniteSet(B) /\ B = T \ {a}
  BY FS_Subset
<1>2. SumFunctionOnSet(f, B) = SumFunctionOnSet(g, B)
  BY <1>1, SumLooksAt
<1>3. SumFunctionOnSet(f, B) \in Int
  BY <1>1, SumType
<1>4. SumFunctionOnSet(f, S) = (IF a \in S THEN f[a] ELSE 0) + SumFunctionOnSet(f, B)
  <2>1. CASE a \in S
    BY <2>1, SumTakesOut
  <2>2. CASE a \notin S
    <3>1. SumFunctionOnSet(f, S) = SumFunctionOnSet(f, B)
      <4>1. B = S
        BY <2>2
      <4> QED  BY <4>1
    <3> HIDE DEF B
    <3> QED  BY <2>2, <3>1, <1>3
  <2> QED  BY <2>1, <2>2
<1>5. SumFunctionOnSet(g, T) = (IF a \in T THEN g[a] ELSE 0) + SumFunctionOnSet(g, B)
  <2>1. CASE a \in T
    BY <1>1, <2>1, SumTakesOut
  <2>2. CASE a \notin T
    <3>1. SumFunctionOnSet(g, T) = SumFunctionOnSet(g, B)
      <4>1. B = T
        BY <1>1, <2>2
      <4> QED  BY <4>1
    <3> HIDE DEF B
    <3> QED  BY <2>2, <3>1, <1>2, <1>3
  <2> QED  BY <2>1, <2>2
<1>6. /\ (IF a \in S THEN f[a] ELSE 0) \in Int
      /\ (IF a \in T THEN g[a] ELSE 0) \in Int
  OBVIOUS
<1> HIDE DEF B
<1> QED
  BY <1>2, <1>3, <1>4, <1>5, <1>6

(* A sum of naturals is one, and grows with its set and with its function. *)
LEMMA SumIsNatural ==
  ASSUME NEW S, IsFiniteSet(S), NEW f, \A x \in S : f[x] \in Nat
  PROVE  SumFunctionOnSet(f, S) \in Nat
<1> DEFINE Bad == {T \in SUBSET S : SumFunctionOnSet(f, T) \notin Nat}
<1> SUFFICES ASSUME Bad # {} PROVE FALSE
  OBVIOUS
<1>1. PICK T \in Bad : \A U \in Bad : U \subseteq T => U = T
  <2>1. Bad \subseteq SUBSET S
    OBVIOUS
  <2> HIDE DEF Bad
  <2> QED  BY <2>1, SmallestSubset
<1>2. T \subseteq S /\ IsFiniteSet(T) /\ SumFunctionOnSet(f, T) \notin Nat
  BY FS_Subset
<1>3. T # {} /\ SumFunctionOnSet(f, T) = f[Pick(T)] + SumFunctionOnSet(f, Rest(T))
  BY <1>2, SumUnfolds
<1>4. Pick(T) \in T /\ Rest(T) \subseteq T /\ Rest(T) # T
  BY <1>3, PickIsMember DEF Rest
<1>5. SumFunctionOnSet(f, Rest(T)) \in Nat
  BY <1>1, <1>2, <1>4
<1> QED
  BY <1>2, <1>3, <1>4, <1>5

LEMMA SumGrows ==
  ASSUME NEW S, IsFiniteSet(S), NEW f, \A x \in S : f[x] \in Nat, NEW R \in SUBSET S
  PROVE  SumFunctionOnSet(f, R) <= SumFunctionOnSet(f, S)
<1> DEFINE Bad == {T \in SUBSET S : R \subseteq T /\ ~(SumFunctionOnSet(f, R) <= SumFunctionOnSet(f, T))}
<1> SUFFICES ASSUME Bad # {} PROVE FALSE
  OBVIOUS
<1>1. PICK T \in Bad : \A U \in Bad : U \subseteq T => U = T
  <2>1. Bad \subseteq SUBSET S
    OBVIOUS
  <2> HIDE DEF Bad
  <2> QED  BY <2>1, SmallestSubset
<1>2. /\ T \subseteq S /\ IsFiniteSet(T) /\ R \subseteq T /\ IsFiniteSet(R)
      /\ ~(SumFunctionOnSet(f, R) <= SumFunctionOnSet(f, T))
  BY FS_Subset
<1>3. SumFunctionOnSet(f, R) \in Nat
  BY <1>2, SumIsNatural
<1>4. PICK a \in T : a \notin R
  BY <1>2, <1>3
<1>5. SumFunctionOnSet(f, R) <= SumFunctionOnSet(f, T \ {a})
  BY <1>1, <1>2, <1>4
<1>6. SumFunctionOnSet(f, T) = f[a] + SumFunctionOnSet(f, T \ {a}) /\ f[a] \in Nat
  <2>1. \A x \in T : f[x] \in Int
    BY <1>2
  <2> QED  BY <1>2, <1>4, <2>1, SumTakesOut
<1>7. SumFunctionOnSet(f, T \ {a}) \in Nat
  <2>1. IsFiniteSet(T \ {a})
    BY <1>2, FS_Subset
  <2> QED  BY <1>2, <2>1, SumIsNatural
<1> QED
  BY <1>2, <1>3, <1>5, <1>6, <1>7

-----------------------------------------------------------------------------
(* Quotients, remainders and days.                                         *)

(* Quotients and remainders, and that they are the only ones.              *)
LEMMA Divided ==
  ASSUME NEW t \in Int, NEW n \in Int, n > 0
  PROVE  /\ t \div n \in Int /\ t % n \in Int /\ 0 <= t % n /\ t % n < n
         /\ t = n * (t \div n) + (t % n)
<1>1. t = n * (t \div n) + (t % n)
  BY SMTT(30)
<1>2. t \div n \in Int /\ t % n \in Int /\ 0 <= t % n /\ t % n < n
  BY SMTT(30)
<1> QED
  BY <1>1, <1>2

LEMMA Multiples ==
  ASSUME NEW a \in Int, NEW b \in Int, NEW n \in Int, n > 0
  PROVE  /\ n * a \in Int /\ n * a = a * n
         /\ n * (a + 1) = n * a + n /\ n * (a - 1) = n * a - n
         /\ a <= b => n * a <= n * b
         /\ a < b => n * a + n <= n * b
<1>1. n * a \in Int /\ n * a = a * n /\ n * (a + 1) = n * a + n /\ n * (a - 1) = n * a - n
  OBVIOUS
<1>2. a <= b => n * a <= n * b
  OBVIOUS
<1>3. a + 1 <= b => n * (a + 1) <= n * b
  OBVIOUS
<1> QED
  BY <1>1, <1>2, <1>3

LEMMA DividedOnce ==
  ASSUME NEW n \in Int, n > 0, NEW q \in Int, NEW r \in Int, 0 <= r, r < n
  PROVE  (n * q + r) \div n = q /\ (n * q + r) % n = r
<1> DEFINE t == n * q + r
           p == t \div n
<1>1. t \in Int /\ p \in Int /\ t % n \in Int /\ 0 <= t % n /\ t % n < n /\ t = n * p + (t % n)
  <2>1. t \in Int
    BY Multiples
  <2> HIDE DEF t
  <2> QED  BY <2>1, Divided
<1>2. n * q + r = n * p + (t % n)
  BY <1>1
<1>3. n * p \in Int /\ n * q \in Int
  BY <1>1, Multiples
<1>4. ~(q < p)
  <2>1. q < p => n * q + n <= n * p
    BY <1>1, Multiples
  <2> HIDE DEF t, p
  <2> QED  BY <1>1, <1>2, <1>3, <2>1
<1>5. ~(p < q)
  <2>1. p < q => n * p + n <= n * q
    BY <1>1, Multiples
  <2> HIDE DEF t, p
  <2> QED  BY <1>1, <1>2, <1>3, <2>1
<1>6. p = q
  <2> HIDE DEF t, p
  <2> QED  BY <1>1, <1>4, <1>5
<1> QED
  <2> HIDE DEF p
  <2>1. t % n = r
    <3> HIDE DEF t
    <3> QED  BY <1>1, <1>2, <1>3, <1>6
  <2> QED  BY <1>6, <2>1 DEF p

(* The day before a day, in the week.                                      *)
LEMMA DayBefore ==
  ASSUME NEW n \in Int, n > 0, NEW k \in Int
  PROVE  ((k % n) + n - 1) % n = (k - 1) % n
<1> DEFINE q == k \div n
           r == k % n
<1>1. q \in Int /\ r \in Int /\ 0 <= r /\ r < n /\ k = n * q + r
  BY Divided
<1> HIDE DEF q, r
<1>2. n * 1 = n /\ n * 0 = 0 /\ n * q \in Int /\ n * (q - 1) = n * q - n
  BY <1>1, Multiples
<1>3. CASE r >= 1
  <2>1. (n * 1 + (r - 1)) % n = r - 1
    BY <1>1, <1>3, DividedOnce
  <2>2. (n * q + (r - 1)) % n = r - 1
    BY <1>1, <1>3, DividedOnce
  <2>3. r + n - 1 = n * 1 + (r - 1) /\ k - 1 = n * q + (r - 1)
    BY <1>1, <1>2
  <2> QED  BY <2>1, <2>2, <2>3 DEF r
<1>4. CASE r = 0
  <2>1. (n * 0 + (n - 1)) % n = n - 1
    BY <1>1, DividedOnce
  <2>2. (n * (q - 1) + (n - 1)) % n = n - 1
    BY <1>1, DividedOnce
  <2>3. r + n - 1 = n * 0 + (n - 1) /\ k - 1 = n * (q - 1) + (n - 1)
    BY <1>1, <1>2, <1>4
  <2> QED  BY <2>1, <2>2, <2>3 DEF r
<1> QED
  BY <1>1, <1>3, <1>4

(* An hour of a day, and the days it can be of.                            *)
LEMMA DayOfAnHour ==
  ASSUME NEW n \in Int, n > 0, NEW d \in Int, NEW e \in Int, NEW r \in Int, 0 <= r, r < n
  PROVE  /\ n * d + r < n * (e + 1) => d <= e
         /\ n * e <= n * d + r => e <= d
<1>1. /\ n * d \in Int /\ n * e \in Int /\ n * (e + 1) = n * e + n
      /\ e < d => n * e + n <= n * d
      /\ d < e => n * d + n <= n * e
  BY Multiples
<1> DEFINE nd == n * d
           ne == n * e
<1>2. nd \in Int /\ ne \in Int /\ (e < d => ne + n <= nd) /\ (d < e => nd + n <= ne)
  BY <1>1
<1>3. n * (e + 1) = ne + n
  BY <1>1
<1> SUFFICES /\ nd + r < ne + n => d <= e
             /\ ne <= nd + r => e <= d
  BY <1>3
<1> HIDE DEF nd, ne
<1> QED
  BY <1>2
=============================================================================
