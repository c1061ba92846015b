----------------------------- MODULE MCPayments -----------------------------
(***************************************************************************)
(* Instances of Payments for TLC: one order of two shares.                 *)
(***************************************************************************)
EXTENDS Payments, TLC

CONSTANTS o1, s1, s2

MCOrders  == {o1}
MCShares  == {s1, s2}
MCShareOf == [s \in MCShares |-> o1]

Symmetry == Permutations(Txns) \cup Permutations(Workers) \cup Permutations(MCShares)
=============================================================================
