----------------------------- MODULE MCPayments -----------------------------
(***************************************************************************)
(* Instances of Payments and PaymentsBooks for TLC.                        *)
(***************************************************************************)
EXTENDS PaymentsBooks, TLC

CONSTANTS j1, j2, k1, k2, p1, p2

JobOfOne == k1 :> j1
JobOfShared == k1 :> j1 @@ k2 :> j1
ProcSymmetry == Permutations({p1, p2})
=============================================================================
