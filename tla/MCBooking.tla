------------------------------ MODULE MCBooking ------------------------------
(***************************************************************************)
(* Instances of Booking for TLC.                                           *)
(***************************************************************************)
EXTENDS Booking, TLC

CONSTANTS w1, w2, p1, p2, p3, b1, b2, b3, b4

\* Three points of time; two overlapping slots and one after the first.
TwoSlots == {{1, 2}, {2, 3}}
ThreeSlots == {{1, 2}, {2, 3}, {3}}
OneSlot == {{1}}
Apart == {{1}, {2}}
AlwaysOpen == [w \in Worker |-> UNION Span]
\* w2 leaves early.
Uneven == [w \in Worker |-> IF w = w2 THEN {1, 2} ELSE UNION Span]

ProcSymmetry == Permutations(Proc)
JobSymmetry == Permutations(Job)
BothSymmetry == ProcSymmetry \cup JobSymmetry
=============================================================================
