----------------------------- MODULE MCCheckout -----------------------------
(***************************************************************************)
(* Constants for TLC: four checkouts of one variant.  Two send the same    *)
(* single-use code (one of them also the discountId), two the same         *)
(* discount of limit one; all run on two slots.                            *)
(***************************************************************************)
EXTENDS Checkout, TLC

CONSTANTS o1, o2, o3, o4, v1, d1, c1, s1, s2, none

MCOrder == {o1, o2, o3, o4}

MCCart == [o \in MCOrder |-> [v \in {v1} |-> 1]]

MCLargestLine == MCCart

MCInitStock == [v \in {v1} |-> 1]

MCDiscountOf == (o1 :> none) @@ (o2 :> d1) @@ (o3 :> d1) @@ (o4 :> d1)

MCCodeOf == (o1 :> c1) @@ (o2 :> c1) @@ (o3 :> none) @@ (o4 :> none)

MCUsageLimit == [d \in {d1} |-> 1]

MCMaxUses == [c \in {c1} |-> 1]

SlotSymmetry == Permutations({s1, s2}) \cup Permutations({o3, o4})
=============================================================================
