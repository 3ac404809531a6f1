-------------------------- MODULE MCOrderLifecycle --------------------------
(***************************************************************************)
(* Constants for TLC: up to three orders of one variant on two slots, no   *)
(* discounts (MCCheckout checks those).  The runs differ in who takes part.*)
(***************************************************************************)
EXTENDS OrderLifecycle, TLC

CONSTANTS o1, o2, o3, v1, s1, s2, s3, none

MCCart == [o \in Order |-> [v \in {v1} |-> 1]]

MCLargestLine == MCCart

MCInitStock == [v \in {v1} |-> 1]

MCDiscountOf == [o \in Order |-> none]

MCLimits == [d \in {} |-> 1]

SlotSymmetry == Permutations(Slot)

AllSymmetry == Permutations(Slot) \cup Permutations(Order)
=============================================================================
