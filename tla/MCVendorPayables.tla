-------------------------- MODULE MCVendorPayables --------------------------
(* Instances of VendorPayables for TLC. *)
EXTENDS VendorPayables, Functions, TLC

CONSTANTS b1, b2, v1, v2, r1, r2

OneTotal == [b \in Bill |-> 2]
AllOnFirst == [v \in Voucher |-> b1]
AllOnSecond == [v \in Voucher |-> b2]
OneEach == [v \in Voucher |-> IF v = v1 THEN b1 ELSE b2]
Interchangeable == Permutations(Request) \cup Permutations(Voucher)
RequestSymmetry == Permutations(Request)

\* The totals of this module are the sums a fold computes.
ASSUME TotalIsFold ==
    \A f \in [1..3 -> -2..2] : TotalOf(f) = FoldFunction(+, 0, f)
=============================================================================
