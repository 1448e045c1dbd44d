--------------------------- MODULE MCReceivables ---------------------------
(* Instances of Receivables for TLC. *)
EXTENDS Receivables, TLC

CONSTANTS i1, i2, p1, p2, r1, r2, n1

AllThenVerify ==
    [r \in Request |-> IF r = r1 THEN {"update_payment", "verify", "update_invoice"}
                      ELSE {"verify"}]
Interchangeable == Permutations(Payment) \cup Permutations(Invoice)
=============================================================================
