--------------------------- MODULE ExclusiveScan ---------------------------
(***************************************************************************)
(* What the lock of the reconciliation worker promises: scans of the tenant *)
(* base never overlap.                                                      *)
(***************************************************************************)
CONSTANTS Worker, Nobody
VARIABLE scanner    \* the worker that is scanning

Init == scanner = Nobody
Begin(w) == scanner = Nobody /\ scanner' = w
End(w)   == scanner = w /\ scanner' = Nobody
Next == \E w \in Worker : Begin(w) \/ End(w)
Spec == Init /\ [][Next]_scanner
=============================================================================
