--------------------------- MODULE MCSaasBilling ---------------------------
(* Small instances of SaasBilling: what the provider may notify.             *)
EXTENDS SaasBilling

CONSTANTS basic, pro, i1, i2, p1, p2, p3, p4, p5, provsub, t1, t2

Says(id, kind, invoice, plan, providerSub) ==
    [id |-> id, kind |-> kind, invoice |-> invoice, plan |-> plan, sub |-> providerSub]

\* A failed charge of an invoice, its retry with a plan change, a failed charge
\* of the next invoice, the end of the provider's subscription, and a refund.
SaysOf(m) ==
    CASE m = p1 -> Says(p1, "failed", i1, NoPlan, NoSub)
      [] m = p2 -> Says(p2, "succeeded", i1, IF pro \in Plan THEN pro ELSE NoPlan, provsub)
      [] m = p3 -> Says(p3, "failed", i2, NoPlan, NoSub)
      [] m = p4 -> Says(provsub, "deleted", NoInvoice, NoPlan, provsub)
      [] m = p5 -> Says(p5, "refunded", i1, NoPlan, NoSub)
LifeCycle == [m \in Message |-> SaysOf(m)]

\* One payment only.
OnePayment == [m \in {p1} |-> Says(p1, "succeeded", i1, NoPlan, NoSub)]

\* The failed and the late captured notification of one payment share the
\* payment's id.
OnePaymentTwoEvents ==
    [m \in {p1, p2} |-> Says(p1, IF m = p1 THEN "failed" ELSE "succeeded", i1, NoPlan, NoSub)]

BasicOnly == [t \in Txn |-> basic]
=============================================================================
