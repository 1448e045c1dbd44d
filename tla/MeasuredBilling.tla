-------------------------- MODULE MeasuredBilling --------------------------
(***************************************************************************)
(* Final measurements, their approval, and what is billed for them: running *)
(* account bills (app/api/billing.py) and owner invoices (app/api/invoice.py*)
(* POST /from-measurement).  app/api/final_measurement.py keeps the status  *)
(* of a measurement, app/api/approval.py writes it, too.                    *)
(*                                                                         *)
(* Both billing handlers lock the measurement and then look for an earlier  *)
(* bill or invoice; the lock reads the row afresh, the look is in the       *)
(* snapshot the request started with.  They are therefore two steps; every  *)
(* other request is one.                                                    *)
(*                                                                         *)
(* Left out: rates, deductions, taxes, retention; owner transactions and    *)
(* journals; the item of the bill of quantities a measurement belongs to,   *)
(* with the limit its quantity sets; a bill without a measurement; who may  *)
(* call.                                                                    *)
(***************************************************************************)
EXTENDS Integers, FiniteSets

CONSTANTS
    Measurement,
    Bill,          \* ra_bills rows that may be created
    Invoice,       \* invoices rows that may be created from a measurement
    Billing,       \* request slots of the billing handlers that overlap others
    Staff,
    Measured       \* quantities a client enters


VARIABLES
    measurements,  \* final_measurements
    claims,        \* ra_bills and owner invoices made from a measurement
    approvals,     \* pending approvals by entity: who asked, or nobody
    billing,       \* billing requests in progress and the claims they have seen
    reopened       \* history: measurements that were put back from BILLED

billingVars == <<measurements, claims, approvals, billing, reopened>>

-----------------------------------------------------------------------------
MeasurementStatus == {"DRAFT", "SUBMITTED", "VERIFIED", "APPROVED", "REJECTED", "BILLED"}
BillStatus  == {"Draft", "Submitted", "Approved", "Rejected", "Paid"}
Claim       == Bill \cup Invoice
FinalMeasurementRow == [status : MeasurementStatus, quantity : Measured]
NoMeasurement == "none"
ClaimRow    == [status : BillStatus \cup {"pending"},
                measurement : Measurement \cup {NoMeasurement}, quantity : Measured]
NoRow       == [status |-> "absent"]
Nobody      == "nobody"
Idling      == [claim |-> "none"]

Exists(m)  == measurements[m] # NoRow
Claimed(c) == claims[c] # NoRow
ClaimsOf(m, rows) == {c \in Claim : rows[c] # NoRow /\ rows[c].measurement = m}
InvoicesOf(m) == ClaimsOf(m, claims) \cap Invoice
Entity == Measurement \cup Bill

ASSUME MeasuredAssumption == Measured \subseteq Nat \ {0} /\ NoMeasurement \notin Measurement

BillingInit ==
    /\ measurements = [m \in Measurement |-> NoRow]
    /\ claims = [c \in Claim |-> NoRow]
    /\ approvals = [e \in Entity |-> Nobody]
    /\ billing = [r \in Billing |-> Idling]
    /\ reopened = {}

\* Writing a status over BILLED reopens the measurement.
SetStatus(m, status) ==
    /\ measurements' = [measurements EXCEPT ![m].status = status]
    /\ reopened' = IF measurements[m].status = "BILLED" THEN reopened \cup {m} ELSE reopened

-----------------------------------------------------------------------------
(* final_measurement.py: each handler locks the row.                        *)

CreateMeasurement(m, quantity) ==
    /\ ~Exists(m)
    /\ measurements' = [measurements EXCEPT ![m] = [status |-> "DRAFT", quantity |-> quantity]]
    /\ UNCHANGED <<claims, approvals, billing, reopened>>

\* Only an owner invoice locks the quantities; a bill does so by the status alone.
\* Mutant: the invoice is not looked for.
UnlockedDraft(m) == Exists(m) /\ measurements[m].status \in {"DRAFT", "REJECTED"}
Unlocked(m) ==
    /\ Exists(m) /\ measurements[m].status \in {"DRAFT", "REJECTED"}
    /\ InvoicesOf(m) = {}

UpdateMeasurement(m, quantity) ==
    /\ Unlocked(m)
    /\ measurements' = [measurements EXCEPT ![m].quantity = quantity]
    /\ UNCHANGED <<claims, approvals, billing, reopened>>

\* The foreign key sets the measurement of its bills to null.  The approval that
\* stays behind answers 404; a new row has a new id, and none.
DeleteMeasurement(m) ==
    /\ Unlocked(m)
    /\ measurements' = [measurements EXCEPT ![m] = NoRow]
    /\ claims' = [c \in Claim |-> IF c \in ClaimsOf(m, claims)
                               THEN [claims[c] EXCEPT !.measurement = NoMeasurement]
                               ELSE claims[c]]
    /\ approvals' = [approvals EXCEPT ![m] = Nobody]
    /\ reopened' = reopened \ {m}
    /\ UNCHANGED billing

SubmitMeasurement(m, user) ==
    /\ Exists(m) /\ measurements[m].status \in {"DRAFT", "REJECTED"}
    /\ SetStatus(m, "SUBMITTED")
    /\ approvals' = [approvals EXCEPT ![m] = IF @ = Nobody THEN user ELSE @]
    /\ UNCHANGED <<claims, billing>>

VerifyMeasurement(m) ==
    /\ Exists(m) /\ measurements[m].status = "SUBMITTED"
    /\ SetStatus(m, "VERIFIED")
    /\ UNCHANGED <<claims, approvals, billing>>

RedraftMeasurement(m) ==
    /\ Exists(m) /\ measurements[m].status = "REJECTED"
    /\ SetStatus(m, "DRAFT")
    /\ UNCHANGED <<claims, approvals, billing>>

-----------------------------------------------------------------------------
(* approval.py: no handler locks or looks at the status it writes over.      *)

\* A request for a measurement submits it, a request for a bill changes nothing.
CreateApproval(e, user) ==
    /\ approvals[e] = Nobody
    /\ approvals' = [approvals EXCEPT ![e] = user]
    /\ IF e \in Measurement THEN Exists(e) /\ SetStatus(e, "SUBMITTED")
       ELSE Claimed(e) /\ UNCHANGED <<measurements, reopened>>
    /\ UNCHANGED <<claims, billing>>

Decision == {"approve", "reject"}
MeasurementDecided(decision) == IF decision = "approve" THEN "APPROVED" ELSE "REJECTED"
BillDecided(decision)        == IF decision = "approve" THEN "Approved" ELSE "Rejected"

\* approve and reject; the requester may not decide.
Decide(e, user, decision) ==
    /\ approvals[e] \notin {Nobody, user}
    /\ approvals' = [approvals EXCEPT ![e] = Nobody]
    /\ IF e \in Measurement
       THEN Exists(e) /\ SetStatus(e, MeasurementDecided(decision)) /\ UNCHANGED claims
       ELSE /\ Claimed(e)
            /\ claims' = [claims EXCEPT ![e].status = BillDecided(decision)]
            /\ UNCHANGED <<measurements, reopened>>
    /\ UNCHANGED billing

-----------------------------------------------------------------------------
(* Billing a measurement.                                                   *)

BeginBilling(r, c, m) ==
    /\ billing[r] = Idling
    /\ ~Claimed(c) /\ Exists(m)
    /\ billing' = [billing EXCEPT ![r] = [claim |-> c, measurement |-> m,
                                          seen |-> ClaimsOf(m, claims)]]
    /\ UNCHANGED <<measurements, claims, approvals, reopened>>

\* Mutant: the status is not looked at after the lock.
BillableAny(m) == Exists(m) /\ measurements[m].status # "DRAFT"
Billable(m)    == Exists(m) /\ measurements[m].status \in {"VERIFIED", "APPROVED"}

ClaimFor(c, m, seen) ==
    /\ Billable(m)
    /\ seen = {}
    /\ ~Claimed(c)
    /\ measurements' = [measurements EXCEPT ![m].status = "BILLED"]
    /\ claims' = [claims EXCEPT ![c] =
           [status |-> IF c \in Bill THEN "Draft" ELSE "pending",
            measurement |-> m, quantity |-> measurements[m].quantity]]

\* create_ra_bill asks for the approval of the bill, too.
CreateBill(b, m, seen, user) ==
    /\ ClaimFor(b, m, seen)
    /\ approvals' = [approvals EXCEPT ![b] = user]
    /\ UNCHANGED reopened
CreateInvoiceFromMeasurement(i, m, seen) ==
    /\ ClaimFor(i, m, seen)
    /\ UNCHANGED <<approvals, reopened>>

Claiming(c, m, seen, user) ==
    IF c \in Bill THEN CreateBill(c, m, seen, user)
    ELSE CreateInvoiceFromMeasurement(c, m, seen)

\* A billing request that nothing overlaps, and one that began earlier.
BillMeasurement(c, m, user) ==
    /\ Claiming(c, m, ClaimsOf(m, claims), user)
    /\ UNCHANGED billing
CommitBilling(r, user) ==
    /\ billing[r] # Idling
    /\ Claiming(billing[r].claim, billing[r].measurement, billing[r].seen, user)
    /\ billing' = [billing EXCEPT ![r] = Idling]
RefuseBilling(r) ==
    /\ billing[r] # Idling
    /\ billing' = [billing EXCEPT ![r] = Idling]
    /\ UNCHANGED <<measurements, claims, approvals, reopened>>

-----------------------------------------------------------------------------
(* billing.py: the life of a bill.                                          *)

\* update_ra_bill takes any quantity and any status.
UpdateBill(b, quantity, status) ==
    /\ Claimed(b)
    /\ claims' = [claims EXCEPT ![b].quantity = quantity, ![b].status = status]
    /\ UNCHANGED <<measurements, approvals, billing, reopened>>

\* The measurement stays BILLED.
DeleteClaim(c) ==
    /\ Claimed(c)
    /\ claims' = [claims EXCEPT ![c] = NoRow]
    /\ approvals' = [e \in Entity |-> IF e = c THEN Nobody ELSE approvals[e]]
    /\ UNCHANGED <<measurements, billing, reopened>>

Advance(b, from, to) ==
    /\ Claimed(b) /\ claims[b].status = from
    /\ claims' = [claims EXCEPT ![b].status = to]
    /\ UNCHANGED <<measurements, billing, reopened>>
SubmitBill(b)  == Advance(b, "Draft", "Submitted") /\ UNCHANGED approvals
ApproveBill(b) == Advance(b, "Submitted", "Approved") /\ approvals' = [approvals EXCEPT ![b] = Nobody]
PayBill(b)     == Advance(b, "Approved", "Paid") /\ UNCHANGED approvals

BillingNext ==
    \/ \E m \in Measurement :
           \/ \E q \in Measured : CreateMeasurement(m, q) \/ UpdateMeasurement(m, q)
           \/ DeleteMeasurement(m) \/ VerifyMeasurement(m) \/ RedraftMeasurement(m)
           \/ \E u \in Staff : SubmitMeasurement(m, u)
           \/ \E c \in Claim, u \in Staff : BillMeasurement(c, m, u)
    \/ \E e \in Entity, u \in Staff :
           \/ CreateApproval(e, u)
           \/ \E d \in Decision : Decide(e, u, d)
    \/ \E r \in Billing :
           \/ \E c \in Claim, m \in Measurement : BeginBilling(r, c, m)
           \/ \E u \in Staff : CommitBilling(r, u)
           \/ RefuseBilling(r)
    \/ \E b \in Bill :
           \/ SubmitBill(b) \/ ApproveBill(b) \/ PayBill(b)
           \/ \E q \in Measured, s \in BillStatus : UpdateBill(b, q, s)
    \/ \E c \in Claim : DeleteClaim(c)
BillingSpec == BillingInit /\ [][BillingNext]_billingVars

-----------------------------------------------------------------------------
BillingTypeOK ==
    /\ measurements \in [Measurement -> FinalMeasurementRow \cup {NoRow}]
    /\ claims \in [Claim -> ClaimRow \cup {NoRow}]
    /\ approvals \in [Entity -> Staff \cup {Nobody}]
    /\ billing \in [Billing -> {Idling} \cup
                       [claim : Claim, measurement : Measurement, seen : SUBSET Claim]]
    /\ reopened \subseteq Measurement

\* Two bills, or a bill and an invoice, are made for one measurement only if an
\* approval request put it back from BILLED: whatever overlaps, and although the
\* look for an earlier claim is outdated, the locked status lets one through.
ClaimedOnce ==
    \A m \in Measurement : m \notin reopened => Cardinality(ClaimsOf(m, claims)) <= 1

\* A measurement that an owner invoice was made for keeps its quantity as long as
\* the invoice is there, even if a late rejection reopens it.
InvoicedIsFrozen ==
    [][\A i \in Invoice : Claimed(i) /\ claims'[i] = claims[i] =>
          measurements'[claims[i].measurement].status # "absent" /\
          measurements'[claims[i].measurement].quantity =
              measurements[claims[i].measurement].quantity]_billingVars
=============================================================================
