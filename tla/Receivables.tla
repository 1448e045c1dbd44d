---------------------------- MODULE Receivables ----------------------------
(***************************************************************************)
(* Owner invoices and the client payments recorded against them             *)
(* (app/api/invoice.py, app/api/client_payment.py).                         *)
(*                                                                         *)
(* A client records a payment, which claims part of the invoice's pending   *)
(* amount; staff verify it, and only then it counts as paid.  Staff also    *)
(* book receipts directly.  Payment, verification and the direct receipts   *)
(* lock the invoice row and read it afresh: one step each.  Three handlers  *)
(* decide on rows of the request's snapshot and are two steps: the update   *)
(* of a payment, the update of an invoice, and verification, which takes    *)
(* the invoice to lock from the snapshot of the payment.                    *)
(*                                                                         *)
(* The journals of receipts are left out: auto_post_journal is skipped when *)
(* an account is missing and mark-paid posts none, so nothing relates them  *)
(* to the receipts.                                                         *)
(***************************************************************************)
EXTENDS Integers, Sequences, FiniteSets, Sums

CONSTANTS
    Invoice,    \* invoice rows that may be created
    Payment,    \* client payment rows that may be created
    Request,    \* request slots: how many two-step handlers run at once
    Serves,     \* bound: the two-step handlers each slot runs
    Reference,  \* bank or cheque references of offline payments
    Via,        \* how a client may pay: under a reference, in cash or online
    Direct,     \* stands for the payment of a receipt booked without one
    Total,      \* totals an invoice may be given
    Amount,     \* amounts a client or the staff may enter
    MaxTxn      \* bound: rows the transactions table ever gets

ASSUME PaymentAssumption   == IsFiniteSet(Payment)
ASSUME ServesAssumption ==
    Serves \in [Request -> SUBSET {"update_payment", "verify", "update_invoice"}]
ASSUME TotalAssumption     == Total \subseteq Nat
ASSUME AmountAssumption    == Amount \subseteq Nat \ {0}
ASSUME DirectAssumption    == Direct \notin Payment
ASSUME ReferenceAssumption == Reference \cap {"cash", "online"} = {}
ASSUME ViaAssumption       == Via \subseteq Reference \cup {"cash", "online"}
ASSUME MaxTxnAssumption    == MaxTxn \in Nat

VARIABLES
    invoices,  \* invoices
    payments,  \* client_payments
    txns,      \* the receipts in transactions that name an invoice, by id
    requests,  \* the two-step handlers in progress and what they have read
    stale      \* history: rows written from a snapshot that was out of date

vars == <<invoices, payments, txns, requests, stale>>

-----------------------------------------------------------------------------
(* Rows.  A payment's method and bank details are one field, via.            *)

Unverified    == {"PENDING", "VERIFICATION_PENDING"}
PaymentStatus == Unverified \cup {"SUCCESS", "REJECTED"}
InvoiceStatus == {"pending", "partial", "paid"}
InvoiceRow    == [status : InvoiceStatus, total : Nat, paid : Nat, pending : Nat]
PaymentRow    == [status : PaymentStatus, invoice : Invoice, amount : Nat, via : Via]
TxnRow        == [invoice : Invoice, payment : Payment \cup {Direct}, amount : Nat]
Absent        == [status |-> "ABSENT"]
Deleted       == [status |-> "DELETED"]

Idle == [op |-> "idle"]
RequestState ==
    {Idle}
    \cup [op : {"update_payment"}, payment : Payment, row : PaymentRow]
    \cup [op : {"verify"}, payment : Payment, invoice : Invoice]
    \cup [op : {"update_invoice"}, invoice : Invoice, row : InvoiceRow]

\* What an ORM flush leaves in a row that now holds cur when the session loaded
\* it as old and holds new: only changed attributes are written.
Flushed(cur, old, new) ==
    [f \in DOMAIN cur |-> IF new[f] = old[f] THEN cur[f] ELSE new[f]]

Live(i) == invoices[i].status \in InvoiceStatus
Exists(p) == payments[p].status \in PaymentStatus
\* max(0, total - paid).
Remainder(total, paid) == IF paid >= total THEN 0 ELSE total - paid

\* What the unverified payments of invoice i other than p claim of it.
Claims(i, p) ==
    TotalOf([q \in Payment |->
        IF q # p /\ payments[q].status \in Unverified /\ payments[q].invoice = i
        THEN payments[q].amount ELSE 0])

\* The checks on an invoice row that is about to receive amount.
Receivable(row, amount) ==
    /\ row.status # "paid" /\ row.pending > 0
    /\ amount <= row.pending
    /\ row.paid + amount <= row.total

\* assert_invoice_payable.  Mutant: other payments claim nothing.
PayableAlone(i, amount, p) == Receivable(invoices[i], amount) /\ Claims(i, p) >= 0
Payable(i, amount, p) ==
    Receivable(invoices[i], amount) /\ amount <= invoices[i].pending - Claims(i, p)

\* The payments that hold their reference.
Blocking == {p \in Payment : payments[p].status \in Unverified \cup {"SUCCESS"}}

\* check_duplicate_payment: a reference that a payment not rejected holds already.
\* Mutant: verified payments do not block their reference.
UnusedByUnverified(via, p) ==
    via \in Reference =>
        \A q \in Blocking \ {p} : payments[q].status \in Unverified => payments[q].via # via
Unused(via, p) ==
    via \in Reference => \A q \in Blocking \ {p} : payments[q].via # via

\* The invoice row after a receipt.  Mutants: the latest receipt alone counts;
\* a status word of the purchase orders.
ReceivedLast(row, amount) ==
    [row EXCEPT !.paid = amount, !.pending = Remainder(row.total, amount),
                !.status = IF amount >= row.total THEN "paid" ELSE "partial"]
ReceivedWord(row, amount) ==
    [row EXCEPT !.paid = @ + amount, !.pending = Remainder(row.total, row.paid + amount),
                !.status = IF row.paid + amount >= row.total THEN "paid" ELSE "PARTIALLY_PAID"]
Received(row, amount) ==
    LET paid == row.paid + amount IN
    [row EXCEPT !.paid = paid, !.pending = Remainder(row.total, paid),
                !.status = IF paid >= row.total THEN "paid" ELSE "partial"]

IsReceipt(t) == txns[t] # Deleted
Booked(i, p, amount) == Append(txns, [invoice |-> i, payment |-> p, amount |-> amount])

Free(r) == requests[r] = Idle
Start(r, request) ==
    /\ Free(r) /\ request.op \in Serves[r]
    /\ requests' = [requests EXCEPT ![r] = request]
Done(r) == requests' = [requests EXCEPT ![r] = Idle]
\* The rows a commit relied on that are not what it had read.
Outdated(rows, same) == stale' = IF same THEN stale ELSE stale \cup rows

-----------------------------------------------------------------------------
Init ==
    /\ invoices = [i \in Invoice |-> Absent]
    /\ payments = [p \in Payment |-> Absent]
    /\ txns = <<>>
    /\ requests = [r \in Request |-> Idle]
    /\ stale = {}

\* A new invoice, by hand or from a quotation, a measurement or expenses.
CreateInvoice(i, total) ==
    /\ invoices[i] = Absent
    /\ total > 0
    /\ invoices' = [invoices EXCEPT ![i] = [status |-> "pending", total |-> total,
                                            paid |-> 0, pending |-> total]]
    /\ UNCHANGED <<payments, txns, requests, stale>>

\* DELETE /invoices/{id} takes the payments and the receipts with it.
DeleteInvoice(i) ==
    /\ Live(i)
    /\ invoices' = [invoices EXCEPT ![i] = Deleted]
    /\ payments' = [p \in Payment |-> IF Exists(p) /\ payments[p].invoice = i
                                      THEN Deleted ELSE payments[p]]
    /\ txns' = [t \in DOMAIN txns |-> IF IsReceipt(t) /\ txns[t].invoice = i
                                     THEN Deleted ELSE txns[t]]
    /\ UNCHANGED <<requests, stale>>

\* POST /invoices/{id}/pay: what unverified payments claim is not held back.
PayInvoice(i, amount) ==
    /\ Live(i)
    /\ Receivable(invoices[i], amount)
    /\ Len(txns) < MaxTxn
    /\ txns' = Booked(i, Direct, amount)
    /\ invoices' = [invoices EXCEPT ![i] = Received(@, amount)]
    /\ UNCHANGED <<payments, requests, stale>>

\* POST /invoices/{id}/mark-paid books what is pending.
MarkPaid(i) ==
    /\ Live(i)
    /\ invoices[i].status # "paid" /\ invoices[i].pending > 0
    /\ Len(txns) < MaxTxn
    /\ txns' = Booked(i, Direct, invoices[i].pending)
    /\ invoices' = [invoices EXCEPT ![i].paid = @ + invoices[i].pending,
                                    ![i].pending = 0, ![i].status = "paid"]
    /\ UNCHANGED <<payments, requests, stale>>

\* POST /client-payments: an online payment is PENDING, which no endpoint verifies.
CreatePayment(p, i, amount, via) ==
    /\ payments[p] = Absent
    /\ Live(i)
    /\ Unused(via, p)
    /\ Payable(i, amount, p)
    /\ payments' = [payments EXCEPT ![p] =
                      [status  |-> IF via = "online" THEN "PENDING" ELSE "VERIFICATION_PENDING",
                       invoice |-> i, amount |-> amount, via |-> via]]
    /\ UNCHANGED <<invoices, txns, requests, stale>>

\* DELETE /client-payments/{id}: the row is locked and read again.
DeletePayment(p) ==
    /\ payments[p].status \in Unverified
    /\ payments' = [payments EXCEPT ![p] = Deleted]
    /\ UNCHANGED <<invoices, txns, requests, stale>>

-----------------------------------------------------------------------------
(* PUT /client-payments/{id}: the payment is never locked.                   *)

BeginUpdatePayment(r, p) ==
    /\ payments[p].status \in Unverified
    /\ Start(r, [op |-> "update_payment", payment |-> p, row |-> payments[p]])
    /\ UNCHANGED <<invoices, payments, txns, stale>>

\* The invoice is checked when the request changes it or the amount; the status
\* stays what the method of the first request made it.
CommitUpdatePayment(r, i, amount, via) ==
    LET q == requests[r]
        p == q.payment
    IN
    /\ q.op = "update_payment"
    /\ Exists(p)
    /\ Unused(via, p)
    /\ i # q.row.invoice => Live(i) /\ Payable(i, amount, p)
    /\ amount # q.row.amount /\ Live(i) => Payable(i, amount, p)
    /\ payments' = [payments EXCEPT ![p] =
                      Flushed(@, q.row, [q.row EXCEPT !.invoice = i, !.amount = amount,
                                                      !.via = via])]
    /\ Outdated({p, i, q.row.invoice, payments[p].invoice}, payments[p] = q.row)
    /\ Done(r)
    /\ UNCHANGED <<invoices, txns>>

-----------------------------------------------------------------------------
(* POST /client-payments/{id}/verify.                                        *)

BeginVerify(r, p) ==
    /\ payments[p].status = "VERIFICATION_PENDING"
    /\ Start(r, [op |-> "verify", payment |-> p, invoice |-> payments[p].invoice])
    /\ UNCHANGED <<invoices, payments, txns, stale>>

\* Under the locks the payment is read again.  Mutant: it is not.
AwaitedVerification(row) == row.status \in {"VERIFICATION_PENDING", "SUCCESS"}
AwaitsVerification(row)  == row.status = "VERIFICATION_PENDING"

\* The amount goes to the invoice of the snapshot, the receipt names the
\* invoice of the locked row.
CommitApprove(r) ==
    LET q      == requests[r]
        p      == q.payment
        i      == q.invoice
        locked == payments[p]
    IN
    /\ q.op = "verify"
    /\ Live(i)
    /\ AwaitsVerification(locked)
    /\ Receivable(invoices[i], locked.amount)
    /\ Len(txns) < MaxTxn
    /\ invoices' = [invoices EXCEPT ![i] = Received(@, locked.amount)]
    /\ payments' = [payments EXCEPT ![p].status = "SUCCESS"]
    /\ txns' = Booked(locked.invoice, p, locked.amount)
    /\ Outdated({i, locked.invoice}, locked.invoice = i)
    /\ Done(r)

CommitReject(r) ==
    LET q == requests[r] IN
    /\ q.op = "verify"
    /\ Live(q.invoice)
    /\ AwaitsVerification(payments[q.payment])
    /\ payments' = [payments EXCEPT ![q.payment].status = "REJECTED"]
    /\ Done(r)
    /\ UNCHANGED <<invoices, txns, stale>>

-----------------------------------------------------------------------------
(* PUT /invoices/{id}: no lock, and the status is left alone.                *)

BeginUpdateInvoice(r, i) ==
    /\ Live(i)
    /\ Start(r, [op |-> "update_invoice", invoice |-> i, row |-> invoices[i]])
    /\ UNCHANGED <<invoices, payments, txns, stale>>

\* Mutant: a total below the paid amount is accepted.
CoversAny(total, paid)  == total >= 0 /\ paid >= 0
CoversPaid(total, paid) == total >= paid

CommitUpdateInvoice(r, total) ==
    LET q == requests[r]
        i == q.invoice
    IN
    /\ q.op = "update_invoice"
    /\ Live(i)
    /\ CoversPaid(total, q.row.paid)
    /\ invoices' = [invoices EXCEPT ![i] =
                      Flushed(@, q.row, [q.row EXCEPT !.total = total,
                                           !.pending = Remainder(total, q.row.paid)])]
    /\ Outdated({i}, invoices[i] = q.row)
    /\ Done(r)
    /\ UNCHANGED <<payments, txns>>

\* A handler that raises leaves nothing behind.
Abort(r) ==
    /\ ~Free(r)
    /\ Done(r)
    /\ UNCHANGED <<invoices, payments, txns, stale>>

-----------------------------------------------------------------------------
InvoiceStep(i) ==
    \/ \E total \in Total : CreateInvoice(i, total)
    \/ DeleteInvoice(i)
    \/ \E amount \in Amount : PayInvoice(i, amount)
    \/ MarkPaid(i)

PaymentStep(p) ==
    \/ \E i \in Invoice, amount \in Amount, via \in Via : CreatePayment(p, i, amount, via)
    \/ DeletePayment(p)

Begin(r) ==
    \/ \E p \in Payment : BeginUpdatePayment(r, p) \/ BeginVerify(r, p)
    \/ \E i \in Invoice : BeginUpdateInvoice(r, i)

Commit(r) ==
    \/ \E i \in Invoice, amount \in Amount, via \in Via : CommitUpdatePayment(r, i, amount, via)
    \/ CommitApprove(r) \/ CommitReject(r)
    \/ \E total \in Total : CommitUpdateInvoice(r, total)

Next ==
    \/ \E i \in Invoice : InvoiceStep(i)
    \/ \E p \in Payment : PaymentStep(p)
    \/ \E r \in Request : Begin(r) \/ Commit(r) \/ Abort(r)

Spec == Init /\ [][Next]_vars

-----------------------------------------------------------------------------
(* Correctness.                                                             *)

\* The columns' values and where a request can be.
TypeOK ==
    /\ invoices \in [Invoice -> InvoiceRow \cup {Absent, Deleted}]
    /\ payments \in [Payment -> PaymentRow \cup {Absent, Deleted}]
    /\ txns \in Seq(TxnRow \cup {Deleted})
    /\ requests \in [Request -> RequestState]
    /\ stale \subseteq Invoice \cup Payment

\* The receipts of an invoice, of a payment, and the claims on an invoice.
ReceivedFor(i) ==
    TotalOf([t \in DOMAIN txns |->
        IF IsReceipt(t) /\ txns[t].invoice = i THEN txns[t].amount ELSE 0])
Own(p) == {t \in DOMAIN txns : IsReceipt(t) /\ txns[t].payment = p}
ClaimsCovered(i) == Claims(i, Direct) <= invoices[i].pending

\* What an invoice calls paid is what its receipts add up to, through payments,
\* verifications, updates and deletions in any order, unless a verification
\* locked an invoice its payment had left (verify_client_payment, pay_invoice).
PaidIsReceived ==
    \A i \in Invoice \ stale : Live(i) => invoices[i].paid = ReceivedFor(i)

\* Nobody pays more than an invoice's total and what is pending is the rest,
\* however receipts and changes of the total alternate, unless the total was
\* computed from an outdated row (update_invoice, pay_invoice, mark_paid).
NeverOverpaid ==
    \A i \in Invoice \ stale :
        Live(i) => /\ invoices[i].paid <= invoices[i].total
                   /\ invoices[i].pending = invoices[i].total - invoices[i].paid

\* A payment counts once: it has a receipt exactly when it was approved, one,
\* over its own amount and invoice, though two members of staff may verify it
\* at once; an update that had read it before is the exception
\* (verify_client_payment, update_client_payment).
ApprovedOnce ==
    \A p \in Payment \ stale :
        LET own == Own(p) IN
        /\ Cardinality(own) <= 1
        /\ payments[p].status = "SUCCESS" <=> own # {}
        /\ \A t \in own : /\ txns[t].amount = payments[p].amount
                          /\ txns[t].invoice = payments[p].invoice

\* Invoices, payments and receipts say the same (client_payment.py, invoice.py).
ReceiptsAgree == PaidIsReceived /\ ApprovedOnce

\* No bank or cheque reference stands for two payments that were not rejected,
\* through creations, updates and decisions that overlap (check_duplicate_payment).
ReferencesDistinct ==
    \A p, q \in Blocking :
        payments[p].via = payments[q].via /\ payments[p].via \in Reference => p = q

\* Client payments never claim more of an invoice together than is pending: a
\* step that books no direct receipt and leaves the total alone keeps what the
\* unverified payments claim covered (assert_invoice_payable and approval).
ClaimsStayCovered ==
    [][ payments' # payments \/ invoices' # invoices =>
          \A i \in Invoice :
             (/\ i \notin stale' /\ Live(i) /\ Live(i)'
              /\ invoices'[i].total = invoices[i].total
              /\ \A t \in 1..Len(txns') : t > Len(txns) => txns'[t].payment # Direct
              /\ ClaimsCovered(i))
             => ClaimsCovered(i)' ]_vars

=============================================================================
