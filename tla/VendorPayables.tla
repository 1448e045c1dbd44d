--------------------------- MODULE VendorPayables ---------------------------
(***************************************************************************)
(* Vendor bills, payment vouchers, supplier payments and their journal      *)
(* (app/api/vendor_bills.py, app/services/payment_service.py, and the TDS   *)
(* endpoints of app/api/accountant.py).                                     *)
(*                                                                         *)
(* A request runs in one InnoDB transaction at REPEATABLE READ whose        *)
(* snapshot is fixed by the first SELECT (the authentication dependency).   *)
(* A handler that decides on rows read without a lock, or on ORM objects    *)
(* loaded before the lock (the identity map does not refresh them), is two  *)
(* steps: Begin... takes the rows it will decide on, Commit... takes the    *)
(* row locks, decides on those rows, writes and commits.  A handler whose   *)
(* only read of the row is the locked one is one step.                      *)
(***************************************************************************)
EXTENDS Integers, Sequences, FiniteSets, Sums

CONSTANTS
    Bill,       \* vendor bills
    Voucher,    \* payment vouchers
    BillOf,     \* the bill each voucher is raised against
    Request,    \* request slots: how many two-step handlers run at once
    Legacy,     \* bills approved before accrual accounting existed
    Total,      \* total_amount of each bill, in the smallest currency unit
    Amount,     \* payment and voucher amounts a client asks for
    Withheld,   \* TDS and retention amounts a client puts on a voucher
    ManualTDS,  \* statuses an accountant gives a TDS row of his own
    MaxTxn,     \* bound: rows of the transactions table
    Exclusive   \* TRUE: requests on one bill never overlap

ASSUME LegacyAssumption    == Legacy \subseteq Bill
ASSUME TotalAssumption     == Total \in [Bill -> Nat \ {0}]
ASSUME BillOfAssumption    == BillOf \in [Voucher -> Bill]
ASSUME AmountAssumption    == Amount \subseteq Nat \ {0}
ASSUME WithheldAssumption  == Withheld \subseteq Nat
ASSUME ManualTDSAssumption == ManualTDS \subseteq {"Pending", "Deposited", "Posted"}
ASSUME MaxTxnAssumption    == MaxTxn \in Nat
ASSUME ExclusiveAssumption == Exclusive \in BOOLEAN

VARIABLES
    bills,      \* vendor_bills: status, amount_paid, accrued_journal_id set?
    vouchers,   \* payment_vouchers, with the transaction their payment made
    txns,       \* transactions, in id order, each with its journal's lines
    ledger,     \* per bill, the posted journal lines summed by account
    tds,        \* per bill, the statuses of its tds_deductions rows
    requests    \* the two-step handlers in progress and what they have read

vars == <<bills, vouchers, txns, ledger, tds, requests>>

-----------------------------------------------------------------------------
(* Rows. *)

BillStatus    == {"ABSENT", "PENDING", "APPROVED", "REJECTED", "PARTIAL", "PAID"}
VoucherStatus == {"ABSENT", "PENDING", "PAID", "CANCELLED"}
TDSStatus     == {"PENDING", "Pending", "Deposited", "Posted"}
Accounts      == {"payable", "bank", "tds", "retention", "expense"}

BillRow    == [status : BillStatus, paid : Int, accrued : BOOLEAN]
VoucherRow == [status : VoucherStatus, gross : Nat, tds : Nat, retention : Nat, txn : Nat]
Lines      == [Accounts -> Int]
TxnRow     == [bill : Bill, origin : {"direct", "voucher"}, amount : Int,
               lines : Lines, reverses : Nat, cancels : Nat]

Idle == [op |-> "idle"]
CreateVoucherRequest ==
    [op : {"create_voucher"}, bill : Bill, voucher : Voucher, gross : Amount,
     tds : Withheld, retention : Withheld, billRow : BillRow, issued : SUBSET Voucher]
VoucherRequest ==
    [op : {"mark_paid", "cancel"}, bill : Bill, voucher : Voucher, billRow : BillRow,
     voucherRow : VoucherRow, tdsRows : SUBSET TDSStatus]
ReverseRequest ==
    [op : {"reverse"}, bill : Bill, txn : Nat, billRow : BillRow,
     tdsRows : SUBSET TDSStatus, seen : Nat]
TDSRequest ==
    [op : {"create_tds"}, bill : Bill, status : TDSStatus, amount : Withheld,
     tdsRows : SUBSET TDSStatus]
RequestState ==
    {Idle} \cup CreateVoucherRequest \cup VoucherRequest \cup ReverseRequest \cup TDSRequest

\* Credits are positive, debits negative.
Posting(payable, bank, tdsPayable, retention, expense) ==
    [payable |-> payable, bank |-> bank, tds |-> tdsPayable,
     retention |-> retention, expense |-> expense]
\* Mutant: a reversal that repeats the journal instead of swapping its sides.
SwappedNot(lines) == [a \in Accounts |-> lines[a]]
Swapped(lines)    == [a \in Accounts |-> -lines[a]]
Posted(b, lines) ==
    [ledger EXCEPT ![b] = [a \in Accounts |-> ledger[b][a] + lines[a]]]

\* What an ORM flush leaves in a row that now holds cur when the session loaded
\* it as old and holds new: only changed attributes are written.
Flushed(cur, old, new) ==
    [f \in DOMAIN cur |-> IF new[f] = old[f] THEN cur[f] ELSE new[f]]

Outstanding(b, row) == Total[b] - row.paid
\* Mutants: the purchase orders' status word; a bill is PAID only beyond its total.
SettledStatusWord(b, paid)  == IF paid >= Total[b] THEN "PAID" ELSE "PARTIALLY_PAID"
SettledStatusAbove(b, paid) == IF paid > Total[b] THEN "PAID" ELSE "PARTIAL"
SettledStatus(b, paid)      == IF paid >= Total[b] THEN "PAID" ELSE "PARTIAL"

Issued == {v \in Voucher : vouchers[v].status # "ABSENT"}

\* The statuses a tds_deductions query for status != 'PENDING' returns (MySQL
\* compares without regard to case).  Mutant: a deposit does not count.
ProcessedPosted(rows) == rows \cap {"Posted"}
Processed(rows)       == rows \cap {"Deposited", "Posted"}

\* Mutant: every approval posts the accrual.
AccrualDueAlways(b) == b \in Bill
AccrualDue(b)       == ~bills[b].accrued

\* Mutant: a bill nobody approved yet is eligible for a voucher.
VoucherEligibleEarly(row) == row.status \in {"PENDING", "APPROVED", "PARTIAL"}
VoucherEligible(row)      == row.status \in {"APPROVED", "PARTIAL"}

\* Mutant: only cancelled vouchers are refused.
MayPayTwice(pv) == pv.status # "CANCELLED"
MayPay(pv)      == pv.status = "PENDING"

\* The search for reference REV-<t> among the first seen transactions.
\* Mutant: the reversal rows are looked for under another type.
ReversalExistsNot(t, seen) == \E i \in 1..seen : i < 1 /\ txns[i].reverses = t
ReversalExists(t, seen)    == \E i \in 1..seen : txns[i].reverses = t

\* No handler is in the middle of its work on bill b, if that is assumed.
MayStart(b) ==
    Exclusive => \A r \in Request : requests[r] # Idle => requests[r].bill # b
Free(r) == requests[r] = Idle
Start(r, request) == requests' = [requests EXCEPT ![r] = request]
Done(r) == requests' = [requests EXCEPT ![r] = Idle]

-----------------------------------------------------------------------------
Init ==
    /\ bills = [b \in Bill |->
                  [status  |-> IF b \in Legacy THEN "APPROVED" ELSE "ABSENT",
                   paid    |-> 0,
                   accrued |-> FALSE]]
    /\ vouchers = [v \in Voucher |-> [status |-> "ABSENT", gross |-> 0, tds |-> 0,
                                      retention |-> 0, txn |-> 0]]
    /\ txns = <<>>
    /\ ledger = [b \in Bill |-> [a \in Accounts |-> 0]]
    /\ tds = [b \in Bill |-> {}]
    /\ requests = [r \in Request |-> Idle]

CreateVendorBill(b) ==
    /\ bills[b].status = "ABSENT"
    /\ bills' = [bills EXCEPT ![b].status = "PENDING"]
    /\ UNCHANGED <<vouchers, txns, ledger, tds, requests>>

\* POST /vendor-bills/{id}/approve with status APPROVED: the accrual is posted
\* once, a bill that comes back to PENDING after a reversal keeps its journal.
ApproveVendorBill(b) ==
    /\ MayStart(b)
    /\ bills[b].status = "PENDING"
    /\ bills' = [bills EXCEPT ![b].status = "APPROVED", ![b].accrued = TRUE]
    /\ ledger' = IF AccrualDue(b)
                 THEN Posted(b, Posting(Total[b], 0, 0, 0, -Total[b]))
                 ELSE ledger
    /\ UNCHANGED <<vouchers, txns, tds, requests>>

RejectVendorBill(b) ==
    /\ MayStart(b)
    /\ bills[b].status = "PENDING"
    /\ bills' = [bills EXCEPT ![b].status = "REJECTED"]
    /\ UNCHANGED <<vouchers, txns, ledger, tds, requests>>

\* POST /vendor-bills/{id}/pay: only a bill without an accrual journal is paid
\* directly; PAID is admitted, the amount check then leaves nothing to pay.
PayVendorBill(b, amount) ==
    /\ MayStart(b)
    /\ bills[b].status \in {"APPROVED", "PARTIAL", "PAID"}
    /\ ~bills[b].accrued
    /\ amount <= Outstanding(b, bills[b])
    /\ Len(txns) < MaxTxn
    /\ LET paid  == bills[b].paid + amount
           lines == Posting(-amount, amount, 0, 0, 0)
       IN  /\ bills' = [bills EXCEPT ![b].paid = paid,
                                     ![b].status = SettledStatus(b, paid)]
           /\ txns' = Append(txns, [bill |-> b, origin |-> "direct", amount |-> amount,
                                    lines |-> lines, reverses |-> 0, cancels |-> 0])
           /\ ledger' = Posted(b, lines)
    /\ UNCHANGED <<vouchers, tds, requests>>

-----------------------------------------------------------------------------
(* POST /payments/vouchers: PaymentService.create_pending_voucher.  The bill   *)
(* is never locked; the number is one more than the largest the snapshot has,  *)
(* so of two overlapping creations the second fails on the unique column.      *)

BeginCreateVoucher(r, v, gross, withheld, retention) ==
    LET b == BillOf[v] IN
    /\ Free(r) /\ MayStart(b)
    /\ bills[b].status # "ABSENT"
    /\ v \notin Issued
    /\ Start(r, [op |-> "create_voucher", bill |-> b, voucher |-> v, gross |-> gross,
                 tds |-> withheld, retention |-> retention, billRow |-> bills[b],
                 issued |-> Issued])
    /\ UNCHANGED <<bills, vouchers, txns, ledger, tds>>

CommitCreateVoucher(r) ==
    LET q == requests[r] IN
    /\ q.op = "create_voucher"
    /\ VoucherEligible(q.billRow)
    /\ q.gross <= Outstanding(q.bill, q.billRow)
    /\ q.issued = Issued
    /\ vouchers' = [vouchers EXCEPT ![q.voucher] =
                      [status |-> "PENDING", gross |-> q.gross,
                       tds |-> q.tds, retention |-> q.retention, txn |-> 0]]
    /\ Done(r)
    /\ UNCHANGED <<bills, txns, ledger, tds>>

-----------------------------------------------------------------------------
(* POST /payments/vouchers/{id}/mark-paid and /cancel.  Both load voucher and  *)
(* bill before locking them and go on with the objects they loaded.            *)

BeginVoucherOp(r, op, v) ==
    LET b == BillOf[v] IN
    /\ Free(r) /\ MayStart(b)
    /\ v \in Issued
    /\ Start(r, [op |-> op, bill |-> b, voucher |-> v, billRow |-> bills[b],
                 voucherRow |-> vouchers[v], tdsRows |-> tds[b]])
    /\ UNCHANGED <<bills, vouchers, txns, ledger, tds>>

CommitMarkPaid(r) ==
    LET q     == requests[r]
        pv    == q.voucherRow
        paid  == q.billRow.paid + pv.gross
        net   == pv.gross - pv.tds - pv.retention
        lines == Posting(-pv.gross, net, pv.tds, pv.retention, 0)
    IN
    /\ q.op = "mark_paid"
    /\ MayPay(pv)
    /\ pv.gross <= Outstanding(q.bill, q.billRow)
    /\ Len(txns) < MaxTxn
    /\ txns' = Append(txns, [bill |-> q.bill, origin |-> "voucher", amount |-> net,
                             lines |-> lines, reverses |-> 0, cancels |-> 0])
    /\ ledger' = Posted(q.bill, lines)
    /\ tds' = IF pv.tds > 0 THEN [tds EXCEPT ![q.bill] = @ \cup {"PENDING"}] ELSE tds
    /\ vouchers' = [vouchers EXCEPT ![q.voucher] =
                      Flushed(@, pv, [pv EXCEPT !.status = "PAID", !.txn = Len(txns) + 1])]
    /\ bills' = [bills EXCEPT ![q.bill] =
                   Flushed(@, q.billRow, [q.billRow EXCEPT !.paid = paid,
                                          !.status = SettledStatus(q.bill, paid)])]
    /\ Done(r)

CommitCancelPending(r) ==
    LET q == requests[r] IN
    /\ q.op = "cancel"
    /\ q.voucherRow.status = "PENDING"
    /\ vouchers' = [vouchers EXCEPT ![q.voucher].status = "CANCELLED"]
    /\ Done(r)
    /\ UNCHANGED <<bills, txns, ledger, tds>>

\* The payment is taken back in full: swapped journal, negative transaction,
\* gross off amount_paid.  The TDS row the payment made stays.
CommitCancelPaid(r) ==
    LET q    == requests[r]
        pv   == q.voucherRow
        orig == txns[pv.txn]
        paid == q.billRow.paid - pv.gross
    IN
    /\ q.op = "cancel"
    /\ pv.status = "PAID"
    /\ pv.tds > 0 => Processed(q.tdsRows) = {}
    /\ pv.retention = 0
    /\ Len(txns) < MaxTxn
    /\ txns' = Append(txns, [orig EXCEPT !.amount = -orig.amount,
                                         !.lines = Swapped(orig.lines), !.cancels = pv.txn])
    /\ ledger' = Posted(q.bill, Swapped(orig.lines))
    /\ vouchers' = [vouchers EXCEPT ![q.voucher].status = "CANCELLED"]
    /\ bills' = [bills EXCEPT ![q.bill] =
                   Flushed(@, q.billRow,
                           [q.billRow EXCEPT !.paid = paid,
                            !.status = IF paid <= 0 THEN "APPROVED" ELSE "PARTIAL"])]
    /\ Done(r)
    /\ UNCHANGED tds

-----------------------------------------------------------------------------
(* POST /vendor-bills/{id}/reverse-payment/{txn}: the transaction row is       *)
(* locked, the bill and the search for an earlier reversal are snapshot reads. *)
(* Any payment row qualifies: a direct payment, a voucher's, a reversal.       *)

BeginReverse(r, t) ==
    LET b == txns[t].bill IN
    /\ Free(r) /\ MayStart(b)
    /\ Start(r, [op |-> "reverse", bill |-> b, txn |-> t, billRow |-> bills[b],
                 tdsRows |-> tds[b], seen |-> Len(txns)])
    /\ UNCHANGED <<bills, vouchers, txns, ledger, tds>>

CommitReverse(r) ==
    LET q    == requests[r]
        orig == txns[q.txn]
        left == q.billRow.paid - orig.amount
        paid == IF left < 0 THEN 0 ELSE left
    IN
    /\ q.op = "reverse"
    /\ Processed(q.tdsRows) = {}
    /\ ~ReversalExists(q.txn, q.seen)
    /\ Len(txns) < MaxTxn
    /\ txns' = Append(txns, [orig EXCEPT !.amount = -orig.amount,
                             !.lines = Swapped(orig.lines), !.reverses = q.txn,
                             !.cancels = 0])
    /\ ledger' = Posted(q.bill, Swapped(orig.lines))
    /\ bills' = [bills EXCEPT ![q.bill] =
                   Flushed(@, q.billRow,
                           [q.billRow EXCEPT !.paid = paid,
                            !.status = IF paid = 0 THEN "PENDING"
                                       ELSE SettledStatus(q.bill, paid)])]
    /\ Done(r)
    /\ UNCHANGED <<vouchers, tds>>

-----------------------------------------------------------------------------
(* The accountant's own TDS rows (accountant.py).  Bound: one row per status.  *)

BeginCreateTDS(r, b, s, amount) ==
    /\ Free(r) /\ MayStart(b)
    /\ bills[b].status # "ABSENT"
    /\ Start(r, [op |-> "create_tds", bill |-> b, status |-> s, amount |-> amount,
                 tdsRows |-> tds[b]])
    /\ UNCHANGED <<bills, vouchers, txns, ledger, tds>>

CommitCreateTDS(r) ==
    LET q == requests[r] IN
    /\ q.op = "create_tds"
    /\ q.tdsRows = {}
    /\ q.status \notin tds[q.bill]
    /\ tds' = [tds EXCEPT ![q.bill] = @ \cup {q.status}]
    /\ ledger' = IF q.status = "Posted"
                 THEN Posted(q.bill, Posting(-q.amount, 0, q.amount, 0, 0))
                 ELSE ledger
    /\ Done(r)
    /\ UNCHANGED <<bills, vouchers, txns>>

\* PATCH and DELETE: a Posted row and a PENDING row of a bill are frozen.
UpdateTDS(b, s) ==
    /\ MayStart(b)
    /\ \E old \in tds[b] \ {"PENDING", "Posted"} :
         /\ s # "Posted" /\ s \notin tds[b]
         /\ tds' = [tds EXCEPT ![b] = (@ \ {old}) \cup {s}]
    /\ UNCHANGED <<bills, vouchers, txns, ledger, requests>>

DeleteTDS(b) ==
    /\ MayStart(b)
    /\ \E old \in tds[b] \ {"PENDING", "Posted"} : tds' = [tds EXCEPT ![b] = @ \ {old}]
    /\ UNCHANGED <<bills, vouchers, txns, ledger, requests>>

\* A handler that raises (a failed check, a missing account, a lost connection,
\* a killed worker) leaves nothing behind: get_db_session rolls back.
Abort(r) ==
    /\ ~Free(r)
    /\ Done(r)
    /\ UNCHANGED <<bills, vouchers, txns, ledger, tds>>

-----------------------------------------------------------------------------
BillStep ==
    \E b \in Bill :
        \/ CreateVendorBill(b) \/ ApproveVendorBill(b) \/ RejectVendorBill(b)
        \/ \E amount \in Amount : PayVendorBill(b, amount)
        \/ \E s \in ManualTDS : UpdateTDS(b, s)
        \/ DeleteTDS(b)

Begin(r) ==
    \/ \E v \in Voucher, gross \in Amount, withheld, retention \in Withheld :
           BeginCreateVoucher(r, v, gross, withheld, retention)
    \/ \E v \in Voucher, op \in {"mark_paid", "cancel"} : BeginVoucherOp(r, op, v)
    \/ \E t \in 1..Len(txns) : BeginReverse(r, t)
    \/ \E b \in Bill, s \in ManualTDS, amount \in Withheld : BeginCreateTDS(r, b, s, amount)

Commit(r) ==
    \/ CommitCreateVoucher(r) \/ CommitMarkPaid(r) \/ CommitCancelPending(r)
    \/ CommitCancelPaid(r) \/ CommitReverse(r) \/ CommitCreateTDS(r)

Next == BillStep \/ \E r \in Request : Begin(r) \/ Commit(r) \/ Abort(r)

Spec == Init /\ [][Next]_vars

-----------------------------------------------------------------------------
(* Correctness. *)

TypeOK ==
    /\ bills \in [Bill -> BillRow]
    /\ vouchers \in [Voucher -> VoucherRow]
    /\ txns \in Seq(TxnRow)
    /\ ledger \in [Bill -> Lines]
    /\ tds \in [Bill -> SUBSET TDSStatus]
    /\ requests \in [Request -> RequestState]

\* The cost of a bill reaches the ledger exactly once, when accrued_journal_id
\* is set, however often the bill is approved, reversed and approved again
\* (approve_vendor_bill).
ExpenseRecognisedOnce ==
    \A b \in Bill : ledger[b]["expense"] = IF bills[b].accrued THEN -Total[b] ELSE 0

\* What the transactions table says was paid for a bill is what its journals
\* moved on the bank account, through payments, cancellations and reversals
\* that may overlap (mark_paid, cancel, pay_vendor_bill, reverse_vendor_payment).
CashBook(b) == [i \in DOMAIN txns |-> IF txns[i].bill = b THEN txns[i].amount ELSE 0]
CashBookMatchesBank == \A b \in Bill : ledger[b]["bank"] = TotalOf(CashBook(b))

\* A bill of the accrual era is payable, and money moves for it, only once its
\* accrual is posted, whatever stale status a reversal writes back.
PaidOnlyWhenAccrued ==
    \A b \in Bill \ Legacy :
        \/ bills[b].accrued
        \/ /\ bills[b].status \in {"ABSENT", "PENDING", "REJECTED"}
           /\ \A i \in 1..Len(txns) : txns[i].bill # b

\* Every payment a voucher made belongs to exactly one voucher, which is PAID or
\* was CANCELLED with the payment taken back: no voucher pays twice (mark_paid).
IsVoucherPayment(t) ==
    txns[t].origin = "voucher" /\ txns[t].reverses = 0 /\ txns[t].cancels = 0
EveryPaymentOwned ==
    \A t \in {i \in 1..Len(txns) : IsVoucherPayment(i)} :
        \E v \in Voucher :
            /\ vouchers[v].txn = t
            /\ \/ vouchers[v].status = "PAID"
               \/ /\ vouchers[v].status = "CANCELLED"
                  /\ \E i \in 1..Len(txns) : txns[i].cancels = t

\* A transaction is reversed at most once (reverse_vendor_payment).
ReversedOnce ==
    \A i, j \in 1..Len(txns) :
        txns[i].reverses = txns[j].reverses /\ txns[i].reverses # 0 => i = j

\* A transaction is taken back at most once, by a reversal or by a cancellation.
UndoneOnce ==
    \A i, j \in 1..Len(txns) :
        txns[i].reverses # 0 => txns[i].reverses # txns[j].cancels

\* A payment whose TDS was deposited or posted is not taken back any more
\* (the TDS checks of cancel and reverse_vendor_payment).
RemittedTDSNotUndone ==
    [][ \A b \in Bill :
          (/\ Len(txns') > Len(txns)
           /\ LET t == txns'[Len(txns')]
              IN  t.bill = b /\ (t.reverses # 0 \/ (t.cancels # 0 /\ t.lines["tds"] # 0)))
          => tds[b] \subseteq {"PENDING", "Pending"} ]_vars

\* reverse-payment takes a voucher's net amount off the bill and leaves the
\* voucher PAID, so the books of a bill are compared only while it was not
\* turned on a voucher's payment.
NoVoucherReversal(b) ==
    \A i \in 1..Len(txns) :
        txns[i].bill = b /\ txns[i].reverses # 0 => txns[i].origin = "direct"

\* The subledger is the ledger: amount_paid is what the payable account says was
\* settled of the accrued total, for every bill no manual TDS posting touched.
SubledgerMatchesPayable ==
    \A b \in Bill :
        NoVoucherReversal(b) /\ "Posted" \notin tds[b] =>
            ledger[b]["payable"] = (IF bills[b].accrued THEN Total[b] ELSE 0) - bills[b].paid

\* amount_paid stays within the bill and the status says how much of it is paid,
\* for a bill whose reversals all took back a direct payment.
StatusMatchesPaid ==
    \A b \in Bill :
        (/\ NoVoucherReversal(b)
         /\ \A i \in 1..Len(txns) :
                txns[i].bill = b /\ txns[i].reverses # 0 => txns[txns[i].reverses].reverses = 0)
        => CASE bills[b].status = "PARTIAL" -> 0 < bills[b].paid /\ bills[b].paid < Total[b]
             [] bills[b].status = "PAID"    -> bills[b].paid = Total[b]
             [] OTHER                       -> bills[b].paid = 0

\* Ledger, paid amount and status of a bill say the same (vendor_bills.py,
\* payment_service.py).
SubledgerAgrees == SubledgerMatchesPayable /\ StatusMatchesPaid

=============================================================================
