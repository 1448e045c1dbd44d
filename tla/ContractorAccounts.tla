------------------------- MODULE ContractorAccounts -------------------------
(***************************************************************************)
(* What a contractor is owed and has been paid: the contractor's own totals *)
(* (app/api/contractor.py), the payables of RA bills                        *)
(* (app/api/accountant.py) and the bills' own pay route                     *)
(* (app/api/billing.py).                                                    *)
(*                                                                         *)
(* No handler takes a lock.  The three places know nothing of each other: a *)
(* contractor's payment touches no bill, a bill set to Paid by its own      *)
(* route has no transaction, and stays payable.                             *)
(***************************************************************************)
EXTENDS Integers, FiniteSets, Sums

CONSTANTS
    ContractorBill,  \* RA bills of the contractor
    BillAmount,      \* total_amount of each bill
    Work,            \* values of total_work_assigned
    Part,            \* amounts that are paid
    JoinedProject,   \* projects the contractor is assigned to
    Paying,          \* slots of payments that overlap others
    MaxPayments      \* bound: the contractor's own payments

ASSUME ContractorAssumption ==
    BillAmount \in Nat \ {0} /\ Work \subseteq Nat /\ Part \subseteq Nat \ {0}
    /\ MaxPayments \in Nat /\ IsFiniteSet(Paying)

VARIABLES
    contractor,      \* total_work_assigned and payment_given
    joined,          \* contractor_projects
    spent,           \* expenses of category Contractor, and the owner's debits with them
    payables,        \* RA bills: status, transactions ra:<id>, what they debit to the payable
    paying,          \* the view an overlapping payment has taken
    raced,           \* history: bills, or the contractor, paid on an old view
    most             \* history: the most work ever assigned

contractorVars == <<contractor, joined, spent, payables, paying, raced, most>>

NoContractor == [total |-> -1, given |-> 0]
ContractorRow == [total : Nat, given : Nat]
PayableStatus == {"none", "Draft", "Submitted", "Approved", "Partial", "Paid"}
\* A bill is paid in full at most, and once more by each payment with an old view.
MostPaid == BillAmount * (Cardinality(Paying) + 1)
PayableRow == [status : PayableStatus, paid : 0..MostPaid, booked : 0..MostPaid, set : BOOLEAN]

Owed2 == [contractor |-> contractor, payables |-> payables]
NotOwed == [contractor |-> NoContractor]

ContractorsInit ==
    /\ contractor = NoContractor
    /\ joined = {}
    /\ spent = 0
    /\ payables = [b \in ContractorBill |->
           [status |-> "none", paid |-> 0, booked |-> 0, set |-> FALSE]]
    /\ paying = [r \in Paying |-> NotOwed]
    /\ raced = {}
    /\ most = 0

-----------------------------------------------------------------------------
CreateContractor(n) ==
    /\ contractor = NoContractor
    /\ contractor' = [total |-> n, given |-> 0]
    /\ most' = n
    /\ UNCHANGED <<joined, spent, payables, paying, raced>>
UpdateContractor(n) ==
    /\ contractor # NoContractor
    /\ contractor' = [contractor EXCEPT !.total = n]
    /\ most' = IF n > most THEN n ELSE most
    /\ UNCHANGED <<joined, spent, payables, paying, raced>>
\* Bills refer to the contractor.
DeleteContractor ==
    /\ contractor # NoContractor /\ contractor.given = 0
    /\ \A b \in ContractorBill : payables[b].status = "none"
    /\ \A r \in Paying : paying[r] = NotOwed
    /\ contractor' = NoContractor /\ joined' = {} /\ most' = 0
    /\ UNCHANGED <<spent, payables, paying, raced>>
AssignProject(j) ==
    /\ contractor # NoContractor /\ j \notin joined
    /\ joined' = joined \cup {j}
    /\ UNCHANGED <<contractor, spent, payables, paying, raced, most>>

\* Mutant: only what this payment adds is compared.
WithinEach(n, row) == n <= row.total
WithinWork(n, row) == row.given + n <= row.total
\* The contractor's own payment: the total given, an expense and the owner's debit.
PayContractor(n, view) ==
    /\ view.contractor # NoContractor
    /\ WithinWork(n, view.contractor)
    /\ spent + n <= MaxPayments
    /\ contractor' = [contractor EXCEPT !.given = view.contractor.given + n]
    /\ spent' = spent + n
    /\ raced' = IF view.contractor = contractor THEN raced ELSE raced \cup {"contractor"}
    /\ UNCHANGED <<joined, payables, most>>

-----------------------------------------------------------------------------
SetBill(b, from, to, hand) ==
    /\ contractor # NoContractor
    /\ payables[b].status = from
    /\ payables' = [payables EXCEPT ![b].status = to, ![b].set = @ \/ hand]
    /\ UNCHANGED <<contractor, joined, spent, paying, raced, most>>
CreateBill(b) == SetBill(b, "none", "Draft", FALSE)
SubmitBill(b) == SetBill(b, "Draft", "Submitted", FALSE)
ApproveBill(b) == SetBill(b, "Submitted", "Approved", FALSE)
PayBill(b) == SetBill(b, "Approved", "Paid", TRUE)

Pending2(row) == BillAmount - row.paid
\* Mutant: the amount is compared with the whole bill.
PayableWhole(n, row) == row.status \in {"Approved", "Partial", "Paid"} /\ n <= BillAmount
Payable2(n, row) == row.status \in {"Approved", "Partial", "Paid"} /\ n <= Pending2(row)
\* Mutant: any payment settles the bill.
SettledAny(paid) == "Paid"
Settled2(paid) == IF paid = BillAmount THEN "Paid" ELSE "Partial"
PayPayable(b, n, view) ==
    /\ view.contractor # NoContractor
    /\ Payable2(n, view.payables[b])
    /\ payables' = [payables EXCEPT
           ![b].paid = @ + n, ![b].booked = @ + n,
           ![b].status = Settled2(view.payables[b].paid + n)]
    /\ raced' = IF view.payables[b] = payables[b] THEN raced ELSE raced \cup {b}
    /\ UNCHANGED <<contractor, joined, spent, most>>

BeginPayment(r) ==
    /\ paying[r] = NotOwed /\ contractor # NoContractor
    /\ paying' = [paying EXCEPT ![r] = Owed2]
    /\ UNCHANGED <<contractor, joined, spent, payables, raced, most>>
CommitPayment(r) ==
    /\ paying[r] # NotOwed
    /\ \E n \in Part :
        PayContractor(n, paying[r]) \/ \E b \in ContractorBill : PayPayable(b, n, paying[r])
    /\ paying' = [paying EXCEPT ![r] = NotOwed]

ContractorsNext ==
    \/ \E n \in Work : CreateContractor(n) \/ UpdateContractor(n)
    \/ DeleteContractor
    \/ \E j \in JoinedProject : AssignProject(j)
    \/ \E b \in ContractorBill : CreateBill(b) \/ SubmitBill(b) \/ ApproveBill(b) \/ PayBill(b)
    \/ \E n \in Part :
        (PayContractor(n, Owed2) \/ \E b \in ContractorBill : PayPayable(b, n, Owed2))
        /\ UNCHANGED paying
    \/ \E r \in Paying : BeginPayment(r) \/ CommitPayment(r)
ContractorsSpec == ContractorsInit /\ [][ContractorsNext]_contractorVars

ContractorsTypeOK ==
    /\ contractor \in {NoContractor} \cup ContractorRow /\ joined \subseteq JoinedProject
    /\ payables \in [ContractorBill -> PayableRow]
    /\ raced \subseteq ContractorBill \cup {"contractor"} /\ most \in Nat

-----------------------------------------------------------------------------
(* The views of a bill.                                                      *)
\* list_payables
PayableListed(b) ==
    IF Pending2(payables[b]) = 0 THEN "paid" ELSE IF payables[b].paid > 0 THEN "partial" ELSE "pending"
\* outstanding_payables
Outstanding == {b \in ContractorBill : Pending2(payables[b]) > 0}
\* payable_summary
PendingOf(bills) == TotalOf([b \in bills |-> Pending2(payables[b])])
PendingTotal == PendingOf(ContractorBill)
\* billing_vs_payments_reconciliation: a bill is paid when its status says so
ReconciledPaid(b) == IF payables[b].status = "Paid" THEN BillAmount ELSE 0
\* contractor_dashboard: pending, approved and paid; a Partial bill is in none of them
DashboardOf(b) ==
    CASE payables[b].status \in {"Draft", "Submitted"} -> "pending"
      [] payables[b].status = "Approved" -> "approved"
      [] payables[b].status = "Paid" -> "paid"
      [] OTHER -> "none"
\* contractor_payments, the pending report and work summary
PaymentPending == contractor.total - contractor.given
PendingReported == PaymentPending > 0

\* Unless overlapping payments wrote it, a bill is never paid beyond its amount,
\* is Paid when its transactions say so or someone set it, and the reports agree:
\* one is outstanding until it is listed as paid, and the summary adds them up.
BillsPaidOnce ==
    \A b \in ContractorBill \ raced :
        LET row == payables[b] IN
        /\ row.paid <= BillAmount /\ row.booked = row.paid
        /\ (PayableListed(b) = "paid" <=> b \notin Outstanding)
        /\ (row.status = "Partial" => PayableListed(b) = "partial" /\ DashboardOf(b) = "none")
        /\ ~row.set => (row.status = "Paid" <=> PayableListed(b) = "paid")
                       /\ (ReconciledPaid(b) <= row.paid)
        /\ raced \cap ContractorBill = {} =>
            PendingTotal = PendingOf(Outstanding)

\* The contractor has been given what was booked, and no more than the most work
\* assigned, unless overlapping payments wrote over one another.
GivenIsBooked ==
    "contractor" \notin raced /\ contractor # NoContractor =>
        /\ contractor.given = spent
        /\ contractor.given <= most
        /\ (PendingReported <=> contractor.given < contractor.total)
=============================================================================
