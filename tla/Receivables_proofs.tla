------------------------- MODULE Receivables_proofs -------------------------
(***************************************************************************)
(* Proofs about Receivables, for any number of invoices, payments, requests  *)
(* and amounts.  Inv keeps the rows typed, the references distinct and no    *)
(* invoice overpaid; MoneyInv adds that receipts, payments and invoices say  *)
(* the same; over both, what payments claim stays covered.  One lemma per    *)
(* step, each from what the step does to the rows it writes.                 *)
(***************************************************************************)
EXTENDS Receivables, FiniteSetTheorems, SequenceTheorems, TLAPS

\* The parts of TypeOK the proofs rest on.
Typed ==
    /\ invoices \in [Invoice -> InvoiceRow \cup {Absent, Deleted}]
    /\ payments \in [Payment -> PaymentRow \cup {Absent, Deleted}]
    /\ requests \in [Request -> RequestState]

LEMMA TypedInit == Init => Typed
BY DEF Init, Typed, RequestState

\* Which records an existing row is.
LEMMA LiveRow ==
    ASSUME Typed, NEW i \in Invoice, Live(i)
    PROVE  invoices[i] \in InvoiceRow
BY DEF Typed, Live, InvoiceStatus, Absent, Deleted

LEMMA ExistingRow ==
    ASSUME Typed, NEW p \in Payment, Exists(p)
    PROVE  payments[p] \in PaymentRow
BY DEF Typed, Exists, PaymentStatus, Unverified, Absent, Deleted

LEMMA RemainderNat ==
    ASSUME NEW total \in Nat, NEW paid \in Nat
    PROVE  /\ Remainder(total, paid) \in Nat
           /\ paid <= total => Remainder(total, paid) = total - paid
BY DEF Remainder

\* A receipt within the row's pending amount and total keeps the row sound.
Sound(row) == row.paid <= row.total /\ row.pending = row.total - row.paid

LEMMA ReceivedSound ==
    ASSUME NEW row \in InvoiceRow, NEW amount \in Nat, Receivable(row, amount)
    PROVE  Received(row, amount) \in InvoiceRow /\ Sound(Received(row, amount))
<1>1. row.paid + amount \in Nat /\ row.total \in Nat /\ row.paid + amount <= row.total
      BY DEF InvoiceRow, Receivable
<1>2. Remainder(row.total, row.paid + amount) = row.total - (row.paid + amount)
      BY <1>1, RemainderNat
<1>3. PICK status \in InvoiceStatus :
          Received(row, amount) =
              [row EXCEPT !.paid = row.paid + amount,
                          !.pending = row.total - (row.paid + amount), !.status = status]
      BY <1>2 DEF Received, InvoiceStatus
<1>4. row.total - (row.paid + amount) \in Nat
      BY <1>1
<1> QED BY <1>1, <1>3, <1>4 DEF InvoiceRow, Sound

-----------------------------------------------------------------------------
(* One lemma per step on how the rows change; the invariants follow.         *)

Inv == Typed /\ NeverOverpaid /\ ReferencesDistinct

LEMMA InitInv == Init => Inv
<1> SUFFICES ASSUME Init PROVE Inv
    OBVIOUS
<1>1. Typed
      BY TypedInit
<1>2. \A i \in Invoice : ~Live(i)
      BY DEF Init, Live, InvoiceStatus, Absent
<1>3. Blocking = {}
      BY DEF Init, Blocking, Unverified, Absent
<1> QED BY <1>1, <1>2, <1>3 DEF Inv, NeverOverpaid, ReferencesDistinct

\* Steps that leave the payments' references alone, and free some at most.
LEMMA KeepsReferences ==
    ASSUME ReferencesDistinct,
           \A p \in Payment : p \in Blocking' => p \in Blocking /\ payments'[p].via = payments[p].via
    PROVE  ReferencesDistinct'
<1> SUFFICES ASSUME NEW p \in Blocking', NEW q \in Blocking',
                    payments'[p].via = payments'[q].via, payments'[p].via \in Reference
             PROVE  p = q
    BY DEF ReferencesDistinct
<1>1. p \in Payment /\ q \in Payment
      BY DEF Blocking
<1>2. p \in Blocking /\ q \in Blocking
      /\ payments'[p].via = payments[p].via /\ payments'[q].via = payments[q].via
      BY <1>1
<1> QED BY <1>2 DEF ReferencesDistinct

\* Steps that give one payment a reference no other holds.
LEMMA TakesReference ==
    ASSUME ReferencesDistinct, NEW p \in Payment, NEW via, Unused(via, p),
           \A q \in Payment \ {p} : payments'[q] = payments[q],
           p \in Blocking' => \/ payments'[p].via = via
                              \/ p \in Blocking /\ payments'[p].via = payments[p].via
    PROVE  ReferencesDistinct'
<1> SUFFICES ASSUME NEW a \in Blocking', NEW b \in Blocking', a # b,
                    payments'[a].via = payments'[b].via, payments'[a].via \in Reference
             PROVE  FALSE
    BY DEF ReferencesDistinct
<1>1. a \in Payment /\ b \in Payment
      BY DEF Blocking
<1>2. \A q \in Payment \ {p} : q \in Blocking' => q \in Blocking
      BY DEF Blocking
<1>3. CASE a # p /\ b # p
      BY <1>1, <1>2, <1>3 DEF ReferencesDistinct
<1>4. CASE a = p
      BY <1>1, <1>2, <1>4 DEF ReferencesDistinct, Unused
<1>5. CASE b = p
      BY <1>1, <1>2, <1>5 DEF ReferencesDistinct, Unused
<1> QED BY <1>3, <1>4, <1>5

\* Steps that write the row of one invoice and keep it sound or mark it stale.
LEMMA KeepsSound ==
    ASSUME NeverOverpaid, NEW i \in Invoice, stale \subseteq stale',
           \A j \in Invoice \ {i} : invoices'[j] = invoices[j],
           Live(i)' => i \in stale' \/ Sound(invoices'[i])
    PROVE  NeverOverpaid'
BY DEF NeverOverpaid, Live, Sound

LEMMA KeepsInvoices ==
    ASSUME NeverOverpaid, stale \subseteq stale', invoices' = invoices
    PROVE  NeverOverpaid'
BY DEF NeverOverpaid, Live

\* A step that updates one payment, from a snapshot or under its lock.
LEMMA StepUpdatePayment ==
    ASSUME Inv, NEW r \in Request, NEW i \in Invoice, NEW amount \in Amount, NEW via \in Via,
           CommitUpdatePayment(r, i, amount, via)
    PROVE  Inv'
<1> DEFINE q == requests[r]
           p == q.payment
           row == Flushed(payments[p], q.row,
                          [q.row EXCEPT !.invoice = i, !.amount = amount, !.via = via])
<1>1. p \in Payment /\ q.row \in PaymentRow
      BY DEF Inv, Typed, CommitUpdatePayment, RequestState, Idle
<1>2. payments[p] \in PaymentRow
      BY <1>1, ExistingRow DEF Inv, CommitUpdatePayment
<1>3. row \in PaymentRow /\ row.status = payments[p].status
      /\ (row.via = payments[p].via \/ row.via = via)
      <2>1. amount \in Nat
            BY AmountAssumption
      <2> QED BY <1>1, <1>2, <2>1 DEF Flushed, PaymentRow
<1>4. payments' = [payments EXCEPT ![p] = row] /\ Unused(via, p) /\ invoices' = invoices
      BY DEF CommitUpdatePayment
<1>5. Typed'
      BY <1>1, <1>3, <1>4 DEF Inv, Typed, CommitUpdatePayment, Done, RequestState
<1>6. ReferencesDistinct'
      <2>1. payments'[p] = row /\ \A x \in Payment \ {p} : payments'[x] = payments[x]
            BY <1>1, <1>4 DEF Inv, Typed
      <2>2. p \in Blocking' => p \in Blocking
            BY <1>1, <1>3, <2>1 DEF Blocking
      <2> QED BY <1>1, <1>3, <1>4, <2>1, <2>2, TakesReference DEF Inv
<1>7. NeverOverpaid'
      <2>1. stale \subseteq stale'
            BY DEF CommitUpdatePayment, Outdated
      <2> QED BY <1>4, <2>1, KeepsInvoices DEF Inv
<1> QED BY <1>5, <1>6, <1>7 DEF Inv

LEMMA StepApprove ==
    ASSUME Inv, NEW r \in Request, CommitApprove(r)
    PROVE  Inv'
<1> DEFINE p == requests[r].payment
           i == requests[r].invoice
           amount == payments[p].amount
<1>1. p \in Payment /\ i \in Invoice
      BY DEF Inv, Typed, CommitApprove, RequestState, Idle
<1>2. payments[p] \in PaymentRow /\ payments[p].status = "VERIFICATION_PENDING"
      <2>1. Exists(p)
            BY DEF CommitApprove, AwaitsVerification, Exists, PaymentStatus, Unverified
      <2> QED BY <1>1, <2>1, ExistingRow DEF Inv, CommitApprove, AwaitsVerification
<1>3. invoices[i] \in InvoiceRow
      BY <1>1, LiveRow DEF Inv, CommitApprove
<1>4. Received(invoices[i], amount) \in InvoiceRow /\ Sound(Received(invoices[i], amount))
      <2>1. amount \in Nat
            BY <1>2 DEF PaymentRow
      <2>2. Receivable(invoices[i], amount)
            BY DEF CommitApprove
      <2> QED BY <1>3, <2>1, <2>2, ReceivedSound
<1>5. /\ invoices' = [invoices EXCEPT ![i] = Received(invoices[i], amount)]
      /\ payments' = [payments EXCEPT ![p].status = "SUCCESS"]
      BY DEF CommitApprove
<1>6. Typed'
      <2>1. invoices' \in [Invoice -> InvoiceRow \cup {Absent, Deleted}]
            BY <1>1, <1>4, <1>5 DEF Inv, Typed
      <2>2. [payments[p] EXCEPT !.status = "SUCCESS"] \in PaymentRow
            BY <1>2 DEF PaymentRow, PaymentStatus
      <2>3. payments' \in [Payment -> PaymentRow \cup {Absent, Deleted}]
            BY <1>1, <1>5, <2>2 DEF Inv, Typed
      <2> QED BY <2>1, <2>3 DEF Inv, Typed, CommitApprove, Done, RequestState
<1>7. ReferencesDistinct'
      <2>1. \A x \in Payment : x \in Blocking' => x \in Blocking
                                              /\ payments'[x].via = payments[x].via
            BY <1>1, <1>2, <1>5 DEF Inv, Typed, Blocking, Unverified, PaymentRow
      <2> QED BY <2>1, KeepsReferences DEF Inv
<1>8. NeverOverpaid'
      <2>1. stale \subseteq stale'
            BY DEF CommitApprove, Outdated
      <2>2. invoices'[i] = Received(invoices[i], amount)
            /\ \A j \in Invoice \ {i} : invoices'[j] = invoices[j]
            BY <1>1, <1>5 DEF Inv, Typed
      <2> QED BY <1>1, <1>4, <2>1, <2>2, KeepsSound DEF Inv
<1> QED BY <1>6, <1>7, <1>8 DEF Inv

LEMMA StepUpdateInvoice ==
    ASSUME Inv, NEW r \in Request, NEW total \in Total, CommitUpdateInvoice(r, total)
    PROVE  Inv'
<1> DEFINE q == requests[r]
           i == q.invoice
           pending == Remainder(total, q.row.paid)
           row == Flushed(invoices[i], q.row, [q.row EXCEPT !.total = total, !.pending = pending])
<1>1. i \in Invoice /\ q.row \in InvoiceRow
      BY DEF Inv, Typed, CommitUpdateInvoice, RequestState, Idle
<1>2. invoices[i] \in InvoiceRow
      BY <1>1, LiveRow DEF Inv, CommitUpdateInvoice
<1>3. total \in Nat /\ q.row.paid \in Nat /\ q.row.paid <= total
      BY <1>1, TotalAssumption DEF InvoiceRow, CommitUpdateInvoice, CoversPaid
<1>4. pending \in Nat /\ pending = total - q.row.paid
      BY <1>3, RemainderNat
<1>5. row \in InvoiceRow
      /\ (invoices[i] = q.row => row = [q.row EXCEPT !.total = total, !.pending = pending])
      BY <1>1, <1>2, <1>3, <1>4 DEF Flushed, InvoiceRow
<1>6. invoices' = [invoices EXCEPT ![i] = row] /\ payments' = payments
      BY DEF CommitUpdateInvoice
<1>7. Typed'
      BY <1>1, <1>5, <1>6 DEF Inv, Typed, CommitUpdateInvoice, Done, RequestState
<1>8. ReferencesDistinct'
      BY <1>6, KeepsReferences DEF Inv, Blocking
<1>9. NeverOverpaid'
      <2>1. stale \subseteq stale' /\ (invoices[i] # q.row => i \in stale')
            BY DEF CommitUpdateInvoice, Outdated
      <2>2. invoices'[i] = row /\ \A j \in Invoice \ {i} : invoices'[j] = invoices[j]
            BY <1>1, <1>6 DEF Inv, Typed
      <2>3. invoices[i] = q.row => Sound(row)
            BY <1>1, <1>3, <1>4, <1>5 DEF Sound, InvoiceRow
      <2> QED BY <1>1, <2>1, <2>2, <2>3, KeepsSound DEF Inv
<1> QED BY <1>7, <1>8, <1>9 DEF Inv

-----------------------------------------------------------------------------
(* The steps of one invoice and the steps of one payment.                    *)

LEMMA StepInvoice ==
    ASSUME Inv, NEW i \in Invoice, InvoiceStep(i)
    PROVE  Inv'
<1>1. ASSUME NEW total \in Total, CreateInvoice(i, total) PROVE Inv'
      <2> DEFINE row == [status |-> "pending", total |-> total, paid |-> 0, pending |-> total]
      <2>1. row \in InvoiceRow /\ Sound(row)
            BY TotalAssumption DEF InvoiceRow, InvoiceStatus, Sound
      <2>2. invoices' = [invoices EXCEPT ![i] = row] /\ UNCHANGED <<payments, requests, stale>>
            BY <1>1 DEF CreateInvoice
      <2>3. Typed'
            BY <2>1, <2>2 DEF Inv, Typed
      <2>4. ReferencesDistinct'
            BY <2>2, KeepsReferences DEF Inv, Blocking
      <2>5. invoices'[i] = row /\ \A j \in Invoice \ {i} : invoices'[j] = invoices[j]
            BY <2>2 DEF Inv, Typed
      <2>6. NeverOverpaid'
            BY <2>1, <2>2, <2>5, KeepsSound DEF Inv
      <2> QED BY <2>3, <2>4, <2>6 DEF Inv
<1>2. ASSUME DeleteInvoice(i) PROVE Inv'
      <2>1. /\ invoices' = [invoices EXCEPT ![i] = Deleted]
            /\ payments' = [p \in Payment |-> IF Exists(p) /\ payments[p].invoice = i
                                              THEN Deleted ELSE payments[p]]
            /\ UNCHANGED <<requests, stale>>
            BY <1>2 DEF DeleteInvoice
      <2>2. Typed'
            BY <2>1 DEF Inv, Typed
      <2>3. \A p \in Payment : p \in Blocking' => p \in Blocking
                                              /\ payments'[p].via = payments[p].via
            BY <2>1 DEF Blocking, Deleted, Unverified
      <2>4. ReferencesDistinct'
            BY <2>3, KeepsReferences DEF Inv
      <2>5. invoices'[i] = Deleted /\ \A j \in Invoice \ {i} : invoices'[j] = invoices[j]
            BY <2>1 DEF Inv, Typed
      <2>6. ~Live(i)'
            BY <2>5 DEF Live, Deleted, InvoiceStatus
      <2>7. NeverOverpaid'
            BY <2>1, <2>5, <2>6, KeepsSound DEF Inv
      <2> QED BY <2>2, <2>4, <2>7 DEF Inv
<1>3. ASSUME NEW amount \in Amount, PayInvoice(i, amount) PROVE Inv'
      <2>1. invoices[i] \in InvoiceRow
            BY <1>3, LiveRow DEF Inv, PayInvoice
      <2>2. Received(invoices[i], amount) \in InvoiceRow /\ Sound(Received(invoices[i], amount))
            <3>1. amount \in Nat
                  BY AmountAssumption
            <3> QED BY <1>3, <2>1, <3>1, ReceivedSound DEF PayInvoice
      <2>3. /\ invoices' = [invoices EXCEPT ![i] = Received(invoices[i], amount)]
            /\ UNCHANGED <<payments, requests, stale>>
            BY <1>3 DEF PayInvoice
      <2>4. Typed'
            BY <2>2, <2>3 DEF Inv, Typed
      <2>5. ReferencesDistinct'
            BY <2>3, KeepsReferences DEF Inv, Blocking
      <2>6. invoices'[i] = Received(invoices[i], amount)
            /\ \A j \in Invoice \ {i} : invoices'[j] = invoices[j]
            BY <2>3 DEF Inv, Typed
      <2>7. NeverOverpaid'
            BY <2>2, <2>3, <2>6, KeepsSound DEF Inv
      <2> QED BY <2>4, <2>5, <2>7 DEF Inv
<1>4. ASSUME MarkPaid(i) PROVE Inv'
      <2> DEFINE row == [invoices[i] EXCEPT !.paid = invoices[i].paid + invoices[i].pending,
                                      !.pending = 0, !.status = "paid"]
      <2>1. invoices[i] \in InvoiceRow
            BY <1>4, LiveRow DEF Inv, MarkPaid
      <2>2. row \in InvoiceRow
            <3>1. invoices[i].paid + invoices[i].pending \in Nat
                  BY <2>1 DEF InvoiceRow
            <3> QED BY <2>1, <3>1 DEF InvoiceRow, InvoiceStatus
      <2>3. invoices' = [invoices EXCEPT ![i] = row] /\ UNCHANGED <<payments, requests, stale>>
            BY <1>4 DEF MarkPaid, Inv, Typed
      <2>4. Typed'
            BY <2>2, <2>3 DEF Inv, Typed
      <2>5. ReferencesDistinct'
            BY <2>3, KeepsReferences DEF Inv, Blocking
      <2>6. invoices'[i] = row /\ \A j \in Invoice \ {i} : invoices'[j] = invoices[j]
            BY <2>3 DEF Inv, Typed
      <2>7. i \notin stale => Sound(row)
            BY <1>4, <2>1 DEF Inv, NeverOverpaid, MarkPaid, Sound, InvoiceRow
      <2>8. NeverOverpaid'
            BY <2>3, <2>6, <2>7, KeepsSound DEF Inv
      <2> QED BY <2>4, <2>5, <2>8 DEF Inv
<1> QED BY <1>1, <1>2, <1>3, <1>4 DEF InvoiceStep

LEMMA StepPayment ==
    ASSUME Inv, NEW p \in Payment, PaymentStep(p)
    PROVE  Inv'
<1>1. ASSUME NEW i \in Invoice, NEW amount \in Amount, NEW via \in Via,
             CreatePayment(p, i, amount, via)
      PROVE  Inv'
      <2> DEFINE row == [status  |-> IF via = "online" THEN "PENDING" ELSE "VERIFICATION_PENDING",
                         invoice |-> i, amount |-> amount, via |-> via]
      <2>1. row \in PaymentRow /\ row.via = via
            BY AmountAssumption DEF PaymentRow, PaymentStatus, Unverified
      <2>2. /\ payments' = [payments EXCEPT ![p] = row]
            /\ Unused(via, p)
            /\ UNCHANGED <<invoices, requests, stale>>
            BY <1>1 DEF CreatePayment
      <2>3. Typed'
            BY <2>1, <2>2 DEF Inv, Typed
      <2>4. payments'[p] = row /\ \A x \in Payment \ {p} : payments'[x] = payments[x]
            BY <2>2 DEF Inv, Typed
      <2>5. ReferencesDistinct'
            BY <2>1, <2>2, <2>4, TakesReference DEF Inv
      <2>6. NeverOverpaid'
            BY <2>2, KeepsInvoices DEF Inv
      <2> QED BY <2>3, <2>5, <2>6 DEF Inv
<1>2. ASSUME DeletePayment(p) PROVE Inv'
      <2>1. payments' = [payments EXCEPT ![p] = Deleted] /\ UNCHANGED <<invoices, requests, stale>>
            BY <1>2 DEF DeletePayment
      <2>2. Typed'
            BY <2>1 DEF Inv, Typed
      <2>3. \A x \in Payment : x \in Blocking' => x \in Blocking
                                              /\ payments'[x].via = payments[x].via
            BY <2>1 DEF Inv, Typed, Blocking, Deleted, Unverified
      <2> QED BY <2>1, <2>2, <2>3, KeepsReferences, KeepsInvoices DEF Inv
<1> QED BY <1>1, <1>2 DEF PaymentStep

\* Steps of a request that write nothing but a payment's status.
LEMMA StepReject ==
    ASSUME Inv, NEW r \in Request, CommitReject(r)
    PROVE  Inv'
<1> DEFINE p == requests[r].payment
<1>1. p \in Payment
      BY DEF Inv, Typed, CommitReject, RequestState, Idle
<1>2. payments[p] \in PaymentRow
      <2>1. Exists(p)
            BY DEF CommitReject, AwaitsVerification, Exists, PaymentStatus, Unverified
      <2> QED BY <1>1, <2>1, ExistingRow DEF Inv
<1>3. /\ payments' = [payments EXCEPT ![p].status = "REJECTED"]
      /\ UNCHANGED <<invoices, stale>>
      BY DEF CommitReject
<1>4. [payments[p] EXCEPT !.status = "REJECTED"] \in PaymentRow
      BY <1>2 DEF PaymentRow, PaymentStatus
<1>5. Typed'
      BY <1>1, <1>3, <1>4 DEF Inv, Typed, CommitReject, Done, RequestState
<1>6. \A x \in Payment : x \in Blocking' => x \in Blocking
                                        /\ payments'[x].via = payments[x].via
      BY <1>1, <1>2, <1>3 DEF Inv, Typed, Blocking, Unverified, PaymentRow
<1> QED BY <1>3, <1>5, <1>6, KeepsReferences, KeepsInvoices DEF Inv

LEMMA StepBegin ==
    ASSUME Inv, NEW r \in Request, Begin(r) \/ Abort(r)
    PROVE  Inv'
<1>1. UNCHANGED <<invoices, payments, stale>>
      BY DEF Begin, Abort, BeginUpdatePayment, BeginVerify, BeginUpdateInvoice
<1>2. requests' \in [Request -> RequestState]
      <2>1. CASE Abort(r)
            BY <2>1 DEF Inv, Typed, Abort, Done, RequestState
      <2>2. ASSUME NEW p \in Payment, BeginUpdatePayment(r, p)
            PROVE  requests' \in [Request -> RequestState]
            <3>1. payments[p] \in PaymentRow
                  BY <2>2, ExistingRow
                  DEF Inv, BeginUpdatePayment, Exists, PaymentStatus, Unverified
            <3> QED BY <2>2, <3>1 DEF Inv, Typed, BeginUpdatePayment, Start, RequestState
      <2>3. ASSUME NEW p \in Payment, BeginVerify(r, p)
            PROVE  requests' \in [Request -> RequestState]
            <3>1. payments[p] \in PaymentRow
                  BY <2>3, ExistingRow DEF Inv, BeginVerify, Exists, PaymentStatus, Unverified
            <3>2. payments[p].invoice \in Invoice
                  BY <3>1 DEF PaymentRow
            <3> QED BY <2>3, <3>2 DEF Inv, Typed, BeginVerify, Start, RequestState
      <2>4. ASSUME NEW i \in Invoice, BeginUpdateInvoice(r, i)
            PROVE  requests' \in [Request -> RequestState]
            <3>1. invoices[i] \in InvoiceRow
                  BY <2>4, LiveRow DEF Inv, BeginUpdateInvoice
            <3> QED BY <2>4, <3>1 DEF Inv, Typed, BeginUpdateInvoice, Start, RequestState
      <2> QED BY <2>1, <2>2, <2>3, <2>4 DEF Begin
<1> QED BY <1>1, <1>2, KeepsReferences, KeepsInvoices DEF Inv, Typed, Blocking

-----------------------------------------------------------------------------
\* References stay distinct and no invoice is paid beyond its total whatever
\* requests overlap, for any invoices, payments, references and amounts: the
\* inductive invariant of create, update, verify, delete and pay.
THEOREM ReceivablesSound == Spec => []Inv
<1>1. Init => Inv
      BY InitInv
<1>2. Inv /\ [Next]_vars => Inv'
      <2> SUFFICES ASSUME Inv, [Next]_vars PROVE Inv'
          OBVIOUS
      <2>1. CASE UNCHANGED vars
            BY <2>1 DEF vars, Inv, Typed, NeverOverpaid, ReferencesDistinct, Blocking, Live
      <2>2. ASSUME NEW i \in Invoice, InvoiceStep(i) PROVE Inv'
            BY <2>2, StepInvoice
      <2>3. ASSUME NEW p \in Payment, PaymentStep(p) PROVE Inv'
            BY <2>3, StepPayment
      <2>4. ASSUME NEW r \in Request, Commit(r) PROVE Inv'
            BY <2>4, StepUpdatePayment, StepApprove, StepReject, StepUpdateInvoice DEF Commit
      <2>5. ASSUME NEW r \in Request, Begin(r) \/ Abort(r) PROVE Inv'
            BY <2>5, StepBegin
      <2> QED BY <2>1, <2>2, <2>3, <2>4, <2>5 DEF Next
<1> QED BY <1>1, <1>2, PTL DEF Spec

\* check_duplicate_payment does its work in every interleaving.
THEOREM ReferencesAlwaysDistinct == Spec => []ReferencesDistinct
<1>1. Inv => ReferencesDistinct
      BY DEF Inv
<1> QED BY <1>1, ReceivablesSound, PTL

\* No invoice whose row was never computed from an outdated one is overpaid.
THEOREM NeverOverpaidAlways == Spec => []NeverOverpaid
<1>1. Inv => NeverOverpaid
      BY DEF Inv
<1> QED BY <1>1, ReceivablesSound, PTL
-----------------------------------------------------------------------------
(* Invoices, payments and receipts say the same.                            *)

\* A payment that is there is of an invoice that is there, and so is a receipt; whoever
\* updates a payment has read one that was not verified.
PaymentsNamed   == \A p \in Payment : Exists(p) => Live(payments[p].invoice)
ReceiptsNamed   == \A t \in DOMAIN txns : IsReceipt(t) => Live(txns[t].invoice)
UnverifiedRead  == \A r \in Request :
    requests[r].op = "update_payment" => requests[r].row.status \in Unverified
MoneyInv ==
    /\ Inv
    /\ txns \in Seq(TxnRow \cup {Deleted})
    /\ stale \subseteq Invoice \cup Payment
    /\ PaymentsNamed /\ ReceiptsNamed /\ UnverifiedRead
    /\ ReceiptsAgree

LEMMA ReceiptRow ==
    ASSUME txns \in Seq(TxnRow \cup {Deleted})
    PROVE  /\ Len(txns) \in Nat /\ DOMAIN txns = 1..Len(txns) /\ IsFiniteSet(DOMAIN txns)
           /\ \A t \in DOMAIN txns : IsReceipt(t) => txns[t] \in TxnRow
<1>1. Len(txns) \in Nat /\ DOMAIN txns = 1..Len(txns)
      BY LenProperties
<1>2. IsFiniteSet(1..Len(txns))
      BY <1>1, FS_Interval
<1>3. \A t \in 1..Len(txns) : txns[t] \in TxnRow \cup {Deleted}
      BY ElementOfSeq
<1> QED BY <1>1, <1>2, <1>3 DEF IsReceipt

\* The numbers that ReceivedFor adds up.
ReceiptsOf(rows, i) ==
    [t \in DOMAIN rows |-> IF rows[t] # Deleted /\ rows[t].invoice = i THEN rows[t].amount ELSE 0]

LEMMA ReceiptsFinite ==
    ASSUME NEW rows \in Seq(TxnRow \cup {Deleted}), NEW i
    PROVE  Finitely(ReceiptsOf(rows, i)) /\ DOMAIN ReceiptsOf(rows, i) = DOMAIN rows
<1>1. Len(rows) \in Nat /\ DOMAIN rows = 1..Len(rows)
      BY LenProperties
<1>2. IsFiniteSet(1..Len(rows))
      BY <1>1, FS_Interval
<1>3. \A t \in DOMAIN rows : rows[t] # Deleted => rows[t].amount \in Nat
      <2>1. \A t \in DOMAIN rows : rows[t] \in TxnRow \cup {Deleted}
            BY <1>1, ElementOfSeq
      <2> QED BY <2>1 DEF TxnRow
<1> QED BY <1>1, <1>2, <1>3 DEF ReceiptsOf, Finitely

LEMMA ReceivedForIs ==
    \A i : ReceivedFor(i) = TotalOf(ReceiptsOf(txns, i))
           /\ ReceivedFor(i)' = TotalOf(ReceiptsOf(txns', i))
BY DEF ReceivedFor, ReceiptsOf, IsReceipt

\* A receipt more counts for its invoice and its payment.
LEMMA BookedCounts ==
    ASSUME txns \in Seq(TxnRow \cup {Deleted}), NEW i \in Invoice, NEW p \in Payment \cup {Direct},
           NEW amount \in Nat, txns' = Booked(i, p, amount)
    PROVE  /\ txns' \in Seq(TxnRow \cup {Deleted})
           /\ \A t \in DOMAIN txns' :
                 IsReceipt(t)' => \/ t \in DOMAIN txns /\ IsReceipt(t) /\ txns'[t] = txns[t]
                                  \/ t = Len(txns) + 1 /\ txns'[t].invoice = i
                                     /\ txns'[t].payment = p /\ txns'[t].amount = amount
           /\ \A j \in Invoice : /\ ReceivedFor(j) \in Int
                                 /\ ReceivedFor(j)' = ReceivedFor(j) + IF j = i THEN amount ELSE 0
           /\ \A q \in Payment : Own(q)' = Own(q) \cup IF q = p THEN {Len(txns) + 1} ELSE {}
<1> DEFINE row == [invoice |-> i, payment |-> p, amount |-> amount]
           n == Len(txns)
<1>1. row \in TxnRow /\ row # Deleted
      BY DEF TxnRow, Deleted
<1>2. txns' = Append(txns, row)
      BY DEF Booked
<1>3. n \in Nat /\ DOMAIN txns = 1..n
      BY ReceiptRow
<1>4. row.invoice = i /\ row.payment = p /\ row.amount = amount
      OBVIOUS
<1> HIDE DEF row
<1>5. /\ txns' \in Seq(TxnRow \cup {Deleted}) /\ Len(txns') = n + 1 /\ txns'[n + 1] = row
      /\ \A t \in 1..n : txns'[t] = txns[t]
      BY <1>1, <1>2, AppendProperties
<1>6. DOMAIN txns' = 1..n + 1
      BY <1>5, LenProperties
<1>7. \A t \in DOMAIN txns' : t \in DOMAIN txns \/ t = n + 1
      BY <1>3, <1>6
<1>8. DOMAIN txns' = DOMAIN txns \cup {n + 1} /\ n + 1 \notin DOMAIN txns
      BY <1>3, <1>6
<1>9. \A t \in DOMAIN txns : txns'[t] = txns[t]
      BY <1>3, <1>5
<1>10. ASSUME NEW j \in Invoice
       PROVE  /\ ReceivedFor(j) \in Int
              /\ ReceivedFor(j)' = ReceivedFor(j) + IF j = i THEN amount ELSE 0
      <2> DEFINE f == ReceiptsOf(txns, j)
                 g == ReceiptsOf(txns', j)
      <2>1. Finitely(f) /\ DOMAIN f = DOMAIN txns /\ DOMAIN g = DOMAIN txns'
            BY ReceiptsFinite, <1>5
      <2>2. \A t \in DOMAIN f : g[t] = f[t]
            BY <1>8, <1>9 DEF ReceiptsOf
      <2>3. g[n + 1] = IF j = i THEN amount ELSE 0
            <3>1. g[n + 1] = IF row # Deleted /\ row.invoice = j THEN row.amount ELSE 0
                  BY <1>5, <1>8 DEF ReceiptsOf
            <3> QED BY <1>1, <1>4, <3>1
      <2>4. ReceivedFor(j) = TotalOf(f) /\ ReceivedFor(j)' = TotalOf(g)
            BY ReceivedForIs
      <2> HIDE DEF f, g
      <2>5. DOMAIN g = DOMAIN f \cup {n + 1} /\ n + 1 \notin DOMAIN f /\ g[n + 1] \in Int
            BY <1>8, <2>1, <2>3
      <2>6. TotalOf(f) \in Int /\ TotalOf(g) = TotalOf(f) + g[n + 1]
            BY <2>1, <2>2, <2>5, TotalInt, TotalGrown
      <2> QED BY <2>3, <2>4, <2>6
<1>11. ASSUME NEW q \in Payment
       PROVE  Own(q)' = Own(q) \cup IF q = p THEN {n + 1} ELSE {}
      BY <1>1, <1>4, <1>5, <1>8, <1>9 DEF Own, IsReceipt
<1>12. ASSUME NEW t \in DOMAIN txns', IsReceipt(t)'
       PROVE  \/ t \in DOMAIN txns /\ IsReceipt(t) /\ txns'[t] = txns[t]
              \/ t = n + 1 /\ txns'[t].invoice = i /\ txns'[t].payment = p /\ txns'[t].amount = amount
      BY <1>4, <1>5, <1>7, <1>9, <1>12 DEF IsReceipt
<1> QED BY <1>5, <1>10, <1>11, <1>12

\* An invoice that is not there has no receipts.
LEMMA NothingReceived ==
    ASSUME ReceiptsNamed, NEW i \in Invoice, ~Live(i)
    PROVE  ReceivedFor(i) = 0
<1>1. \A t \in DOMAIN txns : ~(IsReceipt(t) /\ txns[t].invoice = i)
      BY DEF ReceiptsNamed
<1> QED BY <1>1, TotalZero DEF ReceivedFor

\* Steps that book nothing: what is paid stays, and no approval comes or goes.
LEMMA NothingBooked ==
    ASSUME MoneyInv, Inv', txns' = txns, stale \subseteq stale', stale' \subseteq Invoice \cup Payment,
           \A i \in Invoice : Live(i) => Live(i)' /\ invoices'[i].paid = invoices[i].paid,
           \A i \in Invoice : ~Live(i) /\ Live(i)' => invoices'[i].paid = 0,
           \A p \in Payment : Exists(p)' => Live(payments[p].invoice)',
           \A p \in Payment \ stale' :
               \/ payments'[p] = payments[p]
               \/ payments[p].status # "SUCCESS" /\ payments'[p].status # "SUCCESS",
           UnverifiedRead'
    PROVE  MoneyInv'
<1>1. /\ \A i : ReceivedFor(i)' = ReceivedFor(i)
      /\ \A p : Own(p)' = Own(p)
      /\ \A t \in DOMAIN txns : IsReceipt(t)' <=> IsReceipt(t)
      BY DEF ReceivedFor, Own, IsReceipt
<1>2. PaymentsNamed'
      BY DEF PaymentsNamed
<1>3. ReceiptsNamed'
      <2> SUFFICES ASSUME NEW t \in DOMAIN txns, IsReceipt(t) PROVE Live(txns[t].invoice)'
          BY <1>1 DEF ReceiptsNamed
      <2>1. txns[t].invoice \in Invoice
            BY ReceiptRow DEF MoneyInv, TxnRow
      <2> QED BY <2>1 DEF MoneyInv, ReceiptsNamed
<1>4. PaidIsReceived'
      <2> SUFFICES ASSUME NEW i \in Invoice \ stale', Live(i)'
                   PROVE  invoices'[i].paid = ReceivedFor(i)
          BY <1>1 DEF PaidIsReceived
      <2>1. CASE Live(i)
            BY <2>1 DEF MoneyInv, ReceiptsAgree, PaidIsReceived
      <2>2. CASE ~Live(i)
            BY <2>2, NothingReceived DEF MoneyInv
      <2> QED BY <2>1, <2>2
<1>5. ApprovedOnce'
      <2> SUFFICES ASSUME NEW p \in Payment \ stale'
                   PROVE  /\ Cardinality(Own(p)) <= 1
                          /\ payments'[p].status = "SUCCESS" <=> Own(p) # {}
                          /\ \A t \in Own(p) : /\ txns[t].amount = payments'[p].amount
                                               /\ txns[t].invoice = payments'[p].invoice
          BY <1>1 DEF ApprovedOnce
      <2>1. /\ Cardinality(Own(p)) <= 1
            /\ payments[p].status = "SUCCESS" <=> Own(p) # {}
            /\ \A t \in Own(p) : /\ txns[t].amount = payments[p].amount
                                 /\ txns[t].invoice = payments[p].invoice
            BY DEF MoneyInv, ReceiptsAgree, ApprovedOnce
      <2> QED BY <2>1
<1> QED BY <1>2, <1>3, <1>4, <1>5 DEF MoneyInv, ReceiptsAgree

\* Steps that book a receipt: the invoice it names is paid its amount, and the payment it
\* names is approved by it.
LEMMA OneBooked ==
    ASSUME MoneyInv, Inv', NEW i \in Invoice, NEW p \in Payment \cup {Direct}, NEW amount \in Nat,
           txns' = Booked(i, p, amount), stale \subseteq stale', stale' \subseteq Invoice \cup Payment,
           Live(i), \A j \in Invoice : Live(j)' <=> Live(j),
           \A j \in Invoice \ stale' : Live(j) =>
               invoices'[j].paid = invoices[j].paid + IF j = i THEN amount ELSE 0,
           \A q \in Payment : q # p => payments'[q] = payments[q],
           p \in Payment =>
               /\ payments[p] \in PaymentRow /\ payments[p].status \in Unverified
               /\ payments[p].amount = amount /\ payments[p].invoice = i
               /\ payments'[p] = [payments[p] EXCEPT !.status = "SUCCESS"],
           UnverifiedRead'
    PROVE  MoneyInv'
<1>1. /\ txns' \in Seq(TxnRow \cup {Deleted})
      /\ \A t \in DOMAIN txns' :
            IsReceipt(t)' => \/ t \in DOMAIN txns /\ IsReceipt(t) /\ txns'[t] = txns[t]
                             \/ t = Len(txns) + 1 /\ txns'[t].invoice = i
                                /\ txns'[t].payment = p /\ txns'[t].amount = amount
      /\ \A j \in Invoice : /\ ReceivedFor(j) \in Int
                            /\ ReceivedFor(j)' = ReceivedFor(j) + IF j = i THEN amount ELSE 0
      /\ \A q \in Payment : Own(q)' = Own(q) \cup IF q = p THEN {Len(txns) + 1} ELSE {}
      BY BookedCounts DEF MoneyInv
<1>2. PaymentsNamed'
      <2> SUFFICES ASSUME NEW q \in Payment, Exists(q)' PROVE Live(payments[q].invoice)'
          BY DEF PaymentsNamed
      <2>1. CASE q = p
            <3>1. payments'[q].invoice = i
                  BY <2>1 DEF PaymentRow
            <3> QED BY <3>1 DEF Live
      <2>2. CASE q # p
            <3>1. Exists(q) /\ payments'[q] = payments[q]
                  BY <2>2 DEF Exists
            <3>2. payments[q].invoice \in Invoice /\ Live(payments[q].invoice)
                  BY <3>1, ExistingRow DEF MoneyInv, Inv, PaymentRow, PaymentsNamed
            <3> QED BY <3>1, <3>2 DEF Live
      <2> QED BY <2>1, <2>2
<1>3. ReceiptsNamed'
      <2> SUFFICES ASSUME NEW t \in DOMAIN txns', IsReceipt(t)' PROVE Live(txns[t].invoice)'
          BY DEF ReceiptsNamed
      <2>1. CASE t \in DOMAIN txns /\ IsReceipt(t) /\ txns'[t] = txns[t]
            <3>1. txns[t].invoice \in Invoice
                  BY <2>1, ReceiptRow DEF MoneyInv, TxnRow
            <3> QED BY <2>1, <3>1 DEF MoneyInv, ReceiptsNamed, Live
      <2>2. CASE txns'[t].invoice = i
            BY <2>2 DEF Live
      <2> QED BY <1>1, <2>1, <2>2
<1>4. PaidIsReceived'
      <2> SUFFICES ASSUME NEW j \in Invoice \ stale', Live(j)'
                   PROVE  invoices'[j].paid = ReceivedFor(j)'
          BY DEF PaidIsReceived
      <2>1. invoices[j].paid = ReceivedFor(j)
            BY DEF MoneyInv, ReceiptsAgree, PaidIsReceived
      <2> QED BY <1>1, <2>1
<1>5. ApprovedOnce'
      <2> SUFFICES ASSUME NEW q \in Payment \ stale'
                   PROVE  /\ Cardinality(Own(q)') <= 1
                          /\ payments'[q].status = "SUCCESS" <=> Own(q)' # {}
                          /\ \A t \in Own(q)' : /\ txns'[t].amount = payments'[q].amount
                                                /\ txns'[t].invoice = payments'[q].invoice
          BY DEF ApprovedOnce
      <2>1. /\ Cardinality(Own(q)) <= 1
            /\ payments[q].status = "SUCCESS" <=> Own(q) # {}
            /\ \A t \in Own(q) : /\ txns[t].amount = payments[q].amount
                                 /\ txns[t].invoice = payments[q].invoice
            BY DEF MoneyInv, ReceiptsAgree, ApprovedOnce
      <2>2. \A t \in Own(q)' : t \in DOMAIN txns' /\ IsReceipt(t)' /\ txns'[t].payment = q
            BY DEF Own
      <2>3. \A t \in Own(q) : t \in DOMAIN txns /\ t # Len(txns) + 1
            BY ReceiptRow DEF MoneyInv, Own
      <2>4. CASE q # p
            <3>0. Own(q)' = Own(q) \cup {}
                  BY <1>1, <2>4
            <3>1. Own(q)' = Own(q)
                  BY <3>0
            <3>2. \A t \in Own(q) : txns'[t] = txns[t]
                  BY <1>1, <2>2, <2>3, <3>1
            <3> QED BY <2>1, <2>4, <3>1, <3>2
      <2>5. CASE q = p
            <3>1. Own(q) = {}
                  BY <2>1, <2>5 DEF Unverified
            <3>2. Own(q)' = {Len(txns) + 1}
                  BY <1>1, <2>5, <3>1
            <3>3. Cardinality({Len(txns) + 1}) = 1
                  BY FS_Singleton
            <3>4. txns'[Len(txns) + 1].invoice = i /\ txns'[Len(txns) + 1].amount = amount
                  <4>2. PICK t \in Own(q)' : t = Len(txns) + 1
                        BY <3>2
                  <4>1. Len(txns) + 1 \notin DOMAIN txns
                        BY ReceiptRow DEF MoneyInv
                  <4>3. t \in DOMAIN txns' /\ IsReceipt(t)' /\ t \notin DOMAIN txns
                        BY <2>2, <4>1, <4>2
                  <4> QED BY <1>1, <4>2, <4>3
            <3>5. /\ payments'[q].status = "SUCCESS" /\ payments'[q].amount = amount
                  /\ payments'[q].invoice = i
                  BY <2>5 DEF PaymentRow
            <3> QED BY <3>2, <3>3, <3>4, <3>5
      <2> QED BY <2>4, <2>5
<1> QED BY <1>1, <1>2, <1>3, <1>4, <1>5 DEF MoneyInv, ReceiptsAgree

LEMMA ReadsStay ==
    ASSUME UnverifiedRead, requests' = requests \/ \E r \in Request : Done(r)
    PROVE  UnverifiedRead'
<1>1. CASE requests' = requests
      BY <1>1 DEF UnverifiedRead
<1>2. ASSUME NEW r \in Request, Done(r) PROVE UnverifiedRead'
      BY <1>2 DEF UnverifiedRead, Done, Idle
<1> QED BY <1>1, <1>2

LEMMA MoneyDeleteInvoice ==
    ASSUME MoneyInv, Inv', NEW i \in Invoice, DeleteInvoice(i)
    PROVE  MoneyInv'
<1>1. /\ invoices' = [invoices EXCEPT ![i] = Deleted]
      /\ payments' = [p \in Payment |-> IF Exists(p) /\ payments[p].invoice = i
                                        THEN Deleted ELSE payments[p]]
      /\ txns' = [t \in DOMAIN txns |-> IF IsReceipt(t) /\ txns[t].invoice = i
                                        THEN Deleted ELSE txns[t]]
      /\ requests' = requests /\ stale' = stale
      BY DEF DeleteInvoice
<1>2. Len(txns) \in Nat /\ DOMAIN txns = 1..Len(txns)
      /\ \A t \in DOMAIN txns : IsReceipt(t) => txns[t] \in TxnRow
      BY ReceiptRow DEF MoneyInv
<1>3. DOMAIN txns' = DOMAIN txns
      BY <1>1
<1>4. \A t \in DOMAIN txns :
          /\ IsReceipt(t)' <=> IsReceipt(t) /\ txns[t].invoice # i
          /\ IsReceipt(t)' => txns'[t] = txns[t]
      BY <1>1 DEF IsReceipt
<1>5. txns' \in Seq(TxnRow \cup {Deleted})
      <2>1. \A t \in DOMAIN txns : txns[t] \in TxnRow \cup {Deleted}
            BY <1>2 DEF IsReceipt
      <2>2. txns' \in [DOMAIN txns -> TxnRow \cup {Deleted}]
            BY <1>1, <2>1
      <2>3. txns' \in [1..Len(txns) -> TxnRow \cup {Deleted}]
            BY <1>2, <2>2
      <2> QED BY <1>2, <2>3, SeqDef
<1>6. ~Live(i)' /\ \A j \in Invoice : j # i => (Live(j)' <=> Live(j)) /\ invoices'[j] = invoices[j]
      BY <1>1 DEF MoneyInv, Inv, Typed, Live, Deleted, InvoiceStatus
<1>7. \A p \in Payment :
          IF Exists(p) /\ payments[p].invoice = i THEN payments'[p] = Deleted
                                                  ELSE payments'[p] = payments[p]
      BY <1>1
<1>8. PaymentsNamed'
      <2> SUFFICES ASSUME NEW p \in Payment, Exists(p)' PROVE Live(payments[p].invoice)'
          BY DEF PaymentsNamed
      <2>1. payments'[p] = payments[p] /\ Exists(p) /\ payments[p].invoice # i
            BY <1>7 DEF Exists, Deleted, PaymentStatus, Unverified
      <2>2. payments[p].invoice \in Invoice /\ Live(payments[p].invoice)
            BY <2>1, ExistingRow DEF MoneyInv, Inv, PaymentRow, PaymentsNamed
      <2> QED BY <1>6, <2>1, <2>2 DEF Live
<1>9. ReceiptsNamed'
      <2> SUFFICES ASSUME NEW t \in DOMAIN txns', IsReceipt(t)' PROVE Live(txns[t].invoice)'
          BY DEF ReceiptsNamed
      <2>1. t \in DOMAIN txns /\ txns'[t] = txns[t] /\ IsReceipt(t) /\ txns[t].invoice # i
            BY <1>3, <1>4
      <2>2. txns[t].invoice \in Invoice /\ Live(txns[t].invoice)
            BY <1>2, <2>1 DEF MoneyInv, TxnRow, ReceiptsNamed
      <2> QED BY <1>6, <2>1, <2>2 DEF Live
<1>10. PaidIsReceived'
      <2> SUFFICES ASSUME NEW j \in Invoice \ stale', Live(j)'
                   PROVE  invoices'[j].paid = ReceivedFor(j)'
          BY DEF PaidIsReceived
      <2>1. j # i /\ Live(j) /\ invoices'[j] = invoices[j] /\ j \in Invoice \ stale
            BY <1>1, <1>6
      <2>2. DOMAIN ReceiptsOf(txns', j) = DOMAIN ReceiptsOf(txns, j)
            BY <1>3 DEF ReceiptsOf
      <2>3. \A t \in DOMAIN ReceiptsOf(txns, j) : ReceiptsOf(txns', j)[t] = ReceiptsOf(txns, j)[t]
            BY <1>1, <2>1 DEF ReceiptsOf, IsReceipt
      <2>4. TotalOf(ReceiptsOf(txns', j)) = TotalOf(ReceiptsOf(txns, j))
            BY <2>2, <2>3, TotalSame
      <2> QED BY <2>1, <2>4, ReceivedForIs DEF MoneyInv, ReceiptsAgree, PaidIsReceived
<1>11. ApprovedOnce'
      <2> SUFFICES ASSUME NEW p \in Payment \ stale'
                   PROVE  /\ Cardinality(Own(p)') <= 1
                          /\ payments'[p].status = "SUCCESS" <=> Own(p)' # {}
                          /\ \A t \in Own(p)' : /\ txns'[t].amount = payments'[p].amount
                                                /\ txns'[t].invoice = payments'[p].invoice
          BY DEF ApprovedOnce
      <2>1. /\ Cardinality(Own(p)) <= 1
            /\ payments[p].status = "SUCCESS" <=> Own(p) # {}
            /\ \A t \in Own(p) : /\ txns[t].amount = payments[p].amount
                                 /\ txns[t].invoice = payments[p].invoice
            BY <1>1 DEF MoneyInv, ReceiptsAgree, ApprovedOnce
      <2>2. Own(p)' = {t \in Own(p) : txns[t].invoice # i}
            BY <1>3, <1>4 DEF Own
      <2>3. CASE Exists(p) /\ payments[p].invoice = i
            <3>1. Own(p)' = {}
                  BY <2>1, <2>2, <2>3
            <3>2. payments'[p].status # "SUCCESS"
                  BY <1>7, <2>3 DEF Deleted
            <3> QED BY <3>1, <3>2, FS_EmptySet
      <2>4. CASE ~(Exists(p) /\ payments[p].invoice = i)
            <3>1. \A t \in Own(p) : txns[t].invoice # i
                  BY <2>1, <2>4 DEF Exists, PaymentStatus
            <3>2. Own(p)' = Own(p)
                  BY <2>2, <3>1
            <3>3. \A t \in Own(p) : txns'[t] = txns[t]
                  BY <1>4, <3>1 DEF Own
            <3> QED BY <1>7, <2>1, <2>4, <3>2, <3>3
      <2> QED BY <2>3, <2>4
<1>12. UnverifiedRead'
      BY <1>1, ReadsStay DEF MoneyInv
<1> QED BY <1>1, <1>5, <1>8, <1>9, <1>10, <1>11, <1>12 DEF MoneyInv, ReceiptsAgree

\* The steps of one invoice.
LEMMA MoneyInvoice ==
    ASSUME MoneyInv, NEW i \in Invoice, InvoiceStep(i)
    PROVE  MoneyInv'
<1>1. Inv' /\ Inv /\ Typed /\ stale \subseteq Invoice \cup Payment
      BY StepInvoice DEF MoneyInv, Inv
<1>2. ASSUME NEW total \in Total, CreateInvoice(i, total) PROVE MoneyInv'
      <2>1. ~Live(i)
            BY <1>2 DEF CreateInvoice, Live, Absent, InvoiceStatus
      <2>2. /\ Live(i)' /\ invoices'[i].paid = 0
            /\ \A j \in Invoice : j # i => invoices'[j] = invoices[j]
            /\ payments' = payments /\ txns' = txns /\ requests' = requests /\ stale' = stale
            BY <1>1, <1>2 DEF CreateInvoice, Typed, Live, InvoiceStatus
      <2>3. ASSUME NEW p \in Payment, Exists(p)' PROVE Live(payments[p].invoice)'
            <3>1. Exists(p)
                  BY <2>2, <2>3 DEF Exists
            <3>2. payments[p].invoice \in Invoice /\ Live(payments[p].invoice)
                  BY <1>1, <3>1, ExistingRow DEF MoneyInv, PaymentRow, PaymentsNamed
            <3> QED BY <2>1, <2>2, <3>2 DEF Live
      <2>4. UnverifiedRead'
            BY <2>2, ReadsStay DEF MoneyInv
      <2>5. \A j \in Invoice : j # i => (Live(j)' <=> Live(j))
            BY <2>2 DEF Live
      <2> QED BY <1>1, <2>1, <2>2, <2>3, <2>4, <2>5, NothingBooked
<1>3. ASSUME DeleteInvoice(i) PROVE MoneyInv'
      BY <1>1, <1>3, MoneyDeleteInvoice
<1>4. ASSUME NEW amount \in Nat, txns' = Booked(i, Direct, amount), Live(i),
             UNCHANGED <<payments, requests, stale>>,
             Live(i)', invoices'[i].paid = invoices[i].paid + amount,
             \A j \in Invoice : j # i => invoices'[j] = invoices[j]
      PROVE  MoneyInv'
      <2>1. UnverifiedRead'
            BY <1>4, ReadsStay DEF MoneyInv
      <2>2. \A j \in Invoice : Live(j)' <=> Live(j)
            BY <1>4 DEF Live
      <2>3. \A j \in Invoice : Live(j) =>
                invoices'[j].paid = invoices[j].paid + IF j = i THEN amount ELSE 0
            <3> SUFFICES ASSUME NEW j \in Invoice, Live(j)
                         PROVE  invoices'[j].paid = invoices[j].paid + IF j = i THEN amount ELSE 0
                OBVIOUS
            <3>1. invoices[j].paid \in Nat
                  BY <1>1, LiveRow DEF InvoiceRow
            <3> QED BY <1>4, <3>1
      <2> QED BY <1>1, <1>4, <2>1, <2>2, <2>3, DirectAssumption, OneBooked
<1>5. ASSUME NEW amount \in Amount, PayInvoice(i, amount) PROVE MoneyInv'
      <2>1. invoices' = [invoices EXCEPT ![i] = Received(invoices[i], amount)]
            /\ txns' = Booked(i, Direct, amount) /\ Live(i) /\ UNCHANGED <<payments, requests, stale>>
            BY <1>5 DEF PayInvoice
      <2>2. invoices[i] \in InvoiceRow
            BY <1>1, <2>1, LiveRow
      <2>3. /\ Received(invoices[i], amount).paid = invoices[i].paid + amount
            /\ Received(invoices[i], amount).status \in InvoiceStatus
            BY <2>2 DEF Received, InvoiceRow, InvoiceStatus
      <2>4. /\ invoices'[i] = Received(invoices[i], amount)
            /\ \A j \in Invoice : j # i => invoices'[j] = invoices[j]
            BY <1>1, <2>1 DEF Typed
      <2>5. amount \in Nat
            BY AmountAssumption
      <2> QED BY <1>4, <2>1, <2>3, <2>4, <2>5 DEF Live
<1>6. ASSUME MarkPaid(i) PROVE MoneyInv'
      <2>1. invoices' = [invoices EXCEPT ![i].paid = @ + invoices[i].pending,
                                         ![i].pending = 0, ![i].status = "paid"]
            /\ txns' = Booked(i, Direct, invoices[i].pending)
            /\ Live(i) /\ UNCHANGED <<payments, requests, stale>>
            BY <1>6 DEF MarkPaid
      <2>2. invoices[i] \in InvoiceRow
            BY <1>1, <2>1, LiveRow
      <2>3. /\ invoices'[i].paid = invoices[i].paid + invoices[i].pending
            /\ invoices'[i].status = "paid"
            /\ \A j \in Invoice : j # i => invoices'[j] = invoices[j]
            BY <1>1, <2>1, <2>2 DEF Typed, InvoiceRow
      <2>4. invoices[i].pending \in Nat
            BY <2>2 DEF InvoiceRow
      <2> QED BY <1>4, <2>1, <2>3, <2>4 DEF Live, InvoiceStatus
<1> QED BY <1>2, <1>3, <1>5, <1>6 DEF InvoiceStep

\* Steps that change the payments alone, and approve none.
LEMMA PaymentsChanged ==
    ASSUME MoneyInv, Inv', invoices' = invoices, txns' = txns,
           stale \subseteq stale', stale' \subseteq Invoice \cup Payment,
           NEW p \in Payment, \A q \in Payment : q # p => payments'[q] = payments[q],
           Exists(p)' => payments'[p].invoice \in Invoice /\ Live(payments'[p].invoice),
           p \in stale' \/ (payments[p].status # "SUCCESS" /\ payments'[p].status # "SUCCESS"),
           UnverifiedRead'
    PROVE  MoneyInv'
<1>1. \A i \in Invoice : Live(i)' <=> Live(i)
      BY DEF Live
<1>2. ASSUME NEW q \in Payment, Exists(q)' PROVE Live(payments[q].invoice)'
      <2>1. CASE q = p
            BY <1>2, <2>1 DEF Live
      <2>2. CASE q # p
            <3>1. Exists(q) /\ payments'[q] = payments[q]
                  BY <1>2, <2>2 DEF Exists
            <3>2. Live(payments[q].invoice)
                  BY <3>1 DEF MoneyInv, PaymentsNamed
            <3> QED BY <3>1, <3>2 DEF Live
      <2> QED BY <2>1, <2>2
<1> QED BY <1>1, <1>2, NothingBooked

LEMMA MoneyPayment ==
    ASSUME MoneyInv, NEW p \in Payment, PaymentStep(p)
    PROVE  MoneyInv'
<1>1. Inv' /\ Inv /\ Typed /\ stale \subseteq Invoice \cup Payment
      BY StepPayment DEF MoneyInv, Inv
<1>2. ASSUME NEW i \in Invoice, NEW amount \in Amount, NEW via \in Via,
             CreatePayment(p, i, amount, via)
      PROVE  MoneyInv'
      <2>1. UNCHANGED <<invoices, txns, requests, stale>> /\ Live(i) /\ payments[p] = Absent
            BY <1>2 DEF CreatePayment
      <2>2. /\ payments'[p].invoice = i /\ payments'[p].status # "SUCCESS"
            /\ \A q \in Payment : q # p => payments'[q] = payments[q]
            BY <1>1, <1>2 DEF CreatePayment, Typed
      <2>3. UnverifiedRead'
            BY <2>1, ReadsStay DEF MoneyInv
      <2> QED BY <1>1, <2>1, <2>2, <2>3, PaymentsChanged DEF Absent
<1>3. ASSUME DeletePayment(p) PROVE MoneyInv'
      <2>1. UNCHANGED <<invoices, txns, requests, stale>> /\ payments[p].status \in Unverified
            BY <1>3 DEF DeletePayment
      <2>2. /\ payments'[p] = Deleted
            /\ \A q \in Payment : q # p => payments'[q] = payments[q]
            BY <1>1, <1>3 DEF DeletePayment, Typed
      <2>3. UnverifiedRead'
            BY <2>1, ReadsStay DEF MoneyInv
      <2>4. ~Exists(p)' /\ payments[p].status # "SUCCESS" /\ payments'[p].status # "SUCCESS"
            BY <2>1, <2>2 DEF Exists, Deleted, PaymentStatus, Unverified
      <2> QED BY <1>1, <2>1, <2>2, <2>3, <2>4, PaymentsChanged
<1> QED BY <1>2, <1>3 DEF PaymentStep

LEMMA MoneyReject ==
    ASSUME MoneyInv, NEW r \in Request, CommitReject(r)
    PROVE  MoneyInv'
<1> DEFINE p == requests[r].payment
<1>1. Inv' /\ Inv /\ Typed /\ stale \subseteq Invoice \cup Payment
      BY StepReject DEF MoneyInv, Inv
<1>2. p \in Payment
      BY <1>1 DEF Typed, CommitReject, RequestState, Idle
<1>3. /\ payments' = [payments EXCEPT ![p].status = "REJECTED"]
      /\ UNCHANGED <<invoices, txns, stale>> /\ Done(r)
      /\ payments[p].status = "VERIFICATION_PENDING"
      BY DEF CommitReject, AwaitsVerification
<1>4. payments[p] \in PaymentRow /\ Live(payments[p].invoice)
      <2>1. Exists(p)
            BY <1>3 DEF Exists, PaymentStatus, Unverified
      <2> QED BY <1>1, <1>2, <2>1, ExistingRow DEF MoneyInv, PaymentsNamed
<1>5. /\ payments'[p].status = "REJECTED" /\ payments'[p].invoice = payments[p].invoice
      /\ \A q \in Payment : q # p => payments'[q] = payments[q]
      BY <1>1, <1>2, <1>3, <1>4 DEF Typed, PaymentRow
<1>6. UnverifiedRead'
      BY <1>3, ReadsStay DEF MoneyInv
<1>7. payments[p].invoice \in Invoice
      BY <1>4 DEF PaymentRow
<1> HIDE DEF p
<1> QED BY <1>1, <1>2, <1>3, <1>4, <1>5, <1>6, <1>7, PaymentsChanged

LEMMA MoneyUpdatePayment ==
    ASSUME MoneyInv, NEW r \in Request, NEW i \in Invoice, NEW amount \in Amount, NEW via \in Via,
           CommitUpdatePayment(r, i, amount, via)
    PROVE  MoneyInv'
<1> DEFINE q == requests[r]
           p == q.payment
           row == Flushed(payments[p], q.row,
                          [q.row EXCEPT !.invoice = i, !.amount = amount, !.via = via])
<1>1. Inv' /\ Inv /\ Typed /\ stale \subseteq Invoice \cup Payment
      BY StepUpdatePayment DEF MoneyInv, Inv
<1>2. p \in Payment /\ q.row \in PaymentRow /\ q.row.status \in Unverified
      <2>1. q.op = "update_payment"
            BY DEF CommitUpdatePayment
      <2>2. p \in Payment /\ q.row \in PaymentRow
            BY <1>1, <2>1 DEF Typed, RequestState, Idle
      <2>3. q.row.status \in Unverified
            BY <2>1 DEF MoneyInv, UnverifiedRead
      <2> QED BY <2>2, <2>3
<1>3. payments[p] \in PaymentRow /\ Live(payments[p].invoice)
      <2>1. Exists(p)
            BY DEF CommitUpdatePayment
      <2> QED BY <1>1, <1>2, <2>1, ExistingRow DEF MoneyInv, PaymentsNamed
<1>4. /\ row.status = payments[p].status
      /\ row.invoice = IF i = q.row.invoice THEN payments[p].invoice ELSE i
      BY <1>2, <1>3 DEF Flushed, PaymentRow
<1>5. /\ payments' = [payments EXCEPT ![p] = row] /\ Done(r)
      /\ UNCHANGED <<invoices, txns>>
      /\ i # q.row.invoice => Live(i)
      /\ Outdated({p, i, q.row.invoice, payments[p].invoice}, payments[p] = q.row)
      BY DEF CommitUpdatePayment
<1>6. q.row.invoice \in Invoice /\ payments[p].invoice \in Invoice
      BY <1>2, <1>3 DEF PaymentRow
<1>7. /\ stale \subseteq stale' /\ stale' \subseteq Invoice \cup Payment
      /\ payments[p] = q.row \/ p \in stale'
      BY <1>1, <1>2, <1>5, <1>6 DEF Outdated
<1>8. payments'[p] = row /\ \A x \in Payment : x # p => payments'[x] = payments[x]
      BY <1>1, <1>2, <1>5 DEF Typed
<1>9. UnverifiedRead'
      BY <1>5, ReadsStay DEF MoneyInv
<1>10. payments'[p].invoice \in Invoice /\ Live(payments'[p].invoice)
      BY <1>3, <1>4, <1>5, <1>6, <1>8
<1>11. p \in stale' \/ (payments[p].status # "SUCCESS" /\ payments'[p].status # "SUCCESS")
      BY <1>2, <1>4, <1>7, <1>8 DEF Unverified
<1> HIDE DEF p, q, row
<1> QED BY <1>1, <1>2, <1>5, <1>7, <1>8, <1>9, <1>10, <1>11, PaymentsChanged

LEMMA MoneyApprove ==
    ASSUME MoneyInv, NEW r \in Request, CommitApprove(r)
    PROVE  MoneyInv'
<1> DEFINE p == requests[r].payment
           i == requests[r].invoice
           locked == payments[p]
           amount == locked.amount
<1>1. Inv' /\ Inv /\ Typed /\ stale \subseteq Invoice \cup Payment
      BY StepApprove DEF MoneyInv, Inv
<1>2. p \in Payment /\ i \in Invoice
      BY <1>1 DEF Typed, CommitApprove, RequestState, Idle
<1>3. /\ invoices' = [invoices EXCEPT ![i] = Received(invoices[i], amount)]
      /\ payments' = [payments EXCEPT ![p].status = "SUCCESS"]
      /\ txns' = Booked(locked.invoice, p, amount)
      /\ Outdated({i, locked.invoice}, locked.invoice = i) /\ Done(r)
      /\ Live(i) /\ locked.status = "VERIFICATION_PENDING"
      BY DEF CommitApprove, AwaitsVerification
<1>4. locked \in PaymentRow /\ Live(locked.invoice)
      <2>1. Exists(p)
            BY <1>3 DEF Exists, PaymentStatus, Unverified
      <2> QED BY <1>1, <1>2, <2>1, ExistingRow DEF MoneyInv, PaymentsNamed
<1>5. locked.invoice \in Invoice /\ amount \in Nat
      BY <1>4 DEF PaymentRow
<1>6. /\ stale \subseteq stale' /\ stale' \subseteq Invoice \cup Payment
      /\ locked.invoice # i => i \in stale' /\ locked.invoice \in stale'
      BY <1>1, <1>2, <1>3, <1>5 DEF Outdated
<1>7. invoices[i] \in InvoiceRow
      BY <1>1, <1>2, <1>3, LiveRow
<1>8. /\ Received(invoices[i], amount).paid = invoices[i].paid + amount
      /\ Received(invoices[i], amount).status \in InvoiceStatus
      BY <1>7 DEF Received, InvoiceRow, InvoiceStatus
<1>9. /\ invoices'[i] = Received(invoices[i], amount)
      /\ \A j \in Invoice : j # i => invoices'[j] = invoices[j]
      BY <1>1, <1>2, <1>3 DEF Typed
<1>10. \A j \in Invoice : Live(j)' <=> Live(j)
      BY <1>3, <1>8, <1>9 DEF Live
<1>11. ASSUME NEW j \in Invoice \ stale', Live(j)
       PROVE  invoices'[j].paid = invoices[j].paid + IF j = locked.invoice THEN amount ELSE 0
      <2>1. invoices[j].paid \in Nat
            BY <1>1, <1>11, LiveRow DEF InvoiceRow
      <2>2. CASE locked.invoice = i
            BY <1>8, <1>9, <2>1, <2>2
      <2>3. CASE locked.invoice # i
            <3>1. j # i /\ j # locked.invoice
                  BY <1>6, <2>3
            <3> QED BY <1>9, <2>1, <3>1
      <2> QED BY <2>2, <2>3
<1>12. /\ payments'[p] = [locked EXCEPT !.status = "SUCCESS"]
       /\ \A x \in Payment : x # p => payments'[x] = payments[x]
      BY <1>1, <1>2, <1>3 DEF Typed
<1>13. UnverifiedRead'
      BY <1>3, ReadsStay DEF MoneyInv
<1>14. locked.status \in Unverified
      BY <1>3 DEF Unverified
<1>15. \A a \in Invoice, b \in Payment \cup {Direct}, n \in Nat :
          (/\ a = locked.invoice /\ b = p /\ n = amount)
          => MoneyInv'
      <2> SUFFICES ASSUME NEW a \in Invoice, NEW b \in Payment \cup {Direct}, NEW n \in Nat,
                          a = locked.invoice, b = p, n = amount
                   PROVE  MoneyInv'
          OBVIOUS
      <2>1. txns' = Booked(a, b, n) /\ Live(a)
            BY <1>3, <1>4
      <2>2. \A j \in Invoice \ stale' : Live(j) =>
                invoices'[j].paid = invoices[j].paid + IF j = a THEN n ELSE 0
            BY <1>11
      <2>3. /\ payments[b] \in PaymentRow /\ payments[b].status \in Unverified
            /\ payments[b].amount = n /\ payments[b].invoice = a
            /\ payments'[b] = [payments[b] EXCEPT !.status = "SUCCESS"]
            /\ \A x \in Payment : x # b => payments'[x] = payments[x]
            BY <1>4, <1>12, <1>14
      <2> HIDE DEF p, i, locked, amount
      <2> QED BY <1>1, <1>6, <1>10, <1>13, <2>1, <2>2, <2>3, OneBooked
<1> QED BY <1>2, <1>5, <1>15

LEMMA MoneyUpdateInvoice ==
    ASSUME MoneyInv, NEW r \in Request, NEW total \in Total, CommitUpdateInvoice(r, total)
    PROVE  MoneyInv'
<1> DEFINE q == requests[r]
           i == q.invoice
           row == Flushed(invoices[i], q.row,
                          [q.row EXCEPT !.total = total, !.pending = Remainder(total, q.row.paid)])
<1>1. Inv' /\ Inv /\ Typed /\ stale \subseteq Invoice \cup Payment
      BY StepUpdateInvoice DEF MoneyInv, Inv
<1>2. i \in Invoice /\ q.row \in InvoiceRow
      BY <1>1 DEF Typed, CommitUpdateInvoice, RequestState, Idle
<1>3. invoices[i] \in InvoiceRow /\ Live(i)
      BY <1>1, <1>2, LiveRow DEF CommitUpdateInvoice
<1>4. /\ invoices' = [invoices EXCEPT ![i] = row] /\ Done(r)
      /\ UNCHANGED <<payments, txns>> /\ stale \subseteq stale' /\ stale' \subseteq stale \cup {i}
      BY DEF CommitUpdateInvoice, Outdated
<1>5. row.paid = invoices[i].paid /\ row.status = invoices[i].status
      BY <1>2, <1>3 DEF Flushed, InvoiceRow
<1>6. invoices'[i] = row /\ \A j \in Invoice : j # i => invoices'[j] = invoices[j]
      BY <1>1, <1>2, <1>4 DEF Typed
<1>7. \A j \in Invoice : (Live(j)' <=> Live(j)) /\ invoices'[j].paid = invoices[j].paid
      BY <1>5, <1>6 DEF Live
<1>8. ASSUME NEW p \in Payment, Exists(p)' PROVE Live(payments[p].invoice)'
      <2>1. Exists(p)
            BY <1>4, <1>8 DEF Exists
      <2>2. payments[p].invoice \in Invoice /\ Live(payments[p].invoice)
            BY <1>1, <2>1, ExistingRow DEF MoneyInv, PaymentRow, PaymentsNamed
      <2> QED BY <1>4, <1>7, <2>2
<1>9. UnverifiedRead'
      BY <1>4, ReadsStay DEF MoneyInv
<1>10. stale' \subseteq Invoice \cup Payment
      BY <1>1, <1>2, <1>4
<1> HIDE DEF i, q, row
<1> QED BY <1>1, <1>4, <1>7, <1>8, <1>9, <1>10, NothingBooked

LEMMA MoneyBegin ==
    ASSUME MoneyInv, NEW r \in Request, Begin(r) \/ Abort(r)
    PROVE  MoneyInv'
<1>1. Inv' /\ stale \subseteq Invoice \cup Payment
      BY StepBegin DEF MoneyInv
<1>2. UNCHANGED <<invoices, payments, txns, stale>>
      BY DEF Begin, Abort, BeginUpdatePayment, BeginVerify, BeginUpdateInvoice
<1>3. UnverifiedRead'
      <2>1. CASE Abort(r)
            BY <2>1, ReadsStay DEF Abort, MoneyInv
      <2>2. ASSUME NEW p \in Payment, BeginUpdatePayment(r, p) PROVE UnverifiedRead'
            BY <2>2 DEF BeginUpdatePayment, Start, UnverifiedRead, MoneyInv, Inv, Typed
      <2>3. ASSUME NEW p \in Payment, BeginVerify(r, p) PROVE UnverifiedRead'
            BY <2>3 DEF BeginVerify, Start, UnverifiedRead, MoneyInv, Inv, Typed
      <2>4. ASSUME NEW i \in Invoice, BeginUpdateInvoice(r, i) PROVE UnverifiedRead'
            BY <2>4 DEF BeginUpdateInvoice, Start, UnverifiedRead, MoneyInv, Inv, Typed
      <2> QED BY <2>1, <2>2, <2>3, <2>4 DEF Begin
<1>4. ASSUME NEW p \in Payment, Exists(p)' PROVE Live(payments[p].invoice)'
      BY <1>2, <1>4 DEF Exists, Live, MoneyInv, PaymentsNamed
<1>5. \A i \in Invoice : Live(i)' <=> Live(i)
      BY <1>2 DEF Live
<1> QED BY <1>1, <1>2, <1>3, <1>4, <1>5, NothingBooked

LEMMA MoneyInit == Init => MoneyInv
<1> SUFFICES ASSUME Init PROVE MoneyInv
    OBVIOUS
<1>1. Inv
      BY InitInv
<1>2. txns = <<>> /\ txns \in Seq(TxnRow \cup {Deleted}) /\ DOMAIN txns = {}
      BY DEF Init
<1>3. (\A i \in Invoice : ~Live(i)) /\ \A p \in Payment : ~Exists(p) /\ payments[p].status # "SUCCESS"
      BY DEF Init, Live, Exists, Absent, InvoiceStatus, PaymentStatus, Unverified
<1>4. \A r \in Request : requests[r].op = "idle"
      BY DEF Init, Idle
<1>5. \A p \in Payment : Own(p) = {} /\ Cardinality(Own(p)) = 0
      BY <1>2, FS_EmptySet DEF Own
<1>6. ReceiptsAgree
      BY <1>3, <1>5 DEF ReceiptsAgree, PaidIsReceived, ApprovedOnce
<1>7. stale = {}
      BY DEF Init
<1> QED BY <1>1, <1>2, <1>3, <1>4, <1>6, <1>7
    DEF MoneyInv, PaymentsNamed, ReceiptsNamed, UnverifiedRead

LEMMA MoneyStep ==
    ASSUME MoneyInv, [Next]_vars
    PROVE  MoneyInv'
<1>1. CASE UNCHANGED vars
      <2>1. UNCHANGED <<invoices, payments, txns, requests, stale>>
            BY <1>1 DEF vars
      <2>2. Inv'
            BY <2>1 DEF MoneyInv, Inv, Typed, NeverOverpaid, ReferencesDistinct, Blocking, Live
      <2>3. UnverifiedRead'
            BY <2>1, ReadsStay DEF MoneyInv
      <2>4. \A p \in Payment : Exists(p)' => Live(payments[p].invoice)'
            BY <2>1 DEF Exists, Live, MoneyInv, PaymentsNamed
      <2>5. \A i \in Invoice : Live(i)' <=> Live(i)
            BY <2>1 DEF Live
      <2> QED BY <2>1, <2>2, <2>3, <2>4, <2>5, NothingBooked DEF MoneyInv
<1>2. ASSUME NEW i \in Invoice, InvoiceStep(i) PROVE MoneyInv'
      BY <1>2, MoneyInvoice
<1>3. ASSUME NEW p \in Payment, PaymentStep(p) PROVE MoneyInv'
      BY <1>3, MoneyPayment
<1>4. ASSUME NEW r \in Request, Commit(r) PROVE MoneyInv'
      BY <1>4, MoneyUpdatePayment, MoneyApprove, MoneyReject, MoneyUpdateInvoice DEF Commit
<1>5. ASSUME NEW r \in Request, Begin(r) \/ Abort(r) PROVE MoneyInv'
      BY <1>5, MoneyBegin
<1> QED BY <1>1, <1>2, <1>3, <1>4, <1>5 DEF Next

LEMMA MoneyAlways == Spec => []MoneyInv
BY MoneyInit, MoneyStep, PTL DEF Spec

\* What an invoice calls paid is what its receipts add up to, and an approved payment has one
\* receipt over its own amount and invoice, for any number of invoices and payments: whatever
\* verifications, updates and deletions overlap.
THEOREM ReceiptsAgreeAlways == Spec => []ReceiptsAgree
<1>1. MoneyInv => ReceiptsAgree
      BY DEF MoneyInv
<1> QED BY <1>1, MoneyAlways, PTL

\* The columns never hold anything else.
THEOREM TypeAlways == Spec => []TypeOK
<1>1. MoneyInv => TypeOK
      BY DEF MoneyInv, Inv, Typed, TypeOK
<1> QED BY <1>1, MoneyAlways, PTL

-----------------------------------------------------------------------------
(* What client payments claim stays covered by what is pending.             *)

\* What a payment's row claims of invoice i.
Claimed(row, i) == IF row.status \in Unverified /\ row.invoice = i THEN row.amount ELSE 0
ClaimsOf(rows, i, p) == [q \in Payment |-> IF q = p THEN 0 ELSE Claimed(rows[q], i)]

LEMMA ClaimsIs ==
    \A i, p : Claims(i, p) = TotalOf(ClaimsOf(payments, i, p))
              /\ Claims(i, p)' = TotalOf(ClaimsOf(payments', i, p))
<1> TAKE i, p
<1>1. ClaimsOf(payments, i, p) =
          [q \in Payment |-> IF q # p /\ payments[q].status \in Unverified /\ payments[q].invoice = i
                             THEN payments[q].amount ELSE 0]
      BY DEF ClaimsOf, Claimed
<1>2. ClaimsOf(payments', i, p) =
          [q \in Payment |-> IF q # p /\ payments'[q].status \in Unverified /\ payments'[q].invoice = i
                             THEN payments'[q].amount ELSE 0]
      BY DEF ClaimsOf, Claimed
<1> QED BY <1>1, <1>2 DEF Claims

PaymentRows == [Payment -> PaymentRow \cup {Absent, Deleted}]

LEMMA ClaimedNat ==
    ASSUME NEW row \in PaymentRow \cup {Absent, Deleted}, NEW i
    PROVE  Claimed(row, i) \in Nat
BY DEF Claimed, PaymentRow, Absent, Deleted, Unverified

LEMMA ClaimsFinite ==
    ASSUME NEW rows \in PaymentRows, NEW i, NEW p
    PROVE  /\ Finitely(ClaimsOf(rows, i, p)) /\ DOMAIN ClaimsOf(rows, i, p) = Payment
           /\ TotalOf(ClaimsOf(rows, i, p)) \in Nat
<1>1. \A q \in Payment : Claimed(rows[q], i) \in Nat
      BY ClaimedNat DEF PaymentRows
<1>2. \A q \in Payment : ClaimsOf(rows, i, p)[q] \in Nat
      BY <1>1 DEF ClaimsOf
<1>3. DOMAIN ClaimsOf(rows, i, p) = Payment
      BY DEF ClaimsOf
<1>4. Finitely(ClaimsOf(rows, i, p))
      BY <1>2, <1>3, PaymentAssumption DEF Finitely
<1> QED BY <1>2, <1>3, <1>4, TotalNat

\* All claims on an invoice are those of the other payments and one's own.
LEMMA ClaimsSplit ==
    ASSUME NEW rows \in PaymentRows, NEW i, NEW p \in Payment
    PROVE  /\ TotalOf(ClaimsOf(rows, i, Direct)) = TotalOf(ClaimsOf(rows, i, p)) + Claimed(rows[p], i)
           /\ TotalOf(ClaimsOf(rows, i, p)) \in Nat /\ Claimed(rows[p], i) \in Nat
<1> DEFINE f == ClaimsOf(rows, i, p)
           g == ClaimsOf(rows, i, Direct)
<1>1. Finitely(f) /\ DOMAIN f = Payment /\ DOMAIN g = Payment /\ TotalOf(f) \in Nat
      BY ClaimsFinite
<1>2. /\ f[p] = 0 /\ g[p] = Claimed(rows[p], i)
      /\ \A q \in Payment : q # p => g[q] = f[q]
      BY DirectAssumption DEF ClaimsOf
<1>3. Claimed(rows[p], i) \in Nat
      BY ClaimedNat DEF PaymentRows
<1> HIDE DEF f, g
<1>4. TotalOf(g) = TotalOf(f) - f[p] + g[p]
      BY <1>1, <1>2, <1>3, TotalChanged
<1> QED BY <1>1, <1>2, <1>3, <1>4 DEF f, g

\* A step that changes one payment changes the claims by that payment's own.
LEMMA ClaimsOfOne ==
    ASSUME Inv, Inv', NEW i \in Invoice, NEW p \in Payment,
           \A q \in Payment : q # p => payments'[q] = payments[q]
    PROVE  \E others \in Nat, old \in Nat, new \in Nat :
               /\ others = Claims(i, p) /\ old = Claimed(payments[p], i) /\ new = Claimed(payments'[p], i)
               /\ Claims(i, Direct) = others + old /\ Claims(i, Direct)' = others + new
<1>1. payments \in PaymentRows /\ payments' \in PaymentRows
      BY DEF Inv, Typed, PaymentRows
<1>2. DOMAIN ClaimsOf(payments', i, p) = DOMAIN ClaimsOf(payments, i, p)
      BY DEF ClaimsOf
<1>3. \A q \in DOMAIN ClaimsOf(payments, i, p) :
          ClaimsOf(payments', i, p)[q] = ClaimsOf(payments, i, p)[q]
      BY DEF ClaimsOf
<1>4. TotalOf(ClaimsOf(payments', i, p)) = TotalOf(ClaimsOf(payments, i, p))
      BY <1>2, <1>3, TotalSame
<1>5. /\ TotalOf(ClaimsOf(payments, i, Direct)) =
            TotalOf(ClaimsOf(payments, i, p)) + Claimed(payments[p], i)
      /\ TotalOf(ClaimsOf(payments, i, p)) \in Nat /\ Claimed(payments[p], i) \in Nat
      BY <1>1, ClaimsSplit
<1>6. /\ TotalOf(ClaimsOf(payments', i, Direct)) =
            TotalOf(ClaimsOf(payments', i, p)) + Claimed(payments'[p], i)
      /\ Claimed(payments'[p], i) \in Nat
      BY <1>1, ClaimsSplit
<1> QED BY <1>4, <1>5, <1>6, ClaimsIs

\* A step that leaves what every payment claims of an invoice alone.
LEMMA ClaimsSame ==
    ASSUME NEW i, \A q \in Payment : Claimed(payments'[q], i) = Claimed(payments[q], i)
    PROVE  Claims(i, Direct)' = Claims(i, Direct)
<1>1. DOMAIN ClaimsOf(payments', i, Direct) = DOMAIN ClaimsOf(payments, i, Direct)
      BY DEF ClaimsOf
<1>2. \A q \in DOMAIN ClaimsOf(payments, i, Direct) :
          ClaimsOf(payments', i, Direct)[q] = ClaimsOf(payments, i, Direct)[q]
      BY DEF ClaimsOf
<1>3. TotalOf(ClaimsOf(payments', i, Direct)) = TotalOf(ClaimsOf(payments, i, Direct))
      BY <1>1, <1>2, TotalSame
<1> QED BY <1>3, ClaimsIs

\* The invoices ClaimsStayCovered speaks of.
Covered(i) ==
    /\ i \notin stale' /\ Live(i) /\ Live(i)'
    /\ invoices'[i].total = invoices[i].total
    /\ \A t \in 1..Len(txns') : t > Len(txns) => txns'[t].payment # Direct
    /\ ClaimsCovered(i)

\* A step that changes one payment and no invoice.
LEMMA CoveredByOne ==
    ASSUME Inv, Inv', invoices' = invoices, NEW i \in Invoice, Covered(i), NEW p \in Payment,
           \A q \in Payment : q # p => payments'[q] = payments[q],
           \/ Claimed(payments'[p], i) = 0
           \/ Claimed(payments'[p], i) = Claimed(payments[p], i)
           \/ Claimed(payments'[p], i) <= invoices[i].pending - Claims(i, p)
    PROVE  ClaimsCovered(i)'
<1>1. PICK others \in Nat, old \in Nat, new \in Nat :
          /\ others = Claims(i, p) /\ old = Claimed(payments[p], i) /\ new = Claimed(payments'[p], i)
          /\ Claims(i, Direct) = others + old /\ Claims(i, Direct)' = others + new
      BY ClaimsOfOne
<1>2. invoices[i].pending \in Nat /\ others + old <= invoices[i].pending
      BY <1>1, LiveRow DEF Inv, Covered, InvoiceRow, ClaimsCovered
<1>3. others + new <= invoices[i].pending
      BY <1>1, <1>2
<1> QED BY <1>1, <1>3 DEF ClaimsCovered

LEMMA CoveredPayment ==
    ASSUME Inv, NEW p \in Payment, PaymentStep(p), NEW i \in Invoice, Covered(i)
    PROVE  ClaimsCovered(i)'
<1>1. Inv' /\ Typed
      BY StepPayment DEF Inv
<1>2. ASSUME NEW j \in Invoice, NEW amount \in Amount, NEW via \in Via,
             CreatePayment(p, j, amount, via)
      PROVE  ClaimsCovered(i)'
      <2>1. /\ payments'[p].invoice = j /\ payments'[p].amount = amount
            /\ \A q \in Payment : q # p => payments'[q] = payments[q]
            /\ invoices' = invoices /\ amount <= invoices[j].pending - Claims(j, p)
            BY <1>1, <1>2 DEF CreatePayment, Typed, Payable
      <2>2. \/ Claimed(payments'[p], i) = 0
            \/ j = i /\ Claimed(payments'[p], i) = amount
            BY <2>1 DEF Claimed
      <2> QED BY <1>1, <2>1, <2>2, CoveredByOne
<1>3. ASSUME DeletePayment(p) PROVE ClaimsCovered(i)'
      <2>1. /\ payments'[p] = Deleted /\ invoices' = invoices
            /\ \A q \in Payment : q # p => payments'[q] = payments[q]
            BY <1>1, <1>3 DEF DeletePayment, Typed
      <2>2. Claimed(payments'[p], i) = 0
            BY <2>1 DEF Claimed, Deleted, Unverified
      <2> QED BY <1>1, <2>1, <2>2, CoveredByOne
<1> QED BY <1>2, <1>3 DEF PaymentStep

LEMMA CoveredReject ==
    ASSUME Inv, NEW r \in Request, CommitReject(r), NEW i \in Invoice, Covered(i)
    PROVE  ClaimsCovered(i)'
<1> DEFINE p == requests[r].payment
<1>1. Inv' /\ Typed
      BY StepReject DEF Inv
<1>2. p \in Payment
      BY <1>1 DEF Typed, CommitReject, RequestState, Idle
<1>3. /\ payments' = [payments EXCEPT ![p].status = "REJECTED"] /\ invoices' = invoices
      /\ payments[p].status = "VERIFICATION_PENDING"
      BY DEF CommitReject, AwaitsVerification
<1>4. payments[p] \in PaymentRow
      <2>1. Exists(p)
            BY <1>3 DEF Exists, PaymentStatus, Unverified
      <2> QED BY <1>1, <1>2, <2>1, ExistingRow
<1>5. /\ payments'[p].status = "REJECTED"
      /\ \A q \in Payment : q # p => payments'[q] = payments[q]
      BY <1>1, <1>2, <1>3, <1>4 DEF Typed, PaymentRow
<1>6. Claimed(payments'[p], i) = 0
      BY <1>5 DEF Claimed, Unverified
<1> HIDE DEF p
<1> QED BY <1>1, <1>2, <1>3, <1>5, <1>6, CoveredByOne

LEMMA CoveredUpdatePayment ==
    ASSUME Inv, NEW r \in Request, NEW j \in Invoice, NEW amount \in Amount, NEW via \in Via,
           CommitUpdatePayment(r, j, amount, via), NEW i \in Invoice, Covered(i)
    PROVE  ClaimsCovered(i)'
<1> DEFINE q == requests[r]
           p == q.payment
           row == Flushed(payments[p], q.row,
                          [q.row EXCEPT !.invoice = j, !.amount = amount, !.via = via])
<1>1. Inv' /\ Typed
      BY StepUpdatePayment DEF Inv
<1>2. p \in Payment /\ q.row \in PaymentRow
      BY <1>1 DEF Typed, CommitUpdatePayment, RequestState, Idle
<1>3. payments[p] \in PaymentRow
      BY <1>1, <1>2, ExistingRow DEF CommitUpdatePayment
<1>4. /\ payments' = [payments EXCEPT ![p] = row] /\ invoices' = invoices
      /\ Outdated({p, j, q.row.invoice, payments[p].invoice}, payments[p] = q.row)
      /\ j # q.row.invoice => Payable(j, amount, p)
      /\ amount # q.row.amount /\ Live(j) => Payable(j, amount, p)
      BY DEF CommitUpdatePayment
<1>5. payments'[p] = row /\ \A x \in Payment : x # p => payments'[x] = payments[x]
      BY <1>1, <1>2, <1>4 DEF Typed
<1>6. row.invoice = IF j = q.row.invoice THEN payments[p].invoice ELSE j
      BY <1>2, <1>3 DEF Flushed, PaymentRow
<1>7. payments[p] = q.row => /\ row.status = payments[p].status
                             /\ row.invoice = j /\ row.amount = amount
      BY <1>2, <1>3 DEF Flushed, PaymentRow
<1>8. \/ Claimed(row, i) = 0
      \/ Claimed(row, i) = Claimed(payments[p], i)
      \/ Claimed(row, i) <= invoices[i].pending - Claims(i, p)
      <2>1. CASE row.invoice # i
            BY <2>1 DEF Claimed
      <2>2. CASE row.invoice = i /\ payments[p] # q.row
            BY <1>4, <1>6, <2>2 DEF Covered, Outdated
      <2>3. CASE row.invoice = i /\ payments[p] = q.row /\ Payable(j, amount, p)
            BY <1>7, <2>3 DEF Claimed, Payable
      <2>4. CASE row.invoice = i /\ payments[p] = q.row /\ ~Payable(j, amount, p)
            <3>1. j = i /\ j = payments[p].invoice /\ amount = payments[p].amount
                  BY <1>4, <1>7, <2>4 DEF Covered
            <3> QED BY <1>7, <2>4, <3>1 DEF Claimed
      <2> QED BY <2>1, <2>2, <2>3, <2>4
<1> HIDE DEF p, q, row
<1> QED BY <1>1, <1>2, <1>4, <1>5, <1>8, CoveredByOne

LEMMA CoveredApprove ==
    ASSUME Inv, NEW r \in Request, CommitApprove(r), NEW i \in Invoice, Covered(i)
    PROVE  ClaimsCovered(i)'
<1> DEFINE p == requests[r].payment
           j == requests[r].invoice
           locked == payments[p]
           amount == locked.amount
<1>1. Inv' /\ Typed
      BY StepApprove DEF Inv
<1>2. p \in Payment /\ j \in Invoice
      BY <1>1 DEF Typed, CommitApprove, RequestState, Idle
<1>3. /\ invoices' = [invoices EXCEPT ![j] = Received(invoices[j], amount)]
      /\ payments' = [payments EXCEPT ![p].status = "SUCCESS"]
      /\ Outdated({j, locked.invoice}, locked.invoice = j)
      /\ locked.status = "VERIFICATION_PENDING" /\ Receivable(invoices[j], amount)
      BY DEF CommitApprove, AwaitsVerification
<1>4. locked \in PaymentRow
      <2>1. Exists(p)
            BY <1>3 DEF Exists, PaymentStatus, Unverified
      <2> QED BY <1>1, <1>2, <2>1, ExistingRow
<1>5. /\ payments'[p].status = "SUCCESS"
      /\ \A q \in Payment : q # p => payments'[q] = payments[q]
      BY <1>1, <1>2, <1>3, <1>4 DEF Typed, PaymentRow
<1>6. Claimed(payments'[p], i) = 0
      BY <1>5 DEF Claimed, Unverified
<1>7. PICK others \in Nat, old \in Nat, new \in Nat :
          /\ others = Claims(i, p) /\ old = Claimed(payments[p], i) /\ new = Claimed(payments'[p], i)
          /\ Claims(i, Direct) = others + old /\ Claims(i, Direct)' = others + new
      BY <1>1, <1>2, <1>5, ClaimsOfOne
<1>8. /\ invoices'[j] = Received(invoices[j], amount)
      /\ \A x \in Invoice : x # j => invoices'[x] = invoices[x]
      BY <1>1, <1>2, <1>3 DEF Typed
<1>9. invoices[i] \in InvoiceRow /\ others + old <= invoices[i].pending
      BY <1>1, <1>7, LiveRow DEF Covered, ClaimsCovered
<1>10. CASE i # j
      <2>1. invoices'[i] = invoices[i]
            BY <1>8, <1>10
      <2>2. others + new <= invoices[i].pending
            BY <1>6, <1>7, <1>9 DEF InvoiceRow
      <2> QED BY <1>7, <2>1, <2>2 DEF ClaimsCovered
<1>11. CASE i = j
      <2>1. locked.invoice = i /\ i \notin stale
            BY <1>3, <1>11 DEF Covered, Outdated
      <2>2. old = amount
            BY <1>3, <1>7, <2>1 DEF Claimed, Unverified
      <2>3. /\ invoices[i].pending = invoices[i].total - invoices[i].paid
            /\ invoices[i].total \in Nat /\ invoices[i].paid \in Nat /\ amount \in Nat
            /\ invoices[i].paid + amount <= invoices[i].total
            BY <1>1, <1>3, <1>4, <1>9, <1>11, <2>1
            DEF Inv, NeverOverpaid, Covered, InvoiceRow, PaymentRow, Receivable
      <2>4. invoices'[i].pending = Remainder(invoices[i].total, invoices[i].paid + amount)
            BY <1>8, <1>9, <1>11 DEF Received, InvoiceRow
      <2>5. invoices'[i].pending = invoices[i].total - (invoices[i].paid + amount)
            <3>1. invoices[i].paid + amount \in Nat
                  BY <2>3
            <3>2. Remainder(invoices[i].total, invoices[i].paid + amount)
                      = invoices[i].total - (invoices[i].paid + amount)
                  BY <2>3, <3>1, RemainderNat
            <3> QED BY <2>4, <3>2
      <2>6. others + new <= invoices'[i].pending
            BY <1>6, <1>7, <1>9, <2>2, <2>3, <2>5
      <2> QED BY <1>7, <2>6 DEF ClaimsCovered
<1> QED BY <1>10, <1>11

LEMMA CoveredUpdateInvoice ==
    ASSUME Inv, NEW r \in Request, NEW total \in Total, CommitUpdateInvoice(r, total),
           NEW i \in Invoice, Covered(i)
    PROVE  ClaimsCovered(i)'
<1> DEFINE q == requests[r]
           j == q.invoice
           row == Flushed(invoices[j], q.row,
                          [q.row EXCEPT !.total = total, !.pending = Remainder(total, q.row.paid)])
<1>1. Typed
      BY DEF Inv
<1>2. j \in Invoice /\ q.row \in InvoiceRow
      BY <1>1 DEF Typed, CommitUpdateInvoice, RequestState, Idle
<1>3. /\ invoices' = [invoices EXCEPT ![j] = row] /\ payments' = payments
      /\ Outdated({j}, invoices[j] = q.row) /\ total >= q.row.paid
      BY DEF CommitUpdateInvoice, CoversPaid
<1>4. invoices'[j] = row /\ \A x \in Invoice : x # j => invoices'[x] = invoices[x]
      BY <1>1, <1>2, <1>3 DEF Typed
<1>5. Claims(i, Direct)' = Claims(i, Direct)
      BY <1>3, ClaimsSame
<1>6. invoices'[i].pending = invoices[i].pending
      <2>1. CASE i # j
            BY <1>4, <2>1
      <2>2. CASE i = j
            <3>1. invoices[i] = q.row /\ i \notin stale
                  BY <1>3, <2>2 DEF Covered, Outdated
            <3>2. row = [q.row EXCEPT !.total = total, !.pending = Remainder(total, q.row.paid)]
                  BY <1>2, <2>2, <3>1 DEF Flushed, InvoiceRow
            <3>3. row.total = total /\ row.pending = Remainder(total, q.row.paid)
                  BY <1>2, <3>2 DEF InvoiceRow
            <3>4. total = q.row.total
                  BY <1>4, <2>2, <3>1, <3>3 DEF Covered
            <3>5. q.row.pending = q.row.total - q.row.paid
                  BY <3>1 DEF Inv, NeverOverpaid, Covered
            <3>6. q.row.paid \in Nat /\ q.row.total \in Nat
                  BY <1>2 DEF InvoiceRow
            <3>7. Remainder(total, q.row.paid) = total - q.row.paid
                  BY <1>3, <3>4, <3>6, RemainderNat
            <3> QED BY <1>4, <2>2, <3>1, <3>3, <3>4, <3>5, <3>7
      <2> QED BY <2>1, <2>2
<1> QED BY <1>5, <1>6 DEF Covered, ClaimsCovered

LEMMA CoveredInvoice ==
    ASSUME Inv, txns \in Seq(TxnRow \cup {Deleted}), NEW j \in Invoice, InvoiceStep(j),
           NEW i \in Invoice, Covered(i)
    PROVE  ClaimsCovered(i)'
<1>1. Typed
      BY DEF Inv
<1>2. ASSUME NEW total \in Total, CreateInvoice(j, total) PROVE ClaimsCovered(i)'
      <2>1. i # j
            BY <1>2 DEF Covered, CreateInvoice, Live, Absent, InvoiceStatus
      <2>2. invoices'[i] = invoices[i] /\ payments' = payments
            BY <1>1, <1>2, <2>1 DEF CreateInvoice, Typed
      <2>3. Claims(i, Direct)' = Claims(i, Direct)
            BY <2>2, ClaimsSame
      <2> QED BY <2>2, <2>3 DEF Covered, ClaimsCovered
<1>3. ASSUME DeleteInvoice(j) PROVE ClaimsCovered(i)'
      <2>1. invoices' = [invoices EXCEPT ![j] = Deleted]
            /\ payments' = [p \in Payment |-> IF Exists(p) /\ payments[p].invoice = j
                                              THEN Deleted ELSE payments[p]]
            BY <1>3 DEF DeleteInvoice
      <2>2. i # j
            BY <1>1, <2>1 DEF Typed, Covered, Live, Deleted, InvoiceStatus
      <2>3. invoices'[i] = invoices[i]
            BY <1>1, <2>1, <2>2 DEF Typed
      <2>4. \A p \in Payment : Claimed(payments'[p], i) = Claimed(payments[p], i)
            BY <2>1, <2>2 DEF Claimed, Deleted, Unverified
      <2>5. Claims(i, Direct)' = Claims(i, Direct)
            BY <2>4, ClaimsSame
      <2> QED BY <2>3, <2>5 DEF Covered, ClaimsCovered
<1>4. ASSUME NEW amount, txns' = Booked(j, Direct, amount), amount \in Nat
      PROVE  ClaimsCovered(i)'
      <2> DEFINE row == [invoice |-> j, payment |-> Direct, amount |-> amount]
      <2>1. txns' = Append(txns, row) /\ row \in TxnRow /\ row.payment = Direct
            BY <1>4 DEF Booked, TxnRow
      <2> HIDE DEF row
      <2>2. Len(txns) \in Nat /\ Len(txns') = Len(txns) + 1 /\ txns'[Len(txns) + 1] = row
            BY <2>1, AppendProperties, LenProperties
      <2>3. Len(txns) + 1 \in 1..Len(txns') /\ Len(txns) + 1 > Len(txns)
            BY <2>2
      <2> QED BY <2>1, <2>2, <2>3 DEF Covered
<1>5. ASSUME NEW amount \in Amount, PayInvoice(j, amount) PROVE ClaimsCovered(i)'
      BY <1>4, <1>5, AmountAssumption DEF PayInvoice
<1>6. ASSUME MarkPaid(j) PROVE ClaimsCovered(i)'
      <2>1. invoices[j].pending \in Nat
            BY <1>1, <1>6, LiveRow DEF MarkPaid, InvoiceRow
      <2> QED BY <1>4, <1>6, <2>1 DEF MarkPaid
<1> QED BY <1>2, <1>3, <1>5, <1>6 DEF InvoiceStep

LEMMA CoveredStep ==
    ASSUME MoneyInv, [Next]_vars, payments' # payments \/ invoices' # invoices,
           NEW i \in Invoice, Covered(i)
    PROVE  ClaimsCovered(i)'
<1>1. Inv /\ txns \in Seq(TxnRow \cup {Deleted})
      BY DEF MoneyInv
<1>2. ASSUME NEW j \in Invoice, InvoiceStep(j) PROVE ClaimsCovered(i)'
      BY <1>1, <1>2, CoveredInvoice
<1>3. ASSUME NEW p \in Payment, PaymentStep(p) PROVE ClaimsCovered(i)'
      BY <1>1, <1>3, CoveredPayment
<1>4. ASSUME NEW r \in Request, Commit(r) PROVE ClaimsCovered(i)'
      BY <1>1, <1>4, CoveredUpdatePayment, CoveredApprove, CoveredReject, CoveredUpdateInvoice
      DEF Commit
<1>5. \A r \in Request : ~(Begin(r) \/ Abort(r))
      BY DEF Begin, Abort, BeginUpdatePayment, BeginVerify, BeginUpdateInvoice
<1> QED BY <1>2, <1>3, <1>4, <1>5 DEF Next, vars

\* Client payments never claim more of an invoice together than is pending, whatever
\* creations, updates, approvals and deletions overlap and however many payments there are.
THEOREM ClaimsStayCoveredAlways == Spec => ClaimsStayCovered
<1> DEFINE A == payments' # payments \/ invoices' # invoices =>
                    \A i \in Invoice : Covered(i) => ClaimsCovered(i)'
<1>1. MoneyInv /\ [Next]_vars => [A]_vars
      BY CoveredStep
<1>2. [][A]_vars => ClaimsStayCovered
      <2>1. A => (payments' # payments \/ invoices' # invoices =>
                    \A i \in Invoice :
                       (/\ i \notin stale' /\ Live(i) /\ Live(i)'
                        /\ invoices'[i].total = invoices[i].total
                        /\ \A t \in 1..Len(txns') : t > Len(txns) => txns'[t].payment # Direct
                        /\ ClaimsCovered(i))
                       => ClaimsCovered(i)')
            BY DEF Covered
      <2> QED BY <2>1, PTL DEF ClaimsStayCovered
<1> HIDE DEF A
<1> QED BY <1>1, <1>2, MoneyAlways, PTL DEF Spec
=============================================================================
