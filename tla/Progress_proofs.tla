--------------------------- MODULE Progress_proofs ---------------------------
(***************************************************************************)
(* Proofs for the parts whose progress is checked together.                 *)
(* SaasBilling: an event is applied once, a manual payment is invoiced      *)
(* once, and bank references are unique, for any number of overlapping      *)
(* requests, messages and manual payments.  BusinessIds: no two requests    *)
(* are answered with one id, for any number of overlapping requests and     *)
(* attempts.  ReconciliationWorker: for any number of worker processes and  *)
(* crashes, scans do not overlap as long as no worker scanned without the   *)
(* key and no key expired under its holder.                                 *)
(* MCProgress: every row, key and lock keeps its type, in every scene.       *)
(***************************************************************************)
EXTENDS MCProgress, TLAPS

-----------------------------------------------------------------------------
(* SaasBilling. *)

\* What the arguments need of the types: the rows of the two tables concerned
\* and which row each open request is about.
RowsTyped ==
    /\ rows \in [EventId -> {"absent", "processed", "failed"}]
    /\ txns \in [Txn -> TxnRow]
    /\ clock \in Nat
    /\ history \in Seq(Message)

RequestsTyped ==
    /\ requests = [r \in Request |-> requests[r]]
    /\ \A r \in Request :
        /\ requests[r].op = "webhook" => requests[r].message \in Message
        /\ requests[r].op \in {"submit", "verify", "reject"} => requests[r].txn \in Txn

\* The unique constraint is what carries AppliedOnce: an applied event has its row.
AppliedHasRow == \A i \in DOMAIN history : rows[Feed[history[i]].id] = "processed"

OnceInv == RowsTyped /\ RequestsTyped /\ AppliedHasRow /\ AppliedOnce /\ ManualPaymentOnce /\ UtrUnique

-----------------------------------------------------------------------------
\* A request is opened, ended or left alone without spoiling RequestsTyped.
LEMMA StartTyped ==
    ASSUME RequestsTyped, NEW r \in Request, NEW q, Start(r, q),
           q.op = "webhook" => q.message \in Message,
           q.op \in {"submit", "verify", "reject"} => q.txn \in Txn
    PROVE  RequestsTyped'
BY DEF RequestsTyped, Start

LEMMA DoneTyped ==
    ASSUME RequestsTyped, NEW r \in Request, Done(r)
    PROVE  RequestsTyped'
BY DEF RequestsTyped, Done, Idle

LEMMA AbsentUtr == NoUtr \notin Utr
BY AbsentAssumption

LEMMA EventIds == \A m \in Message : Feed[m].id \in EventId
BY DEF EventId

\* Steps that leave the event rows, the history and the manual payments alone.
LEMMA Untouched ==
    ASSUME OnceInv, UNCHANGED <<rows, txns, history>>, clock' \in Nat, RequestsTyped'
    PROVE  OnceInv'
BY DEF OnceInv, RowsTyped, AppliedHasRow, AppliedOnce, ManualPaymentOnce, UtrUnique

\* A committed webhook: its event had no row, so it was never applied before.
LEMMA CommitApplies ==
    ASSUME OnceInv, NEW r \in Request, CommitWebhook(r)
    PROVE  OnceInv'
<1> DEFINE m == requests[r].message
           id == Feed[m].id
<1>1. m \in Message /\ id \in EventId /\ rows[id] = "absent"
  BY EventIds DEF OnceInv, RequestsTyped, RowsTyped, CommitWebhook, SameEvent
<1>2. /\ rows' = [rows EXCEPT ![id] = "processed"]
      /\ history' = Append(history, m)
      /\ clock' = clock \/ clock' = clock + 1
      /\ txns' = txns
  BY DEF CommitWebhook
<1>3. RequestsTyped'
  BY DoneTyped DEF OnceInv, CommitWebhook
<1> HIDE DEF id
<1>4. RowsTyped'
  BY <1>1, <1>2 DEF OnceInv, RowsTyped
<1>5. /\ DOMAIN history' = 1..(Len(history) + 1)
      /\ history'[Len(history) + 1] = m
      /\ \A i \in DOMAIN history : history'[i] = history[i]
      /\ DOMAIN history = 1..Len(history) /\ Len(history) \in Nat
  BY <1>1, <1>2 DEF OnceInv, RowsTyped
<1>6. AppliedHasRow'
  <2> SUFFICES ASSUME NEW i \in DOMAIN history'
               PROVE  rows'[Feed[history'[i]].id] = "processed"
    BY DEF AppliedHasRow
  <2>1. CASE i \in DOMAIN history
    <3>1. rows[Feed[history[i]].id] = "processed" /\ history'[i] = history[i]
      BY <2>1, <1>5 DEF OnceInv, AppliedHasRow
    <3>2. Feed[history[i]].id \in EventId
      BY <2>1, EventIds DEF OnceInv, RowsTyped
    <3> QED  BY <3>1, <3>2, <1>1, <1>2 DEF OnceInv, RowsTyped
  <2>2. CASE i = Len(history) + 1
    BY <2>2, <1>1, <1>2, <1>5 DEF OnceInv, RowsTyped, id
  <2> QED  BY <2>1, <2>2, <1>5
<1>7. AppliedOnce'
  <2> SUFFICES ASSUME NEW i \in DOMAIN history', NEW j \in DOMAIN history',
                      Feed[history'[i]].id = Feed[history'[j]].id
               PROVE  i = j
    BY DEF AppliedOnce
  <2>1. \A k \in DOMAIN history : Feed[history[k]].id # id
    BY <1>1 DEF OnceInv, AppliedHasRow
  <2>2. CASE i \in DOMAIN history /\ j \in DOMAIN history
    BY <2>2, <1>5 DEF OnceInv, AppliedOnce
  <2>3. CASE i = Len(history) + 1 /\ j \in DOMAIN history
    BY <2>3, <2>1, <1>5 DEF id
  <2>4. CASE j = Len(history) + 1 /\ i \in DOMAIN history
    BY <2>4, <2>1, <1>5 DEF id
  <2> QED  BY <2>2, <2>3, <2>4, <1>5
<1>8. ManualPaymentOnce' /\ UtrUnique'
  BY <1>2 DEF OnceInv, ManualPaymentOnce, UtrUnique
<1> QED  BY <1>3, <1>4, <1>6, <1>7, <1>8 DEF OnceInv

\* Steps on one manual payment that leave the event rows and the history alone.
LEMMA ManualStep ==
    ASSUME OnceInv, UNCHANGED <<rows, history>>, clock' \in Nat, RequestsTyped',
           NEW t \in Txn, NEW row \in TxnRow, txns' = [txns EXCEPT ![t] = row],
           row.upiInvoices = IF row.status = "verified" THEN 1 ELSE 0,
           row.utr = txns[t].utr \/ \A u \in Txn \ {t} : txns[u].utr # row.utr
    PROVE  OnceInv'
<1>1. RowsTyped'
  BY DEF OnceInv, RowsTyped
<1>2. AppliedHasRow' /\ AppliedOnce'
  BY DEF OnceInv, AppliedHasRow, AppliedOnce
<1>3. ManualPaymentOnce'
  BY DEF OnceInv, RowsTyped, ManualPaymentOnce
<1>4. UtrUnique'
  BY DEF OnceInv, RowsTyped, UtrUnique
<1> QED  BY <1>1, <1>2, <1>3, <1>4 DEF OnceInv

-----------------------------------------------------------------------------
LEMMA InitOnce == Init => OnceInv
<1> SUFFICES ASSUME Init PROVE OnceInv
  OBVIOUS
<1>1. RowsTyped /\ RequestsTyped
  BY DEF Init, RowsTyped, RequestsTyped, TxnRow, Idle
<1>2. AppliedHasRow /\ AppliedOnce
  BY DEF Init, AppliedHasRow, AppliedOnce
<1>3. ManualPaymentOnce /\ UtrUnique
  BY DEF Init, ManualPaymentOnce, UtrUnique
<1> QED  BY <1>1, <1>2, <1>3 DEF OnceInv

LEMMA ManualOnce ==
    ASSUME OnceInv, NEW r \in Request,
           (\E utr \in Utr : CommitSubmitUtr(r, utr)) \/ CommitVerify(r) \/ CommitReject(r)
    PROVE  OnceInv'
<1> DEFINE t == requests[r].txn
<1>1. t \in Txn /\ txns \in [Txn -> TxnRow] /\ clock \in Nat
  BY DEF OnceInv, RequestsTyped, RowsTyped, CommitSubmitUtr, CommitVerify, CommitReject
<1>2. RequestsTyped'
  BY DoneTyped DEF OnceInv, CommitSubmitUtr, CommitVerify, CommitReject
<1>3. txns[t].upiInvoices = IF txns[t].status = "verified" THEN 1 ELSE 0
  BY <1>1 DEF OnceInv, ManualPaymentOnce
<1>4. ASSUME NEW utr \in Utr, CommitSubmitUtr(r, utr) PROVE OnceInv'
  <2> DEFINE row == [txns[t] EXCEPT !.utr = IF requests[r].seen.txns[t].utr = utr THEN @ ELSE utr]
  <2>1. /\ txns' = [txns EXCEPT ![t] = row]
        /\ UNCHANGED <<rows, history, clock>>
        /\ \A u \in Txn \ {t} : txns[u].utr # utr
    BY <1>4, <1>1 DEF CommitSubmitUtr, UtrFree
  <2>2. /\ row \in TxnRow
        /\ row.status = txns[t].status /\ row.upiInvoices = txns[t].upiInvoices
        /\ row.utr = txns[t].utr \/ row.utr = utr
    BY <1>1 DEF TxnRow
  <2> HIDE DEF row
  <2> QED  BY <2>1, <2>2, <1>1, <1>2, <1>3, ManualStep
<1>5. CASE CommitVerify(r)
  <2> DEFINE row == Verified(txns[t], clock')
  <2>1. /\ txns' = [txns EXCEPT ![t] = row]
        /\ UNCHANGED <<rows, history>> /\ clock' \in Nat
        /\ txns[t].status = "pending"
    BY <1>5, <1>1 DEF CommitVerify, Decidable
  <2>2. /\ row \in TxnRow /\ row.status = "verified"
        /\ row.upiInvoices = 1 /\ row.utr = txns[t].utr
    BY <1>1, <1>3, <2>1 DEF TxnRow, Verified
  <2> HIDE DEF row
  <2> QED  BY <2>1, <2>2, <1>1, <1>2, ManualStep
<1>6. CASE CommitReject(r)
  <2> DEFINE row == [txns[t] EXCEPT !.status = "rejected"]
  <2>1. /\ txns' = [txns EXCEPT ![t] = row]
        /\ UNCHANGED <<rows, history, clock>>
        /\ txns[t].status = "pending"
    BY <1>6, <1>1 DEF CommitReject, Decidable
  <2>2. /\ row \in TxnRow /\ row.status = "rejected"
        /\ row.upiInvoices = 0 /\ row.utr = txns[t].utr
    BY <1>1, <1>3, <2>1 DEF TxnRow
  <2> HIDE DEF row
  <2> QED  BY <2>1, <2>2, <1>1, <1>2, ManualStep
<1> QED  BY <1>4, <1>5, <1>6

LEMMA NextOnce == OnceInv /\ [Next]_vars => OnceInv'
<1> SUFFICES ASSUME OnceInv, [Next]_vars PROVE OnceInv'
  OBVIOUS
<1>0. RequestsTyped /\ RowsTyped
  BY DEF OnceInv
<1>1. ASSUME NEW m \in Message, Emit(m) \/ AnswerDuplicate(m) PROVE OnceInv'
  <2>1. UNCHANGED <<rows, txns, history, requests>> /\ clock' \in Nat
    BY <1>0, <1>1 DEF Emit, AnswerDuplicate, tables, RowsTyped
  <2> QED  BY <2>1, <1>0, Untouched DEF RequestsTyped
<1>2. ASSUME NEW t \in Txn, CreateManualPayment(t) PROVE OnceInv'
  <2> DEFINE row == [txns[t] EXCEPT !.status = "pending"]
  <2>1. /\ txns' = [txns EXCEPT ![t] = row]
        /\ UNCHANGED <<rows, history, clock, requests>>
        /\ txns[t].status = "absent"
    BY <1>0, <1>2 DEF CreateManualPayment, RowsTyped
  <2>2. /\ row \in TxnRow /\ row.status = "pending"
        /\ row.upiInvoices = 0 /\ row.utr = txns[t].utr
    BY <1>0, <2>1 DEF TxnRow, RowsTyped, OnceInv, ManualPaymentOnce
  <2>3. RequestsTyped' /\ clock' \in Nat
    BY <1>0, <2>1 DEF RequestsTyped, RowsTyped
  <2> HIDE DEF row
  <2> QED  BY <2>1, <2>2, <2>3, ManualStep
<1>3. ASSUME NEW r \in Request, NEW m \in Message, BeginWebhook(r, m) PROVE OnceInv'
  <2>1. RequestsTyped'
    BY <1>0, <1>3, StartTyped DEF BeginWebhook
  <2> QED  BY <1>0, <1>3, <2>1, Untouched DEF BeginWebhook, tables, RowsTyped
<1>4. ASSUME NEW r \in Request, CommitWebhook(r) PROVE OnceInv'
  BY <1>4, CommitApplies
<1>5. ASSUME NEW r \in Request, RejectWebhook(r) \/ Abort(r) PROVE OnceInv'
  <2>1. RequestsTyped'
    BY <1>0, <1>5, DoneTyped DEF RejectWebhook, Abort
  <2> QED  BY <1>0, <1>5, <2>1, Untouched DEF RejectWebhook, Abort, tables, RowsTyped
<1>6. ASSUME NEW r \in Request, FailWebhook(r) PROVE OnceInv'
  <2> DEFINE id == Feed[requests[r].message].id
  <2>1. RequestsTyped' /\ id \in EventId
    BY <1>0, <1>6, DoneTyped, EventIds DEF FailWebhook, RequestsTyped
  <2>2. /\ UNCHANGED <<txns, history, clock>>
        /\ rows' = rows \/ (rows' = [rows EXCEPT ![id] = "failed"] /\ rows[id] = "absent")
    BY <1>6 DEF FailWebhook
  <2> HIDE DEF id
  <2>3. RowsTyped'
    BY <1>0, <2>1, <2>2 DEF RowsTyped
  <2>4. AppliedHasRow'
    BY <2>1, <2>2, <1>0, EventIds DEF OnceInv, AppliedHasRow, RowsTyped
  <2>5. AppliedOnce' /\ ManualPaymentOnce' /\ UtrUnique'
    BY <2>2 DEF OnceInv, AppliedOnce, ManualPaymentOnce, UtrUnique
  <2> QED  BY <2>1, <2>3, <2>4, <2>5 DEF OnceInv
<1>7. ASSUME NEW r \in Request, BeginAdmin(r) PROVE OnceInv'
  <2>1. RequestsTyped'
    BY <1>0, <1>7, StartTyped DEF BeginAdmin
  <2> QED  BY <1>0, <1>7, <2>1, Untouched DEF BeginAdmin, tables, RowsTyped
<1>8. ASSUME NEW r \in Request, NEW row, AdminWrites(r, row) PROVE OnceInv'
  <2>1. RequestsTyped'
    BY <1>0, <1>8, DoneTyped DEF AdminWrites
  <2>2. UNCHANGED <<rows, txns, history>> /\ clock' \in Nat
    BY <1>0, <1>8 DEF AdminWrites, RowsTyped
  <2> QED  BY <2>1, <2>2, Untouched
<1>9. ASSUME NEW r \in Request, NEW t \in Txn, NEW op \in {"submit", "verify", "reject"},
             BeginManual(r, op, t)
      PROVE  OnceInv'
  <2>1. RequestsTyped'
    BY <1>0, <1>9, StartTyped DEF BeginManual
  <2> QED  BY <1>0, <1>9, <2>1, Untouched DEF BeginManual, tables, RowsTyped
<1>10. ASSUME NEW r \in Request,
              (\E utr \in Utr : CommitSubmitUtr(r, utr)) \/ CommitVerify(r) \/ CommitReject(r)
       PROVE  OnceInv'
  BY <1>10, ManualOnce
<1>11. CASE UNCHANGED vars
  <2>1. UNCHANGED <<rows, txns, history, requests, clock>>
    BY <1>11 DEF vars, tables
  <2> QED  BY <2>1, <1>0, Untouched DEF RequestsTyped, RowsTyped
<1> QED
  <2>1. CASE Next
    <3>1. ASSUME NEW r \in Request, NEW status \in AdminStatus,
                 SetStatus(r, status)
                 \/ \E plan \in Plan, restart \in BOOLEAN : AssignPlan(r, status, plan, restart)
          PROVE  OnceInv'
      BY <3>1, <1>8 DEF SetStatus, AssignPlan
    <3> QED
      BY <2>1, <1>1, <1>2, <1>3, <1>4, <1>5, <1>6, <1>7, <1>9, <1>10, <3>1 DEF Next
  <2> QED  BY <2>1, <1>11

-----------------------------------------------------------------------------
THEOREM OnceAlways == Spec => []OnceInv
BY InitOnce, NextOnce, PTL DEF Spec

\* An event id's effects are committed at most once, for any deliveries, any
\* failures and any overlap of the handlers.
THEOREM EventsAppliedOnce == Spec => []AppliedOnce
<1>1. OnceInv => AppliedOnce
  BY DEF OnceInv
<1> QED  BY <1>1, OnceAlways, PTL

\* A manual payment yields one paid UPI invoice exactly when it is verified.
THEOREM ManualPaymentsOnce == Spec => []ManualPaymentOnce
<1>1. OnceInv => ManualPaymentOnce
  BY DEF OnceInv
<1> QED  BY <1>1, OnceAlways, PTL

\* Bank references stay unique across manual payments.
THEOREM UtrsUnique == Spec => []UtrUnique
<1>1. OnceInv => UtrUnique
  BY DEF OnceInv
<1> QED  BY <1>1, OnceAlways, PTL

-----------------------------------------------------------------------------
(* Types: a snapshot is typed like the tables it was taken from, and what a    *)
(* handler makes of a typed snapshot is typed.                                 *)

Activity == [failed : Nat, admin : Nat]

SnapshotTyped(s) ==
    /\ s.sub \in SubRow
    /\ s.invoices \in [Invoice -> InvoiceRow]
    /\ s.activity \in Activity
    /\ s.txns \in [Txn -> TxnRow]

Op == {"idle", "webhook", "admin", "submit", "verify", "reject"}

SnapshotsTyped ==
    \A r \in Request : requests[r].op \in Op
                       /\ (requests[r] # Idle => SnapshotTyped(requests[r].seen))

TypeInv == TypeOK /\ RequestsTyped /\ SnapshotsTyped

\* Writing what a request changed of a row leaves a row.
LEMMA FlushedSub ==
    ASSUME NEW cur \in SubRow, NEW old \in SubRow, NEW new \in SubRow
    PROVE  Flushed(cur, old, new) \in SubRow
<1>1. /\ DOMAIN cur = {"status", "plan", "ext", "start"}
      /\ cur = [status |-> cur.status, plan |-> cur.plan, ext |-> cur.ext, start |-> cur.start]
  BY DEF SubRow
<1>2. Flushed(cur, old, new) =
        [status |-> IF new.status = old.status THEN cur.status ELSE new.status,
         plan   |-> IF new.plan = old.plan THEN cur.plan ELSE new.plan,
         ext    |-> IF new.ext = old.ext THEN cur.ext ELSE new.ext,
         start  |-> IF new.start = old.start THEN cur.start ELSE new.start]
  BY <1>1 DEF Flushed
<1> QED  BY <1>2 DEF SubRow

LEMMA FlushedInvoice ==
    ASSUME NEW cur \in InvoiceRow, NEW old \in InvoiceRow, NEW new \in InvoiceRow
    PROVE  Flushed(cur, old, new) \in InvoiceRow
<1>1. DOMAIN cur = {"status", "created", "paid"}
  BY DEF InvoiceRow
<1>2. Flushed(cur, old, new) =
        [status  |-> IF new.status = old.status THEN cur.status ELSE new.status,
         created |-> IF new.created = old.created THEN cur.created ELSE new.created,
         paid    |-> IF new.paid = old.paid THEN cur.paid ELSE new.paid]
  BY <1>1 DEF Flushed
<1> QED  BY <1>2 DEF InvoiceRow

LEMMA FlushedTables ==
    ASSUME NEW cur \in [Invoice -> InvoiceRow], NEW old \in [Invoice -> InvoiceRow],
           NEW new \in [Invoice -> InvoiceRow]
    PROVE  [i \in Invoice |-> Flushed(cur[i], old[i], new[i])] \in [Invoice -> InvoiceRow]
<1>1. ASSUME NEW i \in Invoice PROVE Flushed(cur[i], old[i], new[i]) \in InvoiceRow
  BY FlushedInvoice
<1> QED  BY <1>1

\* A webhook handler makes rows of rows.
LEMMA HandledTyped ==
    ASSUME NEW m \in Message, NEW s, SnapshotTyped(s), at[m] \in Nat
    PROVE  /\ Handled(m, s).sub \in SubRow
           /\ Handled(m, s).invoices \in [Invoice -> InvoiceRow]
<1> DEFINE i == Feed[m].invoice
           Typed(h) == h.sub \in SubRow /\ h.invoices \in [Invoice -> InvoiceRow]
<1>0. /\ i \in Invoice \/ i = NoInvoice
      /\ Feed[m].plan \in Plan \/ Feed[m].plan = NoPlan
      /\ Feed[m].sub \in ProviderSub \cup {NoSub}
      /\ s.sub \in SubRow /\ s.invoices \in [Invoice -> InvoiceRow]
  BY FeedAssumption DEF SnapshotTyped
<1>1. Typed(Ignored(s))
  BY <1>0 DEF Ignored, Result
<1>2. Typed(PaymentSucceeded(m, s))
  <2> DEFINE plan == IF Feed[m].plan = NoPlan THEN s.sub.plan ELSE Feed[m].plan
             row  == IF s.invoices[i].status = "absent"
                     THEN [status |-> "paid", created |-> at[m], paid |-> at[m]]
                     ELSE [s.invoices[i] EXCEPT !.status = "paid", !.paid = at[m]]
             subRow == [s.sub EXCEPT !.status = "active", !.ext = Feed[m].sub, !.plan = plan]
             rs == IF i = NoInvoice THEN s.invoices ELSE [s.invoices EXCEPT ![i] = row]
  <2>1. subRow \in SubRow
    BY <1>0 DEF SubRow, SubStatus
  <2>2. i \in Invoice => row \in InvoiceRow
    BY <1>0 DEF InvoiceRow
  <2>3. rs \in [Invoice -> InvoiceRow]
    BY <1>0, <2>2
  <2>4. PaymentSucceeded(m, s) = Ignored(s)
        \/ PaymentSucceeded(m, s) = Result(s, subRow, rs, FALSE)
    BY DEF PaymentSucceeded
  <2> HIDE DEF subRow, rs
  <2> QED  BY <2>1, <2>3, <2>4, <1>1 DEF Result
<1>3. Typed(PaymentFailed(m, s))
  <2> DEFINE rs == IF i = NoInvoice THEN s.invoices
                   ELSE [s.invoices EXCEPT ![i] = FailedRow(m, @)]
             subRow == [s.sub EXCEPT !.status = "past_due"]
  <2>1. subRow \in SubRow
    BY <1>0 DEF SubRow, SubStatus
  <2>2. i \in Invoice => FailedRow(m, s.invoices[i]) \in InvoiceRow
    BY <1>0 DEF InvoiceRow, FailedRow
  <2>3. rs \in [Invoice -> InvoiceRow]
    BY <1>0, <2>2
  <2>4. \/ PaymentFailed(m, s) = Ignored(s)
        \/ PaymentFailed(m, s) = Result(s, s.sub, rs, FALSE)
        \/ PaymentFailed(m, s) = Result(s, subRow, rs, TRUE)
    BY DEF PaymentFailed
  <2> HIDE DEF subRow, rs
  <2> QED  BY <2>1, <2>3, <2>4, <1>0, <1>1 DEF Result
<1>4. Typed(SubscriptionDeleted(m, s))
  <2> DEFINE subRow == [s.sub EXCEPT !.status = "cancelled"]
  <2>1. subRow \in SubRow
    BY <1>0 DEF SubRow, SubStatus
  <2>2. \/ SubscriptionDeleted(m, s) = Ignored(s)
        \/ SubscriptionDeleted(m, s) = Result(s, subRow, s.invoices, FALSE)
    BY DEF SubscriptionDeleted
  <2> HIDE DEF subRow
  <2> QED  BY <2>1, <2>2, <1>0, <1>1 DEF Result
<1>5. Typed(RefundProcessed(m, s))
  <2> DEFINE rs == [s.invoices EXCEPT ![i].status = "refunded"]
  <2>1. i \in Invoice => rs \in [Invoice -> InvoiceRow]
    BY <1>0 DEF InvoiceRow
  <2>2. \/ RefundProcessed(m, s) = Ignored(s)
        \/ i # NoInvoice /\ RefundProcessed(m, s) = Result(s, s.sub, rs, FALSE)
    BY DEF RefundProcessed
  <2> HIDE DEF rs
  <2> QED  BY <2>1, <2>2, <1>0, <1>1 DEF Result
<1> HIDE DEF Typed
<1>6. Typed(Handled(m, s))
  BY <1>2, <1>3, <1>4, <1>5 DEF Handled
<1> QED  BY <1>6 DEF Typed

LEMMA StoreTyped == TypeOK => SnapshotTyped(Store)
BY DEF TypeOK, SnapshotTyped, Store, Activity

LEMMA StartSnapshots ==
    ASSUME SnapshotsTyped, NEW r \in Request, NEW q, Start(r, q),
           RequestsTyped, q.op \in Op, SnapshotTyped(q.seen)
    PROVE  SnapshotsTyped'
BY DEF SnapshotsTyped, RequestsTyped, Start, SnapshotTyped

LEMMA DoneSnapshots ==
    ASSUME SnapshotsTyped, RequestsTyped, NEW r \in Request, Done(r)
    PROVE  SnapshotsTyped'
BY DEF SnapshotsTyped, RequestsTyped, Done, Idle, Op, SnapshotTyped

-----------------------------------------------------------------------------
LEMMA InitTypes == Init => TypeInv
<1> SUFFICES ASSUME Init PROVE TypeInv
  OBVIOUS
<1>1. RequestsTyped /\ SnapshotsTyped
  BY DEF Init, RequestsTyped, SnapshotsTyped, Idle, Op
<1>2. sub \in SubRow
  <2>1. PICK st \in {"trial", "active"}, p \in Plan :
           sub = [status |-> st, plan |-> p, ext |-> NoSub, start |-> 1]
    BY DEF Init
  <2> QED  BY <2>1 DEF SubRow, SubStatus
<1>3. TypeOK
  BY <1>2 DEF Init, TypeOK, InvoiceRow, TxnRow, Idle
<1> QED  BY <1>1, <1>3 DEF TypeInv

\* Steps that open, end or leave the requests and touch the clock, the times and
\* the answers at most.
LEMMA TypesUntouched ==
    ASSUME TypeInv, RequestsTyped', SnapshotsTyped', UNCHANGED <<tables, history>>,
           clock' \in Nat, at' \in [Message -> Nat], acked' \subseteq Message
    PROVE  TypeInv'
<1>1. UNCHANGED <<sub, invoices, activity, rows, txns, history>>
  BY DEF tables
<1> QED  BY <1>1 DEF TypeInv, TypeOK, SnapshotsTyped, Op

LEMMA TypesNext == TypeInv /\ [Next]_vars => TypeInv'
<1> SUFFICES ASSUME TypeInv, [Next]_vars PROVE TypeInv'
  OBVIOUS
<1>0. TypeOK /\ RequestsTyped /\ SnapshotsTyped
  BY DEF TypeInv
<1>a. ASSUME NEW r \in Request, Done(r) PROVE RequestsTyped' /\ SnapshotsTyped'
  BY <1>0, <1>a, DoneTyped, DoneSnapshots
<1>s. ASSUME NEW r \in Request, requests[r].op \in Op \ {"idle"}
      PROVE  SnapshotTyped(requests[r].seen)
  BY <1>0, <1>s DEF SnapshotsTyped, Idle
<1>1. ASSUME NEW m \in Message, Emit(m) \/ AnswerDuplicate(m) PROVE TypeInv'
  <2>1. UNCHANGED <<tables, history, requests>> /\ clock' \in Nat
        /\ at' \in [Message -> Nat] /\ acked' \subseteq Message
    <3>1. clock \in Nat /\ at \in [Message -> Nat] /\ acked \subseteq Message
      BY <1>0 DEF TypeOK
    <3>2. CASE Emit(m)
      BY <3>1, <3>2 DEF Emit
    <3>3. CASE AnswerDuplicate(m)
      BY <3>1, <3>3 DEF AnswerDuplicate, Answered
    <3> QED BY <1>1, <3>2, <3>3
  <2>2. RequestsTyped' /\ SnapshotsTyped'
    BY <1>0, <2>1 DEF RequestsTyped, SnapshotsTyped, SnapshotTyped
  <2> QED  BY <2>1, <2>2, TypesUntouched
<1>2. ASSUME NEW t \in Txn, CreateManualPayment(t) PROVE TypeInv'
  <2>1. RequestsTyped' /\ SnapshotsTyped'
    BY <1>0, <1>2 DEF CreateManualPayment, RequestsTyped, SnapshotsTyped, SnapshotTyped
  <2>2. txns' \in [Txn -> TxnRow]
    BY <1>0, <1>2 DEF CreateManualPayment, TypeOK, TxnRow
  <2> QED
    BY <1>0, <1>2, <2>1, <2>2 DEF CreateManualPayment, TypeInv, TypeOK, SnapshotsTyped, Op
<1>3. ASSUME NEW r \in Request,
             \/ \E m \in Message : BeginWebhook(r, m)
             \/ BeginAdmin(r)
             \/ \E t \in Txn, op \in {"submit", "verify", "reject"} : BeginManual(r, op, t)
      PROVE  TypeInv'
  <2>1. PICK q : /\ Start(r, q) /\ q.seen = Store /\ q.op \in Op
                 /\ q.op = "webhook" => q.message \in Message
                 /\ q.op \in {"submit", "verify", "reject"} => q.txn \in Txn
    <3> DEFINE Opens(q) == /\ Start(r, q) /\ q.seen = Store /\ q.op \in Op
                           /\ q.op = "webhook" => q.message \in Message
                           /\ q.op \in {"submit", "verify", "reject"} => q.txn \in Txn
    <3>1. ASSUME NEW m \in Message, BeginWebhook(r, m)
          PROVE  Opens([op |-> "webhook", message |-> m, seen |-> Store])
      BY <3>1 DEF BeginWebhook, Op
    <3>2. BeginAdmin(r) => Opens([op |-> "admin", seen |-> Store])
      BY DEF BeginAdmin, Op
    <3>3. ASSUME NEW t \in Txn, NEW op \in {"submit", "verify", "reject"}, BeginManual(r, op, t)
          PROVE  Opens([op |-> op, txn |-> t, seen |-> Store])
      BY <3>3 DEF BeginManual, Op
    <3>4. \E q : Opens(q)
      <4> HIDE DEF Opens
      <4> QED  BY <1>3, <3>1, <3>2, <3>3
    <3> QED  BY <3>4
  <2>2. RequestsTyped' /\ SnapshotsTyped'
    BY <1>0, <2>1, StartTyped, StartSnapshots, StoreTyped
  <2>3. UNCHANGED <<clock, at, tables, history, acked>>
    BY <1>3 DEF BeginWebhook, BeginAdmin, BeginManual
  <2> QED  BY <1>0, <2>2, <2>3, TypesUntouched DEF TypeOK
<1>4. ASSUME NEW r \in Request, CommitWebhook(r) PROVE TypeInv'
  <2> DEFINE m == requests[r].message
             s == requests[r].seen
             h == Handled(m, s)
  <2>1. m \in Message /\ SnapshotTyped(s) /\ Feed[m].id \in EventId /\ at[m] \in Nat
    BY <1>0, <1>4, <1>s, EventIds DEF CommitWebhook, RequestsTyped, Op, TypeOK
  <2>2. h.sub \in SubRow /\ h.invoices \in [Invoice -> InvoiceRow]
    BY <2>1, HandledTyped
  <2>3. /\ sub' = Flushed(sub, s.sub, h.sub)
        /\ invoices' = [i \in Invoice |-> Flushed(invoices[i], s.invoices[i], h.invoices[i])]
        /\ clock' = clock + 1 \/ clock' = clock
        /\ activity' = [activity EXCEPT !.failed = clock'] \/ activity' = activity
        /\ rows' = [rows EXCEPT ![Feed[m].id] = "processed"]
        /\ history' = Append(history, m)
        /\ acked' = acked \cup {m}
        /\ Done(r) /\ UNCHANGED <<at, txns>>
    BY <1>4 DEF CommitWebhook
  <2> HIDE DEF m, s, h
  <2>4. sub' \in SubRow
    BY <2>1, <2>2, <2>3, <1>0, FlushedSub DEF SnapshotTyped, TypeOK
  <2>5. invoices' \in [Invoice -> InvoiceRow]
    <3>1. invoices \in [Invoice -> InvoiceRow] /\ s.invoices \in [Invoice -> InvoiceRow]
      BY <2>1, <1>0 DEF SnapshotTyped, TypeOK
    <3>2. [i \in Invoice |-> Flushed(invoices[i], s.invoices[i], h.invoices[i])]
            \in [Invoice -> InvoiceRow]
      BY <3>1, <2>2, FlushedTables
    <3> QED  BY <3>2, <2>3
  <2>6. clock' \in Nat /\ activity' \in [failed : Nat, admin : Nat]
    BY <2>3, <1>0 DEF TypeOK
  <2>7. rows' \in [EventId -> {"absent", "processed", "failed"}]
        /\ history' \in Seq(Message) /\ acked' \subseteq Message
    BY <2>1, <2>3, <1>0 DEF TypeOK
  <2>8. RequestsTyped' /\ SnapshotsTyped'
    BY <2>3, <1>a
  <2> QED
    BY <2>3, <2>4, <2>5, <2>6, <2>7, <2>8, <1>0 DEF TypeInv, TypeOK, SnapshotsTyped, Op
<1>5. ASSUME NEW r \in Request, RejectWebhook(r) \/ Abort(r) PROVE TypeInv'
  <2>1. RequestsTyped' /\ SnapshotsTyped'
    BY <1>5, <1>a DEF RejectWebhook, Abort
  <2>2. UNCHANGED <<clock, at, tables, history>> /\ acked' \subseteq Message
    BY <1>0, <1>5 DEF RejectWebhook, Abort, Answered, RequestsTyped, TypeOK
  <2> QED  BY <1>0, <2>1, <2>2, TypesUntouched DEF TypeOK
<1>6. ASSUME NEW r \in Request, FailWebhook(r) PROVE TypeInv'
  <2>1. RequestsTyped' /\ SnapshotsTyped'
    BY <1>6, <1>a DEF FailWebhook
  <2>2. rows' \in [EventId -> {"absent", "processed", "failed"}]
    BY <1>0, <1>6 DEF FailWebhook, TypeOK
  <2> QED  BY <1>0, <1>6, <2>1, <2>2 DEF FailWebhook, TypeInv, TypeOK, SnapshotsTyped, Op
<1>7. ASSUME NEW r \in Request, NEW row \in SubRow, AdminWrites(r, row) PROVE TypeInv'
  <2>1. RequestsTyped' /\ SnapshotsTyped'
    BY <1>7, <1>a DEF AdminWrites
  <2>2. SnapshotTyped(requests[r].seen)
    BY <1>7, <1>s DEF AdminWrites, Op
  <2>3. sub' \in SubRow
    BY <1>0, <1>7, <2>2, FlushedSub DEF AdminWrites, SnapshotTyped, TypeOK
  <2>4. clock' \in Nat /\ activity' \in [failed : Nat, admin : Nat]
    BY SMTT(40), <1>0, <1>7 DEF AdminWrites, TypeOK
  <2> QED
    BY <1>0, <1>7, <2>1, <2>3, <2>4 DEF AdminWrites, TypeInv, TypeOK, SnapshotsTyped, Op
<1>8. ASSUME NEW r \in Request, NEW status \in AdminStatus,
             SetStatus(r, status)
             \/ \E plan \in Plan, restart \in BOOLEAN : AssignPlan(r, status, plan, restart)
      PROVE  TypeInv'
  <2>1. requests[r].op = "admin"
    BY <1>8 DEF SetStatus, AssignPlan, AdminWrites
  <2>2. requests[r].seen.sub \in SubRow /\ status \in SubStatus /\ clock \in Nat
    BY <2>1, <1>0, <1>s, AdminStatusAssumption DEF Op, SnapshotTyped, TypeOK
  <2>3. \E row \in SubRow : AdminWrites(r, row)
    <3>1. CASE SetStatus(r, status)
      <4>1. [requests[r].seen.sub EXCEPT !.status = status] \in SubRow
        BY <2>2 DEF SubRow
      <4> QED  BY <3>1, <4>1 DEF SetStatus
    <3>2. ASSUME NEW plan \in Plan, NEW restart \in BOOLEAN, AssignPlan(r, status, plan, restart)
          PROVE  \E row \in SubRow : AdminWrites(r, row)
      <4>1. [requests[r].seen.sub EXCEPT !.status = status, !.plan = plan,
                 !.start = IF restart THEN clock ELSE @] \in SubRow
        BY <2>2 DEF SubRow
      <4> QED  BY <3>2, <4>1 DEF AssignPlan
    <3> QED  BY <1>8, <3>1, <3>2
  <2> QED  BY <2>3, <1>7
<1>9. ASSUME NEW r \in Request, NEW utr \in Utr, CommitSubmitUtr(r, utr) PROVE TypeInv'
  <2>1. RequestsTyped' /\ SnapshotsTyped'
    BY <1>9, <1>a DEF CommitSubmitUtr
  <2>2. txns' \in [Txn -> TxnRow]
    <3>1. requests[r].txn \in Txn
      BY <1>0, <1>9 DEF CommitSubmitUtr, RequestsTyped
    <3> QED  BY ZenonT(60), <1>0, <1>9, <3>1 DEF CommitSubmitUtr, TypeOK, TxnRow
  <2> QED
    BY <1>0, <1>9, <2>1, <2>2 DEF CommitSubmitUtr, TypeInv, TypeOK, SnapshotsTyped, Op
<1>10. ASSUME NEW r \in Request, CommitVerify(r) PROVE TypeInv'
  <2> DEFINE t == requests[r].txn
             row == [requests[r].seen.sub EXCEPT !.status = "active", !.plan = TxnPlan[t]]
  <2>1. RequestsTyped' /\ SnapshotsTyped'
    BY <1>10, <1>a DEF CommitVerify
  <2>2. t \in Txn /\ requests[r].seen.sub \in SubRow /\ TxnPlan[t] \in Plan
        /\ txns[t] \in TxnRow /\ clock' \in Nat
    <3>1. requests[r].op = "verify" /\ clock' = clock + 1
      BY <1>10 DEF CommitVerify
    <3>2. t \in Txn
      BY <3>1, <1>0 DEF RequestsTyped
    <3>3. SnapshotTyped(requests[r].seen)
      BY <3>1, <1>s DEF Op
    <3> QED  BY <3>1, <3>2, <3>3, <1>0, TxnPlanAssumption DEF SnapshotTyped, TypeOK
  <2>3. Verified(txns[t], clock') \in TxnRow
    BY <2>2 DEF Verified, TxnRow
  <2>4. txns' \in [Txn -> TxnRow]
    BY <1>0, <1>10, <2>2, <2>3 DEF CommitVerify, TypeOK
  <2>5. row \in SubRow
    BY <2>2 DEF SubRow, SubStatus
  <2>6. sub' = Flushed(sub, requests[r].seen.sub, row)
    BY <1>10 DEF CommitVerify
  <2> HIDE DEF row
  <2>7. sub' \in SubRow
    BY <1>0, <2>2, <2>5, <2>6, FlushedSub DEF TypeOK
  <2> QED
    BY <1>0, <1>10, <2>1, <2>2, <2>4, <2>7 DEF CommitVerify, TypeInv, TypeOK, SnapshotsTyped, Op
<1>11. ASSUME NEW r \in Request, CommitReject(r) PROVE TypeInv'
  <2>1. RequestsTyped' /\ SnapshotsTyped'
    BY <1>11, <1>a DEF CommitReject
  <2>2. txns' \in [Txn -> TxnRow]
    <3>1. requests[r].txn \in Txn
      BY <1>0, <1>11 DEF CommitReject, RequestsTyped
    <3> QED  BY <1>0, <1>11, <3>1 DEF CommitReject, TypeOK, TxnRow
  <2> QED
    BY <1>0, <1>11, <2>1, <2>2 DEF CommitReject, TypeInv, TypeOK, SnapshotsTyped, Op
<1>12. CASE UNCHANGED vars
  <2>1. UNCHANGED <<clock, at, tables, history, acked, requests>>
    BY <1>12 DEF vars
  <2>2. RequestsTyped' /\ SnapshotsTyped'
    BY <1>0, <2>1 DEF RequestsTyped, SnapshotsTyped, SnapshotTyped
  <2> QED  BY <1>0, <2>1, <2>2, TypesUntouched DEF TypeOK
<1>13. CASE Next
  BY <1>13, <1>1, <1>2, <1>3, <1>4, <1>5, <1>6, <1>8, <1>9, <1>10, <1>11 DEF Next
<1> QED  BY <1>12, <1>13

\* Every row keeps its columns' values and every open request a typed snapshot,
\* for any notifications, manual payments and overlaps of the handlers.
THEOREM TypesAlways == Spec => []TypeOK
<1>1. TypeInv => TypeOK
  BY DEF TypeInv
<1> QED  BY <1>1, InitTypes, TypesNext, PTL DEF Spec

-----------------------------------------------------------------------------
(* When handlers do not overlap, the one handler in progress has read the     *)
(* subscription as it is, and only an administrator reopens a closed one.      *)

SerialInv ==
    /\ requests = [r \in Request |-> requests[r]]
    /\ DOMAIN sub = {"status", "plan", "ext", "start"}
    /\ \A r \in Request : requests[r] # Idle =>
        /\ requests[r].seen.sub = sub
        /\ \A q \in Request \ {r} : requests[q] = Idle

\* Writing the changed attributes of a row nobody changed meanwhile writes the row.
LEMMA FlushedFresh ==
    ASSUME NEW old, NEW f \in DOMAIN old, NEW new
    PROVE  Flushed(old, old, new)[f] = new[f] /\ DOMAIN Flushed(old, old, new) = DOMAIN old
BY DEF Flushed

\* No webhook handler changes the status of a closed subscription.
LEMMA HandlersKeepClosed ==
    ASSUME NEW m \in Message, NEW s, Closed(s.sub.status)
    PROVE  Handled(m, s).sub = s.sub
<1>1. PaymentSucceeded(m, s).sub = s.sub
  BY DEF PaymentSucceeded, Revivable, Ignored, Result
<1>2. PaymentFailed(m, s).sub = s.sub
  BY DEF PaymentFailed, Ignored, Result
<1>3. SubscriptionDeleted(m, s).sub = s.sub
  BY DEF SubscriptionDeleted, Ignored, Result
<1>4. RefundProcessed(m, s).sub = s.sub
  BY DEF RefundProcessed, Ignored, Result
<1> QED  BY <1>1, <1>2, <1>3, <1>4 DEF Handled

LEMMA StartSerial ==
    ASSUME SerialInv, Exclusive, NEW r \in Request, NEW q, Start(r, q), q.seen.sub = sub, sub' = sub
    PROVE  SerialInv'
BY DEF SerialInv, Start, MayStart

LEMMA DoneSerial ==
    ASSUME SerialInv, NEW r \in Request, requests[r] # Idle, Done(r),
           DOMAIN sub' = {"status", "plan", "ext", "start"}
    PROVE  SerialInv'
BY DEF SerialInv, Done

LEMMA FlushKeepsDomain ==
    ASSUME SerialInv, NEW old, NEW new, sub' = Flushed(sub, old, new)
    PROVE  DOMAIN sub' = {"status", "plan", "ext", "start"}
BY DEF SerialInv, Flushed

LEMMA SerialNext ==
    ASSUME Exclusive, SerialInv, [Next]_vars
    PROVE  SerialInv'
<1>0. \A r \in Request : requests[r].op # "idle" => requests[r] # Idle
  BY DEF Idle
<1>1. ASSUME UNCHANGED <<requests, sub>> PROVE SerialInv'
  BY <1>1 DEF SerialInv
<1>2. ASSUME NEW m \in Message, Emit(m) \/ AnswerDuplicate(m) PROVE SerialInv'
  BY <1>1, <1>2 DEF Emit, AnswerDuplicate, tables
<1>3. ASSUME NEW t \in Txn, CreateManualPayment(t) PROVE SerialInv'
  BY <1>1, <1>3 DEF CreateManualPayment
<1>4. ASSUME NEW r \in Request, NEW m \in Message, BeginWebhook(r, m) PROVE SerialInv'
  BY <1>4, StartSerial DEF BeginWebhook, tables, Store
<1>5. ASSUME NEW r \in Request, BeginAdmin(r) PROVE SerialInv'
  BY <1>5, StartSerial DEF BeginAdmin, tables, Store
<1>6. ASSUME NEW r \in Request, NEW op \in {"submit", "verify", "reject"}, NEW t \in Txn,
             BeginManual(r, op, t)
      PROVE  SerialInv'
  BY <1>6, StartSerial DEF BeginManual, tables, Store
<1>7. ASSUME NEW r \in Request,
             RejectWebhook(r) \/ FailWebhook(r) \/ Abort(r)
             \/ CommitReject(r) \/ \E utr \in Utr : CommitSubmitUtr(r, utr)
      PROVE  SerialInv'
  <2>1. Done(r) /\ sub' = sub /\ requests[r] # Idle
    BY <1>0, <1>7 DEF RejectWebhook, FailWebhook, Abort, CommitReject, CommitSubmitUtr, tables
  <2> QED  BY <2>1, DoneSerial DEF SerialInv
<1>8. ASSUME NEW r \in Request, NEW row, AdminWrites(r, row) PROVE SerialInv'
  BY <1>0, <1>8, DoneSerial, FlushKeepsDomain DEF AdminWrites
<1>9. ASSUME NEW r \in Request, CommitWebhook(r) PROVE SerialInv'
  BY <1>0, <1>9, DoneSerial, FlushKeepsDomain DEF CommitWebhook
<1>10. ASSUME NEW r \in Request, CommitVerify(r) PROVE SerialInv'
  BY <1>0, <1>10, DoneSerial, FlushKeepsDomain DEF CommitVerify
<1>11. CASE UNCHANGED vars
  BY <1>1, <1>11 DEF vars, tables
<1>12. CASE Next
  <2>1. ASSUME NEW r \in Request, NEW status \in AdminStatus,
               SetStatus(r, status)
               \/ \E plan \in Plan, restart \in BOOLEAN : AssignPlan(r, status, plan, restart)
        PROVE  SerialInv'
    BY <2>1, <1>8 DEF SetStatus, AssignPlan
  <2> QED  BY <1>12, <1>2, <1>3, <1>4, <1>5, <1>6, <1>7, <1>9, <1>10, <2>1 DEF Next
<1> QED  BY <1>11, <1>12

\* A step that reopens a closed subscription is an administrator's.
LEMMA RevivalStep ==
    ASSUME Exclusive, SerialInv, [Next]_vars, (\A r \in Request : requests[r].op = "webhook" =>
               requests[r].message \in Message),
           Closed(sub.status), ~Closed(sub'.status)
    PROVE  \E r \in Request : requests[r].op = "admin" /\ requests'[r] = Idle
<1>1. sub' # sub
  OBVIOUS
<1>2. PICK r \in Request : \/ CommitWebhook(r) \/ CommitVerify(r)
                           \/ \E row : AdminWrites(r, row)
  BY <1>1 DEF Next, vars, tables, Emit, AnswerDuplicate, CreateManualPayment, BeginWebhook,
     RejectWebhook, FailWebhook, Abort, BeginAdmin, SetStatus, AssignPlan, BeginManual,
     CommitSubmitUtr, CommitReject
<1>3. CASE CommitWebhook(r)
  <2>1. requests[r].seen.sub = sub /\ requests[r].message \in Message
    BY <1>3 DEF CommitWebhook, SerialInv, Idle
  <2>2. sub' = Flushed(sub, sub, sub)
    BY <1>3, <2>1, HandlersKeepClosed DEF CommitWebhook
  <2>3. sub'.status = sub.status
    BY <2>2, FlushedFresh DEF SerialInv
  <2> QED  BY <2>3
<1>4. CASE CommitVerify(r)
  <2>1. requests[r].seen.sub = sub
    BY <1>4 DEF CommitVerify, SerialInv, Idle
  <2> QED  BY <1>4, <2>1 DEF CommitVerify, Revivable
<1>5. CASE \E row : AdminWrites(r, row)
  BY <1>5 DEF AdminWrites, Done, SerialInv
<1> QED  BY <1>2, <1>3, <1>4, <1>5

\* Handlers that do not overlap never revive a cancelled or expired
\* subscription, whatever the webhooks and manual payments.
THEOREM SerialRevivedByAdminOnly ==
    ASSUME Exclusive
    PROVE  Spec => RevivedByAdminOnly
<1>1. Init => SerialInv
  BY DEF Init, SerialInv
<1>2. SerialInv /\ [Next]_vars => SerialInv'
  BY SerialNext
<1>3. SerialInv /\ OnceInv /\ [Next]_vars
        => [Closed(sub.status) /\ ~Closed(sub'.status)
              => \E r \in Request : requests[r].op = "admin" /\ requests'[r] = Idle]_vars
  BY RevivalStep DEF OnceInv, RequestsTyped
<1> QED  BY <1>1, <1>2, <1>3, OnceAlways, PTL DEF Spec, RevivedByAdminOnly

-----------------------------------------------------------------------------
(* Evidence.  A submission decides on the status it has read; when handlers do *)
(* not overlap, that is the status of the row, whatever is created meanwhile.  *)

SubmissionSees ==
    \A r \in Request : requests[r].op = "submit" =>
        /\ txns[requests[r].txn].status # "absent"
        /\ requests[r].seen.txns[requests[r].txn].status = txns[requests[r].txn].status

LEMMA SubmissionEnds ==
    ASSUME SerialInv, NEW r \in Request, requests[r] # Idle, Done(r)
    PROVE  SubmissionSees'
<1>1. \A q \in Request : requests'[q] = Idle
  BY DEF SerialInv, Done
<1> QED  BY <1>1 DEF SubmissionSees, Idle

LEMMA SubmissionStarts ==
    ASSUME SubmissionSees, NEW r \in Request, NEW q, Start(r, q), txns' = txns,
           q.op = "submit" => txns[q.txn].status # "absent" /\ q.seen.txns = txns
    PROVE  SubmissionSees'
<1>1. /\ \A o \in Request \ {r} : requests'[o] = requests[o]
      /\ requests'[r] = requests[r] \/ requests'[r] = q
  BY DEF Start
<1> QED  BY <1>1 DEF SubmissionSees

LEMMA SubmissionNext ==
    ASSUME Exclusive, SerialInv, OnceInv, SubmissionSees, [Next]_vars
    PROVE  SubmissionSees'
<1>0. /\ txns \in [Txn -> TxnRow]
      /\ \A r \in Request : requests[r].op = "submit" => requests[r].txn \in Txn
  BY DEF OnceInv, RowsTyped, RequestsTyped
<1>1. ASSUME UNCHANGED <<requests, txns>> PROVE SubmissionSees'
  BY <1>1 DEF SubmissionSees
<1>2. ASSUME NEW m \in Message, Emit(m) \/ AnswerDuplicate(m) PROVE SubmissionSees'
  BY <1>1, <1>2 DEF Emit, AnswerDuplicate, tables
<1>3. ASSUME NEW t \in Txn, CreateManualPayment(t) PROVE SubmissionSees'
  <2>1. /\ requests' = requests /\ txns[t].status = "absent"
        /\ \A u \in Txn \ {t} : txns'[u] = txns[u]
    BY <1>0, <1>3 DEF CreateManualPayment
  <2> QED  BY <2>1, <1>0 DEF SubmissionSees
<1>4. ASSUME NEW r \in Request, NEW m \in Message, BeginWebhook(r, m) PROVE SubmissionSees'
  BY <1>4, SubmissionStarts DEF BeginWebhook, tables
<1>5. ASSUME NEW r \in Request, BeginAdmin(r) PROVE SubmissionSees'
  BY <1>5, SubmissionStarts DEF BeginAdmin, tables
<1>6. ASSUME NEW r \in Request, NEW op \in {"submit", "verify", "reject"}, NEW t \in Txn,
             BeginManual(r, op, t)
      PROVE  SubmissionSees'
  BY <1>6, SubmissionStarts DEF BeginManual, tables, Store
<1>7. ASSUME NEW r \in Request,
             \/ RejectWebhook(r) \/ FailWebhook(r) \/ Abort(r) \/ CommitWebhook(r)
             \/ CommitReject(r) \/ CommitVerify(r) \/ \E utr \in Utr : CommitSubmitUtr(r, utr)
             \/ \E row : AdminWrites(r, row)
      PROVE  SubmissionSees'
  <2>1. Done(r) /\ (requests[r].op \in {"webhook", "submit", "verify", "reject", "admin"} \/ requests[r] # Idle)
    <3>1. CASE RejectWebhook(r) \/ FailWebhook(r) \/ Abort(r)
      BY <3>1 DEF RejectWebhook, FailWebhook, Abort
    <3>2. CASE CommitWebhook(r)
      BY <3>2 DEF CommitWebhook
    <3>3. CASE CommitReject(r) \/ CommitVerify(r) \/ \E utr \in Utr : CommitSubmitUtr(r, utr)
      BY <3>3 DEF CommitReject, CommitVerify, CommitSubmitUtr
    <3>4. CASE \E row : AdminWrites(r, row)
      BY <3>4 DEF AdminWrites
    <3> QED  BY <1>7, <3>1, <3>2, <3>3, <3>4
  <2>2. requests[r] # Idle
    BY <2>1 DEF Idle
  <2> QED  BY <2>1, <2>2, SubmissionEnds
<1>8. CASE UNCHANGED vars
  BY <1>1, <1>8 DEF vars, tables
<1>9. CASE Next
  <2>1. ASSUME NEW r \in Request, NEW status \in AdminStatus,
               SetStatus(r, status)
               \/ \E plan \in Plan, restart \in BOOLEAN : AssignPlan(r, status, plan, restart)
        PROVE  SubmissionSees'
    BY <2>1, <1>7 DEF SetStatus, AssignPlan
  <2> QED  BY <1>9, <1>2, <1>3, <1>4, <1>5, <1>6, <1>7, <2>1 DEF Next
<1> QED  BY <1>8, <1>9

\* A step that writes a reference is a submission to a payment that waits.
LEMMA EvidenceStep ==
    ASSUME OnceInv, SubmissionSees, [Next]_vars, NEW t \in Txn, txns[t].status \in {"verified", "rejected"}
    PROVE  txns'[t].utr = txns[t].utr
<1>0. /\ txns \in [Txn -> TxnRow] /\ txns[t] \in TxnRow
      /\ \A r \in Request : requests[r].op \in {"submit", "verify", "reject"} => requests[r].txn \in Txn
  BY DEF OnceInv, RowsTyped, RequestsTyped
<1>1. CASE txns' = txns
  BY <1>1
<1>2. ASSUME NEW u \in Txn, CreateManualPayment(u) PROVE txns'[t].utr = txns[t].utr
  BY <1>0, <1>2 DEF CreateManualPayment, TxnRow
<1>3. ASSUME NEW r \in Request, NEW utr \in Utr, CommitSubmitUtr(r, utr) PROVE txns'[t].utr = txns[t].utr
  <2>1. requests[r].txn # t
    BY <1>3 DEF CommitSubmitUtr, AcceptsUtr, SubmissionSees
  <2> QED  BY <1>0, <1>3, <2>1 DEF CommitSubmitUtr
<1>4. ASSUME NEW r \in Request, CommitVerify(r) \/ CommitReject(r) PROVE txns'[t].utr = txns[t].utr
  <2>1. requests[r].txn # t
    BY <1>4 DEF CommitVerify, CommitReject, Decidable
  <2> QED  BY <1>0, <1>4, <2>1 DEF CommitVerify, CommitReject
<1>5. \/ txns' = txns
      \/ \E u \in Txn : CreateManualPayment(u)
      \/ \E r \in Request : CommitVerify(r) \/ CommitReject(r) \/ \E utr \in Utr : CommitSubmitUtr(r, utr)
  BY DEF Next, vars, tables, Emit, AnswerDuplicate, BeginWebhook, CommitWebhook, RejectWebhook,
     FailWebhook, Abort, BeginAdmin, SetStatus, AssignPlan, AdminWrites, BeginManual
<1> QED  BY <1>1, <1>2, <1>3, <1>4, <1>5

\* DecidedEvidenceFixed: if handlers do not overlap, the reference of a decided
\* payment is never replaced, however often it is submitted again.
THEOREM SerialEvidenceFixed ==
    ASSUME Exclusive
    PROVE  Spec => DecidedEvidenceFixed
<1>1. Init => SerialInv /\ SubmissionSees
  BY DEF Init, SerialInv, SubmissionSees, Idle
<1>2. SerialInv /\ OnceInv /\ SubmissionSees /\ [Next]_vars => SerialInv' /\ SubmissionSees'
  BY SerialNext, SubmissionNext
<1>3. OnceInv /\ SubmissionSees /\ [Next]_vars
        => [\A t \in Txn : txns[t].status \in {"verified", "rejected"} => txns'[t].utr = txns[t].utr]_vars
  BY EvidenceStep
<1> QED  BY <1>1, <1>2, <1>3, OnceAlways, PTL DEF Spec, DecidedEvidenceFixed

-----------------------------------------------------------------------------
(* A paid invoice stays settled.  A handler that fails an invoice has read it  *)
(* absent, and then its insert collides, or failed, and then it writes nothing,*)
(* or refunded, which takes a refund.                                          *)

\* What a webhook handler makes of one invoice.
LEMMA InvoiceHandled ==
    ASSUME NEW m \in Message, NEW s, SnapshotTyped(s), at[m] \in Nat, NEW i \in Invoice
    PROVE  LET new == Handled(m, s).invoices[i]
               old == s.invoices[i]
           IN  \/ new = old
               \/ /\ Feed[m].invoice = i /\ Feed[m].kind = "succeeded"
                  /\ new.status = "paid" /\ new.paid = at[m]
               \/ /\ Feed[m].invoice = i /\ Feed[m].kind = "failed" /\ old.status # "paid"
                  /\ new.status = "failed"
                  /\ new.created = IF old.status = "absent" THEN at[m] ELSE old.created
               \/ /\ Feed[m].invoice = i /\ Feed[m].kind = "refunded"
                  /\ new.status = "refunded"
<1>0. /\ s.invoices \in [Invoice -> InvoiceRow]
      /\ Feed[m].kind \in Kind /\ NoInvoice \notin Invoice
      /\ Feed[m].invoice \in Invoice \/ Feed[m].invoice = NoInvoice
  BY FeedAssumption, AbsentAssumption DEF SnapshotTyped
<1>1. CASE Feed[m].kind = "succeeded"
  <2> DEFINE j   == Feed[m].invoice
             row == IF s.invoices[j].status = "absent"
                    THEN [status |-> "paid", created |-> at[m], paid |-> at[m]]
                    ELSE [s.invoices[j] EXCEPT !.status = "paid", !.paid = at[m]]
  <2>1. \/ Handled(m, s).invoices = s.invoices
        \/ j = NoInvoice /\ Handled(m, s).invoices = s.invoices
        \/ j \in Invoice /\ Handled(m, s).invoices = [s.invoices EXCEPT ![j] = row]
    BY <1>0, <1>1 DEF Handled, PaymentSucceeded, Ignored, Result
  <2>2. j \in Invoice => row.status = "paid" /\ row.paid = at[m]
    BY <1>0 DEF InvoiceRow
  <2> HIDE DEF row
  <2> QED  BY <2>1, <2>2, <1>0, <1>1
<1>2. CASE Feed[m].kind = "failed"
  <2> DEFINE j   == Feed[m].invoice
             row == FailedRow(m, s.invoices[j])
  <2>1. \/ Handled(m, s).invoices = s.invoices
        \/ /\ j \in Invoice /\ s.invoices[j].status # "paid"
           /\ Handled(m, s).invoices = [s.invoices EXCEPT ![j] = row]
    BY <1>0, <1>2 DEF Handled, PaymentFailed, Settled, Ignored, Result
  <2>2. j \in Invoice => /\ row.status = "failed"
                         /\ row.created = IF s.invoices[j].status = "absent" THEN at[m]
                                          ELSE s.invoices[j].created
    BY <1>0 DEF InvoiceRow, FailedRow
  <2> HIDE DEF row
  <2> QED  BY <2>1, <2>2, <1>0, <1>2
<1>3. CASE Feed[m].kind = "deleted"
  BY <1>3 DEF Handled, SubscriptionDeleted, Ignored, Result
<1>4. CASE Feed[m].kind \in {"refunded", "partially_refunded"}
  BY <1>0, <1>4 DEF Handled, RefundProcessed, Ignored, Result, InvoiceRow
<1> QED  BY <1>0, <1>1, <1>2, <1>3, <1>4 DEF Kind

\* A refunded row, in the table or in a snapshot of it, takes a refund.
RefundsHandled ==
    \A i \in Invoice : ~RefundHandled(i) =>
        /\ invoices[i].status # "refunded"
        /\ \A r \in Request : requests[r] # Idle => requests[r].seen.invoices[i].status # "refunded"

LEMMA RefundStays ==
    ASSUME TypeInv, [Next]_vars, NEW i \in Invoice, RefundHandled(i)
    PROVE  RefundHandled(i)'
<1>1. history \in Seq(Message)
  BY DEF TypeInv, TypeOK
<1>2. history' = history \/ \E m : history' = Append(history, m)
  BY DEF Next, vars, tables, Emit, AnswerDuplicate, CreateManualPayment, BeginWebhook, CommitWebhook,
     RejectWebhook, FailWebhook, Abort, BeginAdmin, SetStatus, AssignPlan, AdminWrites, BeginManual,
     CommitSubmitUtr, CommitVerify, CommitReject
<1> QED  BY <1>1, <1>2 DEF RefundHandled

LEMMA FlushedField ==
    ASSUME NEW cur, NEW old, NEW new, NEW f \in DOMAIN cur
    PROVE  Flushed(cur, old, new)[f] = IF new[f] = old[f] THEN cur[f] ELSE new[f]
BY DEF Flushed

\* The status a committing webhook leaves on an invoice, and why.
LEMMA StatusCommitted ==
    ASSUME TypeInv, NEW r \in Request, CommitWebhook(r), NEW i \in Invoice
    PROVE  LET old == requests[r].seen.invoices[i].status
               new == invoices'[i].status
           IN  \/ new = invoices[i].status
               \/ new = "paid"
               \/ new = "failed" /\ old = "absent" /\ invoices[i].status = "absent"
               \/ new = "failed" /\ old = "refunded"
               \/ new = "refunded" /\ RefundHandled(i)'
<1> DEFINE m == requests[r].message
           s == requests[r].seen
           h == Handled(m, s)
<1>1. m \in Message /\ SnapshotTyped(s) /\ at[m] \in Nat
  BY DEF TypeInv, TypeOK, RequestsTyped, SnapshotsTyped, CommitWebhook, Idle
<1>2. /\ invoices' = [j \in Invoice |-> Flushed(invoices[j], s.invoices[j], h.invoices[j])]
      /\ history' = Append(history, m) /\ history \in Seq(Message)
      /\ ~(/\ s.invoices[i].status = "absent" /\ h.invoices[i].status # "absent"
           /\ invoices[i].status # "absent")
  BY DEF CommitWebhook, SameInvoice, TypeInv, TypeOK
<1>3. invoices[i] \in InvoiceRow /\ s.invoices[i] \in InvoiceRow
  BY <1>1 DEF TypeInv, TypeOK, SnapshotTyped
<1>4. "status" \in DOMAIN invoices[i]
  BY <1>3 DEF InvoiceRow
<1>5. invoices'[i].status = IF h.invoices[i].status = s.invoices[i].status
                            THEN invoices[i].status ELSE h.invoices[i].status
  <2> HIDE DEF h, s
  <2> QED  BY <1>2, <1>4, FlushedField
<1>6. \/ h.invoices[i] = s.invoices[i]
      \/ h.invoices[i].status = "paid"
      \/ s.invoices[i].status # "paid" /\ h.invoices[i].status = "failed"
      \/ /\ Feed[m].invoice = i /\ Feed[m].kind = "refunded" /\ h.invoices[i].status = "refunded"
  BY <1>1, InvoiceHandled
<1>7. Feed[m].invoice = i /\ Feed[m].kind = "refunded" => RefundHandled(i)'
  <2>1. history'[Len(history) + 1] = m /\ Len(history) + 1 \in DOMAIN history'
    BY <1>1, <1>2
  <2> QED  BY <2>1 DEF RefundHandled
<1>8. s.invoices[i].status \in {"absent", "paid", "failed", "refunded"}
  BY <1>3 DEF InvoiceRow
<1> HIDE DEF h
<1> QED  BY <1>2, <1>5, <1>6, <1>7, <1>8

LEMMA RefundsNext ==
    ASSUME TypeInv, RefundsHandled, [Next]_vars
    PROVE  RefundsHandled'
<1> SUFFICES ASSUME NEW i \in Invoice, ~RefundHandled(i)'
             PROVE  /\ invoices'[i].status # "refunded"
                    /\ \A r \in Request : requests'[r] # Idle =>
                         requests'[r].seen.invoices[i].status # "refunded"
  BY DEF RefundsHandled
<1>1. ~RefundHandled(i)
  BY RefundStays
<1>2. /\ invoices[i].status # "refunded"
      /\ \A r \in Request : requests[r] # Idle => requests[r].seen.invoices[i].status # "refunded"
  BY <1>1 DEF RefundsHandled
<1>3. invoices'[i].status # "refunded"
  <2>1. CASE \E r \in Request : CommitWebhook(r)
    <3>1. PICK r \in Request : CommitWebhook(r)
      BY <2>1
    <3>2. \/ invoices'[i].status = invoices[i].status
          \/ invoices'[i].status = "paid" \/ invoices'[i].status = "failed"
          \/ RefundHandled(i)'
      BY <3>1, StatusCommitted
    <3> QED  BY <3>2, <1>2
  <2>2. CASE UNCHANGED invoices
    BY <2>2, <1>2
  <2> QED
    BY <2>1, <2>2 DEF Next, vars, tables, Emit, AnswerDuplicate, CreateManualPayment, BeginWebhook,
       RejectWebhook, FailWebhook, Abort, BeginAdmin, SetStatus, AssignPlan, AdminWrites,
       BeginManual, CommitSubmitUtr, CommitVerify, CommitReject
<1>4. ASSUME NEW r \in Request, requests'[r] # Idle
      PROVE  requests'[r].seen.invoices[i].status # "refunded"
  <2>1. \/ requests'[r] = requests[r]
        \/ requests'[r].seen = Store
    <3>1. \/ requests' = requests
          \/ \E q \in Request : Done(q)
          \/ \E q \in Request : \E x : Start(q, x) /\ x.seen = Store
      <4>1. ASSUME NEW q \in Request, NEW m \in Message, BeginWebhook(q, m)
            PROVE  \E x : Start(q, x) /\ x.seen = Store
        BY <4>1 DEF BeginWebhook
      <4>2. ASSUME NEW q \in Request, BeginAdmin(q)
            PROVE  \E x : Start(q, x) /\ x.seen = Store
        BY <4>2 DEF BeginAdmin
      <4>3. ASSUME NEW q \in Request, NEW t \in Txn, NEW op \in {"submit", "verify", "reject"},
                   BeginManual(q, op, t)
            PROVE  \E x : Start(q, x) /\ x.seen = Store
        BY <4>3 DEF BeginManual
      <4> QED
        BY <4>1, <4>2, <4>3 DEF Next, vars, Emit, AnswerDuplicate, CreateManualPayment,
           CommitWebhook, RejectWebhook, FailWebhook, Abort, SetStatus, AssignPlan, AdminWrites,
           CommitSubmitUtr, CommitVerify, CommitReject
    <3>2. requests = [q \in Request |-> requests[q]]
      BY DEF TypeInv, RequestsTyped
    <3> QED  BY <1>4, <3>1, <3>2 DEF Done, Start
  <2>2. Store.invoices = invoices
    BY DEF Store
  <2> QED  BY <2>1, <2>2, <1>2, <1>4
<1> QED  BY <1>3, <1>4

\* While no refund of an invoice has been handled, its payment is never taken
\* back, however the handlers overlap and whatever is delivered late.
THEOREM PaidStays == Spec => PaidStaysSettled
<1>1. Init => RefundsHandled
  BY DEF Init, RefundsHandled, Idle
<1>2. TypeInv /\ RefundsHandled /\ [Next]_vars => RefundsHandled'
  BY RefundsNext
<1>3. TypeInv /\ RefundsHandled /\ [Next]_vars
        => [\A i \in Invoice : invoices[i].status = "paid" /\ ~RefundHandled(i)
              => invoices'[i].status \in {"paid", "refunded"}]_vars
  <2> SUFFICES ASSUME TypeInv, RefundsHandled, [Next]_vars, NEW i \in Invoice,
                      invoices[i].status = "paid", ~RefundHandled(i)
               PROVE  invoices'[i].status \in {"paid", "refunded"}
    OBVIOUS
  <2>1. CASE \E r \in Request : CommitWebhook(r)
    <3>1. PICK r \in Request : CommitWebhook(r)
      BY <2>1
    <3>2. requests[r].seen.invoices[i].status # "refunded"
      BY <3>1 DEF RefundsHandled, CommitWebhook, Idle
    <3>3. \/ invoices'[i].status = "paid"
          \/ invoices'[i].status = "refunded"
      BY <3>1, <3>2, StatusCommitted
    <3> QED  BY <3>3
  <2>2. CASE UNCHANGED invoices
    BY <2>2
  <2> QED
    BY <2>1, <2>2 DEF Next, vars, tables, Emit, AnswerDuplicate, CreateManualPayment, BeginWebhook,
       RejectWebhook, FailWebhook, Abort, BeginAdmin, SetStatus, AssignPlan, AdminWrites,
       BeginManual, CommitSubmitUtr, CommitVerify, CommitReject
<1>4. Spec => []TypeInv
  BY InitTypes, TypesNext, PTL DEF Spec
<1> QED  BY <1>1, <1>2, <1>3, <1>4, PTL DEF Spec, PaidStaysSettled

-----------------------------------------------------------------------------
(* The latest payment wins.  The handlers compare the time of a notification   *)
(* with the times the invoices carry.  When every payment is told by an        *)
(* invoice of its own, the newest payment's invoice carries the newest time.   *)

HandledSet == {history[i] : i \in DOMAIN history}
Paid(m)   == Feed[m].kind = "succeeded"
Failed(m) == Feed[m].kind = "failed"

\* Times tell messages apart, and an invoice is charged no more once it is paid.
Emitted ==
    /\ \A m \in Message : at[m] <= clock
    /\ \A m, n \in Message : at[m] = at[n] /\ at[m] > 0 => m = n
    /\ \A m, n \in Message :
        /\ IsPayment(m) /\ Paid(n) /\ Feed[m].invoice = Feed[n].invoice
        /\ Feed[n].invoice \in Invoice /\ at[m] > 0 /\ at[n] > 0 /\ m # n
        => at[m] < at[n]
    /\ \A m \in HandledSet : at[m] > 0
    /\ \A r \in Request : requests[r].op = "webhook" => at[requests[r].message] > 0

\* The handler in progress has read the invoices and the payments as they are.
ReadsNow ==
    /\ \A r \in Request : requests[r] # Idle =>
        /\ requests[r].seen.invoices = invoices
        /\ \A t \in Txn : requests[r].seen.txns[t].paid = txns[t].paid
    /\ \A t \in Txn : txns[t].status # "verified" => txns[t].paid = 0

IsNewest(m) ==
    m \in HandledSet /\ IsPayment(m) /\ \A n \in HandledSet : IsPayment(n) => at[n] <= at[m]
NoPayment == \A m \in HandledSet : ~IsPayment(m)
TellsFailed(i, m) ==
    Failed(m) /\ Feed[m].invoice = i /\ invoices[i].status = "failed" /\ invoices[i].created = at[m]
TellsPaid(i, m) ==
    Paid(m) /\ Feed[m].invoice = i /\ invoices[i].status = "paid" /\ invoices[i].paid = at[m]

\* The invoices tell the payments, and the subscription follows the newest one.
Told ==
    /\ \A i \in Invoice :
        /\ invoices[i].status \in {"absent", "failed", "paid"}
        /\ invoices[i].status = "failed" => \E m \in HandledSet : TellsFailed(i, m)
        /\ invoices[i].status = "paid" => \E m \in HandledSet : TellsPaid(i, m)
    /\ sub.status \in {"trial", "active", "past_due", "cancelled"}
    /\ sub.status = "trial" => NoPayment
    /\ sub.status = "active" =>
        NoPayment \/ \E m \in HandledSet : IsNewest(m) /\ TellsPaid(Feed[m].invoice, m)
    /\ sub.status = "past_due" =>
        \E m \in HandledSet : IsNewest(m) /\ TellsFailed(Feed[m].invoice, m)

Undisturbed == WebhooksAlone /\ NothingRefunded /\ InvoicesTell
OrderInv == Emitted /\ ReadsNow /\ (Undisturbed => Told)

\* The newest of some times that include the newest one.
LEMMA NewestIs ==
    ASSUME NEW times, NEW t \in times \cup {0}, t \in Nat, times \subseteq Nat,
           \A u \in times : u <= t
    PROVE  Newest(times) = t
<1> DEFINE all == times \cup {0}
           new == CHOOSE u \in all : \A v \in all : v <= u
<1>1. all \subseteq Nat /\ t \in all /\ \A u \in all : u <= t
  OBVIOUS
<1>2. Newest(times) = new
  BY DEF Newest
<1> HIDE DEF all
<1>3. new \in all /\ \A v \in all : v <= new
  BY <1>1
<1> HIDE DEF new
<1>4. new = t
  <2>1. new \in Nat /\ t <= new /\ new <= t
    BY <1>1, <1>3
  <2> QED  BY <2>1
<1> QED  BY <1>2, <1>4

\* A payment's invoice is one of the tenant's, and no other failure is told by it.
LEMMA Telling ==
    ASSUME InvoicesTell, history \in Seq(Message), NEW m \in HandledSet, IsPayment(m)
    PROVE  /\ m \in Message /\ Feed[m].invoice \in Invoice
           /\ \A n \in HandledSet :
                Failed(m) /\ Failed(n) /\ Feed[m].invoice = Feed[n].invoice => m = n
BY DEF InvoicesTell, HandledSet, IsPayment, Failed

-----------------------------------------------------------------------------
\* The handlers on a snapshot that is the table, whose times are told.
LEMMA Latest ==
    ASSUME TypeInv, Emitted, InvoicesTell, Told,
           NEW s, SnapshotTyped(s), s.invoices = invoices
    PROVE  /\ \A n \in HandledSet : IsNewest(n) /\ TellsFailed(Feed[n].invoice, n)
                                      => LatestFailure(s) = at[n]
           /\ \A rs \in [Invoice -> InvoiceRow] :
                /\ \A i \in Invoice : rs[i].status = "paid" => rs[i] = invoices[i]
                /\ \A t \in Txn : s.txns[t].paid = 0
                => /\ NoPayment => LatestPaid(s, rs) = 0
                   /\ \A n \in HandledSet :
                        /\ IsNewest(n) /\ TellsPaid(Feed[n].invoice, n)
                        /\ rs[Feed[n].invoice].status = "paid"
                        => LatestPaid(s, rs) = at[n]
<1>0. /\ history \in Seq(Message) /\ at \in [Message -> Nat]
      /\ invoices \in [Invoice -> InvoiceRow]
      /\ HandledSet \subseteq Message
  BY DEF TypeInv, TypeOK, HandledSet
<1>1. ASSUME NEW n \in HandledSet, IsNewest(n), TellsFailed(Feed[n].invoice, n)
      PROVE  LatestFailure(s) = at[n]
  <2>1. Feed[n].invoice \in Invoice /\ at[n] \in Nat
    BY <1>0, <1>1, Telling DEF IsNewest
  <2>2. at[n] \in FailedTimes(s)
    BY <1>1, <2>1 DEF FailedTimes, TellsFailed
  <2>3. \A u \in FailedTimes(s) : u <= at[n] /\ u \in Nat
    <3> SUFFICES ASSUME NEW i \in Invoice, invoices[i].status = "failed"
                 PROVE  invoices[i].created <= at[n] /\ invoices[i].created \in Nat
      BY DEF FailedTimes
    <3>1. PICK m \in HandledSet : TellsFailed(i, m)
      BY DEF Told
    <3>2. at[m] <= at[n] /\ at[m] \in Nat
      BY <3>1, <1>0, <1>1 DEF IsNewest, IsPayment, TellsFailed, Failed
    <3> QED  BY <3>1, <3>2 DEF TellsFailed
  <2>4. Newest(FailedTimes(s)) = at[n]
    <3> HIDE DEF FailedTimes
    <3> QED  BY <2>1, <2>2, <2>3, NewestIs
  <2> QED  BY <2>2, <2>4 DEF LatestFailure
<1>2. ASSUME NEW rs \in [Invoice -> InvoiceRow],
             \A i \in Invoice : rs[i].status = "paid" => rs[i] = invoices[i],
             \A t \in Txn : s.txns[t].paid = 0
      PROVE  /\ NoPayment => LatestPaid(s, rs) = 0
             /\ \A n \in HandledSet :
                    /\ IsNewest(n) /\ TellsPaid(Feed[n].invoice, n)
                    /\ rs[Feed[n].invoice].status = "paid"
                    => LatestPaid(s, rs) = at[n]
  <2> DEFINE times == {rs[i].paid : i \in {j \in Invoice : rs[j].status = "paid"}}
                      \cup {s.txns[t].paid : t \in Txn}
  <2>0. LatestPaid(s, rs) = Newest(times)
    BY DEF LatestPaid
  <2>1. ASSUME NEW u \in times
        PROVE  u = 0 \/ \E m \in HandledSet : Paid(m) /\ u = at[m]
    <3>1. CASE u \in {s.txns[t].paid : t \in Txn}
      BY <1>2, <3>1
    <3>2. CASE \E i \in Invoice : rs[i].status = "paid" /\ u = rs[i].paid
      <4>1. PICK i \in Invoice : invoices[i].status = "paid" /\ u = invoices[i].paid
        BY <3>2, <1>2
      <4>2. PICK m \in HandledSet : TellsPaid(i, m)
        BY <4>1 DEF Told
      <4> QED  BY <4>1, <4>2 DEF TellsPaid
    <3> QED  BY <3>1, <3>2
  <2>2. times \subseteq Nat
    <3>1. \A m \in HandledSet : at[m] \in Nat
      BY <1>0
    <3> HIDE DEF times
    <3> QED  BY <2>1, <3>1
  <2>3. ASSUME NoPayment PROVE Newest(times) = 0
    <3>1. \A u \in times : u <= 0
      BY <2>1, <2>3 DEF NoPayment, Paid, IsPayment
    <3> HIDE DEF times
    <3> QED  BY <2>2, <3>1, NewestIs
  <2>4. ASSUME NEW n \in HandledSet, IsNewest(n), TellsPaid(Feed[n].invoice, n),
               rs[Feed[n].invoice].status = "paid"
        PROVE  Newest(times) = at[n]
    <3>1. Feed[n].invoice \in Invoice /\ at[n] \in Nat
      BY <1>0, <2>4, Telling DEF IsNewest
    <3>2. at[n] \in times
      BY <2>4, <3>1, <1>2 DEF TellsPaid
    <3>3. \A u \in times : u <= at[n]
      <4> SUFFICES ASSUME NEW u \in times PROVE u <= at[n]
        OBVIOUS
      <4>1. CASE u = 0
        BY <4>1, <3>1
      <4>2. ASSUME NEW m \in HandledSet, Paid(m), u = at[m] PROVE u <= at[n]
        BY <4>2, <2>4 DEF IsNewest, IsPayment, Paid
      <4> QED  BY <2>1, <4>1, <4>2
    <3> HIDE DEF times
    <3> QED  BY <2>2, <3>1, <3>2, <3>3, NewestIs
  <2> QED  BY <2>0, <2>3, <2>4
<1> QED  BY <1>1, <1>2

\* Handlers read and write rows as wholes when nobody else writes them.
LEMMA FlushedWhole ==
    ASSUME NEW old, NEW new, DOMAIN old = DOMAIN new,
           new = [f \in DOMAIN new |-> new[f]]
    PROVE  Flushed(old, old, new) = new
BY DEF Flushed

LEMMA CommitWrites ==
    ASSUME TypeInv, SerialInv, ReadsNow, NEW r \in Request, CommitWebhook(r)
    PROVE  LET m == requests[r].message
               s == requests[r].seen
               h == Handled(m, s)
           IN  /\ m \in Message /\ SnapshotTyped(s) /\ s.sub = sub /\ s.invoices = invoices
               /\ sub' = h.sub /\ invoices' = h.invoices
               /\ sub' \in SubRow /\ invoices' \in [Invoice -> InvoiceRow]
<1> DEFINE m == requests[r].message
           s == requests[r].seen
           h == Handled(m, s)
<1>1. m \in Message /\ SnapshotTyped(s) /\ at[m] \in Nat
  BY DEF TypeInv, TypeOK, RequestsTyped, SnapshotsTyped, CommitWebhook, Idle
<1>2. s.sub = sub /\ s.invoices = invoices
  BY DEF CommitWebhook, Idle, SerialInv, ReadsNow
<1>3. h.sub \in SubRow /\ h.invoices \in [Invoice -> InvoiceRow]
  BY <1>1, HandledTyped
<1>4. sub \in SubRow /\ invoices \in [Invoice -> InvoiceRow]
  BY DEF TypeInv, TypeOK
<1>5. sub' = Flushed(sub, s.sub, h.sub)
      /\ invoices' = [i \in Invoice |-> Flushed(invoices[i], s.invoices[i], h.invoices[i])]
  BY DEF CommitWebhook
<1> HIDE DEF h
<1>6. sub' = h.sub
  <2>1. DOMAIN sub = DOMAIN h.sub /\ h.sub = [f \in DOMAIN h.sub |-> h.sub[f]]
    BY <1>3, <1>4 DEF SubRow
  <2> QED  BY <2>1, <1>2, <1>5, FlushedWhole
<1>7. invoices' = h.invoices
  <2>1. ASSUME NEW i \in Invoice
        PROVE  Flushed(invoices[i], s.invoices[i], h.invoices[i]) = h.invoices[i]
    <3>1. invoices[i] \in InvoiceRow /\ h.invoices[i] \in InvoiceRow
      BY <1>3, <1>4
    <3>2. DOMAIN invoices[i] = DOMAIN h.invoices[i]
          /\ h.invoices[i] = [f \in DOMAIN h.invoices[i] |-> h.invoices[i][f]]
      BY <3>1 DEF InvoiceRow
    <3> QED  BY <3>2, <1>2, FlushedWhole
  <2> QED  BY <2>1, <1>3, <1>5
<1> QED  BY <1>1, <1>2, <1>3, <1>6, <1>7 DEF h

\* The invoices go on telling the payments, and so does the newest payment's.
LEMMA CommitTells ==
    ASSUME TypeInv, OnceInv, SerialInv, Emitted, ReadsNow, Undisturbed, Told,
           NEW r \in Request, CommitWebhook(r), Undisturbed'
    PROVE  Told'
<1>0. PICK m, s : m = requests[r].message /\ s = requests[r].seen
  OBVIOUS
<1> DEFINE h == Handled(m, s)
           i == Feed[m].invoice
<1>1. /\ m \in Message /\ SnapshotTyped(s) /\ s.sub = sub /\ s.invoices = invoices
      /\ sub' = h.sub /\ invoices' = h.invoices
      /\ sub' \in SubRow /\ invoices' \in [Invoice -> InvoiceRow]
  BY <1>0, CommitWrites
<1>2. /\ at' = at /\ at \in [Message -> Nat] /\ at[m] > 0
      /\ history \in Seq(Message) /\ history' = Append(history, m)
      /\ sub \in SubRow /\ invoices \in [Invoice -> InvoiceRow]
      /\ HandledSet \subseteq Message
  BY <1>0 DEF CommitWebhook, TypeInv, TypeOK, Emitted, HandledSet
<1>3. m \notin HandledSet
  BY <1>0 DEF HandledSet, OnceInv, AppliedHasRow, CommitWebhook, SameEvent
<1>4. HandledSet' = HandledSet \cup {m}
  <2>1. /\ DOMAIN history' = DOMAIN history \cup {Len(history) + 1}
        /\ history'[Len(history) + 1] = m
        /\ \A k \in DOMAIN history : history'[k] = history[k]
    BY <1>1, <1>2
  <2> QED  BY <2>1 DEF HandledSet
<1>5. history' \in Seq(Message) /\ m \in HandledSet'
  BY <1>1, <1>2, <1>4
<1>6. /\ Feed[m].kind # "refunded"
      /\ IsPayment(m) => i \in Invoice
      /\ Failed(m) => \A n \in HandledSet : Failed(n) => Feed[n].invoice # i
  <2>1. history'[Len(history) + 1] = m /\ Len(history) + 1 \in DOMAIN history'
    BY <1>1, <1>2
  <2>2. Feed[m].kind # "refunded" /\ (IsPayment(m) => i \in Invoice)
    BY <2>1 DEF Undisturbed, NothingRefunded, InvoicesTell
  <2>3. ASSUME Failed(m), NEW n \in HandledSet, Failed(n), Feed[n].invoice = i
        PROVE  FALSE
    <3>1. PICK k \in DOMAIN history : history[k] = n
      BY DEF HandledSet
    <3>2. k \in DOMAIN history' /\ history'[k] = n /\ k # Len(history) + 1
      BY <3>1, <1>1, <1>2
    <3> QED  BY <2>1, <2>3, <3>2 DEF Undisturbed, InvoicesTell, Failed, IsPayment
  <2> QED  BY <2>2, <2>3
<1>7. \A t \in Txn : s.txns[t].paid = 0
  BY <1>0 DEF ReadsNow, CommitWebhook, Idle, Undisturbed, WebhooksAlone
<1>8. InvoicesTell
  BY DEF Undisturbed
<1>9. ASSUME NEW n \in HandledSet
      PROVE  n # m /\ at[n] # at[m] /\ at[n] \in Nat /\ at[m] \in Nat /\ n \in Message
  BY <1>1, <1>2, <1>3 DEF Emitted
<1>10. ASSUME NEW n \in HandledSet, IsNewest(n), IsPayment(m) => at[m] < at[n]
       PROVE  IsNewest(n)'
  BY <1>2, <1>4, <1>9, <1>10 DEF IsNewest, IsPayment
<1>11. ASSUME IsPayment(m), \A n \in HandledSet : IsPayment(n) => at[n] < at[m]
       PROVE  IsNewest(m)'
  BY <1>1, <1>2, <1>4, <1>9, <1>11 DEF IsNewest, IsPayment
<1>12. ASSUME NoPayment, ~IsPayment(m) PROVE NoPayment'
  BY <1>4, <1>12 DEF NoPayment, IsPayment
<1>13. \A j \in Invoice :
         /\ invoices'[j].status \in {"absent", "failed", "paid"}
         /\ invoices'[j].status = "failed" => \E n \in HandledSet' : TellsFailed(j, n)'
         /\ invoices'[j].status = "paid" => \E n \in HandledSet' : TellsPaid(j, n)'
         /\ j = i /\ Failed(m) /\ invoices'[j].status = "failed" => TellsFailed(j, m)'
  <2> SUFFICES ASSUME NEW j \in Invoice
               PROVE  /\ invoices'[j].status \in {"absent", "failed", "paid"}
                      /\ invoices'[j].status = "failed" => \E n \in HandledSet' : TellsFailed(j, n)'
                      /\ invoices'[j].status = "paid" => \E n \in HandledSet' : TellsPaid(j, n)'
                      /\ j = i /\ Failed(m) /\ invoices'[j].status = "failed" => TellsFailed(j, m)'
    OBVIOUS
  <2>1. \/ h.invoices[j] = s.invoices[j]
        \/ /\ i = j /\ Paid(m)
           /\ h.invoices[j].status = "paid" /\ h.invoices[j].paid = at[m]
        \/ /\ i = j /\ Failed(m) /\ s.invoices[j].status # "paid"
           /\ h.invoices[j].status = "failed"
           /\ h.invoices[j].created = IF s.invoices[j].status = "absent" THEN at[m]
                                      ELSE s.invoices[j].created
    BY <1>1, <1>2, <1>6, InvoiceHandled DEF Paid, Failed
  <2>2. /\ invoices[j].status \in {"absent", "failed", "paid"}
        /\ invoices[j].status = "failed" => \E n \in HandledSet : TellsFailed(j, n)
        /\ invoices[j].status = "paid" => \E n \in HandledSet : TellsPaid(j, n)
    BY DEF Told
  <2> HIDE DEF h
  <2>3. Failed(m) /\ i = j => invoices[j].status # "failed"
    BY <2>2, <1>6 DEF TellsFailed
  <2>4. CASE invoices'[j] = invoices[j]
    BY <2>2, <2>3, <2>4, <1>2, <1>4 DEF TellsFailed, TellsPaid
  <2>5. CASE i = j /\ Paid(m) /\ invoices'[j].status = "paid" /\ invoices'[j].paid = at[m]
    <3>1. TellsPaid(j, m)'
      BY <2>5, <1>2 DEF TellsPaid
    <3> QED  BY <3>1, <2>5, <1>5
  <2>6. CASE /\ i = j /\ Failed(m)
             /\ invoices'[j].status = "failed" /\ invoices'[j].created = at[m]
    <3>1. TellsFailed(j, m)'
      BY <2>6, <1>2 DEF TellsFailed
    <3> QED  BY <3>1, <2>6, <1>5
  <2> QED  BY <2>1, <2>2, <2>3, <2>4, <2>5, <2>6, <1>1
<1> DEFINE Follows ==
             /\ sub'.status \in {"trial", "active", "past_due", "cancelled"}
             /\ sub'.status = "trial" => NoPayment'
             /\ sub'.status = "active" =>
                 NoPayment' \/ \E n \in HandledSet' : IsNewest(n)' /\ TellsPaid(Feed[n].invoice, n)'
             /\ sub'.status = "past_due" =>
                 \E n \in HandledSet' : IsNewest(n)' /\ TellsFailed(Feed[n].invoice, n)'
<1>14. ASSUME NEW n \in HandledSet, IsNewest(n), IsPayment(m) => at[m] < at[n],
              \/ sub'.status = "active" /\ TellsPaid(Feed[n].invoice, n)'
              \/ sub'.status = "past_due" /\ TellsFailed(Feed[n].invoice, n)'
       PROVE  Follows
  BY <1>4, <1>10, <1>14
<1>15. ASSUME IsPayment(m), \A n \in HandledSet : IsPayment(n) => at[n] < at[m],
              \/ sub'.status = "active" /\ TellsPaid(i, m)'
              \/ sub'.status = "past_due" /\ TellsFailed(i, m)'
       PROVE  Follows
  BY <1>5, <1>11, <1>15
\* Nothing a payment's message could change is changed.
<1>16. ASSUME sub' = sub, invoices' = invoices, ~IsPayment(m) PROVE Follows
  <2>1. sub.status = "active" => NoPayment \/ \E n \in HandledSet : IsNewest(n) /\ TellsPaid(Feed[n].invoice, n)
    BY DEF Told
  <2>2. sub.status = "past_due" => \E n \in HandledSet : IsNewest(n) /\ TellsFailed(Feed[n].invoice, n)
    BY DEF Told
  <2>3. ASSUME NEW n \in HandledSet
        PROVE  /\ TellsPaid(Feed[n].invoice, n) => TellsPaid(Feed[n].invoice, n)'
               /\ TellsFailed(Feed[n].invoice, n) => TellsFailed(Feed[n].invoice, n)'
    BY <1>2, <1>16 DEF TellsPaid, TellsFailed
  <2>4. CASE sub.status \in {"trial", "cancelled"} \/ NoPayment
    BY <2>4, <2>2, <1>12, <1>16 DEF Told, IsNewest, NoPayment
  <2>5. CASE sub.status = "active" /\ ~NoPayment
    BY <2>1, <2>3, <2>5, <1>14, <1>16
  <2>6. CASE sub.status = "past_due"
    BY <2>2, <2>3, <2>6, <1>14, <1>16
  <2> QED  BY <2>4, <2>5, <2>6 DEF Told
<1>17. CASE sub.status = "cancelled"
  <2>1. sub' = sub
    BY <1>1, <1>17, HandlersKeepClosed DEF Closed
  <2> QED  BY <1>13, <1>17, <2>1 DEF Told
<1> HIDE DEF Follows
<1>18. CASE Paid(m) /\ sub.status # "cancelled"
  <2>0. IsPayment(m) /\ i \in Invoice /\ Revivable(s)
    BY <1>1, <1>6, <1>18 DEF IsPayment, Paid, Revivable, Closed, Told
  <2>1. ASSUME ~StaleSuccess(m, s) PROVE sub'.status = "active" /\ TellsPaid(i, m)'
    <3> DEFINE row == IF s.invoices[i].status = "absent"
                      THEN [status |-> "paid", created |-> at[m], paid |-> at[m]]
                      ELSE [s.invoices[i] EXCEPT !.status = "paid", !.paid = at[m]]
    <3>1. h.invoices = [s.invoices EXCEPT ![i] = row] /\ h.sub.status = "active"
      BY <1>1, <1>2, <1>18, <2>0, <2>1, AbsentAssumption
         DEF Handled, PaymentSucceeded, Paid, Result, SubRow
    <3>2. row.status = "paid" /\ row.paid = at[m]
      BY <1>1, <1>2, <2>0 DEF InvoiceRow
    <3> HIDE DEF row, h
    <3>3. invoices'[i] = row
      BY <3>1, <1>1, <1>2, <2>0
    <3> QED  BY <3>1, <3>2, <3>3, <1>1, <1>2, <1>18 DEF TellsPaid, Paid
  <2>2. CASE sub.status = "past_due"
    <3>1. PICK f \in HandledSet : IsNewest(f) /\ TellsFailed(Feed[f].invoice, f)
      BY <2>2 DEF Told
    <3>2. LatestFailure(s) = at[f]
      BY <3>1, <1>1, <1>8, Latest
    <3>3. CASE at[m] < at[f]
      <4>1. sub' = sub /\ invoices' = invoices
        BY <1>1, <1>18, <2>2, <3>2, <3>3 DEF Handled, PaymentSucceeded, StaleSuccess, Ignored, Result, Paid
      <4>2. TellsFailed(Feed[f].invoice, f)'
        BY <3>1, <4>1, <1>2 DEF TellsFailed
      <4>3. Follows
        BY <3>1, <3>3, <4>1, <4>2, <2>2, <1>14
      <4> QED  BY <4>3, <1>13 DEF Told, Follows
    <3>4. CASE at[f] < at[m]
      <4>1. ~StaleSuccess(m, s)
        BY <1>2, <1>9, <3>2, <3>4 DEF StaleSuccess
      <4>2. \A n \in HandledSet : IsPayment(n) => at[n] < at[m]
        BY <3>1, <3>4, <1>9 DEF IsNewest
      <4>3. Follows
        BY <4>1, <4>2, <2>0, <2>1, <1>15
      <4> QED  BY <4>3, <1>13 DEF Told, Follows
    <3> QED  BY <3>3, <3>4, <1>9
  <2>3. CASE sub.status \in {"active", "trial"}
    <3>1. sub'.status = "active" /\ TellsPaid(i, m)'
      BY <2>1, <2>3, <1>1 DEF StaleSuccess
    <3>2. CASE NoPayment
      <4>1. Follows
        BY <3>1, <3>2, <2>0, <1>15 DEF NoPayment
      <4> QED  BY <4>1, <1>13 DEF Told, Follows
    <3>3. CASE ~NoPayment
      <4>1. PICK n \in HandledSet : IsNewest(n) /\ TellsPaid(Feed[n].invoice, n)
        BY <2>3, <3>3 DEF Told
      <4>2. CASE at[n] < at[m]
        <5>1. \A p \in HandledSet : IsPayment(p) => at[p] < at[m]
          BY <4>1, <4>2, <1>9 DEF IsNewest
        <5>2. Follows
          BY <3>1, <5>1, <2>0, <1>15
        <5> QED  BY <5>2, <1>13 DEF Told, Follows
      <4>3. CASE at[m] < at[n]
        <5>1. Feed[n].invoice \in Invoice /\ n \in Message /\ at[n] > 0 /\ n # m
              /\ Paid(n) /\ IsPayment(n)
          BY <4>1, <1>2, <1>8, <1>9, Telling DEF IsNewest, TellsPaid, Emitted
        <5>2. Feed[n].invoice # i
          <6> SUFFICES ASSUME Feed[n].invoice = i PROVE at[n] < at[m]
            BY <4>3, <1>9
          <6> QED  BY <5>1, <2>0, <1>1, <1>2, <1>18 DEF Emitted
        <5>3. invoices'[Feed[n].invoice] = invoices[Feed[n].invoice]
          BY <5>1, <5>2, <1>1, <1>2, InvoiceHandled
        <5>4. TellsPaid(Feed[n].invoice, n)'
          BY <4>1, <5>3, <1>2 DEF TellsPaid
        <5>5. Follows
          BY <3>1, <4>1, <4>3, <5>4, <1>14
        <5> QED  BY <5>5, <1>13 DEF Told, Follows
      <4> QED  BY <4>2, <4>3, <1>9
    <3> QED  BY <3>2, <3>3
  <2> QED  BY <2>2, <2>3, <1>18 DEF Told
<1>19. CASE Failed(m) /\ sub.status # "cancelled"
  <2>0. /\ IsPayment(m) /\ i \in Invoice /\ i # NoInvoice /\ ~Closed(s.sub.status)
        /\ Feed[m].kind = "failed"
    BY <1>1, <1>6, <1>19, AbsentAssumption DEF IsPayment, Failed, Closed, Told
  <2> DEFINE rs == [s.invoices EXCEPT ![i] = FailedRow(m, @)]
  <2>1. CASE Settled(s, i)
    <3>1. sub' = sub /\ invoices' = invoices
      BY <1>1, <2>0, <2>1 DEF Handled, PaymentFailed, Ignored, Result
    <3>2. PICK p \in HandledSet : TellsPaid(i, p)
      BY <1>1, <2>0, <2>1 DEF Settled, Told
    <3>3. p \in Message /\ at[p] > 0 /\ p # m /\ IsPayment(p) /\ Paid(p) /\ Feed[p].invoice = i
      BY <3>2, <1>2, <1>9 DEF Emitted, TellsPaid, IsPayment, Paid
    <3>4. at[m] < at[p]
      BY <3>3, <2>0, <1>1, <1>2 DEF Emitted
    <3>5. ~NoPayment
      BY <3>3 DEF NoPayment
    <3>6. PICK n \in HandledSet :
             /\ IsNewest(n)
             /\ \/ sub.status = "active" /\ TellsPaid(Feed[n].invoice, n)
                \/ sub.status = "past_due" /\ TellsFailed(Feed[n].invoice, n)
      BY <3>5, <1>19 DEF Told
    <3>7. at[m] < at[n]
      <4>1. at[p] <= at[n]
        BY <3>3, <3>6 DEF IsNewest
      <4> QED  BY <4>1, <3>4, <1>9
    <3>8. \/ sub'.status = "active" /\ TellsPaid(Feed[n].invoice, n)'
          \/ sub'.status = "past_due" /\ TellsFailed(Feed[n].invoice, n)'
      BY <3>1, <3>6, <1>2 DEF TellsPaid, TellsFailed
    <3>9. Follows
      BY <3>6, <3>7, <3>8, <1>14
    <3> QED  BY <3>9, <1>13 DEF Told, Follows
  <2>2. CASE ~Settled(s, i)
    <3>1. \/ StaleFailure(m, s, rs) /\ sub' = sub /\ invoices' = rs
          \/ /\ ~StaleFailure(m, s, rs)
             /\ sub' = [sub EXCEPT !.status = "past_due"] /\ invoices' = rs
      BY <1>1, <2>0, <2>2 DEF Handled, PaymentFailed, Result
    <3>2. invoices[i].status # "paid" /\ FailedRow(m, invoices[i]).status = "failed"
          /\ FailedRow(m, invoices[i]) \in InvoiceRow
      <4>1. invoices[i].status # "paid" /\ invoices[i] \in InvoiceRow /\ at[m] \in Nat
        BY <1>1, <1>2, <2>0, <2>2 DEF Settled
      <4>2. FailedRow(m, invoices[i]).status = "failed" /\ FailedRow(m, invoices[i]) \in InvoiceRow
        BY <4>1 DEF FailedRow, InvoiceRow
      <4> QED  BY <4>1, <4>2
    <3>3. /\ rs \in [Invoice -> InvoiceRow] /\ rs[i].status = "failed"
          /\ \A j \in Invoice \ {i} : rs[j] = invoices[j]
      BY <3>2, <1>1, <1>2, <2>0
    <3> HIDE DEF rs
    <3>4. TellsFailed(i, m)'
      BY <3>1, <3>3, <2>0, <1>13, <1>19
    <3>5. \A j \in Invoice : rs[j].status = "paid" => rs[j] = invoices[j]
      BY <3>3
    <3>6. /\ NoPayment => LatestPaid(s, rs) = 0
          /\ \A n \in HandledSet :
                IsNewest(n) /\ TellsPaid(Feed[n].invoice, n) /\ rs[Feed[n].invoice].status = "paid"
                => LatestPaid(s, rs) = at[n]
      BY <3>3, <3>5, <1>1, <1>7, <1>8, Latest
    <3>7. ASSUME sub'.status = "past_due", \A n \in HandledSet : IsPayment(n) => at[n] < at[m]
          PROVE  Follows
      BY <3>4, <3>7, <2>0, <1>15
    <3>8. ~StaleFailure(m, s, rs) => sub'.status = "past_due"
      BY <3>1, <1>2 DEF SubRow
    <3>9. CASE NoPayment
      <4>1. ~StaleFailure(m, s, rs)
        BY <3>6, <3>9, <1>1, <1>2 DEF StaleFailure
      <4>2. Follows
        BY <3>7, <3>8, <3>9, <4>1 DEF NoPayment
      <4> QED  BY <4>2, <1>13 DEF Told, Follows
    <3>10. CASE ~NoPayment /\ sub.status = "active"
      <4>1. PICK n \in HandledSet : IsNewest(n) /\ TellsPaid(Feed[n].invoice, n)
        BY <3>10 DEF Told
      <4>2. Feed[n].invoice \in Invoice /\ invoices[Feed[n].invoice].status = "paid"
        BY <4>1, <1>2, <1>8, Telling DEF IsNewest, TellsPaid
      <4>3. rs[Feed[n].invoice] = invoices[Feed[n].invoice]
        BY <3>2, <3>3, <4>2
      <4>4. LatestPaid(s, rs) = at[n]
        BY <3>6, <4>1, <4>2, <4>3
      <4>5. CASE at[m] < at[n]
        <5>1. sub' = sub /\ invoices' = rs
          BY <3>1, <4>4, <4>5, <3>10, <1>1 DEF StaleFailure
        <5>2. TellsPaid(Feed[n].invoice, n)'
          BY <4>1, <4>3, <5>1, <1>2 DEF TellsPaid
        <5>3. Follows
          BY <4>1, <4>5, <5>1, <5>2, <3>10, <1>14
        <5> QED  BY <5>3, <1>13 DEF Told, Follows
      <4>6. CASE at[n] < at[m]
        <5>1. ~StaleFailure(m, s, rs)
          BY <4>4, <4>6, <1>9 DEF StaleFailure
        <5>2. \A p \in HandledSet : IsPayment(p) => at[p] < at[m]
          BY <4>1, <4>6, <1>9 DEF IsNewest
        <5>3. Follows
          BY <3>7, <3>8, <5>1, <5>2
        <5> QED  BY <5>3, <1>13 DEF Told, Follows
      <4> QED  BY <4>5, <4>6, <1>9
    <3>11. CASE ~NoPayment /\ sub.status = "past_due"
      <4>0. sub'.status = "past_due" /\ invoices' = rs
        BY <3>1, <3>8, <3>11
      <4>1. PICK f \in HandledSet : IsNewest(f) /\ TellsFailed(Feed[f].invoice, f)
        BY <3>11 DEF Told
      <4>2. Feed[f].invoice \in Invoice /\ Feed[f].invoice # i
        BY <4>1, <1>2, <1>6, <1>8, <1>19, Telling DEF IsNewest, TellsFailed
      <4>3. CASE at[m] < at[f]
        <5>1. TellsFailed(Feed[f].invoice, f)'
          BY <4>0, <4>1, <4>2, <3>3, <1>2 DEF TellsFailed
        <5>2. Follows
          BY <4>0, <4>1, <4>3, <5>1, <1>14
        <5> QED  BY <5>2, <1>13 DEF Told, Follows
      <4>4. CASE at[f] < at[m]
        <5>1. \A p \in HandledSet : IsPayment(p) => at[p] < at[m]
          BY <4>1, <4>4, <1>9 DEF IsNewest
        <5>2. Follows
          BY <3>7, <4>0, <5>1
        <5> QED  BY <5>2, <1>13 DEF Told, Follows
      <4> QED  BY <4>3, <4>4, <1>9
    <3> QED  BY <3>9, <3>10, <3>11, <1>19 DEF Told
  <2> QED  BY <2>1, <2>2
<1>20. CASE ~Paid(m) /\ ~Failed(m) /\ sub.status # "cancelled"
  <2>0. ~IsPayment(m) /\ Feed[m].kind \in {"deleted", "partially_refunded"}
    BY <1>1, <1>6, <1>20, FeedAssumption DEF Paid, Failed, IsPayment, Kind
  <2>1. \/ sub' = sub /\ invoices' = invoices
        \/ sub' = [sub EXCEPT !.status = "cancelled"] /\ invoices' = invoices
    BY <1>1, <2>0 DEF Handled, SubscriptionDeleted, RefundProcessed, Ignored, Result
  <2>2. Follows
    <3>1. CASE sub' = sub /\ invoices' = invoices
      BY <3>1, <2>0, <1>16
    <3>2. CASE sub' = [sub EXCEPT !.status = "cancelled"]
      <4>1. sub'.status = "cancelled"
        BY <3>2, <1>2 DEF SubRow
      <4> QED  BY <4>1 DEF Follows
    <3> QED  BY <2>1, <3>1, <3>2
  <2> QED  BY <2>2, <1>13 DEF Told, Follows
<1> QED  BY <1>17, <1>18, <1>19, <1>20

-----------------------------------------------------------------------------
LEMMA InitOrder == Init => OrderInv
<1> SUFFICES ASSUME Init PROVE OrderInv
  OBVIOUS
<1>1. HandledSet = {}
  BY DEF Init, HandledSet
<1>2. Emitted
  BY <1>1 DEF Init, Emitted, Idle
<1>3. ReadsNow
  BY DEF Init, ReadsNow, Idle
<1>4. Told
  BY <1>1 DEF Init, Told, NoPayment
<1> QED  BY <1>2, <1>3, <1>4 DEF OrderInv

\* How a step leaves the requests: opened on the tables, ended or as they were.
LEMMA RequestSteps ==
    ASSUME [Next]_vars
    PROVE  \/ UNCHANGED requests
           \/ \E r \in Request : requests[r] # Idle /\ Done(r)
           \/ \E r \in Request : \E q :
                /\ Start(r, q) /\ q.seen = Store
                /\ q.op = "webhook" => q.message \in Message /\ at[q.message] > 0
                /\ UNCHANGED <<clock, at, tables, history, acked>>
<1> DEFINE Opens(r, q) ==
             /\ Start(r, q) /\ q.seen = Store
             /\ q.op = "webhook" => q.message \in Message /\ at[q.message] > 0
             /\ UNCHANGED <<clock, at, tables, history, acked>>
<1>1. ASSUME NEW r \in Request, NEW m \in Message, BeginWebhook(r, m)
      PROVE  Opens(r, [op |-> "webhook", message |-> m, seen |-> Store])
  BY <1>1 DEF BeginWebhook
<1>2. ASSUME NEW r \in Request, BeginAdmin(r) PROVE Opens(r, [op |-> "admin", seen |-> Store])
  BY <1>2 DEF BeginAdmin
<1>3. ASSUME NEW r \in Request, NEW t \in Txn, NEW op \in {"submit", "verify", "reject"},
             BeginManual(r, op, t)
      PROVE  Opens(r, [op |-> op, txn |-> t, seen |-> Store])
  BY <1>3 DEF BeginManual
<1> HIDE DEF Opens
<1>a. \A r \in Request : requests[r].op # "idle" => requests[r] # Idle
  BY DEF Idle
<1>b. \/ UNCHANGED requests
      \/ \E r \in Request : requests[r].op # "idle" /\ Done(r)
      \/ \E r \in Request : Abort(r) \/ BeginAdmin(r)
      \/ \E r \in Request, m \in Message : BeginWebhook(r, m)
      \/ \E r \in Request, t \in Txn, op \in {"submit", "verify", "reject"} : BeginManual(r, op, t)
  BY DEF Next, vars, Emit, AnswerDuplicate, CreateManualPayment, CommitWebhook,
     RejectWebhook, FailWebhook, SetStatus, AssignPlan, AdminWrites, CommitSubmitUtr,
     CommitVerify, CommitReject
<1>4. \/ UNCHANGED requests
      \/ \E r \in Request : requests[r] # Idle /\ Done(r)
      \/ \E r \in Request : \E q : Opens(r, q)
  BY <1>1, <1>2, <1>3, <1>a, <1>b DEF Abort
<1> QED  BY <1>4 DEF Opens

LEMMA EmittedNext ==
    ASSUME TypeInv, Emitted, [Next]_vars
    PROVE  Emitted'
<1>0. /\ at \in [Message -> Nat] /\ clock \in Nat /\ history \in Seq(Message)
      /\ requests = [r \in Request |-> requests[r]]
      /\ \A r \in Request : requests[r].op = "webhook" => requests[r].message \in Message
      /\ HandledSet \subseteq Message
  BY DEF TypeInv, TypeOK, RequestsTyped, HandledSet
<1>1. ASSUME NEW m \in Message, Emit(m) PROVE Emitted'
  <2>1. /\ at[m] = 0 /\ at' = [at EXCEPT ![m] = clock + 1] /\ clock' = clock + 1
        /\ requests' = requests /\ history' = history
        /\ IsPayment(m) /\ Feed[m].invoice \in Invoice =>
             \A n \in Message : at[n] > 0 /\ Paid(n) => Feed[n].invoice # Feed[m].invoice
    BY <1>1 DEF Emit, PaidAtProvider, IsPayment, Paid
  <2>2. HandledSet' = HandledSet
    BY <2>1 DEF HandledSet
  <2>3. m \notin HandledSet /\ \A r \in Request : requests[r].op = "webhook" => requests[r].message # m
    BY <2>1, <1>0 DEF Emitted
  <2>4. \A n \in Message : at'[n] = IF n = m THEN clock + 1 ELSE at[n]
    BY <2>1, <1>0
  <2>5. \A n \in Message : at[n] <= clock /\ at[n] \in Nat
    BY <1>0 DEF Emitted
  <2>6. (\A n \in Message : at[n] <= clock)'
    BY <2>1, <2>4, <2>5, <1>0
  <2>7. (\A n, p \in Message : at[n] = at[p] /\ at[n] > 0 => n = p)'
    <3> SUFFICES ASSUME NEW n \in Message, NEW p \in Message, at'[n] = at'[p], at'[n] > 0
                 PROVE  n = p
      OBVIOUS
    <3>1. CASE n # m /\ p # m
      BY <3>1, <2>4 DEF Emitted
    <3>2. CASE n = m \/ p = m
      BY <3>2, <2>4, <2>5, <1>0
    <3> QED  BY <3>1, <3>2
  <2>8. ASSUME NEW n \in Message, NEW p \in Message, IsPayment(n), Paid(p),
               Feed[n].invoice = Feed[p].invoice, Feed[p].invoice \in Invoice,
               at'[n] > 0, at'[p] > 0, n # p
        PROVE  at'[n] < at'[p]
    <3>1. CASE n # m /\ p # m
      BY <3>1, <2>4, <2>8 DEF Emitted
    <3>2. CASE p = m
      BY <3>2, <2>4, <2>5, <2>8, <1>0
    <3>3. CASE n = m
      BY <3>3, <2>1, <2>4, <2>8
    <3> QED  BY <3>1, <3>2, <3>3
  <2>9. (\A n \in HandledSet : at[n] > 0)'
    BY <2>2, <2>3, <2>4, <1>0 DEF Emitted
  <2>10. (\A r \in Request : requests[r].op = "webhook" => at[requests[r].message] > 0)'
    <3> SUFFICES ASSUME NEW r \in Request, requests[r].op = "webhook"
                 PROVE  at'[requests[r].message] > 0
      BY <2>1
    <3>1. requests[r].message \in Message /\ requests[r].message # m /\ at[requests[r].message] > 0
      BY <1>0, <2>3 DEF Emitted
    <3> QED  BY <3>1, <2>4
  <2> QED  BY <2>6, <2>7, <2>8, <2>9, <2>10 DEF Emitted, IsPayment, Paid
<1>2. CASE UNCHANGED at
  <2>0. clock' = clock \/ clock' = clock + 1
    BY DEF Next, vars, tables, Emit, AnswerDuplicate, CreateManualPayment, BeginWebhook,
       CommitWebhook, RejectWebhook, FailWebhook, Abort, BeginAdmin, SetStatus, AssignPlan,
       AdminWrites, BeginManual, CommitSubmitUtr, CommitVerify, CommitReject
  <2>1. clock' \in Nat /\ clock <= clock'
    BY <2>0, <1>0
  <2>2. (\A n \in Message : at[n] <= clock)'
    <3>1. \A n \in Message : at[n] \in Nat /\ at[n] <= clock /\ at'[n] = at[n]
      BY <1>0, <1>2 DEF Emitted
    <3> QED  BY <3>1, <2>1, <1>0
  <2>3. (\A n \in HandledSet : at[n] > 0)'
    <3>1. \/ history' = history
          \/ \E r \in Request : requests[r].op = "webhook" /\ history' = Append(history, requests[r].message)
      BY DEF Next, vars, Emit, AnswerDuplicate, CreateManualPayment, BeginWebhook,
         CommitWebhook, RejectWebhook, FailWebhook, Abort, BeginAdmin, SetStatus, AssignPlan,
         AdminWrites, BeginManual, CommitSubmitUtr, CommitVerify, CommitReject
    <3>2. \A n \in HandledSet' : n \in HandledSet \/ \E r \in Request : requests[r].op = "webhook" /\ n = requests[r].message
      <4>1. CASE history' = history
        BY <4>1 DEF HandledSet
      <4>2. ASSUME NEW r \in Request, requests[r].op = "webhook",
                   history' = Append(history, requests[r].message)
            PROVE  HandledSet' \subseteq HandledSet \cup {requests[r].message}
        <5>1. requests[r].message \in Message
          BY <4>2, <1>0
        <5>2. /\ DOMAIN history' = DOMAIN history \cup {Len(history) + 1}
              /\ history'[Len(history) + 1] = requests[r].message
              /\ \A k \in DOMAIN history : history'[k] = history[k]
          BY <4>2, <5>1, <1>0
        <5> QED  BY <5>2 DEF HandledSet
      <4> QED  BY <3>1, <4>1, <4>2
    <3> QED  BY <3>2, <1>2 DEF Emitted
  <2>4. (\A r \in Request : requests[r].op = "webhook" => at[requests[r].message] > 0)'
    <3>1. CASE UNCHANGED requests
      BY <3>1, <1>2 DEF Emitted
    <3>2. ASSUME NEW q \in Request, Done(q)
          PROVE  \A r \in Request : requests'[r].op = "webhook" => at'[requests'[r].message] > 0
      BY <3>2, <1>0, <1>2 DEF Done, Idle, Emitted
    <3>3. ASSUME NEW q \in Request, NEW x, Start(q, x), x.op = "webhook" => at[x.message] > 0
          PROVE  \A r \in Request : requests'[r].op = "webhook" => at'[requests'[r].message] > 0
      BY <3>3, <1>0, <1>2 DEF Start, Emitted
    <3> QED  BY <3>1, <3>2, <3>3, RequestSteps
  <2> QED  BY <2>2, <2>3, <2>4, <1>2 DEF Emitted, IsPayment, Paid
<1> QED
  BY <1>1, <1>2 DEF Next, vars, AnswerDuplicate, CreateManualPayment, BeginWebhook, CommitWebhook,
     RejectWebhook, FailWebhook, Abort, BeginAdmin, SetStatus, AssignPlan, AdminWrites, BeginManual,
     CommitSubmitUtr, CommitVerify, CommitReject

LEMMA ReadsNext ==
    ASSUME TypeInv, SerialInv, Exclusive, ReadsNow, [Next]_vars
    PROVE  ReadsNow'
<1>0. /\ txns \in [Txn -> TxnRow]
      /\ requests = [r \in Request |-> requests[r]]
      /\ \A r \in Request : requests[r].op \in {"submit", "verify", "reject"} => requests[r].txn \in Txn
  BY DEF TypeInv, TypeOK, RequestsTyped
<1>1. CASE UNCHANGED requests
  <2>1. invoices' = invoices /\ (txns' = txns \/ \E t \in Txn : CreateManualPayment(t))
    <3>1. ASSUME NEW r \in Request, Done(r), requests[r].op # "idle" PROVE FALSE
      BY <3>1, <1>0, <1>1 DEF Done, Idle
    <3>2. ASSUME NEW r \in Request, Done(r), requests[r] # Idle PROVE FALSE
      BY <3>2, <1>0, <1>1 DEF Done, Idle
    <3> QED
      BY <3>1, <3>2 DEF Next, vars, tables, Emit, AnswerDuplicate, BeginWebhook, CreateManualPayment,
         CommitWebhook, RejectWebhook, FailWebhook, Abort, BeginAdmin, SetStatus, AssignPlan,
         AdminWrites, BeginManual, CommitSubmitUtr, CommitVerify, CommitReject
  <2>2. \A t \in Txn : txns'[t].paid = txns[t].paid /\ (txns'[t].status = "verified" <=> txns[t].status = "verified")
    BY <2>1, <1>0 DEF CreateManualPayment, TxnRow
  <2> QED  BY <2>1, <2>2, <1>1 DEF ReadsNow
<1>2. ASSUME NEW r \in Request, requests[r] # Idle, Done(r) PROVE ReadsNow'
  <2>1. \A q \in Request : requests'[q] = Idle
    BY <1>2, <1>0 DEF SerialInv, Done
  <2>2. \A t \in Txn : txns[t].status # "verified" => txns[t].paid = 0
    BY DEF ReadsNow
  <2>3. \A t \in Txn : txns'[t].status # "verified" => txns'[t].paid = 0
    <3>1. CASE txns' = txns
      BY <3>1, <2>2
    <3>2. ASSUME NEW u \in Txn, CreateManualPayment(u) PROVE \A t \in Txn : txns'[t].status # "verified" => txns'[t].paid = 0
      BY <3>2, <2>2, <1>0 DEF CreateManualPayment, TxnRow
    <3>3. ASSUME NEW q \in Request, NEW utr \in Utr, CommitSubmitUtr(q, utr)
          PROVE  \A t \in Txn : txns'[t].status # "verified" => txns'[t].paid = 0
      BY <3>3, <2>2, <1>0 DEF CommitSubmitUtr, TxnRow
    <3>4. ASSUME NEW q \in Request, CommitVerify(q)
          PROVE  \A t \in Txn : txns'[t].status # "verified" => txns'[t].paid = 0
      BY <3>4, <2>2, <1>0 DEF CommitVerify, Verified, TxnRow
    <3>5. ASSUME NEW q \in Request, CommitReject(q)
          PROVE  \A t \in Txn : txns'[t].status # "verified" => txns'[t].paid = 0
      BY <3>5, <2>2, <1>0 DEF CommitReject, Decidable, TxnRow
    <3> QED
      BY <3>1, <3>2, <3>3, <3>4, <3>5 DEF Next, vars, tables, Emit, AnswerDuplicate, BeginWebhook,
         CommitWebhook, RejectWebhook, FailWebhook, Abort, BeginAdmin, SetStatus, AssignPlan,
         AdminWrites, BeginManual
  <2> QED  BY <2>1, <2>3 DEF ReadsNow
<1>3. ASSUME NEW r \in Request, NEW q, Start(r, q), q.seen = Store,
             UNCHANGED <<clock, at, tables, history, acked>>
      PROVE  ReadsNow'
  <2>1. invoices' = invoices /\ txns' = txns
    BY <1>3 DEF tables
  <2>2. q.seen.invoices = invoices /\ q.seen.txns = txns
    BY <1>3 DEF Store
  <2> QED  BY <2>1, <2>2, <1>0, <1>3 DEF ReadsNow, Start
<1> QED  BY <1>1, <1>2, <1>3, RequestSteps

\* What disturbs the order of the payments stays in the tables and the history.
LEMMA DisturbedStays ==
    ASSUME TypeInv, [Next]_vars, Undisturbed'
    PROVE  Undisturbed
<1>0. /\ history \in Seq(Message) /\ clock \in Nat /\ txns \in [Txn -> TxnRow]
      /\ activity \in [failed : Nat, admin : Nat]
      /\ \A r \in Request : requests[r].op \in {"submit", "verify", "reject"} => requests[r].txn \in Txn
  BY DEF TypeInv, TypeOK, RequestsTyped
<1>1. history' = history \/ \E m : history' = Append(history, m)
  BY DEF Next, vars, tables, Emit, AnswerDuplicate, CreateManualPayment, BeginWebhook, CommitWebhook,
     RejectWebhook, FailWebhook, Abort, BeginAdmin, SetStatus, AssignPlan, AdminWrites, BeginManual,
     CommitSubmitUtr, CommitVerify, CommitReject
<1>2. NothingRefunded /\ InvoicesTell
  <2>1. \A k \in DOMAIN history : k \in DOMAIN history' /\ history'[k] = history[k]
    BY <1>0, <1>1
  <2> QED  BY <2>1 DEF Undisturbed, NothingRefunded, InvoicesTell, IsPayment
<1>3. activity'.admin = activity.admin \/ activity'.admin = clock + 1
  BY <1>0 DEF Next, vars, tables, Emit, AnswerDuplicate, CreateManualPayment, BeginWebhook,
     CommitWebhook, RejectWebhook, FailWebhook, Abort, BeginAdmin, SetStatus, AssignPlan,
     AdminWrites, BeginManual, CommitSubmitUtr, CommitVerify, CommitReject
<1>4. activity.admin = 0
  BY <1>0, <1>3 DEF Undisturbed, WebhooksAlone
<1>5. ASSUME NEW t \in Txn, txns[t].status = "verified" PROVE txns'[t].status = "verified"
  <2>1. CASE txns' = txns
    BY <1>5, <2>1
  <2>2. ASSUME NEW u \in Txn, CreateManualPayment(u) PROVE txns'[t].status = "verified"
    BY <2>2, <1>5, <1>0 DEF CreateManualPayment, TxnRow
  <2>3. ASSUME NEW q \in Request, NEW utr \in Utr, CommitSubmitUtr(q, utr)
        PROVE  txns'[t].status = "verified"
    BY <2>3, <1>5, <1>0 DEF CommitSubmitUtr, TxnRow
  <2>4. ASSUME NEW q \in Request, CommitVerify(q) PROVE txns'[t].status = "verified"
    BY <2>4, <1>5, <1>0 DEF CommitVerify, Decidable, TxnRow
  <2>5. ASSUME NEW q \in Request, CommitReject(q) PROVE txns'[t].status = "verified"
    BY <2>5, <1>5, <1>0 DEF CommitReject, Decidable, TxnRow
  <2> QED
    BY <2>1, <2>2, <2>3, <2>4, <2>5 DEF Next, vars, tables, Emit, AnswerDuplicate, BeginWebhook,
       CommitWebhook, RejectWebhook, FailWebhook, Abort, BeginAdmin, SetStatus, AssignPlan,
       AdminWrites, BeginManual
<1> QED  BY <1>2, <1>4, <1>5 DEF Undisturbed, WebhooksAlone

\* Steps that move neither the subscription nor an invoice nor the history.
LEMMA ToldStays ==
    ASSUME TypeInv, Emitted, Told, UNCHANGED <<sub, invoices, history>>,
           \A m \in Message : at[m] > 0 => at'[m] = at[m]
    PROVE  Told'
<1>1. HandledSet' = HandledSet /\ HandledSet \subseteq Message
  BY DEF HandledSet, TypeInv, TypeOK
<1>2. \A m \in HandledSet : at'[m] = at[m]
  BY <1>1 DEF Emitted
<1> QED  BY <1>1, <1>2 DEF Told, TellsFailed, TellsPaid, IsNewest, NoPayment, IsPayment, Paid, Failed

LEMMA OrderNext ==
    ASSUME TypeInv, OnceInv, SerialInv, Exclusive, OrderInv, [Next]_vars
    PROVE  OrderInv'
<1>1. Emitted' /\ ReadsNow'
  BY EmittedNext, ReadsNext DEF OrderInv
<1>2. ASSUME Undisturbed' PROVE Told'
  <2>1. Undisturbed /\ Told
    BY <1>2, DisturbedStays DEF OrderInv
  <2>2. CASE \E r \in Request : CommitWebhook(r)
    BY <1>2, <2>1, <2>2, CommitTells DEF OrderInv
  <2>3. CASE /\ UNCHANGED <<sub, invoices, history>>
             /\ \A m \in Message : at[m] > 0 => at'[m] = at[m]
    BY <2>1, <2>3, ToldStays DEF OrderInv
  <2>4. ASSUME NEW m \in Message, Emit(m)
        PROVE  /\ UNCHANGED <<sub, invoices, history>>
               /\ \A n \in Message : at[n] > 0 => at'[n] = at[n]
    BY <2>4 DEF Emit, tables, TypeInv, TypeOK
  <2>5. ASSUME NEW r \in Request, NEW row, AdminWrites(r, row) PROVE FALSE
    <3>1. activity' = [activity EXCEPT !.admin = clock + 1] /\ clock \in Nat
          /\ activity \in [failed : Nat, admin : Nat]
      BY <2>5 DEF AdminWrites, TypeInv, TypeOK
    <3>2. activity'.admin = clock + 1
      BY <3>1
    <3> QED  BY <1>2, <3>1, <3>2 DEF Undisturbed, WebhooksAlone
  <2>6. ASSUME NEW r \in Request, CommitVerify(r) PROVE FALSE
    <3>1. requests[r].txn \in Txn /\ txns \in [Txn -> TxnRow]
      BY <2>6 DEF CommitVerify, TypeInv, TypeOK, RequestsTyped
    <3>2. txns'[requests[r].txn].status = "verified"
      BY <2>6, <3>1 DEF CommitVerify, Verified
    <3> QED  BY <1>2, <3>1, <3>2 DEF Undisturbed, WebhooksAlone
  <2>7. \/ \E r \in Request : CommitWebhook(r) \/ CommitVerify(r) \/ \E row : AdminWrites(r, row)
        \/ \E m \in Message : Emit(m)
        \/ UNCHANGED <<sub, invoices, history, at>>
    BY ZenonT(60) DEF Next, vars, tables, AnswerDuplicate, CreateManualPayment, BeginWebhook,
       RejectWebhook, FailWebhook, Abort, BeginAdmin, SetStatus, AssignPlan,
       BeginManual, CommitSubmitUtr, CommitReject
  <2> QED  BY <2>2, <2>3, <2>4, <2>5, <2>6, <2>7
<1> QED  BY <1>1, <1>2 DEF OrderInv

\* Told gives the order: at most one payment is the newest.
LEMMA ToldWins ==
    ASSUME TypeInv, OrderInv
    PROVE  LatestPaymentWins
<1> SUFFICES ASSUME Undisturbed, NEW k \in DOMAIN history, IsPayment(history[k]),
                    \A j \in DOMAIN history : IsPayment(history[j]) => at[history[j]] <= at[history[k]],
                    sub.status \in {"active", "past_due"}
             PROVE  sub.status = IF Feed[history[k]].kind = "succeeded" THEN "active" ELSE "past_due"
  BY DEF LatestPaymentWins, Undisturbed
<1>1. /\ history[k] \in HandledSet /\ HandledSet \subseteq Message /\ at \in [Message -> Nat]
      /\ \A n \in HandledSet : IsPayment(n) => at[n] <= at[history[k]]
  BY DEF HandledSet, TypeInv, TypeOK
<1>2. ~NoPayment /\ Told
  BY <1>1 DEF NoPayment, OrderInv
<1>3. PICK n \in HandledSet :
         /\ IsNewest(n)
         /\ \/ sub.status = "active" /\ Paid(n)
            \/ sub.status = "past_due" /\ Failed(n)
  BY <1>2 DEF Told, TellsPaid, TellsFailed
<1>4. n = history[k]
  <2>1. at[n] <= at[history[k]] /\ at[history[k]] <= at[n]
    BY <1>1, <1>3 DEF IsNewest
  <2>2. at[n] = at[history[k]] /\ at[n] > 0
    BY <1>1, <2>1 DEF OrderInv, Emitted
  <2> QED  BY <2>2, <1>1 DEF OrderInv, Emitted
<1> QED  BY <1>3, <1>4 DEF Paid, Failed

\* With handlers that do not overlap, the subscription follows the newest payment
\* handled, in whatever order the notifications are delivered, as long as every
\* payment is told by an invoice of its own, none is refunded and neither the
\* administrator nor a manual payment has moved the subscription.
THEOREM SerialLatestPaymentWins ==
    ASSUME Exclusive
    PROVE  Spec => []LatestPaymentWins
<1>1. Init => SerialInv
  BY DEF Init, SerialInv
<1>2. SerialInv /\ [Next]_vars => SerialInv'
  BY SerialNext
<1>3. TypeInv /\ OnceInv /\ SerialInv /\ OrderInv /\ [Next]_vars => OrderInv'
  BY OrderNext
<1>4. TypeInv /\ OrderInv => LatestPaymentWins
  BY ToldWins
<1>5. Spec => []TypeInv
  BY InitTypes, TypesNext, PTL DEF Spec
<1> QED  BY <1>1, <1>2, <1>3, <1>4, <1>5, InitOrder, OnceAlways, PTL DEF Spec

-----------------------------------------------------------------------------
(* BusinessIds and ReconciliationWorker. *)

\* Every id handed out belongs to a committed row.
HandedOut ==
    /\ creators = [c \in Creator |-> creators[c]]
    /\ \A c \in Creator : /\ DOMAIN creators[c] = {"phase", "seen", "left", "id"}
                          /\ creators[c].id = 0 \/ creators[c].id \in ids

DistinctInv == HandedOut /\ IdsDistinct

LEMMA DistinctInit == IdsInit => DistinctInv
BY DEF IdsInit, DistinctInv, HandedOut, IdsDistinct

\* A step that leaves the ids handed out alone and only adds rows.
LEMMA DistinctKept ==
    ASSUME DistinctInv, NEW c \in Creator, NEW row,
           creators' = [creators EXCEPT ![c] = row],
           DOMAIN row = {"phase", "seen", "left", "id"}, row.id = creators[c].id, ids' = ids
    PROVE  DistinctInv'
<1>1. \A d \in Creator : creators'[d].id = creators[d].id
  BY DEF DistinctInv, HandedOut
<1>2. HandedOut'
  BY <1>1 DEF DistinctInv, HandedOut
<1>3. IdsDistinct'
  BY <1>1 DEF DistinctInv, IdsDistinct
<1> QED  BY <1>2, <1>3 DEF DistinctInv

LEMMA InsertDistinct ==
    ASSUME DistinctInv, NEW c \in Creator, Insert(c)
    PROVE  DistinctInv'
<1>1. PICK n : /\ n \notin ids /\ ids' = ids \cup {n}
               /\ creators' = [creators EXCEPT ![c].phase = "created", ![c].id = n]
  BY DEF Insert, FreeId
<1>2. creators'[c].id = n /\ \A d \in Creator \ {c} : creators'[d].id = creators[d].id
  BY <1>1 DEF DistinctInv, HandedOut
<1>3. /\ creators' = [d \in Creator |-> creators'[d]]
      /\ \A d \in Creator : DOMAIN creators'[d] = {"phase", "seen", "left", "id"}
  BY <1>1 DEF DistinctInv, HandedOut
<1>4. HandedOut'
  BY <1>1, <1>2, <1>3 DEF DistinctInv, HandedOut
<1>5. IdsDistinct'
  <2> SUFFICES ASSUME NEW a \in Creator, NEW b \in Creator,
                      creators'[a].id = creators'[b].id, creators'[a].id # 0
               PROVE  a = b
    BY DEF IdsDistinct
  <2>1. CASE a # c /\ b # c
    BY <2>1, <1>2 DEF DistinctInv, IdsDistinct
  <2>2. CASE a = c /\ b # c
    BY <2>2, <1>1, <1>2 DEF DistinctInv, HandedOut
  <2>3. CASE b = c /\ a # c
    BY <2>3, <1>1, <1>2 DEF DistinctInv, HandedOut
  <2> QED  BY <2>1, <2>2, <2>3
<1> QED  BY <1>4, <1>5 DEF DistinctInv

LEMMA DistinctNext == DistinctInv /\ [IdsNext]_idsVars => DistinctInv'
<1> SUFFICES ASSUME DistinctInv, [IdsNext]_idsVars PROVE DistinctInv'
  OBVIOUS
<1>1. ASSUME NEW c \in Creator, Attempt(c) PROVE DistinctInv'
  <2> DEFINE row == [creators[c] EXCEPT !.phase = "generating", !.seen = ids]
  <2>1. creators' = [creators EXCEPT ![c] = row] /\ ids' = ids
    BY <1>1 DEF Attempt, DistinctInv, HandedOut
  <2>2. DOMAIN row = {"phase", "seen", "left", "id"} /\ row.id = creators[c].id
    BY DEF DistinctInv, HandedOut
  <2> HIDE DEF row
  <2> QED  BY <2>1, <2>2, DistinctKept
<1>2. ASSUME NEW c \in Creator, Conflict(c) PROVE DistinctInv'
  <2> DEFINE row == [creators[c] EXCEPT !.phase = AfterConflict(creators[c].left), !.left = @ - 1]
  <2>1. creators' = [creators EXCEPT ![c] = row] /\ ids' = ids
    BY <1>2 DEF Conflict, DistinctInv, HandedOut
  <2>2. DOMAIN row = {"phase", "seen", "left", "id"} /\ row.id = creators[c].id
    BY DEF DistinctInv, HandedOut
  <2> HIDE DEF row
  <2> QED  BY <2>1, <2>2, DistinctKept
<1>3. ASSUME NEW c \in Creator, GiveUp(c) PROVE DistinctInv'
  <2> DEFINE row == [creators[c] EXCEPT !.phase = "failed"]
  <2>1. creators' = [creators EXCEPT ![c] = row] /\ ids' = ids
    BY <1>3 DEF GiveUp, DistinctInv, HandedOut
  <2>2. DOMAIN row = {"phase", "seen", "left", "id"} /\ row.id = creators[c].id
    BY DEF DistinctInv, HandedOut
  <2> HIDE DEF row
  <2> QED  BY <2>1, <2>2, DistinctKept
<1>4. CASE UNCHANGED idsVars
  BY <1>4 DEF idsVars, DistinctInv, HandedOut, IdsDistinct
<1> QED  BY <1>1, <1>2, <1>3, <1>4, InsertDistinct DEF IdsNext

\* Two requests are never answered with the same business id.
THEOREM IdsAlwaysDistinct == IdsSpec => []IdsDistinct
<1>1. DistinctInv => IdsDistinct
  BY DEF DistinctInv
<1> QED  BY <1>1, DistinctInit, DistinctNext, PTL DEF IdsSpec

-----------------------------------------------------------------------------
\* A worker between the answer to its SET and the end of its release owns the key.
HolderOwnsKey == KeyTrusted => \A w \in Worker : InRun(w) => key = w

LockInv ==
    /\ key \in Worker \cup {Nobody, Orphan}
    /\ phase \in [Worker -> Phase]
    /\ HolderOwnsKey

LEMMA Names == Nobody \notin Worker /\ Orphan \notin Worker /\ Nobody # Orphan
BY NobodyAssumption

LEMMA PhaseOf ==
    ASSUME LockInv, NEW w \in Worker, NEW p \in Phase, To(w, p)
    PROVE  /\ phase' \in [Worker -> Phase] /\ phase'[w] = p
           /\ \A v \in Worker \ {w} : phase'[v] = phase[v] /\ (InRun(v)' <=> InRun(v))
BY DEF LockInv, To, InRun

\* Mishaps are never forgotten.
LEMMA Remembered ==
    ASSUME [WorkerNext]_workerVars, KeyTrusted'
    PROVE  KeyTrusted
<1>1. mishaps \subseteq mishaps'
  BY DEF WorkerNext, Expire, Acquire, Scan, AcquireInProcess, Finish, ReleaseAfterScan, Stop, Close,
         Crash, Release, workerVars
<1> QED  BY <1>1 DEF KeyTrusted

\* A release deletes a worker's own key only, so the others keep theirs.
LEMMA ReleaseLock ==
    ASSUME LockInv, KeyTrusted' => KeyTrusted,
           NEW w \in Worker, NEW p \in Phase \ {"granted", "scanning", "finished"},
           Release(w), To(w, p)
    PROVE  LockInv'
<1>1. key' = key \/ (key = w /\ key' = Nobody)
  BY DEF Release, Deleted
<1>2. phase' \in [Worker -> Phase] /\ ~InRun(w)'
  BY PhaseOf DEF InRun
<1>3. HolderOwnsKey'
  <2> SUFFICES ASSUME KeyTrusted', NEW v \in Worker, InRun(v)' PROVE key' = v
    BY DEF HolderOwnsKey
  <2>1. v # w /\ InRun(v)
    BY <1>2, PhaseOf
  <2>2. key = v
    BY <2>1 DEF LockInv, HolderOwnsKey
  <2> QED  BY <1>1, <2>1, <2>2
<1> QED  BY <1>1, <1>2, <1>3 DEF LockInv

\* A worker that stays out of a run, or in its run, and leaves the key alone.
LEMMA KeyKept ==
    ASSUME LockInv, KeyTrusted' => KeyTrusted, NEW w \in Worker, NEW p \in Phase,
           To(w, p), key' = key, p \in {"granted", "scanning", "finished"} => InRun(w)
    PROVE  LockInv'
<1>1. phase' \in [Worker -> Phase] /\ (InRun(w)' => InRun(w))
  BY PhaseOf DEF InRun
<1>2. HolderOwnsKey'
  BY <1>1, PhaseOf DEF HolderOwnsKey, LockInv
<1> QED  BY <1>1, <1>2 DEF LockInv

LEMMA LockNext ==
    ASSUME LockInv, [WorkerNext]_workerVars
    PROVE  LockInv'
<1> USE Remembered
<1>1. CASE Expire
  <2>1. key' = Nobody /\ phase' = phase
    BY <1>1 DEF Expire
  <2>2. ASSUME KeyTrusted', NEW w \in Worker, InRun(w)' PROVE key' = w
    <3>1. InRun(w) /\ key = w
      BY <2>1, <2>2 DEF InRun, LockInv, HolderOwnsKey
    <3>2. "outlived" \in mishaps'
      BY <1>1, <3>1 DEF Expire
    <3> QED  BY <2>2, <3>2 DEF KeyTrusted
  <2> QED  BY <2>1, <2>2 DEF LockInv, HolderOwnsKey
<1>2. ASSUME NEW w \in Worker, Acquire(w) PROVE LockInv'
  <2>1. "granted" \in Phase /\ key = Nobody /\ key' = w /\ To(w, "granted")
    BY <1>2 DEF Phase, Acquire, KeyFree
  <2>2. ASSUME KeyTrusted', NEW v \in Worker, InRun(v)' PROVE v = w
    <3>1. v # w => InRun(v)
      BY <2>1, <2>2, PhaseOf
    <3> QED  BY <2>1, <2>2, <3>1, Names DEF LockInv, HolderOwnsKey
  <2> QED  BY <2>1, <2>2, PhaseOf DEF LockInv, HolderOwnsKey
<1>3. ASSUME NEW w \in Worker, Scan(w) \/ Finish(w) PROVE LockInv'
  <2>1. PICK p \in {"scanning", "finished"} : To(w, p)
    BY <1>3 DEF Scan, Finish
  <2>2. p \in Phase /\ key' = key /\ InRun(w)
    BY <1>3 DEF Scan, Finish, InRun, Phase
  <2> QED  BY <2>1, <2>2, KeyKept
<1>4. ASSUME NEW w \in Worker, AcquireInProcess(w) PROVE LockInv'
  <2>1. "scanning" \in Phase /\ To(w, "scanning") /\ key' = key
    BY <1>4 DEF AcquireInProcess, Phase
  <2>2. ~KeyTrusted'
    BY <1>4 DEF AcquireInProcess, KeyTrusted
  <2> QED  BY <2>1, <2>2, PhaseOf DEF LockInv, HolderOwnsKey
<1>5. ASSUME NEW w \in Worker, ReleaseAfterScan(w) PROVE LockInv'
  <2>1. "waiting" \in Phase
    BY DEF Phase
  <2> QED  BY <1>5, <2>1, ReleaseLock DEF ReleaseAfterScan
<1>6. ASSUME NEW w \in Worker, Stop(w) PROVE LockInv'
  <2>1. "closing" \in Phase /\ To(w, "closing")
    BY <1>6 DEF Phase, Stop
  <2>2. CASE Release(w)
    BY <2>1, <2>2, ReleaseLock
  <2>3. CASE key' = key
    BY <2>1, <2>3, KeyKept
  <2> QED  BY <1>6, <2>2, <2>3 DEF Stop
<1>7. ASSUME NEW w \in Worker, Close(w) PROVE LockInv'
  <2>1. PICK p \in {"released", "stopped"} : To(w, p)
    BY <1>7 DEF Close
  <2>2. p \in Phase /\ Release(w)
    BY <1>7 DEF Close, ReleasesOnClosing, Phase
  <2> QED  BY <2>1, <2>2, ReleaseLock
<1>8. ASSUME NEW w \in Worker, Crash(w) PROVE LockInv'
  <2>1. "waiting" \in Phase /\ To(w, "waiting") /\ UNCHANGED mishaps
    BY <1>8 DEF Phase, Crash
  <2>2. key' \in Worker \cup {Nobody, Orphan} /\ (key # w => key' = key)
    BY <1>8 DEF Crash, LockInv
  <2>3. ASSUME KeyTrusted', NEW v \in Worker, InRun(v)' PROVE key' = v
    <3>1. v # w
      BY <2>1, <2>3, PhaseOf DEF InRun
    <3>2. key = v
      BY <2>1, <2>3, <3>1, PhaseOf DEF LockInv, HolderOwnsKey
    <3> QED  BY <2>2, <3>1, <3>2
  <2> QED  BY <2>1, <2>2, <2>3, PhaseOf DEF LockInv, HolderOwnsKey
<1>9. CASE UNCHANGED workerVars
  BY <1>9 DEF LockInv, HolderOwnsKey, InRun, KeyTrusted, workerVars
<1> QED
  BY <1>1, <1>2, <1>3, <1>4, <1>5, <1>6, <1>7, <1>8, <1>9 DEF WorkerNext

LEMMA LockInit == WorkerInit => LockInv
BY DEF WorkerInit, LockInv, HolderOwnsKey, InRun, Phase

-----------------------------------------------------------------------------
\* A scanning worker has the key, so no two workers scan.
THEOREM ScanningHoldsKey == WorkerSpec => []ScannerHoldsKey
<1>1. LockInv /\ [WorkerNext]_workerVars => LockInv'
  BY LockNext
<1>2. LockInv => ScannerHoldsKey
  BY DEF LockInv, HolderOwnsKey, InRun, ScannerHoldsKey, Scanners
<1> QED  BY <1>1, <1>2, LockInit, PTL DEF WorkerSpec

LEMMA ScannersAtMostOne ==
    ASSUME LockInv, KeyTrusted
    PROVE  Scanners = {} \/ Scanners = {key}
BY DEF LockInv, HolderOwnsKey, InRun, Scanners

\* Who scans after worker w moves to phase p.
LEMMA ScannersAfter ==
    ASSUME LockInv, NEW w \in Worker, NEW p \in Phase, To(w, p)
    PROVE  Scanners' = IF p = "scanning" THEN Scanners \cup {w} ELSE Scanners \ {w}
BY PhaseOf DEF Scanners

\* The promise ends with the first mishap: whoever was scanning counts no more.
LEMMA TrustLost ==
    ASSUME LockInv, [WorkerNext]_workerVars, ~KeyTrusted'
    PROVE  [Promise!Next]_Scanner
<1>1. Scanner' = Nobody
  BY DEF Scanner
<1>2. CASE Scanner = Nobody
  BY <1>1, <1>2
<1>3. CASE Scanner # Nobody
  <2>1. Scanner \in Worker
    BY <1>3 DEF Scanner, Scanners
  <2> QED  BY <1>1, <2>1 DEF Promise!Next, Promise!End
<1> QED  BY <1>2, <1>3

\* Leaving "scanning", if w was there, is the end of w's scan.
LEMMA LeaveStep ==
    ASSUME LockInv, KeyTrusted, KeyTrusted',
           NEW w \in Worker, NEW p \in Phase \ {"scanning"}, To(w, p)
    PROVE  [Promise!Next]_Scanner
<1>1. Scanners' = Scanners \ {w}
  BY ScannersAfter
<1>2. CASE w \notin Scanners
  <2>1. Scanners' = Scanners
    BY <1>1, <1>2
  <2>2. Scanner' = Scanner
    BY <2>1 DEF Scanner
  <2> QED  BY <2>2
<1>3. CASE w \in Scanners
  <2>1. Scanners = {w} /\ Scanners' = {}
    BY <1>1, <1>3, ScannersAtMostOne
  <2>2. Scanner = w /\ Scanner' = Nobody
    BY <2>1 DEF Scanner
  <2> QED  BY <2>2 DEF Promise!Next, Promise!End
<1> QED  BY <1>2, <1>3

\* A step starts a scan when nobody scans, ends the scan, or neither.
LEMMA ScanStep ==
    ASSUME LockInv, [WorkerNext]_workerVars
    PROVE  [Promise!Next]_Scanner
<1>1. CASE ~KeyTrusted'
  BY <1>1, TrustLost
<1>2. CASE KeyTrusted'
  <2>1. KeyTrusted
    BY <1>2, Remembered
  <2>2. ASSUME UNCHANGED phase PROVE [Promise!Next]_Scanner
    BY <1>2, <2>1, <2>2 DEF Scanner, Scanners
  <2>3. ASSUME NEW w \in Worker, Scan(w) PROVE [Promise!Next]_Scanner
    <3>1. key = w /\ w \notin Scanners
      BY <2>1, <2>3 DEF Scan, LockInv, HolderOwnsKey, InRun, Scanners
    <3>2. Scanners = {}
      BY <2>1, <3>1, ScannersAtMostOne
    <3>3. "scanning" \in Phase
      BY DEF Phase
    <3>4. Scanners' = {w}
      BY <2>3, <3>2, <3>3, ScannersAfter DEF Scan
    <3>5. Scanner = Nobody /\ Scanner' = w
      BY <1>2, <3>2, <3>4 DEF Scanner
    <3> QED  BY <3>5 DEF Promise!Next, Promise!Begin
  <2>4. ASSUME NEW w \in Worker,
               Acquire(w) \/ Finish(w) \/ ReleaseAfterScan(w) \/ Stop(w) \/ Close(w) \/ Crash(w)
        PROVE  [Promise!Next]_Scanner
    <3>1. PICK p \in Phase \ {"scanning"} : To(w, p)
      BY <2>4 DEF Acquire, Finish, ReleaseAfterScan, Stop, Close, Crash, Phase
    <3> QED  BY <1>2, <2>1, <3>1, LeaveStep
  <2>5. ASSUME NEW w \in Worker, AcquireInProcess(w) PROVE FALSE
    BY <1>2, <2>5 DEF AcquireInProcess, KeyTrusted
  <2> QED
    BY <2>2, <2>3, <2>4, <2>5 DEF WorkerNext, Expire, workerVars
<1> QED  BY <1>1, <1>2

\* The lock implements scans that do not overlap.
THEOREM LockImplementsExclusiveScan == WorkerSpec => ScansExclusive
<1>1. WorkerInit => Promise!Init
  BY DEF WorkerInit, Promise!Init, Scanner, Scanners
<1>2. LockInv /\ [WorkerNext]_workerVars => LockInv'
  BY LockNext
<1>3. LockInv /\ [WorkerNext]_workerVars => [Promise!Next]_Scanner
  BY ScanStep
<1> QED  BY <1>1, <1>2, <1>3, LockInit, PTL DEF WorkerSpec, ScansExclusive, Promise!Spec

-----------------------------------------------------------------------------
(* Types.  A request that may still insert has an attempt left, and its       *)
(* snapshot is of rows that stay.                                             *)

CreatorRow == [phase : {"new", "generating", "created", "failed"},
               seen : SUBSET ids, left : 0..Attempts, id : ids \cup {0}]

IdsInv ==
    /\ IdsTypeOK
    /\ \A c \in Creator : creators[c].phase \in {"new", "generating"} => creators[c].left > 0

\* One request's row changes, and rows are only added.
LEMMA CreatorChanges ==
    ASSUME IdsInv, NEW c \in Creator, NEW row, creators' = [creators EXCEPT ![c] = row],
           ids \subseteq ids', ids' \subseteq Nat \ {0}, row \in CreatorRow',
           row.phase \in {"new", "generating"} => row.left > 0
    PROVE  IdsInv'
<1>1. creators \in [Creator -> CreatorRow]
  BY DEF IdsInv, IdsTypeOK, CreatorRow
<1>2. CreatorRow \subseteq CreatorRow'
  <2> SUFFICES ASSUME NEW x \in CreatorRow PROVE x \in CreatorRow'
    OBVIOUS
  <2>1. x.seen \in SUBSET ids' /\ x.id \in ids' \cup {0}
    BY DEF CreatorRow
  <2> QED  BY <2>1 DEF CreatorRow
<1> HIDE DEF CreatorRow
<1>3. creators' \in [Creator -> CreatorRow']
  BY <1>1, <1>2
<1>4. \A d \in Creator : creators'[d].phase \in {"new", "generating"} => creators'[d].left > 0
  BY <1>1 DEF IdsInv
<1> QED  BY <1>3, <1>4 DEF IdsInv, IdsTypeOK, CreatorRow

LEMMA IdsTypes == IdsInv /\ [IdsNext]_idsVars => IdsInv'
<1> SUFFICES ASSUME IdsInv, [IdsNext]_idsVars PROVE IdsInv'
  OBVIOUS
<1>0. ids \subseteq Nat \ {0} /\ creators \in [Creator -> CreatorRow] /\ Attempts \in Nat
  BY AttemptsAssumption DEF IdsInv, IdsTypeOK, CreatorRow
<1>1. ASSUME NEW c \in Creator, Attempt(c) PROVE IdsInv'
  <2> DEFINE row == [creators[c] EXCEPT !.phase = "generating", !.seen = ids]
  <2>1. creators' = [creators EXCEPT ![c] = row] /\ ids' = ids
    BY <1>0, <1>1 DEF Attempt, CreatorRow
  <2>2. row \in CreatorRow /\ row.left > 0
    BY <1>0, <1>1 DEF Attempt, CreatorRow, IdsInv
  <2>3. row \in CreatorRow'
    BY <2>1, <2>2 DEF CreatorRow
  <2> HIDE DEF row
  <2> QED  BY <1>0, <2>1, <2>2, <2>3, CreatorChanges
<1>2. ASSUME NEW c \in Creator, Insert(c) PROVE IdsInv'
  <2>1. PICK n \in Candidates(creators[c].seen) :
          ids' = ids \cup {n} /\ creators' = [creators EXCEPT ![c].phase = "created", ![c].id = n]
    BY <1>2 DEF Insert
  <2>2. n \in Nat \ {0}
    <3>1. creators[c].seen \subseteq Nat
      BY <1>0 DEF CreatorRow
    <3>2. LastNumbers(creators[c].seen) \subseteq Nat
      BY <3>1 DEF LastNumbers
    <3> QED  BY <3>2 DEF Candidates
  <2> DEFINE row == [creators[c] EXCEPT !.phase = "created", !.id = n]
  <2>3. creators' = [creators EXCEPT ![c] = row]
    BY <1>0, <2>1 DEF CreatorRow
  <2>4. row \in CreatorRow' /\ row.phase = "created"
    BY <1>0, <2>1 DEF CreatorRow
  <2> HIDE DEF row
  <2> QED  BY ZenonT(60), <1>0, <2>1, <2>2, <2>3, <2>4, CreatorChanges
<1>3. ASSUME NEW c \in Creator, Conflict(c) PROVE IdsInv'
  <2> DEFINE row == [creators[c] EXCEPT !.phase = AfterConflict(creators[c].left), !.left = @ - 1]
  <2>1. creators' = [creators EXCEPT ![c] = row] /\ ids' = ids
    BY <1>0, <1>3 DEF Conflict, CreatorRow
  <2>2. creators[c].left \in 1..Attempts
    BY <1>0, <1>3 DEF Conflict, CreatorRow, IdsInv
  <2>3. /\ row \in CreatorRow
        /\ row.phase \in {"new", "generating"} => row.left > 0
    <3>1. creators[c].left - 1 \in 0..Attempts /\ (creators[c].left > 1 => creators[c].left - 1 > 0)
      BY <1>0, <2>2
    <3>2. \/ AfterConflict(creators[c].left) = "new" /\ creators[c].left > 1
          \/ AfterConflict(creators[c].left) = "failed"
      BY DEF AfterConflict
    <3> QED  BY <1>0, <3>1, <3>2 DEF CreatorRow
  <2>4. row \in CreatorRow'
    BY <2>1, <2>3 DEF CreatorRow
  <2> HIDE DEF row
  <2> QED  BY <1>0, <2>1, <2>3, <2>4, CreatorChanges
<1>4. ASSUME NEW c \in Creator, GiveUp(c) PROVE IdsInv'
  <2> DEFINE row == [creators[c] EXCEPT !.phase = "failed"]
  <2>1. creators' = [creators EXCEPT ![c] = row] /\ ids' = ids
    BY <1>0, <1>4 DEF GiveUp, CreatorRow
  <2>2. row \in CreatorRow /\ row.phase = "failed"
    BY <1>0 DEF CreatorRow
  <2>3. row \in CreatorRow'
    BY <2>1, <2>2 DEF CreatorRow
  <2> HIDE DEF row
  <2> QED  BY <1>0, <2>1, <2>2, <2>3, CreatorChanges
<1>5. CASE UNCHANGED idsVars
  BY <1>5 DEF idsVars, IdsInv, IdsTypeOK
<1> QED  BY <1>1, <1>2, <1>3, <1>4, <1>5 DEF IdsNext

LEMMA IdsTypesInit == IdsInit => IdsInv
<1> SUFFICES ASSUME IdsInit PROVE IdsInv
  OBVIOUS
<1>1. ids \subseteq Nat \ {0}
  BY ExistingAssumption DEF IdsInit
<1> QED  BY <1>1, AttemptsAssumption DEF IdsInit, IdsInv, IdsTypeOK

\* A lock is released with its scan, on stop, on closing and by a crash.
LEMMA WorkerTypes == WorkerTypeOK /\ [WorkerNext]_workerVars => WorkerTypeOK'
<1> SUFFICES ASSUME WorkerTypeOK, [WorkerNext]_workerVars PROVE WorkerTypeOK'
  OBVIOUS
<1> USE DEF WorkerTypeOK, Phase, Mishap
<1>1. ASSUME NEW w \in Worker, Acquire(w) PROVE WorkerTypeOK'
  BY <1>1 DEF Acquire, To
<1>2. ASSUME NEW w \in Worker, Scan(w) \/ Finish(w) PROVE WorkerTypeOK'
  BY <1>2 DEF Scan, Finish, To
<1>3. ASSUME NEW w \in Worker, AcquireInProcess(w) PROVE WorkerTypeOK'
  BY <1>3 DEF AcquireInProcess, To
<1>r. ASSUME NEW w \in Worker, NEW p \in Phase, Release(w), To(w, p) PROVE WorkerTypeOK'
  <2>1. /\ key' \in Worker \cup {Nobody, Orphan} /\ mishaps' \subseteq Mishap /\ crashes' = crashes
        /\ inProcess' = [inProcess EXCEPT ![w] = FALSE]
    BY <1>r DEF Release, Deleted, Unlocked
  <2>2. phase' \in [Worker -> Phase] /\ \A v \in Worker \ {w} : phase'[v] = phase[v]
    BY <1>r DEF To
  <2> QED  BY <2>1, <2>2
<1>4. ASSUME NEW w \in Worker, ReleaseAfterScan(w) PROVE WorkerTypeOK'
  BY <1>4, <1>r DEF ReleaseAfterScan
<1>5. ASSUME NEW w \in Worker, Stop(w) PROVE WorkerTypeOK'
  <2>1. CASE Release(w)
    BY <1>5, <1>r, <2>1 DEF Stop
  <2>2. CASE UNCHANGED <<key, inProcess, crashes, mishaps>>
    BY <1>5, <2>2 DEF Stop, To
  <2> QED  BY <1>5, <2>1, <2>2 DEF Stop
<1>6. ASSUME NEW w \in Worker, Close(w) PROVE WorkerTypeOK'
  BY <1>6, <1>r DEF Close, ReleasesOnClosing
<1>7. ASSUME NEW w \in Worker, Crash(w) PROVE WorkerTypeOK'
  BY <1>7, MaxCrashesAssumption DEF Crash, To
<1>8. CASE Expire
  BY <1>8 DEF Expire
<1>9. CASE UNCHANGED workerVars
  BY <1>9 DEF workerVars
<1> QED
  BY <1>1, <1>2, <1>3, <1>4, <1>5, <1>6, <1>7, <1>8, <1>9 DEF WorkerNext

LEMMA WorkerTypesInit == WorkerInit => WorkerTypeOK
BY MaxCrashesAssumption DEF WorkerInit, WorkerTypeOK, Phase, Mishap

\* Every row, every key and every lock keeps its type, whichever of the three
\* goes on: for any feed, any number of creations and any crashes.
THEOREM ProgressTypes == MCFairSpec => []ProgressTypesOK
<1> DEFINE Inv == TypeInv /\ IdsInv /\ WorkerTypeOK
<1>1. MCInit => Inv
  BY InitTypes, IdsTypesInit, WorkerTypesInit DEF MCInit
<1>2. Inv /\ [MCNext]_allVars => Inv'
  <2> SUFFICES ASSUME Inv, [MCNext]_allVars PROVE Inv'
    OBVIOUS
  <2>1. [Next]_vars /\ [IdsNext]_idsVars /\ [WorkerNext]_workerVars
    BY DEF MCNext, allVars
  <2> QED  BY <2>1, TypesNext, IdsTypes, WorkerTypes
<1>3. Inv => ProgressTypesOK
  BY DEF ProgressTypesOK, TypeInv, IdsInv
<1> QED  BY <1>1, <1>2, <1>3, PTL DEF MCFairSpec
=============================================================================
