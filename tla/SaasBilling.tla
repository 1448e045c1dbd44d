---------------------------- MODULE SaasBilling ----------------------------
(***************************************************************************)
(* One tenant's subscription: the payment provider's webhooks               *)
(* (app/services/billing/billing_service.py), the platform administrator's  *)
(* subscription operations and the manual UPI payments                      *)
(* (app/services/superadmin.py, app/api/saas_billing.py).                   *)
(*                                                                         *)
(* The provider emits messages in time order and delivers each one at least *)
(* once, in any order, until it is answered with success.  A request runs   *)
(* in one REPEATABLE READ transaction: Begin... takes its snapshot,          *)
(* Commit... decides on that snapshot, writes the attributes it changed and *)
(* commits.  No handler here locks the subscription or an invoice; only     *)
(* the row of a manual payment is locked.                                   *)
(***************************************************************************)
EXTENDS Integers, Sequences, FiniteSets

CONSTANTS
    Message,      \* provider notifications
    Feed,         \* what each says: event id, kind, invoice, plan, provider subscription
    Invoice, NoInvoice,
    Plan, NoPlan,
    ProviderSub, NoSub,
    Txn,          \* manual UPI payments
    TxnPlan,      \* the plan each one pays for
    Utr, NoUtr,   \* bank references a tenant submits
    AdminStatus,  \* statuses the platform administrator sets
    Request,      \* request slots: how many handlers run at once
    MayFail,      \* bound: notifications whose handler may raise something unexpected
    AdminUntil,   \* bound: the administrator acts again only up to this time
    Exclusive     \* TRUE: handlers never overlap

Kind == {"succeeded", "failed", "deleted", "refunded", "partially_refunded"}
SubStatus == {"trial", "active", "past_due", "suspended", "cancelled", "expired"}

ASSUME FeedAssumption ==
    \A m \in Message :
        /\ Feed[m].kind \in Kind
        /\ Feed[m].invoice \in Invoice \cup {NoInvoice}
        /\ Feed[m].plan \in Plan \cup {NoPlan}
        /\ Feed[m].sub \in ProviderSub \cup {NoSub}
ASSUME AbsentAssumption ==
    NoInvoice \notin Invoice /\ NoPlan \notin Plan /\ NoSub \notin ProviderSub /\ NoUtr \notin Utr
ASSUME TxnPlanAssumption     == TxnPlan \in [Txn -> Plan]
ASSUME AdminStatusAssumption == AdminStatus \subseteq SubStatus
ASSUME MayFailAssumption     == MayFail \subseteq Message
ASSUME AdminUntilAssumption  == AdminUntil \in Nat
ASSUME ExclusiveAssumption   == Exclusive \in BOOLEAN

EventId == {Feed[m].id : m \in Message}

VARIABLES
    clock,       \* seconds that matter: emissions and stamped writes
    at,          \* when each message was emitted, 0 = not yet
    sub,         \* the subscriptions row
    invoices,    \* the subscription_invoices rows the provider names
    activity,    \* activity_logs: time of the newest failed payment, of the administrator's last change
    rows,        \* billing_webhook_events, by event id
    txns,        \* manual_payment_transactions, each with its UPI invoices
    requests,    \* handlers in progress with their snapshots
    history,     \* messages whose handler committed, in order (history variable)
    acked        \* messages the provider has a success answer for

tables == <<sub, invoices, activity, rows, txns>>
vars   == <<clock, at, tables, requests, history, acked>>

-----------------------------------------------------------------------------
(* Rows and snapshots. *)

SubRow     == [status : SubStatus, plan : Plan, ext : ProviderSub \cup {NoSub}, start : Nat]
InvoiceRow == [status : {"absent", "paid", "failed", "refunded"}, created : Nat, paid : Nat]
TxnRow     == [status : {"absent", "pending", "verified", "rejected"},
               utr : Utr \cup {NoUtr}, upiInvoices : Nat, paid : Nat]

Idle == [op |-> "idle"]
Store == [sub |-> sub, invoices |-> invoices, activity |-> activity, txns |-> txns]

\* Only attributes that differ from what the session loaded are written.
Flushed(cur, old, new) ==
    [f \in DOMAIN cur |-> IF new[f] = old[f] THEN cur[f] ELSE new[f]]

MayStart == Exclusive => \A r \in Request : requests[r] = Idle
Start(r, request) ==
    /\ requests[r] = Idle /\ MayStart
    /\ requests' = [requests EXCEPT ![r] = request]
Done(r) == requests' = [requests EXCEPT ![r] = Idle]

-----------------------------------------------------------------------------
(* The webhook handlers, as what they make of a snapshot s: the rows after    *)
(* the handler and whether it logs a payment failure.                         *)

Closed(status) == status \in {"cancelled", "expired"}
Result(s, subRow, invoiceRows, logs) == [sub |-> subRow, invoices |-> invoiceRows, logs |-> logs]
Ignored(s) == Result(s, s.sub, s.invoices, FALSE)

Newest(times) == CHOOSE t \in times \cup {0} : \A u \in times \cup {0} : u <= t
FailedTimes(s) == {s.invoices[i].created : i \in {j \in Invoice : s.invoices[j].status = "failed"}}
\* The failed invoices if there are any, else the activity log.
LatestFailure(s) == IF FailedTimes(s) # {} THEN Newest(FailedTimes(s)) ELSE s.activity.failed
LatestPaid(s, rs) ==
    Newest({rs[i].paid : i \in {j \in Invoice : rs[j].status = "paid"}}
           \cup {s.txns[t].paid : t \in Txn})

\* Mutant: a success is taken at face value, however old.
StaleSuccessNever(m, s) == s.sub.status = "past_due" /\ at[m] < 0
StaleSuccess(m, s)      == s.sub.status = "past_due" /\ at[m] < LatestFailure(s)
\* Mutant: only a failure of the same second is stale.
StaleFailureNever(m, s, rs) == s.sub.status = "active" /\ LatestPaid(s, rs) < 0
StaleFailure(m, s, rs)      == s.sub.status = "active" /\ at[m] < LatestPaid(s, rs)

\* Mutant: cancelled subscriptions may come back, expired ones not.
RevivableNot(s) == s.sub.status # "expired"
Revivable(s)    == ~Closed(s.sub.status)

PaymentSucceeded(m, s) ==
    IF ~Revivable(s) \/ StaleSuccess(m, s) THEN Ignored(s)
    ELSE LET i    == Feed[m].invoice
             plan == IF Feed[m].plan = NoPlan THEN s.sub.plan ELSE Feed[m].plan
             row  == IF s.invoices[i].status = "absent"
                     THEN [status |-> "paid", created |-> at[m], paid |-> at[m]]
                     ELSE [s.invoices[i] EXCEPT !.status = "paid", !.paid = at[m]]
         IN  Result(s, [s.sub EXCEPT !.status = "active", !.ext = Feed[m].sub, !.plan = plan],
                    IF i = NoInvoice THEN s.invoices ELSE [s.invoices EXCEPT ![i] = row],
                    FALSE)

\* Mutant: an invoice another payment settled is failed all the same.
SettledNever(s, i) == i # NoInvoice /\ s.invoices[i].status = "settled"
Settled(s, i)      == i # NoInvoice /\ s.invoices[i].status = "paid"

\* Mutant: the subscription's word for it is put on the invoice.
FailedRowPastDue(m, row) == [row EXCEPT !.status = "past_due"]
FailedRow(m, row) ==
    IF row.status = "absent" THEN [status |-> "failed", created |-> at[m], paid |-> 0]
    ELSE [row EXCEPT !.status = "failed"]

PaymentFailed(m, s) ==
    LET i  == Feed[m].invoice
        rs == IF i = NoInvoice THEN s.invoices
              ELSE [s.invoices EXCEPT ![i] = FailedRow(m, @)]
    IN  IF Closed(s.sub.status) \/ Settled(s, i) THEN Ignored(s)
        ELSE IF StaleFailure(m, s, rs) THEN Result(s, s.sub, rs, FALSE)
        ELSE Result(s, [s.sub EXCEPT !.status = "past_due"], rs, TRUE)

SubscriptionDeleted(m, s) ==
    IF \/ Feed[m].sub = NoSub \/ s.sub.ext # Feed[m].sub
       \/ Closed(s.sub.status) \/ at[m] < s.sub.start
    THEN Ignored(s)
    ELSE Result(s, [s.sub EXCEPT !.status = "cancelled"], s.invoices, FALSE)

RefundProcessed(m, s) ==
    LET i == Feed[m].invoice IN
    IF \/ i = NoInvoice \/ Feed[m].kind = "partially_refunded"
    THEN Ignored(s)
    ELSE IF s.invoices[i].status = "absent" THEN Ignored(s)
    ELSE Result(s, s.sub, [s.invoices EXCEPT ![i].status = "refunded"], FALSE)

Handled(m, s) ==
    CASE Feed[m].kind = "succeeded" -> PaymentSucceeded(m, s)
      [] Feed[m].kind = "failed"    -> PaymentFailed(m, s)
      [] Feed[m].kind = "deleted"   -> SubscriptionDeleted(m, s)
      [] OTHER                      -> RefundProcessed(m, s)

-----------------------------------------------------------------------------
Init ==
    /\ clock = 1
    /\ at = [m \in Message |-> 0]
    /\ sub \in [status : {"trial", "active"}, plan : Plan, ext : {NoSub}, start : {1}]
    /\ invoices = [i \in Invoice |-> [status |-> "absent", created |-> 0, paid |-> 0]]
    /\ activity = [failed |-> 0, admin |-> 0]
    /\ rows = [id \in EventId |-> "absent"]
    /\ txns = [t \in Txn |-> [status |-> "absent", utr |-> NoUtr, upiInvoices |-> 0, paid |-> 0]]
    /\ requests = [r \in Request |-> Idle]
    /\ history = <<>>
    /\ acked = {}

\* The provider: something happened to a payment or to the subscription.  An
\* invoice is not charged again once a payment for it succeeded, and only a
\* paid invoice is refunded.
PaidAtProvider(i) ==
    \E m \in Message : at[m] > 0 /\ Feed[m].kind = "succeeded" /\ Feed[m].invoice = i
Emit(m) ==
    /\ at[m] = 0
    /\ Feed[m].kind \in {"succeeded", "failed"} /\ Feed[m].invoice \in Invoice
         => ~PaidAtProvider(Feed[m].invoice)
    /\ Feed[m].kind \in {"refunded", "partially_refunded"} => PaidAtProvider(Feed[m].invoice)
    /\ clock' = clock + 1
    /\ at' = [at EXCEPT ![m] = clock']
    /\ UNCHANGED <<tables, requests, history, acked>>

\* Mutant: a known event is answered with an error.
AnsweredNot(m) == acked \ {m}
Answered(m)    == acked \cup {m}

\* handle_webhook finds a row with the event's id, whatever its status.
AnswerDuplicate(m) ==
    /\ at[m] > 0
    /\ rows[Feed[m].id] # "absent"
    /\ MayStart
    /\ acked' = Answered(m)
    /\ UNCHANGED <<clock, at, tables, requests, history>>

BeginWebhook(r, m) ==
    /\ at[m] > 0
    /\ rows[Feed[m].id] = "absent"
    /\ Start(r, [op |-> "webhook", message |-> m, seen |-> Store])
    /\ UNCHANGED <<clock, at, tables, history, acked>>

\* An insert meets a row committed since the snapshot: of the same event, or
\* of an invoice that both handlers found absent.
\* Mutant: (provider, event_id) is not unique.
SameEventNot(r) == FALSE /\ requests[r].op = "webhook"
SameEvent(r)    == rows[Feed[requests[r].message].id] # "absent"
SameInvoice(r) ==
    LET s == requests[r].seen
        h == Handled(requests[r].message, s)
    IN  \E i \in Invoice : /\ s.invoices[i].status = "absent" /\ h.invoices[i].status # "absent"
                           /\ invoices[i].status # "absent"

CommitWebhook(r) ==
    /\ requests[r].op = "webhook"
    /\ ~SameEvent(r) /\ ~SameInvoice(r)
    /\ LET m == requests[r].message
           s == requests[r].seen
           h == Handled(m, s)
       IN  /\ sub' = Flushed(sub, s.sub, h.sub)
           /\ invoices' = [i \in Invoice |-> Flushed(invoices[i], s.invoices[i], h.invoices[i])]
           /\ clock' = IF h.logs THEN clock + 1 ELSE clock
           /\ activity' = IF h.logs THEN [activity EXCEPT !.failed = clock'] ELSE activity
           /\ rows' = [rows EXCEPT ![Feed[m].id] = "processed"]
           /\ history' = Append(history, m)
           /\ acked' = acked \cup {m}
    /\ Done(r)
    /\ UNCHANGED <<at, txns>>

\* IntegrityError: rolled back and answered as "already processed concurrently".
RejectWebhook(r) ==
    /\ requests[r].op = "webhook"
    /\ SameEvent(r) \/ SameInvoice(r)
    /\ acked' = Answered(requests[r].message)
    /\ Done(r)
    /\ UNCHANGED <<clock, at, tables, history>>

\* Any other exception: rolled back, a failed row is kept, the answer is 500.
FailWebhook(r) ==
    /\ requests[r].op = "webhook" /\ requests[r].message \in MayFail
    /\ LET id == Feed[requests[r].message].id
       IN  rows' = IF rows[id] = "absent" THEN [rows EXCEPT ![id] = "failed"] ELSE rows
    /\ Done(r)
    /\ UNCHANGED <<clock, at, sub, invoices, activity, txns, history, acked>>

\* The process stops, or the request is cancelled, before its commit.
Abort(r) ==
    /\ requests[r] # Idle
    /\ Done(r)
    /\ UNCHANGED <<clock, at, tables, history, acked>>

-----------------------------------------------------------------------------
(* The platform administrator.                                              *)

BeginAdmin(r) ==
    /\ AdminStatus # {} /\ activity.admin < AdminUntil
    /\ Start(r, [op |-> "admin", seen |-> Store])
    /\ UNCHANGED <<clock, at, tables, history, acked>>

AdminWrites(r, row) ==
    /\ requests[r].op = "admin"
    /\ clock' = clock + 1
    /\ sub' = Flushed(sub, requests[r].seen.sub, row)
    /\ activity' = [activity EXCEPT !.admin = clock']
    /\ Done(r)
    /\ UNCHANGED <<at, invoices, rows, txns, history, acked>>

\* update_subscription_status, and update_company_subscription without a plan.
SetStatus(r, status) ==
    AdminWrites(r, [requests[r].seen.sub EXCEPT !.status = status])

\* assign_company_subscription, update_company_subscription: the plan and
\* status, and a new start date when one is given.
AssignPlan(r, status, plan, restart) ==
    AdminWrites(r, [requests[r].seen.sub EXCEPT
                      !.status = status, !.plan = plan, !.start = IF restart THEN clock ELSE @])

-----------------------------------------------------------------------------
(* Manual UPI payments.                                                     *)

CreateManualPayment(t) ==
    /\ txns[t].status = "absent"
    /\ txns' = [txns EXCEPT ![t].status = "pending"]
    /\ UNCHANGED <<clock, at, sub, invoices, activity, rows, requests, history, acked>>

BeginManual(r, op, t) ==
    /\ txns[t].status # "absent"
    /\ Start(r, [op |-> op, txn |-> t, seen |-> Store])
    /\ UNCHANGED <<clock, at, tables, history, acked>>

\* The reference is compared with the snapshot, and the column is unique.
\* Mutant: the column is not.
UtrFreeInSnapshot(q, utr) == \A t \in Txn \ {q.txn} : q.seen.txns[t].utr # utr
UtrFree(q, utr) ==
    \A t \in Txn \ {q.txn} : q.seen.txns[t].utr # utr /\ txns[t].utr # utr

\* Mutant: a reference is taken unless the payment was rejected.
AcceptsUtrLate(q) == q.seen.txns[q.txn].status # "rejected"
AcceptsUtr(q)     == q.seen.txns[q.txn].status = "pending"

CommitSubmitUtr(r, utr) ==
    LET q == requests[r] IN
    /\ q.op = "submit"
    /\ AcceptsUtr(q)
    /\ UtrFree(q, utr)
    /\ txns' = [txns EXCEPT ![q.txn].utr = IF q.seen.txns[q.txn].utr = utr THEN @ ELSE utr]
    /\ Done(r)
    /\ UNCHANGED <<clock, at, sub, invoices, activity, rows, history, acked>>

\* The manual payment's row is locked and read when it is locked.
\* Mutant: the row is read with the session's snapshot, without the lock.
DecidableUnlocked(q) == q.seen.txns[q.txn].status = "pending"
Decidable(q)         == txns[q.txn].status = "pending"

\* The row once verified: a paid UPI invoice is made for it.
Verified(row, time) ==
    [status |-> "verified", utr |-> row.utr, upiInvoices |-> row.upiInvoices + 1, paid |-> time]

\* The subscription is read without a lock, from the snapshot.
CommitVerify(r) ==
    LET q == requests[r] IN
    /\ q.op = "verify"
    /\ Decidable(q)
    /\ Revivable(q.seen)
    /\ clock' = clock + 1
    /\ txns' = [txns EXCEPT ![q.txn] = Verified(txns[q.txn], clock')]
    /\ sub' = Flushed(sub, q.seen.sub,
                      [q.seen.sub EXCEPT !.status = "active", !.plan = TxnPlan[q.txn]])
    /\ Done(r)
    /\ UNCHANGED <<at, invoices, activity, rows, history, acked>>

CommitReject(r) ==
    LET q == requests[r] IN
    /\ q.op = "reject"
    /\ Decidable(q)
    /\ txns' = [txns EXCEPT ![q.txn].status = "rejected"]
    /\ Done(r)
    /\ UNCHANGED <<clock, at, sub, invoices, activity, rows, history, acked>>

-----------------------------------------------------------------------------
Next ==
    \/ \E m \in Message : Emit(m) \/ AnswerDuplicate(m)
    \/ \E t \in Txn : CreateManualPayment(t)
    \/ \E r \in Request :
        \/ \E m \in Message : BeginWebhook(r, m)
        \/ CommitWebhook(r) \/ RejectWebhook(r) \/ FailWebhook(r)
        \/ Abort(r)
        \/ BeginAdmin(r)
        \/ \E status \in AdminStatus :
            \/ SetStatus(r, status)
            \/ \E plan \in Plan, restart \in BOOLEAN : AssignPlan(r, status, plan, restart)
        \/ \E t \in Txn, op \in {"submit", "verify", "reject"} : BeginManual(r, op, t)
        \/ \E utr \in Utr : CommitSubmitUtr(r, utr)
        \/ CommitVerify(r) \/ CommitReject(r)

Spec == Init /\ [][Next]_vars

\* The provider delivers until it has an answer, and the server does not stop
\* in the middle of every single delivery of a message.
Deliver(m) == AnswerDuplicate(m) \/ \E r \in Request : BeginWebhook(r, m)
Conclude(m) == \E r \in Request :
    /\ requests[r].op = "webhook" /\ requests[r].message = m
    /\ CommitWebhook(r) \/ RejectWebhook(r)
FairSpec ==
    /\ Spec
    /\ \A m \in Message : SF_vars(Deliver(m)) /\ SF_vars(Conclude(m))
    /\ \A r \in Request : WF_vars(Abort(r))

-----------------------------------------------------------------------------
(* Properties.                                                              *)

\* Every row has its columns' values, every open request a snapshot of them.
TypeOK ==
    /\ clock \in Nat
    /\ activity \in [failed : Nat, admin : Nat]
    /\ at \in [Message -> Nat]
    /\ sub \in SubRow
    /\ invoices \in [Invoice -> InvoiceRow]
    /\ rows \in [EventId -> {"absent", "processed", "failed"}]
    /\ txns \in [Txn -> TxnRow]
    /\ history \in Seq(Message)
    /\ acked \subseteq Message
    /\ \A r \in Request : requests[r].op \in {"idle", "webhook", "admin", "submit", "verify", "reject"}

\* The effects of an event id are committed at most once, however its
\* deliveries interleave (the unique (provider, event_id)).
AppliedOnce ==
    \A i, j \in DOMAIN history : Feed[history[i]].id = Feed[history[j]].id => i = j

\* Out-of-order protection: while webhooks alone drive the subscription, its
\* status follows the newest payment event handled, in any delivery order.  The
\* handlers compare with the times the invoices carry, so this lasts until a
\* payment is not told by an invoice of its own: it names none, the invoice keeps
\* the time of an earlier failure, or a refund took its time out of the comparison.
IsPayment(m) == Feed[m].kind \in {"succeeded", "failed"}
WebhooksAlone == activity.admin = 0 /\ \A t \in Txn : txns[t].status # "verified"
NothingRefunded == \A i \in DOMAIN history : Feed[history[i]].kind # "refunded"
InvoicesTell ==
    \A i \in DOMAIN history : IsPayment(history[i]) =>
        /\ Feed[history[i]].invoice \in Invoice
        /\ \A j \in DOMAIN history :
            /\ Feed[history[i]].kind = "failed" /\ Feed[history[j]].kind = "failed"
            /\ Feed[history[i]].invoice = Feed[history[j]].invoice
            => i = j
LatestPaymentWins ==
    WebhooksAlone /\ NothingRefunded /\ InvoicesTell =>
        \A i \in DOMAIN history :
            /\ IsPayment(history[i])
            /\ \A j \in DOMAIN history : IsPayment(history[j]) => at[history[j]] <= at[history[i]]
            /\ sub.status \in {"active", "past_due"}
            => sub.status = IF Feed[history[i]].kind = "succeeded" THEN "active" ELSE "past_due"

\* An invoice recorded as paid is at most refunded afterwards; no late or
\* concurrent failure takes the payment back.  (A refund handled before the
\* payment it refunds leaves a row that two overlapping handlers settle and fail.)
RefundHandled(i) ==
    \E k \in DOMAIN history : Feed[history[k]].kind = "refunded" /\ Feed[history[k]].invoice = i
PaidStaysSettled ==
    [][\A i \in Invoice : invoices[i].status = "paid" /\ ~RefundHandled(i)
                            => invoices'[i].status \in {"paid", "refunded"}]_vars

\* A cancelled or expired subscription comes back only through the platform
\* administrator: neither a late payment nor a manual payment revives it.
RevivedByAdminOnly ==
    [][Closed(sub.status) /\ ~Closed(sub'.status)
         => \E r \in Request : requests[r].op = "admin" /\ requests'[r] = Idle]_vars

\* What the provider was told is done has been done: an answered message's
\* handler has committed.
AckedMeansHandled ==
    \A m \in acked : m \in {history[i] : i \in DOMAIN history}

\* A manual payment yields one paid UPI invoice if it was verified and none
\* otherwise, however many administrators decide on it.
ManualPaymentOnce ==
    \A t \in Txn : txns[t].upiInvoices = IF txns[t].status = "verified" THEN 1 ELSE 0

\* No two manual payments carry the same bank reference.
UtrUnique ==
    \A t, u \in Txn : txns[t].utr = txns[u].utr /\ txns[t].utr # NoUtr => t = u

\* The bank reference an administrator verified or rejected stays on record.
DecidedEvidenceFixed ==
    [][\A t \in Txn : txns[t].status \in {"verified", "rejected"}
                        => txns'[t].utr = txns[t].utr]_vars

\* Every notification is answered in the end, so the provider stops sending it.
EventuallyAcked ==
    \A m \in Message : (at[m] > 0) ~> (m \in acked)
=============================================================================
