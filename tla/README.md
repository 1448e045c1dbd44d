# Verification of the construction-management backend

TLA+ models of this backend: the money it owes and is owed, the work, stock and machines of its sites,
its people, offers, books and approvals, and what all of that rests on (ids, accounts, roles, caches,
chat, workers); the TLC configurations that check the models on small instances; and proofs, checked by
TLAPS, of what holds for instances of every size.

The program is a FastAPI application (`src/app`) over SQLAlchemy 2 async sessions, MySQL (InnoDB)
and Redis. There are several server processes; each HTTP request runs its handler as one coroutine
with one database session; one background task per process reconciles billing.

Contents: [the system](#1-the-system), [how the database is modelled](#2-how-the-database-is-modelled),
[the modules](#3-the-modules), [the runs](#4-the-runs), [the proofs](#5-the-proofs),
[what was found](#6-what-was-found), [what is not modelled](#7-what-is-not-modelled),
[the plan](#8-the-plan).

## 1. The system

`PROJECT.json` lists every component with its sources and status. Here is what each keeps, does and
has to get right, with the modules that model it.

### Money owed by the company

- **Vendor payables** (`api/vendor_bills.py`, `services/payment_service.py`, `api/payments.py`, the
  TDS endpoints of `api/accountant.py`): `VendorPayables`. *State:* `vendor_bills` (status, amount_paid,
  accrued_journal_id), `payment_vouchers`, `transactions`, `tds_deductions`, `journal_entries` and
  `journal_lines`. *Hard:* the same debt is written by two subsystems (bill payments and vouchers) in
  five tables; `mark_paid` and `cancel` decide on objects loaded before the lock they take; reversals,
  cancellations and statutory deposits alternate. *Correct when:* cost is recognised once, every payment
  has its document, the payable account is the subledger, money moves only for accrued bills, nothing is
  taken back twice.
- **Accounting books** (`api/journal.py`, `api/accountant.py`, `utils/accounting.py`): `Ledger`,
  `AccountantRecords`. *State:* accounts, journal entries and lines, bank and petty-cash rows, statement
  lines, receipts, assets, GST returns. *Operations:* manual, adjustment, imported and recurring
  journals and their approval, fund transfers, petty cash, matching of statements, depreciation. *Hard:*
  a recurring journal run twice for one date; a receipt reversed twice; eight reports that each add up
  the same account their own way. *Correct when:* the books close, every due date is posted once, the
  reports show one balance.
- **Expenses and actual costs** (`api/expense.py`, purchases of `api/equipment.py`,
  `utils/boq_calc.py`): `ProjectCosts`. *Hard:* a correction reverses and rewrites journal entries found
  by a prefix of their number; each source that changes recomputes the actual cost of an item from what
  its request has seen of the others. *Correct when:* an expense is in the books with its amount and an
  item's actual cost is the sum of its sources.
- **Labour, attendance, wages and payroll** (`api/labour.py`, `api/attendance.py`): `Workforce`. *State:*
  attendance per labourer and day, `labour_payroll` (total, paid, remaining; Draft, Locked, Partial,
  Paid), wage records, accruals and advances kept as expenses. *Hard:* check-in and check-out exist
  twice (own and by proxy) and lock nothing; payroll is regenerated, unlocked and paid in parts. *Correct
  when:* no more is paid than was earned, a day is accrued once, what left its draft stays.
- **Contractors** (`api/contractor.py`, pay routes of `api/accountant.py` and `api/billing.py`):
  `ContractorAccounts`. *Hard:* three places that pay a contractor and know nothing of each other.
  *Correct when:* a bill is not paid beyond its amount, and what was given is what was booked.

### Money owed to the company

- **Receivables** (`api/invoice.py`, `api/client_payment.py`): `Receivables`. *State:* `invoices` (total,
  paid, pending, status), `client_payments`, the receipts in `transactions`. *Hard:* two ways of paying
  one invoice, verification by staff next to changes by clients, duplicate references, rows read before
  their lock. *Correct when:* what is paid is what was received, no more than the total, and every
  approved payment counts once.
- **Quotations** (`api/quotation.py`, `api/dummy_quotation.py`): `Quotations`, `QuotedItems`. *Operations:*
  lines, totals, send, approve, reject, convert to a bill, a work order, a project, an invoice. *Hard:*
  totals recomputed while lines change, decisions on a quotation others edit. *Correct when:* totals are
  those of the lines, the documents made of a quotation have the total that was approved, a client has
  one open quotation.
- **Measurement and running-account bills** (`api/final_measurement.py`, `api/billing.py`, invoices from a
  measurement): `MeasuredBilling`. *Hard:* two handlers bill one measurement, and the central approval
  writes its status. *Correct when:* a measurement is claimed once and stands under its invoice.

### The platform's own billing

- **Subscription billing webhooks** (`services/billing/*`, `api/saas_billing.py`): `SaasBilling`. *Hard:*
  notifications arrive late, twice, out of order and concurrently, handlers fail, nothing is locked.
  *Correct when:* each event counts once, none is lost, the newest payment wins, a settled invoice stays
  settled.
- **Manual UPI payments** (`api/saas_billing.py`, `services/superadmin.py`): `SaasBilling`. *Correct when:*
  one payment activates once, one reference serves one payment, the evidence of a decision stays.
- **Platform administration** (`services/superadmin.py`): subscriptions in `SaasBilling`, the permissions of
  all companies' roles in `RolePermissions`; the rest is single-row administration.
- **Billing reconciliation worker** (`workers/billing_reconciliation_worker.py`): `ReconciliationWorker`,
  `ExclusiveScan`. A task per process, a Redis key with a time to live as lock, an in-process lock when
  Redis fails. *Correct when:* scans do not overlap and every worker goes on scanning.
- **Entitlements** (`services/entitlement.py`): quotas in `Projects` and `UserAccounts`. *Hard:* a `COUNT`
  of the snapshot against the limit. *Correct when:* the plan's numbers are kept, and overlapping
  creations exceed them by no more than there are.

### Things on site

- **Material stock** (`api/material.py`): `MaterialStock`. *State:* `materials` (purchased, used,
  remaining), transactions and a ledger in parallel, transfers. *Hard:* handlers that load the row before
  they lock it; a stock that is both counted and computed; reversals in parts. *Correct when:* remaining
  is what the ledger adds up to and never negative, a transfer moves its quantity once, and no more of a
  usage comes back than was taken.
- **Suppliers and purchase orders** (`api/material.py`): `Procurement`. *Correct when:* an order that waits
  or is approved is the one asked for, suppliers are unique and live, the stock reports agree on what is
  short.
- **Equipment and rentals** (`api/equipment.py`): `EquipmentFleet`. *Hard:* nothing is locked; a status
  column that caches what four tables say. *Correct when:* a machine is let or on a site, and let to one
  at a time; hours and reports agree.
- **Projects, tasks and progress** (`api/project.py`, `api/work_order.py`): `Projects` (creation, status and
  what stands in the way of a deletion), `ProjectTasks` (members, milestones, tasks and their progress),
  `WorkProgress` (activities, daily entries, work orders), `SiteRecords` (daily reports, issues,
  checklists, inspections, requests). *Correct when:* quantities of activities are the sums of their days
  and those of work orders the sums of their activities, an approved report stands, every view shows one
  status.
- **Work updates** (`api/work_update.py`): `WorkUpdates`. *Correct when:* a submitted update shows the work
  before and after, and nobody has two drafts of one day.
- **Bill of quantities** (`api/boq.py`): `BillOfQuantities`. *Correct when:* the rows shown as latest are one
  version.
- **Documents and drawings** (`api/document.py`, drawings of `api/project.py`): `ReviewedFiles`. *Correct
  when:* what was approved is what was asked for, and the latest drawing is the newest.
- **Approvals** (`api/approval.py`): a request for an entity, Pending until it is approved or rejected, which
  sets the entity's status without a lock. Each kind is in the module of its entity:
  `BillOfQuantities`, `MeasuredBilling`, `ReviewedFiles`, `Ledger`, `Procurement`.

### What everything uses

- **Business ids** (`utils/common.py: generate_business_id`): `BusinessIds`. The maximum of a string column
  plus one, under a unique index, retried by most creating handlers. *Correct when:* ids are distinct and
  a creation succeeds.
- **Response cache and master data** (`cache/redis.py`, `api/master_data.py`): `ResponseCache`, `MasterData`.
  JSON under keys that contain a version; a write raises the version. Some handlers commit before they
  raise it, others raise it before the session dependency commits. *Correct when:* an answer shows the
  list as it is, or is no older than it is kept.
- **Authentication and users** (`api/auth.py`, `api/user.py`, `services/otp.py`, `core/security.py`,
  `core/dependencies.py`): `SignIn`, `Sessions`, `UserAccounts`. *Hard:* codes, counts, locks and cut-offs
  are Redis keys that run out at times of their own, compared and deleted in separate calls. *Correct
  when:* a code opens one session, a session ends when it was ended, the audit log tells what a user
  became.
- **Roles and permissions** (`api/rbac.py`, `core/rbac_seed.py`): `RolePermissions`. *Correct when:* what a
  user may do is what the role and the grants cover and is not revoked, and the lists show it.
- **Chat** (`api/chat.py`): `ChatGroups`, `ChatMessages`. *Correct when:* a group has an administrator, a
  private chat is one, and the two ledgers of who has read what agree.
- Notifications and alerts, company settings, reports and dashboards, AI and voice, the application frame
  (start-up, middlewares), migrations, schemas: inserts of rows nothing else reads, read-only queries,
  calls of outside services, configuration.

### How the parts interact

There are no messages between components inside the application: they share tables. Each module is one
of these meetings, with every handler that writes the shared rows, whatever file it is in: bills,
vouchers, reversals and TDS over one bill row; invoices and client payments over one invoice row;
webhooks, administrator and manual payments over one subscription row; measurements, bills, invoices and
approvals over one measurement; quotations with the bill, work order, project and invoice made of them;
labour, attendance and expenses over one labourer; allocations, rentals and services over one machine;
entitlements with the creation of projects and users; cached lists with the handlers that write them;
all creations over the unique id columns; workers over one Redis key.

Across modules the tables are disjoint, or what crosses is a fact one side only reads (a project that
exists, a user who is a member). A product of such modules has no behaviour the modules do not have, so
the composed runs (section 4) let a behaviour choose one of them, its `scene`.

## 2. How the database is modelled

The rules below are the same in every module. They follow from `src/app/db/session.py` (6-18), the
SQLAlchemy session and InnoDB; the last two are external, modelled from how the code uses them.

- **One transaction per request.** `get_db_session` commits after the handler and rolls back on an
  exception. `Abort` (`Abandon`, `Refuse...`, `Fail`) ends a request without a trace: an error answer, a
  lost connection or a killed process. Handlers that commit in the middle are modelled with that commit.
- **Snapshots.** At REPEATABLE READ the first SELECT of a request, made by the authentication
  dependency, fixes what all plain SELECTs see. `Begin...` takes the rows the handler will decide on.
- **Locks.** `SELECT ... FOR UPDATE` reads the latest committed row and makes others wait until the
  commit. From the lock on nobody else writes the row, so lock, checks, writes and commit are one step,
  `Commit...`, whose reads of the locked row are of the current state.
- **The identity map.** A locked SELECT of a row the session has loaded already does *not* refresh the
  object unless `populate_existing` is given. Such a handler decides on the row of `Begin...` although
  it holds the lock; this is what `payables_paid_twice` is about.
- **UPDATE writes changed attributes only.** An attribute the handler did not change keeps its committed
  value, one it changed is overwritten, whatever happened since.
- **Views.** Most handlers of this code take no lock at all. Where every handler of a part is like that,
  the module gives the handlers a *view* as parameter: the tables as they are (the request ran alone), or
  those a slot took at its `Begin...` (it overlapped others). One definition serves both.
- **History variables** (`stale`, `drifted`, `crossed`, `overwritten`, `raced`, ...) name the rows an
  outdated view has written, and only those. The invariants hold of all the others, so each says
  precisely which order of requests it takes to break what it promises; section 6 lists the orders that
  do.
- A handler that reads the row for the first time under its lock, or whose decision nobody can change, is
  a single action.

Amounts are small naturals in the smallest currency unit; the code uses `Decimal`, whose sums are exact.
Dates that are only stored, descriptions, notifications, access checks and page layout are left out, and
so are cache calls outside `MasterData` and `UserAccounts`. Access checks only refuse requests.

## 3. The modules

Each module's header says what of its component is modelled and what is left out. `MC<Name>` gives a
module the model values, feeds and symmetry sets of its runs, or composes several as scenes;
`<Module>_proofs` extends it with theorems: `VendorPayables_proofs` and `Receivables_proofs`, and for the
modules a run composes `Site_proofs`, `Business_proofs`, `Platform_proofs` and `Progress_proofs` (the
last with those about `SaasBilling`). Helper functions of the code called within an operation belong to the
definition of that operation. A definition marked *Mutant* next to one of the code's is a
plausible bug of it, used to confirm that the properties notice; nothing else refers to it.

| Module | Models | State |
|---|---|---|
| `VendorPayables` | `vendor_bills.py`, `payment_service.py`, `payments.py`, TDS of `accountant.py` | `bills`, `vouchers`, `txns` (each with its journal's lines), `ledger`, `tds`, `requests` |
| `Ledger` | `journal.py`, accounts, transfers, petty cash and balances of `accountant.py`, `utils/accounting.py`, entries in `approval.py` | `chart`, `journals`, `requested`, `templates`, `transfers`, `petty`, runs in progress |
| `AccountantRecords` | statement lines and matching, receipts and reversals, TDS of bills, assets, GST returns of `accountant.py` | one table each |
| `ProjectCosts` | `expense.py`, purchases of `equipment.py`, `boq_calc.py` | `expenses`, `journal`, `debits` of the owner, `billed`, `purchases`, `actual` |
| `Workforce` | `attendance.py`, `labour.py` | `roster`, `attendance`, `accruals`, `advances`, `disbursed`, `payroll`, `waged` |
| `ContractorAccounts` | `contractor.py`, payables of `accountant.py`, pay route of `billing.py` | `contractor`, `joined`, `spent`, `payables` |
| `Receivables` | `invoice.py`, `client_payment.py` | `invoices`, `payments`, `txns` (receipts), `requests`, `stale` |
| `Quotations` | `quotation.py`, invoice from a quotation | `quotations`, `lines`, `documents` made of them |
| `QuotedItems` | amount of an item of `quotation.py`, `dummy_quotation.py` | one item, one dummy quotation |
| `MeasuredBilling` | `final_measurement.py`, RA bills of `billing.py`, invoice from a measurement, both in `approval.py` | `measurements`, `claims` (bills and invoices), `approvals` |
| `SaasBilling` | `billing_service.py`, subscriptions in `superadmin.py`, `saas_billing.py` | `clock`, `at`, `sub`, `invoices`, `activity`, `rows`, `txns`, `requests`, `history`, `acked` |
| `ReconciliationWorker` | `billing_reconciliation_worker.py` | `key`, `phase`, `inProcess`, `crashes`, `mishaps` |
| `ExclusiveScan` | what the worker's lock promises (abstract) | `scanner` |
| `MaterialStock` | stock and transfers of `material.py` | `materials` (per project), `transfers`, `txns` (both ledgers), `requests`, `stale` |
| `Procurement` | suppliers, orders and stock reports of `material.py`, orders in `approval.py` | `suppliers`, `stocked`, `orders`, `asked` |
| `EquipmentFleet` | `equipment.py` | `equipment`, `usages`, `services`, `rentals`, `now` |
| `Projects` | projects of `project.py`, their quota in `entitlement.py` | `projects`, `dependents`, `active` (subscription), `underway` |
| `ProjectTasks` | members, milestones, tasks of `project.py` | `members`, `siteWorkers`, `milestones`, `tasks`, `reports` |
| `WorkProgress` | activities and daily progress of `project.py`, `work_order.py` | `activities`, `entries`, `workOrders`, `today` |
| `SiteRecords` | reports, issues, checklists, inspections, requests of `project.py` | `records`, `photos`, `logs` |
| `WorkUpdates` | `work_update.py` | `updates`, `open` tasks, `pending` |
| `BillOfQuantities` | `boq.py`, items in `approval.py` | `groups`, `items`, `asked`, `boqTasks`, `adding` |
| `ReviewedFiles` | `document.py`, drawings of `project.py`, both in `approval.py` | `documents`, `drawings`, `askedFor` |
| `BusinessIds` | `common.py`, the creating handlers of `contractor.py`, `owner.py`, `labour.py`, `work_order.py` | `ids`, `creators` |
| `ResponseCache` | `cache/redis.py` (operators on one cache) | none |
| `Sums` | totals of rows, as cardinalities, and the facts about them the proofs use | none |
| `MasterData` | `master_data.py` | `master` (four lists), `listed` (cache), `editing`, `answered` |
| `SignIn` | OTP endpoints of `auth.py`, `otp.py` | `account`, `code`, `limits`, verifications in progress |
| `Sessions` | `dependencies.py`, `security.py`, logout of `auth.py`, deletion in `user.py` | `clock`, `gone`, `idle`, `tokens`, `blocked`, `cut` |
| `UserAccounts` | `user.py`, its quota in `entitlement.py` | `users`, `trail` (audit log), `userList` (cache), requests |
| `RolePermissions` | `rbac.py`, `rbac_seed.py`, permissions in `dependencies.py`, shared roles in `superadmin.py` | `catalogue`, `companyRole`, `systemRoles`, grants, `overrides`, `logged` |
| `ChatGroups` | members, administrators, private and hidden chats of `chat.py` | `creator`, `roles`, `hidden`, pinned chats, `privates` |
| `ChatMessages` | messages of `chat.py` | `messages`, `seen`, `delivered`, reactions, `files` |

The larger ones, and what is not obvious about them:

**VendorPayables.** A voucher has its gross amount and what is withheld of it; a transaction remembers
which it reverses or cancels and the lines of its journal. `BeginVoucherOp` with `CommitMarkPaid`,
`CommitCancelPending` and `CommitCancelPaid` is payment_service.py, `BeginReverse`/`CommitReverse`
reverse-payment. `Legacy` bills were approved before accruals existed: the first payment posts their
expense in the way the code treats a bill without accrued_journal_id.

**Receivables.** A client payment claims part of what is pending (`assert_invoice_payable` subtracts the
unverified payments of others) and counts as paid once approved. `UpdatePayment` and `UpdateInvoice`
decide on their snapshots; verification (`BeginVerify`, `CommitApprove`, `CommitReject`) locks the payment
but takes the invoice to lock from the snapshot. `Direct` stands for the payment of a receipt booked
without one.

**MaterialStock.** One material of one supplier, at most one row per project, since (project, master,
supplier) is unique, deleted rows included. `BeginOnMaterial` is the `db.get` at the start of purchase,
adjustment and update; `CommitPurchase`, `CommitAdjust` and `CommitUpdate` decide on that row although they
hold the lock by then, and find it only if it was not deleted meanwhile (`Found`). `Refreshed` is
`update_material_fields`, which makes remaining purchased less used; `Usage` and `CommitAdjust` instead
carry on from the remaining that is there.

**SaasBilling.** `Feed` says what each provider message is. `Emit` sends a message; from then on it is
delivered in any order, as often as it takes. `BeginWebhook` starts a handler, `CommitWebhook` commits its
effects and its event row, `RejectWebhook` is the unique-key collision at the commit, `FailWebhook` an
exception, after which a second transaction stores a row with status failed. `history` (events handled)
and `acked` (messages answered with success) are what the properties speak about.

**BusinessIds.** A number stands for its id; the maximum of a column is a maximum of *strings*, so
`SortsBefore` compares the padded digits. Base and padding are parameters because the interesting boundary,
a number that outgrows its padding, is at base^pad.

**ReconciliationWorker.** `Acquire` is the SET NX EX taking effect, `Scan` the worker getting the answer,
`AcquireInProcess` the fallback, `Stop` and `Close` the cancellation at any await point, `Crash` a process
that dies (its key stays, held by an `Orphan`), `Expire` the time to live, at any time. Redis may fail at
each command. `mishaps` records when the lock could not be relied on. `ExclusiveScan` is the promise, and
`ScansExclusive` the refinement, up to the first scan without the key or outlived key.

**WorkProgress, EquipmentFleet, Procurement, ContractorAccounts, Ledger.** These also translate the *views*
their endpoints compute (lists with their filters, summaries, delayed activities, reports of a balance,
stock alerts), each by its own query, since the same thing is computed in up to eight places. The
properties ...`Agree` relate them to one another.

**Workforce.** Wages are counted in units, so that an hour and an hour of overtime are paid 1 each: which
days and hours are paid, and how often, is what can go wrong. `Earned(l, view)` is what payroll generation
sums up; `Snapshot` is the view of a request that runs alone.

**Sessions and SignIn.** Tokens hold whole seconds, a cut-off holds a fraction, keys of Redis run out in
ticks: `PassSecond` and `RunOut` move time on, so that the boundary cases (same second, last second) occur.

**RolePermissions.** Permissions are sets of codes; a module's permission and the permission for everything
cover others. `Effective` is what the dependency of a request computes (cover spelled out, revoked taken
away), `HasPermission` the check, `ListedNow` what the role's endpoint lists.

## 4. The runs

Every run is a `.cfg` here; each asks one question. "Violation" runs show that a sentence of the code's
own documentation is not what the code does. Times are for two TLC workers.

| Run | Instance | Question and properties |
|---|---|---|
| `payables_serial` | 1 legacy bill of total 2, 2 vouchers on it, amounts 1 and 2, withheld 0 or 1, manual TDS rows in three statuses, at most 4 transactions, requests do not overlap | Long sequences of legal calls: `EveryPaymentOwned`, `ReversedOnce`, `SubledgerAgrees`, `RemittedTDSNotUndone`, `TypeOK` |
| `payables_overlap` | 2 bills (one legacy), a voucher each, 2 two-step requests at once next to the one-step ones, at most 3 transactions | What survives stale reads: `ExpenseRecognisedOnce`, `CashBookMatchesBank`, `PaidOnlyWhenAccrued` |
| `payables_paid_twice` | as above, small | violation of `EveryPaymentOwned` |
| `receivables_overlap` | 2 invoices, 2 client payments, totals and amounts 1 and 2, one reference and online, 2 requests (one of any kind, one verification), at most 2 receipts | `ReceiptsAgree`, `NeverOverpaid`, `ReferencesDistinct`, `ClaimsStayCovered`, `TypeOK` |
| `billing_serial` | failure and success for one invoice, failure for another, end of the subscription, one manual payment, an administrator who cancels; handlers do not overlap | Any delivery order: `LatestPaymentWins`, `RevivedByAdminOnly`, `DecidedEvidenceFixed`, `TypeOK` |
| `billing_overlap` | failure, success and refund of one invoice, a manual payment, 2 plans, 2 requests at once | `AppliedOnce`, `ManualPaymentOnce`, `PaidStaysSettled` |
| `billing_lost_event` | one message, one request | violation of `AckedMeansHandled` |
| `progress` | three scenes with fairness: two messages with one event id, 2 requests, failures and aborts; 3 creators, 3 attempts, base 3, padding 2, 0, 5 or 7 rows at the start; 2 workers, 2 crashes | What must come to an end: `AcksComplete`, `CreationsComplete`, `ScansComplete`, with `IdsDistinct`, `ScansExclusive`, `ProgressTypesOK` |
| `site` | nine scenes: `WorkProgress`, `BillOfQuantities`, `MeasuredBilling`, `ProjectTasks`, `SiteRecords`, `WorkUpdates`, `Projects`, `ReviewedFiles`, `MaterialStock`; two of what conflicts (activities, users, reports, updates, sites, reviewers), one of the rest, at most 4 lines of stock with quantities 1 and 2, a quota of one project; 657,356 distinct states | What is done on site is counted once and what was recorded or approved stands: `ProgressAddsUp`, `RecordsStand`, `StockAddsUp`, `TransferMovesOnce`, `DeletedIsFrozen`, `InvoicedIsFrozen`, `SiteTypesOK` |
| `stock_found_lost` | 1 project, 1 request, no transfer | violation of `EveryLineMovesStock` |
| `business` | nine scenes: `EquipmentFleet`, `ProjectCosts`, `Workforce`, `Quotations`, `QuotedItems`, `Ledger`, `AccountantRecords`, `ContractorAccounts`, `Procurement`; one machine with two rentals, two items of cost, two quotations, two statement lines, one contractor's bill of 3, two suppliers; at most 6 requests that write; 836,771 distinct states | What is spent or earned is in the books once and what was agreed holds: `MoneyIsBooked`, `AgreementsStand`, `PayrollStands`, `BusinessTypesOK` |
| `platform` | seven scenes: `MasterData`, `SignIn`, `Sessions`, `UserAccounts`, `RolePermissions`, `ChatGroups`, `ChatMessages`; two or three users, codes, tokens, names and writers; two overlapping requests where two views meet; 919,629 distinct states | Who may come in, what they may do, and what they are shown: `AccountsHold`, `AnswersHold`, `PlatformTypesOK` |

### Scenes and themes

The composed runs have a variable `scene` that each behaviour chooses at its start and keeps; the other
parts stay in their initial states. That is every behaviour of the parts, since they share no table
(section 1). A *theme* is a conjunction of one implication for each scene, of the properties of that
part's module:

| Theme | In scene | Properties of the modules |
|---|---|---|
| `ProgressAddsUp` | work | `EntriesAddUp`, `OrderSumsActivities`, `StatusViewsAgree` |
| | boq, billing, tasks | `LatestIsCurrent`; `ClaimedOnce`; `CompletionIsLastReport`, `AssigneesWereMembers` |
| `RecordsStand` | boq, records, updates, projects, files | `PendingIsAsked`; `ApprovedReportStands`; `UpdatesAreShown`; `QuotaOverrunBounded`; `ReviewedStands` |
| `MoneyIsBooked` | costs, workforce | `ExpenseIsBookedAlone`, `ActualCostAddsUp`; `PaidWithinEarned`, `DayAccruedOnce`, `ReportedAsPaid` |
| | ledger | `BooksClose`, `BalancesAgree`, `EachDateOnce`, `WaitingIsAsked`, `VouchersBooked` |
| | records, contractors | `RecordedOnce`; `BillsPaidOnce`, `GivenIsBooked` |
| `AgreementsStand` | fleet | `LetOrOnSite`, `LetOnce`, `HoursAddUp`, `FleetViewsAgree` |
| | quotations, items, procurement | `QuotedAsApproved`, `OneActivePerClient`; `ItemFollowsUnit`, `SavedTaxShown`; `ShortagesAreSeen`, `OrderIsAsAsked`, `SuppliersStand` |
| `AccountsHold` | signin, sessions, users, roles | `CodeUsedOnce`, `GuessesBounded`; `SessionsHold`; `UserQuotaHeld`, `TrailReplays`, `UserViewsAgree`; `RolesStand` |
| `AnswersHold` | master, users, groups, messages | `NamesDistinct`, `ServedIsCurrent`, `ServedIsRecent`, `MasterViewsAgree`; `UserListCurrent`; `GroupsAreRun`; `ReadsAgree`, `MessagesStand` |

The comment before each property says what it says and which orders of requests it makes an exception
of. Each mutant in the modules breaks the theme its scene belongs to.

### Bounds and why they are enough

- *Two of a kind.* Every conflict the properties are about is between two requests, two vouchers, two
  payments, two deliveries, two workers, two rentals; a third creator is there so that two can interfere
  with the retry of another. Where a part gives its handlers a view, one slot is enough: the view it took
  ages while any number of other requests run alone. Two slots stand where two views meet (`MasterData`,
  `SignIn`, `UserAccounts`, `RolePermissions`).
- *Amounts 1 and 2 of a total of 2* (or 3) reach nothing paid, part paid, all paid and too much, with and
  without something withheld.
- *`MaxTxn`* bounds rows of `transactions`. Four let a payment, its reversal, a second payment and its
  cancellation follow one another; with overlap three are enough for two payments and a reversal; two
  receipts are enough for a payment and a direct receipt of one invoice. Four lines of stock are the
  opening, a usage and its reversal in two parts, or the opening, both lines of a transfer, and a usage at
  either end.
- *`MaxServed`, `MaxHandled`, `MaxRecorded`, `MaxProcessed`, `MaxPosts`, `MaxEdits`, `MaxRules`,
  `MaxChanges`* bound how many requests write in one behaviour. Four to six are enough to create two
  rows, begin a request, change what it read, commit it, and read the outcome.
- *Calendars of two days, clocks of two to five ticks*: today and tomorrow make a rental current or to
  come, an activity in time or late; five seconds hold a token of two from issue to expiry with a cut-off
  in each second.
- *`Serves`* limits the second request of `receivables_overlap` to verification, and of the stock scene to
  reversals: the pairs whose reads and locks cross.
- *`MayFail`* and *`AdminUntil`* bound where handlers fail unexpectedly and how long the administrator
  acts; the feed is finite, so the clock is.
- *Base 3, padding 2*: the padding ends at 8, and starting from 7 rows the second creation passes it.
- *`MaxCrashes`*: two crashes leave an orphaned key twice.

Deadlock is checked in the two passing payables runs. It is off where the system may come to rest: all
messages answered and all payments decided, all workers stopped, all creations answered, every row deleted
or every bound reached.

`Exclusive` (requests that do not overlap) in the two serial runs is not something the code enforces.
The properties there are about sequences of legal calls; section 6 says which of them overlapping
requests break, and the overlap runs hold what survives.

### Fairness

Only `progress` assumes any; `MCFairSpec` restricts each condition to its scene.

- Notifications: strong fairness of delivering and of concluding each message: the provider retries
  until it is answered, and not every single delivery dies half-way. Weak fairness of `Abort`: a request
  does not stay open for ever (the server has timeouts, the connection ends). Nothing makes a handler
  succeed: a message whose handler always raises is answered through its failed row.
- Ids: weak fairness of each creator's next step: a request being served goes on.
- Workers: weak fairness of `Expire` (a key with a time to live expires) and of a running worker's steps;
  strong fairness of `Acquire`, since a worker tries again every interval and the key is free again and
  again. Nobody has to be stopped and nothing has to crash or to fail.
## 5. The proofs

`tlapm` checks them with Z3, Zenon and LS4. Every invariant and every action property of the passing runs is
a theorem, with the refinement of `ExclusiveScan`; only the three liveness properties are not. Assumptions
are the named ASSUMEs of the modules, which TLC evaluates in the runs: amounts are naturals, `Total` is
positive where the schema requires it, limits and lifetimes are at least what the code sets them to be (a
quota of one, two wrong answers), sentinels lie outside the sets, and the tables that something is added up
or counted over are finite (`BooksAreFinite`, `SourcesAreFinite`, `RosterIsFinite` and others). None bounds
the size of an instance: the theorems hold for any number of bills, vouchers, payments, users, requests,
messages and workers, and for any value of the bounds (`MaxTxn` and the like). Where a theorem needs that
requests do not overlap, it says so in its ASSUME (`Exclusive`), and section 6 gives what overlap does.

| Theorem | Says |
|---|---|
| `VendorPayables_proofs!TypeCorrect` | `Spec => []TypeOK` |
| `!ExpenseOnce`, `!CashBookAlwaysMatches`, `!PaidOnlyAfterAccrual` | `[]ExpenseRecognisedOnce`, `[]CashBookMatchesBank`, `[]PaidOnlyWhenAccrued`, with overlap |
| `!ReversedOnceAlways`, `!PaymentsOwnedAlways`, `!SubledgerAlwaysAgrees` | `[]ReversedOnce`, `[]EveryPaymentOwned`, `[]SubledgerAgrees`, if requests for one bill do not overlap |
| `!RemittedNeverUndone` | the action property `RemittedTDSNotUndone`, if they do not overlap |
| `Receivables_proofs!TypeAlways`, `!NeverOverpaidAlways`, `!ReferencesAlwaysDistinct`, `!ReceiptsAgreeAlways`, `!ClaimsStayCoveredAlways` | every property of `receivables_overlap`, with overlap |
| `Progress_proofs!TypesAlways`, `!EventsAppliedOnce`, `!ManualPaymentsOnce`, `!PaidStays` | `[]TypeOK`, `[]AppliedOnce`, `[]ManualPaymentOnce` and `PaidStaysSettled`, with overlap |
| `!UtrsUnique` | `[]UtrUnique`, with overlap (no run checks this one) |
| `!SerialLatestPaymentWins`, `!SerialRevivedByAdminOnly`, `!SerialEvidenceFixed` | `[]LatestPaymentWins`, `RevivedByAdminOnly` and `DecidedEvidenceFixed`, if handlers do not overlap |
| `Site_proofs!SiteTypesAlways`, `!ProgressAddsUpAlways`, `!RecordsStandAlways`, `!InvoicedIsFrozenAlways` | the themes of `site` for its nine scenes at any size, from one theorem about each module: `!EntriesAddUpAlways`, `!LatestIsCurrentAlways`, `!ClaimedOnceAlways`, `!CompletionIsLastReportAlways`, `!AssigneesWereMembersAlways`, `!ApprovedReportStandsAlways`, `!UpdatesAreShownAlways`, `!QuotaOverrunBoundedAlways`, `!ReviewedStandsAlways` |
| `!StockAddsUpAlways`, `!TransferMovesOnceAlways`, `!DeletedIsFrozenAlways` | the stock, with overlap |
| `Business_proofs!BusinessTypesAlways`, `!MoneyIsBookedAlways`, `!AgreementsStandAlways`, `!PayrollStandsAlways` | every property of `business` for its nine scenes at any size, with overlap, from one theorem about each module: `!FleetStandsAlways`, `!CostsAddUpAlways`, `!WagesHoldAlways`, `!QuotedAsApprovedAlways`, `!ItemFollowsUnitAlways`, `!BooksHoldAlways`, `!RecordedOnceAlways`, `!PaidAsBookedAlways`, `!ProcurementStandsAlways` |
| `Platform_proofs!PlatformTypesAlways`, `!AccountsHoldAlways`, `!AnswersHoldAlways` | every property of `platform` for its seven scenes at any size, with overlap, from `!SessionsHoldAlways`, `!SignInHoldsAlways`, `!UsersStandAlways`, `!RolesStandAlways`, `!GroupsAreRunAlways`, `!MessagesStandAlways`, `!MasterServedAlways` |
| `Progress_proofs!IdsAlwaysDistinct`, `!ProgressTypes` | `[]IdsDistinct` and `[]ProgressTypesOK` of `MCFairSpec` |
| `!ScanningHoldsKey`, `!LockImplementsExclusiveScan` | `WorkerSpec => []ScannerHoldsKey`, and from it the refinement `WorkerSpec => ScansExclusive` of `ExclusiveScan` |

Every theorem has the same layout: an invariant that is a conjunction of named parts, a lemma that it
holds initially, one lemma for each part (or group of parts) with one step per action, and three lines of
temporal reasoning.

**Sums without induction.** The provers at hand cannot instantiate the library's induction over a fold,
so nothing about a sum written with one can be proved. `Sums` therefore counts units: `TotalOf(f)` is the
number of pairs `<<x, k>>` with `k` in `1..f[x]`, less that of `-f`. For integers that is the sum, and what a
ledger needs to know of it (a row more adds its value, a changed row adds the difference, nothing
is 0, equal functions have equal totals) follows from the library's theorems about finite sets. Every sum
in the proved modules is written with it; `TotalIsFold`, an ASSUME of `MCVendorPayables`, has TLC compare
it with the fold over small inputs. Totals of totals (a trial balance by account, wages by day and by
week) do need an induction, over the size of the set. `Business_proofs` makes it as a least
counterexample: `<` on the naturals is well-founded, so if some set is added up wrongly there is a
smallest (`LeastOf`), and taking a row out of it gives a smaller one. So are proved `TotalGrouped`
(rows grouped by a key have the total of the rows) and `TotalAdded` (the total of sums is the sum of
totals), and from them `TotalByKey` and `TotalMost`.

The arguments:

- **VendorPayables.** `TypeOK` alone is not inductive: `CommitCancelPaid` and `CommitReverse` look up
  `txns[row.txn]` by an id taken from a row, possibly one read earlier. `IInv` adds `Links`: ids in voucher
  rows, in those held by requests and in reversal requests are within the table, and a PAID voucher has
  one. Links survive because the table only grows (`NextGrown`) and because a PAID status and its
  transaction id are written together. `ExpenseOnce` and `PaidOnlyAfterAccrual` rest on an accrual
  invariant: no payment of an accrued bill posts to the expense account, the accrual and its posting are
  one step, and what is undone was accrued before. `CashBookAlwaysMatches`: each row of `transactions`
  brings one line of the journal with it, for the same account and amount. The serial theorems rest on
  *freshness*: under `Exclusive`, the rows held by a request in progress on a bill are the rows of the
  tables, since nothing else writes that bill between its two steps. From it follow the *standing
  payments*: the unreversed payments of a bill are those its paid vouchers name and the direct ones, so
  that what the payable account says was settled is amount_paid.
- **Receivables.** `Inv` is the types with `NeverOverpaid` and `ReferencesDistinct`; `MoneyInv` adds that
  receipts name payments that were approved over their amount and invoice, that an approved payment is named
  by one receipt (deleted ones leave a gap in the table, so positions do not shift), and that a payment a
  verification holds unverified is unverified or marked stale. A step that receives money does so from a
  locked row and within what is pending; an update of the total from the snapshot either finds the row
  unchanged or makes it stale, and the invariant speaks of the others. `ClaimsSplit` and `CoveredByOne`
  split the claims of an invoice by the one payment a step writes.
- **SaasBilling.** `OnceInv`: an applied event has its processed row, so the unique key refuses a second
  commit whatever its snapshot was; a manual payment is decided on its locked row. `PaidStays`:
  whatever is written over a paid invoice comes from a handler whose event is not a refund, and the
  handler decides by the order of the provider's times, which every snapshot contains
  (`RefundsHandled`). For the serial theorems `SerialInv` says that the one handler in progress has seen
  the subscription as it is, `SubmissionSees` that a submission has seen the status of its payment (payments
  are created meanwhile), and `OrderInv` that the subscription shows the newest handled payment and
  every invoice tells its own (`Told`). Two conditions came from the proofs: TLC then found that
  `LatestPaymentWins` fails in a feed where the charge of one invoice fails twice, or a payment names no
  invoice, and that `PaidStaysSettled` fails where a refund is handled before the payment it refunds.
  `InvoicesTell` and `RefundHandled` state them.
- **The site.** Most scenes need that the rows held by a request (their *view*) are rows of the table or
  that the row they write is marked by a history variable. *Work:* the status of an activity is what its
  quantities say, entries are the only writers of the completed quantity, and a work order is the
  `Total` of its activities. *Bill of quantities:* the items of a group with the highest version are the
  latest, and versions only grow. *Measurements:* a claim names its measurement, which then is BILLED or was
  reopened. *Tasks:* reports of a task only grow, and the last one is the percentage. *Stock:* the
  lines of each row are `Sound` (a reversal names an earlier usage of its project, `ReversesEarlier`), the
  requests about to reverse one name it correctly, and a line of another handler names no transfer.
  *Projects:* the number over the quota is at most that of the requests whose count is older than a
  creation, counted by an injection. `SiteInvs` is the conjunction over the scenes; each step of `MCNext`
  changes one of them.
- **Money and what is agreed on** (`Business_proofs`). A view a request took is no row of the tables any
  more, so each part says what stays true of it while others go on (`RequestsKept`, `SnapshotsKept`,
  `ViewsKept`, ...: rows it saw are there still, advances have only grown), and names in a history variable
  what it then writes. *Fleet:* what a request is about to let fits between the rentals it has seen
  (`FitsSeen`); a machine let today or later is on no project (`PlacedRight`), a deleted one neither;
  rentals are apart (`RentalsApart`) and the hours are the total of the usages. *Costs:* the entries of an
  expense add up to its amount and the last one is the current one (`RowBooked`), which is what a correction
  looks for; a recalculation leaves each item with the sum of its sources, if it saw the others
  (`SummedStep`). *Labour:* `RowKept` relates total, paid, remaining, advances and what was disbursed of one
  payroll; payroll that is computed anew has disbursed nothing; the reports add up the same hours by day, by
  labourer and by contractor. *Quotations:* who has documents is approved; who was not overwritten `AddsUp`:
  total, documents and decision agree. *Ledger:* each date before a template's next one has its one entry
  (`DatesKept`), the entries of transfers and vouchers are what the rows say (`VouchersKept`), and the
  reports agree because lines grouped by account, and accounts grouped by type, add up to all lines
  (`TotalByKey`). *Contractors:* an overlapping payment that saw room on a bill takes it beyond its amount
  once, so `PaidFew` bounds what is paid together with those still to come. *Records* and *procurement*:
  what is there twice has an overlap to show for it; the stock reports compare the same numbers.
  `BusinessInvs` is the conjunction over the scenes.
- **Who may come in and what is shown** (`Platform_proofs`). *Sessions:* an ended token is on the blocklist
  with as much time as it has left, or was cut off (`EndedIsKept`); a cut lasts as long as a token of its
  second (`CutsLast`). *Signing in:* a code that gave a token is gone and nobody holds it (`CodesSpent`).
  `GuessesBounded` needs to know which wrong answers a counter stands for: those since the tick that opened
  its window (`WindowsCount`). While there is no lock, the window is not full and what is left of the one
  before lacks its first answer (`UnlockedFew`); while there is one, only verifications under way can answer
  (`LockedFew`). *Users:* active users and the requests that may still make one are together within the
  quota and the slots (`QuotaCounted`); `TrailTells` follows the last log of each field, and `OneAtATime`
  says that a request that overlaps nothing sees the rows as they are. *Roles:* a view taken when as many
  requests had written is the present table (`SlotsSee`). *Chat:* read and delivered rows are of messages
  there are and of one mind (`LedgersAgree`); pins and the requests that found room for one are counted
  together (`PinsCounted`). *Master lists:* each version was announced by a request that saved, or will be
  (`VersionsHeld`); what is kept under the present version is the list (`CacheFresh`); and everything shown,
  read or kept is among the past lists, with an age that its time left bounds (`CacheRecent`).
  `PlatformInvs` is the conjunction over the scenes.
- **Ids and workers.** Every id handed out is the id of a row, and the insert refuses an id that has one.
  `HolderOwnsKey`: between the answer to its SET and the end of its release a worker's id is the key's
  value. A release deletes only that value, and the steps that break this (`Expire` under a holder, the
  fallback) are recorded in `mishaps`, which never shrinks.

*Only model-checked:*

- The liveness properties (`AcksComplete`, `CreationsComplete`, `ScansComplete`): fairness and ENABLED are
  outside this prover.
- That the detailed sums are those of a fold (`TotalIsFold`): TLC compares them over small inputs, as
  induction over a recursive definition is out of reach here.
- The three violation runs are counterexamples; there is nothing to prove about them.

The serial theorems (`!SerialLatestPaymentWins`, `!SubledgerAlwaysAgrees` and the like) do not say what
happens when requests overlap; section 6 does. `TypeOK` of a module says what the columns of its rows are,
not that the views requests hold are right: that is in the `...Kept` parts of its invariant.

## 6. What was found

Three disagreements between the code and its own words have a run of their own:

1. **A voucher paid twice** (`payables_paid_twice`). payment_service.py:186 says "Step 4: Validate state
   after lock". The voucher and the bill are loaded with `db.get` before they are locked; the locked
   SELECT does not refresh them, so the state that is validated is the one from before the lock. Two
   overlapping `mark_paid` both pay; an overlapping `cancel` leaves a payment no paid voucher answers for.
2. **A lost notification** (`billing_lost_event`). billing_service.py:117 promises to process webhooks
   idempotently and line 145 says "already processed. Skipping.". A handler that fails leaves a row
   with status failed and answers 500; the redelivery finds the row, does not look at its status, and
   answers success. The payment is never applied.
3. **Found stock is lost** (`stock_found_lost`). An adjustment that counts more than the books say sets
   remaining_stock ("SET ACTUAL STOCK", material.py:3638), and a test calls that stock "authoritative"
   (tests/api/test_materials_audit_fixes.py:846). `usage` respects it; `purchase`, `reverse_usage`,
   `update_material` and the completion of a transfer call `update_material_fields`, which sets
   remaining to purchased less used. The found stock is gone, without a line in the ledger.

Further limits, met while choosing the properties. Most are a counterexample TLC gives when the condition
of a property is dropped, and say why it has that condition; the others were met while reading.

*Payables.* Overlapping reversals reverse one transaction twice (`ReversedOnce` holds serially). A
voucher payment that is reversed through the bill leaves the voucher PAID with its net amount off the
bill, and cancelling that voucher takes the payment back again, with no overlap at all (`UndoneOnce` is
stated and checked by no run; `NoVoucherReversal` is the condition in the other properties). A deposit
of TDS committed while a cancellation runs is not seen by it.

*Receivables.* An `update_invoice` that overlaps a payment leaves more paid than the total or a wrong
pending amount. An `update_client_payment` that read a payment before its approval changes an approved
payment, although its docstring says "only before verification". Verification of a payment that moved to
another invoice meanwhile credits the old invoice while the receipt names the new one. `pay_invoice` and
`mark_paid` do not look at unverified claims. An online payment stays PENDING: no endpoint verifies it.
Creation computes the total as amount plus GST less tax, the update as amount plus GST plus tax. Raising
the total of a paid invoice leaves it PAID, hence unpayable. No code sets `InvoiceStatus.CANCELLED`. An
invoice of materials bills the same expenses each time it is made, and labour invoices whose ranges
overlap bill a day twice (invoice.py:765-790, 850-872).

*Books.* The list of bank accounts adds up entries that wait or were rejected (accountant.py:1224-1250).
The balance sheet calls itself balanced only if there are no liabilities and no equity (2270-2273).
Recurring templates need not balance, and an import may be off by 0.01 and asks nobody for approval
(journal.py:504-647). Runs of the recurring journals that overlap write a date twice and set the next date
back (845-851). Fund transfers look accounts up by code across companies (accounting.py:21-24); the tree of
accounts is checked for a parent that is itself, not for longer circles. Matching by hand checks neither
side for being open (accountant.py:2567-2597). Overlapping requests reverse a receipt twice, make a
deduction twice, and lose a depreciation. The GST routes at 3145-3330 are registered again and unreachable.

*Expenses.* Corrections look for `J-EXP-<id>` as a prefix (expense.py:356-361, 478): expense 1 finds the
entries of expense 10. Material usage stores a negative quantity, so the actual quantity of its item is
negative (boq_calc.py:40, 98).

*Labour.* `check_out` stores the total hours as working hours and the extra ones as overtime
(attendance.py:273, 288), and payroll pays both (labour.py:1313-1316), which is more than the accrual. Hours
of a proxy check-out are paid without an expense. Nothing writes labour_attendance, so every wage record is
0, cannot be paid (2650), and hides its days from payroll (1279-1287). One locked payroll blocks the
generation of its project's month (1353-1359); one with an advance cannot be unlocked again, and with
nothing remaining does not become PAID; advances after the first generation are never deducted (1378).
Payroll summaries count PENDING only (payroll.py:55), and the duplicate check of staff salaries is
unlocked (207).

*Contractors.* A bill set to Paid by its own route (billing.py:675-693) stays payable; a partly paid one is
in none of the dashboard's sums (contractor.py:567-694); the ledger looks for the business id where
payments store the numeric one (489-539, 371-378); overlapping payments lose an amount given.

*Quotations.* Line edits that overlap leave a stale subtotal; an approval and a rejection that overlap give
a rejected quotation with is_approved. Sent and rejected quotations can still be edited (2311-2320), and a
rejected one sent again beside a new one (3787-3820). A discount above the subtotal is refused at creation
only. A dummy quotation ignores a change of gst_percent after its first save.

*Measurement and bills of quantities.* A late approval or rejection reopens a BILLED measurement. The
central approval can approve an RA bill without its journal; the journal of an RA bill does not balance by
its deductions (billing.py:628-657); the check against the quantity of the item is unlocked (165-178). An
item added by an overlapping request becomes "latest" in an old version (boq.py:838), a new version starts
with an actual cost of 0, and requesting an approval puts an approved item back to Pending.

*Projects and progress.* Daily progress of two activities of one work order that overlaps loses a
quantity there; the quantity can also be set by hand. `update_daily_entry` and `delete_daily_entry` always
answer 500 (project.py:7019, 7233). The PDF and Excel reports show a stale status. `delete_project` counts
dependent rows in its snapshot (1328), and removing a member leaves the tasks assigned to them. A
submitted daily report may be rewritten. Renaming a drawing can give two latest ones, and folders are
created APPROVED, so the deletion of a folder is unreachable (document.py:452-497). Work updates take no
lock, and delete files after the commit.

*Stock and orders.* Two purchases that overlap, or a purchase that overlaps a usage or a transfer, write
back quantities of before the other although both hold the lock in turn; two adjustments likewise. Two
partial reversals that overlap give back more than was taken. A deleted material cannot be created again,
and transfers to it fail on the unique key. `purchase` stores the client's project_id unchecked.
`update_material` accepts a deleted supplier (5661-5673), duplicate checks of suppliers differ between
creation and update, the best supplier is chosen among all companies', and the reorder alerts at 901-1005
are never called.

*Equipment.* Nothing is locked: usage hours are lost, a rental is invoiced twice (7281-7350), rentals
overlap. `deallocate` ignores damage and maintenance (1464-1479); maintenance that is overdue does not keep
a machine from being allocated (1255), while a stale MAINTENANCE status keeps it from being let (3421). A
completed and invoiced rental can be extended on its last day (3982), and the answer shows it as running
(4094). `delete_usage` has no route.

*Billing and workers.* `LatestPaymentWins` compares with the time of an invoice's first failure, so an
invoice that fails twice, or a refund, breaks it. A manual verification that overlaps the administrator's
cancellation revives the subscription; a submission that overlaps a decision replaces the evidence. A scan
that outlives its key, or Redis failing for one process only, lets two scans overlap. Handlers with a
single insert (`work_order.py`) refuse one of two overlapping creations, and once a number outgrows its
padding every later creation fails.

*Accounts.* Two verifications that overlap use a code twice, although otp.py calls it one-time; one can
open an account for a number that was taken from its account after the code was sent. The fixed window
lets twice the limit of wrong answers, less two, into the time of one lock; a right answer that overlaps
clears the lock; deleting the code's key deletes a newer code. The keys that end a session run out in the
second its token still passes; a token issued in the same second as a cut, but after it, is
refused; when Redis fails, neither blocklist nor cut-off is looked at. Restoring and reactivating users ask
no quota; `create_user` and `update_role_status` raise no list version, and the latter writes no audit log.

*Cache.* The first INCR of a missing version key gives 1, which is what a missing key reads as, so it
invalidates nothing (redis.py:53-69; docs/payroll_pay_post_fix_regression_audit.md:346 thinks otherwise).
`user.py` raises the version before its commit (789, 843, 886). Two overlapping creations can give two
materials one name; the master lists belong to no company.

*Roles.* Custom roles cannot be assigned; resetting the defaults deletes a custom role in use; overlapping
requests duplicate permissions, which no key forbids; revoking a module's permission from someone with "*"
leaves its single ones; the list of a custom role omits rows without a company that its users get.

*Chat.* When two administrators leave at once the last one is gone; a creator who handed over can be
removed with others; a pair of users gets two private chats, and a chat more pinned messages than its
limit, by requests that overlap; overlapping sends move an attachment. Only 50 of up to 100 shown messages
are marked read (655), `get_mentions` shows deleted text (1510), deleted messages count as pinned, and of two
page reads that overlap one fails as a whole on the unique keys.

## 7. What is not modelled

In the modelled components: each module's header lists what it leaves out. Throughout: rates, taxes and
rounding where a property does not compare them; files on disk; listings that only select and sort;
duplicate requests answered by an idempotency key; retries after an InnoDB deadlock (a retry is an `Abort`
and a new request). The journals of invoices and receipts are not followed (`auto_post_journal` silently
does nothing when an account is missing, and `mark_paid` posts none, so nothing relates them to the
receipts). Staff salaries, machines rented from a vendor, the quota of storage, agreements and the push of
chat messages over Redis channels are the operations left out that change state others may look at.

Of the others, the components marked `not_modelled` in `PROJECT.json`: reports and dashboards over several
parts, notifications, AI and voice, the application frame, migrations and schemas are read-only queries,
file or network I/O, single inserts, generated code and input validation: no state relates to other state
there.

## 8. The plan

The planned modules are written, and what their runs check as an invariant or an action property is
proved. What is left, in the order of what it adds:

1. **An abstract cache.** `ServedIsRecent` as a refinement of a cache that answers with any value the list
   had within the time an answer is kept; `CacheRecent` is the invariant it needs.
2. **The push of chat messages** (`redis_pubsub.py`, `websocket_manager.py`) over several processes, with
   lost connections.
3. **Staff salaries** (`payroll.py`), machines rented from a vendor and the quota of storage, the
   operations of section 7 that change state others may look at.
4. **Redis that does not answer** while somebody signs in or a session is checked, which `Sessions` and
   `SignIn` leave out.
5. **Liveness of the composed system**: the three properties of `progress` each have their own fairness;
   a prover with ENABLED would let them be proved.
