-------------------------------- MODULE Ledger --------------------------------
(***************************************************************************)
(* The books of one company: its accounts, the journal entries on them and  *)
(* every report of a balance (app/api/accountant.py, app/api/journal.py,    *)
(* app/utils/accounting.py), with the approval of entries                   *)
(* (app/api/approval.py).                                                   *)
(*                                                                         *)
(* An entry counts once its status is Posted: those the program makes are   *)
(* born so, manual, adjustment and recurring ones are Pending until         *)
(* approved.  No handler takes a lock: a run of the recurring journals      *)
(* decides on the templates and entries it has read.                        *)
(*                                                                         *)
(* Amounts are counted in the smallest unit an import lets debit and credit *)
(* differ by.  Left out: other companies, whose accounts some lookups by    *)
(* code would also find; the tree of accounts; entries with more than two   *)
(* lines.                                                                   *)
(***************************************************************************)
EXTENDS Integers, Sequences, FiniteSets, Sums

CONSTANTS
    Account,
    TypeOf,          \* type of each account
    BankLedger,      \* the account behind the bank account, named so
    CashLedger,      \* the primary cash account
    PettyCash,       \* the petty cash account
    EntryId,         \* ids of journal entries: 1, 2, ...
    Template,        \* recurring journals
    Running,         \* slots of runs that overlap others
    Sum,             \* amounts
    Today,           \* number of dates the templates become due on
    Posting,         \* bound: the pairs of accounts entries are written on
    Managed          \* bound: the accounts that are added, changed, deleted, or paid from petty cash

AccountType == {"ASSET", "LIABILITY", "EQUITY", "INCOME", "EXPENSE"}
ASSUME AccountsAssumption ==
    /\ TypeOf \in [Account -> AccountType]
    /\ {BankLedger, CashLedger, PettyCash} \subseteq Account
    /\ \A a \in {BankLedger, CashLedger, PettyCash} : TypeOf[a] = "ASSET"
ASSUME PostingAssumption == Posting \subseteq Account \X Account /\ Managed \subseteq Account
ASSUME EntriesAssumption == EntryId \subseteq Nat /\ Sum \subseteq Nat \ {0} /\ Today \in Nat
\* The tables of one company.
ASSUME BooksAreFinite == IsFiniteSet(EntryId) /\ IsFiniteSet(Account)

VARIABLES
    chart,           \* accounts: missing, active or inactive
    journals,        \* journal_entries with their two lines
    requested,       \* entries with a Pending approval
    templates,       \* recurring_journals
    running,         \* the view an overlapping run has taken
    petty,           \* entries of petty_cash_transactions
    transfers,       \* fund_transfers: from, to, amount and their entry
    outrun           \* history: templates a run wrote that others had written since

ledgerVars == <<chart, journals, requested, templates, running, petty, transfers, outrun>>

-----------------------------------------------------------------------------
Unwritten == [status |-> "none"]
\* Manual and adjustment journals go the same way.
EntryKind == {"Auto", "Manual", "Import", "Recurring", "PettyCash"}
EntryStatus == {"Posted", "Pending", "Rejected"}
\* A line that debits one account and a line that credits another.
EntryRow ==
    [status : EntryStatus, kind : EntryKind, debited : Account, credited : Account,
     debit : Nat, credit : Nat, number : {<<>>} \cup (Template \X Nat)]
Unset == [status |-> "none"]
TemplateRow ==
    [status : {"Active", "Paused"}, next : Nat, debited : Account, credited : Account,
     debit : Nat, credit : Nat]

\* What a run reads: the templates, and the dates that have an entry.
Read2 == [templates |-> templates,
          generated |-> {journals[e].number : e \in {f \in EntryId : journals[f] # Unwritten}}]
Unread == [templates |-> Unset]

LedgerInit ==
    /\ chart = [a \in Account |-> "active"]
    /\ journals = [e \in EntryId |-> Unwritten]
    /\ requested = {}
    /\ templates = [t \in Template |-> Unset]
    /\ running = [r \in Running |-> Unread]
    /\ petty = {}
    /\ transfers = {}
    /\ outrun = {}

-----------------------------------------------------------------------------
\* Lines of entries, and what they add up to.
Entries(status) == {e \in EntryId : journals[e].status \in status}
Debits(es, a) == TotalOf([e \in {f \in es : journals[f].debited = a} |-> journals[e].debit])
Credits(es, a) == TotalOf([e \in {f \in es : journals[f].credited = a} |-> journals[e].credit])
InUse(a) == \E e \in Entries(EntryStatus) : a \in {journals[e].debited, journals[e].credited}
DebitNature(a) == TypeOf[a] \in {"ASSET", "EXPENSE"}

CreateAccount(a) ==
    /\ chart[a] = "missing"
    /\ chart' = [chart EXCEPT ![a] = "active"]
    /\ UNCHANGED <<journals, requested, templates, running, petty, transfers, outrun>>
UpdateAccount(a, status) ==
    /\ chart[a] # "missing"
    /\ chart' = [chart EXCEPT ![a] = status]
    /\ UNCHANGED <<journals, requested, templates, running, petty, transfers, outrun>>
\* Settings and bank accounts hold keys to the three named accounts.
DeleteAccount(a) ==
    /\ chart[a] # "missing"
    /\ InUse(a) \/ a \notin {BankLedger, CashLedger, PettyCash}
    /\ chart' = [chart EXCEPT ![a] = IF InUse(a) THEN "inactive" ELSE "missing"]
    /\ UNCHANGED <<journals, requested, templates, running, petty, transfers, outrun>>

FreeEntry(e) ==
    journals[e] = Unwritten /\ \A f \in EntryId : f < e => journals[f] # Unwritten
\* Inactive accounts can still be written to.
Known(a, b) == chart[a] # "missing" /\ chart[b] # "missing"
Balanced(debit, credit) == debit = credit
\* Mutant: an import may be off by any amount.
AnyDifference(debit, credit) == TRUE
NearlyBalanced(debit, credit) == debit - credit \in -1 .. 1

Write(e, status, kind, a, b, debit, credit, number) ==
    /\ FreeEntry(e) /\ Known(a, b) /\ a # b
    /\ journals' = [journals EXCEPT ![e] =
           [status |-> status, kind |-> kind, debited |-> a, credited |-> b,
            debit |-> debit, credit |-> credit, number |-> number]]

CreateJournalEntry(e, a, b, debit, credit) ==
    /\ Balanced(debit, credit)
    /\ Write(e, "Posted", "Auto", a, b, debit, credit, <<>>)
    /\ UNCHANGED <<chart, requested, templates, running, petty, transfers, outrun>>
WithRequest(e) == requested' = requested \cup {e}
CreateManualJournal(e, a, b, debit, credit) ==
    /\ Balanced(debit, credit)
    /\ Write(e, "Pending", "Manual", a, b, debit, credit, <<>>)
    /\ WithRequest(e)
    /\ UNCHANGED <<chart, templates, running, petty, transfers, outrun>>
CreateAdjustmentJournal(e, a, b, debit, credit) ==
    /\ Balanced(debit, credit)
    /\ Write(e, "Pending", "Manual", a, b, debit, credit, <<>>)
    /\ WithRequest(e)
    /\ UNCHANGED <<chart, templates, running, petty, transfers, outrun>>
\* An imported entry waits too, but no approval is asked for.
ImportAdjustmentJournals(e, a, b, debit, credit) ==
    /\ NearlyBalanced(debit, credit)
    /\ Write(e, "Pending", "Import", a, b, debit, credit, <<>>)
    /\ UNCHANGED <<chart, requested, templates, running, petty, transfers, outrun>>

\* Anyone may ask for an approval of an entry someone wrote, even a decided one.
Personal(e) == journals[e] # Unwritten /\ (journals[e].kind # "Auto" \/ e \in petty)
CreateApproval(e) ==
    /\ Personal(e) /\ e \notin requested
    /\ WithRequest(e)
    /\ UNCHANGED <<chart, journals, templates, running, petty, transfers, outrun>>
DecideEntry(e, status) ==
    /\ e \in requested
    /\ journals' = [journals EXCEPT ![e].status = status]
    /\ requested' = requested \ {e}
    /\ UNCHANGED <<chart, templates, running, petty, transfers, outrun>>

PettyCashTransaction(e, type, a, n) ==
    /\ a # PettyCash
    /\ TypeOf[a] = IF type = "CASH_OUT" THEN "EXPENSE" ELSE "ASSET"
    /\ IF type = "CASH_OUT" THEN Write(e, "Posted", "PettyCash", a, PettyCash, n, n, <<>>)
                            ELSE Write(e, "Posted", "PettyCash", PettyCash, a, n, n, <<>>)
    /\ petty' = petty \cup {e}
    /\ UNCHANGED <<chart, requested, templates, running, transfers, outrun>>
\* auto_post_journal
CreateFundTransfer(e, from, to, n) ==
    /\ Write(e, "Posted", "Auto", to, from, n, n, <<>>)
    /\ transfers' = transfers \cup {<<from, to, n, e>>}
    /\ UNCHANGED <<chart, requested, templates, running, petty, outrun>>

-----------------------------------------------------------------------------
\* Recurring journals.  The lines of a template need not balance.
CreateRecurring(t, a, b, debit, credit) ==
    /\ templates[t] = Unset /\ Known(a, b) /\ a # b
    /\ templates' = [templates EXCEPT ![t] =
           [status |-> "Active", next |-> 1, debited |-> a, credited |-> b,
            debit |-> debit, credit |-> credit]]
    /\ UNCHANGED <<chart, journals, requested, running, petty, transfers, outrun>>
ToggleRecurring(t) ==
    /\ templates[t] # Unset
    /\ templates' = [templates EXCEPT ![t].status = IF @ = "Active" THEN "Paused" ELSE "Active"]
    /\ UNCHANGED <<chart, journals, requested, running, petty, transfers, outrun>>

Generated(t, d) == {e \in EntryId : journals[e] # Unwritten /\ journals[e].number = <<t, d>>}
Due(t, view) ==
    view.templates[t] # Unset /\ view.templates[t].status = "Active"
    /\ view.templates[t].next <= Today
\* A date that has an entry is passed over; the template stays on it.
Ungenerated(t, view) ==
    Due(t, view) /\ <<t, view.templates[t].next>> \notin view.generated
\* Mutant: the date is not moved on.
NotAdvanced(t, view) == [templates EXCEPT ![t] = @]
Advanced2(t, view) == [templates EXCEPT ![t].next = view.templates[t].next + 1]

\* One template of the run: its entry, the approval, the next date.
RunDue(t, e, view) ==
    LET row == view.templates[t] IN
    /\ Ungenerated(t, view)
    /\ Write(e, "Pending", "Recurring", row.debited, row.credited, row.debit, row.credit,
             <<t, row.next>>)
    /\ WithRequest(e)
    /\ templates' = Advanced2(t, view)
    /\ outrun' = IF view.templates[t].next = templates[t].next THEN outrun ELSE outrun \cup {t}
    /\ UNCHANGED <<chart, petty, transfers>>
RunDueRecurringJournals(t, e) == RunDue(t, e, Read2) /\ UNCHANGED running

\* A run that reads nothing to generate ends there.
BeginRun(r) ==
    /\ running[r] = Unread
    /\ \E t \in Template : Ungenerated(t, Read2)
    /\ running' = [running EXCEPT ![r] = Read2]
    /\ UNCHANGED <<chart, journals, requested, templates, petty, transfers, outrun>>
CommitRun(r, t, e) ==
    /\ running[r] # Unread
    /\ RunDue(t, e, running[r])
    /\ running' = [running EXCEPT ![r] = Unread]

-----------------------------------------------------------------------------
LedgerNext ==
    \/ \E a \in Managed :
        CreateAccount(a) \/ DeleteAccount(a)
        \/ \E s \in {"active", "inactive"} : UpdateAccount(a, s)
    \/ \E e \in EntryId :
        \/ \E p \in Posting, m, n \in Sum :
            \/ CreateJournalEntry(e, p[1], p[2], m, n)
            \/ CreateManualJournal(e, p[1], p[2], m, n)
            \/ CreateAdjustmentJournal(e, p[1], p[2], m, n)
            \/ ImportAdjustmentJournals(e, p[1], p[2], m, n)
        \/ \E a \in Managed, n \in Sum, type \in {"CASH_IN", "CASH_OUT"} :
            PettyCashTransaction(e, type, a, n)
        \/ \E p \in Posting, n \in Sum : CreateFundTransfer(e, p[2], p[1], n)
        \/ CreateApproval(e)
        \/ DecideEntry(e, "Posted") \/ DecideEntry(e, "Rejected")
        \/ \E t \in Template : RunDueRecurringJournals(t, e)
        \/ \E r \in Running, t \in Template : CommitRun(r, t, e)
    \/ \E t \in Template :
        ToggleRecurring(t)
        \/ \E p \in Posting, m, n \in Sum : CreateRecurring(t, p[1], p[2], m, n)
    \/ \E r \in Running : BeginRun(r)
LedgerSpec == LedgerInit /\ [][LedgerNext]_ledgerVars

LedgerTypeOK ==
    /\ chart \in [Account -> {"missing", "active", "inactive"}]
    /\ \A e \in EntryId : journals[e] = Unwritten \/ journals[e] \in EntryRow
    /\ requested \subseteq EntryId /\ petty \subseteq EntryId
    /\ \A t \in Template : templates[t] = Unset \/ templates[t] \in TemplateRow
    /\ transfers \subseteq Account \X Account \X Sum \X EntryId
    /\ outrun \subseteq Template

-----------------------------------------------------------------------------
(* The reports of a balance.                                                *)
\* Mutant: what waits for approval counts.
PostedOrPending == Entries({"Posted", "Pending"})
PostedEntries == Entries({"Posted"})
\* get_account_detail, list_accounts and export_accounts
Natural(a, debit, credit) == IF DebitNature(a) THEN debit - credit ELSE credit - debit
AccountDetail(a) == Natural(a, Debits(PostedEntries, a), Credits(PostedEntries, a))
\* The running balance of get_account_ledger after its last line.
Line2(e, a) == Natural(a, IF journals[e].debited = a THEN journals[e].debit ELSE 0,
                          IF journals[e].credited = a THEN journals[e].credit ELSE 0)
AccountLedger(a) ==
    TotalOf([e \in {f \in Entries({"Posted"}) : a \in {journals[f].debited, journals[f].credited}} |->
                Line2(e, a)])
\* _build_ledger, behind the cash book and the ledger of a bank account
AccountBalance(a) == TotalOf([e \in Entries({"Posted"}) |-> Line2(e, a)])
\* get_bank_account, bank_summary and the reconciliation's dashboard
BankBalance == Debits(Entries({"Posted"}), BankLedger) - Credits(Entries({"Posted"}), BankLedger)
\* list_bank_accounts does not ask for the status of the entries.
ListedBankBalance ==
    Debits(Entries(EntryStatus), BankLedger) - Credits(Entries(EntryStatus), BankLedger)
\* get_petty_cash_ledger: every line on the account, with its voucher or without
PettyBalance == TotalOf([e \in Entries({"Posted"}) |-> Line2(e, PettyCash)])

\* trial_balance
TrialDebit == TotalOf([a \in Account |-> Debits(PostedEntries, a)])
TrialCredit == TotalOf([a \in Account |-> Credits(PostedEntries, a)])
\* balance_sheet: debit minus credit of every account but the profit
SheetOf(type) ==
    TotalOf([a \in {b \in Account : TypeOf[b] = type} |->
                Debits(PostedEntries, a) - Credits(PostedEntries, a)])
Profit == -SheetOf("INCOME") - SheetOf("EXPENSE")
IsBalanced == SheetOf("ASSET") = SheetOf("LIABILITY") + SheetOf("EQUITY") + Profit

Off(e) == journals[e].debit - journals[e].credit
-----------------------------------------------------------------------------
\* The trial balance closes but for what approved imports and recurring journals
\* are off by, an import by one unit at most; and the balance sheet, which adds
\* liabilities as negative numbers, calls itself balanced when there are none.
BooksClose ==
    /\ \A e \in PostedEntries :
        \/ Off(e) = 0 \/ journals[e].kind = "Recurring"
        \/ (journals[e].kind = "Import" /\ Off(e) \in -1 .. 1)
    /\ LET debit == TrialDebit  credit == TrialCredit IN
       /\ debit - credit = TotalOf([e \in PostedEntries |-> Off(e)])
       /\ debit = credit => (IsBalanced <=> SheetOf("LIABILITY") + SheetOf("EQUITY") = 0)

\* Every report shows an account with the same balance; the list of bank
\* accounts differs by the entries that are waiting or were rejected.
BalancesAgree ==
    /\ \A a \in Account :
        LET balance == AccountDetail(a) IN AccountLedger(a) = balance /\ AccountBalance(a) = balance
    /\ BankBalance = AccountDetail(BankLedger) /\ PettyBalance = AccountDetail(PettyCash)
    /\ ListedBankBalance - BankBalance =
        LET waiting == Entries({"Pending", "Rejected"})
        IN Debits(waiting, BankLedger) - Credits(waiting, BankLedger)

\* A recurring journal has exactly one entry for each date before its next one,
\* unless overlapping runs wrote it.
EachDateOnce ==
    \A t \in Template :
        templates[t] # Unset /\ t \notin outrun =>
            \A d \in 1 .. Today :
                Cardinality(Generated(t, d)) = IF d < templates[t].next THEN 1 ELSE 0

\* An entry that waits has somebody asked about it, unless it was imported.
WaitingIsAsked ==
    \A e \in Entries({"Pending"}) : e \in requested \/ journals[e].kind = "Import"

\* The entry of a transfer or a voucher moves what the row says, until it is rejected.
VouchersBooked ==
    /\ \A v \in transfers :
        journals[v[4]].status = "Posted" /\ journals[v[4]].credited = v[1]
        /\ journals[v[4]].debited = v[2] /\ journals[v[4]].debit = v[3]
    /\ \A e \in petty : PettyCash \in {journals[e].debited, journals[e].credited}
=============================================================================
