---------------------------- MODULE ProjectCosts ----------------------------
(***************************************************************************)
(* What a project costs: expenses with their journal entries and the owner's *)
(* debits (app/api/expense.py), equipment purchases (app/api/equipment.py), *)
(* and the actual cost of the items of the bill of quantities, which every  *)
(* change of a source recomputes (app/utils/boq_calc.py).                   *)
(*                                                                         *)
(* The row of an expense, its invoices and the row of an item are locked;   *)
(* journal entries and the rows of other sources are read from the snapshot *)
(* of the request.  A change is therefore decided on a view: the present    *)
(* one, or an older one if the request overlapped others.                   *)
(*                                                                         *)
(* The journal entry of an expense is looked up by the beginning of its     *)
(* number, J-EXP-<id>: Prefix relates each id to those that begin with it.  *)
(*                                                                         *)
(* Left out: usage, maintenance, rental and material rows, which are        *)
(* sources like purchases; idempotency keys (a unique column returns the    *)
(* first row); dates and categories; the preview called import.             *)
(***************************************************************************)
EXTENDS Integers, Sequences, FiniteSets, Sums

CONSTANTS
    Expense, Prefix,      \* ids, and pairs of ids of which the second begins with the first
    Purchase,
    Item, NoItem,         \* items of the bill of quantities
    Costing,              \* request slots that overlap others
    Cost,                 \* amounts a client enters
    MaxEntries            \* bound: journal entries

ASSUME PrefixAssumption ==
    Prefix \subseteq Expense \X Expense /\ \A e \in Expense : <<e, e>> \in Prefix
ASSUME CostAssumption == Cost \subseteq Nat \ {0}
ASSUME NoItemAssumption == NoItem \notin Item
ASSUME SourcesAreFinite == IsFiniteSet(Expense) /\ IsFiniteSet(Purchase)

VARIABLES
    expenses,             \* expenses
    journal,              \* journal_entries of expenses, oldest first
    debits,               \* owner_transactions of expenses
    billed,               \* whether an invoice bills the expense, and received money
    purchases,            \* equipment_purchase
    actual,               \* boq_items.actual_cost
    costing,              \* the view an overlapping request has taken
    misread,              \* history: expenses booked from an old view
    outdated              \* history: items whose cost was last summed from an old view

costVars == <<expenses, journal, debits, billed, purchases, actual, costing,
              misread, outdated>>

None == [item |-> "none"]
ExpenseRow == [amount : Cost, item : Item \cup {NoItem}, source : {"entered", "advance"}]
PurchaseRow == [amount : Cost, item : Item \cup {NoItem}]
JournalEntry == [of : Expense, kind : {"posted", "reversal", "deletion"}, lines : Int]
Rows(table) == {k \in DOMAIN table : table[k] # None}

View == [expenses |-> expenses, journal |-> journal, purchases |-> purchases]
NoView == [expenses |-> None]

\* recalculate_boq_actuals: every source that names the item.
SumOf(table, b) ==
    TotalOf([k \in {j \in Rows(table) : table[j].item = b} |-> table[k].amount])
ActualCost(b, es, ps) == SumOf(es, b) + SumOf(ps, b)
\* Mutant: the item the cost moved away from is not summed again.
RecalculatedNew(old, new, es, ps) ==
    [b \in Item |-> IF b = new THEN ActualCost(b, es, ps) ELSE actual[b]]
Recalculated2(old, new, es, ps) ==
    [b \in Item |-> IF b \in {old, new} THEN ActualCost(b, es, ps) ELSE actual[b]]

\* The latest entry whose number begins with that of e.
EntriesOf(e, entries) ==
    {i \in DOMAIN entries : <<e, entries[i].of>> \in Prefix}
Current(e, entries) ==
    entries[CHOOSE i \in EntriesOf(e, entries) : \A j \in EntriesOf(e, entries) : j <= i]
Unused(e) == \A i \in DOMAIN journal : journal[i].of # e   \* no id is given twice
Entry(e, kind, lines) == [of |-> e, kind |-> kind, lines |-> lines]

CostsInit ==
    /\ expenses = [e \in Expense |-> None]
    /\ journal = <<>>
    /\ debits = [e \in Expense |-> 0]
    /\ billed = [e \in Expense |-> "no"]
    /\ purchases = [p \in Purchase |-> None]
    /\ actual = [b \in Item |-> 0]
    /\ costing = [r \in Costing |-> NoView]
    /\ misread = {} /\ outdated = {}

-----------------------------------------------------------------------------
\* An item is out of date when it was summed from a view others had overtaken.
SummedFrom(view, old, new) ==
    outdated' = IF view.expenses = expenses /\ view.purchases = purchases
                THEN outdated \ {old, new} ELSE (outdated \cup {old, new}) \ {NoItem}

Create(e, amount, item, view) ==
    LET created == [amount |-> amount, item |-> item, source |-> "entered"] IN
    /\ expenses[e] = None /\ Unused(e)
    /\ Len(journal) < MaxEntries
    /\ expenses' = [expenses EXCEPT ![e] = created]
    /\ actual' = Recalculated2(item, item, [view.expenses EXCEPT ![e] = created],
                               view.purchases)
    /\ debits' = [debits EXCEPT ![e] = amount]
    /\ journal' = Append(journal, Entry(e, "posted", amount))
    /\ SummedFrom(view, item, item)
    /\ UNCHANGED <<billed, purchases, misread>>

\* Advances to labourers and payments to contractors are expenses nobody books.
CreateAdvance(e, amount) ==
    /\ expenses[e] = None /\ Unused(e)
    /\ expenses' = [expenses EXCEPT ![e] =
           [amount |-> amount, item |-> NoItem, source |-> "advance"]]
    /\ UNCHANGED <<journal, debits, billed, purchases, actual, costing, misread, outdated>>

\* Reads the invoices under a lock, past the snapshot.
Editable(e) == expenses[e] # None /\ billed[e] # "paid"

\* Mutant: the correction is posted on top of the first entry.
CorrectionOnly(e, amount, entries) == <<Entry(e, "posted", amount)>>
Correction(e, amount, entries) ==
    <<Entry(e, "reversal", -Current(e, entries).lines), Entry(e, "posted", amount)>>

\* A new amount needs the entry it corrects; a new item alone does not.
Update(e, amount, item, view) ==
    LET old == expenses[e]
        new == [old EXCEPT !.amount = amount, !.item = item] IN
    /\ Editable(e)
    /\ Len(journal) + 1 < MaxEntries
    /\ amount # old.amount =>
           EntriesOf(e, view.journal) # {} /\ Current(e, view.journal).kind # "reversal"
    /\ expenses' = [expenses EXCEPT ![e] = new]
    /\ debits' = [debits EXCEPT ![e] = IF @ # 0 THEN amount ELSE 0]
    /\ journal' = IF amount = old.amount THEN journal
                  ELSE journal \o Correction(e, amount, view.journal)
    /\ actual' = Recalculated2(old.item, item, [view.expenses EXCEPT ![e] = new],
                               view.purchases)
    /\ SummedFrom(view, old.item, item)
    /\ misread' = IF amount # old.amount /\ view.journal # journal
                  THEN misread \cup {e} ELSE misread
    /\ UNCHANGED <<billed, purchases>>

Delete(e, view) ==
    LET item == expenses[e].item
        booked == EntriesOf(e, view.journal) # {} /\ Current(e, view.journal).kind # "deletion" IN
    /\ Editable(e)
    /\ Len(journal) < MaxEntries
    /\ expenses' = [expenses EXCEPT ![e] = None]
    /\ journal' = IF booked
                  THEN Append(journal, Entry(e, "deletion", -Current(e, view.journal).lines))
                  ELSE journal
    /\ debits' = [debits EXCEPT ![e] = 0]
    /\ actual' = Recalculated2(item, item, [view.expenses EXCEPT ![e] = None],
                               view.purchases)
    /\ SummedFrom(view, item, item)
    /\ misread' = IF view.journal # journal THEN misread \cup {e} ELSE misread
    /\ UNCHANGED <<billed, purchases>>

\* Equipment purchases lock only the item.
SetPurchase(p, row, view) ==
    LET ItemOf(x) == IF x = None THEN NoItem ELSE x.item
        old == ItemOf(purchases[p])  new == ItemOf(row) IN
    /\ row # purchases[p]
    /\ purchases' = [purchases EXCEPT ![p] = row]
    /\ actual' = Recalculated2(old, new, view.expenses, [view.purchases EXCEPT ![p] = row])
    /\ SummedFrom(view, old, new)
    /\ UNCHANGED <<expenses, journal, debits, billed, misread>>

-----------------------------------------------------------------------------
\* The same, by a request nothing overlaps.
CreateExpense(e, amount, item) == Create(e, amount, item, View) /\ UNCHANGED costing
UpdateExpense(e, amount, item) == Update(e, amount, item, View) /\ UNCHANGED costing
DeleteExpense(e) == Delete(e, View) /\ UNCHANGED costing
CreatePurchase(p, amount, item) ==
    /\ purchases[p] = None
    /\ SetPurchase(p, [amount |-> amount, item |-> item], View) /\ UNCHANGED costing
UpdatePurchase(p, amount, item) ==
    /\ purchases[p] # None
    /\ SetPurchase(p, [amount |-> amount, item |-> item], View) /\ UNCHANGED costing
DeletePurchase(p) ==
    purchases[p] # None /\ SetPurchase(p, None, View) /\ UNCHANGED costing

\* And by one that has taken its snapshot before others committed.
TakeView(r) ==
    /\ costing[r] = NoView
    /\ costing' = [costing EXCEPT ![r] = View]
    /\ UNCHANGED <<expenses, journal, debits, billed, purchases, actual, misread, outdated>>
ReleaseView(r) == costing' = [costing EXCEPT ![r] = NoView]
OverlappingUpdate(r, e, amount, item) ==
    costing[r] # NoView /\ Update(e, amount, item, costing[r]) /\ ReleaseView(r)
OverlappingDelete(r, e) ==
    costing[r] # NoView /\ Delete(e, costing[r]) /\ ReleaseView(r)
OverlappingCreate(r, e, amount, item) ==
    costing[r] # NoView /\ Create(e, amount, item, costing[r]) /\ ReleaseView(r)
OverlappingPurchase(r, p, amount, item) ==
    /\ costing[r] # NoView /\ purchases[p] = None /\ costing[r].purchases[p] = None
    /\ SetPurchase(p, [amount |-> amount, item |-> item], costing[r]) /\ ReleaseView(r)

\* Invoices for the expenses of a project, and the payments they receive.
BillExpense(e) ==
    /\ expenses[e] # None /\ billed[e] = "no"
    /\ billed' = [billed EXCEPT ![e] = "open"]
    /\ UNCHANGED <<expenses, journal, debits, purchases, actual, costing, misread, outdated>>
PayBilled(e) ==
    /\ billed[e] = "open"
    /\ billed' = [billed EXCEPT ![e] = "paid"]
    /\ UNCHANGED <<expenses, journal, debits, purchases, actual, costing, misread, outdated>>

CostsNext ==
    \/ \E e \in Expense, amount \in Cost, item \in Item \cup {NoItem} :
           \/ CreateExpense(e, amount, item) \/ UpdateExpense(e, amount, item)
           \/ \E r \in Costing : \/ OverlappingUpdate(r, e, amount, item)
                                 \/ OverlappingCreate(r, e, amount, item)
    \/ \E e \in Expense, amount \in Cost : CreateAdvance(e, amount)
    \/ \E e \in Expense : DeleteExpense(e) \/ BillExpense(e) \/ PayBilled(e)
    \/ \E p \in Purchase, amount \in Cost, item \in Item \cup {NoItem} :
           \/ CreatePurchase(p, amount, item) \/ UpdatePurchase(p, amount, item)
           \/ \E r \in Costing : OverlappingPurchase(r, p, amount, item)
    \/ \E p \in Purchase : DeletePurchase(p)
    \/ \E r \in Costing : TakeView(r) \/ \E e \in Expense : OverlappingDelete(r, e)
CostsSpec == CostsInit /\ [][CostsNext]_costVars

-----------------------------------------------------------------------------
CostsTypeOK ==
    /\ expenses \in [Expense -> ExpenseRow \cup {None}]
    /\ journal \in Seq(JournalEntry)
    /\ debits \in [Expense -> Nat]
    /\ billed \in [Expense -> {"no", "open", "paid"}]
    /\ purchases \in [Purchase -> PurchaseRow \cup {None}]
    /\ actual \in [Item -> Int]
    /\ misread \in SUBSET Expense /\ outdated \in SUBSET Item

Booked(e) ==
    TotalOf([i \in {j \in DOMAIN journal : journal[j].of = e} |-> journal[i].lines])
Owed(e) == IF expenses[e] # None /\ expenses[e].source = "entered"
           THEN expenses[e].amount ELSE 0

\* What the ledger of expenses, their summary and the comparison with the bill of
\* quantities show.
LedgerBalance == TotalOf([i \in DOMAIN journal |-> journal[i].lines])
TotalExpense == TotalOf([e \in Rows(expenses) |-> expenses[e].amount])
Comparison == [b \in Item |-> actual[b]]

\* The entries of an expense add up to its amount, corrected or not, and to nothing
\* once it is deleted; the owner is debited the same.  Comment "Identify CURRENT
\* active JournalEntry", expense.py:356.  So where no id begins with another and no
\* entry is taken for another's; the ledger then shows the total less the advances nobody booked.
Alone(e) == \A f \in Expense : <<e, f>> \in Prefix \/ <<f, e>> \in Prefix => f = e
ExpenseIsBookedAlone ==
    /\ \A e \in Expense \ misread :
           Alone(e) => Booked(e) = Owed(e) /\ debits[e] = Owed(e)
    /\ misread = {} /\ (\A e \in Expense : Alone(e)) =>
           LedgerBalance = TotalExpense
               - TotalOf([e \in {f \in Rows(expenses) : expenses[f].source = "advance"} |->
                              expenses[e].amount])

\* The actual cost of an item is what its sources add up to, whichever of them
\* changed last, unless that one did not see the others.
ActualCostAddsUp ==
    \A b \in Item \ outdated : Comparison[b] = ActualCost(b, expenses, purchases)
=============================================================================
