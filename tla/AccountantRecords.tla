-------------------------- MODULE AccountantRecords --------------------------
(***************************************************************************)
(* The records an accountant keeps beside the ledger                        *)
(* (app/api/accountant.py): lines of bank statements and the entries they   *)
(* are matched with, receipts and their reversals, deductions of TDS, fixed *)
(* assets, GST returns.                                                     *)
(*                                                                         *)
(* Each handler looks for what must not be there twice and then writes, and *)
(* none takes a lock: one that overlaps others decides on the rows it read. *)
(*                                                                         *)
(* All lines and entries have the same amount, which a match by hand would  *)
(* refuse otherwise.  Left out: deductions of RA bills, which go the way of *)
(* those of vendor bills; the amounts of a GST return, which stay as they   *)
(* were when it was made.                                                   *)
(***************************************************************************)
EXTENDS Integers, FiniteSets

CONSTANTS
    StatementLine,   \* bank_transactions
    LineKey,         \* date, amount and reference of a line
    BankEntry,       \* journal entries with a line on the bank's account
    NoEntry,
    NearTo,          \* the entries dated within three days of a line
    Receipt, Deduction, DeductedBill, Asset, Return,
    Recording,       \* slots of requests that overlap others
    MaxRecorded      \* bound: the requests that are handled

ASSUME RecordsAssumption ==
    NoEntry \notin BankEntry /\ MaxRecorded \in Nat
    /\ NearTo \subseteq StatementLine \X BankEntry

VARIABLES
    statement,       \* bank_transactions
    onBank,          \* the entries there are
    receipts,        \* transactions of type receipt, and their reversals
    deductions,      \* tds_deductions
    assets,          \* fixed_assets: how often current_value has been reduced
    returns,         \* gst_returns
    recording,       \* the view an overlapping request has taken
    byHand,          \* history: entries someone matched with a line himself
    depreciated,     \* history: depreciations of each asset
    overlapped,      \* history: rows written on an old view
    recorded         \* requests handled so far

recordVars == <<statement, onBank, receipts, deductions, assets, returns, recording,
                byHand, depreciated, overlapped, recorded>>

Missing == [status |-> "none"]
LineRow == [key : LineKey, imported : BOOLEAN, entry : BankEntry \cup {NoEntry}]
DeductionRow == [bill : DeductedBill, status : {"Draft", "PENDING", "Posted"}]

View2 == [statement |-> statement, onBank |-> onBank, receipts |-> receipts,
          deductions |-> deductions, assets |-> assets]
NoView2 == [statement |-> Missing]

RecordsInit ==
    /\ statement = [s \in StatementLine |-> Missing]
    /\ onBank = {}
    /\ receipts = [r \in Receipt |-> [made |-> FALSE, reversals |-> 0]]
    /\ deductions = [t \in Deduction |-> Missing]
    /\ assets = [a \in Asset |-> -1]
    /\ returns = [g \in Return |-> "none"]
    /\ recording = [r \in Recording |-> NoView2]
    /\ byHand = {}
    /\ depreciated = [a \in Asset |-> 0]
    /\ overlapped = {}
    /\ recorded = 0

Handled == recorded < MaxRecorded /\ recorded' = recorded + 1
Note(old, rows) == overlapped' = IF old THEN overlapped \cup rows ELSE overlapped

-----------------------------------------------------------------------------
\* Statement lines.
LinesIn(table) == {s \in StatementLine : table[s] # Missing}
Fresh(key, view) == \A s \in LinesIn(view.statement) : view.statement[s].key # key
AddStatementLine(s, key, imported) ==
    /\ statement[s] = Missing
    /\ statement' = [statement EXCEPT ![s] =
           [key |-> key, imported |-> imported, entry |-> NoEntry]]
ImportBankTransactions(s, key, view) ==
    /\ Fresh(key, view) /\ AddStatementLine(s, key, TRUE)
    /\ Note(~Fresh(key, View2), {key})
    /\ UNCHANGED <<onBank, receipts, deductions, assets, returns, byHand, depreciated>>
CreateBankTransaction(s, key) ==
    /\ AddStatementLine(s, key, FALSE)
    /\ UNCHANGED <<onBank, receipts, deductions, assets, returns, recording,
                   byHand, depreciated, overlapped>>

Open(view) == {s \in LinesIn(view.statement) : view.statement[s].entry = NoEntry}
MatchedIn(table) == {table[s].entry : s \in LinesIn(table)}
\* Mutant: entries that have a line already are offered again.
CandidatesAll(view) == view.onBank
Candidates(view) == view.onBank \ MatchedIn(view.statement)
\* Each open line takes a near entry that no line before it took.
Matchings(view) ==
    {m \in [Open(view) -> Candidates(view) \cup {NoEntry}] :
        /\ \A s, t \in Open(view) : m[s] = m[t] /\ s # t => m[s] = NoEntry
        /\ \A s \in Open(view) : m[s] # NoEntry => <<s, m[s]>> \in NearTo
        /\ \A s \in Open(view), e \in Candidates(view) :
            m[s] = NoEntry /\ <<s, e>> \in NearTo => \E t \in Open(view) : m[t] = e}
AutoRunReconciliation(m, view) ==
    /\ statement' = [s \in StatementLine |->
           IF s \in Open(view) /\ m[s] # NoEntry
           THEN [statement[s] EXCEPT !.entry = m[s]] ELSE statement[s]]
    /\ Note(view.statement # statement, {m[s] : s \in Open(view)} \ {NoEntry})
    /\ UNCHANGED <<onBank, receipts, deductions, assets, returns, byHand, depreciated>>
\* Neither the line nor the entry has to be open.
MatchBankTransaction(s, e) ==
    /\ statement[s] # Missing /\ e \in onBank
    /\ statement' = [statement EXCEPT ![s].entry = e]
    /\ byHand' = byHand \cup {e}
    /\ UNCHANGED <<onBank, receipts, deductions, assets, returns, recording,
                   depreciated, overlapped>>
EntryOnBank(e) ==
    /\ e \notin onBank
    /\ onBank' = onBank \cup {e}
    /\ UNCHANGED <<statement, receipts, deductions, assets, returns, recording,
                   byHand, depreciated, overlapped>>

-----------------------------------------------------------------------------
CreateReceipt(r) ==
    /\ ~receipts[r].made
    /\ receipts' = [receipts EXCEPT ![r].made = TRUE]
    /\ UNCHANGED <<statement, onBank, deductions, assets, returns, recording,
                   byHand, depreciated, overlapped>>
\* Mutant: a receipt can be reversed whenever it exists.
ReversibleAgain(r, view) == view.receipts[r].made
Reversible(r, view) == view.receipts[r].made /\ view.receipts[r].reversals = 0
ReverseReceipt(r, view) ==
    /\ Reversible(r, view)
    /\ receipts' = [receipts EXCEPT ![r].reversals = @ + 1]
    /\ Note(view.receipts # receipts, {r})
    /\ UNCHANGED <<statement, onBank, deductions, assets, returns, byHand, depreciated>>

Deducted(b, table) == \E t \in Deduction : table[t] # Missing /\ table[t].bill = b
CreateTDSDeduction(t, b, status, view) ==
    /\ deductions[t] = Missing /\ ~Deducted(b, view.deductions)
    /\ deductions' = [deductions EXCEPT ![t] = [bill |-> b, status |-> status]]
    /\ Note(Deducted(b, deductions), {b})
    /\ UNCHANGED <<statement, onBank, receipts, assets, returns, byHand, depreciated>>
\* A PENDING one of a vendor bill counts as made by the payment service.
Amendable(t) == deductions[t] # Missing /\ deductions[t].status = "Draft"
\* Mutant: the other deductions are not looked at.
MovableAny(t, b) == Amendable(t)
Movable(t, b) == Amendable(t) /\ (b = deductions[t].bill \/ ~Deducted(b, deductions))
UpdateTDSDeduction(t, b) ==
    /\ Movable(t, b)
    /\ deductions' = [deductions EXCEPT ![t].bill = b]
    /\ UNCHANGED <<statement, onBank, receipts, assets, returns, recording,
                   byHand, depreciated, overlapped>>
DeleteTDSDeduction(t) ==
    /\ Amendable(t)
    /\ deductions' = [deductions EXCEPT ![t] = Missing]
    /\ UNCHANGED <<statement, onBank, receipts, assets, returns, recording,
                   byHand, depreciated, overlapped>>

CreateAsset(a) ==
    /\ assets[a] = -1
    /\ assets' = [assets EXCEPT ![a] = 0]
    /\ UNCHANGED <<statement, onBank, receipts, deductions, returns, recording,
                   byHand, depreciated, overlapped>>
DepreciateAsset(a, view) ==
    /\ view.assets[a] >= 0
    /\ assets' = [assets EXCEPT ![a] = view.assets[a] + 1]
    /\ depreciated' = [depreciated EXCEPT ![a] = @ + 1]
    /\ Note(view.assets # assets, {a})
    /\ UNCHANGED <<statement, onBank, receipts, deductions, returns, byHand>>

CreateGSTReturn(g, status) ==
    /\ returns[g] = "none"
    /\ returns' = [returns EXCEPT ![g] = status]
    /\ UNCHANGED <<statement, onBank, receipts, deductions, assets, recording,
                   byHand, depreciated, overlapped>>
GenerateGSTReturn(g) == CreateGSTReturn(g, "Draft")
DeleteGSTReturn(g) ==
    /\ returns[g] = "Draft"
    /\ returns' = [returns EXCEPT ![g] = "none"]
    /\ UNCHANGED <<statement, onBank, receipts, deductions, assets, recording,
                   byHand, depreciated, overlapped>>

-----------------------------------------------------------------------------
\* What a request may do on the view it took.
Record(view) ==
    \/ \E s \in StatementLine, k \in LineKey : ImportBankTransactions(s, k, view)
    \/ \E m \in Matchings(view) : AutoRunReconciliation(m, view)
    \/ \E r \in Receipt : ReverseReceipt(r, view)
    \/ \E t \in Deduction, b \in DeductedBill, status \in {"Draft", "PENDING", "Posted"} :
        CreateTDSDeduction(t, b, status, view)
    \/ \E a \in Asset : DepreciateAsset(a, view)
BeginRecord(r) ==
    /\ recording[r] = NoView2
    /\ recording' = [recording EXCEPT ![r] = View2]
    /\ UNCHANGED <<statement, onBank, receipts, deductions, assets, returns,
                   byHand, depreciated, overlapped>>
CommitRecord(r) ==
    /\ recording[r] # NoView2
    /\ Record(recording[r])
    /\ recording' = [recording EXCEPT ![r] = NoView2]

RecordsNext ==
    /\ Handled
    /\ \/ Record(View2) /\ UNCHANGED recording
       \/ \E r \in Recording : BeginRecord(r) \/ CommitRecord(r)
       \/ \E s \in StatementLine :
           (\E k \in LineKey : CreateBankTransaction(s, k))
           \/ \E e \in BankEntry : MatchBankTransaction(s, e)
       \/ \E e \in BankEntry : EntryOnBank(e)
       \/ \E r \in Receipt : CreateReceipt(r)
       \/ \E t \in Deduction :
           DeleteTDSDeduction(t) \/ \E b \in DeductedBill : UpdateTDSDeduction(t, b)
       \/ \E a \in Asset : CreateAsset(a)
       \/ \E g \in Return :
           GenerateGSTReturn(g) \/ DeleteGSTReturn(g)
           \/ \E status \in {"Draft", "Filed"} : CreateGSTReturn(g, status)
RecordsSpec == RecordsInit /\ [][RecordsNext]_recordVars

RecordsTypeOK ==
    /\ \A s \in StatementLine : statement[s] = Missing \/ statement[s] \in LineRow
    /\ onBank \subseteq BankEntry /\ byHand \subseteq BankEntry
    /\ receipts \in [Receipt -> [made : BOOLEAN, reversals : Nat]]
    /\ \A t \in Deduction : deductions[t] = Missing \/ deductions[t] \in DeductionRow
    /\ assets \in [Asset -> Nat \cup {-1}] /\ depreciated \in [Asset -> Nat]
    /\ returns \in [Return -> {"none", "Draft", "Filed"}]

-----------------------------------------------------------------------------
\* Unless overlapping requests wrote them: an entry clears one statement line (an
\* accountant who matches by hand may let it clear more), a key is imported once,
\* a receipt is taken back once, a bill has one deduction, and every depreciation
\* of an asset reduces its value.
RecordedOnce ==
    /\ \A e \in BankEntry \ (byHand \cup overlapped) :
        Cardinality({s \in LinesIn(statement) : statement[s].entry = e}) <= 1
    /\ \A k \in LineKey \ overlapped :
        Cardinality({s \in LinesIn(statement) :
                        statement[s].key = k /\ statement[s].imported}) <= 1
    /\ \A r \in Receipt \ overlapped : receipts[r].reversals <= 1
    /\ \A b \in DeductedBill \ overlapped :
        Cardinality({t \in Deduction : deductions[t] # Missing /\ deductions[t].bill = b}) <= 1
    /\ \A a \in Asset \ overlapped : assets[a] \in {-1, depreciated[a]}
=============================================================================
