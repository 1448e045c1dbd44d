--------------------------- MODULE MaterialStock ---------------------------
(***************************************************************************)
(* The stock of one material of one supplier on every project               *)
(* (app/api/material.py): materials has a unique row per project, master    *)
(* and supplier.  Every change of stock writes the same line to             *)
(* material_transactions and material_ledger; txns is both.                 *)
(*                                                                         *)
(* Usage and the completion of a transfer lock the row and read it afresh:  *)
(* one step.  Purchase, adjustment and update load the row first; the       *)
(* locked SELECT that follows does not refresh it, so they are two steps    *)
(* and decide on what Begin... saw, except that the WHERE of the locked     *)
(* SELECT finds no row that was deleted meanwhile.  A reversal locks the    *)
(* row but adds up earlier reversals in its snapshot.                       *)
(*                                                                         *)
(* Left out: rates and payments; the actuals of the bill of quantities; an  *)
(* update that moves the row to another master or supplier; a request with  *)
(* an idempotency key that is in the table already, which is answered from  *)
(* its row and changes nothing.  The project of a line is that of the row   *)
(* its material_id names (purchase stores the client's project_id as well,  *)
(* unchecked).                                                              *)
(***************************************************************************)
EXTENDS Integers, Sequences, FiniteSets, Sums

CONSTANTS
    Project,     \* projects, each with at most one row of the material
    Transfer,    \* material_transfers rows that may be created
    NoTransfer,
    Request,     \* request slots: how many two-step handlers run at once
    Serves,      \* bound: the two-step handlers each slot runs
    Opening,     \* quantities a material is created with
    Quantity,    \* quantities a client enters later
    Count,       \* what an adjustment may find in the store
    MaxTxn       \* bound: lines of material_transactions

ASSUME TransferAssumption == NoTransfer \notin Transfer
ASSUME ServesAssumption ==
    Serves \in [Request -> SUBSET {"purchase", "adjust", "update", "reverse"}]
ASSUME OpeningAssumption  == Opening \subseteq Nat
ASSUME QuantityAssumption == Quantity \subseteq Nat \ {0}
ASSUME CountAssumption    == Count \subseteq Nat
ASSUME MaxTxnAssumption   == MaxTxn \in Nat

VARIABLES
    materials,   \* materials, by project
    transfers,   \* material_transfers
    txns,        \* material_transactions and material_ledger, in id order
    requests,    \* the two-step handlers in progress and what they have read
    stale        \* history: projects whose row was written from outdated reads

vars == <<materials, transfers, txns, requests, stale>>

-----------------------------------------------------------------------------
(* Rows.                                                                    *)

MaterialRow == [status : {"absent", "live", "deleted"},
                purchased : Nat, used : Nat, remaining : Nat]
TransferRow == [status : {"PENDING", "COMPLETED", "CANCELLED"},
                from : Project, to : Project, quantity : Nat]
Unrequested == [status |-> "ABSENT"]
TxnType     == {"PURCHASE", "USAGE", "ADJUSTMENT", "TRANSFER_OUT", "TRANSFER_IN"}
TxnRow      == [type : TxnType, project : Project, quantity : Int,
                reverses : Nat, transfer : Transfer \cup {NoTransfer}]

Live(p) == materials[p].status = "live"

\* max(a - b, 0).
Remainder(a, b) == IF b >= a THEN 0 ELSE a - b

\* update_material_fields.
\* Mutant: a stock that was used beyond what was purchased is not cut off at 0.
RefreshedRaw(row) == [row EXCEPT !.remaining = row.purchased - row.used]
Refreshed(row)    == [row EXCEPT !.remaining = Remainder(row.purchased, row.used)]

Opened(quantity) == [status |-> "live", purchased |-> quantity, used |-> 0, remaining |-> quantity]
Bought(row, quantity) == Refreshed([row EXCEPT !.purchased = row.purchased + quantity])
Taken(row, quantity)  == [row EXCEPT !.used = row.used + quantity]
Returned(row, quantity) == Refreshed([row EXCEPT !.used = row.used - quantity])

\* UPDATE names the attributes the handler changed; the rest keeps its value.
Flushed(row, seen, new) ==
    [a \in DOMAIN row |-> IF new[a] # seen[a] THEN new[a] ELSE row[a]]

Line(type, p, quantity) ==
    [type |-> type, project |-> p, quantity |-> quantity,
     reverses |-> 0, transfer |-> NoTransfer]
TransferLine(type, p, quantity, f) == [Line(type, p, quantity) EXCEPT !.transfer = f]
ReversalLine(p, quantity, t)       == [Line("USAGE", p, quantity) EXCEPT !.reverses = t]

\* What the lines of a project, and the reversals of a line, add up to.
InLedger(p) ==
    TotalOf([i \in DOMAIN txns |-> IF txns[i].project = p THEN txns[i].quantity ELSE 0])
Reversed(t) ==
    TotalOf([i \in DOMAIN txns |-> IF txns[i].reverses = t THEN txns[i].quantity ELSE 0])

-----------------------------------------------------------------------------
Idle == [op |-> "idle"]
Free(r) == requests[r] = Idle
Start(r, request) == requests' = [requests EXCEPT ![r] = request]
Done(r) == requests' = [requests EXCEPT ![r] = Idle]
Record(lines) ==
    /\ Len(txns) + Len(lines) <= MaxTxn
    /\ txns' = txns \o lines

Init ==
    /\ materials = [p \in Project |-> [Opened(0) EXCEPT !.status = "absent"]]
    /\ transfers = [f \in Transfer |-> Unrequested]
    /\ txns = <<>>
    /\ requests = [r \in Request |-> Idle]
    /\ stale = {}

\* The unique key of the table counts deleted rows, so a deleted material is
\* never created again.
CreateMaterial(p, quantity) ==
    /\ materials[p].status = "absent"
    /\ materials' = [materials EXCEPT ![p] = Opened(quantity)]
    /\ IF quantity > 0 THEN Record(<<Line("PURCHASE", p, quantity)>>) ELSE UNCHANGED txns
    /\ UNCHANGED <<transfers, requests, stale>>

DeleteMaterial(p) ==
    /\ Live(p)
    /\ materials' = [materials EXCEPT ![p].status = "deleted"]
    /\ UNCHANGED <<transfers, txns, requests, stale>>

\* What is left is what was left before, not purchased less used: a count may
\* have found more than that.
UsedUp(row, quantity) ==
    [Taken(row, quantity) EXCEPT !.remaining = Remainder(row.remaining, quantity)]
\* Mutant: the stock is not checked.
SufficesAlways(row, quantity) == row.remaining >= 0 /\ quantity > 0
Suffices(row, quantity)       == row.remaining >= quantity
Usage(p, quantity) ==
    /\ Live(p)
    /\ Suffices(materials[p], quantity)
    /\ materials' = [materials EXCEPT ![p] = UsedUp(@, quantity)]
    /\ Record(<<Line("USAGE", p, -quantity)>>)
    /\ UNCHANGED <<transfers, requests, stale>>

-----------------------------------------------------------------------------
(* Transfers between projects.                                              *)

\* The check is repeated when the transfer is completed.
CreateTransfer(f, from, to, quantity) ==
    /\ transfers[f] = Unrequested
    /\ from # to
    /\ Live(from) /\ Suffices(materials[from], quantity)
    /\ transfers' = [transfers EXCEPT ![f] =
           [status |-> "PENDING", from |-> from, to |-> to, quantity |-> quantity]]
    /\ UNCHANGED <<materials, txns, requests, stale>>

\* Mutant: a transfer that was cancelled or completed is open for a decision.
UndecidedOnce(transfer) == transfer.status # "ABSENT"
Undecided(transfer)     == transfer.status = "PENDING"

TransferLines(f, row) == <<TransferLine("TRANSFER_OUT", row.from, -row.quantity, f),
                           TransferLine("TRANSFER_IN", row.to, row.quantity, f)>>

\* A destination without a row gets one; one that was deleted is in the way of
\* the unique key, and the transfer fails.
Received(row, quantity) == IF row.status = "live" THEN Bought(row, quantity) ELSE Opened(quantity)
CompleteTransfer(f) ==
    LET row == transfers[f] IN
    /\ Undecided(row)
    /\ Live(row.from) /\ Suffices(materials[row.from], row.quantity)
    /\ materials[row.to].status # "deleted"
    /\ materials' = [materials EXCEPT
           ![row.from] = Refreshed(Taken(materials[row.from], row.quantity)),
           ![row.to] = Received(materials[row.to], row.quantity)]
    /\ transfers' = [transfers EXCEPT ![f].status = "COMPLETED"]
    /\ Record(TransferLines(f, row))
    /\ UNCHANGED <<requests, stale>>

CancelTransfer(f) ==
    /\ Undecided(transfers[f])
    /\ transfers' = [transfers EXCEPT ![f].status = "CANCELLED"]
    /\ UNCHANGED <<materials, txns, requests, stale>>

-----------------------------------------------------------------------------
(* Purchase, adjustment and update decide on the row they loaded first.     *)

BeginOnMaterial(r, op, p) ==
    /\ Free(r) /\ op \in Serves[r]
    /\ Live(p)
    /\ Start(r, [op |-> op, project |-> p, seen |-> materials[p]])
    /\ UNCHANGED <<materials, transfers, txns, stale>>

\* The locked SELECT finds the row of the request.
\* Mutant: it finds a deleted one, too.
FoundAny(p) == materials[p].status # "absent"
Found(p)    == Live(p)

\* The row the handler has changed is written over what is there now.
Write(r, new) ==
    LET q == requests[r] IN
    /\ materials' = [materials EXCEPT ![q.project] = Flushed(@, q.seen, new)]
    /\ stale' = IF materials[q.project] # q.seen THEN stale \cup {q.project} ELSE stale
    /\ Done(r)
    /\ UNCHANGED transfers

CommitPurchase(r, quantity) ==
    LET q == requests[r] IN
    /\ q.op = "purchase"
    /\ Found(q.project)
    /\ Write(r, Bought(q.seen, quantity))
    /\ Record(<<Line("PURCHASE", q.project, quantity)>>)

\* Stock that is missing counts as used; stock that was found is in remaining only.
Counted(row, count) ==
    [Taken(row, Remainder(row.remaining, count)) EXCEPT !.remaining = count]
CommitAdjust(r, count) ==
    LET q == requests[r] IN
    /\ q.op = "adjust"
    /\ Found(q.project)
    /\ count # q.seen.remaining
    /\ Write(r, Counted(q.seen, count))
    /\ Record(<<Line("ADJUSTMENT", q.project, count - q.seen.remaining)>>)

\* Whatever else it changes, update_material recomputes remaining.
CommitUpdate(r) ==
    LET q == requests[r] IN
    /\ q.op = "update"
    /\ Found(q.project)
    /\ Write(r, Refreshed(q.seen))
    /\ UNCHANGED txns

-----------------------------------------------------------------------------
(* Reversal of a usage.                                                     *)

IsUsage(t) == txns[t].type = "USAGE" /\ txns[t].quantity < 0
BeginReverse(r, t) ==
    /\ Free(r) /\ "reverse" \in Serves[r]
    /\ IsUsage(t)
    /\ Start(r, [op |-> "reverse", txn |-> t, reversed |-> Reversed(t)])
    /\ UNCHANGED <<materials, transfers, txns, stale>>

\* Mutant: what was reversed before is not counted.
ReversibleAgain(t, reversed, quantity) == quantity <= -txns[t].quantity /\ reversed >= 0
Reversible(t, reversed, quantity)      == quantity <= -txns[t].quantity - reversed
CommitReverse(r, quantity) ==
    LET q == requests[r]
        p == txns[q.txn].project
    IN
    /\ q.op = "reverse"
    /\ Live(p)
    /\ Reversible(q.txn, q.reversed, quantity)
    /\ materials[p].used >= quantity
    /\ materials' = [materials EXCEPT ![p] = Returned(materials[p], quantity)]
    /\ Record(<<ReversalLine(p, quantity, q.txn)>>)
    /\ stale' = IF Reversed(q.txn) # q.reversed THEN stale \cup {p} ELSE stale
    /\ Done(r)
    /\ UNCHANGED transfers

\* A handler that refuses the request or is killed is rolled back.
Abort(r) ==
    /\ ~Free(r)
    /\ Done(r)
    /\ UNCHANGED <<materials, transfers, txns, stale>>

-----------------------------------------------------------------------------
MaterialStep(p) ==
    \/ \E quantity \in Opening : CreateMaterial(p, quantity)
    \/ DeleteMaterial(p)
    \/ \E quantity \in Quantity : Usage(p, quantity)

TransferStep(f) ==
    \/ \E from, to \in Project, quantity \in Quantity : CreateTransfer(f, from, to, quantity)
    \/ CompleteTransfer(f)
    \/ CancelTransfer(f)

Begin(r) ==
    \/ \E p \in Project, op \in {"purchase", "adjust", "update"} : BeginOnMaterial(r, op, p)
    \/ \E t \in 1..Len(txns) : BeginReverse(r, t)

Commit(r) ==
    \/ \E quantity \in Quantity : CommitPurchase(r, quantity) \/ CommitReverse(r, quantity)
    \/ \E count \in Count : CommitAdjust(r, count)
    \/ CommitUpdate(r)

Next ==
    \/ \E p \in Project : MaterialStep(p)
    \/ \E f \in Transfer : TransferStep(f)
    \/ \E r \in Request : Begin(r) \/ Commit(r) \/ Abort(r)

Spec == Init /\ [][Next]_vars

-----------------------------------------------------------------------------
(* Correctness.                                                             *)

Lines(f) == {t \in 1..Len(txns) : txns[t].transfer = f}

\* The columns' values and what each request has read.
TypeOK ==
    /\ materials \in [Project -> MaterialRow]
    /\ transfers \in [Transfer -> TransferRow \cup {Unrequested}]
    /\ txns \in Seq(TxnRow)
    /\ requests \in [Request ->
           {Idle}
           \cup [op : {"purchase", "adjust", "update"}, project : Project, seen : MaterialRow]
           \cup [op : {"reverse"}, txn : Nat \ {0}, reversed : Int]]
    /\ stale \subseteq Project

\* What is on stock is what was purchased less what was used, and what the ledger
\* adds up to, through usages, reversals, transfers and shortages; a count that
\* found more, and a row written from an outdated read, are the exceptions
\* (purchase, usage, adjust_inventory, update_transfer_status).
FoundMore(p) ==
    \E t \in 1..Len(txns) :
        txns[t].project = p /\ txns[t].type = "ADJUSTMENT" /\ txns[t].quantity > 0
StockMatchesLedger ==
    \A p \in Project \ stale :
        ~FoundMore(p) =>
            /\ materials[p].remaining = materials[p].purchased - materials[p].used
            /\ materials[p].remaining = InLedger(p)

\* No more of a usage comes back than was taken, in however many reversals,
\* unless two of them overlapped (reverse_usage).
ReversedAtMostTaken ==
    \A t \in 1..Len(txns) :
        IsUsage(t) /\ txns[t].project \notin stale => Reversed(t) <= -txns[t].quantity

\* The stock, the ledger and the usages taken back add up (app/api/material.py).
StockAddsUp == StockMatchesLedger /\ ReversedAtMostTaken

\* The stock is what the ledger adds up to, also after a count that found more.
\* Test: "Usage respects authoritative remaining_stock and does not overwrite it
\* with purchased - used", tests/api/test_materials_audit_fixes.py:846.
EveryLineMovesStock ==
    \A p \in Project \ stale : Live(p) => materials[p].remaining = InLedger(p)

\* A transfer moves its quantity once, out of one project and into the other,
\* exactly when it is COMPLETED, whatever members of staff decide on it at once
\* (update_transfer_status).
TransferMovesOnce ==
    \A f \in Transfer :
        IF transfers[f].status = "COMPLETED"
        THEN \E out, in \in 1..Len(txns) :
                /\ Lines(f) = {out, in}
                /\ out # in
                /\ txns[out] = TransferLine("TRANSFER_OUT", transfers[f].from, -transfers[f].quantity, f)
                /\ txns[in] = TransferLine("TRANSFER_IN", transfers[f].to, transfers[f].quantity, f)
        ELSE Lines(f) = {}

\* A deleted material keeps its quantities, and nothing is booked for it any
\* more, though a request that found it live may still be under way.
DeletedIsFrozen ==
    [][ \A p \in Project : materials[p].status = "deleted" =>
          /\ materials'[p] = materials[p]
          /\ \A t \in 1..Len(txns') : t > Len(txns) => txns'[t].project # p ]_vars
=============================================================================
