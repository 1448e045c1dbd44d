---------------------------- MODULE Site_proofs -----------------------------
(***************************************************************************)
(* What holds of the components of a construction site for any number of     *)
(* rows, requests and users: each component's inductive invariant is proved  *)
(* of its own steps, and the behaviours of MCSite, which show one component  *)
(* at a time, inherit it.                                                    *)
(***************************************************************************)
EXTENDS MCSite, FiniteSetTheorems, SequenceTheorems, TLAPS

-----------------------------------------------------------------------------
\* TypeOK without the sum of a reversal's earlier reversals, and with the line it reverses.
OnMaterial == [op : {"purchase", "adjust", "update"}, project : Project, seen : MaterialRow]
RequestTyped(q) ==
    \/ q = Idle
    \/ q \in OnMaterial
    \/ q.op = "reverse" /\ q.txn \in 1..Len(txns)
Typed ==
    /\ materials \in [Project -> MaterialRow]
    /\ transfers \in [Transfer -> TransferRow \cup {Unrequested}]
    /\ txns \in Seq(TxnRow)
    /\ DOMAIN requests = Request
    /\ \A r \in Request : RequestTyped(requests[r])

Inv == Typed /\ TransferMovesOnce

-----------------------------------------------------------------------------
(* The operators the actions are built from.                                *)

LEMMA RemainderNat ==
    ASSUME NEW a \in Nat, NEW b \in Nat
    PROVE  Remainder(a, b) \in Nat
BY DEF Remainder

LEMMA RefreshedTyped ==
    ASSUME NEW row \in MaterialRow
    PROVE  Refreshed(row) \in MaterialRow /\ Refreshed(row).status = row.status
<1>1. Remainder(row.purchased, row.used) \in Nat
      BY RemainderNat DEF MaterialRow
<1> QED BY <1>1 DEF Refreshed, MaterialRow

LEMMA TakenTyped ==
    ASSUME NEW row \in MaterialRow, NEW quantity \in Nat
    PROVE  Taken(row, quantity) \in MaterialRow /\ Taken(row, quantity).status = row.status
BY DEF Taken, MaterialRow

LEMMA BoughtTyped ==
    ASSUME NEW row \in MaterialRow, NEW quantity \in Nat
    PROVE  Bought(row, quantity) \in MaterialRow /\ Bought(row, quantity).status = row.status
<1>1. [row EXCEPT !.purchased = row.purchased + quantity] \in MaterialRow
      BY DEF MaterialRow
<1>2. [row EXCEPT !.purchased = row.purchased + quantity].status = row.status
      BY DEF MaterialRow
<1> QED BY <1>1, <1>2, RefreshedTyped DEF Bought

LEMMA OpenedTyped ==
    ASSUME NEW quantity \in Nat
    PROVE  Opened(quantity) \in MaterialRow
BY DEF Opened, MaterialRow

LEMMA FlushedTyped ==
    ASSUME NEW row \in MaterialRow, NEW seen \in MaterialRow, NEW new \in MaterialRow
    PROVE  Flushed(row, seen, new) \in MaterialRow
BY DEF Flushed, MaterialRow

\* Record appends, and leaves the lines that are there alone.
LEMMA RecordAppends ==
    ASSUME txns \in Seq(TxnRow), NEW lines \in Seq(TxnRow), Record(lines)
    PROVE  /\ txns' \in Seq(TxnRow)
           /\ Len(txns') = Len(txns) + Len(lines)
           /\ \A t \in 1..Len(txns) : txns'[t] = txns[t]
           /\ \A t \in 1..Len(lines) : txns'[Len(txns) + t] = lines[t]
BY DEF Record

\* The steps that record one line, l.
Records(l) ==
    /\ txns' \in Seq(TxnRow)
    /\ Len(txns') = Len(txns) + 1
    /\ \A t \in 1..Len(txns) : txns'[t] = txns[t]
    /\ txns'[Len(txns) + 1] = l
LEMMA RecordOne ==
    ASSUME txns \in Seq(TxnRow), NEW l \in TxnRow, Record(<<l>>)
    PROVE  Records(l)
<1>1. <<l>> \in Seq(TxnRow) /\ Len(<<l>>) = 1 /\ <<l>>[1] = l
      OBVIOUS
<1> DEFINE lines == <<l>>
<1>2. /\ txns' \in Seq(TxnRow)
      /\ Len(txns') = Len(txns) + Len(lines)
      /\ \A t \in 1..Len(txns) : txns'[t] = txns[t]
      /\ \A t \in 1..Len(lines) : txns'[Len(txns) + t] = lines[t]
      <2> HIDE DEF lines
      <2> QED BY <1>1, RecordAppends DEF lines
<1>3. txns'[Len(txns) + 1] = l
      BY <1>1, <1>2
<1> QED BY <1>1, <1>2, <1>3 DEF Records

\* Every request still reads what it reads when the ledger only grows.
LEMMA RequestsKept ==
    ASSUME Typed, requests' = requests, txns' \in Seq(TxnRow), Len(txns') >= Len(txns)
    PROVE  DOMAIN requests' = Request /\ \A r \in Request : RequestTyped(requests[r])'
<1>1. Len(txns) \in Nat /\ Len(txns') \in Nat
      BY DEF Typed
<1> QED BY <1>1 DEF Typed, RequestTyped

LEMMA RequestDone ==
    ASSUME Typed, NEW r \in Request, Done(r), txns' \in Seq(TxnRow), Len(txns') >= Len(txns)
    PROVE  DOMAIN requests' = Request /\ \A s \in Request : RequestTyped(requests[s])'
<1>1. Len(txns) \in Nat /\ Len(txns') \in Nat
      BY DEF Typed
<1>2. \A s \in Request : requests'[s] = IF s = r THEN Idle ELSE requests[s]
      BY DEF Done, Typed
<1> QED BY <1>1, <1>2 DEF Typed, RequestTyped, Done

\* Lines of no transfer, in a step that leaves the transfers alone.
LEMMA KeepsMoves ==
    ASSUME TransferMovesOnce, transfers' = transfers,
           txns \in Seq(TxnRow), txns' \in Seq(TxnRow), Len(txns') >= Len(txns),
           \A t \in 1..Len(txns) : txns'[t] = txns[t],
           \A t \in 1..Len(txns') : t > Len(txns) => txns'[t].transfer \notin Transfer
    PROVE  TransferMovesOnce'
<1>1. Len(txns) \in Nat /\ Len(txns') \in Nat
      OBVIOUS
<1>2. 1..Len(txns) \subseteq 1..Len(txns')
      BY <1>1
<1> SUFFICES ASSUME NEW f \in Transfer
             PROVE  IF transfers[f].status = "COMPLETED"
                    THEN \E out, in \in 1..Len(txns') :
                            /\ Lines(f)' = {out, in}
                            /\ out # in
                            /\ txns'[out] = TransferLine("TRANSFER_OUT", transfers[f].from, -transfers[f].quantity, f)
                            /\ txns'[in] = TransferLine("TRANSFER_IN", transfers[f].to, transfers[f].quantity, f)
                    ELSE Lines(f)' = {}
    BY DEF TransferMovesOnce
<1>3. Lines(f)' = Lines(f)
      BY <1>1, <1>2 DEF Lines
<1> QED BY <1>2, <1>3 DEF TransferMovesOnce

LEMMA OneLineKeepsMoves ==
    ASSUME Inv, transfers' = transfers, NEW l, Records(l), l.transfer = NoTransfer
    PROVE  TransferMovesOnce'
<1>1. Len(txns) \in Nat
      BY DEF Inv, Typed
<1>2. \A t \in 1..Len(txns') : t > Len(txns) => t = Len(txns) + 1
      BY <1>1 DEF Records
<1> QED BY <1>1, <1>2, KeepsMoves, TransferAssumption DEF Inv, Typed, Records

LEMMA NoLineKeepsMoves ==
    ASSUME Inv, transfers' = transfers, txns' = txns
    PROVE  TransferMovesOnce'
BY DEF Inv, TransferMovesOnce, Lines

LEMMA LineTyped ==
    ASSUME NEW type \in TxnType, NEW p \in Project, NEW quantity \in Int
    PROVE  Line(type, p, quantity) \in TxnRow /\ Line(type, p, quantity).transfer = NoTransfer
BY DEF Line, TxnRow

-----------------------------------------------------------------------------
(* Init and the steps of one request.                                       *)

LEMMA InitInv == Init => Inv
<1> SUFFICES ASSUME Init PROVE Inv
    OBVIOUS
<1>1. \A p \in Project : materials[p] \in MaterialRow
      BY DEF Init, Opened, MaterialRow
<1>2. Typed
      BY <1>1 DEF Init, Typed, RequestTyped
<1>3. \A f \in Transfer : transfers[f].status # "COMPLETED" /\ Lines(f) = {}
      BY DEF Init, Unrequested, Lines
<1> QED BY <1>2, <1>3 DEF Inv, TransferMovesOnce

\* A step that writes the row of one material and records one line of no transfer.
LEMMA OneLineStep ==
    ASSUME Inv, NEW p \in Project, NEW row \in MaterialRow, NEW l \in TxnRow,
           materials' = [materials EXCEPT ![p] = row], transfers' = transfers,
           Record(<<l>>), l.transfer = NoTransfer,
           requests' = requests \/ \E r \in Request : Done(r)
    PROVE  Inv' /\ Records(l)
<1>1. Records(l)
      BY RecordOne DEF Inv, Typed
<1>2. txns' \in Seq(TxnRow) /\ Len(txns') >= Len(txns)
      BY <1>1 DEF Records, Inv, Typed
<1>3. DOMAIN requests' = Request /\ \A r \in Request : RequestTyped(requests[r])'
      BY <1>2, RequestsKept, RequestDone DEF Inv
<1>4. Typed'
      BY <1>2, <1>3 DEF Inv, Typed
<1>5. TransferMovesOnce'
      BY <1>1, OneLineKeepsMoves
<1> QED BY <1>1, <1>4, <1>5 DEF Inv

\* A step that writes rows of materials and requests only.
LEMMA NoLineStep ==
    ASSUME Inv, materials' \in [Project -> MaterialRow], transfers' = transfers, txns' = txns,
           requests' = requests \/ \E r \in Request : Done(r)
    PROVE  Inv'
<1>1. txns' \in Seq(TxnRow) /\ Len(txns') >= Len(txns)
      BY DEF Inv, Typed
<1>2. DOMAIN requests' = Request /\ \A r \in Request : RequestTyped(requests[r])'
      BY <1>1, RequestsKept, RequestDone DEF Inv
<1>3. Typed'
      BY <1>1, <1>2 DEF Inv, Typed
<1> QED BY <1>3, NoLineKeepsMoves DEF Inv

\* What a deleted material keeps, as a property of one step.
Frozen ==
    \A p \in Project : materials[p].status = "deleted" =>
        /\ materials'[p] = materials[p]
        /\ \A t \in 1..Len(txns') : t > Len(txns) => txns'[t].project # p

LEMMA OneLineFrozen ==
    ASSUME Typed, NEW p \in Project, NEW row, NEW l, materials[p].status # "deleted",
           materials' = [materials EXCEPT ![p] = row], Records(l), l.project = p
    PROVE  Frozen
<1>1. Len(txns) \in Nat
      BY DEF Typed
<1>2. \A t \in 1..Len(txns') : t > Len(txns) => txns'[t].project = p
      BY <1>1 DEF Records
<1> QED BY <1>2 DEF Frozen, Typed

LEMMA NoLineFrozen ==
    ASSUME Typed, txns' = txns,
           \A p \in Project : materials[p].status = "deleted" => materials'[p] = materials[p]
    PROVE  Frozen
<1>1. Len(txns) \in Nat
      BY DEF Typed
<1> QED BY <1>1 DEF Frozen

-----------------------------------------------------------------------------
(* One lemma per action: it keeps the invariant and freezes what is deleted. *)

LEMMA StepCreate ==
    ASSUME Inv, NEW p \in Project, NEW quantity \in Opening, CreateMaterial(p, quantity)
    PROVE  Inv' /\ Frozen
<1>1. quantity \in Nat
      BY OpeningAssumption
<1>2. materials' = [materials EXCEPT ![p] = Opened(quantity)] /\ Opened(quantity) \in MaterialRow
      BY <1>1, OpenedTyped DEF CreateMaterial
<1>3. CASE quantity > 0
      <2> DEFINE l == Line("PURCHASE", p, quantity)
      <2>1. l \in TxnRow /\ l.transfer = NoTransfer /\ l.project = p
            BY <1>1, LineTyped DEF TxnType, Line
      <2>2. Record(<<l>>)
            BY <1>3 DEF CreateMaterial
      <2> HIDE DEF l
      <2>3. Inv' /\ Records(l)
            BY <1>2, <2>1, <2>2, OneLineStep DEF CreateMaterial
      <2> QED BY <1>2, <2>1, <2>3, OneLineFrozen DEF Inv, CreateMaterial
<1>4. CASE ~(quantity > 0)
      <2>1. txns' = txns
            BY <1>4 DEF CreateMaterial
      <2>2. materials' \in [Project -> MaterialRow]
            BY <1>2 DEF Inv, Typed
      <2> QED BY <1>2, <2>1, <2>2, NoLineStep, NoLineFrozen DEF Inv, Typed, CreateMaterial
<1> QED BY <1>3, <1>4

LEMMA StepDelete ==
    ASSUME Inv, NEW p \in Project, DeleteMaterial(p)
    PROVE  Inv' /\ Frozen
<1>1. materials' \in [Project -> MaterialRow]
      BY DEF Inv, Typed, MaterialRow, DeleteMaterial
<1>2. \A q \in Project : materials[q].status = "deleted" => materials'[q] = materials[q]
      BY DEF Inv, Typed, DeleteMaterial, Live
<1> QED BY <1>1, <1>2, NoLineStep, NoLineFrozen DEF Inv, DeleteMaterial

LEMMA StepUsage ==
    ASSUME Inv, NEW p \in Project, NEW quantity \in Quantity, Usage(p, quantity)
    PROVE  Inv' /\ Frozen
<1> DEFINE l == Line("USAGE", p, -quantity)
           row == UsedUp(materials[p], quantity)
<1>1. quantity \in Nat /\ materials[p] \in MaterialRow
      BY QuantityAssumption DEF Inv, Typed
<1>2. row \in MaterialRow
      <2>1. Taken(materials[p], quantity) \in MaterialRow
            BY <1>1, TakenTyped
      <2>2. Remainder(materials[p].remaining, quantity) \in Nat
            BY <1>1, RemainderNat DEF MaterialRow
      <2> QED BY <2>1, <2>2 DEF UsedUp, MaterialRow
<1>3. l \in TxnRow /\ l.transfer = NoTransfer /\ l.project = p
      BY <1>1, LineTyped DEF TxnType, Line
<1>4. materials' = [materials EXCEPT ![p] = row]
      BY DEF Usage
<1>5. Record(<<l>>) /\ materials[p].status # "deleted"
      BY DEF Usage, Live
<1> HIDE DEF l, row
<1>6. Inv' /\ Records(l)
      BY <1>2, <1>3, <1>4, <1>5, OneLineStep DEF Usage
<1> QED BY <1>3, <1>4, <1>5, <1>6, OneLineFrozen DEF Inv

\* Transfers: the row of one transfer changes, and it is COMPLETED neither before nor after.
LEMMA PendingKeepsMoves ==
    ASSUME Inv, NEW f \in Transfer, NEW row, transfers' = [transfers EXCEPT ![f] = row],
           transfers[f].status # "COMPLETED", row.status # "COMPLETED", txns' = txns
    PROVE  TransferMovesOnce'
<1>1. \A g \in Transfer : transfers'[g] = IF g = f THEN row ELSE transfers[g]
      BY DEF Inv, Typed
<1>2. \A g \in Transfer : Lines(g)' = Lines(g)
      BY DEF Lines
<1>3. Lines(f) = {}
      BY DEF Inv, TransferMovesOnce
<1> SUFFICES ASSUME NEW g \in Transfer
             PROVE  IF transfers'[g].status = "COMPLETED"
                    THEN \E out, in \in 1..Len(txns) :
                            /\ Lines(g) = {out, in}
                            /\ out # in
                            /\ txns[out] = TransferLine("TRANSFER_OUT", transfers'[g].from, -transfers'[g].quantity, g)
                            /\ txns[in] = TransferLine("TRANSFER_IN", transfers'[g].to, transfers'[g].quantity, g)
                    ELSE Lines(g) = {}
    BY <1>2 DEF TransferMovesOnce
<1>4. CASE g = f
      BY <1>1, <1>3, <1>4
<1>5. CASE g # f
      BY <1>1, <1>5 DEF Inv, TransferMovesOnce
<1> QED BY <1>4, <1>5

LEMMA TransferStepTyped ==
    ASSUME Inv, NEW f \in Transfer, NEW row \in TransferRow,
           transfers' = [transfers EXCEPT ![f] = row],
           materials' = materials, txns' = txns, requests' = requests
    PROVE  Typed' /\ Frozen
<1>1. txns' \in Seq(TxnRow) /\ Len(txns') >= Len(txns)
      BY DEF Inv, Typed
<1>2. DOMAIN requests' = Request /\ \A r \in Request : RequestTyped(requests[r])'
      BY <1>1, RequestsKept DEF Inv
<1>3. Typed'
      BY <1>1, <1>2 DEF Inv, Typed
<1>4. Frozen
      BY NoLineFrozen DEF Inv
<1> QED BY <1>3, <1>4

LEMMA StepCreateTransfer ==
    ASSUME Inv, NEW f \in Transfer, NEW from \in Project, NEW to \in Project,
           NEW quantity \in Quantity, CreateTransfer(f, from, to, quantity)
    PROVE  Inv' /\ Frozen
<1> DEFINE row == [status |-> "PENDING", from |-> from, to |-> to, quantity |-> quantity]
<1>1. row \in TransferRow /\ row.status # "COMPLETED"
      BY QuantityAssumption DEF TransferRow
<1>2. transfers' = [transfers EXCEPT ![f] = row] /\ transfers[f].status # "COMPLETED"
      BY DEF CreateTransfer, Unrequested
<1> HIDE DEF row
<1>3. Typed' /\ Frozen
      BY <1>1, <1>2, TransferStepTyped DEF CreateTransfer
<1>4. TransferMovesOnce'
      BY <1>1, <1>2, PendingKeepsMoves DEF CreateTransfer
<1> QED BY <1>3, <1>4 DEF Inv

LEMMA PendingRow ==
    ASSUME Typed, NEW f \in Transfer, Undecided(transfers[f])
    PROVE  transfers[f] \in TransferRow /\ transfers[f].status = "PENDING"
BY DEF Typed, Undecided, Unrequested

LEMMA StepCancelTransfer ==
    ASSUME Inv, NEW f \in Transfer, CancelTransfer(f)
    PROVE  Inv' /\ Frozen
<1> DEFINE row == [transfers[f] EXCEPT !.status = "CANCELLED"]
<1>1. transfers[f] \in TransferRow /\ transfers[f].status = "PENDING"
      BY PendingRow DEF Inv, CancelTransfer
<1>2. row \in TransferRow /\ row.status # "COMPLETED"
      BY <1>1 DEF TransferRow
<1>3. transfers' = [transfers EXCEPT ![f] = row]
      BY DEF CancelTransfer
<1> HIDE DEF row
<1>4. Typed' /\ Frozen
      BY <1>2, <1>3, TransferStepTyped DEF CancelTransfer
<1>5. TransferMovesOnce'
      BY <1>1, <1>2, <1>3, PendingKeepsMoves DEF CancelTransfer
<1> QED BY <1>4, <1>5 DEF Inv

\* The two lines of a transfer.
OutOf(f) == TransferLine("TRANSFER_OUT", transfers[f].from, -transfers[f].quantity, f)
Into(f)  == TransferLine("TRANSFER_IN", transfers[f].to, transfers[f].quantity, f)
LEMMA TransferRecords ==
    ASSUME Inv, NEW f \in Transfer, CompleteTransfer(f)
    PROVE  /\ transfers[f] \in TransferRow /\ transfers[f].status = "PENDING"
           /\ OutOf(f) \in TxnRow /\ Into(f) \in TxnRow
           /\ txns' \in Seq(TxnRow) /\ Len(txns') = Len(txns) + 2
           /\ \A t \in 1..Len(txns) : txns'[t] = txns[t]
           /\ txns'[Len(txns) + 1] = OutOf(f) /\ txns'[Len(txns) + 2] = Into(f)
<1> DEFINE lines == TransferLines(f, transfers[f])
<1>1. transfers[f] \in TransferRow /\ transfers[f].status = "PENDING"
      BY PendingRow DEF Inv, Typed, CompleteTransfer
<1>2. OutOf(f) \in TxnRow /\ Into(f) \in TxnRow
      BY <1>1 DEF OutOf, Into, TransferLine, Line, TransferRow, TxnRow, TxnType
<1>3. lines \in Seq(TxnRow) /\ Len(lines) = 2 /\ lines[1] = OutOf(f) /\ lines[2] = Into(f)
      BY <1>2 DEF TransferLines, OutOf, Into
<1>4. Record(lines)
      BY DEF CompleteTransfer
<1> HIDE DEF lines
<1>5. /\ txns' \in Seq(TxnRow) /\ Len(txns') = Len(txns) + Len(lines)
      /\ \A t \in 1..Len(txns) : txns'[t] = txns[t]
      /\ \A t \in 1..Len(lines) : txns'[Len(txns) + t] = lines[t]
      BY <1>3, <1>4, RecordAppends DEF Inv, Typed
<1> QED BY <1>1, <1>2, <1>3, <1>5

\* The completion of a transfer records its two lines, which no other has.
LEMMA StepCompleteTransfer ==
    ASSUME Inv, NEW f \in Transfer, CompleteTransfer(f)
    PROVE  Inv' /\ Frozen
<1> DEFINE row == transfers[f]
           done == [row EXCEPT !.status = "COMPLETED"]
           n == Len(txns)
           out == TransferLine("TRANSFER_OUT", row.from, -row.quantity, f)
           in == TransferLine("TRANSFER_IN", row.to, row.quantity, f)
           given == Refreshed(Taken(materials[row.from], row.quantity))
<1>1. row \in TransferRow /\ row.status = "PENDING" /\ n \in Nat
      BY PendingRow DEF Inv, Typed, CompleteTransfer
<1>2. row.from \in Project /\ row.to \in Project /\ row.quantity \in Nat
      BY <1>1 DEF TransferRow
<1>3. done \in TransferRow /\ done = [status |-> "COMPLETED", from |-> row.from,
                                      to |-> row.to, quantity |-> row.quantity]
      BY <1>1 DEF TransferRow
<1>4. /\ out \in TxnRow /\ out.transfer = f /\ out.project = row.from
      /\ in \in TxnRow /\ in.transfer = f /\ in.project = row.to
      BY <1>2 DEF TransferLine, Line, TxnRow, TxnType
<1>5. /\ txns' \in Seq(TxnRow) /\ Len(txns') = n + 2
      /\ \A t \in 1..n : txns'[t] = txns[t]
      /\ txns'[n + 1] = out /\ txns'[n + 2] = in
      BY TransferRecords DEF OutOf, Into
<1>6. materials' \in [Project -> MaterialRow]
      <2>1. given \in MaterialRow
            BY <1>2, TakenTyped, RefreshedTyped DEF Inv, Typed
      <2>2. \A m \in MaterialRow : Received(m, row.quantity) \in MaterialRow
            BY <1>2, BoughtTyped, OpenedTyped DEF Received
      <2> DEFINE gets == Received(materials[row.to], row.quantity)
      <2>3. materials' = [materials EXCEPT ![row.from] = given, ![row.to] = gets]
            BY DEF CompleteTransfer
      <2>4. gets \in MaterialRow
            BY <1>2, <2>2 DEF Inv, Typed
      <2> HIDE DEF given, gets
      <2> QED BY <1>2, <2>1, <2>3, <2>4 DEF Inv, Typed
<1>7. Typed'
      <2>1. DOMAIN requests' = Request /\ \A r \in Request : RequestTyped(requests[r])'
            BY <1>1, <1>5, RequestsKept DEF Inv, CompleteTransfer
      <2>2. transfers' = [transfers EXCEPT ![f] = done]
            BY DEF CompleteTransfer
      <2> QED BY <1>3, <1>5, <1>6, <2>1, <2>2 DEF Inv, Typed
<1>8. Frozen
      <2>1. materials[row.from].status # "deleted" /\ materials[row.to].status # "deleted"
            BY DEF CompleteTransfer, Live
      <2>2. \A p \in Project \ {row.from, row.to} : materials'[p] = materials[p]
            BY DEF CompleteTransfer, Inv, Typed
      <2>3. \A t \in 1..Len(txns') : t > n => txns'[t].project \in {row.from, row.to}
            <3>1. \A t \in 1..Len(txns') : t > n => t = n + 1 \/ t = n + 2
                  BY <1>1, <1>5
            <3>2. txns'[n + 1].project = row.from /\ txns'[n + 2].project = row.to
                  BY <1>4, <1>5
            <3> QED BY <3>1, <3>2
      <2> QED BY <2>1, <2>2, <2>3 DEF Frozen
<1>9. TransferMovesOnce'
      <2>1. \A g \in Transfer : transfers'[g] = IF g = f THEN done ELSE transfers[g]
            BY DEF CompleteTransfer, Inv, Typed
      <2>2. Lines(f) = {}
            BY <1>1 DEF Inv, TransferMovesOnce
      <2> HIDE DEF out, in
      <2>3. Lines(f)' = {n + 1, n + 2}
            <3>1. \A t \in 1..Len(txns') : t \in 1..n \/ t = n + 1 \/ t = n + 2
                  BY <1>1, <1>5
            <3>2. n + 1 \in 1..Len(txns') /\ n + 2 \in 1..Len(txns')
                  BY <1>1, <1>5
            <3>3. \A t \in 1..n : txns'[t].transfer # f
                  BY <1>5, <2>2 DEF Lines
            <3>4. txns'[n + 1].transfer = f /\ txns'[n + 2].transfer = f
                  BY <1>4, <1>5
            <3> QED BY <3>1, <3>2, <3>3, <3>4 DEF Lines
      <2>4. \A g \in Transfer \ {f} : Lines(g)' = Lines(g)
            BY <1>1, <1>4, <1>5 DEF Lines
      <2>5. n + 1 \in 1..Len(txns') /\ n + 2 \in 1..Len(txns') /\ 1..n \subseteq 1..Len(txns')
            BY <1>1, <1>5
      <2> SUFFICES ASSUME NEW g \in Transfer
                   PROVE  IF transfers'[g].status = "COMPLETED"
                          THEN \E o, i \in 1..Len(txns') :
                                  /\ Lines(g)' = {o, i}
                                  /\ o # i
                                  /\ txns'[o] = TransferLine("TRANSFER_OUT", transfers'[g].from, -transfers'[g].quantity, g)
                                  /\ txns'[i] = TransferLine("TRANSFER_IN", transfers'[g].to, transfers'[g].quantity, g)
                          ELSE Lines(g)' = {}
          BY DEF TransferMovesOnce
      <2>6. CASE g = f
            <3>1. transfers'[f].from = row.from /\ transfers'[f].to = row.to
                  /\ transfers'[f].quantity = row.quantity /\ transfers'[f].status = "COMPLETED"
                  BY <1>3, <2>1
            <3>2. n + 1 # n + 2
                  BY <1>1
            <3>3. txns'[n + 1] = TransferLine("TRANSFER_OUT", transfers'[f].from, -transfers'[f].quantity, f)
                  BY <1>5, <3>1 DEF out
            <3>4. txns'[n + 2] = TransferLine("TRANSFER_IN", transfers'[f].to, transfers'[f].quantity, f)
                  BY <1>5, <3>1 DEF in
            <3> QED BY <2>3, <2>5, <2>6, <3>1, <3>2, <3>3, <3>4
      <2>7. CASE g # f
            <3>1. transfers'[g] = transfers[g] /\ Lines(g)' = Lines(g)
                  BY <2>1, <2>4, <2>7
            <3>2. CASE transfers[g].status = "COMPLETED"
                  <4>1. PICK o \in 1..n, i \in 1..n :
                            /\ Lines(g) = {o, i}
                            /\ o # i
                            /\ txns[o] = TransferLine("TRANSFER_OUT", transfers[g].from, -transfers[g].quantity, g)
                            /\ txns[i] = TransferLine("TRANSFER_IN", transfers[g].to, transfers[g].quantity, g)
                        BY <3>2 DEF Inv, TransferMovesOnce
                  <4> QED BY <1>5, <2>5, <3>1, <3>2, <4>1
            <3>3. CASE transfers[g].status # "COMPLETED"
                  BY <3>1, <3>3 DEF Inv, TransferMovesOnce
            <3> QED BY <3>2, <3>3
      <2> QED BY <2>6, <2>7
<1> QED BY <1>7, <1>8, <1>9 DEF Inv

-----------------------------------------------------------------------------
(* The handlers that load the material before they lock it.                 *)

LEMMA StepBegin ==
    ASSUME Inv, NEW r \in Request, Begin(r)
    PROVE  Inv' /\ Frozen
<1>1. materials' = materials /\ transfers' = transfers /\ txns' = txns
      BY DEF Begin, BeginOnMaterial, BeginReverse
<1>2. PICK q : requests' = [requests EXCEPT ![r] = q] /\ RequestTyped(q)
      <2>1. CASE \E p \in Project, op \in {"purchase", "adjust", "update"} : BeginOnMaterial(r, op, p)
            <3>1. PICK p \in Project, op \in {"purchase", "adjust", "update"} : BeginOnMaterial(r, op, p)
                  BY <2>1
            <3> DEFINE new == [op |-> op, project |-> p, seen |-> materials[p]]
            <3>2. RequestTyped(new)
                  <4>1. new \in OnMaterial
                        BY DEF OnMaterial, Inv, Typed
                  <4> QED BY <4>1 DEF RequestTyped
            <3>3. requests' = [requests EXCEPT ![r] = new]
                  BY <3>1 DEF BeginOnMaterial, Start
            <3> HIDE DEF new
            <3> QED BY <3>2, <3>3
      <2>2. CASE \E t \in 1..Len(txns) : BeginReverse(r, t)
            <3>1. PICK t \in 1..Len(txns) : BeginReverse(r, t)
                  BY <2>2
            <3> DEFINE new == [op |-> "reverse", txn |-> t, reversed |-> Reversed(t)]
            <3>2. RequestTyped(new)
                  BY DEF RequestTyped
            <3>3. requests' = [requests EXCEPT ![r] = new]
                  BY <3>1 DEF BeginReverse, Start
            <3> HIDE DEF new
            <3> QED BY <3>2, <3>3
      <2> QED BY <2>1, <2>2 DEF Begin
<1>3. Typed'
      BY <1>1, <1>2 DEF Inv, Typed, RequestTyped
<1>4. TransferMovesOnce' /\ Frozen
      BY <1>1, NoLineKeepsMoves, NoLineFrozen DEF Inv
<1> QED BY <1>3, <1>4 DEF Inv

LEMMA StepAbort ==
    ASSUME Inv, NEW r \in Request, Abort(r)
    PROVE  Inv' /\ Frozen
BY NoLineStep, NoLineFrozen DEF Inv, Typed, Abort

\* What purchase, adjustment and update decide on.
LEMMA OnMaterialRows ==
    ASSUME Inv, NEW r \in Request, requests[r].op \in {"purchase", "adjust", "update"}
    PROVE  /\ requests[r].project \in Project /\ requests[r].seen \in MaterialRow
           /\ materials[requests[r].project] \in MaterialRow
<1>1. requests[r] \in OnMaterial
      BY DEF Inv, Typed, RequestTyped, Idle
<1> QED BY <1>1 DEF OnMaterial, Inv, Typed

\* They write a row over the one that is there and record one line, l.
LEMMA WriteAndRecord ==
    ASSUME Inv, NEW r \in Request, requests[r].op \in {"purchase", "adjust", "update"},
           Found(requests[r].project), NEW new \in MaterialRow, Write(r, new),
           NEW l \in TxnRow, l.transfer = NoTransfer, l.project = requests[r].project,
           Record(<<l>>)
    PROVE  Inv' /\ Frozen
<1> DEFINE p == requests[r].project
           row == Flushed(materials[p], requests[r].seen, new)
<1>1. p \in Project /\ row \in MaterialRow
      BY OnMaterialRows, FlushedTyped
<1>2. materials' = [materials EXCEPT ![p] = row] /\ transfers' = transfers /\ Done(r)
      BY DEF Write
<1>3. materials[p].status # "deleted"
      BY DEF Found, Live
<1> HIDE DEF row
<1>4. Inv' /\ Records(l)
      BY <1>1, <1>2, OneLineStep
<1> QED BY <1>1, <1>2, <1>3, <1>4, OneLineFrozen DEF Inv

LEMMA StepPurchase ==
    ASSUME Inv, NEW r \in Request, NEW quantity \in Quantity, CommitPurchase(r, quantity)
    PROVE  Inv' /\ Frozen
<1> DEFINE l == Line("PURCHASE", requests[r].project, quantity)
           new == Bought(requests[r].seen, quantity)
<1>1. requests[r].op \in {"purchase", "adjust", "update"} /\ quantity \in Nat
      BY QuantityAssumption DEF CommitPurchase
<1>2. new \in MaterialRow
      BY <1>1, OnMaterialRows, BoughtTyped
<1>3. l \in TxnRow /\ l.transfer = NoTransfer /\ l.project = requests[r].project
      BY <1>1, OnMaterialRows, LineTyped DEF TxnType, Line
<1>4. Found(requests[r].project) /\ Write(r, new) /\ Record(<<l>>)
      BY DEF CommitPurchase
<1> HIDE DEF l, new
<1> QED BY <1>1, <1>2, <1>3, <1>4, WriteAndRecord

LEMMA StepAdjust ==
    ASSUME Inv, NEW r \in Request, NEW count \in Count, CommitAdjust(r, count)
    PROVE  Inv' /\ Frozen
<1> DEFINE seen == requests[r].seen
           l == Line("ADJUSTMENT", requests[r].project, count - seen.remaining)
           new == Counted(seen, count)
<1>1. requests[r].op \in {"purchase", "adjust", "update"} /\ count \in Nat
      BY CountAssumption DEF CommitAdjust
<1>2. seen \in MaterialRow /\ seen.remaining \in Nat
      BY <1>1, OnMaterialRows DEF MaterialRow
<1>3. new \in MaterialRow
      <2>1. Taken(seen, Remainder(seen.remaining, count)) \in MaterialRow
            BY <1>1, <1>2, RemainderNat, TakenTyped
      <2> QED BY <1>1, <2>1 DEF Counted, MaterialRow
<1>4. l \in TxnRow /\ l.transfer = NoTransfer /\ l.project = requests[r].project
      BY <1>1, <1>2, OnMaterialRows, LineTyped DEF TxnType, Line
<1>5. Found(requests[r].project) /\ Write(r, new) /\ Record(<<l>>)
      BY DEF CommitAdjust
<1> HIDE DEF l, new
<1> QED BY <1>1, <1>3, <1>4, <1>5, WriteAndRecord

LEMMA StepUpdate ==
    ASSUME Inv, NEW r \in Request, CommitUpdate(r)
    PROVE  Inv' /\ Frozen
<1> DEFINE p == requests[r].project
           row == Flushed(materials[p], requests[r].seen, Refreshed(requests[r].seen))
<1>1. requests[r].op \in {"purchase", "adjust", "update"}
      BY DEF CommitUpdate
<1>2. p \in Project /\ row \in MaterialRow
      BY <1>1, OnMaterialRows, RefreshedTyped, FlushedTyped
<1>3. materials' = [materials EXCEPT ![p] = row] /\ transfers' = transfers /\ Done(r)
      /\ materials[p].status # "deleted" /\ txns' = txns
      BY DEF CommitUpdate, Write, Found, Live
<1> HIDE DEF row
<1>4. materials' \in [Project -> MaterialRow]
      BY <1>2, <1>3 DEF Inv, Typed
<1>5. \A q \in Project : materials[q].status = "deleted" => materials'[q] = materials[q]
      BY <1>2, <1>3 DEF Inv, Typed
<1> QED BY <1>3, <1>4, <1>5, NoLineStep, NoLineFrozen DEF Inv

LEMMA StepReverse ==
    ASSUME Inv, NEW r \in Request, NEW quantity \in Quantity, CommitReverse(r, quantity)
    PROVE  Inv' /\ Frozen
<1> DEFINE t == requests[r].txn
           p == txns[t].project
           l == ReversalLine(p, quantity, t)
           row == Returned(materials[p], quantity)
<1>1. t \in 1..Len(txns) /\ quantity \in Nat
      <2>1. requests[r].op = "reverse"
            BY DEF CommitReverse
      <2> QED BY <2>1, QuantityAssumption DEF Inv, Typed, RequestTyped, OnMaterial, Idle
<1>2. p \in Project /\ t \in Nat
      <2>1. txns \in Seq(TxnRow) /\ Len(txns) \in Nat
            BY DEF Inv, Typed
      <2>2. txns[t] \in TxnRow
            BY <1>1, <2>1
      <2> QED BY <1>1, <2>1, <2>2 DEF TxnRow
<1>3. row \in MaterialRow
      <2>1. materials[p] \in MaterialRow /\ materials[p].used >= quantity
            BY <1>2 DEF Inv, Typed, CommitReverse
      <2>2. [materials[p] EXCEPT !.used = materials[p].used - quantity] \in MaterialRow
            BY SMTT(40), <1>1, <2>1 DEF MaterialRow
      <2> QED BY <2>2, RefreshedTyped DEF Returned
<1>4. l \in TxnRow /\ l.transfer = NoTransfer /\ l.project = p
      BY <1>1, <1>2 DEF ReversalLine, Line, TxnRow, TxnType
<1>5. materials' = [materials EXCEPT ![p] = row] /\ transfers' = transfers
      BY DEF CommitReverse
<1>6. Record(<<l>>) /\ Done(r) /\ materials[p].status # "deleted"
      BY DEF CommitReverse, Live
<1> HIDE DEF l, row, p
<1>7. Inv' /\ Records(l)
      BY <1>2, <1>3, <1>4, <1>5, <1>6, OneLineStep
<1> QED BY <1>2, <1>4, <1>5, <1>6, <1>7, OneLineFrozen DEF Inv

-----------------------------------------------------------------------------
LEMMA StepInv ==
    ASSUME Inv, Next
    PROVE  Inv' /\ Frozen
<1>1. CASE \E p \in Project : MaterialStep(p)
      BY <1>1, StepCreate, StepDelete, StepUsage DEF MaterialStep
<1>2. CASE \E f \in Transfer : TransferStep(f)
      BY <1>2, StepCreateTransfer, StepCompleteTransfer, StepCancelTransfer DEF TransferStep
<1>3. CASE \E r \in Request : Begin(r) \/ Commit(r) \/ Abort(r)
      BY <1>3, StepBegin, StepAbort, StepPurchase, StepAdjust, StepUpdate, StepReverse DEF Commit
<1> QED BY <1>1, <1>2, <1>3 DEF Next

LEMMA StutterInv ==
    ASSUME Inv, UNCHANGED vars
    PROVE  Inv'
BY DEF Inv, Typed, RequestTyped, TransferMovesOnce, Lines, vars

LEMMA InvAlways == Spec => []Inv
<1>1. Inv /\ [Next]_vars => Inv'
      BY StepInv, StutterInv
<1> QED BY <1>1, InitInv, PTL DEF Spec

\* Whatever requests and decisions overlap, a COMPLETED transfer has moved its
\* quantity once, out of one project and into the other, and no other transfer
\* has moved anything (update_transfer_status).
THEOREM TransferMovesOnceAlways == Spec => []TransferMovesOnce
<1>1. Inv => TransferMovesOnce
      BY DEF Inv
<1> QED BY <1>1, InvAlways, PTL

\* A deleted material never changes again, and no line is booked for it, though
\* requests that found it live are under way (delete_material).
THEOREM DeletedIsFrozenAlways == Spec => DeletedIsFrozen
<1>1. Inv /\ [Next]_vars => [Frozen]_vars
      BY StepInv
<1>2. [Frozen]_vars => [\A p \in Project : materials[p].status = "deleted" =>
                          /\ materials'[p] = materials[p]
                          /\ \A t \in 1..Len(txns') : t > Len(txns) => txns'[t].project # p]_vars
      BY DEF Frozen
<1> QED BY <1>1, <1>2, InvAlways, PTL DEF Spec, DeletedIsFrozen
-----------------------------------------------------------------------------
(* The stock adds up.                                                       *)

\* What the lines of rows add up to: InLedger and Reversed, of any ledger.
LedgerIn(rows, p) ==
    TotalOf([i \in DOMAIN rows |-> IF rows[i].project = p THEN rows[i].quantity ELSE 0])
ReversedIn(rows, t) ==
    TotalOf([i \in DOMAIN rows |-> IF rows[i].reverses = t THEN rows[i].quantity ELSE 0])

\* A line more counts for its project and for the line it reverses.
LEMMA LineCounts ==
    ASSUME NEW rows \in Seq(TxnRow), NEW new \in Seq(TxnRow), Len(new) = Len(rows) + 1,
           \A t \in 1..Len(rows) : new[t] = rows[t]
    PROVE  /\ \A p \in Project :
                 /\ LedgerIn(rows, p) \in Int
                 /\ LedgerIn(new, p) = LedgerIn(rows, p)
                      + IF new[Len(new)].project = p THEN new[Len(new)].quantity ELSE 0
           /\ \A t \in Nat :
                 /\ ReversedIn(rows, t) \in Int
                 /\ ReversedIn(new, t) = ReversedIn(rows, t)
                      + IF new[Len(new)].reverses = t THEN new[Len(new)].quantity ELSE 0
<1>1. /\ Len(rows) \in Nat /\ DOMAIN rows = 1..Len(rows) /\ IsFiniteSet(DOMAIN rows)
      /\ DOMAIN new = 1..Len(new)
      <2>1. Len(rows) \in Nat /\ DOMAIN rows = 1..Len(rows) /\ DOMAIN new = 1..Len(new)
            BY LenProperties
      <2>2. IsFiniteSet(1..Len(rows))
            BY <2>1, FS_Interval
      <2> QED BY <2>1, <2>2
<1>2. DOMAIN new = DOMAIN rows \cup {Len(new)} /\ Len(new) \notin DOMAIN rows
      BY <1>1
<1>3. /\ \A t \in DOMAIN rows : rows[t].quantity \in Int /\ new[t] = rows[t]
      /\ new[Len(new)].quantity \in Int
      <2>1. \A t \in DOMAIN rows : rows[t] \in TxnRow
            BY <1>1
      <2>2. new[Len(new)] \in TxnRow
            BY <1>1, <1>2
      <2> QED BY <1>1, <2>1, <2>2 DEF TxnRow
<1>4. ASSUME NEW p \in Project
      PROVE  /\ LedgerIn(rows, p) \in Int
             /\ LedgerIn(new, p) = LedgerIn(rows, p)
                  + IF new[Len(new)].project = p THEN new[Len(new)].quantity ELSE 0
      <2> DEFINE f == [i \in DOMAIN rows |-> IF rows[i].project = p THEN rows[i].quantity ELSE 0]
                 g == [i \in DOMAIN new |-> IF new[i].project = p THEN new[i].quantity ELSE 0]
      <2>1. Finitely(f) /\ Len(new) \notin DOMAIN f
            BY <1>1, <1>2, <1>3 DEF Finitely
      <2>2. /\ DOMAIN g = DOMAIN f \cup {Len(new)} /\ g[Len(new)] \in Int
            /\ \A y \in DOMAIN f : g[y] = f[y]
            BY <1>2, <1>3
      <2>3. g[Len(new)] = IF new[Len(new)].project = p THEN new[Len(new)].quantity ELSE 0
            BY <1>2
      <2>4. LedgerIn(rows, p) = TotalOf(f) /\ LedgerIn(new, p) = TotalOf(g)
            BY DEF LedgerIn
      <2> HIDE DEF f, g
      <2>5. TotalOf(f) \in Int /\ TotalOf(g) = TotalOf(f) + g[Len(new)]
            BY <2>1, <2>2, TotalInt, TotalGrown
      <2> QED BY <2>3, <2>4, <2>5
<1>5. ASSUME NEW t \in Nat
      PROVE  /\ ReversedIn(rows, t) \in Int
             /\ ReversedIn(new, t) = ReversedIn(rows, t)
                  + IF new[Len(new)].reverses = t THEN new[Len(new)].quantity ELSE 0
      <2> DEFINE f == [i \in DOMAIN rows |-> IF rows[i].reverses = t THEN rows[i].quantity ELSE 0]
                 g == [i \in DOMAIN new |-> IF new[i].reverses = t THEN new[i].quantity ELSE 0]
      <2>1. Finitely(f) /\ Len(new) \notin DOMAIN f
            BY <1>1, <1>2, <1>3 DEF Finitely
      <2>2. /\ DOMAIN g = DOMAIN f \cup {Len(new)} /\ g[Len(new)] \in Int
            /\ \A y \in DOMAIN f : g[y] = f[y]
            BY <1>2, <1>3
      <2>3. g[Len(new)] = IF new[Len(new)].reverses = t THEN new[Len(new)].quantity ELSE 0
            BY <1>2
      <2>4. ReversedIn(rows, t) = TotalOf(f) /\ ReversedIn(new, t) = TotalOf(g)
            BY DEF ReversedIn
      <2> HIDE DEF f, g
      <2>5. TotalOf(f) \in Int /\ TotalOf(g) = TotalOf(f) + g[Len(new)]
            BY <2>1, <2>2, TotalInt, TotalGrown
      <2> QED BY <2>3, <2>4, <2>5
<1> QED BY <1>4, <1>5

LEMMA LedgerSums ==
    /\ \A p : InLedger(p) = LedgerIn(txns, p) /\ InLedger(p)' = LedgerIn(txns', p)
    /\ \A t : Reversed(t) = ReversedIn(txns, t) /\ Reversed(t)' = ReversedIn(txns', t)
BY DEF InLedger, LedgerIn, Reversed, ReversedIn

\* In a step that records one line.
LEMMA RecordCounts ==
    ASSUME txns \in Seq(TxnRow), NEW l \in TxnRow, Records(l)
    PROVE  /\ \A p \in Project :
                 /\ InLedger(p) \in Int
                 /\ InLedger(p)' = InLedger(p) + IF l.project = p THEN l.quantity ELSE 0
           /\ \A t \in Nat :
                 /\ Reversed(t) \in Int
                 /\ Reversed(t)' = Reversed(t) + IF l.reverses = t THEN l.quantity ELSE 0
BY SMTT(40), LineCounts, LedgerSums DEF Records

\* In one that completes a transfer.
LEMMA TransferCounts ==
    ASSUME Inv, NEW f \in Transfer, CompleteTransfer(f), transfers[f].from # transfers[f].to
    PROVE  /\ \A p \in Project :
                 /\ InLedger(p) \in Int
                 /\ InLedger(p)' = InLedger(p)
                      + (IF p = transfers[f].from THEN -transfers[f].quantity ELSE 0)
                      + (IF p = transfers[f].to THEN transfers[f].quantity ELSE 0)
           /\ \A t \in Nat \ {0} : Reversed(t)' = Reversed(t)
<1> DEFINE mid == Append(txns, OutOf(f))
           n == Len(txns)
<1>1. /\ transfers[f] \in TransferRow
      /\ OutOf(f) \in TxnRow /\ Into(f) \in TxnRow
      /\ txns' \in Seq(TxnRow) /\ Len(txns') = n + 2
      /\ \A t \in 1..n : txns'[t] = txns[t]
      /\ txns'[n + 1] = OutOf(f) /\ txns'[n + 2] = Into(f)
      BY TransferRecords
<1>2. txns \in Seq(TxnRow) /\ n \in Nat
      BY DEF Inv, Typed
<1>3. /\ mid \in Seq(TxnRow) /\ Len(mid) = n + 1 /\ mid[n + 1] = OutOf(f)
      /\ \A t \in 1..n : mid[t] = txns[t]
      BY <1>1, <1>2, AppendProperties
<1> HIDE DEF mid
<1>4. \A t \in 1..(n + 1) : txns'[t] = mid[t]
      BY <1>1, <1>2, <1>3
<1>5. /\ OutOf(f).project = transfers[f].from /\ OutOf(f).quantity = -transfers[f].quantity
      /\ Into(f).project = transfers[f].to /\ Into(f).quantity = transfers[f].quantity
      /\ OutOf(f).reverses = 0 /\ Into(f).reverses = 0
      BY DEF OutOf, Into, TransferLine, Line
<1>6. transfers[f].quantity \in Nat
      BY <1>1 DEF TransferRow
<1>7. /\ \A p \in Project :
           /\ LedgerIn(txns, p) \in Int
           /\ LedgerIn(mid, p) = LedgerIn(txns, p)
                + IF p = transfers[f].from THEN -transfers[f].quantity ELSE 0
      /\ \A t \in Nat \ {0} : ReversedIn(txns, t) \in Int /\ ReversedIn(mid, t) = ReversedIn(txns, t)
      <2>1. /\ \A p \in Project :
                 /\ LedgerIn(txns, p) \in Int
                 /\ LedgerIn(mid, p) = LedgerIn(txns, p)
                      + IF mid[Len(mid)].project = p THEN mid[Len(mid)].quantity ELSE 0
            /\ \A t \in Nat :
                 /\ ReversedIn(txns, t) \in Int
                 /\ ReversedIn(mid, t) = ReversedIn(txns, t)
                      + IF mid[Len(mid)].reverses = t THEN mid[Len(mid)].quantity ELSE 0
            BY <1>2, <1>3, LineCounts
      <2>2. mid[Len(mid)] = OutOf(f)
            BY <1>3
      <2> QED BY <1>5, <2>1, <2>2
<1>8. /\ \A p \in Project :
           /\ LedgerIn(mid, p) \in Int
           /\ LedgerIn(txns', p) = LedgerIn(mid, p)
                + IF p = transfers[f].to THEN transfers[f].quantity ELSE 0
      /\ \A t \in Nat \ {0} : ReversedIn(mid, t) \in Int /\ ReversedIn(txns', t) = ReversedIn(mid, t)
      <2>1. Len(txns') = Len(mid) + 1 /\ txns'[Len(txns')] = Into(f)
            BY <1>1, <1>2, <1>3
      <2>2. \A t \in 1..Len(mid) : txns'[t] = mid[t]
            BY <1>3, <1>4
      <2>3. /\ \A p \in Project :
                 /\ LedgerIn(mid, p) \in Int
                 /\ LedgerIn(txns', p) = LedgerIn(mid, p)
                      + IF txns'[Len(txns')].project = p THEN txns'[Len(txns')].quantity ELSE 0
            /\ \A t \in Nat :
                 /\ ReversedIn(mid, t) \in Int
                 /\ ReversedIn(txns', t) = ReversedIn(mid, t)
                      + IF txns'[Len(txns')].reverses = t THEN txns'[Len(txns')].quantity ELSE 0
            <3>1. ASSUME NEW new \in Seq(TxnRow), new = txns'
                  PROVE  Len(new) = Len(mid) + 1 /\ \A t \in 1..Len(mid) : new[t] = mid[t]
                  BY <2>1, <2>2, <3>1
            <3>2. PICK new \in Seq(TxnRow) : new = txns'
                  BY <1>1
            <3> QED BY <1>3, <3>1, <3>2, LineCounts
      <2> QED BY <1>5, <2>1, <2>3
<1> QED BY <1>6, <1>7, <1>8, LedgerSums

-----------------------------------------------------------------------------
(* The invariant.                                                           *)

\* The columns of a row agree with each other and with the lines, which add up to sum.
Sound(row, sum) == row.remaining = row.purchased - row.used /\ row.remaining = sum

RequestsRead ==
    requests \in [Request ->
        {Idle}
        \cup [op : {"purchase", "adjust", "update"}, project : Project, seen : MaterialRow]
        \cup [op : {"reverse"}, txn : Nat \ {0}, reversed : Int]]
NothingAbsent == \A p \in Project : materials[p].status = "absent" => materials[p].remaining = 0
PendingMoves ==
    \A f \in Transfer : transfers[f].status = "PENDING" => transfers[f].from # transfers[f].to
ReversesEarlier == \A t \in 1..Len(txns) : txns[t].reverses < t
StockInv ==
    /\ Inv
    /\ stale \subseteq Project
    /\ RequestsRead /\ NothingAbsent /\ PendingMoves /\ ReversesEarlier
    /\ StockAddsUp

LEMMA StockTypeOK == StockInv => TypeOK
BY DEF StockInv, Inv, Typed, RequestsRead, TypeOK

LEMMA StockInitInv == Init => StockInv
<1> SUFFICES ASSUME Init PROVE StockInv
    OBVIOUS
<1>1. Inv
      BY InitInv
<1>2. \A p \in Project : /\ materials[p].remaining = 0 /\ materials[p].purchased = 0
                         /\ materials[p].used = 0
      BY DEF Init, Opened
<1>3. \A p \in Project : InLedger(p) = 0
      BY TotalZero DEF Init, InLedger
<1>4. txns = <<>> /\ Len(txns) = 0 /\ stale = {}
      BY DEF Init
<1>5. RequestsRead /\ PendingMoves
      BY DEF Init, RequestsRead, PendingMoves, Idle, Unrequested
<1> QED BY <1>1, <1>2, <1>3, <1>4, <1>5 DEF StockInv, NothingAbsent, ReversesEarlier,
       StockAddsUp, StockMatchesLedger, ReversedAtMostTaken
-----------------------------------------------------------------------------
\* What an operation leaves alone, whatever it does to the stock.
LEMMA RequestsStay ==
    ASSUME RequestsRead, requests' = requests \/ \E r \in Request : Done(r)
    PROVE  RequestsRead'
BY DEF RequestsRead, Done

LEMMA TransfersStay ==
    ASSUME PendingMoves, transfers' = transfers
    PROVE  PendingMoves'
BY DEF PendingMoves

\* A step that writes the row of p and records one line, l, for it: the row must follow
\* the line, and the line must not take back more than was taken.
LEMMA StockOneLine ==
    ASSUME StockInv, Inv', NEW p \in Project, NEW row \in MaterialRow, NEW l \in TxnRow,
           Records(l), l.project = p,
           materials' = [materials EXCEPT ![p] = row], row.status # "absent",
           transfers' = transfers, requests' = requests \/ \E r \in Request : Done(r),
           stale \subseteq stale', stale' \subseteq Project,
           p \notin stale' /\ ~(l.type = "ADJUSTMENT" /\ l.quantity > 0)
               /\ Sound(materials[p], InLedger(p))
               => Sound(row, InLedger(p) + l.quantity),
           \/ l.reverses = 0
           \/ /\ l.reverses \in 1..Len(txns) /\ l.quantity > 0
              /\ p = txns[l.reverses].project
              /\ p \notin stale' =>
                    Reversed(l.reverses) + l.quantity <= -txns[l.reverses].quantity
    PROVE  StockInv'
<1> DEFINE n == Len(txns)
<1>1. /\ n \in Nat /\ n + 1 \in 1..Len(txns') /\ Len(txns') = n + 1
      /\ \A t \in 1..n : txns'[t] = txns[t] /\ t \in 1..Len(txns') /\ t \in Nat
      /\ txns'[n + 1] = l
      /\ \A t \in 1..Len(txns') : t \in 1..n \/ t = n + 1
      BY DEF StockInv, Inv, Typed, Records
<1>2. \A q \in Project : /\ InLedger(q) \in Int
                         /\ InLedger(q)' = InLedger(q) + IF l.project = q THEN l.quantity ELSE 0
      BY RecordCounts DEF StockInv, Inv, Typed
<1>3. \A t \in Nat : /\ Reversed(t) \in Int
                     /\ Reversed(t)' = Reversed(t) + IF l.reverses = t THEN l.quantity ELSE 0
      BY RecordCounts DEF StockInv, Inv, Typed
<1>4. \A q \in Project : materials'[q] = IF q = p THEN row ELSE materials[q]
      BY DEF StockInv, Inv, Typed
<1>5. \A q \in Project : FoundMore(q) => FoundMore(q)'
      BY <1>1 DEF FoundMore
<1>6. l.type = "ADJUSTMENT" /\ l.quantity > 0 => FoundMore(p)'
      BY <1>1 DEF FoundMore
<1>7. NothingAbsent'
      BY <1>4 DEF StockInv, NothingAbsent
<1>8. ReversesEarlier'
      <2>1. ASSUME NEW t \in 1..Len(txns') PROVE txns'[t].reverses < t
            <3>1. CASE t \in 1..n
                  BY <1>1, <3>1 DEF StockInv, ReversesEarlier
            <3>2. CASE t = n + 1
                  BY <1>1, <3>2
            <3> QED BY <1>1, <3>1, <3>2
      <2> QED BY <2>1 DEF ReversesEarlier
<1>9. StockMatchesLedger'
      <2> SUFFICES ASSUME NEW q \in Project \ stale', ~FoundMore(q)'
                   PROVE  Sound(materials'[q], InLedger(q)')
          BY DEF StockMatchesLedger, Sound
      <2>1. Sound(materials[q], InLedger(q))
            BY <1>5 DEF StockInv, StockAddsUp, StockMatchesLedger, Sound
      <2>2. CASE q = p
            BY <1>2, <1>4, <1>6, <2>1, <2>2
      <2>3. CASE q # p
            BY <1>2, <1>4, <2>1, <2>3
      <2> QED BY <2>2, <2>3
<1>10. ReversedAtMostTaken'
      <2> SUFFICES ASSUME NEW t \in 1..Len(txns'), txns'[t].type = "USAGE",
                          txns'[t].quantity < 0, txns'[t].project \notin stale'
                   PROVE  Reversed(t)' <= -txns'[t].quantity
          BY DEF ReversedAtMostTaken, IsUsage
      <2>1. CASE t \in 1..n
            <3>1. Reversed(t) <= -txns[t].quantity
                  BY <1>1, <2>1 DEF StockInv, StockAddsUp, ReversedAtMostTaken, IsUsage
            <3>2. CASE l.reverses = t
                  BY <1>1, <1>3, <2>1, <3>2
            <3>3. CASE l.reverses # t
                  BY <1>1, <1>3, <2>1, <3>1, <3>3
            <3> QED BY <3>2, <3>3
      <2>2. CASE t = n + 1
            <3>1. l.reverses = 0
                  <4>1. txns'[t] = l /\ l.quantity < 0
                        BY <1>1, <2>2
                  <4>2. l.quantity \in Int
                        BY DEF TxnRow
                  <4> QED BY <4>1, <4>2
            <3>2. \A i \in 1..Len(txns) : txns[i].reverses # t
                  <4>1. \A i \in 1..Len(txns) : txns[i] \in TxnRow
                        BY DEF StockInv, Inv, Typed
                  <4>2. \A i \in 1..Len(txns) : txns[i].reverses \in Nat /\ txns[i].reverses < i
                        BY <4>1 DEF StockInv, ReversesEarlier, TxnRow
                  <4> QED BY <1>1, <2>2, <4>2
            <3>3. Reversed(t) = 0
                  <4>1. DOMAIN txns = 1..Len(txns)
                        BY DEF StockInv, Inv, Typed
                  <4> QED BY <3>2, <4>1, TotalZero DEF Reversed
            <3>4. t \in Nat /\ t # 0
                  BY <1>1, <2>2
            <3>5. Reversed(t)' = 0
                  BY <1>3, <3>1, <3>3, <3>4
            <3>6. txns'[t] = l /\ l.quantity < 0 /\ l.quantity \in Int
                  BY <1>1, <2>2 DEF TxnRow
            <3> QED BY <3>5, <3>6
      <2> QED BY <1>1, <2>1, <2>2
<1>11. RequestsRead' /\ PendingMoves'
      BY RequestsStay, TransfersStay DEF StockInv
<1> QED BY <1>7, <1>8, <1>9, <1>10, <1>11 DEF StockInv, StockAddsUp

\* A step that records nothing and keeps the quantities of every row of use.
LEMMA StockNoLine ==
    ASSUME StockInv, Inv', txns' = txns, RequestsRead', PendingMoves',
           stale \subseteq stale', stale' \subseteq Project,
           \A p \in Project :
               /\ materials'[p].status = "absent" => materials'[p].remaining = 0
               /\ p \notin stale' /\ Sound(materials[p], InLedger(p))
                    => Sound(materials'[p], InLedger(p))
    PROVE  StockInv'
<1>1. /\ \A p \in Project : InLedger(p)' = InLedger(p) /\ (FoundMore(p)' <=> FoundMore(p))
      /\ \A t : Reversed(t)' = Reversed(t)
      BY DEF InLedger, FoundMore, Reversed
<1>2. StockMatchesLedger'
      BY <1>1 DEF StockInv, StockAddsUp, StockMatchesLedger, Sound
<1>3. ReversedAtMostTaken'
      BY <1>1 DEF StockInv, StockAddsUp, ReversedAtMostTaken, IsUsage
<1>4. ReversesEarlier' /\ NothingAbsent'
      BY DEF StockInv, ReversesEarlier, NothingAbsent
<1> QED BY <1>2, <1>3, <1>4 DEF StockInv, StockAddsUp
-----------------------------------------------------------------------------
(* Each operation keeps the stock in step with its line.                    *)

\* What the rows of a material mean.
LEMMA RowNumbers ==
    ASSUME NEW row \in MaterialRow
    PROVE  row.purchased \in Nat /\ row.used \in Nat /\ row.remaining \in Nat
BY DEF MaterialRow

LEMMA RemainderIs ==
    ASSUME NEW a \in Nat, NEW b \in Nat, NEW c \in Nat, a = b + c
    PROVE  Remainder(a, b) = c
BY DEF Remainder

LEMMA OpenedSound ==
    ASSUME NEW quantity \in Nat
    PROVE  Sound(Opened(quantity), quantity) /\ Opened(quantity).status = "live"
BY DEF Sound, Opened

LEMMA BoughtSound ==
    ASSUME NEW row \in MaterialRow, NEW quantity \in Nat, NEW sum \in Int, Sound(row, sum)
    PROVE  Sound(Bought(row, quantity), sum + quantity)
<1>1. /\ row.purchased \in Nat /\ row.used \in Nat /\ row.remaining \in Nat
      /\ row.remaining = row.purchased - row.used /\ row.remaining = sum
      BY RowNumbers DEF Sound
<1> DEFINE more == [row EXCEPT !.purchased = row.purchased + quantity]
           new == Bought(row, quantity)
<1>2. new.purchased = row.purchased + quantity /\ new.used = row.used
      /\ new.remaining = Remainder(row.purchased + quantity, row.used)
      <2>1. more \in MaterialRow /\ more.purchased = row.purchased + quantity /\ more.used = row.used
            BY DEF MaterialRow
      <2>2. new = Refreshed(more)
            BY DEF Bought
      <2> HIDE DEF more, new
      <2> QED BY <2>1, <2>2 DEF Refreshed, MaterialRow
<1>3. Remainder(row.purchased + quantity, row.used) = sum + quantity
      <2>1. PICK a \in Nat, b \in Nat : a = row.purchased /\ b = row.used
            BY <1>1
      <2>2. a + quantity = b + (sum + quantity) /\ sum + quantity \in Nat
            BY <1>1, <2>1
      <2> QED BY <2>1, <2>2, RemainderIs
<1> HIDE DEF more, new
<1> QED BY <1>1, <1>2, <1>3 DEF Sound, new

LEMMA UsedUpSound ==
    ASSUME NEW row \in MaterialRow, NEW quantity \in Nat, NEW sum \in Int, Sound(row, sum),
           row.remaining >= quantity
    PROVE  Sound(UsedUp(row, quantity), sum + (-quantity))
<1>1. /\ row.purchased \in Nat /\ row.used \in Nat /\ row.remaining \in Nat
      /\ row.remaining = row.purchased - row.used /\ row.remaining = sum
      BY RowNumbers DEF Sound
<1> DEFINE new == UsedUp(row, quantity)
<1>2. /\ new.purchased = row.purchased
      /\ new.used = row.used + quantity
      /\ new.remaining = Remainder(row.remaining, quantity)
      BY DEF UsedUp, Taken, MaterialRow
<1>3. Remainder(row.remaining, quantity) = row.remaining - quantity
      BY <1>1 DEF Remainder
<1> HIDE DEF new
<1>4. new.remaining = new.purchased - new.used /\ new.remaining = sum + (-quantity)
      <2>1. PICK a \in Nat, b \in Nat : a = row.purchased /\ b = row.used
            BY <1>1
      <2>2. new.purchased = a /\ new.used = b + quantity /\ new.remaining = (a - b) - quantity
            BY <1>1, <1>2, <1>3, <2>1
      <2>3. sum = a - b
            BY <1>1, <2>1
      <2> QED BY <2>2, <2>3
<1> QED BY <1>4 DEF Sound, new

LEMMA GivenSound ==
    ASSUME NEW row \in MaterialRow, NEW quantity \in Nat, NEW sum \in Int, Sound(row, sum),
           row.remaining >= quantity
    PROVE  Sound(Refreshed(Taken(row, quantity)), sum + (-quantity))
<1>1. /\ row.purchased \in Nat /\ row.used \in Nat /\ row.remaining \in Nat
      /\ row.remaining = row.purchased - row.used /\ row.remaining = sum
      BY RowNumbers DEF Sound
<1> DEFINE new == Refreshed(Taken(row, quantity))
<1>2. /\ new.purchased = row.purchased /\ new.used = row.used + quantity
      /\ new.remaining = Remainder(row.purchased, row.used + quantity)
      BY DEF Refreshed, Taken, MaterialRow
<1>3. Remainder(row.purchased, row.used + quantity) = sum - quantity
      BY <1>1 DEF Remainder
<1> HIDE DEF new
<1> QED BY <1>1, <1>2, <1>3 DEF Sound, new

LEMMA CountedSound ==
    ASSUME NEW row \in MaterialRow, NEW count \in Nat, NEW sum \in Int, Sound(row, sum),
           count <= row.remaining
    PROVE  Sound(Counted(row, count), sum + (count - row.remaining))
<1>1. /\ row.purchased \in Nat /\ row.used \in Nat /\ row.remaining \in Nat
      /\ row.remaining = row.purchased - row.used /\ row.remaining = sum
      BY RowNumbers DEF Sound
<1> DEFINE new == Counted(row, count)
<1>2. /\ new.purchased = row.purchased
      /\ new.used = row.used + Remainder(row.remaining, count)
      /\ new.remaining = count
      BY DEF Counted, Taken, MaterialRow
<1>3. Remainder(row.remaining, count) = row.remaining - count
      BY <1>1 DEF Remainder
<1> HIDE DEF new
<1>4. new.remaining = new.purchased - new.used /\ new.remaining = sum + (count - row.remaining)
      <2>1. PICK a \in Nat, b \in Nat : a = row.purchased /\ b = row.used
            BY <1>1
      <2>2. new.purchased = a /\ new.used = b + ((a - b) - count) /\ new.remaining = count
            BY <1>1, <1>2, <1>3, <2>1
      <2>3. sum = a - b /\ row.remaining = a - b
            BY <1>1, <2>1
      <2> QED BY <2>2, <2>3
<1> QED BY <1>4 DEF Sound, new

LEMMA ReturnedSound ==
    ASSUME NEW row \in MaterialRow, NEW quantity \in Nat, NEW sum \in Int, Sound(row, sum),
           row.used >= quantity
    PROVE  Sound(Returned(row, quantity), sum + quantity)
<1>1. /\ row.purchased \in Nat /\ row.used \in Nat /\ row.remaining \in Nat
      /\ row.remaining = row.purchased - row.used /\ row.remaining = sum
      BY RowNumbers DEF Sound
<1>2. /\ Returned(row, quantity).purchased = row.purchased
      /\ Returned(row, quantity).used = row.used - quantity
      /\ Returned(row, quantity).remaining = Remainder(row.purchased, row.used - quantity)
      BY DEF Returned, Refreshed, MaterialRow
<1>3. Remainder(row.purchased, row.used - quantity) = sum + quantity
      BY <1>1 DEF Remainder
<1> QED BY <1>1, <1>2, <1>3 DEF Sound

LEMMA RefreshedSound ==
    ASSUME NEW row \in MaterialRow, NEW sum \in Int, Sound(row, sum)
    PROVE  Sound(Refreshed(row), sum)
<1>1. /\ row.purchased \in Nat /\ row.used \in Nat /\ row.remaining \in Nat
      /\ row.remaining = row.purchased - row.used /\ row.remaining = sum
      BY RowNumbers DEF Sound
<1>2. /\ Refreshed(row).purchased = row.purchased /\ Refreshed(row).used = row.used
      /\ Refreshed(row).remaining = Remainder(row.purchased, row.used)
      BY DEF Refreshed, MaterialRow
<1>3. Remainder(row.purchased, row.used) = sum
      BY <1>1 DEF Remainder
<1> QED BY <1>1, <1>2, <1>3 DEF Sound

\* What is written over the row that was read is the row that was decided on; over
\* any other it keeps the status of a row that is in use.
LEMMA FlushedIsNew ==
    ASSUME NEW row \in MaterialRow, NEW new \in MaterialRow
    PROVE  Flushed(row, row, new) = new
BY DEF Flushed, MaterialRow

LEMMA FlushedInUse ==
    ASSUME NEW row \in MaterialRow, NEW seen \in MaterialRow, NEW new \in MaterialRow,
           row.status = "live", new.status = seen.status
    PROVE  Flushed(row, seen, new).status = "live"
BY DEF Flushed, MaterialRow

LEMMA LedgerInt == ASSUME StockInv, NEW p \in Project PROVE InLedger(p) \in Int
<1> DEFINE f == [i \in DOMAIN txns |-> IF txns[i].project = p THEN txns[i].quantity ELSE 0]
<1>1. DOMAIN txns = 1..Len(txns) /\ Len(txns) \in Nat /\ IsFiniteSet(DOMAIN txns)
      BY FS_Interval DEF StockInv, Inv, Typed
<1>2. \A t \in DOMAIN txns : txns[t] \in TxnRow
      BY <1>1 DEF StockInv, Inv, Typed
<1>3. Finitely(f)
      BY <1>1, <1>2 DEF Finitely, TxnRow
<1> HIDE DEF f
<1> QED BY <1>3, TotalInt DEF InLedger, f

LEMMA ReversedInt == ASSUME StockInv, NEW t PROVE Reversed(t) \in Int
<1> DEFINE f == [i \in DOMAIN txns |-> IF txns[i].reverses = t THEN txns[i].quantity ELSE 0]
<1>1. DOMAIN txns = 1..Len(txns) /\ Len(txns) \in Nat /\ IsFiniteSet(DOMAIN txns)
      BY FS_Interval DEF StockInv, Inv, Typed
<1>2. \A i \in DOMAIN txns : txns[i] \in TxnRow
      BY <1>1 DEF StockInv, Inv, Typed
<1>3. Finitely(f)
      BY <1>1, <1>2 DEF Finitely, TxnRow
<1> HIDE DEF f
<1> QED BY <1>3, TotalInt DEF Reversed, f

LEMMA StockCreate ==
    ASSUME StockInv, NEW p \in Project, NEW quantity \in Opening, CreateMaterial(p, quantity)
    PROVE  StockInv'
<1>1. quantity \in Nat /\ Opened(quantity) \in MaterialRow
      BY OpeningAssumption, OpenedTyped
<1>2. materials' = [materials EXCEPT ![p] = Opened(quantity)] /\ transfers' = transfers
      /\ requests' = requests /\ stale' = stale /\ materials[p].status = "absent"
      BY DEF CreateMaterial
<1>3. Inv'
      BY StepCreate DEF StockInv
<1>4. InLedger(p) \in Int
      BY LedgerInt
<1>5. Sound(materials[p], InLedger(p)) => InLedger(p) = 0
      BY <1>2 DEF StockInv, NothingAbsent, Sound
<1>6. Sound(Opened(quantity), quantity) /\ Opened(quantity).status = "live"
      BY <1>1, OpenedSound
<1>7. CASE quantity > 0
      <2> DEFINE l == Line("PURCHASE", p, quantity)
      <2>1. l \in TxnRow /\ l.project = p /\ l.quantity = quantity /\ l.reverses = 0
            BY <1>1, LineTyped DEF TxnType, Line
      <2>2. Record(<<l>>)
            BY <1>7 DEF CreateMaterial
      <2> HIDE DEF l
      <2>3. Records(l)
            BY <2>1, <2>2, RecordOne DEF StockInv, Inv, Typed
      <2>4. Sound(materials[p], InLedger(p)) => Sound(Opened(quantity), InLedger(p) + l.quantity)
            BY <1>1, <1>5, <1>6, <2>1
      <2>5. stale \subseteq stale' /\ stale' \subseteq Project
            BY <1>2 DEF StockInv
      <2> QED BY <1>1, <1>2, <1>3, <1>6, <2>1, <2>3, <2>4, <2>5, StockOneLine
<1>8. CASE ~(quantity > 0)
      <2>1. quantity = 0 /\ txns' = txns
            BY <1>1, <1>8 DEF CreateMaterial
      <2>2. RequestsRead' /\ PendingMoves'
            BY <1>2, RequestsStay, TransfersStay DEF StockInv
      <2>3. stale \subseteq stale' /\ stale' \subseteq Project
            BY <1>2 DEF StockInv
      <2>4. \A q \in Project : materials'[q] = IF q = p THEN Opened(0) ELSE materials[q]
            BY <1>2, <2>1 DEF StockInv, Inv, Typed
      <2>5. Sound(materials[p], InLedger(p)) => Sound(Opened(0), InLedger(p))
            BY <1>5, <1>6, <2>1
      <2>6. ASSUME NEW q \in Project
            PROVE  /\ materials'[q].status = "absent" => materials'[q].remaining = 0
                   /\ Sound(materials[q], InLedger(q)) => Sound(materials'[q], InLedger(q))
            BY <1>6, <2>1, <2>4, <2>5 DEF StockInv, NothingAbsent
      <2> QED BY <1>3, <2>1, <2>2, <2>3, <2>6, StockNoLine
<1> QED BY <1>7, <1>8

LEMMA StockDelete ==
    ASSUME StockInv, NEW p \in Project, DeleteMaterial(p)
    PROVE  StockInv'
<1>1. Inv' /\ txns' = txns /\ stale' = stale /\ RequestsRead' /\ PendingMoves'
      BY StepDelete, RequestsStay, TransfersStay DEF StockInv, DeleteMaterial
<1>2. ASSUME NEW q \in Project
      PROVE  /\ materials'[q].status = "absent" => materials'[q].remaining = 0
             /\ Sound(materials[q], InLedger(q)) => Sound(materials'[q], InLedger(q))
      <2>1. materials[p] \in MaterialRow
            BY DEF StockInv, Inv, Typed
      <2>2. materials'[q] = IF q = p THEN [materials[p] EXCEPT !.status = "deleted"] ELSE materials[q]
            BY DEF StockInv, Inv, Typed, DeleteMaterial
      <2> QED BY <2>1, <2>2 DEF StockInv, NothingAbsent, Sound, MaterialRow
<1>3. stale \subseteq stale' /\ stale' \subseteq Project
      BY <1>1 DEF StockInv
<1> QED BY <1>1, <1>2, <1>3, StockNoLine

LEMMA StockUsage ==
    ASSUME StockInv, NEW p \in Project, NEW quantity \in Quantity, Usage(p, quantity)
    PROVE  StockInv'
<1> DEFINE l == Line("USAGE", p, -quantity)
           row == UsedUp(materials[p], quantity)
<1>1. quantity \in Nat /\ materials[p] \in MaterialRow
      BY QuantityAssumption DEF StockInv, Inv, Typed
<1>2. row \in MaterialRow /\ row.status = "live"
      <2>1. Taken(materials[p], quantity) \in MaterialRow
            /\ Taken(materials[p], quantity).status = "live"
            BY <1>1, TakenTyped DEF Usage, Live
      <2>2. Remainder(materials[p].remaining, quantity) \in Nat
            BY <1>1, RemainderNat DEF MaterialRow
      <2> QED BY <2>1, <2>2 DEF UsedUp, MaterialRow
<1>3. l \in TxnRow /\ l.project = p /\ l.quantity = -quantity /\ l.reverses = 0
      BY <1>1, LineTyped DEF TxnType, Line
<1>4. /\ materials' = [materials EXCEPT ![p] = row] /\ transfers' = transfers
      /\ requests' = requests /\ stale' = stale /\ Record(<<l>>)
      /\ materials[p].remaining >= quantity
      BY DEF Usage, Suffices
<1>5. Sound(materials[p], InLedger(p)) => Sound(row, InLedger(p) + l.quantity)
      BY <1>1, <1>3, <1>4, LedgerInt, UsedUpSound
<1> HIDE DEF l, row
<1>6. Records(l)
      BY <1>3, <1>4, RecordOne DEF StockInv, Inv, Typed
<1>7. Inv' /\ stale \subseteq stale' /\ stale' \subseteq Project
      BY <1>4, StepUsage DEF StockInv
<1> QED BY <1>2, <1>3, <1>4, <1>5, <1>6, <1>7, StockOneLine

LEMMA StockCreateTransfer ==
    ASSUME StockInv, NEW f \in Transfer, NEW from \in Project, NEW to \in Project,
           NEW quantity \in Quantity, CreateTransfer(f, from, to, quantity)
    PROVE  StockInv'
<1>1. /\ Inv' /\ txns' = txns /\ stale' = stale /\ materials' = materials
      /\ RequestsRead'
      BY StepCreateTransfer, RequestsStay DEF StockInv, CreateTransfer
<1>2. PendingMoves'
      BY DEF CreateTransfer, StockInv, PendingMoves, Inv, Typed
<1> QED BY <1>1, <1>2, StockNoLine DEF StockInv, NothingAbsent

LEMMA StockCancelTransfer ==
    ASSUME StockInv, NEW f \in Transfer, CancelTransfer(f)
    PROVE  StockInv'
<1>1. /\ Inv' /\ txns' = txns /\ stale' = stale /\ materials' = materials
      /\ RequestsRead'
      BY StepCancelTransfer, RequestsStay DEF StockInv, CancelTransfer
<1>2. PendingMoves'
      <2>1. transfers[f] \in TransferRow
            BY PendingRow DEF StockInv, Inv, CancelTransfer
      <2>2. \A g \in Transfer : transfers'[g] =
               IF g = f THEN [transfers[f] EXCEPT !.status = "CANCELLED"] ELSE transfers[g]
            BY DEF CancelTransfer, StockInv, Inv, Typed
      <2> QED BY <2>1, <2>2 DEF StockInv, PendingMoves, TransferRow
<1> QED BY <1>1, <1>2, StockNoLine DEF StockInv, NothingAbsent

\* The source's row and the destination's follow one line each.
LEMMA StockCompleteTransfer ==
    ASSUME StockInv, NEW f \in Transfer, CompleteTransfer(f)
    PROVE  StockInv'
<1> DEFINE from == transfers[f].from
           to == transfers[f].to
           quantity == transfers[f].quantity
           n == Len(txns)
           given == Refreshed(Taken(materials[from], quantity))
           gets == Received(materials[to], quantity)
<1>1. /\ transfers[f] \in TransferRow /\ transfers[f].status = "PENDING"
      /\ OutOf(f) \in TxnRow /\ Into(f) \in TxnRow
      /\ txns' \in Seq(TxnRow) /\ Len(txns') = n + 2
      /\ \A t \in 1..n : txns'[t] = txns[t]
      /\ txns'[n + 1] = OutOf(f) /\ txns'[n + 2] = Into(f)
      BY TransferRecords DEF StockInv
<1>2. from \in Project /\ to \in Project /\ quantity \in Nat /\ from # to /\ n \in Nat
      BY <1>1 DEF TransferRow, StockInv, PendingMoves, Inv, Typed
<1>3. /\ OutOf(f).type # "USAGE" /\ Into(f).type # "USAGE"
      /\ OutOf(f).reverses = 0 /\ Into(f).reverses = 0
      BY DEF OutOf, Into, TransferLine, Line
<1>4. /\ \A p \in Project :
           /\ InLedger(p) \in Int
           /\ InLedger(p)' = InLedger(p) + (IF p = from THEN -quantity ELSE 0)
                                         + (IF p = to THEN quantity ELSE 0)
      /\ \A t \in Nat \ {0} : Reversed(t)' = Reversed(t)
      BY <1>2, TransferCounts DEF StockInv
<1>5. /\ \A t \in 1..Len(txns') : t \in 1..n \/ t = n + 1 \/ t = n + 2
      /\ \A t \in 1..n : t \in 1..Len(txns') /\ t \in Nat \ {0}
      BY <1>1, <1>2
<1>6. materials[from] \in MaterialRow /\ materials[to] \in MaterialRow
      BY <1>2 DEF StockInv, Inv, Typed
<1>7. /\ materials[from].status = "live" /\ materials[from].remaining >= quantity
      /\ materials[to].status # "deleted" /\ stale' = stale /\ requests' = requests
      BY DEF CompleteTransfer, Live, Suffices
<1>8. given \in MaterialRow /\ given.status = "live"
      BY <1>2, <1>6, <1>7, TakenTyped, RefreshedTyped
<1>9. gets \in MaterialRow /\ gets.status = "live"
      BY <1>2, <1>6, BoughtTyped, OpenedTyped, OpenedSound DEF Received
<1>10. Sound(materials[from], InLedger(from)) => Sound(given, InLedger(from) + (-quantity))
      BY <1>2, <1>4, <1>6, <1>7, GivenSound
<1>11. Sound(materials[to], InLedger(to)) => Sound(gets, InLedger(to) + quantity)
      <2>1. CASE materials[to].status = "live"
            BY <1>2, <1>4, <1>6, <2>1, BoughtSound DEF Received
      <2>2. CASE materials[to].status # "live"
            <3>1. materials[to].status = "absent"
                  BY <1>6, <1>7, <2>2 DEF MaterialRow
            <3>2. Sound(materials[to], InLedger(to)) => InLedger(to) = 0
                  BY <1>2, <3>1 DEF StockInv, NothingAbsent, Sound
            <3>3. gets = Opened(quantity) /\ Sound(Opened(quantity), quantity)
                  BY <1>2, <2>2, OpenedSound DEF Received
            <3> HIDE DEF gets, quantity, to
            <3> QED BY <1>2, <3>2, <3>3
      <2> QED BY <2>1, <2>2
<1>12. \A p \in Project : materials'[p] =
          IF p = to THEN gets ELSE IF p = from THEN given ELSE materials[p]
      BY <1>2 DEF CompleteTransfer, StockInv, Inv, Typed
<1>13. Inv'
      BY StepCompleteTransfer DEF StockInv
<1>14. PendingMoves'
      <2>1. \A g \in Transfer : transfers'[g] =
               IF g = f THEN [transfers[f] EXCEPT !.status = "COMPLETED"] ELSE transfers[g]
            BY DEF CompleteTransfer, StockInv, Inv, Typed
      <2> QED BY <1>1, <2>1 DEF StockInv, PendingMoves, TransferRow
<1> HIDE DEF given, gets, from, to, quantity
<1>15. NothingAbsent'
      BY <1>8, <1>9, <1>12 DEF StockInv, NothingAbsent
<1>16. ReversesEarlier'
      <2>1. ASSUME NEW t \in 1..Len(txns') PROVE txns'[t].reverses < t
            BY <1>1, <1>2, <1>3, <1>5 DEF StockInv, ReversesEarlier
      <2> QED BY <2>1 DEF ReversesEarlier
<1>17. StockMatchesLedger'
      <2> SUFFICES ASSUME NEW p \in Project \ stale', ~FoundMore(p)'
                   PROVE  Sound(materials'[p], InLedger(p)')
          BY DEF StockMatchesLedger, Sound
      <2>1. ~FoundMore(p)
            BY <1>1, <1>5 DEF FoundMore
      <2>2. Sound(materials[p], InLedger(p))
            BY <1>7, <2>1 DEF StockInv, StockAddsUp, StockMatchesLedger, Sound
      <2>3. CASE p = from
            BY <1>2, <1>4, <1>10, <1>12, <2>2, <2>3
      <2>4. CASE p = to
            BY <1>2, <1>4, <1>11, <1>12, <2>2, <2>4
      <2>5. CASE p # from /\ p # to
            BY <1>4, <1>12, <2>2, <2>5
      <2> QED BY <2>3, <2>4, <2>5
<1>18. ReversedAtMostTaken'
      <2> SUFFICES ASSUME NEW t \in 1..Len(txns'), txns'[t].type = "USAGE",
                          txns'[t].quantity < 0, txns'[t].project \notin stale'
                   PROVE  Reversed(t)' <= -txns'[t].quantity
          BY DEF ReversedAtMostTaken, IsUsage
      <2>1. t \in 1..n
            BY <1>1, <1>3, <1>5
      <2>2. Reversed(t) <= -txns[t].quantity
            BY <1>1, <1>7, <2>1 DEF StockInv, StockAddsUp, ReversedAtMostTaken, IsUsage
      <2> QED BY <1>1, <1>4, <1>5, <2>1, <2>2
<1>19. RequestsRead' /\ stale' \subseteq Project
      BY <1>7, RequestsStay DEF StockInv
<1> QED BY <1>13, <1>14, <1>15, <1>16, <1>17, <1>18, <1>19 DEF StockInv, StockAddsUp

LEMMA StockBegin ==
    ASSUME StockInv, NEW r \in Request, Begin(r)
    PROVE  StockInv'
<1>1. materials' = materials /\ transfers' = transfers /\ txns' = txns /\ stale' = stale
      BY DEF Begin, BeginOnMaterial, BeginReverse
<1>2. RequestsRead'
      <2>1. CASE \E p \in Project, op \in {"purchase", "adjust", "update"} : BeginOnMaterial(r, op, p)
            <3>1. PICK p \in Project, op \in {"purchase", "adjust", "update"} : BeginOnMaterial(r, op, p)
                  BY <2>1
            <3>2. materials[p] \in MaterialRow
                  BY DEF StockInv, Inv, Typed
            <3> QED BY <3>1, <3>2 DEF BeginOnMaterial, Start, StockInv, RequestsRead
      <2>2. CASE \E t \in 1..Len(txns) : BeginReverse(r, t)
            <3>1. PICK t \in 1..Len(txns) : BeginReverse(r, t)
                  BY <2>2
            <3>2. Reversed(t) \in Int /\ t \in Nat \ {0}
                  BY ReversedInt DEF StockInv, Inv, Typed
            <3> QED BY <3>1, <3>2 DEF BeginReverse, Start, StockInv, RequestsRead
      <2> QED BY <2>1, <2>2 DEF Begin
<1>3. Inv' /\ PendingMoves'
      BY <1>1, StepBegin, TransfersStay DEF StockInv
<1> QED BY <1>1, <1>2, <1>3, StockNoLine DEF StockInv, NothingAbsent

LEMMA StockAbort ==
    ASSUME StockInv, NEW r \in Request, Abort(r)
    PROVE  StockInv'
<1>1. /\ Inv' /\ RequestsRead' /\ PendingMoves'
      /\ materials' = materials /\ txns' = txns /\ stale' = stale
      BY StepAbort, RequestsStay, TransfersStay DEF StockInv, Abort
<1> QED BY <1>1, StockNoLine DEF StockInv, NothingAbsent

\* What purchase, adjustment and update write follows their line, unless the row was
\* outdated when they wrote it.
LEMMA StockWrite ==
    ASSUME StockInv, Inv', NEW r \in Request, requests[r].op \in {"purchase", "adjust", "update"},
           Found(requests[r].project), NEW new \in MaterialRow, Write(r, new),
           new.status = requests[r].seen.status,
           NEW l \in TxnRow, Records(l), l.project = requests[r].project, l.reverses = 0,
           materials[requests[r].project] = requests[r].seen
               /\ ~(l.type = "ADJUSTMENT" /\ l.quantity > 0)
               /\ Sound(requests[r].seen, InLedger(requests[r].project))
               => Sound(new, InLedger(requests[r].project) + l.quantity)
    PROVE  StockInv'
<1> DEFINE p == requests[r].project
           seen == requests[r].seen
           row == Flushed(materials[p], seen, new)
<1>1. p \in Project /\ seen \in MaterialRow /\ materials[p] \in MaterialRow
      BY OnMaterialRows DEF StockInv
<1>2. row \in MaterialRow /\ row.status = "live"
      BY <1>1, FlushedTyped, FlushedInUse DEF Found, Live
<1>3. /\ materials' = [materials EXCEPT ![p] = row] /\ transfers' = transfers /\ Done(r)
      /\ stale \subseteq stale' /\ stale' \subseteq Project
      /\ p \notin stale' => materials[p] = seen
      BY <1>1 DEF Write, StockInv
<1>4. materials[p] = seen => row = new
      BY <1>1, FlushedIsNew
<1> HIDE DEF row
<1>5. p \notin stale' /\ ~(l.type = "ADJUSTMENT" /\ l.quantity > 0) /\ Sound(materials[p], InLedger(p))
          => Sound(row, InLedger(p) + l.quantity)
      BY <1>3, <1>4
<1> QED BY <1>1, <1>2, <1>3, <1>5, StockOneLine

LEMMA StockPurchase ==
    ASSUME StockInv, NEW r \in Request, NEW quantity \in Quantity, CommitPurchase(r, quantity)
    PROVE  StockInv'
<1> DEFINE l == Line("PURCHASE", requests[r].project, quantity)
           new == Bought(requests[r].seen, quantity)
<1>1. requests[r].op \in {"purchase", "adjust", "update"} /\ quantity \in Nat
      BY QuantityAssumption DEF CommitPurchase
<1>2. requests[r].project \in Project /\ requests[r].seen \in MaterialRow
      BY <1>1, OnMaterialRows DEF StockInv
<1>3. new \in MaterialRow /\ new.status = requests[r].seen.status
      BY <1>1, <1>2, BoughtTyped
<1>4. l \in TxnRow /\ l.project = requests[r].project /\ l.reverses = 0 /\ l.quantity = quantity
      BY <1>1, <1>2, LineTyped DEF TxnType, Line
<1>5. Found(requests[r].project) /\ Write(r, new) /\ Record(<<l>>)
      BY DEF CommitPurchase
<1>6. Sound(requests[r].seen, InLedger(requests[r].project))
          => Sound(new, InLedger(requests[r].project) + l.quantity)
      BY <1>1, <1>2, <1>4, LedgerInt, BoughtSound
<1> HIDE DEF l, new
<1>7. Inv' /\ Records(l)
      BY <1>4, <1>5, StepPurchase, RecordOne DEF StockInv, Inv, Typed
<1> QED BY <1>1, <1>3, <1>4, <1>5, <1>6, <1>7, StockWrite

LEMMA StockAdjust ==
    ASSUME StockInv, NEW r \in Request, NEW count \in Count, CommitAdjust(r, count)
    PROVE  StockInv'
<1> DEFINE seen == requests[r].seen
           l == Line("ADJUSTMENT", requests[r].project, count - seen.remaining)
           new == Counted(seen, count)
<1>1. requests[r].op \in {"purchase", "adjust", "update"} /\ count \in Nat
      BY CountAssumption DEF CommitAdjust
<1>2. requests[r].project \in Project /\ seen \in MaterialRow /\ seen.remaining \in Nat
      BY <1>1, OnMaterialRows, RowNumbers DEF StockInv
<1>3. new \in MaterialRow /\ new.status = seen.status
      <2>1. Taken(seen, Remainder(seen.remaining, count)) \in MaterialRow
            /\ Taken(seen, Remainder(seen.remaining, count)).status = seen.status
            BY <1>1, <1>2, RemainderNat, TakenTyped
      <2> QED BY <1>1, <2>1 DEF Counted, MaterialRow
<1>4. /\ l \in TxnRow /\ l.project = requests[r].project /\ l.reverses = 0
      /\ l.quantity = count - seen.remaining /\ l.type = "ADJUSTMENT"
      BY <1>1, <1>2, LineTyped DEF TxnType, Line
<1>5. Found(requests[r].project) /\ Write(r, new) /\ Record(<<l>>)
      BY DEF CommitAdjust
<1>6. ~(l.type = "ADJUSTMENT" /\ l.quantity > 0) /\ Sound(seen, InLedger(requests[r].project))
          => Sound(new, InLedger(requests[r].project) + l.quantity)
      <2>1. ~(l.quantity > 0) => count <= seen.remaining
            BY <1>1, <1>2, <1>4
      <2>2. InLedger(requests[r].project) \in Int
            BY <1>2, LedgerInt
      <2> QED BY <1>1, <1>2, <1>4, <2>1, <2>2, CountedSound
<1> HIDE DEF l, new
<1>7. Inv' /\ Records(l)
      BY <1>4, <1>5, StepAdjust, RecordOne DEF StockInv, Inv, Typed
<1> QED BY <1>1, <1>3, <1>4, <1>5, <1>6, <1>7, StockWrite

LEMMA StockUpdate ==
    ASSUME StockInv, NEW r \in Request, CommitUpdate(r)
    PROVE  StockInv'
<1> DEFINE p == requests[r].project
           seen == requests[r].seen
           new == Refreshed(seen)
           row == Flushed(materials[p], seen, new)
<1>1. requests[r].op \in {"purchase", "adjust", "update"}
      BY DEF CommitUpdate
<1>2. p \in Project /\ seen \in MaterialRow /\ materials[p] \in MaterialRow
      BY <1>1, OnMaterialRows DEF StockInv
<1>3. new \in MaterialRow /\ new.status = seen.status
      BY <1>2, RefreshedTyped
<1>4. row.status = "live"
      BY <1>2, <1>3, FlushedInUse DEF CommitUpdate, Found, Live
<1>5. /\ materials' = [materials EXCEPT ![p] = row] /\ transfers' = transfers /\ Done(r)
      /\ stale \subseteq stale' /\ stale' \subseteq Project /\ txns' = txns
      /\ p \notin stale' => materials[p] = seen
      BY <1>2 DEF CommitUpdate, Write, StockInv
<1>6. materials[p] = seen => row = new
      BY <1>2, <1>3, FlushedIsNew
<1>7. Sound(seen, InLedger(p)) => Sound(new, InLedger(p))
      BY <1>2, LedgerInt, RefreshedSound
<1> HIDE DEF row, new
<1>8. ASSUME NEW q \in Project
      PROVE  /\ materials'[q].status = "absent" => materials'[q].remaining = 0
             /\ q \notin stale' /\ Sound(materials[q], InLedger(q))
                   => Sound(materials'[q], InLedger(q))
      <2>1. materials'[q] = IF q = p THEN row ELSE materials[q]
            BY <1>5 DEF StockInv, Inv, Typed
      <2> QED BY <1>4, <1>5, <1>6, <1>7, <2>1 DEF StockInv, NothingAbsent
<1>9. Inv' /\ RequestsRead' /\ PendingMoves'
      BY <1>5, StepUpdate, RequestsStay, TransfersStay DEF StockInv
<1> QED BY <1>5, <1>8, <1>9, StockNoLine

\* A reversal counts what was reversed before when it begins; if that is still right
\* when it commits, no more comes back than was taken.
LEMMA StockReverse ==
    ASSUME StockInv, NEW r \in Request, NEW quantity \in Quantity, CommitReverse(r, quantity)
    PROVE  StockInv'
<1> DEFINE t == requests[r].txn
           p == txns[t].project
           l == ReversalLine(p, quantity, t)
           row == Returned(materials[p], quantity)
<1>1. t \in 1..Len(txns) /\ quantity \in Nat \ {0} /\ requests[r].reversed \in Int
      <2>1. requests[r].op = "reverse"
            BY DEF CommitReverse
      <2> QED BY <2>1, QuantityAssumption
             DEF StockInv, Inv, Typed, RequestTyped, RequestsRead, OnMaterial, Idle
<1>2. txns[t] \in TxnRow /\ t \in Nat
      BY <1>1 DEF StockInv, Inv, Typed
<1>3. p \in Project /\ materials[p] \in MaterialRow /\ txns[t].quantity \in Int
      BY <1>2 DEF TxnRow, StockInv, Inv, Typed
<1>4. /\ materials[p].status = "live" /\ materials[p].used >= quantity
      /\ materials' = [materials EXCEPT ![p] = row] /\ transfers' = transfers /\ Done(r)
      /\ Record(<<l>>)
      /\ stale \subseteq stale' /\ stale' \subseteq Project
      /\ p \notin stale' => Reversed(t) = requests[r].reversed
      /\ quantity <= -txns[t].quantity - requests[r].reversed
      BY <1>3 DEF CommitReverse, Live, Reversible, StockInv
<1>5. row \in MaterialRow /\ row.status = "live"
      <2>1. materials[p].used - quantity \in Nat
            BY <1>1, <1>3, <1>4, RowNumbers
      <2>2. \A u \in Nat : /\ [materials[p] EXCEPT !.used = u] \in MaterialRow
                           /\ [materials[p] EXCEPT !.used = u].status = "live"
            BY <1>3, <1>4 DEF MaterialRow
      <2> QED BY <2>1, <2>2, RefreshedTyped DEF Returned
<1>6. l \in TxnRow /\ l.project = p /\ l.quantity = quantity /\ l.reverses = t
      BY <1>1, <1>2, <1>3 DEF ReversalLine, Line, TxnRow, TxnType
<1>7. Sound(materials[p], InLedger(p)) => Sound(row, InLedger(p) + quantity)
      BY <1>1, <1>3, <1>4, LedgerInt, ReturnedSound
<1>8. p \notin stale' => Reversed(t) + quantity <= -txns[t].quantity
      <2>1. PICK a \in Int, b \in Int : a = requests[r].reversed /\ b = txns[t].quantity
            BY <1>1, <1>3
      <2>2. quantity <= -b - a => a + quantity <= -b
            BY <1>1
      <2> QED BY <1>4, <2>1, <2>2
<1> HIDE DEF l, row
<1>9. Inv' /\ Records(l)
      BY <1>4, <1>6, StepReverse, RecordOne DEF StockInv, Inv, Typed
<1>10. p \notin stale' => Reversed(l.reverses) + l.quantity <= -txns[l.reverses].quantity
      BY <1>6, <1>8
<1>11. l.reverses \in 1..Len(txns) /\ l.quantity > 0 /\ p = txns[l.reverses].project
      BY <1>1, <1>6
<1>12. Sound(materials[p], InLedger(p)) => Sound(row, InLedger(p) + l.quantity)
      BY <1>6, <1>7
<1> HIDE DEF p, t
<1> QED BY <1>3, <1>4, <1>5, <1>6, <1>9, <1>10, <1>11, <1>12, StockOneLine

LEMMA StockNextInv == StockInv /\ [Next]_vars => StockInv'
<1> SUFFICES ASSUME StockInv, [Next]_vars PROVE StockInv'
    OBVIOUS
<1>1. CASE \E p \in Project : MaterialStep(p)
      BY <1>1, StockCreate, StockDelete, StockUsage DEF MaterialStep
<1>2. CASE \E f \in Transfer : TransferStep(f)
      BY <1>2, StockCreateTransfer, StockCompleteTransfer, StockCancelTransfer DEF TransferStep
<1>3. CASE \E r \in Request : Begin(r) \/ Commit(r) \/ Abort(r)
      BY <1>3, StockBegin, StockAbort, StockPurchase, StockAdjust, StockUpdate, StockReverse DEF Commit
<1>4. CASE UNCHANGED vars
      <2>1. Inv' /\ txns' = txns /\ stale' = stale /\ materials' = materials
            BY <1>4, StutterInv DEF StockInv, vars
      <2>2. RequestsRead' /\ PendingMoves'
            BY <1>4, RequestsStay, TransfersStay DEF StockInv, vars
      <2> QED BY <2>1, <2>2, StockNoLine DEF StockInv, NothingAbsent
<1> QED BY <1>1, <1>2, <1>3, <1>4 DEF Next

\* The stock of a material is what was purchased less what was used and what its lines
\* add up to, and no more of a usage comes back than was taken, except where a count
\* found more or a request wrote over another's row (purchase, usage,
\* adjust_inventory, update_material, update_transfer_status, reverse_usage).
THEOREM StockAddsUpAlways == Spec => [](TypeOK /\ StockAddsUp)
<1>1. StockInv => TypeOK /\ StockAddsUp
      BY StockTypeOK DEF StockInv
<1> QED BY <1>1, StockInitInv, StockNextInv, PTL DEF Spec

-----------------------------------------------------------------------------
\* What is claimed is there: the measurement of a claim exists, unless it was
\* deleted under a bill, and an invoice keeps its measurement.
ClaimsAreMeasured ==
    /\ \A c \in Claim : Claimed(c) /\ claims[c].measurement \in Measurement
           => Exists(claims[c].measurement)
    /\ \A i \in Invoice : Claimed(i) => claims[i].measurement \in Measurement

\* A measurement that was never put back is BILLED under its only claim.
BilledUnderClaim ==
    \A m \in Measurement \ reopened : \A c \in ClaimsOf(m, claims) :
        /\ measurements[m].status = "BILLED"
        /\ \A d \in ClaimsOf(m, claims) : c = d

BillingInv == BillingTypeOK /\ ClaimsAreMeasured /\ BilledUnderClaim

-----------------------------------------------------------------------------
LEMMA BillingInitInv == BillingInit => BillingInv
<1> SUFFICES ASSUME BillingInit PROVE BillingInv OBVIOUS
<1>1. BillingTypeOK
  BY DEF BillingInit, BillingTypeOK
<1>2. ClaimsAreMeasured /\ BilledUnderClaim
  BY DEF BillingInit, ClaimsAreMeasured, BilledUnderClaim, Claimed, ClaimsOf, Claim
<1> QED BY <1>1, <1>2 DEF BillingInv

\* Writing a status keeps the types, and what is claimed of a measurement that is
\* not put back.
LEMMA StatusSet ==
    ASSUME BillingInv, NEW m \in Measurement, NEW status \in MeasurementStatus,
           Exists(m), SetStatus(m, status)
    PROVE  /\ measurements' \in [Measurement -> FinalMeasurementRow \cup {NoRow}]
           /\ reopened' \subseteq Measurement
           /\ \A n \in Measurement : /\ measurements'[n] # NoRow <=> measurements[n] # NoRow
                                     /\ n \notin reopened' => n \notin reopened
                                     /\ n \notin reopened' /\ n = m => measurements[n].status # "BILLED"
                                     /\ n # m => measurements'[n] = measurements[n]
                                     /\ measurements[n] # NoRow =>
                                            measurements'[n].quantity = measurements[n].quantity
BY DEF BillingInv, BillingTypeOK, SetStatus, Exists, FinalMeasurementRow, NoRow, MeasurementStatus

\* A step that writes one status and leaves the claims alone.
LEMMA StatusKeepsClaims ==
    ASSUME BillingInv, NEW m \in Measurement, NEW status \in MeasurementStatus,
           Exists(m), SetStatus(m, status), UNCHANGED claims
    PROVE  ClaimsAreMeasured' /\ BilledUnderClaim'
<1>1. ClaimsAreMeasured'
  BY StatusSet DEF BillingInv, ClaimsAreMeasured, Claimed, Exists
<1>2. BilledUnderClaim'
  BY StatusSet DEF BillingInv, BilledUnderClaim, ClaimsOf
<1> QED BY <1>1, <1>2

LEMMA CreateMeasurementInv ==
    ASSUME BillingInv, NEW m \in Measurement, NEW q \in Measured, CreateMeasurement(m, q)
    PROVE  BillingInv'
<1>1. BillingTypeOK'
  BY DEF BillingInv, BillingTypeOK, CreateMeasurement, FinalMeasurementRow, MeasurementStatus
<1>2. \A n \in Measurement : n # m => measurements'[n] = measurements[n]
  BY DEF BillingInv, BillingTypeOK, CreateMeasurement
<1>3. measurements'[m] # NoRow
  BY DEF BillingInv, BillingTypeOK, CreateMeasurement, NoRow
<1>4. ClaimsAreMeasured'
  BY <1>2, <1>3 DEF BillingInv, ClaimsAreMeasured, CreateMeasurement, Claimed, Exists
<1>5. ClaimsOf(m, claims) = {}
  BY DEF BillingInv, ClaimsAreMeasured, CreateMeasurement, ClaimsOf, Claimed, Exists
<1>6. BilledUnderClaim'
  BY <1>2, <1>5 DEF BillingInv, BilledUnderClaim, CreateMeasurement, ClaimsOf
<1> QED BY <1>1, <1>4, <1>6 DEF BillingInv

LEMMA UpdateMeasurementInv ==
    ASSUME BillingInv, NEW m \in Measurement, NEW q \in Measured, UpdateMeasurement(m, q)
    PROVE  BillingInv'
<1>1. measurements[m] \in FinalMeasurementRow
  BY DEF BillingInv, BillingTypeOK, UpdateMeasurement, Unlocked, Exists
<1>2. measurements'[m] \in FinalMeasurementRow /\ measurements'[m].status = measurements[m].status
  BY <1>1 DEF BillingInv, BillingTypeOK, UpdateMeasurement, FinalMeasurementRow
<1>3. \A n \in Measurement : n # m => measurements'[n] = measurements[n]
  BY DEF BillingInv, BillingTypeOK, UpdateMeasurement
<1>4. BillingTypeOK'
  BY <1>2, <1>3 DEF BillingInv, BillingTypeOK, UpdateMeasurement
<1>5. measurements'[m] # NoRow
  BY <1>2 DEF FinalMeasurementRow, MeasurementStatus, NoRow
<1>6. ClaimsAreMeasured'
  BY <1>3, <1>5 DEF BillingInv, ClaimsAreMeasured, UpdateMeasurement, Claimed, Exists
<1>7. BilledUnderClaim'
  BY <1>2, <1>3 DEF BillingInv, BilledUnderClaim, UpdateMeasurement, ClaimsOf
<1> QED BY <1>4, <1>6, <1>7 DEF BillingInv

LEMMA DeleteMeasurementInv ==
    ASSUME BillingInv, NEW m \in Measurement, DeleteMeasurement(m)
    PROVE  BillingInv'
<1>1. \A n \in Measurement : n # m => measurements'[n] = measurements[n]
  BY DEF BillingInv, BillingTypeOK, DeleteMeasurement
<1>2. \A c \in Claim :
        /\ claims[c] = NoRow => claims'[c] = NoRow
        /\ claims[c] # NoRow /\ claims[c].measurement = m =>
               claims'[c] \in ClaimRow /\ claims'[c].measurement = NoMeasurement /\ c \notin Invoice
        /\ claims[c] # NoRow /\ claims[c].measurement # m => claims'[c] = claims[c]
  BY DEF BillingInv, BillingTypeOK, DeleteMeasurement, Unlocked, InvoicesOf, ClaimsOf, ClaimRow, NoRow
<1>3. BillingTypeOK'
  BY <1>2 DEF BillingInv, BillingTypeOK, DeleteMeasurement
<1>4. ClaimsAreMeasured'
  BY <1>1, <1>2, MeasuredAssumption
     DEF BillingInv, ClaimsAreMeasured, Claimed, Exists, Claim
<1>5. /\ reopened' = reopened \ {m}
      /\ \A n \in Measurement : n # m => ClaimsOf(n, claims)' \subseteq ClaimsOf(n, claims)
      /\ ClaimsOf(m, claims)' = {}
  BY <1>2, MeasuredAssumption DEF DeleteMeasurement, ClaimsOf, ClaimRow
<1>6. BilledUnderClaim'
  BY <1>1, <1>5 DEF BillingInv, BilledUnderClaim
<1> QED BY <1>3, <1>4, <1>6 DEF BillingInv

LEMMA SubmitMeasurementInv ==
    ASSUME BillingInv, NEW m \in Measurement, NEW u \in Staff, SubmitMeasurement(m, u)
    PROVE  BillingInv'
<1>1. SetStatus(m, "SUBMITTED") /\ Exists(m) /\ UNCHANGED <<claims, billing>>
  BY DEF SubmitMeasurement
<1>2. BillingTypeOK'
  BY <1>1, StatusSet DEF BillingInv, BillingTypeOK, SubmitMeasurement, MeasurementStatus, Entity
<1> QED BY <1>1, <1>2, StatusKeepsClaims DEF BillingInv, MeasurementStatus

LEMMA CreateApprovalInv ==
    ASSUME BillingInv, NEW e \in Entity, NEW u \in Staff, CreateApproval(e, u)
    PROVE  BillingInv'
<1>1. approvals' \in [Entity -> Staff \cup {Nobody}] /\ UNCHANGED <<claims, billing>>
  BY DEF BillingInv, BillingTypeOK, CreateApproval
<1>2. CASE e \in Measurement
  <2>1. SetStatus(e, "SUBMITTED") /\ Exists(e) BY <1>2 DEF CreateApproval
  <2>2. BillingTypeOK'
    BY <1>1, <1>2, <2>1, StatusSet DEF BillingInv, BillingTypeOK, MeasurementStatus
  <2> QED BY <1>1, <1>2, <2>1, <2>2, StatusKeepsClaims DEF BillingInv, MeasurementStatus
<1>3. CASE e \notin Measurement
  <2>1. UNCHANGED <<measurements, reopened>> BY <1>3 DEF CreateApproval
  <2> QED BY <1>1, <2>1 DEF BillingInv, BillingTypeOK, ClaimsAreMeasured, BilledUnderClaim,
                            Claimed, Exists, ClaimsOf
<1> QED BY <1>2, <1>3

\* What is written of a bill never touches its measurement.
LEMMA BillKept ==
    ASSUME BillingInv, NEW b \in Claim, Claimed(b), claims' \in [Claim -> ClaimRow \cup {NoRow}],
           claims'[b] # NoRow, claims'[b].measurement = claims[b].measurement,
           \A c \in Claim : c # b => claims'[c] = claims[c],
           UNCHANGED <<measurements, billing, reopened>>,
           approvals' \in [Entity -> Staff \cup {Nobody}]
    PROVE  BillingInv'
<1>1. BillingTypeOK'
  BY DEF BillingInv, BillingTypeOK
<1>2. ClaimsAreMeasured'
  BY DEF BillingInv, ClaimsAreMeasured, Claimed, Exists, Claim
<1>3. \A m \in Measurement : ClaimsOf(m, claims)' = ClaimsOf(m, claims)
  BY DEF ClaimsOf, Claimed
<1>4. BilledUnderClaim'
  BY <1>3 DEF BillingInv, BilledUnderClaim
<1> QED BY <1>1, <1>2, <1>4 DEF BillingInv

LEMMA BillStatusKept ==
    ASSUME BillingInv, NEW b \in Claim, NEW status \in BillStatus, Claimed(b),
           claims' = [claims EXCEPT ![b].status = status],
           UNCHANGED <<measurements, billing, reopened>>,
           approvals' \in [Entity -> Staff \cup {Nobody}]
    PROVE  BillingInv'
<1>1. claims[b] \in ClaimRow
  BY DEF BillingInv, BillingTypeOK, Claimed
<1>2. claims'[b] = [claims[b] EXCEPT !.status = status]
  BY DEF BillingInv, BillingTypeOK
<1>3. claims'[b] \in ClaimRow /\ claims'[b].measurement = claims[b].measurement
  BY <1>1, <1>2 DEF ClaimRow
<1>4. claims'[b] # NoRow
  BY <1>3 DEF ClaimRow, BillStatus, NoRow
<1>5. claims' \in [Claim -> ClaimRow \cup {NoRow}] /\ \A c \in Claim : c # b => claims'[c] = claims[c]
  BY <1>3 DEF BillingInv, BillingTypeOK
<1> QED BY <1>3, <1>4, <1>5, BillKept

LEMMA UpdateBillInv ==
    ASSUME BillingInv, NEW b \in Bill, NEW q \in Measured, NEW s \in BillStatus, UpdateBill(b, q, s)
    PROVE  BillingInv'
<1>1. b \in Claim /\ Claimed(b) /\ claims[b] \in ClaimRow
  BY DEF BillingInv, BillingTypeOK, Claimed, Claim, UpdateBill
<1>2. claims'[b] = [claims[b] EXCEPT !.quantity = q, !.status = s]
  BY <1>1 DEF BillingInv, BillingTypeOK, UpdateBill
<1>3. claims'[b] \in ClaimRow /\ claims'[b].measurement = claims[b].measurement
  BY <1>1, <1>2 DEF ClaimRow
<1>4. claims'[b] # NoRow
  BY <1>3 DEF ClaimRow, BillStatus, NoRow
<1>5. claims' \in [Claim -> ClaimRow \cup {NoRow}] /\ \A c \in Claim : c # b => claims'[c] = claims[c]
  BY <1>3, <1>1 DEF BillingInv, BillingTypeOK, UpdateBill
<1> QED BY <1>1, <1>3, <1>4, <1>5, BillKept DEF UpdateBill, BillingInv, BillingTypeOK

LEMMA DecideInv ==
    ASSUME BillingInv, NEW e \in Entity, NEW u \in Staff, NEW d \in Decision, Decide(e, u, d)
    PROVE  BillingInv'
<1>1. approvals' \in [Entity -> Staff \cup {Nobody}] /\ UNCHANGED billing
  BY DEF BillingInv, BillingTypeOK, Decide
<1>2. CASE e \in Measurement
  <2>1. /\ SetStatus(e, MeasurementDecided(d)) /\ Exists(e) /\ UNCHANGED claims
        /\ MeasurementDecided(d) \in MeasurementStatus
    BY <1>2 DEF Decide, MeasurementDecided, MeasurementStatus
  <2>2. BillingTypeOK'
    BY <1>1, <1>2, <2>1, StatusSet DEF BillingInv, BillingTypeOK
  <2> QED BY <1>1, <1>2, <2>1, <2>2, StatusKeepsClaims DEF BillingInv
<1>3. CASE e \notin Measurement
  <2>1. e \in Claim /\ Claimed(e) BY <1>3 DEF Decide, Entity, Claim
  <2>2. /\ UNCHANGED <<measurements, reopened>>
        /\ claims' = [claims EXCEPT ![e].status = BillDecided(d)]
        /\ BillDecided(d) \in BillStatus
    BY <1>3 DEF Decide, BillDecided, BillStatus
  <2> QED BY <1>1, <2>1, <2>2, BillStatusKept DEF BillingInv
<1> QED BY <1>2, <1>3

LEMMA BeginBillingInv ==
    ASSUME BillingInv, NEW r \in Billing, NEW c \in Claim, NEW m \in Measurement,
           BeginBilling(r, c, m)
    PROVE  BillingInv'
<1>1. BillingTypeOK'
  BY DEF BillingInv, BillingTypeOK, BeginBilling, ClaimsOf
<1> QED BY <1>1 DEF BillingInv, ClaimsAreMeasured, BilledUnderClaim, BeginBilling,
                    Claimed, Exists, ClaimsOf

\* A claim finds its measurement not BILLED, hence without another one unless it
\* was put back.
LEMMA ClaimForInv ==
    ASSUME BillingInv, NEW c \in Claim, NEW m \in Measurement, NEW seen,
           ClaimFor(c, m, seen), UNCHANGED reopened
    PROVE  /\ measurements' \in [Measurement -> FinalMeasurementRow \cup {NoRow}]
           /\ claims' \in [Claim -> ClaimRow \cup {NoRow}]
           /\ ClaimsAreMeasured' /\ BilledUnderClaim'
<1>1. measurements[m] \in FinalMeasurementRow
  BY DEF BillingInv, BillingTypeOK, ClaimFor, Billable, Exists
<1>2. /\ measurements'[m] \in FinalMeasurementRow
      /\ measurements'[m].status = "BILLED"
      /\ measurements'[m] # NoRow
  BY <1>1 DEF BillingInv, BillingTypeOK, ClaimFor, FinalMeasurementRow, MeasurementStatus, NoRow
<1>3. \A n \in Measurement : n # m => measurements'[n] = measurements[n]
  BY DEF BillingInv, BillingTypeOK, ClaimFor
<1>4. measurements' \in [Measurement -> FinalMeasurementRow \cup {NoRow}]
  BY <1>2, <1>3 DEF BillingInv, BillingTypeOK, ClaimFor
<1>5. claims'[c] \in ClaimRow /\ claims'[c].measurement = m /\ claims'[c] # NoRow
  BY <1>1 DEF BillingInv, BillingTypeOK, ClaimFor, ClaimRow, FinalMeasurementRow, BillStatus, NoRow
<1>6. claims[c] = NoRow /\ \A d \in Claim : d # c => claims'[d] = claims[d]
  BY DEF BillingInv, BillingTypeOK, ClaimFor, Claimed
<1>7. claims' \in [Claim -> ClaimRow \cup {NoRow}]
  BY <1>5, <1>6 DEF BillingInv, BillingTypeOK, ClaimFor
<1>8. ClaimsAreMeasured'
  BY <1>2, <1>3, <1>5, <1>6 DEF BillingInv, ClaimsAreMeasured, Claimed, Exists, Claim
<1>9. /\ ClaimsOf(m, claims)' = ClaimsOf(m, claims) \cup {c}
      /\ \A n \in Measurement : n # m => ClaimsOf(n, claims)' = ClaimsOf(n, claims)
  BY <1>5, <1>6 DEF ClaimsOf
<1>10. m \notin reopened => ClaimsOf(m, claims) = {}
  BY DEF BillingInv, BilledUnderClaim, ClaimFor, Billable
<1>11. BilledUnderClaim'
  BY <1>2, <1>3, <1>9, <1>10 DEF BillingInv, BilledUnderClaim
<1> QED BY <1>4, <1>7, <1>8, <1>11

LEMMA ClaimingInv ==
    ASSUME BillingInv, NEW c \in Claim, NEW m \in Measurement, NEW seen, NEW u \in Staff,
           Claiming(c, m, seen, u)
    PROVE  /\ measurements' \in [Measurement -> FinalMeasurementRow \cup {NoRow}]
           /\ claims' \in [Claim -> ClaimRow \cup {NoRow}]
           /\ approvals' \in [Entity -> Staff \cup {Nobody}]
           /\ UNCHANGED reopened
           /\ ClaimsAreMeasured' /\ BilledUnderClaim'
<1>1. ClaimFor(c, m, seen) /\ UNCHANGED reopened
  BY DEF Claiming, CreateBill, CreateInvoiceFromMeasurement
<1>2. approvals' \in [Entity -> Staff \cup {Nobody}]
  BY DEF BillingInv, BillingTypeOK, Claiming, CreateBill, CreateInvoiceFromMeasurement
<1> QED BY <1>1, <1>2, ClaimForInv

LEMMA CommitBillingInv ==
    ASSUME BillingInv, NEW r \in Billing, NEW u \in Staff, CommitBilling(r, u)
    PROVE  BillingInv'
<1>1. billing[r] \in [claim : Claim, measurement : Measurement, seen : SUBSET Claim]
  BY DEF BillingInv, BillingTypeOK, CommitBilling
<1>2. billing[r].claim \in Claim /\ billing[r].measurement \in Measurement
  BY <1>1
<1>3. billing' \in [Billing -> {Idling} \cup
                     [claim : Claim, measurement : Measurement, seen : SUBSET Claim]]
  BY DEF BillingInv, BillingTypeOK, CommitBilling
<1> QED BY <1>2, <1>3, ClaimingInv DEF CommitBilling, BillingInv, BillingTypeOK

LEMMA DeleteClaimInv ==
    ASSUME BillingInv, NEW c \in Claim, DeleteClaim(c)
    PROVE  BillingInv'
<1>1. \A d \in Claim : claims'[d] = IF d = c THEN NoRow ELSE claims[d]
  BY DEF BillingInv, BillingTypeOK, DeleteClaim
<1>2. BillingTypeOK'
  BY <1>1 DEF BillingInv, BillingTypeOK, DeleteClaim
<1>3. ClaimsAreMeasured'
  BY <1>1 DEF BillingInv, ClaimsAreMeasured, DeleteClaim, Claimed, Exists, Claim
<1>4. \A m \in Measurement : ClaimsOf(m, claims)' \subseteq ClaimsOf(m, claims)
  BY <1>1 DEF ClaimsOf
<1>5. BilledUnderClaim'
  BY <1>4 DEF BillingInv, BilledUnderClaim, DeleteClaim
<1> QED BY <1>2, <1>3, <1>5 DEF BillingInv

-----------------------------------------------------------------------------
LEMMA BillingNextInv == BillingInv /\ [BillingNext]_billingVars => BillingInv'
<1> SUFFICES ASSUME BillingInv, [BillingNext]_billingVars PROVE BillingInv' OBVIOUS
<1>1. CASE UNCHANGED billingVars
  BY <1>1 DEF billingVars, BillingInv, BillingTypeOK, ClaimsAreMeasured, BilledUnderClaim,
              Claimed, Exists, ClaimsOf
<1>2. ASSUME NEW m \in Measurement, NEW q \in Measured,
             CreateMeasurement(m, q) \/ UpdateMeasurement(m, q)
      PROVE  BillingInv'
  BY <1>2, CreateMeasurementInv, UpdateMeasurementInv
<1>3. ASSUME NEW m \in Measurement, DeleteMeasurement(m) PROVE BillingInv'
  BY <1>3, DeleteMeasurementInv
<1>4. ASSUME NEW m \in Measurement, VerifyMeasurement(m) \/ RedraftMeasurement(m)
      PROVE  BillingInv'
  <2>1. PICK status \in MeasurementStatus : SetStatus(m, status)
    BY <1>4 DEF VerifyMeasurement, RedraftMeasurement, MeasurementStatus
  <2>2. Exists(m) /\ UNCHANGED <<claims, approvals, billing>>
    BY <1>4 DEF VerifyMeasurement, RedraftMeasurement
  <2>3. BillingTypeOK'
    BY <2>1, <2>2, StatusSet DEF BillingInv, BillingTypeOK
  <2> QED BY <2>1, <2>2, <2>3, StatusKeepsClaims DEF BillingInv
<1>5. ASSUME NEW m \in Measurement, NEW u \in Staff, SubmitMeasurement(m, u) PROVE BillingInv'
  BY <1>5, SubmitMeasurementInv
<1>6. ASSUME NEW m \in Measurement, NEW c \in Claim, NEW u \in Staff, BillMeasurement(c, m, u)
      PROVE  BillingInv'
  BY <1>6, ClaimingInv DEF BillMeasurement, BillingInv, BillingTypeOK
<1>7. ASSUME NEW e \in Entity, NEW u \in Staff, CreateApproval(e, u) PROVE BillingInv'
  BY <1>7, CreateApprovalInv
<1>8. ASSUME NEW e \in Entity, NEW u \in Staff, NEW d \in Decision, Decide(e, u, d)
      PROVE  BillingInv'
  BY <1>8, DecideInv
<1>9. ASSUME NEW r \in Billing, NEW c \in Claim, NEW m \in Measurement, BeginBilling(r, c, m)
      PROVE  BillingInv'
  BY <1>9, BeginBillingInv
<1>10. ASSUME NEW r \in Billing, NEW u \in Staff, CommitBilling(r, u) PROVE BillingInv'
  BY <1>10, CommitBillingInv
<1>11. ASSUME NEW r \in Billing, RefuseBilling(r) PROVE BillingInv'
  BY <1>11 DEF RefuseBilling, BillingInv, BillingTypeOK, ClaimsAreMeasured, BilledUnderClaim,
               Claimed, Exists, ClaimsOf
<1>12. ASSUME NEW b \in Bill, SubmitBill(b) \/ ApproveBill(b) \/ PayBill(b) PROVE BillingInv'
  <2>1. PICK status \in BillStatus : claims' = [claims EXCEPT ![b].status = status]
    BY <1>12 DEF SubmitBill, ApproveBill, PayBill, Advance, BillStatus
  <2>2. /\ Claimed(b) /\ b \in Claim
        /\ UNCHANGED <<measurements, billing, reopened>>
        /\ approvals' \in [Entity -> Staff \cup {Nobody}]
    BY <1>12 DEF SubmitBill, ApproveBill, PayBill, Advance, Claim, BillingInv, BillingTypeOK
  <2> QED BY <2>1, <2>2, BillStatusKept DEF BillingInv
<1>13. ASSUME NEW b \in Bill, NEW q \in Measured, NEW s \in BillStatus, UpdateBill(b, q, s)
       PROVE  BillingInv'
  BY <1>13, UpdateBillInv
<1>14. ASSUME NEW c \in Claim, DeleteClaim(c) PROVE BillingInv'
  BY <1>14, DeleteClaimInv
<1> QED BY <1>1, <1>2, <1>3, <1>4, <1>5, <1>6, <1>7, <1>8, <1>9, <1>10, <1>11, <1>12, <1>13, <1>14
           DEF BillingNext

LEMMA BillingInvAlways == BillingSpec => []BillingInv
BY BillingInitInv, BillingNextInv, PTL DEF BillingSpec

LEMMA BilledOnce == BillingInv => ClaimedOnce
<1> SUFFICES ASSUME BillingInv, NEW m \in Measurement, m \notin reopened
             PROVE  Cardinality(ClaimsOf(m, claims)) <= 1
  BY DEF ClaimedOnce
<1>1. CASE ClaimsOf(m, claims) = {}
  <2>1. Cardinality(ClaimsOf(m, claims)) = 0
    BY <1>1, FS_EmptySet
  <2> QED BY <2>1
<1>2. CASE ClaimsOf(m, claims) # {}
  <2>1. PICK c \in ClaimsOf(m, claims) : ClaimsOf(m, claims) = {c}
    BY <1>2 DEF BillingInv, BilledUnderClaim
  <2>2. Cardinality({c}) = 1
    BY FS_Singleton
  <2> QED BY <2>1, <2>2
<1> QED BY <1>1, <1>2

\* A measurement is claimed by one bill or invoice, unless an approval put it back
\* from BILLED (approval.py writes the status without a lock): the status is read
\* under the lock of the measurement, which is why the outdated look for earlier
\* claims does no harm.
THEOREM ClaimedOnceAlways == BillingSpec => []ClaimedOnce
BY BilledOnce, BillingInvAlways, PTL

\* A measurement keeps its quantity as long as its invoice is there: the update and
\* the deletion look for an invoice of the locked row (final_measurement.py), and no
\* other handler writes a quantity.
THEOREM InvoicedIsFrozenAlways == BillingSpec => InvoicedIsFrozen
<1> DEFINE KeptInvoiced == \A i \in Invoice : Claimed(i) /\ claims'[i] = claims[i] =>
          measurements'[claims[i].measurement].status # "absent" /\
          measurements'[claims[i].measurement].quantity =
              measurements[claims[i].measurement].quantity
<1>1. BillingInv /\ BillingInv' /\ [BillingNext]_billingVars => [KeptInvoiced]_billingVars
  <2> SUFFICES ASSUME BillingInv, BillingInv', BillingNext,
                      NEW i \in Invoice, Claimed(i), claims'[i] = claims[i]
               PROVE  /\ measurements'[claims[i].measurement].status # "absent"
                      /\ measurements'[claims[i].measurement].quantity =
                             measurements[claims[i].measurement].quantity
    OBVIOUS
  <2> DEFINE m == claims[i].measurement
  <2>1. m \in Measurement /\ Exists(m) /\ i \in InvoicesOf(m)
    BY DEF BillingInv, ClaimsAreMeasured, InvoicesOf, ClaimsOf, Claimed, Claim
  <2>2. measurements'[m] \in FinalMeasurementRow
    <3>1. claims'[i] # NoRow /\ claims'[i].measurement = m
      BY DEF Claimed
    <3>2. measurements'[m] # NoRow
      BY <2>1, <3>1 DEF BillingInv, ClaimsAreMeasured, Claimed, Exists, Claim
    <3> QED BY <2>1, <3>2 DEF BillingInv, BillingTypeOK
  <2>3. measurements'[m].status # "absent"
    BY <2>2 DEF FinalMeasurementRow, MeasurementStatus
  <2>4. measurements'[m].quantity = measurements[m].quantity
    <3>1. ASSUME NEW n \in Measurement, NEW q \in Measured, CreateMeasurement(n, q)
          PROVE  measurements'[m].quantity = measurements[m].quantity
      BY <2>1, <3>1 DEF CreateMeasurement, Exists
    <3>2. ASSUME NEW n \in Measurement, NEW q \in Measured, UpdateMeasurement(n, q)
          PROVE  measurements'[m].quantity = measurements[m].quantity
      BY <2>1, <3>2 DEF UpdateMeasurement, Unlocked
    <3>3. ASSUME NEW n \in Measurement, DeleteMeasurement(n)
          PROVE  measurements'[m].quantity = measurements[m].quantity
      BY <2>1, <3>3 DEF DeleteMeasurement, Unlocked
    <3>4. ASSUME NEW n \in Measurement, NEW status, SetStatus(n, status)
          PROVE  measurements'[m].quantity = measurements[m].quantity
      BY <2>1, <2>2, <3>4 DEF SetStatus, BillingInv, BillingTypeOK, Exists, FinalMeasurementRow
    <3>5. ASSUME NEW n, NEW c, NEW seen, ClaimFor(c, n, seen)
          PROVE  measurements'[m].quantity = measurements[m].quantity
      BY <2>1, <2>2, <3>5 DEF ClaimFor, BillingInv, BillingTypeOK, Exists, FinalMeasurementRow
    <3>6. CASE UNCHANGED measurements
      BY <3>6
    <3> QED
      BY <3>1, <3>2, <3>3, <3>4, <3>5, <3>6
         DEF BillingNext, SubmitMeasurement, VerifyMeasurement, RedraftMeasurement,
             BillMeasurement, CommitBilling, Claiming, CreateBill, CreateInvoiceFromMeasurement,
             CreateApproval, Decide, BeginBilling, RefuseBilling, SubmitBill, ApproveBill,
             PayBill, Advance, UpdateBill, DeleteClaim
  <2> QED BY <2>3, <2>4
<1> QED BY <1>1, BillingInvAlways, PTL DEF BillingSpec, InvoicedIsFrozen

-----------------------------------------------------------------------------
(* ProjectTasks. *)

\* Who waits to be assigned was seen as a member.
AssignedWasMember ==
    \A r \in Assigning : assigning[r] # NotAssigning => assigning[r].user \in members \cup left

TasksInv ==
    TasksTypeOK /\ CompletionIsLastReport /\ AssigneesWereMembers /\ AssignedWasMember

LEMMA TasksInitInv == TasksInit => TasksInv
BY DEF TasksInit, TasksInv, TasksTypeOK, CompletionIsLastReport, AssigneesWereMembers,
       AssignedWasMember, TaskExists, Missing

\* A step that leaves what is reported of the tasks alone.
LEMMA UnreportedKept ==
    ASSUME TasksInv, UNCHANGED reports, tasks' \in [Task -> TaskRow \cup {Missing}],
           \A t \in Task : tasks'[t] # Missing =>
               tasks[t] # Missing /\ tasks'[t].completion = tasks[t].completion
    PROVE  CompletionIsLastReport'
BY DEF TasksInv, CompletionIsLastReport, TaskExists

LEMMA MembersInv ==
    ASSUME TasksInv, NEW u \in User, AssignMember(u) \/ RemoveMember(u)
    PROVE  TasksInv'
<1>1. UNCHANGED <<milestones, tasks, reports, assigning>>
      /\ members \cup left \subseteq members' \cup left'
  BY DEF AssignMember, RemoveMember
<1>2. TasksTypeOK'
  BY <1>1 DEF TasksInv, TasksTypeOK, AssignMember, RemoveMember
<1>3. CompletionIsLastReport'
  BY <1>1 DEF TasksInv, CompletionIsLastReport, TaskExists
<1>4. AssigneesWereMembers' /\ AssignedWasMember'
  BY <1>1 DEF TasksInv, AssigneesWereMembers, AssignedWasMember, TaskExists
<1> QED BY <1>2, <1>3, <1>4 DEF TasksInv

LEMMA MilestonesInv ==
    ASSUME TasksInv, milestones' \in [Milestone -> MilestoneRow \cup {Missing}],
           UNCHANGED <<members, siteWorkers, tasks, reports, assigning, left>>
    PROVE  TasksInv'
BY DEF TasksInv, TasksTypeOK, CompletionIsLastReport, AssigneesWereMembers, AssignedWasMember,
       TaskExists

LEMMA MilestoneInTyped ==
    ASSUME NEW s \in MilestoneStatus, NEW started \in BOOLEAN, NEW ended \in BOOLEAN
    PROVE  MilestoneIn(s, started, ended) \in MilestoneRow
BY DEF MilestoneIn, MilestoneRow, MilestoneStatus

LEMMA WriteMilestoneInv ==
    ASSUME TasksInv, NEW m \in Milestone, NEW s \in MilestoneStatus,
           NEW started \in BOOLEAN, NEW ended \in BOOLEAN,
           CreateMilestone(m, s, started) \/ UpdateMilestone(m, s, started, ended)
    PROVE  TasksInv'
<1>1. CASE CreateMilestone(m, s, started)
  <2>1. MilestoneIn(s, started, FALSE) \in MilestoneRow
    BY MilestoneInTyped
  <2> QED BY <1>1, <2>1, MilestonesInv DEF CreateMilestone, TasksInv, TasksTypeOK
<1>2. CASE UpdateMilestone(m, s, started, ended)
  <2> DEFINE row == milestones[m]
             new == IF s = row.status
                    THEN [row EXCEPT !.started = @ \/ started, !.ended = @ \/ ended]
                    ELSE MilestoneIn(s, row.started \/ started, ended)
  <2>1. row \in MilestoneRow
    BY <1>2 DEF UpdateMilestone, MilestoneExists, TasksInv, TasksTypeOK
  <2>2. MilestoneIn(s, row.started \/ started, ended) \in MilestoneRow
    <3>1. (row.started \/ started) \in BOOLEAN
      OBVIOUS
    <3> QED BY <3>1, MilestoneInTyped
  <2>3. new \in MilestoneRow
    BY <2>1, <2>2 DEF MilestoneRow
  <2>4. milestones' = [milestones EXCEPT ![m] = new]
    BY <1>2 DEF UpdateMilestone
  <2> HIDE DEF new
  <2> QED BY <1>2, <2>3, <2>4, MilestonesInv DEF UpdateMilestone, TasksInv, TasksTypeOK
<1> QED BY <1>1, <1>2

\* A step that writes a task: its row is typed, and its assignees belong to the project.
LEMMA WriteTaskInv ==
    ASSUME TasksInv, NEW t \in Task, NEW row \in TaskRow, tasks' = [tasks EXCEPT ![t] = row],
           row.assignees \subseteq members \cup left,
           TaskExists(t) /\ UNCHANGED reports /\ row.completion = tasks[t].completion,
           UNCHANGED <<members, siteWorkers, milestones, left>>,
           assigning' \in [Assigning -> {NotAssigning} \cup [task : Task, user : User]],
           AssignedWasMember'
    PROVE  TasksInv'
<1>1. \A u \in Task : tasks'[u] = IF u = t THEN row ELSE tasks[u]
  BY DEF TasksInv, TasksTypeOK
<1>2. TasksTypeOK'
  BY <1>1 DEF TasksInv, TasksTypeOK
<1>3. CompletionIsLastReport'
  BY <1>1, <1>2, UnreportedKept DEF TaskExists, TasksTypeOK
<1>4. AssigneesWereMembers'
  BY <1>1 DEF TasksInv, AssigneesWereMembers, TaskExists
<1> QED BY <1>2, <1>3, <1>4 DEF TasksInv

LEMMA DeleteMilestoneInv ==
    ASSUME TasksInv, NEW m \in Milestone, DeleteMilestone(m)
    PROVE  TasksInv'
<1>1. \A t \in Task :
          \/ tasks'[t] = tasks[t]
          \/ /\ tasks[t] \in TaskRow /\ tasks'[t] = [tasks[t] EXCEPT !.milestone = NoMilestone]
  BY DEF DeleteMilestone, TaskExists, TasksInv, TasksTypeOK
<1>2. \A t \in Task :
          /\ tasks'[t] \in TaskRow \cup {Missing}
          /\ tasks'[t] # Missing => /\ tasks[t] # Missing
                                    /\ tasks'[t].completion = tasks[t].completion
                                    /\ tasks'[t].assignees = tasks[t].assignees
  <2> SUFFICES ASSUME NEW t \in Task
               PROVE  /\ tasks'[t] \in TaskRow \cup {Missing}
                      /\ tasks'[t] # Missing => /\ tasks[t] # Missing
                                                /\ tasks'[t].completion = tasks[t].completion
                                                /\ tasks'[t].assignees = tasks[t].assignees
    OBVIOUS
  <2>1. CASE tasks'[t] = tasks[t]
    BY <2>1 DEF TasksInv, TasksTypeOK
  <2>2. CASE tasks[t] \in TaskRow /\ tasks'[t] = [tasks[t] EXCEPT !.milestone = NoMilestone]
    <3>1. /\ tasks'[t] \in TaskRow
          /\ tasks'[t].completion = tasks[t].completion
          /\ tasks'[t].assignees = tasks[t].assignees
      BY <2>2 DEF TaskRow
    <3>2. tasks[t] # Missing
      <4>1. tasks[t].status \in TaskStatus
        BY <2>2 DEF TaskRow
      <4>2. Missing.status \notin TaskStatus
        BY DEF Missing, TaskStatus
      <4> QED BY <4>1, <4>2
    <3> QED BY <3>1, <3>2
  <2> QED BY <1>1, <2>1, <2>2
<1>3. TasksTypeOK'
  BY <1>2 DEF DeleteMilestone, TasksInv, TasksTypeOK
<1>4. CompletionIsLastReport'
  BY <1>2, <1>3, UnreportedKept DEF DeleteMilestone, TasksTypeOK
<1>5. AssigneesWereMembers' /\ AssignedWasMember'
  BY <1>2 DEF DeleteMilestone, TasksInv, AssigneesWereMembers, AssignedWasMember, TaskExists
<1> QED BY <1>3, <1>4, <1>5 DEF TasksInv

LEMMA CreateTaskInv ==
    ASSUME TasksInv, NEW t \in Task, NEW m \in Milestone \cup {NoMilestone},
           NEW s \in TaskStatus, NEW us \in SUBSET User, CreateTask(t, m, s, us)
    PROVE  TasksInv'
<1>1. NewTask(m, s, us) \in TaskRow /\ NewTask(m, s, us).completion = 0
      /\ NewTask(m, s, us).assignees = us
  BY DEF NewTask, TaskRow
<1>2. \A u \in Task : /\ tasks'[u] = IF u = t THEN NewTask(m, s, us) ELSE tasks[u]
                      /\ reports'[u] = IF u = t THEN <<>> ELSE reports[u]
  BY DEF CreateTask, TasksInv, TasksTypeOK
<1>3. TasksTypeOK'
  BY <1>1, <1>2 DEF CreateTask, TasksInv, TasksTypeOK
<1>4. CompletionIsLastReport'
  <2> SUFFICES ASSUME NEW u \in Task, TaskExists(u)'
               PROVE  /\ tasks'[u].completion =
                             IF Len(reports'[u]) = 0 THEN 0 ELSE reports'[u][Len(reports'[u])]
                      /\ \A i \in 1..Len(reports'[u]) - 1 : reports'[u][i] <= reports'[u][i + 1]
    BY DEF CompletionIsLastReport
  <2>1. CASE u = t
    BY <2>1, <1>1, <1>2
  <2>2. CASE u # t
    BY <2>2, <1>2 DEF TasksInv, CompletionIsLastReport, TaskExists
  <2> QED BY <2>1, <2>2
<1>5. AssigneesWereMembers' /\ AssignedWasMember'
  BY <1>1, <1>2 DEF CreateTask, TasksInv, AssigneesWereMembers, AssignedWasMember, TaskExists
<1> QED BY <1>3, <1>4, <1>5 DEF TasksInv

LEMMA UpdateTaskInv ==
    ASSUME TasksInv, NEW t \in Task, NEW m \in Milestone \cup {NoMilestone},
           NEW s \in TaskStatus, NEW us \in SUBSET User, UpdateTask(t, m, s, us)
    PROVE  TasksInv'
<1> DEFINE row == [tasks[t] EXCEPT !.milestone = IF m = NoMilestone THEN @ ELSE m,
                                   !.status = s, !.assignees = us]
<1>1. tasks[t] \in TaskRow
  BY DEF UpdateTask, TaskExists, TasksInv, TasksTypeOK
<1>2. row \in TaskRow /\ row.completion = tasks[t].completion /\ row.assignees = us
  BY <1>1 DEF TaskRow
<1>3. tasks' = [tasks EXCEPT ![t] = row]
  BY <1>1 DEF UpdateTask, TasksInv, TasksTypeOK, TaskRow
<1> HIDE DEF row
<1>4. AssignedWasMember'
  BY DEF UpdateTask, TasksInv, AssignedWasMember
<1> QED BY <1>2, <1>3, <1>4, WriteTaskInv DEF UpdateTask, TasksInv, TasksTypeOK

LEMMA UpdateTaskStatusInv ==
    ASSUME TasksInv, NEW t \in Task, NEW s \in TaskStatus, UpdateTaskStatus(t, s)
    PROVE  TasksInv'
<1> DEFINE row == [tasks[t] EXCEPT !.status = s]
<1>1. tasks[t] \in TaskRow
  BY DEF UpdateTaskStatus, TaskExists, TasksInv, TasksTypeOK
<1>2. /\ row \in TaskRow /\ row.completion = tasks[t].completion
      /\ row.assignees = tasks[t].assignees
  BY <1>1 DEF TaskRow
<1>3. tasks' = [tasks EXCEPT ![t] = row]
  BY DEF UpdateTaskStatus
<1>4. row.assignees \subseteq members \cup left
  BY <1>2 DEF UpdateTaskStatus, TasksInv, AssigneesWereMembers
<1> HIDE DEF row
<1>5. AssignedWasMember'
  BY DEF UpdateTaskStatus, TasksInv, AssignedWasMember
<1> QED BY <1>2, <1>3, <1>4, <1>5, WriteTaskInv DEF UpdateTaskStatus, TasksInv, TasksTypeOK

LEMMA ReassignInv ==
    ASSUME TasksInv, NEW t \in Task, TaskExists(t), NEW u \in User, u \in members \cup left,
           tasks' = [tasks EXCEPT ![t].assignees = {u}],
           UNCHANGED <<members, siteWorkers, milestones, reports, left>>,
           assigning' \in [Assigning -> {NotAssigning} \cup [task : Task, user : User]],
           AssignedWasMember'
    PROVE  TasksInv'
<1> DEFINE row == [tasks[t] EXCEPT !.assignees = {u}]
<1>1. tasks[t] \in TaskRow
  BY DEF TaskExists, TasksInv, TasksTypeOK
<1>2. row \in TaskRow /\ row.completion = tasks[t].completion /\ row.assignees = {u}
  BY <1>1 DEF TaskRow
<1>3. tasks' = [tasks EXCEPT ![t] = row]
  OBVIOUS
<1> HIDE DEF row
<1> QED BY <1>2, <1>3, WriteTaskInv

LEMMA BeginPassInv ==
    ASSUME TasksInv, NEW r \in Assigning, NEW t \in Task, NEW u \in User, BeginPass(r, t, u)
    PROVE  TasksInv'
<1>1. TasksTypeOK'
  BY DEF BeginPass, TasksInv, TasksTypeOK
<1>2. CompletionIsLastReport' /\ AssigneesWereMembers'
  BY DEF BeginPass, TasksInv, CompletionIsLastReport, AssigneesWereMembers, TaskExists
<1>3. AssignedWasMember'
  BY DEF BeginPass, TasksInv, TasksTypeOK, AssignedWasMember
<1> QED BY <1>1, <1>2, <1>3 DEF TasksInv

LEMMA CommitPassInv ==
    ASSUME TasksInv, NEW r \in Assigning, CommitPass(r)
    PROVE  TasksInv'
<1> DEFINE t == assigning[r].task
           u == assigning[r].user
<1>1. t \in Task /\ u \in User /\ u \in members \cup left
  BY DEF CommitPass, TasksInv, TasksTypeOK, AssignedWasMember
<1>2. /\ assigning' \in [Assigning -> {NotAssigning} \cup [task : Task, user : User]]
      /\ AssignedWasMember'
  BY DEF CommitPass, TasksInv, TasksTypeOK, AssignedWasMember
<1>3. CASE TaskExists(t)
  <2>1. tasks' = [tasks EXCEPT ![t].assignees = {u}]
    BY <1>3 DEF CommitPass
  <2> HIDE DEF t, u
  <2> QED BY <1>1, <1>2, <1>3, <2>1, ReassignInv DEF CommitPass
<1>4. CASE ~TaskExists(t)
  <2>1. tasks' = tasks
    BY <1>1, <1>4 DEF CommitPass, TasksInv, TasksTypeOK
  <2> QED BY <1>2, <2>1 DEF CommitPass, TasksInv, TasksTypeOK, CompletionIsLastReport,
                            AssigneesWereMembers, TaskExists
<1> QED BY <1>3, <1>4

LEMMA DeleteTaskInv ==
    ASSUME TasksInv, NEW t \in Task, DeleteTask(t)
    PROVE  TasksInv'
<1>1. \A u \in Task : /\ tasks'[u] = IF u = t THEN Missing ELSE tasks[u]
                      /\ u # t => reports'[u] = reports[u]
  BY DEF DeleteTask, TasksInv, TasksTypeOK
<1>2. TasksTypeOK'
  BY DEF DeleteTask, TasksInv, TasksTypeOK
<1>3. CompletionIsLastReport' /\ AssigneesWereMembers'
  BY <1>1 DEF DeleteTask, TasksInv, CompletionIsLastReport, AssigneesWereMembers, TaskExists
<1>4. AssignedWasMember'
  BY DEF DeleteTask, TasksInv, AssignedWasMember
<1> QED BY <1>2, <1>3, <1>4 DEF TasksInv

LEMMA UpdateTaskProgressInv ==
    ASSUME TasksInv, NEW t \in Task, NEW u \in User, NEW isManager \in BOOLEAN,
           NEW p \in Percent, UpdateTaskProgress(t, u, isManager, p)
    PROVE  TasksInv'
<1> DEFINE row == [tasks[t] EXCEPT !.completion = p]
<1>1. tasks[t] \in TaskRow
  BY DEF UpdateTaskProgress, TaskExists, TasksInv, TasksTypeOK
<1>2. row \in TaskRow /\ row.completion = p /\ row.assignees = tasks[t].assignees
  BY <1>1 DEF TaskRow
<1>3. \A v \in Task : /\ tasks'[v] = IF v = t THEN row ELSE tasks[v]
                      /\ reports'[v] = IF v = t THEN Append(reports[t], p) ELSE reports[v]
  BY DEF UpdateTaskProgress, TasksInv, TasksTypeOK
<1> HIDE DEF row
<1>4. reports[t] \in Seq(Percent) /\ Append(reports[t], p) \in Seq(Percent)
  BY DEF TasksInv, TasksTypeOK
<1>5. TasksTypeOK'
  BY <1>2, <1>3, <1>4 DEF UpdateTaskProgress, TasksInv, TasksTypeOK
<1>6. CompletionIsLastReport'
  <2> SUFFICES ASSUME NEW v \in Task, TaskExists(v)'
               PROVE  /\ tasks'[v].completion =
                             IF Len(reports'[v]) = 0 THEN 0 ELSE reports'[v][Len(reports'[v])]
                      /\ \A i \in 1..Len(reports'[v]) - 1 : reports'[v][i] <= reports'[v][i + 1]
    BY DEF CompletionIsLastReport
  <2>1. CASE v # t
    BY <2>1, <1>3 DEF TasksInv, CompletionIsLastReport, TaskExists
  <2>2. CASE v = t
    <3> DEFINE old == reports[t]
               n == Len(old)
    <3>1. /\ n \in Nat /\ \A i \in 1..n : old[i] \in Int
      <4>1. n \in Nat /\ \A i \in 1..n : old[i] \in Percent
        BY <1>4, LenProperties
      <4>2. Percent \subseteq Int
        BY PercentAssumption
      <4> QED BY <4>1, <4>2
    <3>2. /\ n # 0 => old[n] <= p
          /\ \A i \in 1..n - 1 : old[i] <= old[i + 1]
      BY <3>1 DEF UpdateTaskProgress, Progress, TasksInv, CompletionIsLastReport
    <3>3. /\ Len(reports'[v]) = n + 1
          /\ reports'[v][n + 1] = p
          /\ \A i \in 1..n : reports'[v][i] = old[i]
      <4>1. reports'[v] = Append(old, p)
        BY <2>2, <1>3
      <4> QED BY <4>1, <1>4, AppendProperties
    <3> HIDE DEF old, n
    <3>4. \A i \in 1..(n + 1) - 1 : reports'[v][i] <= reports'[v][i + 1]
      <4> SUFFICES ASSUME NEW i \in 1..n PROVE reports'[v][i] <= reports'[v][i + 1]
        BY <3>1
      <4>1. reports'[v][i] = old[i]
        BY <3>3
      <4>2. CASE i = n
        BY <3>1, <3>2, <3>3, <4>1, <4>2
      <4>3. CASE i # n
        <5>1. i \in 1..n - 1 /\ i + 1 \in 1..n
          BY <3>1, <4>3
        <5>2. reports'[v][i + 1] = old[i + 1] /\ old[i] <= old[i + 1]
          BY <3>2, <3>3, <5>1
        <5> QED BY <4>1, <5>2
      <4> QED BY <4>2, <4>3
    <3>5. tasks'[v].completion = p
      BY <2>2, <1>2, <1>3
    <3> QED BY <3>1, <3>3, <3>4, <3>5
  <2> QED BY <2>1, <2>2
<1>7. AssigneesWereMembers' /\ AssignedWasMember'
  BY <1>2, <1>3 DEF UpdateTaskProgress, TasksInv, AssigneesWereMembers, AssignedWasMember, TaskExists
<1> QED BY <1>5, <1>6, <1>7 DEF TasksInv

LEMMA TasksNextInv == TasksInv /\ [TasksNext]_taskVars => TasksInv'
<1> SUFFICES ASSUME TasksInv, [TasksNext]_taskVars PROVE TasksInv' OBVIOUS
<1>1. CASE UNCHANGED taskVars
  BY <1>1 DEF taskVars, TasksInv, TasksTypeOK, CompletionIsLastReport, AssigneesWereMembers,
              AssignedWasMember, TaskExists
<1>2. ASSUME NEW t \in Task, NEW u \in User, PassTask(t, u) PROVE TasksInv'
  BY <1>2, ReassignInv DEF PassTask, TasksInv, TasksTypeOK, AssignedWasMember
<1> QED BY <1>1, <1>2, MembersInv, WriteMilestoneInv, DeleteMilestoneInv, UpdateTaskStatusInv,
           CreateTaskInv, UpdateTaskInv, BeginPassInv, CommitPassInv, DeleteTaskInv,
           UpdateTaskProgressInv DEF TasksNext

\* A task's completion is what was reported last, and reports only grow
\* (update_task_progress looks at the completion under the lock of the task).
THEOREM CompletionIsLastReportAlways == TasksSpec => []CompletionIsLastReport
<1>1. TasksInv => CompletionIsLastReport
  BY DEF TasksInv
<1> QED BY <1>1, TasksInitInv, TasksNextInv, PTL DEF TasksSpec

\* Whoever is assigned was a member: a reassignment that overlaps the removal of a
\* member may assign somebody who has left, never an outsider (pass_task).
THEOREM AssigneesWereMembersAlways == TasksSpec => []AssigneesWereMembers
<1>1. TasksInv => AssigneesWereMembers
  BY DEF TasksInv
<1> QED BY <1>1, TasksInitInv, TasksNextInv, PTL DEF TasksSpec

-----------------------------------------------------------------------------
(* BillOfQuantities. *)

\* What follows the rows that are there.
LEMMA RowsFollow ==
    ASSUME NEW S, NEW s \in Seq(S), NEW t \in Seq(S)
    PROVE  /\ s \o t \in Seq(S)
           /\ DOMAIN s \subseteq DOMAIN (s \o t)
           /\ \A i \in DOMAIN s : (s \o t)[i] = s[i]
           /\ \A i \in DOMAIN (s \o t) \ DOMAIN s : \E k \in DOMAIN t : (s \o t)[i] = t[k]
<1>1. /\ s \o t \in Seq(S)
      /\ Len(s \o t) = Len(s) + Len(t)
      /\ \A i \in 1..Len(s \o t) : (s \o t)[i] = IF i <= Len(s) THEN s[i] ELSE t[i - Len(s)]
  BY ConcatProperties
<1>2. /\ DOMAIN s = 1..Len(s) /\ DOMAIN t = 1..Len(t) /\ DOMAIN (s \o t) = 1..Len(s \o t)
      /\ Len(s) \in Nat /\ Len(t) \in Nat
  BY <1>1, LenProperties
<1>3. ASSUME NEW i \in DOMAIN (s \o t) \ DOMAIN s
      PROVE  \E k \in DOMAIN t : (s \o t)[i] = t[k]
  <2>1. i \in Int /\ i > Len(s) /\ i - Len(s) \in DOMAIN t
    BY <1>1, <1>2, <1>3
  <2> QED BY <1>1, <1>2, <1>3, <2>1
<1> QED BY <1>1, <1>2, <1>3

\* Versions are counted from one, and none is ahead of its group.
VersionsCounted ==
    /\ \A i \in DOMAIN items : items[i].version \in 1..groups[items[i].group]
    /\ \A r \in Adding : adding[r] # NotAdding =>
           adding[r].version \in 1..groups[adding[r].group]

BOQInv == BOQTypeOK /\ VersionsCounted /\ LatestIsCurrent /\ PendingIsAsked

LEMMA BOQRows ==
    ASSUME BOQInv
    PROVE  /\ items \in Seq(BOQRow) /\ DOMAIN items = 1..Len(items) /\ Len(items) \in Nat
           /\ \A i \in DOMAIN items : items[i] \in BOQRow
<1>1. items \in Seq(BOQRow)
  BY DEF BOQInv, BOQTypeOK
<1> QED BY <1>1, ElementOfSeq, LenProperties

LEMMA BOQInitInv == BOQInit => BOQInv
<1> SUFFICES ASSUME BOQInit PROVE BOQInv OBVIOUS
<1>1. DOMAIN items = {}
  BY DEF BOQInit
<1>2. items \in Seq(BOQRow)
  BY EmptySeq DEF BOQInit
<1> QED BY <1>1, <1>2 DEF BOQInit, BOQInv, BOQTypeOK, VersionsCounted, LatestIsCurrent, PendingIsAsked

LEMMA ItemRowTyped ==
    ASSUME NEW g \in Group, NEW n \in Name, NEW v \in Nat
    PROVE  ItemRow(g, n, v) \in BOQRow
BY DEF ItemRow, BOQRow

\* The step adds rows, all in version v of g, and may note that g was late.
AddsRows(g, v, rows) ==
    /\ rows \in Seq(BOQRow)
    /\ \A k \in DOMAIN rows : /\ rows[k].group = g /\ rows[k].version = v
                              /\ rows[k].latest /\ rows[k].approval = "Draft"
    /\ v \in 1..groups[g]
    /\ items' = items \o rows
    /\ late \subseteq late' /\ late' \subseteq Group
    /\ v # groups[g] => g \in late'
    /\ UNCHANGED <<groups, asked, boqTasks>>
    /\ adding' \in [Adding -> {NotAdding} \cup [group : Group, version : Nat]]
    /\ \A r \in Adding : adding'[r] # NotAdding => adding'[r] = adding[r]
\* Rows are added to a version that is the current one, or the group is known to be late.
LEMMA RowsAdded ==
    ASSUME BOQInv, NEW g \in Group, NEW v, NEW rows, AddsRows(g, v, rows)
    PROVE  BOQInv'
<1> USE DEF AddsRows
<1>1. items \in Seq(BOQRow)
  BY DEF BOQInv, BOQTypeOK
<1>2. /\ items' \in Seq(BOQRow)
      /\ DOMAIN items \subseteq DOMAIN items'
      /\ \A i \in DOMAIN items : items'[i] = items[i]
      /\ \A i \in DOMAIN items' \ DOMAIN items : \E k \in DOMAIN rows : items'[i] = rows[k]
  BY <1>1, RowsFollow
<1>3. \A i \in DOMAIN items' \ DOMAIN items :
          /\ items'[i].group = g /\ items'[i].version = v
          /\ items'[i].latest /\ items'[i].approval = "Draft"
  BY <1>2
<1>4. BOQTypeOK'
  BY <1>2 DEF BOQInv, BOQTypeOK
<1>5. VersionsCounted'
  <2>1. ASSUME NEW i \in DOMAIN items' PROVE items'[i].version \in 1..groups[items'[i].group]
    BY <2>1, <1>2, <1>3 DEF BOQInv, VersionsCounted
  <2>2. ASSUME NEW r \in Adding, adding'[r] # NotAdding
        PROVE  adding'[r].version \in 1..groups[adding'[r].group]
    BY <2>2 DEF BOQInv, VersionsCounted
  <2> QED BY <2>1, <2>2 DEF VersionsCounted
<1>6. LatestIsCurrent'
  BY <1>2, <1>3 DEF BOQInv, LatestIsCurrent
<1>7. PendingIsAsked'
  BY <1>2, <1>3 DEF BOQInv, BOQTypeOK, PendingIsAsked
<1> QED BY <1>4, <1>5, <1>6, <1>7 DEF BOQInv

LEMMA GrowInv ==
    ASSUME BOQInv, NEW g \in Group, NEW v \in 1..groups[g], NEW names \in SUBSET Name,
           Grow(g, v, names),
           adding' \in [Adding -> {NotAdding} \cup [group : Group, version : Nat]],
           \A r \in Adding : adding'[r] # NotAdding => adding'[r] = adding[r]
    PROVE  BOQInv'
<1>1. PICK order \in Orders(names) :
          items' = items \o [i \in DOMAIN order |-> ItemRow(g, order[i], v)]
  BY DEF Grow
<1> DEFINE rows == [i \in DOMAIN order |-> ItemRow(g, order[i], v)]
<1>2. /\ order \in [1..Cardinality(names) -> names] /\ DOMAIN order = 1..Cardinality(names)
      /\ groups[g] \in Nat
  BY <1>1 DEF Orders, BOQInv, BOQTypeOK
<1>3. Cardinality(names) \in Nat
  <2>1. CASE IsFiniteSet(names)
    BY <2>1, FS_CardinalityType
  <2>2. CASE ~IsFiniteSet(names)
    BY <2>2, NameAssumption, FS_Subset
  <2> QED BY <2>1, <2>2
<1>4. \A i \in DOMAIN order : rows[i] \in BOQRow
  BY <1>2, ItemRowTyped
<1>5. rows \in Seq(BOQRow)
  BY <1>2, <1>3, <1>4
<1>6. \A k \in DOMAIN rows : /\ rows[k].group = g /\ rows[k].version = v
                             /\ rows[k].latest /\ rows[k].approval = "Draft"
  BY DEF ItemRow
<1>7. late \subseteq late' /\ late' \subseteq Group /\ (v # groups[g] => g \in late')
  BY DEF Grow, BOQInv, BOQTypeOK
<1>8. items' = items \o rows
  BY <1>1
<1>9. UNCHANGED <<groups, asked, boqTasks>>
  BY DEF Grow
<1> HIDE DEF rows
<1>10. AddsRows(g, v, rows)
  BY <1>5, <1>6, <1>7, <1>8, <1>9 DEF AddsRows
<1> QED BY <1>10, RowsAdded

LEMMA ParentOf ==
    ASSUME BOQInv, NEW g \in Group, NEW i \in Parents(g)
    PROVE  i \in DOMAIN items /\ items[i].version \in 1..groups[g]
BY DEF Parents, Latest, BOQInv, VersionsCounted

LEMMA AddItemsInv ==
    ASSUME BOQInv, NEW g \in Group, NEW names \in SUBSET Name, AddItems(g, names)
    PROVE  BOQInv'
<1>1. PICK i \in Parents(g) : Grow(g, items[i].version, names)
  BY DEF AddItems
<1>2. /\ adding' \in [Adding -> {NotAdding} \cup [group : Group, version : Nat]]
      /\ \A r \in Adding : adding'[r] # NotAdding => adding'[r] = adding[r]
  BY DEF AddItems, BOQInv, BOQTypeOK
<1> QED BY <1>1, <1>2, GrowInv, ParentOf

LEMMA CommitAddItemInv ==
    ASSUME BOQInv, NEW r \in Adding, NEW n \in Name, CommitAddItem(r, n)
    PROVE  BOQInv'
<1>1. adding[r].group \in Group /\ adding[r].version \in 1..groups[adding[r].group]
  BY DEF CommitAddItem, BOQInv, BOQTypeOK, VersionsCounted
<1>2. /\ adding' \in [Adding -> {NotAdding} \cup [group : Group, version : Nat]]
      /\ \A q \in Adding : adding'[q] # NotAdding => adding'[q] = adding[q]
  BY DEF CommitAddItem, BOQInv, BOQTypeOK
<1>3. Grow(adding[r].group, adding[r].version, {n})
  BY DEF CommitAddItem
<1> QED BY <1>1, <1>2, <1>3, GrowInv

LEMMA BeginAddItemInv ==
    ASSUME BOQInv, NEW r \in Adding, NEW g \in Group, BeginAddItem(r, g)
    PROVE  BOQInv'
<1>1. PICK i \in Parents(g) :
          adding' = [adding EXCEPT ![r] = [group |-> g, version |-> items[i].version]]
  BY DEF BeginAddItem
<1>2. items[i].version \in 1..groups[g] /\ items[i].version \in Nat
  BY ParentOf DEF BOQInv, BOQTypeOK
<1>3. BOQTypeOK'
  BY <1>1, <1>2 DEF BeginAddItem, BOQInv, BOQTypeOK
<1>4. VersionsCounted'
  <2>1. adding'[r].group = g /\ adding'[r].version = items[i].version
        /\ \A q \in Adding : q # r => adding'[q] = adding[q]
    BY <1>1 DEF BOQInv, BOQTypeOK
  <2> QED BY <1>2, <2>1 DEF BeginAddItem, BOQInv, VersionsCounted
<1>5. LatestIsCurrent' /\ PendingIsAsked'
  BY DEF BeginAddItem, BOQInv, LatestIsCurrent, PendingIsAsked
<1> QED BY <1>3, <1>4, <1>5 DEF BOQInv

LEMMA CreateBOQInv ==
    ASSUME BOQInv, NEW g \in Group, NEW n \in Name, CreateBOQ(g, n)
    PROVE  BOQInv'
<1> DEFINE rows == <<ItemRow(g, n, 1)>>
<1>1. ItemRow(g, n, 1) \in BOQRow
  BY ItemRowTyped
<1>2. rows \in Seq(BOQRow) /\ DOMAIN rows = {1} /\ rows[1] = ItemRow(g, n, 1)
  BY <1>1
<1>3. items \in Seq(BOQRow) /\ items' = items \o rows
  BY <1>1, AppendIsConcat DEF CreateBOQ, BOQInv, BOQTypeOK
<1>4. /\ items' \in Seq(BOQRow)
      /\ DOMAIN items \subseteq DOMAIN items'
      /\ \A i \in DOMAIN items : items'[i] = items[i]
      /\ \A i \in DOMAIN items' \ DOMAIN items : items'[i] = ItemRow(g, n, 1)
  <2> HIDE DEF rows
  <2> QED BY <1>2, <1>3, RowsFollow
<1>5. \A i \in DOMAIN items : items[i].group # g /\ items[i].group \in Group
  <2> SUFFICES ASSUME NEW i \in DOMAIN items PROVE items[i].group # g /\ items[i].group \in Group
    OBVIOUS
  <2>1. items[i] \in BOQRow /\ items[i].version \in 1..groups[items[i].group]
    BY BOQRows DEF BOQInv, VersionsCounted
  <2>2. items[i].group # g
    BY <2>1 DEF CreateBOQ
  <2> QED BY <2>1, <2>2 DEF BOQRow
<1>6. groups'[g] = 1 /\ \A h \in Group : h # g => groups'[h] = groups[h]
  BY DEF CreateBOQ, BOQInv, BOQTypeOK
<1>7. BOQTypeOK'
  BY <1>4 DEF CreateBOQ, BOQInv, BOQTypeOK
<1>8. VersionsCounted'
  <2>1. ASSUME NEW i \in DOMAIN items' PROVE items'[i].version \in 1..groups'[items'[i].group]
    <3>1. CASE i \in DOMAIN items
      BY <3>1, <1>4, <1>5, <1>6 DEF BOQInv, VersionsCounted
    <3>2. CASE i \notin DOMAIN items
      BY <3>2, <1>4, <1>6, <2>1 DEF ItemRow
    <3> QED BY <3>1, <3>2
  <2>2. ASSUME NEW r \in Adding, adding'[r] # NotAdding
        PROVE  adding'[r].version \in 1..groups'[adding'[r].group]
    <3>1. adding'[r] = adding[r] /\ adding[r].group \in Group
          /\ adding[r].version \in 1..groups[adding[r].group]
      BY <2>2 DEF CreateBOQ, BOQInv, BOQTypeOK, VersionsCounted
    <3>2. adding[r].group # g
      BY <3>1 DEF CreateBOQ
    <3> QED BY <3>1, <3>2, <1>6
  <2> QED BY <2>1, <2>2 DEF VersionsCounted
<1>9. LatestIsCurrent'
  BY <1>4, <1>5, <1>6 DEF CreateBOQ, ItemRow, BOQInv, LatestIsCurrent
<1>10. PendingIsAsked'
  BY <1>4 DEF CreateBOQ, ItemRow, BOQInv, BOQTypeOK, PendingIsAsked
<1> QED BY <1>7, <1>8, <1>9, <1>10 DEF BOQInv

\* A step that rewrites a row keeps what the versions are counted by.
LEMMA RowRewritten ==
    ASSUME BOQInv, NEW i \in DOMAIN items, NEW row \in BOQRow,
           items' = [items EXCEPT ![i] = row],
           row.group = items[i].group, row.version = items[i].version,
           row.latest = items[i].latest,
           asked' \subseteq DOMAIN items, asked' \ {i} = asked \ {i},
           row.approval = "Pending" <=> i \in asked',
           UNCHANGED <<groups, boqTasks, adding, late>>
    PROVE  BOQInv'
<1>1. items \in Seq(BOQRow)
  BY DEF BOQInv, BOQTypeOK
<1>2. DOMAIN items = 1..Len(items)
  BY <1>1, LenProperties
<1>3. items' \in Seq(BOQRow)
  BY <1>1, <1>2, ExceptSeq
<1>4. DOMAIN items' = DOMAIN items /\ \A j \in DOMAIN items : items'[j] = IF j = i THEN row ELSE items[j]
  OBVIOUS
<1>5. BOQTypeOK'
  BY <1>3, <1>4 DEF BOQInv, BOQTypeOK
<1>6. VersionsCounted'
  BY <1>4 DEF BOQInv, VersionsCounted
<1>7. LatestIsCurrent'
  BY <1>4 DEF BOQInv, LatestIsCurrent
<1>8. PendingIsAsked'
  BY <1>4 DEF BOQInv, PendingIsAsked
<1> QED BY <1>5, <1>6, <1>7, <1>8 DEF BOQInv

LEMMA ItemsInv ==
    ASSUME BOQInv, NEW i \in DOMAIN items, NEW n \in Name, NEW d \in {"Approved", "Rejected"},
           \/ UpdateItem(i, n) \/ DeleteItem(i) \/ GenerateTask(i)
           \/ AskItemApproval(i) \/ DecideItem(i, d)
    PROVE  BOQInv'
<1>1. items \in Seq(BOQRow) /\ items[i] \in BOQRow
  BY BOQRows
<1>2. (items[i].approval = "Pending" <=> i \in asked) /\ asked \subseteq DOMAIN items
  BY DEF BOQInv, BOQTypeOK, PendingIsAsked
<1>3. CASE UpdateItem(i, n)
  <2>1. [items[i] EXCEPT !.name = n] \in BOQRow
    BY <1>1 DEF BOQRow
  <2> QED BY <1>1, <1>2, <1>3, <2>1, RowRewritten DEF UpdateItem, BOQRow
<1>4. CASE DeleteItem(i)
  <2>1. [items[i] EXCEPT !.status = "Deleted"] \in BOQRow
    BY <1>1 DEF BOQRow
  <2> QED BY <1>1, <1>2, <1>4, <2>1, RowRewritten DEF DeleteItem, BOQRow
<1>5. CASE GenerateTask(i)
  BY <1>5 DEF GenerateTask, Listed, BOQInv, BOQTypeOK, VersionsCounted, LatestIsCurrent, PendingIsAsked
<1>6. CASE AskItemApproval(i)
  <2>1. [items[i] EXCEPT !.approval = "Pending"] \in BOQRow
    BY <1>1 DEF BOQRow
  <2> QED BY <1>1, <1>2, <1>6, <2>1, RowRewritten DEF AskItemApproval, BOQRow
<1>7. CASE DecideItem(i, d)
  <2>1. [items[i] EXCEPT !.approval = d] \in BOQRow
    BY <1>1 DEF BOQRow
  <2> QED BY <1>1, <1>2, <1>7, <2>1, RowRewritten DEF DecideItem, BOQRow
<1> QED BY <1>3, <1>4, <1>5, <1>6, <1>7

LEMMA CreateVersionInv ==
    ASSUME BOQInv, NEW g \in Group, NEW base \in DOMAIN items, CreateVersion(g, base)
    PROVE  BOQInv'
<1> DEFINE version == items[base].version
           old == Retired(g, version)
<1>1. PICK order \in ById(Copied(g, version)) : items' = old \o Copies(g, order)
  BY DEF CreateVersion
<1> DEFINE copies == Copies(g, order)
           n == Cardinality(Copied(g, version))
<1>2. items \in Seq(BOQRow) /\ DOMAIN items = 1..Len(items) /\ Len(items) \in Nat
      /\ groups[g] \in Nat /\ \A i \in DOMAIN items : items[i] \in BOQRow
  BY ElementOfSeq, LenProperties DEF BOQInv, BOQTypeOK
<1>3. order \in [1..n -> Copied(g, version)] /\ DOMAIN order = 1..n
  BY DEF ById, Orders
<1>4. n \in Nat
  <2>1. IsFiniteSet(1..Len(items))
    BY <1>2, FS_Interval
  <2>2. Copied(g, version) \subseteq 1..Len(items)
    BY <1>2 DEF Copied
  <2>3. IsFiniteSet(Copied(g, version))
    BY <2>1, <2>2, FS_Subset
  <2> QED BY <2>3, FS_CardinalityType
<1>5. \A k \in DOMAIN copies : /\ copies[k] \in BOQRow
                               /\ copies[k].group = g /\ copies[k].version = groups[g] + 1
                               /\ copies[k].latest /\ copies[k].approval = "Draft"
  <2> SUFFICES ASSUME NEW k \in DOMAIN copies
               PROVE  /\ copies[k] \in BOQRow
                      /\ copies[k].group = g /\ copies[k].version = groups[g] + 1
                      /\ copies[k].latest /\ copies[k].approval = "Draft"
    OBVIOUS
  <2>1. k \in DOMAIN order /\ copies[k] = ItemRow(g, items[order[k]].name, groups[g] + 1)
    BY DEF Copies
  <2>2. order[k] \in DOMAIN items
    BY <1>3, <2>1 DEF Copied
  <2>3. items[order[k]].name \in Name
    BY <1>2, <2>2 DEF BOQRow
  <2> HIDE DEF copies
  <2> QED BY <1>2, <2>1, <2>3, ItemRowTyped DEF ItemRow
<1>6. copies \in Seq(BOQRow)
  <2>1. copies \in [1..n -> BOQRow]
    BY <1>3, <1>5 DEF Copies
  <2> QED BY <1>4, <2>1
<1>7. /\ DOMAIN old = DOMAIN items
      /\ \A i \in DOMAIN items :
             old[i] = IF items[i].group = g /\ items[i].version = version /\ items[i].latest
                      THEN [items[i] EXCEPT !.latest = FALSE] ELSE items[i]
  BY DEF Retired
<1>8. \A i \in DOMAIN items : /\ old[i] \in BOQRow
                              /\ old[i].group = items[i].group /\ old[i].version = items[i].version
                              /\ old[i].approval = items[i].approval
                              /\ old[i].latest <=> /\ items[i].latest
                                                   /\ ~(items[i].group = g /\ items[i].version = version)
  <2> HIDE DEF old, version
  <2> SUFFICES ASSUME NEW i \in DOMAIN items
               PROVE  /\ old[i] \in BOQRow
                      /\ old[i].group = items[i].group /\ old[i].version = items[i].version
                      /\ old[i].approval = items[i].approval
                      /\ old[i].latest <=> /\ items[i].latest
                                           /\ ~(items[i].group = g /\ items[i].version = version)
    OBVIOUS
  <2>1. items[i] \in BOQRow
    BY <1>2
  <2>2. CASE items[i].group = g /\ items[i].version = version /\ items[i].latest
    <3>1. old[i] = [items[i] EXCEPT !.latest = FALSE]
      BY <1>7, <2>2
    <3> QED BY <2>1, <2>2, <3>1 DEF BOQRow
  <2>3. CASE ~(items[i].group = g /\ items[i].version = version /\ items[i].latest)
    <3>1. old[i] = items[i]
      BY <1>7, <2>3
    <3> QED BY <2>1, <2>3, <3>1
  <2> QED BY <2>2, <2>3
<1>9. old \in Seq(BOQRow)
  <2>1. old \in [1..Len(items) -> BOQRow]
    BY <1>2, <1>7, <1>8 DEF Retired
  <2> QED BY <1>2, <2>1
<1>10. /\ items' \in Seq(BOQRow)
       /\ DOMAIN items \subseteq DOMAIN items'
       /\ \A i \in DOMAIN items : items'[i] = old[i]
       /\ \A i \in DOMAIN items' \ DOMAIN items : \E k \in DOMAIN copies : items'[i] = copies[k]
  <2> HIDE DEF old, copies
  <2> QED BY <1>1, <1>6, <1>7, <1>9, RowsFollow DEF copies
<1>11. \A i \in DOMAIN items' \ DOMAIN items :
           /\ items'[i].group = g /\ items'[i].version = groups[g] + 1
           /\ items'[i].latest /\ items'[i].approval = "Draft"
  BY <1>5, <1>10
<1>12. groups'[g] = groups[g] + 1 /\ \A h \in Group : h # g => groups'[h] = groups[h]
  BY DEF CreateVersion, BOQInv, BOQTypeOK
<1>13. items[base].group = g /\ items[base].latest
  BY DEF CreateVersion, Latest
<1>14. \A i \in DOMAIN items : items[i].group \in Group /\ items[i].version \in Nat
  BY <1>2 DEF BOQRow
<1> HIDE DEF old, copies, n
<1>15. BOQTypeOK'
  BY <1>2, <1>10, <1>12 DEF CreateVersion, BOQInv, BOQTypeOK
<1>16. VersionsCounted'
  <2>1. ASSUME NEW i \in DOMAIN items' PROVE items'[i].version \in 1..groups'[items'[i].group]
    <3>1. CASE i \in DOMAIN items
      <4>1. /\ items'[i].version = items[i].version /\ items'[i].group = items[i].group
            /\ items[i].version \in 1..groups[items[i].group] /\ groups[items[i].group] \in Nat
        BY <3>1, <1>8, <1>10, <1>14 DEF BOQInv, BOQTypeOK, VersionsCounted
      <4> QED BY <3>1, <4>1, <1>12, <1>14
    <3>2. CASE i \notin DOMAIN items
      BY <3>2, <1>2, <1>11, <1>12, <2>1
    <3> QED BY <3>1, <3>2
  <2>2. ASSUME NEW r \in Adding, adding'[r] # NotAdding
        PROVE  adding'[r].version \in 1..groups'[adding'[r].group]
    <3>1. /\ adding'[r] = adding[r] /\ adding[r].group \in Group
          /\ groups[adding[r].group] \in Nat
          /\ adding[r].version \in 1..groups[adding[r].group]
      BY <2>2 DEF CreateVersion, BOQInv, BOQTypeOK, VersionsCounted
    <3> QED BY <3>1, <1>12
  <2> QED BY <2>1, <2>2 DEF VersionsCounted
<1>17. LatestIsCurrent'
  <2> SUFFICES ASSUME NEW i \in DOMAIN items', items'[i].group \notin late'
               PROVE  items'[i].latest <=> items'[i].version = groups'[items'[i].group]
    BY DEF LatestIsCurrent
  <2>1. late' = late
    BY DEF CreateVersion
  <2>2. CASE i \notin DOMAIN items
    BY <2>2, <1>11, <1>12
  <2>3. CASE i \in DOMAIN items
    <3>1. items'[i] = old[i] /\ items[i].group \notin late
          /\ (items[i].latest <=> items[i].version = groups[items[i].group])
      BY <2>1, <2>3, <1>8, <1>10 DEF BOQInv, LatestIsCurrent
    <3>2. CASE items[i].group # g
      BY <3>1, <3>2, <2>3, <1>8, <1>12, <1>14
    <3>3. CASE items[i].group = g
      <4>1. version = groups[g]
        BY <3>1, <3>3, <1>13 DEF BOQInv, LatestIsCurrent
      <4>2. ~old[i].latest
        BY <3>1, <3>3, <4>1, <2>3, <1>8
      <4>3. items[i].version <= groups[g]
        BY <2>3, <3>3, <1>2 DEF BOQInv, VersionsCounted
      <4>4. items'[i].version = items[i].version /\ items'[i].group = g
        BY <2>3, <3>1, <3>3, <1>8
      <4> QED BY <1>2, <1>12, <1>14, <2>3, <3>1, <4>2, <4>3, <4>4
    <3> QED BY <3>2, <3>3
  <2> QED BY <2>2, <2>3
<1>18. PendingIsAsked'
  <2>1. asked' = asked /\ asked \subseteq DOMAIN items
    BY DEF CreateVersion, BOQInv, BOQTypeOK
  <2>2. \A i \in DOMAIN items : items'[i].approval = "Pending" <=> i \in asked
    BY <1>8, <1>10 DEF BOQInv, PendingIsAsked
  <2>3. \A i \in DOMAIN items' \ DOMAIN items : items'[i].approval # "Pending" /\ i \notin asked
    BY <1>11, <2>1
  <2> QED BY <2>1, <2>2, <2>3 DEF PendingIsAsked
<1> QED BY <1>15, <1>16, <1>17, <1>18 DEF BOQInv

LEMMA BOQNextInv == BOQInv /\ [BOQNext]_boqVars => BOQInv'
<1> SUFFICES ASSUME BOQInv, [BOQNext]_boqVars PROVE BOQInv' OBVIOUS
<1>1. CASE UNCHANGED boqVars
  BY <1>1 DEF boqVars, BOQInv, BOQTypeOK, VersionsCounted, LatestIsCurrent, PendingIsAsked
<1>2. ASSUME NEW g \in Group, NEW n \in Name, CreateBOQ(g, n) \/ AddItem(g, n) PROVE BOQInv'
  BY <1>2, CreateBOQInv, AddItemsInv DEF AddItem
<1>3. ASSUME NEW g \in Group, NEW ns \in SUBSET Name, BulkAddItems(g, ns) PROVE BOQInv'
  BY <1>3, AddItemsInv DEF BulkAddItems
<1>4. ASSUME NEW r \in Adding, NEW g \in Group, BeginAddItem(r, g) PROVE BOQInv'
  BY <1>4, BeginAddItemInv
<1>5. ASSUME NEW r \in Adding, NEW n \in Name, CommitAddItem(r, n) PROVE BOQInv'
  BY <1>5, CommitAddItemInv
<1>6. ASSUME NEW g \in Group, NEW b \in DOMAIN items, CreateVersion(g, b) PROVE BOQInv'
  BY <1>6, CreateVersionInv
<1>7. ASSUME NEW i \in DOMAIN items, DeleteItem(i) \/ GenerateTask(i) \/ AskItemApproval(i)
      PROVE  BOQInv'
  <2>1. items[i].name \in Name
    BY BOQRows DEF BOQRow
  <2> QED BY <1>7, <2>1, ItemsInv
<1>8. ASSUME NEW i \in DOMAIN items, NEW n \in Name, UpdateItem(i, n) PROVE BOQInv'
  BY <1>8, ItemsInv
<1>9. ASSUME NEW i \in DOMAIN items, NEW d \in {"Approved", "Rejected"}, DecideItem(i, d)
      PROVE  BOQInv'
  <2>1. items[i].name \in Name
    BY BOQRows DEF BOQRow
  <2> QED BY <1>9, <2>1, ItemsInv
<1> QED BY <1>1, <1>2, <1>3, <1>4, <1>5, <1>6, <1>7, <1>8, <1>9 DEF BOQNext

\* The latest rows of a group are one version, its current one, whatever was edited,
\* deleted and copied, unless an item reached the group after its next version was
\* made (add_item reads the version without a lock).
THEOREM LatestIsCurrentAlways == BOQSpec => []LatestIsCurrent
<1>1. BOQInv => LatestIsCurrent
  BY DEF BOQInv
<1> QED BY <1>1, BOQInitInv, BOQNextInv, PTL DEF BOQSpec

-----------------------------------------------------------------------------
(* SiteRecords. *)

\* No two reports have one date.
DatesDistinct ==
    \A r, s \in Of("report") : records[r].key = records[s].key => r = s
\* What is noted of an approved report is what it says.
ApprovedNoted ==
    \A r \in SiteRecord : approvedText[r] # NoText =>
        /\ records[r].kind = "report" /\ records[r].status = "Approved"
        /\ records[r].text = approvedText[r]

SiteInv == SiteTypeOK /\ DatesDistinct /\ ApprovedNoted

LEMMA SiteInitInv == SiteInit => SiteInv
BY DEF SiteInit, SiteInv, SiteTypeOK, DatesDistinct, ApprovedNoted, Of, RecordRow, NoRecord

\* The kind of a row says which columns it has.
LEMMA RowOfKind ==
    ASSUME SiteInv, NEW r \in SiteRecord
    PROVE  /\ records[r].kind = "report" => records[r] \in DailySiteReport
           /\ records[r].kind = "issue" => records[r] \in Issue
           /\ records[r].kind = "site request" => records[r] \in SiteRequest
           /\ records[r].kind = "task request" => records[r] \in TaskRequest
           /\ records[r].kind = "checklist" => records[r] \in Checklist
           /\ records[r].kind = "qc" => records[r] \in QCRecord
           /\ records[r].kind = "incident" => records[r] \in SafetyIncident
<1>1. records[r] \in RecordRow
  BY DEF SiteInv, SiteTypeOK
<1>2. \/ records[r] \in DailySiteReport /\ records[r].kind = "report"
      \/ records[r] \in Issue /\ records[r].kind = "issue"
      \/ records[r] \in SiteRequest /\ records[r].kind = "site request"
      \/ records[r] \in TaskRequest /\ records[r].kind = "task request"
      \/ records[r] \in Checklist /\ records[r].kind = "checklist"
      \/ records[r] \in QCRecord /\ records[r].kind = "qc"
      \/ records[r] \in SafetyIncident /\ records[r].kind = "incident"
      \/ records[r].kind = "none"
  <2>1. CASE records[r] \in DailySiteReport BY <2>1 DEF DailySiteReport
  <2>2. CASE records[r] \in Issue BY <2>2 DEF Issue
  <2>3. CASE records[r] \in SiteRequest BY <2>3 DEF SiteRequest
  <2>4. CASE records[r] \in TaskRequest BY <2>4 DEF TaskRequest
  <2>5. CASE records[r] \in Checklist BY <2>5 DEF Checklist
  <2>6. CASE records[r] \in QCRecord BY <2>6 DEF QCRecord
  <2>7. CASE records[r] \in SafetyIncident BY <2>7 DEF SafetyIncident
  <2>8. CASE records[r] = NoRecord BY <2>8 DEF NoRecord
  <2> QED BY <1>1, <2>1, <2>2, <2>3, <2>4, <2>5, <2>6, <2>7, <2>8 DEF RecordRow
<1> QED BY <1>2

\* A step that writes one row: a report keeps its date to itself, and says what is
\* noted of it.
LEMMA PutInv ==
    ASSUME SiteInv, NEW r \in SiteRecord, NEW row \in RecordRow, Put(r, row),
           photos' \subseteq SiteRecord, logs' \subseteq SiteRecord,
           row.kind = "report" => FreeKey("report", row.key, r),
           approvedText' \in [SiteRecord -> {NoText} \cup 0..MaxEdits],
           \A s \in SiteRecord : s # r => approvedText'[s] = approvedText[s],
           approvedText'[r] # NoText =>
               row.kind = "report" /\ row.status = "Approved" /\ row.text = approvedText'[r]
    PROVE  SiteInv'
<1>1. \A s \in SiteRecord : records'[s] = IF s = r THEN row ELSE records[s]
  BY DEF Put, SiteInv, SiteTypeOK
<1>2. SiteTypeOK'
  BY DEF Put, SiteInv, SiteTypeOK
<1>3. DatesDistinct'
  BY <1>1 DEF SiteInv, DatesDistinct, Of, FreeKey
<1>4. ApprovedNoted'
  BY <1>1 DEF SiteInv, ApprovedNoted
<1> QED BY <1>2, <1>3, <1>4 DEF SiteInv

\* The same for a row that is no report, before or after.
LEMMA PutOtherInv ==
    ASSUME SiteInv, NEW r \in SiteRecord, NEW row \in RecordRow, row.kind # "report",
           records[r].kind # "report", PutOnly(r, row)
    PROVE  SiteInv'
<1>1. approvedText[r] = NoText
  BY DEF SiteInv, ApprovedNoted
<1> QED BY <1>1, PutInv DEF PutOnly, SiteInv, SiteTypeOK

LEMMA DropInv ==
    ASSUME SiteInv, NEW r \in SiteRecord, Drop(r)
    PROVE  SiteInv'
<1>1. NoRecord \in RecordRow /\ NoRecord.kind # "report"
  BY DEF RecordRow, NoRecord
<1>2. /\ approvedText' \in [SiteRecord -> {NoText} \cup 0..MaxEdits]
      /\ approvedText'[r] = NoText
      /\ \A s \in SiteRecord : s # r => approvedText'[s] = approvedText[s]
  BY DEF Drop, SiteInv, SiteTypeOK
<1> QED BY <1>1, <1>2, PutInv DEF Drop, SiteInv, SiteTypeOK

LEMMA CreateDSRInv ==
    ASSUME SiteInv, NEW r \in SiteRecord, NEW d \in Key, NEW p \in Person, NEW photo \in BOOLEAN,
           CreateDSR(r, d, p, photo)
    PROVE  SiteInv'
<1> DEFINE row == [kind |-> "report", status |-> "Draft", key |-> d, author |-> p, text |-> 0]
<1>1. row \in RecordRow
  <2>1. 0 \in 0..MaxEdits
    BY MaxEditsAssumption
  <2> QED BY <2>1 DEF RecordRow, DailySiteReport, DailySiteReportStatus
<1>2. row.kind = "report" /\ row.key = d /\ Put(r, row) /\ FreeKey("report", d, r)
  BY DEF CreateDSR
<1>3. approvedText[r] = NoText
  BY DEF CreateDSR, Unused, Of, SiteInv, ApprovedNoted
<1> HIDE DEF row
<1> QED BY <1>1, <1>2, <1>3, PutInv DEF CreateDSR, SiteInv, SiteTypeOK

\* A report that keeps its date, and its text if it was approved.
LEMMA ReportInv ==
    ASSUME SiteInv, NEW r \in SiteRecord, records[r].kind = "report",
           NEW row \in DailySiteReport, row.key = records[r].key,
           PutOnly(r, row), approvedText[r] = NoText
    PROVE  SiteInv'
<1>1. row \in RecordRow /\ row.kind = "report"
  BY DEF RecordRow, DailySiteReport
<1>2. FreeKey("report", row.key, r)
  BY DEF FreeKey, Of, SiteInv, DatesDistinct
<1> QED BY <1>1, <1>2, PutInv DEF PutOnly, SiteInv, SiteTypeOK

LEMMA UpdateDSRInv ==
    ASSUME SiteInv, NEW r \in SiteRecord, NEW d \in Key, UpdateDSR(r, d)
    PROVE  SiteInv'
<1> DEFINE row == [records[r] EXCEPT !.key = d, !.text = @ + 1]
<1>1. records[r] \in DailySiteReport /\ records[r].status # "Approved"
  BY RowOfKind DEF UpdateDSR, OpenReport, Of
<1>2. row \in DailySiteReport /\ row.key = d
  <2>1. records[r].text + 1 \in 0..MaxEdits
    BY <1>1, MaxEditsAssumption DEF UpdateDSR, DailySiteReport
  <2> QED BY <1>1, <2>1 DEF DailySiteReport
<1>3. row \in RecordRow /\ PutOnly(r, row) /\ FreeKey("report", d, r)
  BY <1>2 DEF UpdateDSR, RecordRow
<1>4. approvedText[r] = NoText
  BY <1>1 DEF SiteInv, ApprovedNoted
<1> HIDE DEF row
<1> QED BY <1>2, <1>3, <1>4, PutInv DEF PutOnly, SiteInv, SiteTypeOK

LEMMA StatusDSRInv ==
    ASSUME SiteInv, NEW r \in SiteRecord, SubmitDSR(r) \/ RejectDSR(r)
    PROVE  SiteInv'
<1>1. records[r] \in DailySiteReport /\ records[r].kind = "report" /\ approvedText[r] = NoText
  BY RowOfKind DEF SubmitDSR, RejectDSR, Of, SiteInv, ApprovedNoted
<1>2. PICK s \in {"Draft", "Submitted"} : PutOnly(r, [records[r] EXCEPT !.status = s])
  BY DEF SubmitDSR, RejectDSR
<1>3. /\ [records[r] EXCEPT !.status = s] \in DailySiteReport
      /\ [records[r] EXCEPT !.status = s].key = records[r].key
  BY <1>1 DEF DailySiteReport, DailySiteReportStatus
<1> QED BY <1>1, <1>2, <1>3, ReportInv

LEMMA ApproveDSRInv ==
    ASSUME SiteInv, NEW r \in SiteRecord, NEW p \in Person, NEW isSuperAdmin \in BOOLEAN,
           ApproveDSR(r, p, isSuperAdmin)
    PROVE  SiteInv'
<1> DEFINE row == [records[r] EXCEPT !.status = "Approved"]
<1>1. records[r] \in DailySiteReport /\ records[r].kind = "report"
  BY RowOfKind DEF ApproveDSR, Of
<1>2. /\ row \in DailySiteReport /\ row.kind = "report" /\ row.status = "Approved"
      /\ row.key = records[r].key /\ row.text = records[r].text /\ row.text \in 0..MaxEdits
  BY <1>1 DEF DailySiteReport, DailySiteReportStatus
<1>3. row \in RecordRow /\ Put(r, row)
  BY <1>2 DEF ApproveDSR, RecordRow
<1>4. FreeKey("report", row.key, r)
  BY <1>1, <1>2 DEF FreeKey, Of, SiteInv, DatesDistinct
<1>5. /\ approvedText' \in [SiteRecord -> {NoText} \cup 0..MaxEdits]
      /\ approvedText'[r] = records[r].text
      /\ \A s \in SiteRecord : s # r => approvedText'[s] = approvedText[s]
  BY <1>2 DEF ApproveDSR, SiteInv, SiteTypeOK
<1> HIDE DEF row
<1> QED BY <1>2, <1>3, <1>4, <1>5, PutInv DEF ApproveDSR, SiteInv, SiteTypeOK

LEMMA IssuesInv ==
    ASSUME SiteInv, NEW r \in SiteRecord, NEW t \in Key, NEW s \in IssueStatus, NEW res \in BOOLEAN,
           CreateIssue(r, t, s) \/ UpdateIssue(r, t, s, res)
    PROVE  SiteInv'
<1>1. CASE CreateIssue(r, t, s)
  <2>1. [kind |-> "issue", status |-> s, key |-> t, resolved |-> FALSE] \in Issue
    BY DEF Issue
  <2>2. records[r].kind # "report"
    BY <1>1 DEF CreateIssue, Unused, Of
  <2> QED BY <1>1, <2>1, <2>2, PutOtherInv DEF CreateIssue, RecordRow
<1>2. CASE UpdateIssue(r, t, s, res)
  <2> DEFINE row == [records[r] EXCEPT !.key = t, !.status = s, !.resolved = @ \/ res]
  <2>1. records[r] \in Issue /\ records[r].kind = "issue"
    BY <1>2, RowOfKind DEF UpdateIssue, Of
  <2>2. row \in Issue /\ row.kind = "issue"
    BY <2>1 DEF Issue
  <2>3. row \in RecordRow /\ PutOnly(r, row)
    BY <1>2, <2>2 DEF UpdateIssue, RecordRow
  <2> HIDE DEF row
  <2> QED BY <2>1, <2>2, <2>3, PutOtherInv
<1> QED BY <1>1, <1>2

LEMMA RequestsInv ==
    ASSUME SiteInv, NEW r \in SiteRecord, NEW s \in RequestStatus, NEW f \in Listing,
           \/ CreateSiteRequest(r) \/ DecideSiteRequest(r, s)
           \/ CreateTaskRequest(r, s) \/ UpdateTaskRequest(r, s, f) \/ DeleteTaskRequest(r)
    PROVE  SiteInv'
<1>1. CASE CreateSiteRequest(r)
  <2>1. [kind |-> "site request", status |-> "Pending"] \in SiteRequest
    BY DEF SiteRequest, RequestStatus
  <2> QED BY <1>1, <2>1, PutOtherInv DEF CreateSiteRequest, Unused, Of, RecordRow
<1>2. CASE DecideSiteRequest(r, s)
  <2>1. records[r] \in SiteRequest /\ records[r].kind = "site request"
    BY <1>2, RowOfKind DEF DecideSiteRequest, Of
  <2>2. /\ [records[r] EXCEPT !.status = s] \in SiteRequest
        /\ [records[r] EXCEPT !.status = s].kind = "site request"
    BY <2>1 DEF SiteRequest
  <2> QED BY <1>2, <2>1, <2>2, PutOtherInv DEF DecideSiteRequest, RecordRow
<1>3. CASE CreateTaskRequest(r, s)
  <2>1. [kind |-> "task request", status |-> s, flag |-> "listed"] \in TaskRequest
    BY DEF TaskRequest, Listing
  <2> QED BY <1>3, <2>1, PutOtherInv DEF CreateTaskRequest, Unused, Of, RecordRow
<1>4. CASE UpdateTaskRequest(r, s, f)
  <2>1. records[r] \in TaskRequest /\ records[r].kind = "task request"
    BY <1>4, RowOfKind DEF UpdateTaskRequest, OpenTaskRequest, Of
  <2>2. /\ [records[r] EXCEPT !.status = s, !.flag = f] \in TaskRequest
        /\ [records[r] EXCEPT !.status = s, !.flag = f].kind = "task request"
    BY <2>1 DEF TaskRequest
  <2> QED BY <1>4, <2>1, <2>2, PutOtherInv DEF UpdateTaskRequest, RecordRow
<1>5. CASE DeleteTaskRequest(r)
  <2>1. records[r] \in TaskRequest /\ records[r].kind = "task request"
    BY <1>5, RowOfKind DEF DeleteTaskRequest, OpenTaskRequest, Of
  <2>2. /\ [records[r] EXCEPT !.flag = "deleted"] \in TaskRequest
        /\ [records[r] EXCEPT !.flag = "deleted"].kind = "task request"
    BY <2>1 DEF TaskRequest, Listing
  <2> QED BY <1>5, <2>1, <2>2, PutOtherInv DEF DeleteTaskRequest, RecordRow
<1> QED BY <1>1, <1>2, <1>3, <1>4, <1>5

LEMMA ChecklistsInv ==
    ASSUME SiteInv, NEW r \in SiteRecord, NEW i \in Key, NEW n \in Key,
           \/ CreateChecklist(r) \/ AddChecklistItem(r, i) \/ DeleteChecklistItem(r, i)
           \/ UpdateChecklistItem(r, i, n)
    PROVE  SiteInv'
<1>1. CASE CreateChecklist(r)
  <2>1. [kind |-> "checklist", items |-> {}] \in Checklist
    BY DEF Checklist
  <2> QED BY <1>1, <2>1, PutOtherInv DEF CreateChecklist, Unused, Of, RecordRow
<1>2. CASE ~CreateChecklist(r)
  <2>1. records[r] \in Checklist /\ records[r].kind = "checklist"
    BY <1>2, RowOfKind DEF AddChecklistItem, DeleteChecklistItem, UpdateChecklistItem, Of
  <2>2. PICK k \in SUBSET Key : PutOnly(r, [records[r] EXCEPT !.items = k])
    BY <1>2, <2>1 DEF AddChecklistItem, DeleteChecklistItem, UpdateChecklistItem, Checklist
  <2>3. /\ [records[r] EXCEPT !.items = k] \in Checklist
        /\ [records[r] EXCEPT !.items = k].kind = "checklist"
    BY <2>1 DEF Checklist
  <2> QED BY <2>1, <2>2, <2>3, PutOtherInv DEF RecordRow
<1> QED BY <1>1, <1>2

LEMMA InspectionsInv ==
    ASSUME SiteInv, NEW r \in SiteRecord,
           CreateQC(r) \/ CreateIncident(r) \/ UpdateInspection(r)
    PROVE  SiteInv'
<1>0. 0 \in 0..MaxEdits
  BY MaxEditsAssumption
<1>1. CASE CreateQC(r)
  <2>1. [kind |-> "qc", text |-> 0] \in QCRecord
    BY <1>0 DEF QCRecord
  <2> QED BY <1>1, <2>1, PutOtherInv DEF CreateQC, Unused, Of, RecordRow
<1>2. CASE CreateIncident(r)
  <2>1. [kind |-> "incident", text |-> 0] \in SafetyIncident
    BY <1>0 DEF SafetyIncident
  <2> QED BY <1>2, <2>1, PutOtherInv DEF CreateIncident, Unused, Of, RecordRow
<1>3. CASE UpdateInspection(r)
  <2> DEFINE row == [records[r] EXCEPT !.text = @ + 1]
  <2>1. records[r] \in QCRecord \/ records[r] \in SafetyIncident
    BY <1>3, RowOfKind DEF UpdateInspection, Of
  <2>2. records[r].text + 1 \in 0..MaxEdits
    BY <1>3, <2>1, MaxEditsAssumption DEF UpdateInspection, QCRecord, SafetyIncident
  <2>3. /\ row \in QCRecord \/ row \in SafetyIncident
        /\ row.kind # "report" /\ records[r].kind # "report"
    BY <2>1, <2>2 DEF QCRecord, SafetyIncident
  <2>4. row \in RecordRow /\ PutOnly(r, row)
    BY <1>3, <2>3 DEF UpdateInspection, RecordRow
  <2> HIDE DEF row
  <2> QED BY <2>3, <2>4, PutOtherInv
<1> QED BY <1>1, <1>2, <1>3

\* Photos and executions of checklists are not looked at by the others.
LEMMA BesideInv ==
    ASSUME SiteInv, UNCHANGED <<records, approvedText>>,
           photos' \subseteq SiteRecord, logs' \subseteq SiteRecord
    PROVE  SiteInv'
BY DEF SiteInv, SiteTypeOK, DatesDistinct, ApprovedNoted, Of

LEMMA SiteNextInv == SiteInv /\ [SiteNext]_siteVars => SiteInv'
<1> SUFFICES ASSUME SiteInv, [SiteNext]_siteVars PROVE SiteInv' OBVIOUS
<1>1. CASE UNCHANGED siteVars
  BY <1>1, BesideInv DEF siteVars, SiteInv, SiteTypeOK
<1>2. CASE SiteNext
  <2> SUFFICES ASSUME NEW r \in SiteRecord,
                      \/ \E d \in Key, p \in Person, photo \in BOOLEAN : CreateDSR(r, d, p, photo)
                      \/ \E d \in Key : UpdateDSR(r, d)
                      \/ DeleteDSR(r) \/ DeleteDSRPhoto(r) \/ UploadPhoto(r) \/ SubmitDSR(r)
                      \/ RejectDSR(r)
                      \/ \E p \in Person, isSuperAdmin \in BOOLEAN : ApproveDSR(r, p, isSuperAdmin)
                      \/ \E t \in Key, s \in IssueStatus :
                             CreateIssue(r, t, s) \/ \E res \in BOOLEAN : UpdateIssue(r, t, s, res)
                      \/ DeleteIssue(r)
                      \/ CreateSiteRequest(r) \/ DeleteTaskRequest(r)
                      \/ \E d \in {"Approved", "Rejected"} : DecideSiteRequest(r, d)
                      \/ \E s \in RequestStatus :
                             CreateTaskRequest(r, s) \/ \E f \in Listing : UpdateTaskRequest(r, s, f)
                      \/ CreateChecklist(r) \/ ExecuteChecklist(r) \/ DeleteChecklist(r)
                      \/ \E i \in Key : \/ AddChecklistItem(r, i) \/ DeleteChecklistItem(r, i)
                                        \/ \E n \in Key : UpdateChecklistItem(r, i, n)
                      \/ CreateQC(r) \/ CreateIncident(r) \/ UpdateInspection(r)
                      \/ DeleteInspection(r)
               PROVE  SiteInv'
    BY <1>2 DEF SiteNext
  <2>1. CASE DeleteDSR(r) \/ DeleteIssue(r) \/ DeleteChecklist(r) \/ DeleteInspection(r)
    BY <2>1, DropInv DEF DeleteDSR, DeleteIssue, DeleteChecklist, DeleteInspection
  <2>2. CASE DeleteDSRPhoto(r) \/ UploadPhoto(r) \/ ExecuteChecklist(r)
    BY <2>2, BesideInv DEF DeleteDSRPhoto, UploadPhoto, ExecuteChecklist, SiteInv, SiteTypeOK
  <2>3. CASE \/ CreateSiteRequest(r) \/ DeleteTaskRequest(r)
             \/ \E d \in {"Approved", "Rejected"} : DecideSiteRequest(r, d)
             \/ \E s \in RequestStatus :
                    CreateTaskRequest(r, s) \/ \E f \in Listing : UpdateTaskRequest(r, s, f)
    BY <2>3, RequestsInv DEF RequestStatus, Listing
  <2>4. CASE CreateChecklist(r)
    <3>1. CASE Key = {}
      <4>1. [kind |-> "checklist", items |-> {}] \in Checklist
        BY DEF Checklist
      <4> QED BY <2>4, <4>1, PutOtherInv DEF CreateChecklist, Unused, Of, RecordRow
    <3>2. CASE Key # {}
      BY <2>4, <3>2, ChecklistsInv
    <3> QED BY <3>1, <3>2
  <2>5. CASE \E i \in Key : \/ AddChecklistItem(r, i) \/ DeleteChecklistItem(r, i)
                            \/ \E n \in Key : UpdateChecklistItem(r, i, n)
    BY <2>5, ChecklistsInv
  <2>6. CASE \E t \in Key, s \in IssueStatus :
                 CreateIssue(r, t, s) \/ \E res \in BOOLEAN : UpdateIssue(r, t, s, res)
    BY <2>6, IssuesInv
  <2>7. CASE \/ \E d \in Key, p \in Person, photo \in BOOLEAN : CreateDSR(r, d, p, photo)
             \/ \E d \in Key : UpdateDSR(r, d)
             \/ SubmitDSR(r) \/ RejectDSR(r)
             \/ \E p \in Person, isSuperAdmin \in BOOLEAN : ApproveDSR(r, p, isSuperAdmin)
    BY <2>7, CreateDSRInv, UpdateDSRInv, StatusDSRInv, ApproveDSRInv
  <2>8. CASE CreateQC(r) \/ CreateIncident(r) \/ UpdateInspection(r)
    BY <2>8, InspectionsInv
  <2> QED BY <2>1, <2>2, <2>3, <2>4, <2>5, <2>6, <2>7, <2>8
<1> QED BY <1>1, <1>2

\* An approved daily report stays as it was approved, and alone on its day, though
\* reports are rewritten after their submission and decided on in one row-locked step
\* each (update_dsr, approve_dsr).
THEOREM ApprovedReportStandsAlways == SiteSpec => []ApprovedReportStands
<1>1. SiteInv => ApprovedReportStands
  BY DEF SiteInv, DatesDistinct, ApprovedNoted, ApprovedReportStands, FreeKey, Of
<1> QED BY <1>1, SiteInitInv, SiteNextInv, PTL DEF SiteSpec

-----------------------------------------------------------------------------
(* Projects. *)

\* The projects there are can be counted: they came one by one.
ProjectsInv == ProjectsTypeOK /\ IsFiniteSet(Existing) /\ QuotaOverrunBounded

LEMMA ProjectsInitInv == ProjectsInit => ProjectsInv
<1> SUFFICES ASSUME ProjectsInit PROVE ProjectsInv OBVIOUS
<1>1. Existing = {} /\ Creating = {}
  BY DEF ProjectsInit, Existing, ProjectExists, Creating, NoCreation
<1>2. Cardinality(Existing) = 0 /\ Cardinality(Creating) = 0 /\ IsFiniteSet(Existing)
  BY <1>1, FS_EmptySet
<1>3. MaxProjects \in Nat /\ Cardinality(Requests) \in Nat
  BY MaxProjectsAssumption, RequestsAssumption, FS_CardinalityType
<1>4. QuotaOverrunBounded
  BY <1>2, <1>3 DEF QuotaOverrunBounded
<1>5. ProjectsTypeOK
  BY DEF ProjectsInit, ProjectsTypeOK
<1> QED BY <1>2, <1>4, <1>5 DEF ProjectsInv

LEMMA ProjectsCounted ==
    ASSUME ProjectsInv
    PROVE  /\ IsFiniteSet(Existing) /\ IsFiniteSet(Creating)
           /\ Cardinality(Existing) \in Nat /\ Cardinality(Creating) \in Nat
           /\ Cardinality(Creating) <= Cardinality(Requests) /\ Cardinality(Requests) \in Nat
<1>1. IsFiniteSet(Existing) /\ Creating \subseteq Requests
  BY DEF ProjectsInv, Creating
<1>2. IsFiniteSet(Creating) /\ Cardinality(Creating) <= Cardinality(Requests)
  BY <1>1, RequestsAssumption, FS_Subset
<1> QED BY <1>1, <1>2, RequestsAssumption, FS_CardinalityType

\* No project more and no creation more.
LEMMA FewerProjects ==
    ASSUME ProjectsInv, ProjectsTypeOK', Existing' \subseteq Existing, Creating' \subseteq Creating
    PROVE  ProjectsInv'
<1>1. /\ IsFiniteSet(Existing') /\ Cardinality(Existing') <= Cardinality(Existing)
      /\ IsFiniteSet(Creating') /\ Cardinality(Creating') <= Cardinality(Creating)
  BY ProjectsCounted, FS_Subset
<1>2. Cardinality(Existing') \in Nat /\ Cardinality(Creating') \in Nat
  BY <1>1, FS_CardinalityType
<1>3. QuotaOverrunBounded'
  BY <1>1, <1>2, ProjectsCounted, MaxProjectsAssumption
     DEF ProjectsInv, QuotaOverrunBounded
<1> QED BY <1>1, <1>3 DEF ProjectsInv

LEMMA InsertedGrows ==
    ASSUME ProjectsInv, NEW p \in ProjectId, NEW s \in ProjectStatus, Inserted(p, s)
    PROVE  /\ IsFiniteSet(Existing') /\ Cardinality(Existing') = Cardinality(Existing) + 1
           /\ projects' \in [ProjectId -> ProjectStatus \cup {NoProject}]
<1>1. \A q \in ProjectId : projects'[q] = IF q = p THEN s ELSE projects[q]
  BY DEF Inserted, ProjectsInv, ProjectsTypeOK
<1>2. s # NoProject
  BY DEF ProjectStatus, NoProject
<1>3. Existing' = Existing \cup {p} /\ p \notin Existing
  BY <1>1, <1>2 DEF Existing, ProjectExists, Inserted
<1>4. IsFiniteSet(Existing') /\ Cardinality(Existing') = Cardinality(Existing) + 1
  BY <1>3, ProjectsCounted, FS_AddElement
<1> QED BY <1>4 DEF Inserted, ProjectsInv, ProjectsTypeOK

LEMMA ProjectDeletedInv ==
    ASSUME ProjectsInv, NEW p \in ProjectId, Deleted(p), Creating' \subseteq Creating,
           underway' \in [Requests -> {NoCreation, [op |-> "create"]}
                                      \cup [op : {"delete"}, project : ProjectId]]
    PROVE  ProjectsInv'
<1>1. Existing' \subseteq Existing
  BY DEF Deleted, Existing, ProjectExists, ProjectsInv, ProjectsTypeOK
<1>2. ProjectsTypeOK'
  BY DEF Deleted, ProjectsInv, ProjectsTypeOK
<1> QED BY <1>1, <1>2, FewerProjects

LEMMA ProjectsNextInv == ProjectsInv /\ [ProjectsNext]_projectVars => ProjectsInv'
<1> SUFFICES ASSUME ProjectsInv, [ProjectsNext]_projectVars PROVE ProjectsInv' OBVIOUS
<1>1. ProjectsTypeOK
  BY DEF ProjectsInv
<1>2. CASE SubscriptionChanges
  <2>1. ProjectsTypeOK' /\ Existing' = Existing /\ Creating' = Creating
    BY <1>1, <1>2 DEF SubscriptionChanges, ProjectsTypeOK, Existing, ProjectExists, Creating
  <2> QED BY <2>1, FewerProjects
<1>3. ASSUME NEW p \in ProjectId, NEW s \in ProjectStatus, CreateProject(p, s) PROVE ProjectsInv'
  <2>1. Creating' = Creating /\ Cardinality(Existing) < MaxProjects
    BY <1>3 DEF CreateProject, Creating, CanCreateProject
  <2>2. IsFiniteSet(Existing') /\ Cardinality(Existing') = Cardinality(Existing) + 1
    BY <1>3, InsertedGrows DEF CreateProject
  <2>3. ProjectsTypeOK'
    BY <1>1, <1>3, InsertedGrows DEF CreateProject, Inserted, ProjectsTypeOK
  <2>4. QuotaOverrunBounded'
    BY <2>1, <2>2, ProjectsCounted, MaxProjectsAssumption DEF QuotaOverrunBounded
  <2> QED BY <2>2, <2>3, <2>4 DEF ProjectsInv
<1>4. ASSUME NEW p \in ProjectId, NEW s \in ProjectStatus, UpdateProject(p, s) PROVE ProjectsInv'
  <2>1. ProjectsTypeOK' /\ Existing' \subseteq Existing /\ Creating' = Creating
    BY <1>1, <1>4 DEF UpdateProject, ProjectsTypeOK, Existing, ProjectExists, Creating
  <2> QED BY <2>1, FewerProjects
<1>5. ASSUME NEW p \in ProjectId, NEW s \in ProjectStatus, NEW r \in Requests, CommitCreate(r, p, s)
      PROVE  ProjectsInv'
  <2>1. \A q \in Requests : underway'[q] = IF q = r THEN NoCreation ELSE underway[q]
    BY <1>1, <1>5 DEF CommitCreate, ProjectsTypeOK
  <2>2. Creating' = Creating \ {r} /\ r \in Creating
    BY <2>1, <1>5 DEF CommitCreate, Creating, NoCreation
  <2>3. Cardinality(Creating') = Cardinality(Creating) - 1
    BY <2>2, ProjectsCounted, FS_RemoveElement
  <2>4. IsFiniteSet(Existing') /\ Cardinality(Existing') = Cardinality(Existing) + 1
    BY <1>5, InsertedGrows DEF CommitCreate
  <2>5. ProjectsTypeOK'
    BY <1>1, <1>5, InsertedGrows DEF CommitCreate, Inserted, ProjectsTypeOK
  <2>6. QuotaOverrunBounded'
    BY <2>3, <2>4, ProjectsCounted, MaxProjectsAssumption DEF QuotaOverrunBounded, ProjectsInv
  <2> QED BY <2>4, <2>5, <2>6 DEF ProjectsInv
<1>6. ASSUME NEW p \in ProjectId, NEW k \in DependentKind, AddDependent(p, k) \/ DropDependent(p, k)
      PROVE  ProjectsInv'
  <2>1. ProjectsTypeOK' /\ Existing' = Existing /\ Creating' = Creating
    BY <1>1, <1>6 DEF AddDependent, DropDependent, ProjectsTypeOK, Existing, ProjectExists, Creating
  <2> QED BY <2>1, FewerProjects
<1>7. ASSUME NEW p \in ProjectId, DeleteProject(p) PROVE ProjectsInv'
  <2>1. Creating' = Creating
    BY <1>7 DEF DeleteProject, Creating
  <2> QED BY <1>1, <1>7, <2>1, ProjectDeletedInv DEF DeleteProject, ProjectsTypeOK
<1>8. ASSUME NEW p \in ProjectId, NEW r \in Requests, BeginDelete(r, p) PROVE ProjectsInv'
  <2>1. ProjectsTypeOK'
    BY <1>1, <1>8 DEF BeginDelete, ProjectsTypeOK
  <2>2. Existing' = Existing /\ Creating' \subseteq Creating
    BY <1>1, <1>8 DEF BeginDelete, ProjectsTypeOK, Existing, ProjectExists, Creating
  <2> QED BY <2>1, <2>2, FewerProjects
<1>9. ASSUME NEW r \in Requests, BeginCreate(r) PROVE ProjectsInv'
  <2>1. ProjectsTypeOK' /\ Existing' = Existing
    BY <1>1, <1>9 DEF BeginCreate, ProjectsTypeOK, Existing, ProjectExists
  <2>2. Cardinality(Existing) < MaxProjects
    BY <1>9 DEF BeginCreate, CanCreateProject
  <2>3. Creating' \subseteq Requests
    BY DEF Creating
  <2>4. Cardinality(Creating') <= Cardinality(Requests) /\ IsFiniteSet(Creating')
    BY <2>3, RequestsAssumption, FS_Subset
  <2>5. Cardinality(Creating') \in Nat
    BY <2>4, FS_CardinalityType
  <2>6. QuotaOverrunBounded'
    BY <2>1, <2>2, <2>4, <2>5, ProjectsCounted, MaxProjectsAssumption DEF QuotaOverrunBounded
  <2> QED BY <2>1, <2>6, ProjectsCounted DEF ProjectsInv
<1>10. ASSUME NEW r \in Requests, CommitDelete(r) PROVE ProjectsInv'
  <2>1. underway[r].project \in ProjectId
    BY <1>1, <1>10 DEF CommitDelete, ProjectsTypeOK, NoCreation
  <2>2. Creating' \subseteq Creating
    BY <1>1, <1>10 DEF CommitDelete, ProjectsTypeOK, Creating, NoCreation
  <2> QED BY <1>1, <1>10, <2>1, <2>2, ProjectDeletedInv DEF CommitDelete, ProjectsTypeOK
<1>11. ASSUME NEW r \in Requests, Refuse(r) PROVE ProjectsInv'
  <2>1. ProjectsTypeOK'
    BY <1>1, <1>11 DEF Refuse, ProjectsTypeOK
  <2>2. Existing' = Existing /\ Creating' \subseteq Creating
    BY <1>1, <1>11 DEF Refuse, ProjectsTypeOK, Existing, ProjectExists, Creating, NoCreation
  <2> QED BY <2>1, <2>2, FewerProjects
<1>12. CASE UNCHANGED projectVars
  <2>1. ProjectsTypeOK' /\ Existing' = Existing /\ Creating' = Creating
    BY <1>1, <1>12 DEF projectVars, ProjectsTypeOK, Existing, ProjectExists, Creating
  <2> QED BY <2>1, FewerProjects
<1> QED BY <1>2, <1>3, <1>4, <1>5, <1>6, <1>7, <1>8, <1>9, <1>10, <1>11, <1>12 DEF ProjectsNext

\* However creations overlap, the plan's quota is exceeded by no more projects than there
\* are requests at a time.
THEOREM QuotaOverrunBoundedAlways == ProjectsSpec => []QuotaOverrunBounded
<1>1. ProjectsInv => QuotaOverrunBounded
  BY DEF ProjectsInv
<1> QED BY <1>1, ProjectsInitInv, ProjectsNextInv, PTL DEF ProjectsSpec

-----------------------------------------------------------------------------
(* ReviewedFiles. *)

\* The two halves of ReviewedStands, and what keeps the first: a document somebody is
\* asked about is under review, and no drawing is taken for one.
ApprovedAsAsked ==
    \A d \in Document \ disturbed :
        DocumentExists(d) /\ ~documents[d].folder
            /\ documents[d].status \in {"UNDER_REVIEW", "APPROVED"} =>
        documents[d].content = underReview[d]
LatestIsHighest ==
    \A n \in DrawingName \ disturbed, i \in DOMAIN drawings, j \in DOMAIN drawings :
        i \in LatestOf(n) /\ j \in RevisionsOf(n) /\ j # i =>
            drawings[j].revision < drawings[i].revision
AskedIsUnderReview ==
    \A d \in Document : askedFor[d] # NoReviewer =>
                            documents[d] # NoDocument /\ documents[d].status = "UNDER_REVIEW"

FilesInv == FilesTypeOK /\ DOMAIN drawings \subseteq DrawingId /\ ApprovedAsAsked /\ AskedIsUnderReview /\ LatestIsHighest

LEMMA FilesInitInv == FilesInit => FilesInv
<1> SUFFICES ASSUME FilesInit PROVE FilesInv OBVIOUS
<1>1. DOMAIN drawings = {} /\ drawings \in Seq(DrawingRow)
  BY EmptySeq DEF FilesInit
<1>2. FilesTypeOK
  <2>1. documents \in [Document -> DocumentRow \cup {NoDocument}]
    BY DEF FilesInit
  <2>2. underReview \in [Document -> Int]
    BY DEF FilesInit
  <2>3. askedFor \in [FileEntity -> Reviewer \cup {NoReviewer}]
    BY DEF FilesInit
  <2>4. inFlight \in [Reviewing -> [op : {"update"}, document : Document] \cup {NotInFlight}
                              \cup [op : {"upload"}, name : DrawingName, revision : Nat]]
    BY DEF FilesInit
  <2>5. disturbed \subseteq Document \cup DrawingName
    BY DEF FilesInit
  <2> QED BY <1>1, <2>1, <2>2, <2>3, <2>4, <2>5 DEF FilesTypeOK
<1> QED BY <1>1, <1>2 DEF FilesInit, FilesInv, ApprovedAsAsked, AskedIsUnderReview,
                          LatestIsHighest, DocumentExists, FileEntity

LEMMA DrawingRows ==
    ASSUME FilesInv
    PROVE  /\ drawings \in Seq(DrawingRow) /\ DOMAIN drawings = 1..Len(drawings)
           /\ Len(drawings) \in Nat
           /\ \A i \in DOMAIN drawings : drawings[i] \in DrawingRow
<1>1. drawings \in Seq(DrawingRow)
  BY DEF FilesInv, FilesTypeOK
<1> QED BY <1>1, ElementOfSeq, LenProperties

\* A step that leaves the documents alone.
LEMMA DocumentsStand ==
    ASSUME FilesInv, UNCHANGED <<documents, underReview>>, disturbed \subseteq disturbed',
           \A d \in Document : askedFor'[d] \in {askedFor[d], NoReviewer}
    PROVE  ApprovedAsAsked' /\ AskedIsUnderReview'
BY DEF FilesInv, ApprovedAsAsked, AskedIsUnderReview, DocumentExists

\* A step that adds no drawing, makes none the latest and renames none without a trace.
LEMMA DrawingsStand ==
    ASSUME FilesInv, DOMAIN drawings' = DOMAIN drawings, disturbed \subseteq disturbed',
           \A i \in DOMAIN drawings :
               /\ drawings'[i].revision = drawings[i].revision
               /\ drawings'[i].latest => drawings[i].latest
               /\ drawings[i].deleted => drawings'[i].deleted
               /\ drawings'[i].name \in {drawings[i].name} \cup disturbed'
    PROVE  LatestIsHighest'
BY DEF FilesInv, LatestIsHighest, LatestOf, RevisionsOf, DrawingExists

LEMMA UploadedInv ==
    ASSUME FilesInv, NEW n \in DrawingName, NEW v \in Nat, NEW u \in Reviewer,
           Uploaded(n, v, u), disturbed \subseteq disturbed',
           v \in Above(n) \/ n \in disturbed',
           disturbed' \subseteq Document \cup DrawingName,
           inFlight' \in [Reviewing -> [op : {"update"}, document : Document] \cup {NotInFlight}
                             \cup [op : {"upload"}, name : DrawingName, revision : Nat]]
    PROVE  FilesInv'
<1> DEFINE row == [name |-> n, revision |-> v, latest |-> TRUE,
                   status |-> "UNDER_REVIEW", deleted |-> FALSE]
           old == Superseded(n)
           new == Len(drawings) + 1
<1>1. /\ drawings \in Seq(DrawingRow) /\ DOMAIN drawings = 1..Len(drawings)
      /\ Len(drawings) \in Nat
      /\ \A i \in DOMAIN drawings : drawings[i] \in DrawingRow
  BY DrawingRows
<1>2. row \in DrawingRow
  BY DEF DrawingRow, DocumentStatus
<1>3. \A i \in DOMAIN drawings : old[i] \in DrawingRow
  BY <1>1 DEF Superseded, DrawingRow
<1>4. old \in Seq(DrawingRow) /\ Len(old) = Len(drawings) /\ DOMAIN old = DOMAIN drawings
  <2>1. old \in [1..Len(drawings) -> DrawingRow]
    BY <1>1, <1>3 DEF Superseded
  <2>2. old \in Seq(DrawingRow)
    BY <1>1, <2>1
  <2> QED BY <1>1, <2>1, <2>2, LenProperties
<1>5. /\ drawings' \in Seq(DrawingRow) /\ DOMAIN drawings' = 1..new
      /\ drawings'[new] = row
      /\ \A i \in DOMAIN drawings : drawings'[i] = old[i]
  <2>1. drawings' = Append(old, row)
    BY DEF Uploaded
  <2> HIDE DEF old, row
  <2> QED BY <1>1, <1>2, <1>4, <2>1, AppendProperties, LenProperties
<1>6. \A i \in DOMAIN drawings :
          /\ drawings'[i].name = drawings[i].name
          /\ drawings'[i].revision = drawings[i].revision
          /\ drawings'[i].deleted = drawings[i].deleted
          /\ drawings'[i].latest => drawings[i].latest /\ i \notin LatestOf(n)
  BY <1>1, <1>5 DEF Superseded, DrawingRow
<1>7. new \in DrawingId
  BY <1>1, MaxDrawingAssumption DEF Uploaded, DrawingId
<1>8. FilesTypeOK'
  BY <1>5, <1>7 DEF Uploaded, FilesInv, FilesTypeOK, FileEntity
<1>9. ApprovedAsAsked' /\ AskedIsUnderReview'
  <2>1. \A d \in Document : d # new
    BY <1>7, DocumentAssumption DEF DrawingId
  <2>2. \A d \in Document : askedFor'[d] = askedFor[d]
    BY <2>1 DEF Uploaded, FilesInv, FilesTypeOK, FileEntity
  <2> QED BY <2>2, DocumentsStand DEF Uploaded
<1>10. LatestIsHighest'
  <2> SUFFICES ASSUME NEW m \in DrawingName, m \notin disturbed',
                      NEW i \in DOMAIN drawings', NEW j \in DOMAIN drawings',
                      (i \in LatestOf(m))', (j \in RevisionsOf(m))', j # i
               PROVE  drawings'[j].revision < drawings'[i].revision
    BY DEF LatestIsHighest
  <2>1. /\ drawings'[i].name = m /\ ~drawings'[i].deleted /\ drawings'[i].latest
        /\ drawings'[j].name = m /\ ~drawings'[j].deleted
    BY DEF LatestOf, RevisionsOf, DrawingExists
  <2>2. CASE i = new
    <3>1. j \in DOMAIN drawings /\ m = n /\ v \in Above(n)
      BY <1>1, <1>5, <2>1, <2>2
    <3>2. j \in RevisionsOf(n)
      BY <1>6, <2>1, <3>1 DEF RevisionsOf, DrawingExists
    <3> QED BY <1>5, <1>6, <2>2, <3>1, <3>2 DEF Above
  <2>3. CASE i # new
    <3>1. i \in DOMAIN drawings
      BY <1>1, <1>5, <2>3
    <3>2. i \in LatestOf(m) /\ m # n
      BY <1>6, <2>1, <3>1 DEF LatestOf, RevisionsOf, DrawingExists
    <3>3. j \in DOMAIN drawings
      BY <1>1, <1>5, <2>1, <3>2
    <3>4. j \in RevisionsOf(m) /\ m \notin disturbed
      BY <1>6, <2>1, <3>3 DEF RevisionsOf, DrawingExists
    <3> QED BY <1>6, <3>1, <3>2, <3>3, <3>4 DEF FilesInv, LatestIsHighest
  <2> QED BY <2>2, <2>3
<1>11. DOMAIN drawings' \subseteq DrawingId
  BY <1>1, <1>5, MaxDrawingAssumption DEF Uploaded, DrawingId
<1> QED BY <1>8, <1>9, <1>10, <1>11 DEF FilesInv

\* A step on one document that touches no drawing.
LEMMA DocumentInv ==
    ASSUME FilesInv, NEW d \in Document, NEW row \in DocumentRow,
           documents' = [documents EXCEPT ![d] = row],
           UNCHANGED drawings, disturbed \subseteq disturbed',
           disturbed' \subseteq Document \cup DrawingName,
           askedFor' \in [FileEntity -> Reviewer \cup {NoReviewer}],
           underReview' \in [Document -> Int],
           inFlight' \in [Reviewing -> [op : {"update"}, document : Document] \cup {NotInFlight}
                             \cup [op : {"upload"}, name : DrawingName, revision : Nat]],
           \A e \in Document : e # d => askedFor'[e] = askedFor[e] /\ underReview'[e] = underReview[e],
           askedFor'[d] # NoReviewer => row.status = "UNDER_REVIEW",
           ~row.deleted /\ ~row.folder /\ row.status \in {"UNDER_REVIEW", "APPROVED"} =>
               row.content = underReview'[d] \/ d \in disturbed'
    PROVE  FilesInv'
<1>1. \A e \in Document : documents'[e] = IF e = d THEN row ELSE documents[e]
  BY DEF FilesInv, FilesTypeOK
<1>2. FilesTypeOK'
  BY DEF FilesInv, FilesTypeOK
<1>3. ApprovedAsAsked'
  BY <1>1 DEF FilesInv, ApprovedAsAsked, DocumentExists
<1>4. AskedIsUnderReview'
  <2>1. row # NoDocument
    BY DEF DocumentRow, DocumentStatus, NoDocument
  <2> QED BY <1>1, <2>1 DEF FilesInv, AskedIsUnderReview
<1>5. LatestIsHighest'
  BY DEF FilesInv, LatestIsHighest, LatestOf, RevisionsOf, DrawingExists
<1> QED BY <1>2, <1>3, <1>4, <1>5 DEF FilesInv

\* A step on one drawing that touches no document.
LEMMA DrawingInv ==
    ASSUME FilesInv, NEW i \in DOMAIN drawings, NEW row \in DrawingRow,
           drawings' = [drawings EXCEPT ![i] = row],
           UNCHANGED <<documents, underReview, inFlight>>, disturbed \subseteq disturbed',
           disturbed' \subseteq Document \cup DrawingName,
           askedFor' \in [FileEntity -> Reviewer \cup {NoReviewer}],
           \A d \in Document : askedFor'[d] = askedFor[d],
           row.revision = drawings[i].revision, row.latest => drawings[i].latest,
           drawings[i].deleted => row.deleted,
           row.name \in {drawings[i].name} \cup disturbed'
    PROVE  FilesInv'
<1>1. drawings \in Seq(DrawingRow) /\ \A j \in DOMAIN drawings : drawings[j] \in DrawingRow
  BY DrawingRows
<1>2. /\ DOMAIN drawings' = DOMAIN drawings /\ drawings' \in Seq(DrawingRow)
      /\ \A j \in DOMAIN drawings : drawings'[j] = IF j = i THEN row ELSE drawings[j]
  BY <1>1, ExceptSeq
<1>3. FilesTypeOK'
  BY <1>2 DEF FilesInv, FilesTypeOK
<1>4. LatestIsHighest'
  BY <1>2, DrawingsStand
<1> QED BY <1>3, <1>4, DocumentsStand DEF FilesInv

LEMMA FilesNextInv == FilesInv /\ [FilesNext]_fileVars => FilesInv'
<1> SUFFICES ASSUME FilesInv, [FilesNext]_fileVars PROVE FilesInv' OBVIOUS
<1> USE DEF FileEntity
<1>1. FilesTypeOK
  BY DEF FilesInv
<1>2. \A i \in DOMAIN drawings : drawings[i] \in DrawingRow /\ i \in DrawingId
  BY DrawingRows DEF FilesInv
<1>3. \A d \in Document : documents[d] # NoDocument => documents[d] \in DocumentRow
  BY <1>1 DEF FilesTypeOK
<1>4. \A d \in Document, i \in DrawingId : d # i
  BY DocumentAssumption DEF DrawingId
<1>5. ASSUME NEW d \in Document, CreateFile(d) \/ CreateFolder(d) PROVE FilesInv'
  <2>1. PICK status \in {"PENDING", "APPROVED"}, folder \in BOOLEAN :
            CreateDocument(d, status, folder) /\ (status = "APPROVED" => folder)
    BY <1>5 DEF CreateFile, CreateFolder
  <2> DEFINE row == [status |-> status, folder |-> folder, content |-> 0, deleted |-> FALSE]
  <2>2. row \in DocumentRow
    BY MaxContentAssumption DEF DocumentRow, DocumentStatus
  <2>3. askedFor[d] = NoReviewer
    BY <2>1 DEF FilesInv, AskedIsUnderReview, CreateDocument
  <2> QED BY <1>1, <2>1, <2>2, <2>3, DocumentInv DEF CreateDocument, FilesTypeOK
<1>6. ASSUME NEW d \in Document, DocumentEditable(d) \/ (DocumentExists(d) /\ d \in disturbed'),
             Rewritten(d), UNCHANGED <<drawings, askedFor, underReview>>,
             disturbed \subseteq disturbed', disturbed' \subseteq Document \cup DrawingName,
             inFlight' \in [Reviewing -> [op : {"update"}, document : Document] \cup {NotInFlight}
                               \cup [op : {"upload"}, name : DrawingName, revision : Nat]]
      PROVE  FilesInv'
  <2> DEFINE row == [documents[d] EXCEPT !.content = @ + 1]
  <2>1. documents[d] \in DocumentRow /\ documents[d] # NoDocument
    BY <1>3, <1>6 DEF DocumentEditable, DocumentExists
  <2>2. documents[d].content + 1 \in 0..MaxContent
    BY <1>6, <2>1, MaxContentAssumption DEF DocumentRow, Rewritten
  <2>3. /\ row \in DocumentRow /\ row.status = documents[d].status
        /\ row.deleted = documents[d].deleted
    BY <2>1, <2>2 DEF DocumentRow
  <2>4. documents' = [documents EXCEPT ![d] = row]
    BY <1>6 DEF Rewritten
  <2>5. askedFor[d] # NoReviewer => row.status = "UNDER_REVIEW"
    BY <2>3 DEF FilesInv, AskedIsUnderReview
  <2>6. row.status \in {"UNDER_REVIEW", "APPROVED"} => d \in disturbed'
    BY <1>6, <2>3 DEF DocumentEditable
  <2> HIDE DEF row
  <2> QED BY <1>1, <1>6, <2>3, <2>4, <2>5, <2>6, DocumentInv DEF FilesTypeOK
<1>7. ASSUME NEW d \in Document, UpdateDocument(d) PROVE FilesInv'
  BY <1>1, <1>6, <1>7 DEF UpdateDocument, FilesTypeOK
<1>8. ASSUME NEW d \in Document, DeleteDocument(d) PROVE FilesInv'
  <2> DEFINE row == [documents[d] EXCEPT !.deleted = TRUE]
  <2>1. documents[d] \in DocumentRow /\ documents[d] # NoDocument
    BY <1>3, <1>8 DEF DeleteDocument, DocumentEditable, DocumentExists
  <2>2. row \in DocumentRow /\ row.status = documents[d].status /\ row.deleted
    BY <2>1 DEF DocumentRow
  <2>3. documents' = [documents EXCEPT ![d] = row]
    BY <1>8 DEF DeleteDocument
  <2>4. askedFor[d] # NoReviewer => row.status = "UNDER_REVIEW"
    BY <2>2 DEF FilesInv, AskedIsUnderReview
  <2> HIDE DEF row
  <2> QED BY <1>1, <1>8, <2>2, <2>3, <2>4, DocumentInv DEF DeleteDocument, FilesTypeOK
<1>9. ASSUME NEW d \in Document, NEW u \in Reviewer, AskForDocument(d, u) PROVE FilesInv'
  <2> DEFINE row == [documents[d] EXCEPT !.status = "UNDER_REVIEW"]
  <2>1. documents[d] \in DocumentRow
    BY <1>3, <1>9 DEF AskForDocument, DocumentEditable, DocumentExists
  <2>2. row \in DocumentRow /\ row.status = "UNDER_REVIEW" /\ row.content = documents[d].content
    BY <2>1 DEF DocumentRow, DocumentStatus
  <2>3. documents' = [documents EXCEPT ![d] = row]
    BY <1>9 DEF AskForDocument
  <2>4. documents[d].content \in Int
    BY <2>1 DEF DocumentRow
  <2>5. /\ underReview' \in [Document -> Int] /\ underReview'[d] = documents[d].content
        /\ \A e \in Document : e # d => underReview'[e] = underReview[e]
    BY <1>1, <1>9, <2>4 DEF AskForDocument, FilesTypeOK
  <2>6. /\ askedFor' \in [FileEntity -> Reviewer \cup {NoReviewer}]
        /\ \A e \in Document : e # d => askedFor'[e] = askedFor[e]
    BY <1>1, <1>9 DEF AskForDocument, FilesTypeOK
  <2> HIDE DEF row
  <2> QED BY ZenonT(60), <1>1, <1>9, <2>2, <2>3, <2>5, <2>6, DocumentInv DEF AskForDocument, FilesTypeOK
<1>10. ASSUME NEW n \in DrawingName, NEW u \in Reviewer, UploadDrawing(n, u) PROVE FilesInv'
  <2>1. PICK v \in Above(n) : Uploaded(n, v, u)
    BY <1>10 DEF UploadDrawing
  <2>2. v \in Nat
    BY DrawingRows DEF Above
  <2> QED BY <1>1, <1>10, <2>1, <2>2, UploadedInv DEF UploadDrawing, FilesTypeOK
<1>11. ASSUME NEW i \in DOMAIN drawings, NEW n \in DrawingName, UpdateDrawing(i, n) PROVE FilesInv'
  <2> DEFINE row == [drawings[i] EXCEPT !.name = n]
  <2>1. /\ row \in DrawingRow /\ row.revision = drawings[i].revision
        /\ row.latest = drawings[i].latest /\ row.deleted = drawings[i].deleted /\ row.name = n
    BY <1>2 DEF DrawingRow
  <2>2. drawings' = [drawings EXCEPT ![i] = row]
    BY <1>11 DEF UpdateDrawing
  <2>3. /\ disturbed \subseteq disturbed' /\ disturbed' \subseteq Document \cup DrawingName
        /\ n \in {drawings[i].name} \cup disturbed'
    BY <1>1, <1>11 DEF UpdateDrawing, FilesTypeOK
  <2>4. UNCHANGED <<documents, underReview, inFlight, askedFor>>
    BY <1>11 DEF UpdateDrawing
  <2> HIDE DEF row
  <2> QED BY <1>1, <1>2, <2>1, <2>2, <2>3, <2>4, DrawingInv DEF FilesTypeOK
<1>12. ASSUME NEW i \in DOMAIN drawings, DeleteDrawing(i) PROVE FilesInv'
  <2> DEFINE row == [drawings[i] EXCEPT !.deleted = TRUE]
  <2>1. /\ row \in DrawingRow /\ row.revision = drawings[i].revision
        /\ row.latest = drawings[i].latest /\ row.deleted /\ row.name = drawings[i].name
    BY <1>2 DEF DrawingRow
  <2>2. drawings' = [drawings EXCEPT ![i] = row]
    BY <1>12 DEF DeleteDrawing
  <2>3. \A d \in Document : askedFor'[d] = askedFor[d]
    BY <1>1, <1>2, <1>4, <1>12 DEF DeleteDrawing, FilesTypeOK
  <2> HIDE DEF row
  <2> QED BY <1>1, <1>12, <2>1, <2>2, <2>3, DrawingInv DEF DeleteDrawing, FilesTypeOK
<1>13. ASSUME NEW i \in DOMAIN drawings, NEW u \in Reviewer, AskForDrawing(i, u) PROVE FilesInv'
  <2> DEFINE row == [drawings[i] EXCEPT !.status = "UNDER_REVIEW"]
  <2>1. /\ row \in DrawingRow /\ row.revision = drawings[i].revision
        /\ row.latest = drawings[i].latest /\ row.deleted = drawings[i].deleted
        /\ row.name = drawings[i].name
    BY <1>2 DEF DrawingRow, DocumentStatus
  <2>2. drawings' = [drawings EXCEPT ![i] = row]
    BY <1>13 DEF AskForDrawing
  <2>3. \A d \in Document : askedFor'[d] = askedFor[d]
    BY <1>1, <1>2, <1>4, <1>13 DEF AskForDrawing, FilesTypeOK
  <2> HIDE DEF row
  <2> QED BY <1>1, <1>13, <2>1, <2>2, <2>3, DrawingInv DEF AskForDrawing, FilesTypeOK
<1>14. ASSUME NEW e \in FileEntity, NEW u \in Reviewer, NEW v \in Verdict, DecideFile(e, u, v)
       PROVE  FilesInv'
  <2>1. CASE e \in Document
    <3> DEFINE row == [documents[e] EXCEPT !.status = v]
    <3>1. documents[e].status = "UNDER_REVIEW" /\ askedFor[e] # NoReviewer
      BY <1>14, <2>1 DEF DecideFile, FilesInv, AskedIsUnderReview
    <3>2. DocumentExists(e) /\ documents' = [documents EXCEPT ![e] = row] /\ drawings' = drawings
      BY <1>4, <1>14, <2>1 DEF DecideFile
    <3>3. documents[e] \in DocumentRow
      BY <1>3, <2>1, <3>2 DEF DocumentExists
    <3>4. /\ row \in DocumentRow /\ row.content = documents[e].content
          /\ row.folder = documents[e].folder /\ row.deleted = documents[e].deleted
      BY <1>14, <3>3 DEF DocumentRow, DocumentStatus, Verdict
    <3>5. ~row.folder => row.content = underReview[e] \/ e \in disturbed
      BY <2>1, <3>1, <3>2, <3>4 DEF FilesInv, ApprovedAsAsked
    <3>6. /\ askedFor' \in [FileEntity -> Reviewer \cup {NoReviewer}]
          /\ askedFor'[e] = NoReviewer
          /\ \A d \in Document : d # e => askedFor'[d] = askedFor[d]
      BY <1>1, <1>14 DEF DecideFile, FilesTypeOK
    <3> HIDE DEF row
    <3> QED BY <1>1, <1>14, <2>1, <3>2, <3>4, <3>5, <3>6, DocumentInv DEF DecideFile, FilesTypeOK
  <2>2. CASE e \in DrawingId
    <3> DEFINE row == [drawings[e] EXCEPT !.status = v]
    <3>1. /\ DrawingExists(e) /\ drawings' = [drawings EXCEPT ![e] = row]
          /\ documents' = documents
      BY <1>4, <1>14, <2>2 DEF DecideFile
    <3>2. e \in DOMAIN drawings
      BY <3>1 DEF DrawingExists
    <3>3. /\ row \in DrawingRow /\ row.revision = drawings[e].revision
          /\ row.latest = drawings[e].latest /\ row.deleted = drawings[e].deleted
          /\ row.name = drawings[e].name
      BY <1>2, <1>14, <3>2 DEF DrawingRow, DocumentStatus, Verdict
    <3>4. \A d \in Document : askedFor'[d] = askedFor[d]
      BY <1>1, <1>4, <1>14, <2>2 DEF DecideFile, FilesTypeOK
    <3> HIDE DEF row
    <3> QED BY <1>1, <1>14, <3>1, <3>2, <3>3, <3>4, DrawingInv DEF DecideFile, FilesTypeOK
  <2> QED BY <2>1, <2>2
<1>15. ASSUME UNCHANGED <<documents, drawings, askedFor, underReview, disturbed>>,
              inFlight' \in [Reviewing -> [op : {"update"}, document : Document] \cup {NotInFlight}
                                \cup [op : {"upload"}, name : DrawingName, revision : Nat]]
       PROVE  FilesInv'
  BY <1>1, <1>15 DEF FilesInv, FilesTypeOK, ApprovedAsAsked, AskedIsUnderReview, LatestIsHighest,
                     LatestOf, RevisionsOf, DrawingExists, DocumentExists
<1>16. ASSUME NEW r \in Reviewing, NEW d \in Document, BeginUpdate(r, d) PROVE FilesInv'
  BY <1>1, <1>15, <1>16 DEF BeginUpdate, FilesTypeOK
<1>17. ASSUME NEW r \in Reviewing, NEW n \in DrawingName, BeginUpload(r, n) PROVE FilesInv'
  <2>1. PICK v \in Above(n) :
            inFlight' = [inFlight EXCEPT ![r] = [op |-> "upload", name |-> n, revision |-> v]]
    BY <1>17 DEF BeginUpload
  <2>2. v \in Nat
    BY DrawingRows DEF Above
  <2> QED BY <1>1, <1>15, <1>17, <2>1, <2>2 DEF BeginUpload, FilesTypeOK
<1>18. ASSUME NEW r \in Reviewing, NEW u \in Reviewer, CommitUpload(r, u) PROVE FilesInv'
  <2> DEFINE q == inFlight[r]
  <2>1. q.name \in DrawingName /\ q.revision \in Nat
    BY <1>1, <1>18 DEF CommitUpload, FilesTypeOK, NotInFlight
  <2>2. /\ Uploaded(q.name, q.revision, u)
        /\ disturbed' = IF NextRevision(q.name, q.revision) THEN disturbed
                        ELSE disturbed \cup {q.name}
    BY <1>18 DEF CommitUpload
  <2>3. q.revision \in Above(q.name) \/ q.name \in disturbed'
    BY <2>2 DEF NextRevision
  <2>4. /\ disturbed \subseteq disturbed' /\ disturbed' \subseteq Document \cup DrawingName
        /\ inFlight' \in [Reviewing -> [op : {"update"}, document : Document] \cup {NotInFlight}
                             \cup [op : {"upload"}, name : DrawingName, revision : Nat]]
    BY <1>1, <1>18, <2>1, <2>2 DEF CommitUpload, FilesTypeOK
  <2> QED BY <2>1, <2>2, <2>3, <2>4, UploadedInv
<1>19. ASSUME NEW r \in Reviewing, CommitFileUpdate(r) PROVE FilesInv'
  <2> DEFINE d == inFlight[r].document
  <2>1. d \in Document
    BY <1>1, <1>19 DEF CommitFileUpdate, FilesTypeOK, NotInFlight
  <2>2. /\ DocumentEditable(d) \/ (DocumentExists(d) /\ d \in disturbed')
        /\ Rewritten(d)
        /\ disturbed \subseteq disturbed' /\ disturbed' \subseteq Document \cup DrawingName
    BY <1>1, <1>19, <2>1 DEF CommitFileUpdate, FilesTypeOK
  <2>3. inFlight' \in [Reviewing -> [op : {"update"}, document : Document] \cup {NotInFlight}
                          \cup [op : {"upload"}, name : DrawingName, revision : Nat]]
    BY <1>1, <1>19 DEF CommitFileUpdate, FilesTypeOK
  <2> QED BY <1>6, <1>19, <2>1, <2>2, <2>3 DEF CommitFileUpdate
<1>20. ASSUME NEW r \in Reviewing, Abandon(r) PROVE FilesInv'
  BY <1>1, <1>15, <1>20 DEF Abandon, FilesTypeOK
<1>21. CASE UNCHANGED fileVars
  BY <1>1, <1>15, <1>21 DEF fileVars, FilesTypeOK
<1> QED BY <1>5, <1>7, <1>8, <1>9, <1>10, <1>11, <1>12, <1>13, <1>14, <1>16, <1>17, <1>18, <1>19,
           <1>20, <1>21 DEF FilesNext

\* Overlapping edits and uploads and renamed drawings aside, what was approved is what the
\* approval was asked for, and the latest revision of a drawing is the highest.
THEOREM ReviewedStandsAlways == FilesSpec => []ReviewedStands
<1>1. FilesInv => ReviewedStands
  BY DEF FilesInv, ApprovedAsAsked, LatestIsHighest, ReviewedStands
<1> QED BY <1>1, FilesInitInv, FilesNextInv, PTL DEF FilesSpec

-----------------------------------------------------------------------------
(* WorkUpdates. *)

\* A deletion under way saw an image to spare on a draft.
DeletionsSpare ==
    \A r \in Uploading : pending[r].op = "delete" =>
        /\ pending[r].seen.status = "Draft"
        /\ pending[r].seen.images[pending[r].side] > 1

UpdatesInv == UpdatesTypeOK /\ DeletionsSpare /\ UpdatesAreShown

LEMMA UpdatesInitInv == UpdatesInit => UpdatesInv
BY DEF UpdatesInit, UpdatesInv, UpdatesTypeOK, DeletionsSpare, UpdatesAreShown, UpdateExists,
       NoUploadRequest

LEMMA UpdateRows ==
    ASSUME UpdatesInv, NEW w \in Update, UpdateExists(w)
    PROVE  /\ updates[w] \in WorkUpdateRow
           /\ \A s \in Side : updates[w].images[s] \in 0..MaxImages
BY DEF UpdatesInv, UpdatesTypeOK, UpdateExists, WorkUpdateRow

\* A step on the requests alone.
LEMMA OnlyRequestsInv ==
    ASSUME UpdatesInv, UNCHANGED <<updates, outrun>>, open' \subseteq Site,
           UpdatesTypeOK', DeletionsSpare'
    PROVE  UpdatesInv'
BY DEF UpdatesInv, UpdatesAreShown, UpdateExists, Shown, Draft, DraftsOf

\* A step on one update that stays what it is about and whose it is.
LEMMA UpdateRowInv ==
    ASSUME UpdatesInv, NEW w \in Update, UpdateExists(w), NEW row \in WorkUpdateRow,
           updates' = [updates EXCEPT ![w] = row],
           row.author = updates[w].author, row.site = updates[w].site,
           row.status \in {updates[w].status, "Submitted"},
           outrun \subseteq outrun', outrun' \subseteq Update, UNCHANGED open,
           \A r \in Uploading : pending'[r] \in {pending[r], NoUploadRequest},
           pending' \in [Uploading -> [op : {"create"}, author : Author, site : Site] \cup {NoUploadRequest}
                            \cup [op : {"delete"}, update : Update, side : Side, seen : WorkUpdateRow]],
           w \notin outrun' /\ row.images["AFTER"] > 0 => row.images["BEFORE"] > 0,
           w \notin outrun' /\ row.status = "Submitted" => \A s \in Side : row.images[s] > 0
    PROVE  UpdatesInv'
<1>1. /\ \A v \in Update : updates'[v] = IF v = w THEN row ELSE updates[v]
      /\ row # NoUpdate /\ UpdatesTypeOK'
  BY DEF UpdatesInv, UpdatesTypeOK, WorkUpdateRow, NoUpdate
<1>2. DeletionsSpare'
  BY DEF UpdatesInv, DeletionsSpare, NoUploadRequest
<1>3. \A v \in Update : UpdateExists(v)' = UpdateExists(v) /\ (Draft(v)' => Draft(v))
  BY <1>1 DEF UpdateExists, Draft, WorkUpdateRow
<1>4. ASSUME NEW v \in Update, v \notin outrun', UpdateExists(v)'
      PROVE  /\ (updates'[v].images["AFTER"] > 0 => updates'[v].images["BEFORE"] > 0)
             /\ (updates'[v].status = "Submitted" => Shown(v)')
             /\ Draft(v)' => (DraftsOf(updates[v].author, updates[v].site) \ outrun)' = {v}
  <2>1. updates'[v].images["AFTER"] > 0 => updates'[v].images["BEFORE"] > 0
    BY <1>1, <1>3, <1>4 DEF UpdatesInv, UpdatesAreShown
  <2>2. updates'[v].status = "Submitted" => Shown(v)'
    BY <1>1, <1>3, <1>4 DEF UpdatesInv, UpdatesAreShown, Shown
  <2>3. ASSUME Draft(v)' PROVE (DraftsOf(updates[v].author, updates[v].site) \ outrun)' = {v}
    <3>1. Draft(v) /\ v \notin outrun
      BY <1>3, <1>4, <2>3
    <3>2. DraftsOf(updates[v].author, updates[v].site) \ outrun = {v}
      BY <3>1 DEF Draft, UpdatesInv, UpdatesAreShown
    <3>3. updates'[v].author = updates[v].author /\ updates'[v].site = updates[v].site
      BY <1>1
    <3>4. DraftsOf(updates[v].author, updates[v].site)'
              \subseteq DraftsOf(updates[v].author, updates[v].site)
      BY <1>1, <1>3 DEF DraftsOf
    <3>5. v \in DraftsOf(updates[v].author, updates[v].site)'
      BY <2>3 DEF DraftsOf
    <3> QED BY <1>4, <3>2, <3>4, <3>5
  <2> QED BY <2>1, <2>2, <2>3
<1>5. UpdatesAreShown'
  BY <1>4 DEF UpdatesAreShown
<1> QED BY <1>1, <1>2, <1>5 DEF UpdatesInv

\* A draft that is new for a task, which somebody may have overtaken.
LEMMA NewDraftInv ==
    ASSUME UpdatesInv, NEW w \in Update, NEW row \in WorkUpdateRow, row.status = "Draft",
           w \notin outrun' /\ row.images["AFTER"] > 0 => row.images["BEFORE"] > 0,
           updates' = [updates EXCEPT ![w] = row], outrun \subseteq outrun', outrun' \subseteq Update,
           DraftsOf(row.author, row.site) = {} \/ w \in outrun', UNCHANGED open,
           \A r \in Uploading : pending'[r] \in {pending[r], NoUploadRequest},
           pending' \in [Uploading -> [op : {"create"}, author : Author, site : Site] \cup {NoUploadRequest}
                            \cup [op : {"delete"}, update : Update, side : Side, seen : WorkUpdateRow]]
    PROVE  UpdatesInv'
<1> DEFINE a == row.author
           t == row.site
<1>1. row # NoUpdate
  BY DEF NoUpdate
<1>2. /\ \A v \in Update : updates'[v] = IF v = w THEN row ELSE updates[v]
      /\ UpdatesTypeOK'
  BY <1>1 DEF UpdatesInv, UpdatesTypeOK
<1>3. DeletionsSpare'
  BY DEF UpdatesInv, DeletionsSpare, NoUploadRequest
<1>4. \A v \in Update : /\ UpdateExists(v)' = (UpdateExists(v) \/ v = w)
                        /\ Draft(v)' = (Draft(v) \/ v = w)
  BY <1>1, <1>2 DEF UpdateExists, Draft
<1>5. /\ row.status = "Draft" /\ row.author = a /\ row.site = t
      /\ DraftsOf(a, t) = {} \/ w \in outrun'
  OBVIOUS
<1> HIDE DEF a, t
<1>6. ASSUME NEW v \in Update, v \notin outrun', UpdateExists(v)'
      PROVE  /\ (updates'[v].images["AFTER"] > 0 => updates'[v].images["BEFORE"] > 0)
             /\ (updates'[v].status = "Submitted" => Shown(v)')
             /\ Draft(v)' => (DraftsOf(updates[v].author, updates[v].site) \ outrun)' = {v}
  <2>1. CASE v = w
    <3>1. DraftsOf(a, t)' = {w}
      <4>1. DraftsOf(a, t) = {}
        BY <1>5, <1>6, <2>1
      <4>2. ASSUME NEW u \in DraftsOf(a, t)' PROVE u = w
        <5>1. u \in Update /\ Draft(u)' /\ updates'[u].author = a /\ updates'[u].site = t
          BY <4>2 DEF DraftsOf
        <5>2. u # w => Draft(u) /\ updates[u].author = a /\ updates[u].site = t
          BY <1>2, <1>4, <5>1
        <5> QED BY <4>1, <5>1, <5>2 DEF DraftsOf
      <4>3. w \in DraftsOf(a, t)'
        BY <1>2, <1>4, <1>5 DEF DraftsOf
      <4> QED BY <4>2, <4>3
    <3>2. updates'[v] = row
      BY <1>2, <2>1
    <3>3. DraftsOf(updates[v].author, updates[v].site)' = {w}
      BY <3>1, <3>2, <1>5
    <3>4. row.status # "Submitted"
      BY <1>5
    <3> QED BY <1>6, <2>1, <3>2, <3>3, <3>4
  <2>2. CASE v # w
    <3>1. UpdateExists(v) /\ updates'[v] = updates[v] /\ v \notin outrun
      BY <1>2, <1>4, <1>6, <2>2
    <3>2. ASSUME Draft(v) PROVE (DraftsOf(updates[v].author, updates[v].site) \ outrun)' = {v}
      <4>1. DraftsOf(updates[v].author, updates[v].site) \ outrun = {v}
        BY <3>1, <3>2 DEF UpdatesInv, UpdatesAreShown
      <4>2. updates[v].author = a /\ updates[v].site = t => w \in outrun'
        BY <1>5, <3>2 DEF DraftsOf
      <4>3. DraftsOf(updates[v].author, updates[v].site)'
                \subseteq DraftsOf(updates[v].author, updates[v].site) \cup {w}
        BY <1>2, <1>4, <3>1 DEF DraftsOf
      <4>4. v \in DraftsOf(updates[v].author, updates[v].site)'
        BY <1>4, <3>2 DEF DraftsOf
      <4>5. w \in DraftsOf(updates[v].author, updates[v].site)' => w \in outrun'
        BY <1>2, <1>5, <3>1, <4>2 DEF DraftsOf
      <4> QED BY <1>6, <4>1, <4>3, <4>4, <4>5
    <3> QED BY <1>4, <2>2, <3>1, <3>2 DEF UpdatesInv, UpdatesAreShown, Shown
  <2> QED BY <2>1, <2>2
<1>7. UpdatesAreShown'
  BY <1>6 DEF UpdatesAreShown
<1> QED BY <1>2, <1>3, <1>7 DEF UpdatesInv

NewRow(a, t) == [status |-> "Draft", site |-> t, author |-> a, images |-> [s \in Side |-> 0]]

LEMMA NewRowTyped ==
    ASSUME NEW a \in Author, NEW t \in Site
    PROVE  NewRow(a, t) \in WorkUpdateRow /\ NewRow(a, t).images["AFTER"] = 0
BY MaxImagesAssumption DEF NewRow, WorkUpdateRow, Side

LEMMA UpdatesNextInv == UpdatesInv /\ [UpdatesNext]_updateVars => UpdatesInv'
<1> SUFFICES ASSUME UpdatesInv, [UpdatesNext]_updateVars PROVE UpdatesInv' OBVIOUS
<1>1. UpdatesTypeOK
  BY DEF UpdatesInv
<1>2. "BEFORE" \in Side /\ "AFTER" \in Side /\ Side = {"BEFORE", "AFTER"}
  BY DEF Side
<1>3. \A w \in Update : Draft(w) => UpdateExists(w) /\ updates[w].status = "Draft"
  BY DEF Draft
<1>4. ASSUME NEW t \in Site, TaskSettled(t) \/ TaskReopened(t) PROVE UpdatesInv'
  <2>1. UpdatesTypeOK' /\ DeletionsSpare'
    BY <1>1, <1>4 DEF TaskSettled, TaskReopened, UpdatesTypeOK, UpdatesInv, DeletionsSpare
  <2> QED BY <1>1, <1>4, <2>1, OnlyRequestsInv DEF TaskSettled, TaskReopened, UpdatesTypeOK
<1>5. ASSUME NEW w \in Update, NEW t \in Site, UpdateWorkUpdate(w, t) PROVE UpdatesInv'
  <2> DEFINE row == [updates[w] EXCEPT !.site = t]
  <2>1. updates[w] \in WorkUpdateRow /\ UpdateExists(w) /\ updates[w].status = "Draft"
    BY <1>3, <1>5, UpdateRows DEF UpdateWorkUpdate
  <2>2. /\ row \in WorkUpdateRow /\ row.status = "Draft" /\ row.author = updates[w].author
        /\ row.site = t /\ row.images = updates[w].images
    BY <2>1 DEF WorkUpdateRow
  <2>3. updates' = [updates EXCEPT ![w] = row] /\ updates[w].author \in Author
    BY <1>5, <2>1 DEF UpdateWorkUpdate, WorkUpdateRow
  <2>4. w \notin outrun /\ row.images["AFTER"] > 0 => row.images["BEFORE"] > 0
    BY <2>1, <2>2 DEF UpdatesInv, UpdatesAreShown
  <2> HIDE DEF row
  <2>5. CASE t = updates[w].site
    BY <1>1, <1>5, <2>1, <2>2, <2>3, <2>4, <2>5, UpdateRowInv DEF UpdateWorkUpdate, UpdatesTypeOK
  <2>6. CASE t # updates[w].site
    <3>1. DraftsOf(updates[w].author, t) = {}
      BY <1>5, <2>6 DEF UpdateWorkUpdate, NoDuplicateDraft, DraftsOf
    <3> QED BY <1>1, <1>5, <2>2, <2>3, <2>4, <3>1, NewDraftInv DEF UpdateWorkUpdate, UpdatesTypeOK
  <2> QED BY <2>5, <2>6
<1>6. ASSUME NEW w \in Update, NEW t \in Site, NEW a \in Author, CreateWorkUpdate(w, a, t)
      PROVE  UpdatesInv'
  <2>1. DraftsOf(a, t) = {}
    BY <1>6 DEF CreateWorkUpdate, NoDuplicateDraft, DraftsOf, Draft
  <2>2. /\ updates' = [updates EXCEPT ![w] = NewRow(a, t)]
        /\ NewRow(a, t) \in WorkUpdateRow /\ NewRow(a, t).status = "Draft"
        /\ NewRow(a, t).author = a /\ NewRow(a, t).site = t
        /\ NewRow(a, t).images["AFTER"] = 0
    BY <1>6, NewRowTyped DEF CreateWorkUpdate, Created, NewRow
  <2>3. DraftsOf(NewRow(a, t).author, NewRow(a, t).site) = {} /\ ~(NewRow(a, t).images["AFTER"] > 0)
    BY <2>1, <2>2
  <2>4. UNCHANGED <<open, pending, outrun>>
    BY <1>6 DEF CreateWorkUpdate
  <2> DEFINE row == NewRow(a, t)
  <2> HIDE DEF row
  <2>5. row \in WorkUpdateRow /\ row.status = "Draft" /\ updates' = [updates EXCEPT ![w] = row]
    BY <2>2 DEF row
  <2>6. DraftsOf(row.author, row.site) = {} /\ ~(row.images["AFTER"] > 0)
    BY <2>3 DEF row
  <2> QED BY <1>1, <2>4, <2>5, <2>6, NewDraftInv DEF UpdatesTypeOK
\* The images of a draft change.
<1>7. ASSUME NEW w \in Update, UpdateExists(w), NEW s \in Side, NEW n \in 0..MaxImages,
             updates' = [updates EXCEPT ![w].images[s] = n],
             outrun \subseteq outrun', outrun' \subseteq Update, UNCHANGED open,
             \A r \in Uploading : pending'[r] \in {pending[r], NoUploadRequest},
             pending' \in [Uploading -> [op : {"create"}, author : Author, site : Site] \cup {NoUploadRequest}
                              \cup [op : {"delete"}, update : Update, side : Side, seen : WorkUpdateRow]],
             w \in outrun' \/ (Draft(w) /\ n > 0 /\ (s = "AFTER" => updates[w].images["BEFORE"] > 0))
      PROVE  UpdatesInv'
  <2> DEFINE row == [updates[w] EXCEPT !.images[s] = n]
  <2>1. /\ updates[w] \in WorkUpdateRow
        /\ updates[w].images \in [Side -> 0..MaxImages]
    BY <1>7, UpdateRows DEF WorkUpdateRow
  <2>2. /\ row.images \in [Side -> 0..MaxImages]
        /\ \A u \in Side : row.images[u] = IF u = s THEN n ELSE updates[w].images[u]
        /\ row.status = updates[w].status /\ row.author = updates[w].author
        /\ row.site = updates[w].site
    BY <2>1 DEF WorkUpdateRow
  <2>3. row \in WorkUpdateRow
    BY <2>1, <2>2 DEF WorkUpdateRow
  <2>4. updates' = [updates EXCEPT ![w] = row]
    BY <1>7
  <2>5. w \notin outrun' /\ row.images["AFTER"] > 0 => row.images["BEFORE"] > 0
    <3>1. w \notin outrun' => /\ w \notin outrun /\ n > 0
                              /\ s = "AFTER" => updates[w].images["BEFORE"] > 0
                              /\ updates[w].images["AFTER"] > 0 => updates[w].images["BEFORE"] > 0
      BY <1>7 DEF UpdatesInv, UpdatesAreShown
    <3> QED BY <1>2, <2>2, <3>1
  <2>6. w \notin outrun' => row.status = "Draft"
    BY <1>3, <1>7, <2>2
  <2> HIDE DEF row
  <2> QED BY <1>7, <2>2, <2>3, <2>4, <2>5, <2>6, UpdateRowInv
<1>8. ASSUME NEW w \in Update, UploadBeforeImage(w) PROVE UpdatesInv'
  <2> DEFINE n == updates[w].images["BEFORE"] + 1
  <2>1. n \in 0..MaxImages /\ n > 0
    BY <1>2, <1>3, <1>8, UpdateRows, MaxImagesAssumption DEF UploadBeforeImage
  <2>2. updates' = [updates EXCEPT ![w].images["BEFORE"] = n]
    BY <1>8 DEF UploadBeforeImage
  <2> HIDE DEF n
  <2> QED BY <1>1, <1>2, <1>3, <1>7, <1>8, <2>1, <2>2 DEF UploadBeforeImage, UpdatesTypeOK
<1>9. ASSUME NEW w \in Update, UploadAfterImage(w) PROVE UpdatesInv'
  <2> DEFINE n == updates[w].images["AFTER"] + 1
  <2>1. n \in 0..MaxImages /\ n > 0
    BY <1>2, <1>3, <1>9, UpdateRows, MaxImagesAssumption DEF UploadAfterImage
  <2>2. updates' = [updates EXCEPT ![w].images["AFTER"] = n]
    BY <1>9 DEF UploadAfterImage
  <2> HIDE DEF n
  <2> QED BY <1>1, <1>2, <1>3, <1>7, <1>9, <2>1, <2>2 DEF UploadAfterImage, UpdatesTypeOK
<1>10. ASSUME NEW w \in Update, NEW s \in Side, DeleteWorkUpdateImage(w, s) PROVE UpdatesInv'
  <2> DEFINE n == updates[w].images[s] - 1
  <2>1. Draft(w) /\ UpdateExists(w)
    BY <1>3, <1>10 DEF DeleteWorkUpdateImage
  <2>2. n \in 0..MaxImages /\ n > 0
    BY <1>10, <2>1, UpdateRows, MaxImagesAssumption DEF DeleteWorkUpdateImage, Spare
  <2>3. updates' = [updates EXCEPT ![w].images[s] = n]
    BY <1>10 DEF DeleteWorkUpdateImage
  <2>4. w \in outrun \/ (s = "AFTER" => updates[w].images["BEFORE"] > 0)
    <3>1. updates[w].images[s] > 0
      BY <2>1, <2>2, UpdateRows
    <3> QED BY <2>1, <3>1 DEF UpdatesInv, UpdatesAreShown
  <2> HIDE DEF n
  <2> QED BY <1>1, <1>7, <1>10, <2>1, <2>2, <2>3, <2>4 DEF DeleteWorkUpdateImage, UpdatesTypeOK
<1>11. ASSUME NEW w \in Update, SubmitWorkUpdate(w) PROVE UpdatesInv'
  <2> DEFINE row == [updates[w] EXCEPT !.status = "Submitted"]
  <2>1. updates[w] \in WorkUpdateRow /\ UpdateExists(w) /\ Shown(w)
    BY <1>3, <1>11, UpdateRows DEF SubmitWorkUpdate
  <2>2. /\ row \in WorkUpdateRow /\ row.status = "Submitted" /\ row.author = updates[w].author
        /\ row.site = updates[w].site /\ row.images = updates[w].images
    BY <2>1 DEF WorkUpdateRow
  <2>3. updates' = [updates EXCEPT ![w] = row] /\ \A s \in Side : row.images[s] > 0
    BY <1>11, <2>1, <2>2 DEF SubmitWorkUpdate, Shown
  <2> HIDE DEF row
  <2> QED BY <1>1, <1>2, <1>11, <2>1, <2>2, <2>3, UpdateRowInv DEF SubmitWorkUpdate, UpdatesTypeOK
<1>12. ASSUME NEW w \in Update, DeleteWorkUpdate(w) PROVE UpdatesInv'
  <2>1. /\ \A v \in Update : updates'[v] = IF v = w THEN NoUpdate ELSE updates[v]
        /\ UpdatesTypeOK' /\ outrun' = outrun \ {w}
    BY <1>1, <1>12 DEF DeleteWorkUpdate, UpdatesTypeOK
  <2>2. DeletionsSpare'
    BY <1>12 DEF DeleteWorkUpdate, UpdatesInv, DeletionsSpare
  <2>3. \A v \in Update : /\ UpdateExists(v)' = (UpdateExists(v) /\ v # w)
                          /\ Draft(v)' = (Draft(v) /\ v # w)
    BY <2>1 DEF UpdateExists, Draft
  <2>4. ASSUME NEW v \in Update, v \notin outrun', UpdateExists(v)'
        PROVE  /\ (updates'[v].images["AFTER"] > 0 => updates'[v].images["BEFORE"] > 0)
               /\ (updates'[v].status = "Submitted" => Shown(v)')
               /\ Draft(v)' => (DraftsOf(updates[v].author, updates[v].site) \ outrun)' = {v}
    <3>1. UpdateExists(v) /\ updates'[v] = updates[v] /\ v \notin outrun /\ v # w
      BY <2>1, <2>3, <2>4
    <3>2. ASSUME Draft(v) PROVE (DraftsOf(updates[v].author, updates[v].site) \ outrun)' = {v}
      <4>1. DraftsOf(updates[v].author, updates[v].site) \ outrun = {v}
        BY <3>1, <3>2 DEF UpdatesInv, UpdatesAreShown
      <4>2. DraftsOf(updates[v].author, updates[v].site)'
                = DraftsOf(updates[v].author, updates[v].site) \ {w}
        BY <2>1, <2>3, <3>1 DEF DraftsOf
      <4> QED BY <2>1, <3>1, <4>1, <4>2
    <3> QED BY <2>3, <3>1, <3>2 DEF UpdatesInv, UpdatesAreShown, Shown
  <2>5. UpdatesAreShown'
    BY <2>4 DEF UpdatesAreShown
  <2> QED BY <2>1, <2>2, <2>5 DEF UpdatesInv
<1>13. ASSUME NEW r \in Uploading, NEW a \in Author, NEW t \in Site, BeginDraft(r, a, t)
       PROVE  UpdatesInv'
  <2>1. UpdatesTypeOK'
    BY <1>1, <1>13 DEF BeginDraft, UpdatesTypeOK
  <2>2. DeletionsSpare'
    BY <1>1, <1>13 DEF BeginDraft, UpdatesTypeOK, UpdatesInv, DeletionsSpare
  <2> QED BY <1>1, <1>13, <2>1, <2>2, OnlyRequestsInv DEF BeginDraft, UpdatesTypeOK
<1>14. ASSUME NEW r \in Uploading, NEW w \in Update, NEW s \in Side, BeginDeleteImage(r, w, s)
       PROVE  UpdatesInv'
  <2> DEFINE q == [op |-> "delete", update |-> w, side |-> s, seen |-> updates[w]]
  <2>1. updates[w] \in WorkUpdateRow /\ updates[w].status = "Draft" /\ updates[w].images[s] > 1
    BY <1>3, <1>14, UpdateRows DEF BeginDeleteImage, Spare
  <2>2. \A x \in Uploading : pending'[x] = IF x = r THEN q ELSE pending[x]
    BY <1>1, <1>14 DEF BeginDeleteImage, UpdatesTypeOK
  <2>3. UpdatesTypeOK'
    BY <1>1, <1>14, <2>1 DEF BeginDeleteImage, UpdatesTypeOK
  <2>4. DeletionsSpare'
    BY <2>1, <2>2 DEF UpdatesInv, DeletionsSpare
  <2> QED BY <1>1, <1>14, <2>3, <2>4, OnlyRequestsInv DEF BeginDeleteImage, UpdatesTypeOK
<1>15. ASSUME NEW r \in Uploading, NEW w \in Update, CommitDraft(r, w) PROVE UpdatesInv'
  <2> DEFINE a == pending[r].author
             t == pending[r].site
  <2>1. a \in Author /\ t \in Site
    BY <1>1, <1>15 DEF CommitDraft, UpdatesTypeOK, NoUploadRequest
  <2>2. /\ updates' = [updates EXCEPT ![w] = NewRow(a, t)]
        /\ DraftsOf(a, t) = {} \/ w \in outrun'
        /\ outrun \subseteq outrun' /\ outrun' \subseteq Update
    BY <1>1, <1>15 DEF CommitDraft, Created, NewRow, UpdatesTypeOK
  <2>3. /\ \A x \in Uploading : pending'[x] \in {pending[x], NoUploadRequest}
        /\ pending' \in [Uploading -> [op : {"create"}, author : Author, site : Site] \cup {NoUploadRequest}
                            \cup [op : {"delete"}, update : Update, side : Side, seen : WorkUpdateRow]]
    BY <1>1, <1>15 DEF CommitDraft, UpdatesTypeOK
  <2>4. /\ NewRow(a, t) \in WorkUpdateRow /\ NewRow(a, t).status = "Draft"
        /\ NewRow(a, t).author = a /\ NewRow(a, t).site = t /\ NewRow(a, t).images["AFTER"] = 0
    BY <2>1, NewRowTyped DEF NewRow
  <2> DEFINE row == NewRow(a, t)
  <2> HIDE DEF a, t, row
  <2>5. row \in WorkUpdateRow /\ row.status = "Draft" /\ updates' = [updates EXCEPT ![w] = row]
    BY <2>2, <2>4 DEF row
  <2>6. ~(row.images["AFTER"] > 0) /\ (DraftsOf(row.author, row.site) = {} \/ w \in outrun')
    BY <2>2, <2>4 DEF row
  <2>7. UNCHANGED open
    BY <1>15 DEF CommitDraft
  <2> QED BY <2>2, <2>3, <2>5, <2>6, <2>7, NewDraftInv
<1>16. ASSUME NEW r \in Uploading, CommitDeleteImage(r) PROVE UpdatesInv'
  <2> DEFINE w == pending[r].update
             s == pending[r].side
             n == updates[w].images[s] - 1
  <2>1. w \in Update /\ s \in Side /\ pending[r].seen \in WorkUpdateRow
    BY <1>1, <1>16 DEF CommitDeleteImage, UpdatesTypeOK, NoUploadRequest
  <2>2. UpdateExists(w) /\ updates[w].images[s] > 0
    BY <1>16 DEF CommitDeleteImage
  <2>3. n \in 0..MaxImages
    BY <2>1, <2>2, UpdateRows, MaxImagesAssumption
  <2>4. /\ updates' = [updates EXCEPT ![w].images[s] = n]
        /\ outrun \subseteq outrun' /\ outrun' \subseteq Update
        /\ updates[w] = pending[r].seen \/ w \in outrun'
    BY <1>1, <1>16, <2>1 DEF CommitDeleteImage, UpdatesTypeOK
  <2>5. /\ \A x \in Uploading : pending'[x] \in {pending[x], NoUploadRequest}
        /\ pending' \in [Uploading -> [op : {"create"}, author : Author, site : Site] \cup {NoUploadRequest}
                            \cup [op : {"delete"}, update : Update, side : Side, seen : WorkUpdateRow]]
    BY <1>1, <1>16 DEF CommitDeleteImage, UpdatesTypeOK
  <2>6. ASSUME w \notin outrun'
        PROVE  Draft(w) /\ n > 0 /\ (s = "AFTER" => updates[w].images["BEFORE"] > 0)
    <3>1. updates[w].status = "Draft" /\ updates[w].images[s] > 1
      BY <1>16, <2>4, <2>6 DEF UpdatesInv, DeletionsSpare, CommitDeleteImage
    <3>2. n > 0
      BY <2>1, <2>2, <3>1, UpdateRows
    <3>3. w \notin outrun
      BY <2>4, <2>6
    <3>4. s = "AFTER" => updates[w].images["BEFORE"] > 0
      BY <2>1, <2>2, <3>3 DEF UpdatesInv, UpdatesAreShown
    <3> QED BY <2>2, <3>1, <3>2, <3>4 DEF Draft
  <2>7. UNCHANGED open
    BY <1>16 DEF CommitDeleteImage
  <2> HIDE DEF w, s, n
  <2> QED BY <1>7, <2>1, <2>2, <2>3, <2>4, <2>5, <2>6, <2>7
<1>17. ASSUME NEW r \in Uploading, Fail(r) PROVE UpdatesInv'
  <2>1. UpdatesTypeOK'
    BY <1>1, <1>17 DEF Fail, UpdatesTypeOK
  <2>2. DeletionsSpare'
    BY <1>1, <1>17 DEF Fail, UpdatesTypeOK, UpdatesInv, DeletionsSpare, NoUploadRequest
  <2> QED BY <1>1, <1>17, <2>1, <2>2, OnlyRequestsInv DEF Fail, UpdatesTypeOK
<1>18. CASE UNCHANGED updateVars
  <2>1. UpdatesTypeOK' /\ DeletionsSpare'
    BY <1>1, <1>18 DEF updateVars, UpdatesTypeOK, UpdatesInv, DeletionsSpare
  <2> QED BY <1>1, <1>18, <2>1, OnlyRequestsInv DEF updateVars, UpdatesTypeOK
<1> QED BY <1>4, <1>5, <1>6, <1>8, <1>9, <1>10, <1>11, <1>12, <1>13, <1>14, <1>15, <1>16, <1>17,
           <1>18 DEF UpdatesNext

\* Requests aside that another one overtook, an update shows the work from before before it
\* shows it from after, a submitted one shows both, and a draft is the only one of its author.
THEOREM UpdatesAreShownAlways == UpdatesSpec => []UpdatesAreShown
<1>1. UpdatesInv => UpdatesAreShown
  BY DEF UpdatesInv
<1> QED BY <1>1, UpdatesInitInv, UpdatesNextInv, PTL DEF UpdatesSpec

-----------------------------------------------------------------------------
(* WorkProgress. *)

USE ActivityAssumption, NoWorkOrderAssumption, PlannedAssumption, LastDayAssumption

\* What a row of an activity adds to work order w.
DoneFor(row, w) == IF row # Absent /\ row.order = w THEN row.completed ELSE 0
CompletedOf(rows, w) == [a \in Activity |-> DoneFor(rows[a], w)]

\* The stored status is the one of some day that is past, or of today.
StatusSound(row, day) ==
    /\ row.status = "COMPLETED" <=> Percentage(row.completed) >= FullPercentage
    /\ row.status = "DELAY" => row.end < day
\* An activity's row, what its days say of it, and its work order.
ActivitySound(row, days, orders, day) ==
    IF row = Absent THEN \A d \in Day : days[d] = 0
    ELSE /\ row.completed = TotalOf(days) /\ row.completed + row.remaining = Planned
         /\ StatusSound(row, day)
         /\ row.order \in WorkOrder => orders[row.order] # Absent
ActivitiesSound ==
    \A a \in Activity : ActivitySound(activities[a], entries[a], workOrders, today)

WorkInv == WorkTypeOK /\ ActivitiesSound /\ OrderSumsActivities

\* An activity row, read.
LEMMA ActivityRow ==
    ASSUME WorkTypeOK, NEW a \in Activity, ActivityExists(a)
    PROVE  /\ activities[a] \in WorkActivityRow /\ activities[a].completed \in Nat
           /\ activities[a].remaining \in Nat /\ activities[a].status \in ActivityStatus
           /\ activities[a].order \in WorkOrder \cup {NoWorkOrder}
           /\ activities[a].start \in Day /\ activities[a].end \in Day
BY DEF WorkTypeOK, ActivityExists, WorkActivityRow

LEMMA DaysFinite ==
    ASSUME WorkTypeOK, NEW a \in Activity
    PROVE  Finitely(entries[a]) /\ DOMAIN entries[a] = Day /\ \A d \in Day : entries[a][d] \in Nat
<1>1. entries[a] \in [Day -> Amount \cup {0}] /\ Amount \cup {0} \subseteq Nat
  BY AmountAssumption DEF WorkTypeOK
<1>2. DOMAIN entries[a] = Day /\ \A d \in Day : entries[a][d] \in Nat
  BY <1>1
<1>3. 1 \in Int /\ LastDay \in Int
  OBVIOUS
<1>4. IsFiniteSet(1..LastDay)
  BY ONLY <1>3, FS_Interval
<1>5. IsFiniteSet(Day)
  BY <1>4 DEF Day
<1> QED BY <1>2, <1>5 DEF Finitely

\* The sum over the rows of an order, and how it follows one row.
LEMMA CompletedInIs ==
    ASSUME NEW rows, NEW w
    PROVE  CompletedIn(rows, w) = TotalOf(CompletedOf(rows, w))
BY DEF CompletedIn, CompletedOf, DoneFor

LEMMA CompletedFinite ==
    ASSUME NEW rows \in [Activity -> WorkActivityRow \cup {Absent}], NEW w \in WorkOrder
    PROVE  /\ Finitely(CompletedOf(rows, w)) /\ DOMAIN CompletedOf(rows, w) = Activity
           /\ \A a \in Activity : CompletedOf(rows, w)[a] \in Nat
           /\ CompletedIn(rows, w) \in Nat
<1>1. \A a \in Activity : CompletedOf(rows, w)[a] \in Nat
  BY DEF CompletedOf, DoneFor, WorkActivityRow, Absent
<1>2. Finitely(CompletedOf(rows, w)) /\ DOMAIN CompletedOf(rows, w) = Activity
  BY <1>1 DEF CompletedOf, Finitely
<1> QED BY <1>1, <1>2, TotalNat, CompletedInIs

LEMMA CompletedMoved ==
    ASSUME NEW rows \in [Activity -> WorkActivityRow \cup {Absent}],
           NEW new \in [Activity -> WorkActivityRow \cup {Absent}],
           NEW w \in WorkOrder, NEW a \in Activity,
           \A b \in Activity \ {a} : DoneFor(new[b], w) = DoneFor(rows[b], w)
    PROVE  CompletedIn(new, w) = CompletedIn(rows, w) - DoneFor(rows[a], w) + DoneFor(new[a], w)
<1> DEFINE f == CompletedOf(rows, w)
           g == CompletedOf(new, w)
<1>1. /\ Finitely(f) /\ DOMAIN f = Activity /\ DOMAIN g = Activity /\ g[a] \in Int
      /\ f[a] = DoneFor(rows[a], w) /\ g[a] = DoneFor(new[a], w)
      /\ \A b \in Activity : b # a => g[b] = f[b]
  <2>1. Finitely(f) /\ DOMAIN f = Activity
    BY CompletedFinite
  <2>2. DOMAIN g = Activity /\ g[a] \in Nat
    BY CompletedFinite
  <2>3. \A b \in Activity : f[b] = DoneFor(rows[b], w) /\ g[b] = DoneFor(new[b], w)
    BY DEF CompletedOf
  <2> HIDE DEF f, g
  <2> QED BY <2>1, <2>2, <2>3
<1> HIDE DEF f, g
<1>2. TotalOf(g) = TotalOf(f) - f[a] + g[a]
  BY <1>1, TotalChanged
<1> QED BY <1>1, <1>2, CompletedInIs DEF f, g

LEMMA CompletedKept ==
    ASSUME NEW rows, NEW new, NEW w,
           \A b \in Activity : DoneFor(new[b], w) = DoneFor(rows[b], w)
    PROVE  CompletedIn(new, w) = CompletedIn(rows, w)
<1>1. CompletedOf(new, w) = CompletedOf(rows, w)
  BY DEF CompletedOf
<1> QED BY <1>1, CompletedInIs

\* A status as it is computed today is sound, whatever the percentage.
LEMMA PercentageInt == ASSUME NEW n \in Nat PROVE Percentage(n) \in Int
<1> DEFINE m == 2 * n * FullPercentage + Planned
           k == 2 * Planned
<1>1. m \in Int /\ k \in Int /\ k > 0
  BY DEF FullPercentage
<1> HIDE DEF m, k
<1>2. m \div k \in Int
  BY <1>1
<1> QED BY <1>2 DEF Percentage, m, k

LEMMA StatusOfSound ==
    ASSUME NEW row \in WorkActivityRow, row.status = StatusOf(row.completed, row.end)
    PROVE  StatusSound(row, today)
BY DEF StatusSound, StatusOf

LEMMA StatusOfTyped == ASSUME NEW n, NEW end PROVE StatusOf(n, end) \in ActivityStatus
BY DEF StatusOf, ActivityStatus

LEMMA WorkInitInv == WorkInit => WorkInv
<1> SUFFICES ASSUME WorkInit PROVE WorkInv
  OBVIOUS
<1>1. WorkTypeOK
  BY DEF WorkInit, WorkTypeOK
<1>2. ActivitiesSound /\ OrderSumsActivities
  BY DEF WorkInit, ActivitiesSound, ActivitySound, OrderSumsActivities, WorkOrderExists
<1> QED BY <1>1, <1>2 DEF WorkInv

\* Steps that move no activity and no day.
LEMMA OrdersInv ==
    ASSUME WorkInv, UNCHANGED <<activities, entries, today, entering>>,
           workOrders' \in [WorkOrder -> WorkOrderRow \cup {Absent}], drifted' \subseteq WorkOrder,
           \A w \in WorkOrder : WorkOrderExists(w) => workOrders'[w] # Absent,
           \A w \in WorkOrder : workOrders'[w] # Absent /\ w \notin drifted' =>
               workOrders'[w].completed = CompletedIn(activities, w)
    PROVE  WorkInv'
<1>1. WorkTypeOK'
  BY DEF WorkInv, WorkTypeOK
<1>2. ActivitiesSound'
  <2> SUFFICES ASSUME NEW a \in Activity
               PROVE  ActivitySound(activities[a], entries[a], workOrders', today)
    BY DEF ActivitiesSound
  <2> QED BY DEF WorkInv, ActivitiesSound, ActivitySound, WorkOrderExists
<1>3. OrderSumsActivities'
  BY DEF OrderSumsActivities, WorkOrderExists
<1> QED BY <1>1, <1>2, <1>3 DEF WorkInv

\* No activity is of an order that does not exist.
LEMMA NothingDone ==
    ASSUME WorkInv, NEW w \in WorkOrder, ~WorkOrderExists(w)
    PROVE  CompletedIn(activities, w) = 0
<1>1. \A a \in Activity : DoneFor(activities[a], w) = 0
  BY DEF WorkInv, ActivitiesSound, ActivitySound, WorkOrderExists, DoneFor
<1>2. TotalOf(CompletedOf(activities, w)) = 0
  BY <1>1, TotalZero DEF CompletedOf
<1> QED BY <1>2, CompletedInIs

LEMMA CreateWorkOrderInv ==
    ASSUME WorkInv, NEW w \in WorkOrder, CreateWorkOrder(w) PROVE WorkInv'
<1> DEFINE row == [status |-> "Assigned", total |-> Planned, completed |-> 0]
<1>1. row \in WorkOrderRow /\ row # Absent /\ row.completed = 0
  <2>1. row \in WorkOrderRow /\ row.status = "Assigned" /\ Absent.status = "absent"
    BY DEF WorkOrderRow, Absent
  <2> QED BY <2>1
<1>2. workOrders' = [workOrders EXCEPT ![w] = row] /\ drifted' = drifted
      /\ UNCHANGED <<activities, entries, today, entering>>
  BY DEF CreateWorkOrder
<1> HIDE DEF row
<1>3. CompletedIn(activities, w) = 0
  BY NothingDone DEF CreateWorkOrder
<1> QED BY <1>1, <1>2, <1>3, OrdersInv
     DEF WorkInv, WorkTypeOK, OrderSumsActivities, WorkOrderExists

LEMMA UpdateWorkOrderInv ==
    ASSUME WorkInv, NEW w \in WorkOrder, NEW n \in Amount, UpdateWorkOrder(w, n) PROVE WorkInv'
<1> DEFINE row == Progressed(workOrders[w], n)
<1>1. workOrders[w] \in WorkOrderRow /\ n \in Nat
  BY AmountAssumption DEF WorkInv, WorkTypeOK, UpdateWorkOrder, WorkOrderExists
<1>2. row \in WorkOrderRow /\ row.completed = n
  BY <1>1 DEF WorkOrderRow, Progressed
<1>3. row # Absent
  <2>1. row.status \in {"Assigned", "In Progress", "Completed"} /\ Absent.status = "absent"
    BY <1>2 DEF WorkOrderRow, Absent
  <2> QED BY <2>1
<1>4. workOrders' = [workOrders EXCEPT ![w] = row] /\ UNCHANGED <<activities, entries, today, entering>>
      /\ drifted' = IF n # workOrders[w].completed THEN drifted \cup {w} ELSE drifted
  BY DEF UpdateWorkOrder
<1> HIDE DEF row
<1>5. workOrders' \in [WorkOrder -> WorkOrderRow \cup {Absent}] /\ drifted' \subseteq WorkOrder
  BY <1>2, <1>4 DEF WorkInv, WorkTypeOK
<1>6. \A x \in WorkOrder : workOrders'[x] = IF x = w THEN row ELSE workOrders[x]
  BY <1>4 DEF WorkInv, WorkTypeOK
<1>7. WorkOrderExists(w)
  BY DEF UpdateWorkOrder
<1> QED BY <1>2, <1>3, <1>4, <1>5, <1>6, <1>7, OrdersInv DEF WorkInv, OrderSumsActivities, WorkOrderExists

\* Steps that write one activity and leave the work orders alone.
LEMMA OneActivityInv ==
    ASSUME WorkInv, NEW a \in Activity, NEW row \in WorkActivityRow \cup {Absent},
           activities' = [activities EXCEPT ![a] = row],
           UNCHANGED <<entries, workOrders, today, entering>>,
           drifted' \subseteq WorkOrder, drifted \subseteq drifted',
           ActivitySound(row, entries[a], workOrders, today),
           \A w \in WorkOrder : WorkOrderExists(w) /\ w \notin drifted' =>
               DoneFor(row, w) = DoneFor(activities[a], w)
    PROVE  WorkInv'
<1>1. WorkTypeOK'
  BY DEF WorkInv, WorkTypeOK
<1>2. \A b \in Activity : activities'[b] = IF b = a THEN row ELSE activities[b]
  BY DEF WorkInv, WorkTypeOK
<1>3. ActivitiesSound'
  <2> SUFFICES ASSUME NEW b \in Activity
               PROVE  ActivitySound(activities'[b], entries[b], workOrders, today)
    BY DEF ActivitiesSound
  <2> QED BY <1>2 DEF WorkInv, ActivitiesSound
<1>4. OrderSumsActivities'
  <2> SUFFICES ASSUME NEW w \in WorkOrder, WorkOrderExists(w), w \notin drifted'
               PROVE  workOrders[w].completed = CompletedIn(activities', w)
    BY DEF OrderSumsActivities, WorkOrderExists
  <2>1. \A b \in Activity : DoneFor(activities'[b], w) = DoneFor(activities[b], w)
    BY <1>2
  <2>2. CompletedIn(activities', w) = CompletedIn(activities, w)
    BY <2>1, CompletedKept
  <2> QED BY <2>2 DEF WorkInv, OrderSumsActivities
<1> QED BY <1>1, <1>3, <1>4 DEF WorkInv

LEMMA CreateActivityInv ==
    ASSUME WorkInv, NEW a \in Activity, NEW w \in WorkOrder \cup {NoWorkOrder},
           NEW s \in Day, NEW e \in Day, CreateActivity(a, w, s, e)
    PROVE  WorkInv'
<1> DEFINE row == [status |-> StatusOf(0, e), order |-> w, start |-> s, end |-> e,
                   completed |-> 0, remaining |-> Planned]
<1>1. row \in WorkActivityRow /\ row.completed = 0 /\ row.remaining = Planned
      /\ row.order = w /\ row.status = StatusOf(row.completed, row.end)
  BY StatusOfTyped DEF WorkActivityRow
<1>2. activities' = [activities EXCEPT ![a] = row] /\ drifted' = drifted
      /\ UNCHANGED <<entries, workOrders, today, entering>>
      /\ ~ActivityExists(a) /\ (w \in WorkOrder => WorkOrderExists(w))
  BY DEF CreateActivity, OrderChoice
<1> HIDE DEF row
<1>3. \A d \in Day : entries[a][d] = 0
  BY <1>2 DEF WorkInv, ActivitiesSound, ActivitySound, ActivityExists
<1>4. TotalOf(entries[a]) = 0
  BY <1>3, DaysFinite, TotalZero DEF WorkInv
<1>5. StatusSound(row, today)
  BY <1>1, StatusOfSound
<1>6. ActivitySound(row, entries[a], workOrders, today)
  BY <1>1, <1>2, <1>3, <1>4, <1>5 DEF ActivitySound, WorkOrderExists
<1>7. \A x \in WorkOrder : DoneFor(row, x) = DoneFor(activities[a], x)
  BY <1>1, <1>2 DEF DoneFor, ActivityExists
<1> QED BY ZenonT(60), <1>1, <1>2, <1>6, <1>7, OneActivityInv DEF WorkInv, WorkTypeOK

LEMMA UpdateActivityInv ==
    ASSUME WorkInv, NEW a \in Activity, NEW w \in WorkOrder \cup {NoWorkOrder},
           NEW s \in Day, NEW e \in Day, UpdateActivity(a, w, s, e)
    PROVE  WorkInv'
<1> DEFINE old == activities[a]
           order == IF w = NoWorkOrder THEN old.order ELSE w
           row == Rescheduled(old, order, s, e)
<1>1. old \in WorkActivityRow /\ old # Absent /\ ActivityExists(a)
      /\ order \in WorkOrder \cup {NoWorkOrder} /\ (w \in WorkOrder => WorkOrderExists(w))
      /\ old.completed \in Nat
  BY ActivityRow DEF WorkInv, UpdateActivity, ActivityExists
<1>2. /\ activities' = [activities EXCEPT ![a] = row]
      /\ drifted' = IF order # old.order /\ old.completed > 0
                    THEN drifted \cup ({order, old.order} \cap WorkOrder) ELSE drifted
      /\ UNCHANGED <<entries, workOrders, today, entering>>
  BY DEF UpdateActivity
<1>3. order \in WorkOrder => WorkOrderExists(order)
  BY <1>1 DEF WorkInv, ActivitiesSound, ActivitySound, WorkOrderExists
<1>4. ActivitySound(old, entries[a], workOrders, today)
  BY DEF WorkInv, ActivitiesSound
<1> HIDE DEF old, order
<1>5. row \in WorkActivityRow /\ row.completed = old.completed /\ row.remaining = old.remaining
      /\ row.order = order /\ row.status = StatusOf(row.completed, row.end)
  BY <1>1, StatusOfTyped DEF WorkActivityRow, Rescheduled
<1> HIDE DEF row
<1>6. row # Absent
  <2>1. row.status \in ActivityStatus /\ Absent.status = "absent"
    BY <1>5 DEF WorkActivityRow, Absent
  <2> QED BY <2>1 DEF ActivityStatus
<1>7. ActivitySound(row, entries[a], workOrders, today)
  <2>1. StatusSound(row, today)
    BY <1>5, StatusOfSound
  <2> QED BY <1>1, <1>3, <1>4, <1>5, <1>6, <2>1 DEF ActivitySound, WorkOrderExists
<1>8. \A x \in WorkOrder : x \notin drifted' => DoneFor(row, x) = DoneFor(old, x)
  <2> SUFFICES ASSUME NEW x \in WorkOrder, x \notin drifted' PROVE DoneFor(row, x) = DoneFor(old, x)
    OBVIOUS
  <2>1. CASE order = old.order \/ old.completed = 0
    BY <1>1, <1>5, <1>6, <2>1 DEF DoneFor
  <2>2. CASE order # old.order /\ old.completed > 0
    BY <1>1, <1>2, <1>5, <2>2 DEF DoneFor
  <2> QED BY <1>1, <2>1, <2>2
<1>9. drifted' \subseteq WorkOrder /\ drifted \subseteq drifted'
  BY <1>2 DEF WorkInv, WorkTypeOK
<1>10. \A x \in WorkOrder : x \notin drifted' => DoneFor(row, x) = DoneFor(activities[a], x)
  BY <1>8 DEF old
<1>11. row \in WorkActivityRow \cup {Absent} /\ UNCHANGED <<entries, workOrders, today, entering>>
       /\ activities' = [activities EXCEPT ![a] = row]
  BY <1>2, <1>5
<1> QED BY <1>7, <1>9, <1>10, <1>11, OneActivityInv

LEMMA DeleteActivityInv ==
    ASSUME WorkInv, NEW a \in Activity, DeleteActivity(a) PROVE WorkInv'
<1>1. \A d \in Day : entries[a][d] = 0
  BY DEF DeleteActivity
<1>2. TotalOf(entries[a]) = 0
  BY <1>1, DaysFinite, TotalZero DEF WorkInv
<1>3. \A x \in WorkOrder : DoneFor(Absent, x) = DoneFor(activities[a], x)
  BY <1>2 DEF WorkInv, ActivitiesSound, ActivitySound, DoneFor
<1>4. ActivitySound(Absent, entries[a], workOrders, today)
  BY <1>1 DEF ActivitySound
<1>5. /\ activities' = [activities EXCEPT ![a] = Absent] /\ drifted' = drifted
      /\ UNCHANGED <<entries, workOrders, today, entering>> /\ drifted \subseteq WorkOrder
  BY DEF DeleteActivity, WorkInv, WorkTypeOK
<1> QED BY <1>3, <1>4, <1>5, OneActivityInv

LEMMA DeleteWorkOrderInv ==
    ASSUME WorkInv, NEW w \in WorkOrder, DeleteWorkOrder(w) PROVE WorkInv'
<1>0. WorkTypeOK
  BY DEF WorkInv
<1> DEFINE new(row) == IF row # Absent /\ row.order = w
                       THEN [row EXCEPT !.order = NoWorkOrder] ELSE row
<1>1. /\ activities' = [a \in Activity |-> new(activities[a])]
      /\ workOrders' = [workOrders EXCEPT ![w] = Absent]
      /\ drifted' = drifted \ {w}
      /\ UNCHANGED <<entries, today, entering>>
  BY DEF DeleteWorkOrder, ActivityExists
<1>2. ASSUME NEW row \in WorkActivityRow
      PROVE  /\ new(row) \in WorkActivityRow /\ new(row) # Absent
             /\ new(row).completed = row.completed /\ new(row).remaining = row.remaining
             /\ new(row).status = row.status /\ new(row).end = row.end
             /\ new(row).order = IF row.order = w THEN NoWorkOrder ELSE row.order
             /\ row # Absent
  <2>1. row # Absent
    <3>1. row.status \in ActivityStatus /\ Absent.status = "absent"
      BY DEF WorkActivityRow, Absent
    <3> QED BY <3>1 DEF ActivityStatus
  <2>2. /\ new(row) \in WorkActivityRow
        /\ new(row).completed = row.completed /\ new(row).remaining = row.remaining
        /\ new(row).status = row.status /\ new(row).end = row.end
        /\ new(row).order = IF row.order = w THEN NoWorkOrder ELSE row.order
    BY <2>1 DEF WorkActivityRow
  <2>3. new(row) # Absent
    <3>1. new(row).status \in ActivityStatus /\ Absent.status = "absent"
      BY <2>2 DEF WorkActivityRow, Absent
    <3> QED BY <3>1 DEF ActivityStatus
  <2> QED BY <2>1, <2>2, <2>3
<1>3. new(Absent) = Absent
  OBVIOUS
<1> HIDE DEF new
<1>4. WorkTypeOK'
  BY <1>0, <1>1, <1>2, <1>3 DEF WorkTypeOK
<1>5. \A x \in WorkOrder : workOrders'[x] = IF x = w THEN Absent ELSE workOrders[x]
  BY <1>0, <1>1 DEF WorkTypeOK
<1>6. ActivitiesSound'
  <2> SUFFICES ASSUME NEW a \in Activity
               PROVE  ActivitySound(new(activities[a]), entries[a], workOrders', today)
    BY <1>1 DEF ActivitiesSound
  <2>1. ActivitySound(activities[a], entries[a], workOrders, today)
    BY DEF WorkInv, ActivitiesSound
  <2>2. CASE activities[a] = Absent
    BY <1>3, <2>1, <2>2 DEF ActivitySound
  <2>3. CASE activities[a] \in WorkActivityRow
    <3> DEFINE row == activities[a]
    <3>1. StatusSound(new(row), today)
      BY <1>2, <2>1, <2>3 DEF ActivitySound, StatusSound
    <3>2. new(row).order \in WorkOrder => workOrders'[new(row).order] # Absent
      BY <1>2, <1>5, <2>1, <2>3 DEF ActivitySound
    <3>3. new(row).completed = TotalOf(entries[a]) /\ new(row).completed + new(row).remaining = Planned
      BY <1>2, <2>1, <2>3 DEF ActivitySound
    <3>4. new(row) # Absent
      BY <1>2, <2>3
    <3> QED BY <3>1, <3>2, <3>3, <3>4 DEF ActivitySound
  <2> QED BY <1>0, <2>2, <2>3 DEF WorkTypeOK
<1>7. OrderSumsActivities'
  <2> SUFFICES ASSUME NEW x \in WorkOrder, x # w, WorkOrderExists(x), x \notin drifted
               PROVE  workOrders[x].completed = CompletedIn(activities', x)
    BY <1>1, <1>5 DEF OrderSumsActivities, WorkOrderExists
  <2>1. ASSUME NEW a \in Activity
        PROVE  DoneFor(activities'[a], x) = DoneFor(activities[a], x)
    <3>1. activities'[a] = new(activities[a])
      BY <1>1
    <3>2. CASE activities[a] = Absent
      BY <1>3, <3>1, <3>2
    <3>3. CASE activities[a] \in WorkActivityRow
      BY <1>2, <3>1, <3>3 DEF DoneFor
    <3> QED BY <1>0, <3>2, <3>3 DEF WorkTypeOK
  <2>2. CompletedIn(activities', x) = CompletedIn(activities, x)
    BY <2>1, CompletedKept
  <2> QED BY <2>2 DEF WorkInv, OrderSumsActivities
<1> QED BY <1>4, <1>6, <1>7 DEF WorkInv

-----------------------------------------------------------------------------
(* Entries. *)

\* The sums a request reads over the other activities.
LEMMA SnapshotTyped ==
    ASSUME WorkTypeOK, NEW a \in Activity
    PROVE  /\ Snapshot(a) \in EntryRequest /\ Snapshot(a).activity = a
           /\ \A w \in WorkOrder :
                /\ Snapshot(a).others[w] = CompletedIn([activities EXCEPT ![a] = Absent], w)
                /\ Snapshot(a).orders[w] = IF WorkOrderExists(w) THEN workOrders[w].completed ELSE -1
<1> DEFINE others == [w \in WorkOrder |-> CompletedIn([activities EXCEPT ![a] = Absent], w)]
           orders == [w \in WorkOrder |-> IF WorkOrderExists(w) THEN workOrders[w].completed ELSE -1]
<1>1. [activities EXCEPT ![a] = Absent] \in [Activity -> WorkActivityRow \cup {Absent}]
  BY DEF WorkTypeOK
<1>2. others \in [WorkOrder -> Nat]
  BY <1>1, CompletedFinite
<1>3. orders \in [WorkOrder -> Nat \cup {-1}]
  BY DEF WorkTypeOK, WorkOrderRow, WorkOrderExists
<1>4. Snapshot(a) = [activity |-> a, others |-> others, orders |-> orders]
  BY DEF Snapshot
<1>5. /\ \A w \in WorkOrder : others[w] = CompletedIn([activities EXCEPT ![a] = Absent], w)
      /\ \A w \in WorkOrder : orders[w] = IF WorkOrderExists(w) THEN workOrders[w].completed ELSE -1
  OBVIOUS
<1> HIDE DEF others, orders
<1>6. Snapshot(a) \in EntryRequest
  BY <1>2, <1>3, <1>4 DEF EntryRequest
<1>7. Snapshot(a).activity = a /\ Snapshot(a).others = others /\ Snapshot(a).orders = orders
  BY <1>4
<1> QED BY <1>5, <1>6, <1>7

LEMMA EnterInv ==
    ASSUME WorkInv, NEW q \in EntryRequest, NEW d \in Day, NEW n \in Amount, Enter(q, d, n),
           entering' \in [Entering -> EntryRequest \cup {NotEntering}]
    PROVE  WorkInv'
<1> PICK a \in Activity : a = q.activity
  BY DEF EntryRequest
<1> DEFINE old == activities[a]
           new == Advanced(old, n)
           o == new.order
<1>0. WorkTypeOK /\ n \in Nat /\ n > 0 /\ drifted \subseteq WorkOrder
  BY AmountAssumption DEF WorkInv, WorkTypeOK
<1>1. /\ ActivityExists(a) /\ MayEnter(old, d, n) /\ entries[a][d] = 0
      /\ activities' = [activities EXCEPT ![a] = new]
      /\ entries' = [entries EXCEPT ![a][d] = n]
      /\ workOrders' = [w \in WorkOrder |->
             IF w # o THEN workOrders[w]
             ELSE [workOrders[w] EXCEPT !.completed = Summed(q, w, new.completed)]]
      /\ drifted' = (drifted \ {o}) \cup IF q = Snapshot(a) THEN {} ELSE {o} \cap WorkOrder
      /\ today' = today
  BY DEF Enter, NoEntryYet
<1>2. /\ old \in WorkActivityRow /\ old.completed \in Nat /\ old.remaining \in Nat /\ old # Absent
      /\ ActivitySound(old, entries[a], workOrders, today)
  BY <1>0, <1>1, ActivityRow DEF WorkInv, ActivitiesSound, ActivityExists
<1>3. /\ old.completed = TotalOf(entries[a]) /\ old.completed + old.remaining = Planned
      /\ old.order \in WorkOrder => WorkOrderExists(old.order)
      /\ n <= Planned - old.completed
  BY <1>1, <1>2 DEF ActivitySound, WorkOrderExists, MayEnter
<1> HIDE DEF old
<1>4. /\ new \in WorkActivityRow /\ new.completed = old.completed + n
      /\ new.remaining = Planned - new.completed /\ new.order = old.order
      /\ new.status = StatusOf(new.completed, new.end)
  <2>1. old.completed + n \in Nat /\ Planned - (old.completed + n) \in Nat
    BY <1>0, <1>2, <1>3
  <2> QED BY <1>2, <2>1, StatusOfTyped DEF WorkActivityRow, Advanced
<1> HIDE DEF new
<1>5. new # Absent
  <2>1. new.status \in ActivityStatus /\ Absent.status = "absent"
    BY <1>4 DEF WorkActivityRow, Absent
  <2> QED BY <2>1 DEF ActivityStatus
<1>6. \A b \in Activity : activities'[b] = IF b = a THEN new ELSE activities[b]
  BY <1>0, <1>1 DEF WorkTypeOK
<1>7. \A b \in Activity : entries'[b] = IF b = a THEN [entries[a] EXCEPT ![d] = n] ELSE entries[b]
  BY <1>0, <1>1 DEF WorkTypeOK
<1>8. TotalOf(entries'[a]) = TotalOf(entries[a]) + n /\ TotalOf(entries[a]) \in Nat
  <2>1. Finitely(entries[a]) /\ DOMAIN entries[a] = Day
    BY <1>0, DaysFinite
  <2> DEFINE g == [entries[a] EXCEPT ![d] = n]
  <2>2. DOMAIN g = Day /\ g[d] = n /\ g[d] \in Int /\ \A x \in Day : x # d => g[x] = entries[a][x]
    BY <1>0, <2>1
  <2> HIDE DEF g
  <2>3. TotalOf(g) = TotalOf(entries[a]) - entries[a][d] + g[d]
    BY <2>1, <2>2, TotalChanged
  <2>4. TotalOf(entries[a]) \in Nat
    BY <1>2, <1>3
  <2>5. entries'[a] = g
    BY <1>7 DEF g
  <2> QED BY <1>1, <2>2, <2>3, <2>4, <2>5, <1>0
<1>9. ASSUME NEW w \in WorkOrder, w = o
      PROVE  /\ workOrders[w] \in WorkOrderRow /\ WorkOrderExists(w)
             /\ workOrders'[w] = [workOrders[w] EXCEPT !.completed = Summed(q, w, new.completed)]
             /\ Summed(q, w, new.completed) \in Nat
  <2>1. WorkOrderExists(w)
    BY <1>3, <1>4, <1>9
  <2>2. workOrders[w] \in WorkOrderRow /\ workOrders[w].completed \in Nat
    BY <1>0, <2>1 DEF WorkTypeOK, WorkOrderExists, WorkOrderRow
  <2>3. q.others[w] \in Nat /\ new.completed \in Nat
    BY <1>4 DEF EntryRequest, WorkActivityRow
  <2>4. Summed(q, w, new.completed) \in Nat
    BY <2>2, <2>3 DEF Summed
  <2> QED BY <1>1, <1>9, <2>1, <2>2, <2>4
<1>10. ASSUME NEW w \in WorkOrder
       PROVE  /\ workOrders'[w] \in WorkOrderRow \cup {Absent}
              /\ workOrders'[w] # Absent <=> workOrders[w] # Absent
              /\ w # o => workOrders'[w] = workOrders[w]
              /\ w = o => workOrders'[w].completed = Summed(q, w, new.completed)
  <2>1. CASE w # o
    BY <1>0, <1>1, <2>1 DEF WorkTypeOK
  <2>2. CASE w = o
    <3>1. /\ workOrders'[w] \in WorkOrderRow
          /\ workOrders'[w].completed = Summed(q, w, new.completed)
      BY ZenonT(60), <1>9, <2>2 DEF WorkOrderRow
    <3>2. workOrders'[w] # Absent
      <4>1. workOrders'[w].status \in {"Assigned", "In Progress", "Completed"}
            /\ Absent.status = "absent"
        BY <3>1 DEF WorkOrderRow, Absent
      <4> QED BY <4>1
    <3> QED BY <1>9, <2>2, <3>1, <3>2 DEF WorkOrderExists
  <2> QED BY <2>1, <2>2
<1>11. WorkTypeOK'
  <2>1. activities' \in [Activity -> WorkActivityRow \cup {Absent}]
    BY <1>0, <1>1, <1>4 DEF WorkTypeOK
  <2>2. entries' \in [Activity -> [Day -> Amount \cup {0}]]
    BY <1>0, <1>1 DEF WorkTypeOK
  <2>3. workOrders' \in [WorkOrder -> WorkOrderRow \cup {Absent}]
    BY <1>1, <1>10
  <2>4. drifted' \subseteq WorkOrder /\ today' \in Nat
    BY <1>0, <1>1 DEF WorkTypeOK
  <2> QED BY <2>1, <2>2, <2>3, <2>4 DEF WorkTypeOK
<1>12. ActivitiesSound'
  <2> SUFFICES ASSUME NEW b \in Activity
               PROVE  ActivitySound(activities'[b], entries'[b], workOrders', today)
    BY <1>1 DEF ActivitiesSound
  <2>1. ActivitySound(activities[b], entries[b], workOrders, today)
    BY DEF WorkInv, ActivitiesSound
  <2>2. CASE b # a
    BY <1>6, <1>7, <1>10, <2>1, <2>2 DEF ActivitySound
  <2>3. CASE b = a
    <3>1. StatusSound(new, today)
      BY <1>4, StatusOfSound
    <3>2. new.completed = TotalOf(entries'[a]) /\ new.completed + new.remaining = Planned
      <4>1. new.completed \in Nat
        BY <1>4 DEF WorkActivityRow
      <4> QED BY <1>3, <1>4, <1>8, <4>1
    <3>3. new.order \in WorkOrder => workOrders'[new.order] # Absent
      BY <1>3, <1>4, <1>10 DEF WorkOrderExists
    <3> QED BY <1>5, <1>6, <2>3, <3>1, <3>2, <3>3 DEF ActivitySound
  <2> QED BY <2>2, <2>3
<1>13. OrderSumsActivities'
  <2> SUFFICES ASSUME NEW w \in WorkOrder, workOrders'[w] # Absent, w \notin drifted'
               PROVE  workOrders'[w].completed = CompletedIn(activities', w)
    BY DEF OrderSumsActivities, WorkOrderExists
  <2>1. CASE w # o
    <3>1. DoneFor(new, w) = 0 /\ DoneFor(old, w) = 0
      BY <1>4, <2>1 DEF DoneFor
    <3>2. \A b \in Activity : DoneFor(activities'[b], w) = DoneFor(activities[b], w)
      BY <1>6, <3>1 DEF old
    <3>3. CompletedIn(activities', w) = CompletedIn(activities, w)
      BY <3>2, CompletedKept
    <3>4. w \notin drifted
      BY <1>1, <2>1
    <3> QED BY <1>10, <2>1, <3>3, <3>4 DEF WorkInv, OrderSumsActivities, WorkOrderExists
  <2>2. CASE w = o
    <3>1. q = Snapshot(a)
      BY <1>1, <2>2
    <3> DEFINE rest == [activities EXCEPT ![a] = Absent]
    <3>2. /\ rest \in [Activity -> WorkActivityRow \cup {Absent}] /\ rest[a] = Absent
          /\ \A b \in Activity \ {a} : rest[b] = activities'[b]
      BY <1>0, <1>6 DEF WorkTypeOK
    <3>3. q.others[w] = CompletedIn(rest, w) /\ q.orders[w] = workOrders[w].completed
      <4>1. WorkOrderExists(w)
        BY <1>9, <2>2
      <4>2. /\ Snapshot(a).others[w] = CompletedIn([activities EXCEPT ![a] = Absent], w)
            /\ Snapshot(a).orders[w] = IF WorkOrderExists(w) THEN workOrders[w].completed ELSE -1
        BY <1>0, SnapshotTyped
      <4> QED BY <3>1, <4>1, <4>2
    <3> HIDE DEF rest
    <3>4. CompletedIn(activities', w) = CompletedIn(rest, w) - DoneFor(rest[a], w) + DoneFor(activities'[a], w)
      <4>1. activities' \in [Activity -> WorkActivityRow \cup {Absent}]
        BY <1>11 DEF WorkTypeOK
      <4>2. \A b \in Activity \ {a} : DoneFor(activities'[b], w) = DoneFor(rest[b], w)
        BY <3>2
      <4> QED BY <3>2, <4>1, <4>2, CompletedMoved
    <3>5. DoneFor(rest[a], w) = 0 /\ DoneFor(activities'[a], w) = new.completed
      BY <1>5, <1>6, <2>2, <3>2 DEF DoneFor
    <3>6. CompletedIn(rest, w) \in Nat /\ new.completed \in Nat
      BY <1>4, <3>2, CompletedFinite DEF WorkActivityRow
    <3>7. CompletedIn(activities', w) = q.others[w] + new.completed
      BY <3>3, <3>4, <3>5, <3>6
    <3>8. Summed(q, w, new.completed) = q.others[w] + new.completed
      <4>1. workOrders[w].completed \in Nat
        BY <1>9, <2>2 DEF WorkOrderRow
      <4> QED BY <3>3, <4>1 DEF Summed
    <3> QED BY <1>10, <2>2, <3>7, <3>8
  <2> QED BY <2>1, <2>2
<1> QED BY <1>11, <1>12, <1>13 DEF WorkInv

LEMMA EnteringInv ==
    ASSUME WorkInv, entering' \in [Entering -> EntryRequest \cup {NotEntering}],
           UNCHANGED <<activities, entries, workOrders, today, drifted>>
    PROVE  WorkInv'
<1>1. WorkTypeOK'
  BY DEF WorkInv, WorkTypeOK
<1> QED BY <1>1 DEF WorkInv, ActivitiesSound, OrderSumsActivities, WorkOrderExists

LEMMA DayPassesInv == ASSUME WorkInv, DayPasses PROVE WorkInv'
<1>1. WorkTypeOK' /\ today \in Nat /\ today' = today + 1
  BY DEF WorkInv, WorkTypeOK, DayPasses
<1>2. UNCHANGED <<activities, entries, workOrders, drifted>>
  BY DEF DayPasses
<1>3. ActivitiesSound'
  <2> SUFFICES ASSUME NEW a \in Activity
               PROVE  ActivitySound(activities[a], entries[a], workOrders, today')
    BY <1>2 DEF ActivitiesSound
  <2>1. ActivitySound(activities[a], entries[a], workOrders, today)
    BY DEF WorkInv, ActivitiesSound
  <2>2. ActivityExists(a) => activities[a].end \in Int
    BY ActivityRow DEF WorkInv, Day
  <2> QED BY <1>1, <2>1, <2>2 DEF ActivitySound, StatusSound, ActivityExists
<1> QED BY <1>1, <1>2, <1>3 DEF WorkInv, OrderSumsActivities, WorkOrderExists

LEMMA WorkNextInv == ASSUME WorkInv, [WorkNext]_workVars PROVE WorkInv'
<1>0. WorkTypeOK /\ entering \in [Entering -> EntryRequest \cup {NotEntering}]
  BY DEF WorkInv, WorkTypeOK
<1>1. ASSUME NEW r \in Entering, NEW a \in Activity, BeginEntry(r, a) PROVE WorkInv'
  BY <1>0, <1>1, SnapshotTyped, EnteringInv DEF BeginEntry
<1>2. ASSUME NEW r \in Entering, RefuseEntry(r) PROVE WorkInv'
  BY <1>0, <1>2, EnteringInv DEF RefuseEntry
<1>3. ASSUME NEW r \in Entering, NEW d \in Day, NEW n \in Amount, CommitEntry(r, d, n)
      PROVE  WorkInv'
  <2>1. entering[r] \in EntryRequest /\ Enter(entering[r], d, n)
    BY <1>0, <1>3 DEF CommitEntry
  <2>2. entering' \in [Entering -> EntryRequest \cup {NotEntering}]
    BY <1>0, <1>3 DEF CommitEntry
  <2> QED BY <2>1, <2>2, EnterInv
<1>4. ASSUME NEW a \in Activity, NEW d \in Day, NEW n \in Amount, AddEntry(a, d, n)
      PROVE  WorkInv'
  BY <1>0, <1>4, SnapshotTyped, EnterInv DEF AddEntry
<1>5. CASE UNCHANGED workVars
  BY <1>0, <1>5, EnteringInv DEF workVars
<1> QED BY <1>1, <1>2, <1>3, <1>4, <1>5, DayPassesInv, CreateWorkOrderInv, DeleteWorkOrderInv,
           UpdateWorkOrderInv, CreateActivityInv, UpdateActivityInv, DeleteActivityInv
     DEF WorkNext
-----------------------------------------------------------------------------
(* What is shown. *)

LEMMA ShowsStatus ==
    ASSUME WorkTypeOK, NEW row \in WorkActivityRow, NEW s \in ActivityStatus
    PROVE  Shows(row, s) <=> StatusOf(row.completed, row.end) = s
<1>1. row.completed \in Nat /\ row.end \in Int /\ today \in Int
  BY DEF WorkTypeOK, WorkActivityRow, Day
<1>2. Percentage(row.completed) \in Int
  BY <1>1, PercentageInt
<1> DEFINE done == Percentage(row.completed)
<1> HIDE DEF done
<1>3. done \in Int
  BY <1>2 DEF done
<1>4. StatusOf(row.completed, row.end) =
        IF done >= FullPercentage THEN "COMPLETED"
        ELSE IF row.end < today THEN "DELAY"
        ELSE IF done > 0 THEN "ON_TRACK" ELSE "NOT_STARTED"
  BY DEF StatusOf, done
<1>5. /\ Shows(row, "COMPLETED") <=> done >= FullPercentage
      /\ Shows(row, "DELAY") <=> done < FullPercentage /\ row.end < today
      /\ Shows(row, "ON_TRACK") <=> done > 0 /\ done < FullPercentage /\ ~(row.end < today)
      /\ Shows(row, "NOT_STARTED") <=> done <= 0 /\ ~(row.end < today)
  BY DEF Shows, done, Overdue
<1>6. FullPercentage = 10000
  BY DEF FullPercentage
<1>7. CASE s = "COMPLETED"
  BY <1>1, <1>3, <1>4, <1>5, <1>6, <1>7
<1>8. CASE s = "DELAY"
  BY <1>1, <1>3, <1>4, <1>5, <1>6, <1>8
<1>9. CASE s = "ON_TRACK"
  BY <1>1, <1>3, <1>4, <1>5, <1>6, <1>9
<1>10. CASE s = "NOT_STARTED"
  BY <1>1, <1>3, <1>4, <1>5, <1>6, <1>10
<1> QED BY <1>7, <1>8, <1>9, <1>10 DEF ActivityStatus

LEMMA DelayedStand == ASSUME WorkInv PROVE DelayedActivities = StandsAs("DELAY")
<1>1. ASSUME NEW a \in Activity, ActivityExists(a)
      PROVE  (activities[a].status = "DELAY"
                \/ (Overdue(activities[a]) /\ activities[a].status # "COMPLETED"))
             <=> Shows(activities[a], "DELAY")
  <2> DEFINE row == activities[a]
             done == Percentage(row.completed)
  <2>1. /\ row.completed \in Nat /\ StatusSound(row, today) /\ done \in Int
    BY <1>1, ActivityRow, PercentageInt DEF WorkInv, ActivitiesSound, ActivitySound, ActivityExists
  <2>2. Shows(row, "DELAY") <=> done < FullPercentage /\ Overdue(row)
    BY DEF Shows
  <2>3. /\ row.status = "COMPLETED" <=> done >= FullPercentage
        /\ row.status = "DELAY" => Overdue(row)
    BY <2>1 DEF StatusSound, Overdue
  <2>4. done >= FullPercentage <=> ~(done < FullPercentage)
    <3> HIDE DEF done
    <3> QED BY <2>1 DEF FullPercentage
  <2> HIDE DEF done, row
  <2>5. (row.status = "DELAY" \/ (Overdue(row) /\ row.status # "COMPLETED")) <=> Shows(row, "DELAY")
    BY <2>2, <2>3, <2>4
  <2> QED BY <2>5 DEF row
<1> QED BY <1>1 DEF DelayedActivities, StandsAs

\* The four counts of the summary add up to the activities.
LEMMA FourRows ==
    ASSUME NEW f, DOMAIN f = ActivityStatus, \A s \in ActivityStatus : f[s] \in Nat
    PROVE  TotalOf(f) = f["NOT_STARTED"] + f["ON_TRACK"] + f["COMPLETED"] + f["DELAY"]
<1> DEFINE g(S) == [s \in ActivityStatus |-> IF s \in S THEN f[s] ELSE 0]
<1>1. Finitely(g({})) /\ TotalOf(g({})) = 0
  <2>1. IsFiniteSet(ActivityStatus)
    <3>1. IsFiniteSet({"NOT_STARTED"}) /\ IsFiniteSet({"ON_TRACK"})
          /\ IsFiniteSet({"COMPLETED"}) /\ IsFiniteSet({"DELAY"})
      BY FS_Singleton
    <3>2. IsFiniteSet({"NOT_STARTED"} \cup {"ON_TRACK"})
      BY <3>1, FS_Union
    <3>3. IsFiniteSet({"COMPLETED"} \cup {"DELAY"})
      BY <3>1, FS_Union
    <3>4. IsFiniteSet(({"NOT_STARTED"} \cup {"ON_TRACK"}) \cup ({"COMPLETED"} \cup {"DELAY"}))
      BY <3>2, <3>3, FS_Union
    <3>5. ActivityStatus = ({"NOT_STARTED"} \cup {"ON_TRACK"}) \cup ({"COMPLETED"} \cup {"DELAY"})
      BY DEF ActivityStatus
    <3> QED BY <3>4, <3>5
  <2> QED BY <2>1, TotalZero DEF Finitely
<1>2. ASSUME NEW S, NEW s \in ActivityStatus, s \notin S, Finitely(g(S)), TotalOf(g(S)) \in Int
      PROVE  Finitely(g(S \cup {s})) /\ TotalOf(g(S \cup {s})) = TotalOf(g(S)) + f[s]
             /\ TotalOf(g(S \cup {s})) \in Int
  <2> DEFINE old == g(S)
             new == g(S \cup {s})
  <2>1. /\ DOMAIN old = ActivityStatus /\ DOMAIN new = ActivityStatus
        /\ old[s] = 0 /\ new[s] = f[s] /\ new[s] \in Int /\ f[s] \in Int
        /\ \A y \in DOMAIN old : y # s => new[y] = old[y]
    BY <1>2
  <2>2. Finitely(old) /\ TotalOf(old) \in Int
    BY <1>2
  <2> HIDE DEF old, new
  <2>3. Finitely(new) /\ TotalOf(new) = TotalOf(old) - old[s] + new[s]
    BY <2>1, <2>2, TotalChanged
  <2>4. TotalOf(new) = TotalOf(old) + f[s] /\ TotalOf(new) \in Int
    BY <2>1, <2>2, <2>3
  <2> QED BY <2>3, <2>4 DEF old, new
<1>3. g({"NOT_STARTED", "ON_TRACK", "COMPLETED", "DELAY"}) = [s \in ActivityStatus |-> f[s]]
  BY DEF ActivityStatus
<1> HIDE DEF g
<1> DEFINE S1 == {} \cup {"NOT_STARTED"}
           S2 == S1 \cup {"ON_TRACK"}
           S3 == S2 \cup {"COMPLETED"}
           S4 == S3 \cup {"DELAY"}
<1>4. Finitely(g(S1)) /\ TotalOf(g(S1)) = f["NOT_STARTED"] /\ TotalOf(g(S1)) \in Int
  <2>1. "NOT_STARTED" \in ActivityStatus /\ "NOT_STARTED" \notin {} /\ f["NOT_STARTED"] \in Int
    BY DEF ActivityStatus
  <2>2. Finitely(g({})) /\ TotalOf(g({})) \in Int
    BY <1>1
  <2>3. Finitely(g(S1)) /\ TotalOf(g(S1)) = TotalOf(g({})) + f["NOT_STARTED"] /\ TotalOf(g(S1)) \in Int
    BY <1>2, <2>1, <2>2
  <2> HIDE DEF S1
  <2> QED BY <1>1, <2>1, <2>3
<1>5. "ON_TRACK" \notin S1 /\ "COMPLETED" \notin S2 /\ "DELAY" \notin S3
      /\ S4 = {"NOT_STARTED", "ON_TRACK", "COMPLETED", "DELAY"}
  OBVIOUS
<1> HIDE DEF S1
<1>6. Finitely(g(S2)) /\ TotalOf(g(S2)) = TotalOf(g(S1)) + f["ON_TRACK"] /\ TotalOf(g(S2)) \in Int
  BY <1>2, <1>4, <1>5 DEF ActivityStatus
<1> HIDE DEF S2
<1>7. Finitely(g(S3)) /\ TotalOf(g(S3)) = TotalOf(g(S2)) + f["COMPLETED"] /\ TotalOf(g(S3)) \in Int
  BY <1>2, <1>5, <1>6 DEF ActivityStatus
<1> HIDE DEF S3
<1>8. TotalOf(g(S4)) = TotalOf(g(S3)) + f["DELAY"]
  BY <1>2, <1>5, <1>7 DEF ActivityStatus
<1>9. TotalOf(f) = TotalOf(g(S4))
  <2>1. TotalOf(f) = TotalOf([s \in ActivityStatus |-> f[s]])
    <3> DEFINE h == [s \in ActivityStatus |-> f[s]]
    <3>1. DOMAIN h = DOMAIN f /\ \A y \in DOMAIN f : h[y] = f[y]
      OBVIOUS
    <3> HIDE DEF h
    <3>2. TotalOf(h) = TotalOf(f)
      BY <3>1, TotalSame
    <3> QED BY <3>2 DEF h
  <2> HIDE DEF S4
  <2> QED BY <1>3, <1>5, <2>1
<1> QED BY <1>4, <1>6, <1>7, <1>8, <1>9

LEMMA SummaryCounts ==
    ASSUME WorkInv
    PROVE  TotalOf(ProjectSummary) = Cardinality({a \in Activity : ActivityExists(a)})
<1>0. WorkTypeOK
  BY DEF WorkInv
<1> DEFINE A == StandsAs("NOT_STARTED")
           B == StandsAs("ON_TRACK")
           C == StandsAs("COMPLETED")
           D == StandsAs("DELAY")
<1>1. \A s \in ActivityStatus : IsFiniteSet(StandsAs(s)) /\ Cardinality(StandsAs(s)) \in Nat
  BY FS_Subset, FS_CardinalityType DEF StandsAs
<1>2. TotalOf(ProjectSummary) = Cardinality(A) + Cardinality(B) + Cardinality(C) + Cardinality(D)
  <2>1. /\ DOMAIN ProjectSummary = ActivityStatus
        /\ \A s \in ActivityStatus : ProjectSummary[s] = Cardinality(StandsAs(s)) /\ ProjectSummary[s] \in Nat
    BY <1>1 DEF ProjectSummary
  <2>2. TotalOf(ProjectSummary) = ProjectSummary["NOT_STARTED"] + ProjectSummary["ON_TRACK"]
                                    + ProjectSummary["COMPLETED"] + ProjectSummary["DELAY"]
    BY <2>1, FourRows
  <2> QED BY <2>1, <2>2 DEF ActivityStatus
<1>3. ASSUME NEW a \in Activity, ActivityExists(a), NEW s \in ActivityStatus
      PROVE  a \in StandsAs(s) <=> StatusOf(activities[a].completed, activities[a].end) = s
  BY <1>0, <1>3, ActivityRow, ShowsStatus DEF StandsAs
<1>4. /\ A \cap B = {} /\ (A \cup B) \cap C = {} /\ (A \cup B \cup C) \cap D = {}
      /\ A \cup B \cup C \cup D = {a \in Activity : ActivityExists(a)}
  <2>1. ASSUME NEW a, NEW s \in ActivityStatus, a \in StandsAs(s)
        PROVE  a \in Activity /\ ActivityExists(a)
               /\ StatusOf(activities[a].completed, activities[a].end) = s
    <3>1. a \in Activity /\ ActivityExists(a)
      BY <2>1 DEF StandsAs
    <3> QED BY <1>3, <2>1, <3>1
  <2>2. ASSUME NEW a \in Activity, ActivityExists(a)
        PROVE  a \in A \/ a \in B \/ a \in C \/ a \in D
    BY <1>3, <2>2, StatusOfTyped DEF ActivityStatus
  <2>3. /\ \A a \in A : a \in Activity /\ ActivityExists(a)
                        /\ StatusOf(activities[a].completed, activities[a].end) = "NOT_STARTED"
        /\ \A a \in B : a \in Activity /\ ActivityExists(a)
                        /\ StatusOf(activities[a].completed, activities[a].end) = "ON_TRACK"
        /\ \A a \in C : a \in Activity /\ ActivityExists(a)
                        /\ StatusOf(activities[a].completed, activities[a].end) = "COMPLETED"
        /\ \A a \in D : a \in Activity /\ ActivityExists(a)
                        /\ StatusOf(activities[a].completed, activities[a].end) = "DELAY"
    BY <2>1 DEF ActivityStatus
  <2> HIDE DEF A, B, C, D
  <2> QED BY <2>2, <2>3
<1>5. IsFiniteSet(A) /\ IsFiniteSet(B) /\ IsFiniteSet(C) /\ IsFiniteSet(D)
      /\ Cardinality(A) \in Nat /\ Cardinality(B) \in Nat
      /\ Cardinality(C) \in Nat /\ Cardinality(D) \in Nat
  BY <1>1 DEF ActivityStatus
<1> HIDE DEF A, B, C, D
<1>6. Cardinality({}) = 0
  BY FS_EmptySet
<1>7. ASSUME NEW S, NEW T, IsFiniteSet(S), IsFiniteSet(T), S \cap T = {}
      PROVE  IsFiniteSet(S \cup T) /\ Cardinality(S \cup T) = Cardinality(S) + Cardinality(T)
  <2>1. /\ IsFiniteSet(S \cup T)
        /\ Cardinality(S \cup T) = Cardinality(S) + Cardinality(T) - Cardinality(S \cap T)
    BY <1>7, FS_Union
  <2>2. Cardinality(S) \in Nat /\ Cardinality(T) \in Nat
    BY <1>7, FS_CardinalityType
  <2>3. Cardinality(S \cap T) = 0
    BY <1>6, <1>7
  <2> QED BY <2>1, <2>2, <2>3
<1>8. IsFiniteSet(A \cup B) /\ Cardinality(A \cup B) = Cardinality(A) + Cardinality(B)
  BY <1>4, <1>5, <1>7
<1>9. /\ IsFiniteSet(A \cup B \cup C)
      /\ Cardinality(A \cup B \cup C) = Cardinality(A \cup B) + Cardinality(C)
  BY <1>4, <1>5, <1>7, <1>8
<1>10. Cardinality(A \cup B \cup C \cup D) = Cardinality(A \cup B \cup C) + Cardinality(D)
  BY <1>4, <1>5, <1>7, <1>9
<1> QED BY <1>2, <1>4, <1>5, <1>8, <1>9, <1>10

\* All of what was planned is the whole of it.
LEMMA AllIsComplete == Percentage(Planned) >= FullPercentage
<1> DEFINE m == 2 * Planned * FullPercentage + Planned
           k == 2 * Planned
           q == m \div k
<1>1. m \in Nat /\ k \in Nat \ {0} /\ m = k * 10000 + Planned
  BY DEF FullPercentage
<1> HIDE DEF m, k
<1>2. q \in Int /\ m < k * q + k
  BY <1>1
<1> HIDE DEF q
<1>3. q >= 10000
  <2> SUFFICES ASSUME q + 1 <= 10000 PROVE FALSE
    BY <1>2
  <2>1. k * (q + 1) <= k * 10000
    BY <1>1, <1>2
  <2>2. k * (q + 1) = k * q + k
    BY <1>1, <1>2
  <2> QED BY <1>1, <1>2, <2>1, <2>2
<1> QED BY <1>3 DEF q, m, k, Percentage, FullPercentage

\* A work order that is complete by its sum is complete by its activities.
LEMMA CompleteByAll ==
    ASSUME WorkInv, NEW w \in WorkOrder, NEW a \in Activity,
           OrderStatus(w) = "COMPLETED", ActivityExists(a), activities[a].order = w
    PROVE  a \in StandsAs("COMPLETED")
<1> DEFINE of == {b \in Activity : ActivityExists(b) /\ activities[b].order = w}
           f == CompletedOf(activities, w)
<1>0. WorkTypeOK
  BY DEF WorkInv
<1>1. IsFiniteSet(of) /\ Cardinality(of) \in Nat /\ a \in of
  BY FS_Subset, FS_CardinalityType
<1>2. CompletedIn(activities, w) >= Cardinality(of) * Planned
  BY DEF OrderStatus
<1>3. \A b \in Activity : f[b] = IF b \in of THEN activities[b].completed ELSE 0
  BY DEF CompletedOf, DoneFor, ActivityExists
<1>4. \A b \in of : activities[b].completed \in Nat /\ activities[b].completed <= Planned
  <2> SUFFICES ASSUME NEW b \in of
               PROVE  activities[b].completed \in Nat /\ activities[b].completed <= Planned
    OBVIOUS
  <2>1. activities[b].completed \in Nat /\ activities[b].remaining \in Nat
    BY <1>0, ActivityRow
  <2>2. activities[b].completed + activities[b].remaining = Planned
    BY DEF WorkInv, ActivitiesSound, ActivitySound, ActivityExists
  <2> QED BY <2>1, <2>2
<1>5. Finitely(f) /\ DOMAIN f = Activity /\ \A b \in Activity : f[b] \in Nat
  <2>1. activities \in [Activity -> WorkActivityRow \cup {Absent}]
    BY <1>0 DEF WorkTypeOK
  <2> QED BY <2>1, CompletedFinite
<1> HIDE DEF f, of
<1>6. CompletedIn(activities, w) = Cardinality(UnitsOf(f))
  BY <1>5, TotalNat, CompletedInIs DEF f
<1>7. activities[a].completed = Planned
  <2> SUFFICES ASSUME activities[a].completed < Planned PROVE FALSE
    BY <1>1, <1>4
  <2> DEFINE all == of \X (1..Planned)
  <2>1. UnitsOf(f) \subseteq all \ {<<a, Planned>>}
    <3> SUFFICES ASSUME NEW b \in Activity, NEW i \in 1..f[b]
                 PROVE  b \in of /\ i \in 1..Planned /\ <<b, i>> # <<a, Planned>>
      BY <1>5 DEF UnitsOf
    <3>1. b \in of
      BY <1>3
    <3> QED BY <1>1, <1>3, <1>4, <3>1
  <2>2. IsFiniteSet(1..Planned) /\ Cardinality(1..Planned) = Planned
    BY FS_Interval
  <2>3. IsFiniteSet(all) /\ Cardinality(all) = Cardinality(of) * Planned
    BY <1>1, <2>2, FS_Product
  <2>4. <<a, Planned>> \in all
    BY <1>1
  <2> HIDE DEF all
  <2>5. /\ IsFiniteSet(all \ {<<a, Planned>>})
        /\ Cardinality(all \ {<<a, Planned>>}) = Cardinality(all) - 1
    BY <2>3, <2>4, FS_RemoveElement
  <2>6. Cardinality(UnitsOf(f)) <= Cardinality(all \ {<<a, Planned>>})
    BY <2>1, <2>5, FS_Subset
  <2>7. Cardinality(UnitsOf(f)) \in Nat /\ Cardinality(all) \in Nat
    BY <1>5, <2>3, UnitsFinite, FS_CardinalityType
  <2>8. Cardinality(UnitsOf(f)) >= Cardinality(all)
    BY <1>2, <1>6, <2>3
  <2> QED BY <2>5, <2>6, <2>7, <2>8
<1> QED BY <1>7, AllIsComplete DEF StandsAs, Shows

LEMMA WorkShown == WorkInv => EntriesAddUp /\ OrderSumsActivities /\ StatusViewsAgree
<1> SUFFICES ASSUME WorkInv PROVE EntriesAddUp /\ StatusViewsAgree
  BY DEF WorkInv
<1>1. EntriesAddUp
  BY DEF EntriesAddUp, Entered, WorkInv, ActivitiesSound, ActivitySound, ActivityExists
<1>2. \A a \in Activity, s \in ActivityStatus : ActivityExists(a) =>
          (a \in StandsAs(s) <=> StatusOf(activities[a].completed, activities[a].end) = s)
  BY ActivityRow, ShowsStatus DEF StandsAs, WorkInv
<1>3. ReportedDelayed \subseteq DelayedActivities
  BY DEF ReportedDelayed, DelayedActivities
<1>4. StatusViewsAgree
  BY <1>2, <1>3, DelayedStand, SummaryCounts, CompleteByAll DEF StatusViewsAgree
<1> QED BY <1>1, <1>4

\* However entries of the day overlap each other and changes of activities and work orders,
\* quantities are the sums of what was entered and all views of a status agree.
THEOREM EntriesAddUpAlways == WorkSpec => [](EntriesAddUp /\ OrderSumsActivities /\ StatusViewsAgree)
<1>1. WorkInv /\ [WorkNext]_workVars => WorkInv'
  BY WorkNextInv
<1> QED BY <1>1, WorkInitInv, WorkShown, PTL DEF WorkSpec

-----------------------------------------------------------------------------
(* The site as a whole.                                                     *)

\* The scene that is shown keeps its component's invariant.
SiteInvs ==
    /\ scene \in Scene
    /\ scene = "work"     => WorkInv
    /\ scene = "boq"      => BOQInv
    /\ scene = "billing"  => BillingInv
    /\ scene = "tasks"    => TasksInv
    /\ scene = "records"  => SiteInv
    /\ scene = "updates"  => UpdatesInv
    /\ scene = "projects" => ProjectsInv
    /\ scene = "files"    => FilesInv
    /\ scene = "stock"    => StockInv

LEMMA SiteInvsInit == MCInit => SiteInvs
BY WorkInitInv, BOQInitInv, BillingInitInv, TasksInitInv, SiteInitInv, UpdatesInitInv,
   ProjectsInitInv, FilesInitInv, StockInitInv DEF MCInit, SiteInvs

LEMMA SiteInvsNext ==
    ASSUME SiteInvs, [MCNext]_allVars
    PROVE  SiteInvs'
<1>1. /\ scene' = scene
      /\ scene = "work"     => [WorkNext]_workVars
      /\ scene = "boq"      => [BOQNext]_boqVars
      /\ scene = "billing"  => [BillingNext]_billingVars
      /\ scene = "tasks"    => [TasksNext]_taskVars
      /\ scene = "records"  => [SiteNext]_siteVars
      /\ scene = "updates"  => [UpdatesNext]_updateVars
      /\ scene = "projects" => [ProjectsNext]_projectVars
      /\ scene = "files"    => [FilesNext]_fileVars
      /\ scene = "stock"    => [Next]_vars
      BY DEF MCNext, allVars
<1>2. CASE scene = "work"
      BY <1>1, <1>2, WorkNextInv DEF SiteInvs
<1>3. CASE scene = "boq"
      BY <1>1, <1>3, BOQNextInv DEF SiteInvs
<1>4. CASE scene = "billing"
      BY <1>1, <1>4, BillingNextInv DEF SiteInvs
<1>5. CASE scene = "tasks"
      BY <1>1, <1>5, TasksNextInv DEF SiteInvs
<1>6. CASE scene = "records"
      BY <1>1, <1>6, SiteNextInv DEF SiteInvs
<1>7. CASE scene = "updates"
      BY <1>1, <1>7, UpdatesNextInv DEF SiteInvs
<1>8. CASE scene = "projects"
      BY <1>1, <1>8, ProjectsNextInv DEF SiteInvs
<1>9. CASE scene = "files"
      BY <1>1, <1>9, FilesNextInv DEF SiteInvs
<1>10. CASE scene = "stock"
      BY <1>1, <1>10, StockNextInv DEF SiteInvs
<1> QED BY <1>2, <1>3, <1>4, <1>5, <1>6, <1>7, <1>8, <1>9, <1>10 DEF SiteInvs, Scene

LEMMA SiteInvsAlways == MCSpec => []SiteInvs
BY SiteInvsInit, SiteInvsNext, PTL DEF MCSpec

\* Every table of the site keeps the types of its columns, and every request what it
\* has read, whatever requests overlap.
THEOREM SiteTypesAlways == MCSpec => []SiteTypesOK
<1>1. SiteInvs => SiteTypesOK
      BY StockTypeOK DEF SiteInvs, SiteTypesOK, WorkInv, BOQInv, BillingInv, TasksInv, SiteInv,
         UpdatesInv, ProjectsInv, FilesInv
<1> QED BY <1>1, SiteInvsAlways, PTL

\* Progress is counted once: sums of days, one current version of the bill of
\* quantities, one claim of a measurement, the last report of a task (project.py,
\* boq.py, ra_bill.py, task.py).
THEOREM ProgressAddsUpAlways == MCSpec => []ProgressAddsUp
<1>1. SiteInvs => ProgressAddsUp
      BY WorkShown, BilledOnce DEF SiteInvs, ProgressAddsUp, BOQInv, TasksInv
<1> QED BY <1>1, SiteInvsAlways, PTL

\* What was approved or recorded stands, and only what was asked for waits for a
\* decision (boq.py, project.py, work_update.py, document.py, drawings.py).
THEOREM RecordsStandAlways == MCSpec => []RecordsStand
<1>1. SiteInv => ApprovedReportStands
      BY DEF SiteInv, DatesDistinct, ApprovedNoted, ApprovedReportStands, FreeKey, Of
<1>2. FilesInv => ReviewedStands
      BY DEF FilesInv, ApprovedAsAsked, LatestIsHighest, ReviewedStands
<1>3. SiteInvs => RecordsStand
      BY <1>1, <1>2 DEF SiteInvs, RecordsStand, BOQInv, UpdatesInv, ProjectsInv
<1> QED BY <1>3, SiteInvsAlways, PTL
=============================================================================
