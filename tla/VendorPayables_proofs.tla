----------------------- MODULE VendorPayables_proofs -----------------------
(***************************************************************************)
(* Proofs about VendorPayables, for every set of bills, vouchers and        *)
(* requests, every amount and every number of transactions.                 *)
(***************************************************************************)
EXTENDS VendorPayables, FiniteSetTheorems, SequenceTheorems, TLAPS

USE LegacyAssumption, TotalAssumption, BillOfAssumption, AmountAssumption,
    WithheldAssumption, ManualTDSAssumption, MaxTxnAssumption, ExclusiveAssumption

-----------------------------------------------------------------------------
(* The inductive invariant, in named parts. *)

\* Ids stored in rows and held by requests name rows of the transactions table.
VoucherLinked(row, n) == row.txn \in 0..n /\ (row.status = "PAID" => row.txn # 0)
RequestLinked(q, n) ==
    /\ q.op \in {"mark_paid", "cancel"} => VoucherLinked(q.voucherRow, n)
    /\ q.op = "reverse" => q.txn \in 1..n
Links ==
    /\ \A v \in Voucher : VoucherLinked(vouchers[v], Len(txns))
    /\ \A r \in Request : RequestLinked(requests[r], Len(txns))

IInv == TypeOK /\ Links

-----------------------------------------------------------------------------
(* Lemmas about the helpers. *)

LEMMA SwappedType == ASSUME NEW lines \in Lines PROVE Swapped(lines) \in Lines
  BY DEF Swapped, Lines

LEMMA PostedType ==
  ASSUME ledger \in [Bill -> Lines], NEW b \in Bill, NEW lines \in Lines
  PROVE  Posted(b, lines) \in [Bill -> Lines]
  <1>1. [a \in Accounts |-> ledger[b][a] + lines[a]] \in Lines
    BY DEF Lines
  <1> QED  BY <1>1 DEF Posted

LEMMA PostingType ==
  ASSUME NEW p \in Int, NEW k \in Int, NEW t \in Int, NEW r \in Int, NEW e \in Int
  PROVE  Posting(p, k, t, r, e) \in Lines
  BY DEF Posting, Lines, Accounts

\* The row a cancellation or a reversal adds has the type of the one it takes back.
LEMMA UndoneRowType ==
  ASSUME NEW orig \in TxnRow, NEW k \in Nat
  PROVE  /\ [orig EXCEPT !.amount = -orig.amount, !.lines = Swapped(orig.lines),
                          !.cancels = k] \in TxnRow
         /\ [orig EXCEPT !.amount = -orig.amount, !.lines = Swapped(orig.lines),
                          !.reverses = k, !.cancels = 0] \in TxnRow
  <1>1. orig.lines \in Lines /\ orig.amount \in Int
    BY DEF TxnRow
  <1>2. Swapped(orig.lines) \in Lines
    BY <1>1, SwappedType
  <1>3. -orig.amount \in Int
    BY <1>1
  <1> QED  BY <1>2, <1>3 DEF TxnRow

LEMMA BillUpdateType ==
  ASSUME NEW old \in BillRow, NEW paid \in Int, NEW status \in BillStatus
  PROVE  [old EXCEPT !.paid = paid, !.status = status] \in BillRow
  BY DEF BillRow

LEMMA FlushedBillType ==
  ASSUME NEW cur \in BillRow, NEW old \in BillRow, NEW new \in BillRow
  PROVE  Flushed(cur, old, new) \in BillRow
  BY DEF Flushed, BillRow

LEMMA FlushedVoucherType ==
  ASSUME NEW cur \in VoucherRow, NEW old \in VoucherRow, NEW new \in VoucherRow
  PROVE  Flushed(cur, old, new) \in VoucherRow
  BY DEF Flushed, VoucherRow

\* A step that appends one well-typed row keeps the transactions table well-typed.
LEMMA AppendTxnType ==
  ASSUME txns \in Seq(TxnRow), NEW row \in TxnRow
  PROVE  Append(txns, row) \in Seq(TxnRow)
  OBVIOUS

\* The operation of a request tells which rows it carries.
LEMMA RequestByOp ==
  ASSUME NEW q \in RequestState
  PROVE  /\ q.op = "create_voucher" => q \in CreateVoucherRequest
         /\ q.op \in {"mark_paid", "cancel"} => q \in VoucherRequest
         /\ q.op = "reverse" => q \in ReverseRequest
         /\ q.op = "create_tds" => q \in TDSRequest
  BY DEF RequestState, Idle, CreateVoucherRequest, VoucherRequest, ReverseRequest, TDSRequest

LEMMA StartType ==
  ASSUME requests \in [Request -> RequestState], NEW r \in Request, NEW q \in RequestState,
         Start(r, q)
  PROVE  requests' \in [Request -> RequestState]
  BY DEF Start

LEMMA DoneType ==
  ASSUME requests \in [Request -> RequestState], NEW r \in Request, Done(r)
  PROVE  requests' \in [Request -> RequestState]
  BY DEF Done, RequestState

LEMMA InitType == Init => TypeOK
  BY DEF Init, TypeOK, BillRow, BillStatus, VoucherRow, VoucherStatus, Lines, RequestState

-----------------------------------------------------------------------------
(* Type correctness, one lemma per group of actions. *)

LEMMA BillStepType == TypeOK /\ BillStep => TypeOK'
  <1> SUFFICES ASSUME TypeOK, NEW b \in Bill,
                      \/ CreateVendorBill(b) \/ ApproveVendorBill(b) \/ RejectVendorBill(b)
                      \/ \E amount \in Amount : PayVendorBill(b, amount)
                      \/ \E s \in ManualTDS : UpdateTDS(b, s)
                      \/ DeleteTDS(b)
               PROVE  TypeOK'
    BY DEF BillStep
  <1> USE DEF TypeOK
  <1>0. bills[b] \in BillRow /\ bills[b].paid \in Int /\ Total[b] \in Int
    BY DEF BillRow
  <1>1. CASE CreateVendorBill(b)
    BY <1>1 DEF CreateVendorBill, BillRow, BillStatus
  <1>2. CASE ApproveVendorBill(b)
    <2> DEFINE accrual == Posting(Total[b], 0, 0, 0, -Total[b])
    <2>0. accrual \in Lines
      <3>1. Total[b] \in Int /\ -Total[b] \in Int /\ 0 \in Int
        BY <1>0
      <3> HIDE DEF TypeOK
      <3> QED  BY <3>1, PostingType
    <2>1. Posted(b, accrual) \in [Bill -> Lines]
      BY <2>0, PostedType
    <2>2. ledger' \in [Bill -> Lines]
      BY <1>2, <2>1 DEF ApproveVendorBill
    <2>3. bills' \in [Bill -> BillRow]
      <3>1. [bills[b] EXCEPT !.status = "APPROVED", !.accrued = TRUE] \in BillRow
        BY <1>0 DEF BillRow, BillStatus
      <3> QED  BY <1>2, <3>1 DEF ApproveVendorBill
    <2> QED  BY <1>2, <2>2, <2>3 DEF ApproveVendorBill
  <1>3. CASE RejectVendorBill(b)
    BY <1>3 DEF RejectVendorBill, BillRow, BillStatus
  <1>4. ASSUME NEW amount \in Amount, PayVendorBill(b, amount) PROVE TypeOK'
    <2> DEFINE lines == Posting(-amount, amount, 0, 0, 0)
               row == [bill |-> b, origin |-> "direct", amount |-> amount,
                       lines |-> lines, reverses |-> 0, cancels |-> 0]
    <2>1. amount \in Int /\ -amount \in Int
      OBVIOUS
    <2>2. lines \in Lines
      BY <2>1, PostingType
    <2>3. row \in TxnRow
      BY <2>1, <2>2 DEF TxnRow
    <2>4. ledger' \in [Bill -> Lines]
      BY <1>4, <2>2, PostedType DEF PayVendorBill
    <2>5. txns' \in Seq(TxnRow)
      BY <1>4, <2>3, AppendTxnType DEF PayVendorBill
    <2>6. bills' \in [Bill -> BillRow]
      <3> DEFINE paid == bills[b].paid + amount
                 new  == [bills[b] EXCEPT !.paid = paid, !.status = SettledStatus(b, paid)]
      <3>1. paid \in Int
        BY <1>0, <2>1
      <3>2. SettledStatus(b, paid) \in BillStatus
        BY DEF SettledStatus, BillStatus
      <3>3. new \in BillRow
        BY <1>0, <3>1, <3>2 DEF BillRow
      <3>4. bills' = [bills EXCEPT ![b] = new]
        BY <1>4 DEF PayVendorBill
      <3> QED  BY <3>3, <3>4
    <2> QED  BY <1>4, <2>4, <2>5, <2>6 DEF PayVendorBill
  <1>5. ASSUME NEW s \in ManualTDS, UpdateTDS(b, s) PROVE TypeOK'
    <2>1. PICK old \in tds[b] : tds' = [tds EXCEPT ![b] = (tds[b] \ {old}) \cup {s}]
      BY <1>5 DEF UpdateTDS
    <2>2. s \in TDSStatus
      BY DEF TDSStatus
    <2>3. (tds[b] \ {old}) \cup {s} \in SUBSET TDSStatus
      BY <2>2
    <2>4. tds' \in [Bill -> SUBSET TDSStatus]
      BY <2>1, <2>3
    <2> QED  BY <1>5, <2>4 DEF UpdateTDS
  <1>6. CASE DeleteTDS(b)
    BY <1>6 DEF DeleteTDS
  <1> QED  BY <1>1, <1>2, <1>3, <1>4, <1>5, <1>6

LEMMA BeginType == ASSUME TypeOK, NEW r \in Request, Begin(r) PROVE TypeOK'
  <1> USE DEF TypeOK
  <1>1. ASSUME NEW v \in Voucher, NEW gross \in Amount,
               NEW withheld \in Withheld, NEW retention \in Withheld,
               BeginCreateVoucher(r, v, gross, withheld, retention)
        PROVE  TypeOK'
    <2> DEFINE q == [op |-> "create_voucher", bill |-> BillOf[v], voucher |-> v,
                     gross |-> gross, tds |-> withheld, retention |-> retention,
                     billRow |-> bills[BillOf[v]], issued |-> Issued]
    <2>1. q \in CreateVoucherRequest
      BY DEF CreateVoucherRequest, Issued
    <2>2. Start(r, q)
      BY <1>1 DEF BeginCreateVoucher
    <2>3. requests' \in [Request -> RequestState]
      BY <2>1, <2>2, StartType DEF RequestState
    <2> QED  BY <1>1, <2>3 DEF BeginCreateVoucher
  <1>2. ASSUME NEW v \in Voucher, NEW op \in {"mark_paid", "cancel"}, BeginVoucherOp(r, op, v)
        PROVE  TypeOK'
    <2> DEFINE q == [op |-> op, bill |-> BillOf[v], voucher |-> v,
                     billRow |-> bills[BillOf[v]], voucherRow |-> vouchers[v],
                     tdsRows |-> tds[BillOf[v]]]
    <2>1. q \in VoucherRequest
      BY DEF VoucherRequest
    <2>2. Start(r, q)
      BY <1>2 DEF BeginVoucherOp
    <2>3. requests' \in [Request -> RequestState]
      BY <2>1, <2>2, StartType DEF RequestState
    <2> QED  BY <1>2, <2>3 DEF BeginVoucherOp
  <1>3. ASSUME NEW t \in 1..Len(txns), BeginReverse(r, t) PROVE TypeOK'
    <2> DEFINE b == txns[t].bill
               q == [op |-> "reverse", bill |-> b, txn |-> t, billRow |-> bills[b],
                     tdsRows |-> tds[b], seen |-> Len(txns)]
    <2>1. txns[t] \in TxnRow
      OBVIOUS
    <2>2. b \in Bill
      BY <2>1 DEF TxnRow
    <2>3. q \in ReverseRequest
      BY <2>2 DEF ReverseRequest
    <2>4. Start(r, q)
      BY <1>3 DEF BeginReverse
    <2>5. requests' \in [Request -> RequestState]
      BY <2>3, <2>4, StartType DEF RequestState
    <2> QED  BY <1>3, <2>5 DEF BeginReverse
  <1>4. ASSUME NEW b \in Bill, NEW s \in ManualTDS, NEW amount \in Withheld,
               BeginCreateTDS(r, b, s, amount)
        PROVE  TypeOK'
    <2> DEFINE q == [op |-> "create_tds", bill |-> b, status |-> s, amount |-> amount,
                     tdsRows |-> tds[b]]
    <2>1. q \in TDSRequest
      BY DEF TDSRequest, TDSStatus
    <2>2. Start(r, q)
      BY <1>4 DEF BeginCreateTDS
    <2>3. requests' \in [Request -> RequestState]
      BY <2>1, <2>2, StartType DEF RequestState
    <2> QED  BY <1>4, <2>3 DEF BeginCreateTDS
  <1> QED  BY <1>1, <1>2, <1>3, <1>4 DEF Begin

LEMMA CommitMarkPaidType == ASSUME TypeOK, NEW r \in Request, CommitMarkPaid(r) PROVE TypeOK'
  <1> USE DEF TypeOK
  <1> DEFINE q     == requests[r]
             pv    == q.voucherRow
             b     == q.bill
             paid  == q.billRow.paid + pv.gross
             net   == pv.gross - pv.tds - pv.retention
             lines == Posting(-pv.gross, net, pv.tds, pv.retention, 0)
             row   == [bill |-> b, origin |-> "voucher", amount |-> net,
                       lines |-> lines, reverses |-> 0, cancels |-> 0]
             new   == [q.billRow EXCEPT !.paid = paid, !.status = SettledStatus(b, paid)]
             newPv == [pv EXCEPT !.status = "PAID", !.txn = Len(txns) + 1]
  <1>1. q \in VoucherRequest
    BY RequestByOp DEF CommitMarkPaid
  <1>2. /\ b \in Bill /\ q.voucher \in Voucher
        /\ q.billRow \in BillRow /\ pv \in VoucherRow
    BY <1>1 DEF VoucherRequest
  <1>3. /\ q.billRow.paid \in Int /\ pv.gross \in Nat /\ pv.tds \in Nat
        /\ pv.retention \in Nat /\ Total[b] \in Nat
    BY <1>2 DEF BillRow, VoucherRow
  <1>4. net \in Int /\ paid \in Int /\ -pv.gross \in Int
    <2> HIDE DEF TypeOK, q, pv
    <2> QED  BY <1>3
  <1>5. lines \in Lines
    <2> HIDE DEF TypeOK, q, pv, net
    <2>1. /\ -pv.gross \in Int /\ net \in Int /\ pv.tds \in Int
          /\ pv.retention \in Int /\ 0 \in Int
      BY <1>3, <1>4
    <2> QED  BY <2>1, PostingType
  <1>6. row \in TxnRow
    BY <1>2, <1>4, <1>5 DEF TxnRow
  <1>7. txns' \in Seq(TxnRow)
    BY <1>6, AppendTxnType DEF CommitMarkPaid
  <1>8. ledger' \in [Bill -> Lines]
    BY <1>2, <1>5, PostedType DEF CommitMarkPaid
  <1>9. new \in BillRow
    BY <1>2, <1>3, <1>4 DEF BillRow, BillStatus, SettledStatus
  <1>10. newPv \in VoucherRow
    <2>1. Len(txns) + 1 \in Nat
      OBVIOUS
    <2> QED  BY <1>2, <2>1 DEF VoucherRow, VoucherStatus
  <1>11. bills' \in [Bill -> BillRow]
    <2>1. Flushed(bills[b], q.billRow, new) \in BillRow
      BY <1>2, <1>9, FlushedBillType
    <2> QED  BY <1>2, <2>1 DEF CommitMarkPaid
  <1>12. vouchers' \in [Voucher -> VoucherRow]
    <2>1. Flushed(vouchers[q.voucher], pv, newPv) \in VoucherRow
      BY <1>2, <1>10, FlushedVoucherType
    <2> QED  BY <1>2, <2>1 DEF CommitMarkPaid
  <1>13. tds' \in [Bill -> SUBSET TDSStatus]
    <2>1. tds[b] \cup {"PENDING"} \in SUBSET TDSStatus
      BY <1>2 DEF TDSStatus
    <2> QED  BY <1>2, <2>1 DEF CommitMarkPaid
  <1>14. requests' \in [Request -> RequestState]
    BY DoneType DEF CommitMarkPaid
  <1> QED  BY <1>7, <1>8, <1>11, <1>12, <1>13, <1>14

LEMMA CommitCancelType ==
  ASSUME IInv, NEW r \in Request, CommitCancelPending(r) \/ CommitCancelPaid(r)
  PROVE  TypeOK'
  <1> USE DEF IInv, TypeOK
  <1> DEFINE q    == requests[r]
             pv   == q.voucherRow
             b    == q.bill
             orig == txns[pv.txn]
             paid == q.billRow.paid - pv.gross
             row  == [orig EXCEPT !.amount = -orig.amount,
                                  !.lines = Swapped(orig.lines), !.cancels = pv.txn]
             new  == [q.billRow EXCEPT !.paid = paid,
                        !.status = IF paid <= 0 THEN "APPROVED" ELSE "PARTIAL"]
  <1>1. q \in VoucherRequest
    BY RequestByOp DEF CommitCancelPending, CommitCancelPaid
  <1>2. /\ b \in Bill /\ q.voucher \in Voucher
        /\ q.billRow \in BillRow /\ pv \in VoucherRow
    BY <1>1 DEF VoucherRequest
  <1>3. requests' \in [Request -> RequestState]
    BY DoneType DEF CommitCancelPending, CommitCancelPaid
  <1>4. vouchers' \in [Voucher -> VoucherRow]
    <2> DEFINE cancelled == [vouchers[q.voucher] EXCEPT !.status = "CANCELLED"]
    <2>1. cancelled \in VoucherRow
      BY <1>2 DEF VoucherRow, VoucherStatus
    <2>2. vouchers' = [vouchers EXCEPT ![q.voucher] = cancelled]
      BY DEF CommitCancelPending, CommitCancelPaid
    <2> QED  BY <1>2, <2>1, <2>2
  <1>5. CASE CommitCancelPending(r)
    BY <1>3, <1>4, <1>5 DEF CommitCancelPending
  <1>6. CASE CommitCancelPaid(r)
    <2>0. pv.txn \in 1..Len(txns)
      <3>1. VoucherLinked(pv, Len(txns)) /\ pv.status = "PAID"
        BY <1>6 DEF Links, RequestLinked, CommitCancelPaid
      <3> QED  BY <1>2, <3>1 DEF VoucherLinked, VoucherRow
    <2>1. orig \in TxnRow
      BY <2>0
    <2>2. Swapped(orig.lines) \in Lines
      BY <2>1, SwappedType DEF TxnRow
    <2>3. row \in TxnRow
      <3>1. pv.txn \in Nat
        BY <1>2 DEF VoucherRow
      <3> QED  BY <2>1, <3>1, UndoneRowType
    <2>4. txns' \in Seq(TxnRow)
      BY <1>6, <2>3, AppendTxnType DEF CommitCancelPaid
    <2>5. ledger' \in [Bill -> Lines]
      BY <1>2, <1>6, <2>2, PostedType DEF CommitCancelPaid
    <2>6. new \in BillRow
      <3>1. paid \in Int
        <4>1. q.billRow.paid \in Int /\ pv.gross \in Nat
          BY <1>2 DEF BillRow, VoucherRow
        <4> QED  BY <4>1
      <3>2. (IF paid <= 0 THEN "APPROVED" ELSE "PARTIAL") \in BillStatus
        BY DEF BillStatus
      <3> HIDE DEF paid
      <3> QED  BY <1>2, <3>1, <3>2, BillUpdateType
    <2>7. Flushed(bills[b], q.billRow, new) \in BillRow
      BY <1>2, <2>6, FlushedBillType
    <2>8. bills' \in [Bill -> BillRow]
      BY <1>2, <1>6, <2>7 DEF CommitCancelPaid
    <2> QED  BY <1>3, <1>4, <1>6, <2>4, <2>5, <2>8 DEF CommitCancelPaid
  <1> QED  BY <1>5, <1>6

LEMMA CommitReverseType == ASSUME IInv, NEW r \in Request, CommitReverse(r) PROVE TypeOK'
  <1> USE DEF IInv, TypeOK
  <1> DEFINE q    == requests[r]
             b    == q.bill
             orig == txns[q.txn]
             left == q.billRow.paid - orig.amount
             paid == IF left < 0 THEN 0 ELSE left
             row  == [orig EXCEPT !.amount = -orig.amount, !.lines = Swapped(orig.lines),
                                  !.reverses = q.txn, !.cancels = 0]
             new  == [q.billRow EXCEPT !.paid = paid,
                        !.status = IF paid = 0 THEN "PENDING" ELSE SettledStatus(b, paid)]
  <1>1. q \in ReverseRequest
    BY RequestByOp DEF CommitReverse
  <1>2. b \in Bill /\ q.billRow \in BillRow /\ q.txn \in Nat
    BY <1>1 DEF ReverseRequest
  <1>3. orig \in TxnRow
    BY DEF Links, RequestLinked, CommitReverse
  <1>4. Swapped(orig.lines) \in Lines
    BY <1>3, SwappedType DEF TxnRow
  <1>5. row \in TxnRow
    BY <1>2, <1>3, UndoneRowType
  <1>6. txns' \in Seq(TxnRow)
    BY <1>5, AppendTxnType DEF CommitReverse
  <1>7. ledger' \in [Bill -> Lines]
    BY <1>2, <1>4, PostedType DEF CommitReverse
  <1>8. new \in BillRow
    <2>1. paid \in Int
      <3>1. q.billRow.paid \in Int /\ orig.amount \in Int
        BY <1>2, <1>3 DEF BillRow, TxnRow
      <3> QED  BY <3>1
    <2>2. (IF paid = 0 THEN "PENDING" ELSE SettledStatus(b, paid)) \in BillStatus
      BY DEF SettledStatus, BillStatus
    <2> HIDE DEF paid
    <2> QED  BY <1>2, <2>1, <2>2, BillUpdateType
  <1>9. bills' \in [Bill -> BillRow]
    <2>1. Flushed(bills[b], q.billRow, new) \in BillRow
      BY <1>2, <1>8, FlushedBillType
    <2> QED  BY <1>2, <2>1 DEF CommitReverse
  <1>10. requests' \in [Request -> RequestState]
    BY DoneType DEF CommitReverse
  <1> QED  BY <1>6, <1>7, <1>9, <1>10 DEF CommitReverse

LEMMA CommitOtherType ==
  ASSUME TypeOK, NEW r \in Request,
         CommitCreateVoucher(r) \/ CommitCreateTDS(r) \/ Abort(r)
  PROVE  TypeOK'
  <1> USE DEF TypeOK
  <1> DEFINE q == requests[r]
  <1>0. requests' \in [Request -> RequestState]
    BY DoneType DEF CommitCreateVoucher, CommitCreateTDS, Abort
  <1>1. CASE CommitCreateVoucher(r)
    <2> DEFINE row == [status |-> "PENDING", gross |-> q.gross, tds |-> q.tds,
                       retention |-> q.retention, txn |-> 0]
    <2>1. q \in CreateVoucherRequest
      BY <1>1, RequestByOp DEF CommitCreateVoucher
    <2>2. q.voucher \in Voucher /\ q.gross \in Nat /\ q.tds \in Nat /\ q.retention \in Nat
      BY <2>1 DEF CreateVoucherRequest
    <2>3. row \in VoucherRow
      BY <2>2 DEF VoucherRow, VoucherStatus
    <2>4. vouchers' = [vouchers EXCEPT ![q.voucher] = row]
      BY <1>1 DEF CommitCreateVoucher
    <2>5. vouchers' \in [Voucher -> VoucherRow]
      BY <2>2, <2>3, <2>4
    <2> QED  BY <1>0, <1>1, <2>5 DEF CommitCreateVoucher
  <1>2. CASE CommitCreateTDS(r)
    <2>1. q \in TDSRequest
      BY <1>2, RequestByOp DEF CommitCreateTDS
    <2>2. q.bill \in Bill /\ q.status \in TDSStatus /\ q.amount \in Nat
      BY <2>1 DEF TDSRequest
    <2>3. tds' \in [Bill -> SUBSET TDSStatus]
      <3>1. tds[q.bill] \cup {q.status} \in SUBSET TDSStatus
        BY <2>2
      <3> QED  BY <1>2, <2>2, <3>1 DEF CommitCreateTDS
    <2>4. ledger' \in [Bill -> Lines]
      <3>1. Posting(-q.amount, 0, q.amount, 0, 0) \in Lines
        <4>1. -q.amount \in Int /\ q.amount \in Int
          BY <2>2
        <4> QED  BY <4>1, PostingType
      <3> QED  BY <1>2, <2>2, <3>1, PostedType DEF CommitCreateTDS
    <2> QED  BY <1>0, <1>2, <2>3, <2>4 DEF CommitCreateTDS
  <1>3. CASE Abort(r)
    BY <1>0, <1>3 DEF Abort
  <1> QED  BY <1>1, <1>2, <1>3

LEMMA StutterType == TypeOK /\ UNCHANGED vars => TypeOK'
  BY DEF TypeOK, vars

LEMMA NextType == IInv /\ [Next]_vars => TypeOK'
  <1> SUFFICES ASSUME IInv, [Next]_vars PROVE TypeOK'
    OBVIOUS
  <1>0. TypeOK
    BY DEF IInv
  <1>1. CASE BillStep
    BY <1>0, <1>1, BillStepType
  <1>2. ASSUME NEW r \in Request, Begin(r) \/ Commit(r) \/ Abort(r) PROVE TypeOK'
    BY <1>0, <1>2, BeginType, CommitMarkPaidType, CommitCancelType, CommitReverseType,
       CommitOtherType DEF Commit
  <1>3. CASE UNCHANGED vars
    BY <1>0, <1>3, StutterType
  <1> QED  BY <1>1, <1>2, <1>3 DEF Next

-----------------------------------------------------------------------------
(* The links. *)

\* The transactions table only grows, by at most one row a step.
Grown == txns' = txns \/ \E row \in TxnRow : txns' = Append(txns, row)

LEMMA GrownLen ==
  ASSUME txns \in Seq(TxnRow), Grown
  PROVE  /\ Len(txns) \in Nat /\ Len(txns') \in Nat /\ Len(txns) <= Len(txns')
         /\ \A i \in 1..Len(txns) : i \in 1..Len(txns') /\ txns'[i] = txns[i]
  BY DEF Grown

LEMMA NextGrown == IInv /\ [Next]_vars => Grown
  <1> SUFFICES ASSUME IInv, [Next]_vars, txns' # txns PROVE Grown
    BY DEF Grown
  <1>1. TypeOK /\ TypeOK'
    BY NextType DEF IInv
  <1>2. \E row : txns' = Append(txns, row)
    <2>1. CASE BillStep
      BY <2>1 DEF BillStep, CreateVendorBill, ApproveVendorBill, RejectVendorBill, PayVendorBill,
         UpdateTDS, DeleteTDS
    <2>2. ASSUME NEW r \in Request, Begin(r) PROVE txns' = txns
      BY <2>2 DEF Begin, BeginCreateVoucher, BeginVoucherOp, BeginReverse, BeginCreateTDS
    <2>3. ASSUME NEW r \in Request, Commit(r) PROVE \E row : txns' = Append(txns, row)
      <3>1. CASE CommitMarkPaid(r) \/ CommitCancelPaid(r) \/ CommitReverse(r)
        BY <3>1 DEF CommitMarkPaid, CommitCancelPaid, CommitReverse
      <3>2. CASE CommitCreateVoucher(r) \/ CommitCancelPending(r) \/ CommitCreateTDS(r)
        BY <3>2 DEF CommitCreateVoucher, CommitCancelPending, CommitCreateTDS
      <3> QED  BY <2>3, <3>1, <3>2 DEF Commit
    <2>4. ASSUME NEW r \in Request, Abort(r) PROVE txns' = txns
      BY <2>4 DEF Abort
    <2> QED  BY <2>1, <2>2, <2>3, <2>4 DEF Next, vars
  <1>3. PICK row : txns' = Append(txns, row)
    BY <1>2
  <1>4. row = txns'[Len(txns')] /\ Len(txns') \in 1..Len(txns')
    BY <1>1, <1>3 DEF TypeOK
  <1>5. row \in TxnRow
    BY <1>1, <1>4 DEF TypeOK
  <1> QED  BY <1>3, <1>5 DEF Grown

LEMMA LinkedMonotone ==
  ASSUME NEW n \in Nat, NEW m \in Nat, n <= m
  PROVE  /\ \A row : VoucherLinked(row, n) => VoucherLinked(row, m)
         /\ \A q : RequestLinked(q, n) => RequestLinked(q, m)
  BY DEF VoucherLinked, RequestLinked

\* What mark_paid leaves in the voucher's row, however stale the row it loaded.
LEMMA MarkPaidFlush ==
  ASSUME TypeOK, NEW r \in Request, CommitMarkPaid(r),
         VoucherLinked(requests[r].voucherRow, Len(txns))
  PROVE  LET q == requests[r]
             pv == q.voucherRow
         IN  /\ q \in VoucherRequest /\ q.voucher \in Voucher
             /\ vouchers' = [vouchers EXCEPT ![q.voucher] = vouchers'[q.voucher]]
             /\ vouchers'[q.voucher].status = "PAID"
             /\ vouchers'[q.voucher].txn = Len(txns) + 1
  <1> USE DEF TypeOK
  <1> DEFINE q  == requests[r]
             pv == q.voucherRow
             newPv == [pv EXCEPT !.status = "PAID", !.txn = Len(txns) + 1]
             row == Flushed(vouchers[q.voucher], pv, newPv)
  <1>1. q \in VoucherRequest
    BY RequestByOp DEF CommitMarkPaid
  <1>2. q.voucher \in Voucher /\ pv \in VoucherRow
    BY <1>1 DEF VoucherRequest
  <1>3. vouchers' = [vouchers EXCEPT ![q.voucher] = row]
    BY <1>2 DEF CommitMarkPaid
  <1>4. vouchers'[q.voucher] = row
    BY <1>2, <1>3
  <1>5. pv.status = "PENDING"
    BY DEF CommitMarkPaid, MayPay
  <1>6. newPv.status = "PAID" /\ newPv.txn = Len(txns) + 1 /\ newPv.txn # pv.txn
    BY <1>2 DEF VoucherLinked, VoucherRow
  <1>7. row.status = "PAID" /\ row.txn = Len(txns) + 1
    <2> HIDE DEF newPv
    <2>1. vouchers[q.voucher] \in VoucherRow
      BY <1>2
    <2>2. "status" \in DOMAIN vouchers[q.voucher] /\ "txn" \in DOMAIN vouchers[q.voucher]
      BY <2>1 DEF VoucherRow
    <2> QED  BY <1>5, <1>6, <2>2 DEF Flushed
  <1> QED  BY <1>1, <1>2, <1>3, <1>4, <1>7

LEMMA LinksNext == IInv /\ [Next]_vars => Links'
  <1> SUFFICES ASSUME IInv, [Next]_vars PROVE Links'
    OBVIOUS
  <1> DEFINE n == Len(txns)
             m == Len(txns')
  <1>1. TypeOK /\ Links /\ Grown
    BY NextGrown DEF IInv
  <1>2. n \in Nat /\ m \in Nat /\ n <= m
    BY <1>1, GrownLen DEF TypeOK
  <1>3. /\ \A v \in Voucher : VoucherLinked(vouchers[v], m)
        /\ \A r \in Request : RequestLinked(requests[r], m)
    BY <1>1, <1>2, LinkedMonotone DEF Links
  <1>4. ASSUME vouchers' = vouchers, requests' = requests PROVE Links'
    BY <1>3, <1>4 DEF Links
  <1>5. CASE BillStep
    BY <1>4, <1>5 DEF BillStep, CreateVendorBill, ApproveVendorBill, RejectVendorBill,
       PayVendorBill, UpdateTDS, DeleteTDS
  <1>6. CASE UNCHANGED vars
    BY <1>4, <1>6 DEF vars
  <1>7. ASSUME NEW r \in Request, Begin(r) PROVE Links'
    <2>1. vouchers' = vouchers /\ txns' = txns
      BY <1>7 DEF Begin, BeginCreateVoucher, BeginVoucherOp, BeginReverse, BeginCreateTDS
    <2>2. \E q : Start(r, q) /\ RequestLinked(q, n)
      <3>1. ASSUME NEW v \in Voucher, NEW gross \in Amount,
                   NEW withheld \in Withheld, NEW retention \in Withheld,
                   BeginCreateVoucher(r, v, gross, withheld, retention)
            PROVE  \E q : Start(r, q) /\ RequestLinked(q, n)
        <4>1. PICK q : Start(r, q) /\ q.op = "create_voucher"
          BY <3>1 DEF BeginCreateVoucher
        <4> QED  BY <4>1 DEF RequestLinked
      <3>2. ASSUME NEW v \in Voucher, NEW op \in {"mark_paid", "cancel"},
                   BeginVoucherOp(r, op, v)
            PROVE  \E q : Start(r, q) /\ RequestLinked(q, n)
        <4>1. PICK q : Start(r, q) /\ q.op = op /\ q.voucherRow = vouchers[v]
          BY <3>2 DEF BeginVoucherOp
        <4>2. VoucherLinked(vouchers[v], n)
          BY <1>1 DEF Links
        <4> QED  BY <4>1, <4>2 DEF RequestLinked
      <3>3. ASSUME NEW t \in 1..n, BeginReverse(r, t)
            PROVE  \E q : Start(r, q) /\ RequestLinked(q, n)
        <4>1. PICK q : Start(r, q) /\ q.op = "reverse" /\ q.txn = t
          BY <3>3 DEF BeginReverse
        <4> QED  BY <4>1 DEF RequestLinked
      <3>4. ASSUME NEW b \in Bill, NEW s \in ManualTDS, NEW amount \in Withheld,
                   BeginCreateTDS(r, b, s, amount)
            PROVE  \E q : Start(r, q) /\ RequestLinked(q, n)
        <4>1. PICK q : Start(r, q) /\ q.op = "create_tds"
          BY <3>4 DEF BeginCreateTDS
        <4> QED  BY <4>1 DEF RequestLinked
      <3> QED  BY <1>7, <3>1, <3>2, <3>3, <3>4 DEF Begin
    <2> QED  BY <1>1, <1>3, <2>1, <2>2 DEF Links, Start, TypeOK
  <1>8. ASSUME NEW r \in Request, Commit(r) \/ Abort(r),
               \A v \in Voucher : VoucherLinked(vouchers'[v], m)
        PROVE  Links'
    <2>1. Done(r)
      BY <1>8 DEF Commit, Abort, CommitCreateVoucher, CommitMarkPaid, CommitCancelPending,
         CommitCancelPaid, CommitReverse, CommitCreateTDS
    <2>2. RequestLinked(Idle, m)
      BY DEF RequestLinked, Idle
    <2> QED  BY <1>1, <1>3, <1>8, <2>1, <2>2 DEF Links, Done, TypeOK
  <1>9. ASSUME NEW r \in Request, Commit(r) \/ Abort(r)
        PROVE  \A v \in Voucher : VoucherLinked(vouchers'[v], m)
    <2>1. CASE vouchers' = vouchers
      BY <1>3, <2>1
    <2>2. CASE CommitCreateVoucher(r)
      BY <1>1, <1>2, <1>3, <2>2 DEF CommitCreateVoucher, VoucherLinked, TypeOK
    <2>3. CASE CommitMarkPaid(r)
      <3>1. VoucherLinked(requests[r].voucherRow, n)
        BY <1>1, <2>3 DEF Links, RequestLinked, CommitMarkPaid
      <3>2. m = n + 1
        BY <1>1, <2>3 DEF CommitMarkPaid, TypeOK
      <3>3. VoucherLinked(vouchers'[requests[r].voucher], m)
        BY <1>1, <1>2, <2>3, <3>1, <3>2, MarkPaidFlush DEF VoucherLinked
      <3>4. PICK w \in Voucher : /\ w = requests[r].voucher
                                 /\ vouchers' = [vouchers EXCEPT ![w] = vouchers'[w]]
        BY <1>1, <2>3, <3>1, MarkPaidFlush
      <3> DEFINE row == vouchers'[w]
      <3>5. vouchers' = [vouchers EXCEPT ![w] = row] /\ VoucherLinked(row, m)
        BY <3>3, <3>4
      <3> HIDE DEF row
      <3> QED  BY <1>1, <1>3, <3>5 DEF TypeOK
    <2>4. CASE CommitCancelPending(r) \/ CommitCancelPaid(r)
      <3>1. requests[r] \in VoucherRequest
        BY <1>1, <2>4, RequestByOp DEF CommitCancelPending, CommitCancelPaid, TypeOK
      <3> DEFINE w == requests[r].voucher
                 row == [vouchers[w] EXCEPT !.status = "CANCELLED"]
      <3>2. w \in Voucher /\ vouchers[w] \in VoucherRow
        BY <1>1, <3>1 DEF VoucherRequest, TypeOK
      <3>3. vouchers' = [vouchers EXCEPT ![w] = row]
        BY <2>4 DEF CommitCancelPending, CommitCancelPaid
      <3>4. VoucherLinked(row, m)
        <4>1. VoucherLinked(vouchers[w], m)
          BY <1>3, <3>2
        <4>2. row.status = "CANCELLED" /\ row.txn = vouchers[w].txn
          BY <3>2 DEF VoucherRow
        <4> QED  BY <4>1, <4>2 DEF VoucherLinked
      <3> QED  BY <1>1, <1>3, <3>2, <3>3, <3>4 DEF TypeOK
    <2> QED  BY <1>9, <2>1, <2>2, <2>3, <2>4 DEF Commit, CommitReverse, CommitCreateTDS, Abort
  <1> QED  BY <1>5, <1>6, <1>7, <1>8, <1>9 DEF Next

LEMMA InitLinks == Init => Links
  BY DEF Init, Links, VoucherLinked, RequestLinked, Idle

THEOREM InductiveInvariant == Spec => []IInv
  <1>1. Init => IInv
    BY InitType, InitLinks DEF IInv
  <1>2. IInv /\ [Next]_vars => IInv'
    BY NextType, LinksNext DEF IInv
  <1> QED  BY <1>1, <1>2, PTL DEF Spec

\* Every row and every request in progress keeps its type.
THEOREM TypeCorrect == Spec => []TypeOK
  <1>1. IInv => TypeOK
    BY DEF IInv
  <1> QED  BY <1>1, InductiveInvariant, PTL

-----------------------------------------------------------------------------
(* The cost of a bill is recognised once. *)

\* Only the accrual touches the expense account: no payment journal does.
NoExpenseInPayments == \A i \in 1..Len(txns) : txns[i].lines["expense"] = 0
ExpenseInv == IInv /\ NoExpenseInPayments /\ ExpenseRecognisedOnce

LEMMA PostedAt ==
  ASSUME ledger \in [Bill -> Lines], NEW b \in Bill, NEW lines \in Lines,
         NEW x \in Bill, NEW a \in Accounts
  PROVE  Posted(b, lines)[x][a] = IF x = b THEN ledger[b][a] + lines[a] ELSE ledger[x][a]
  BY DEF Posted, Lines

\* A flush keeps what the handler did not change.
LEMMA FlushKeepsAccrued ==
  ASSUME NEW cur \in BillRow, NEW old \in BillRow, NEW new, new.accrued = old.accrued
  PROVE  Flushed(cur, old, new).accrued = cur.accrued
  BY DEF Flushed, BillRow

\* The commits of the two-step handlers leave accrued_journal_id alone, and post
\* lines without expense or none.
LEMMA CommitExpense ==
  ASSUME ExpenseInv, NEW r \in Request, Commit(r) \/ Abort(r)
  PROVE  /\ NoExpenseInPayments'
         /\ \A b \in Bill : /\ bills'[b].accrued = bills[b].accrued
                            /\ ledger'[b]["expense"] = ledger[b]["expense"]
  <1> USE DEF ExpenseInv, IInv, TypeOK
  <1> DEFINE q == requests[r]
             Goal == /\ NoExpenseInPayments'
                     /\ \A b \in Bill : /\ bills'[b].accrued = bills[b].accrued
                                        /\ ledger'[b]["expense"] = ledger[b]["expense"]
  \* A commit that posts lines without expense to bill b, appends a row with
  \* those lines and flushes the bill it loaded.
  <1>1. ASSUME NEW b \in Bill, NEW lines \in Lines, lines["expense"] = 0,
               ledger' = Posted(b, lines),
               NEW row \in TxnRow, txns' = Append(txns, row), row.lines = lines,
               NEW old \in BillRow, NEW paid, NEW status,
               bills' = [bills EXCEPT ![b] = Flushed(bills[b], old,
                           [old EXCEPT !.paid = paid, !.status = status])]
        PROVE  Goal
    <2>1. NoExpenseInPayments'
      BY <1>1 DEF NoExpenseInPayments
    <2>2. \A x \in Bill : bills'[x].accrued = bills[x].accrued
      <3> DEFINE new == Flushed(bills[b], old, [old EXCEPT !.paid = paid, !.status = status])
      <3>0. bills[b] \in BillRow /\ [old EXCEPT !.paid = paid, !.status = status].accrued = old.accrued
        BY DEF BillRow
      <3>1. new.accrued = bills[b].accrued
        BY <3>0, FlushKeepsAccrued
      <3>2. bills' = [bills EXCEPT ![b] = new]
        BY <1>1
      <3> HIDE DEF new
      <3> QED  BY <3>1, <3>2
    <2>3. ASSUME NEW x \in Bill PROVE ledger'[x]["expense"] = ledger[x]["expense"]
      <3>1. "expense" \in Accounts /\ ledger[x]["expense"] \in Int
        BY DEF Accounts, Lines
      <3> QED  BY <1>1, <3>1, PostedAt
    <2> QED  BY <2>1, <2>2, <2>3
  <1>2. CASE CommitMarkPaid(r)
    <2> DEFINE pv    == q.voucherRow
               b     == q.bill
               paid  == q.billRow.paid + pv.gross
               net   == pv.gross - pv.tds - pv.retention
               lines == Posting(-pv.gross, net, pv.tds, pv.retention, 0)
               row   == [bill |-> b, origin |-> "voucher", amount |-> net,
                         lines |-> lines, reverses |-> 0, cancels |-> 0]
    <2>1. q \in VoucherRequest
      BY <1>2, RequestByOp DEF CommitMarkPaid
    <2>2. b \in Bill /\ q.billRow \in BillRow /\ pv \in VoucherRow
      BY <2>1 DEF VoucherRequest
    <2>3. pv.gross \in Nat /\ pv.tds \in Nat /\ pv.retention \in Nat
      BY <2>2 DEF VoucherRow
    <2>4. net \in Int /\ -pv.gross \in Int
      <3> HIDE DEF ExpenseInv, IInv, TypeOK, q, pv
      <3> QED  BY <2>3
    <2>5. lines \in Lines
      <3> HIDE DEF ExpenseInv, IInv, TypeOK, q, pv, net
      <3>1. pv.tds \in Int /\ pv.retention \in Int /\ 0 \in Int
        BY <2>3
      <3> QED  BY <2>4, <3>1, PostingType
    <2>6. row \in TxnRow
      BY <2>2, <2>4, <2>5 DEF TxnRow
    <2>7. lines["expense"] = 0
      BY DEF Posting
    <2>8. /\ ledger' = Posted(b, lines) /\ txns' = Append(txns, row)
          /\ bills' = [bills EXCEPT ![b] = Flushed(bills[b], q.billRow,
                [q.billRow EXCEPT !.paid = paid, !.status = SettledStatus(b, paid)])]
      BY <1>2, <2>2 DEF CommitMarkPaid
    <2>9. row.lines = lines
      OBVIOUS
    <2> HIDE DEF row, lines, paid
    <2> QED  BY <1>1, <2>2, <2>5, <2>6, <2>7, <2>8, <2>9
  \* What cancel and reverse-payment append swaps lines that had no expense.
  <1>3. ASSUME NEW k \in 1..Len(txns)
        PROVE  Swapped(txns[k].lines) \in Lines /\ Swapped(txns[k].lines)["expense"] = 0
    <2>1. txns[k] \in TxnRow
      OBVIOUS
    <2>2. txns[k].lines \in Lines /\ txns[k].lines["expense"] = 0
      BY <2>1 DEF TxnRow, NoExpenseInPayments
    <2> QED  BY <2>2, SwappedType DEF Swapped, Accounts
  <1>4. CASE CommitCancelPaid(r)
    <2> DEFINE pv   == q.voucherRow
               b    == q.bill
               orig == txns[pv.txn]
               paid == q.billRow.paid - pv.gross
               status == IF paid <= 0 THEN "APPROVED" ELSE "PARTIAL"
               row  == [orig EXCEPT !.amount = -orig.amount,
                                    !.lines = Swapped(orig.lines), !.cancels = pv.txn]
    <2>1. q \in VoucherRequest
      BY <1>4, RequestByOp DEF CommitCancelPaid
    <2>2. b \in Bill /\ q.billRow \in BillRow /\ pv \in VoucherRow /\ pv.txn \in Nat
      BY <2>1 DEF VoucherRequest, VoucherRow
    <2>3. pv.txn \in 1..Len(txns)
      <3>1. VoucherLinked(pv, Len(txns)) /\ pv.status = "PAID"
        BY <1>4 DEF Links, RequestLinked, CommitCancelPaid
      <3> QED  BY <2>2, <3>1 DEF VoucherLinked
    <2>4. orig \in TxnRow
      BY <2>3
    <2>5. row \in TxnRow /\ row.lines = Swapped(orig.lines)
      BY <2>2, <2>4, UndoneRowType DEF TxnRow
    <2>6. /\ ledger' = Posted(b, Swapped(orig.lines)) /\ txns' = Append(txns, row)
          /\ bills' = [bills EXCEPT ![b] = Flushed(bills[b], q.billRow,
                [q.billRow EXCEPT !.paid = paid, !.status = status])]
      BY <1>4, <2>2 DEF CommitCancelPaid
    <2>7. Swapped(orig.lines) \in Lines /\ Swapped(orig.lines)["expense"] = 0
      BY <1>3, <2>3
    <2> HIDE DEF row, paid, status
    <2> QED  BY <1>1, <2>2, <2>5, <2>6, <2>7
  <1>5. CASE CommitReverse(r)
    <2> DEFINE b    == q.bill
               orig == txns[q.txn]
               left == q.billRow.paid - orig.amount
               paid == IF left < 0 THEN 0 ELSE left
               status == IF paid = 0 THEN "PENDING" ELSE SettledStatus(b, paid)
               row  == [orig EXCEPT !.amount = -orig.amount, !.lines = Swapped(orig.lines),
                                    !.reverses = q.txn, !.cancels = 0]
    <2>1. q \in ReverseRequest
      BY <1>5, RequestByOp DEF CommitReverse
    <2>2. b \in Bill /\ q.billRow \in BillRow /\ q.txn \in Nat
      BY <2>1 DEF ReverseRequest
    <2>3. q.txn \in 1..Len(txns)
      BY <1>5 DEF Links, RequestLinked, CommitReverse
    <2>4. orig \in TxnRow
      BY <2>3
    <2>5. row \in TxnRow /\ row.lines = Swapped(orig.lines)
      BY <2>2, <2>4, UndoneRowType DEF TxnRow
    <2>6. /\ ledger' = Posted(b, Swapped(orig.lines)) /\ txns' = Append(txns, row)
          /\ bills' = [bills EXCEPT ![b] = Flushed(bills[b], q.billRow,
                [q.billRow EXCEPT !.paid = paid, !.status = status])]
      BY <1>5, <2>2 DEF CommitReverse
    <2>7. Swapped(orig.lines) \in Lines /\ Swapped(orig.lines)["expense"] = 0
      BY <1>3, <2>3
    <2> HIDE DEF row, paid, status
    <2> QED  BY <1>1, <2>2, <2>5, <2>6, <2>7
  <1>6. CASE CommitCreateTDS(r)
    <2>1. q \in TDSRequest
      BY <1>6, RequestByOp DEF CommitCreateTDS
    <2>2. q.bill \in Bill /\ q.amount \in Nat
      BY <2>1 DEF TDSRequest
    <2> DEFINE lines == Posting(-q.amount, 0, q.amount, 0, 0)
    <2>3. lines \in Lines /\ lines["expense"] = 0
      <3>1. -q.amount \in Int /\ q.amount \in Int
        BY <2>2
      <3> QED  BY <3>1, PostingType DEF Posting
    <2>4. ledger' = Posted(q.bill, lines) \/ ledger' = ledger
      BY <1>6 DEF CommitCreateTDS
    <2>5. ASSUME NEW x \in Bill PROVE ledger'[x]["expense"] = ledger[x]["expense"]
      <3>1. "expense" \in Accounts /\ ledger[x]["expense"] \in Int
        BY DEF Accounts, Lines
      <3> HIDE DEF lines
      <3> QED  BY <2>2, <2>3, <2>4, <3>1, PostedAt
    <2> QED  BY <1>6, <2>5 DEF CommitCreateTDS, NoExpenseInPayments
  <1>7. CASE UNCHANGED <<bills, txns, ledger>>
    BY <1>7 DEF NoExpenseInPayments
  <1> QED  BY <1>2, <1>4, <1>5, <1>6, <1>7 DEF Commit, Abort, CommitCreateVoucher,
              CommitCancelPending

LEMMA BillStepExpense ==
  ASSUME ExpenseInv, BillStep
  PROVE  NoExpenseInPayments' /\ ExpenseRecognisedOnce'
  <1> USE DEF ExpenseInv, IInv, TypeOK
  <1>1. ASSUME NEW b \in Bill, CreateVendorBill(b) \/ RejectVendorBill(b) \/ DeleteTDS(b)
                                \/ (\E s \in ManualTDS : UpdateTDS(b, s))
        PROVE  NoExpenseInPayments' /\ ExpenseRecognisedOnce'
    <2>1. ledger' = ledger /\ txns' = txns
      BY <1>1 DEF CreateVendorBill, RejectVendorBill, DeleteTDS, UpdateTDS
    <2>2. \A x \in Bill : bills'[x].accrued = bills[x].accrued
      <3>1. CASE bills' = bills
        BY <3>1
      <3>2. CASE CreateVendorBill(b) \/ RejectVendorBill(b)
        <4>1. PICK status : bills' = [bills EXCEPT ![b] = [bills[b] EXCEPT !.status = status]]
          BY <3>2 DEF CreateVendorBill, RejectVendorBill
        <4> DEFINE new == [bills[b] EXCEPT !.status = status]
        <4>2. new.accrued = bills[b].accrued
          BY DEF BillRow
        <4> HIDE DEF new
        <4> QED  BY <4>1, <4>2 DEF new
      <3> QED  BY <1>1, <3>1, <3>2 DEF DeleteTDS, UpdateTDS
    <2> QED  BY <2>1, <2>2 DEF NoExpenseInPayments, ExpenseRecognisedOnce
  <1>2. ASSUME NEW b \in Bill, ApproveVendorBill(b)
        PROVE  NoExpenseInPayments' /\ ExpenseRecognisedOnce'
    <2> DEFINE lines == Posting(Total[b], 0, 0, 0, -Total[b])
    <2>0. Total[b] \in Int /\ -Total[b] \in Int
      OBVIOUS
    <2>1. lines \in Lines /\ lines["expense"] = -Total[b]
      BY <2>0, PostingType DEF Posting
    <2>2. \A x \in Bill : bills'[x].accrued = IF x = b THEN TRUE ELSE bills[x].accrued
      BY <1>2 DEF ApproveVendorBill, BillRow
    <2>3. ledger' = IF bills[b].accrued THEN ledger ELSE Posted(b, lines)
      BY <1>2 DEF ApproveVendorBill, AccrualDue, BillRow
    <2>4. ASSUME NEW x \in Bill
          PROVE  ledger'[x]["expense"] = IF bills'[x].accrued THEN -Total[x] ELSE 0
      <3>1. "expense" \in Accounts /\ ledger[x]["expense"] \in Int
        BY DEF Accounts, Lines
      <3>2. ledger[x]["expense"] = IF bills[x].accrued THEN -Total[x] ELSE 0
        BY DEF ExpenseRecognisedOnce
      <3>3. Posted(b, lines)[x]["expense"] =
              IF x = b THEN ledger[b]["expense"] + lines["expense"] ELSE ledger[x]["expense"]
        BY <2>1, <3>1, PostedAt
      <3> HIDE DEF lines
      <3>4. CASE x = b /\ ~bills[b].accrued
        <4>1. ledger' = Posted(b, lines) /\ bills'[x].accrued
          BY <2>2, <2>3, <3>4
        <4>2. ledger[b]["expense"] = 0
          BY <3>2, <3>4
        <4>3. ledger'[x]["expense"] = 0 + -Total[b]
          BY <2>1, <3>3, <3>4, <4>1, <4>2
        <4> QED  BY <2>0, <3>4, <4>1, <4>3
      <3>5. CASE ~(x = b /\ ~bills[b].accrued)
        BY <2>2, <2>3, <3>2, <3>3, <3>5
      <3> QED  BY <3>4, <3>5
    <2> QED  BY <1>2, <2>4 DEF ApproveVendorBill, NoExpenseInPayments, ExpenseRecognisedOnce
  <1>3. ASSUME NEW b \in Bill, NEW amount \in Amount, PayVendorBill(b, amount)
        PROVE  NoExpenseInPayments' /\ ExpenseRecognisedOnce'
    <2> DEFINE lines == Posting(-amount, amount, 0, 0, 0)
               row == [bill |-> b, origin |-> "direct", amount |-> amount,
                       lines |-> lines, reverses |-> 0, cancels |-> 0]
    <2>0. amount \in Int /\ -amount \in Int
      OBVIOUS
    <2>1. lines \in Lines /\ lines["expense"] = 0
      BY <2>0, PostingType DEF Posting
    <2>2. \A x \in Bill : bills'[x].accrued = bills[x].accrued
      BY <1>3 DEF PayVendorBill, BillRow
    <2>3. ledger' = Posted(b, lines) /\ txns' = Append(txns, row)
      BY <1>3 DEF PayVendorBill
    <2>4. row.lines = lines
      OBVIOUS
    <2>5. ASSUME NEW x \in Bill PROVE ledger'[x]["expense"] = ledger[x]["expense"]
      <3>1. "expense" \in Accounts /\ ledger[x]["expense"] \in Int
        BY DEF Accounts, Lines
      <3> HIDE DEF lines
      <3> QED  BY <2>1, <2>3, <3>1, PostedAt
    <2> HIDE DEF row, lines
    <2>6. NoExpenseInPayments'
      BY <2>1, <2>3, <2>4 DEF NoExpenseInPayments
    <2>7. ExpenseRecognisedOnce'
      BY <2>2, <2>5 DEF ExpenseRecognisedOnce
    <2> QED  BY <2>6, <2>7
  <1> QED  BY <1>1, <1>2, <1>3 DEF BillStep

\* However approvals, payments, cancellations and reversals overlap, the ledger
\* carries the cost of a bill exactly once it has its accrual journal.
THEOREM ExpenseOnce == Spec => []ExpenseRecognisedOnce
  <1>1. Init => ExpenseInv
    <2>1. Init => IInv
      BY InitType, InitLinks DEF IInv
    <2>2. Init => NoExpenseInPayments /\ ExpenseRecognisedOnce
      BY DEF Init, NoExpenseInPayments, ExpenseRecognisedOnce, Accounts
    <2> QED  BY <2>1, <2>2 DEF ExpenseInv
  <1>2. ExpenseInv /\ [Next]_vars => ExpenseInv'
    <2> SUFFICES ASSUME ExpenseInv, [Next]_vars PROVE ExpenseInv'
      OBVIOUS
    <2>0. IInv'
      BY NextType, LinksNext DEF IInv, ExpenseInv
    <2>1. CASE BillStep
      BY <2>0, <2>1, BillStepExpense DEF ExpenseInv
    <2>2. ASSUME NEW r \in Request, Begin(r) PROVE ExpenseInv'
      <3>1. UNCHANGED <<bills, txns, ledger>>
        BY <2>2 DEF Begin, BeginCreateVoucher, BeginVoucherOp, BeginReverse, BeginCreateTDS
      <3> QED  BY <2>0, <3>1 DEF ExpenseInv, NoExpenseInPayments, ExpenseRecognisedOnce
    <2>3. ASSUME NEW r \in Request, Commit(r) \/ Abort(r) PROVE ExpenseInv'
      BY <2>0, <2>3, CommitExpense DEF ExpenseInv, ExpenseRecognisedOnce
    <2>4. CASE UNCHANGED vars
      BY <2>0, <2>4 DEF ExpenseInv, NoExpenseInPayments, ExpenseRecognisedOnce, vars
    <2> QED  BY <2>1, <2>2, <2>3, <2>4 DEF Next
  <1>3. ExpenseInv => ExpenseRecognisedOnce
    BY DEF ExpenseInv
  <1> QED  BY <1>1, <1>2, <1>3, PTL DEF Spec

-----------------------------------------------------------------------------
(* Vouchers, requests and the transactions they name are of one bill. *)

OfBill(t, b, table) == t # 0 => table[t].bill = b
RequestOfBill(q, table) ==
    /\ q.op \in {"create_voucher", "mark_paid", "cancel"} => q.bill = BillOf[q.voucher]
    /\ q.op \in {"mark_paid", "cancel"} => OfBill(q.voucherRow.txn, q.bill, table)
    /\ q.op = "reverse" => table[q.txn].bill = q.bill
BillLinks ==
    /\ \A v \in Voucher : OfBill(vouchers[v].txn, BillOf[v], txns)
    /\ \A r \in Request : RequestOfBill(requests[r], txns)

\* A step that books a row: appended to the table, its lines posted to its bill.
Booked(row) ==
    /\ row \in TxnRow
    /\ txns' = Append(txns, row)
    /\ ledger' = Posted(row.bill, row.lines)

LEMMA MarkPaidBooks ==
  ASSUME IInv, NEW r \in Request, CommitMarkPaid(r)
  PROVE  LET q == requests[r]
             pv == q.voucherRow
             net == pv.gross - pv.tds - pv.retention
         IN  \E row : /\ Booked(row)
                      /\ row.bill = q.bill /\ row.origin = "voucher" /\ row.amount = net
                      /\ row.lines = Posting(-pv.gross, net, pv.tds, pv.retention, 0)
                      /\ row.reverses = 0 /\ row.cancels = 0
<1> USE DEF IInv, TypeOK
<1> DEFINE q     == requests[r]
           pv    == q.voucherRow
           net   == pv.gross - pv.tds - pv.retention
           lines == Posting(-pv.gross, net, pv.tds, pv.retention, 0)
           row   == [bill |-> q.bill, origin |-> "voucher", amount |-> net,
                     lines |-> lines, reverses |-> 0, cancels |-> 0]
<1>1. q \in VoucherRequest
  BY RequestByOp DEF CommitMarkPaid
<1>2. q.bill \in Bill /\ pv \in VoucherRow
  BY <1>1 DEF VoucherRequest
<1>3. pv.gross \in Nat /\ pv.tds \in Nat /\ pv.retention \in Nat
  BY <1>2 DEF VoucherRow
<1>4. lines \in Lines /\ net \in Int
  <2> HIDE DEF IInv, TypeOK, q, pv
  <2>1. /\ -pv.gross \in Int /\ net \in Int /\ pv.tds \in Int
        /\ pv.retention \in Int /\ 0 \in Int
    BY <1>3
  <2> QED BY <2>1, PostingType
<1>5. row \in TxnRow
  BY <1>2, <1>4 DEF TxnRow
<1>6. txns' = Append(txns, row) /\ ledger' = Posted(row.bill, row.lines)
  BY DEF CommitMarkPaid
<1>7. /\ row.bill = q.bill /\ row.origin = "voucher" /\ row.amount = net
      /\ row.lines = lines /\ row.reverses = 0 /\ row.cancels = 0
  OBVIOUS
<1> HIDE DEF row, lines, net
<1> QED BY <1>5, <1>6, <1>7 DEF Booked, lines, net

\* What a row that takes back orig says.
TakenBack(row, orig) ==
    /\ row.bill = orig.bill /\ row.origin = orig.origin
    /\ row.amount = -orig.amount /\ row.lines = Swapped(orig.lines)

LEMMA UndoneRow ==
  ASSUME NEW orig \in TxnRow, NEW k
  PROVE  /\ LET row == [orig EXCEPT !.amount = -orig.amount, !.lines = Swapped(orig.lines),
                                    !.cancels = k]
            IN  TakenBack(row, orig) /\ row.reverses = orig.reverses /\ row.cancels = k
         /\ LET row == [orig EXCEPT !.amount = -orig.amount, !.lines = Swapped(orig.lines),
                                    !.reverses = k, !.cancels = 0]
            IN  TakenBack(row, orig) /\ row.reverses = k /\ row.cancels = 0
BY DEF TxnRow, TakenBack

LEMMA CancelPaidBooks ==
  ASSUME IInv, BillLinks, NEW r \in Request, CommitCancelPaid(r)
  PROVE  LET t == requests[r].voucherRow.txn
         IN  /\ t \in 1..Len(txns) /\ txns[t].bill = requests[r].bill
             /\ \E row : /\ Booked(row) /\ TakenBack(row, txns[t])
                         /\ row.reverses = txns[t].reverses /\ row.cancels = t
<1> USE DEF IInv, TypeOK
<1> DEFINE q    == requests[r]
           pv   == q.voucherRow
           orig == txns[pv.txn]
           row  == [orig EXCEPT !.amount = -orig.amount, !.lines = Swapped(orig.lines),
                                !.cancels = pv.txn]
<1>1. q \in VoucherRequest /\ q.op = "cancel"
  BY RequestByOp DEF CommitCancelPaid
<1>2. pv \in VoucherRow /\ pv.txn \in Nat
  BY <1>1 DEF VoucherRequest, VoucherRow
<1>3. pv.txn \in 1..Len(txns)
  <2>1. VoucherLinked(pv, Len(txns)) /\ pv.status = "PAID"
    BY <1>1 DEF Links, RequestLinked, CommitCancelPaid
  <2> QED BY <1>2, <2>1 DEF VoucherLinked
<1>4. orig \in TxnRow
  BY <1>3
<1>5. orig.bill = q.bill
  <2>1. RequestOfBill(q, txns)
    BY DEF BillLinks
  <2>2. OfBill(pv.txn, q.bill, txns) /\ pv.txn # 0
    BY <1>1, <1>3, <2>1 DEF RequestOfBill
  <2> QED BY <2>2 DEF OfBill
<1>6. row \in TxnRow /\ TakenBack(row, orig) /\ row.reverses = orig.reverses /\ row.cancels = pv.txn
  BY <1>2, <1>4, UndoneRowType, UndoneRow
<1>7. txns' = Append(txns, row) /\ ledger' = Posted(q.bill, Swapped(orig.lines))
  BY DEF CommitCancelPaid
<1>8. Booked(row)
  <2> HIDE DEF row, orig, q, pv, IInv, TypeOK
  <2> QED BY <1>5, <1>6, <1>7 DEF Booked, TakenBack
<1> HIDE DEF row, IInv, TypeOK
<1> QED BY <1>3, <1>5, <1>6, <1>8

LEMMA ReverseBooks ==
  ASSUME IInv, BillLinks, NEW r \in Request, CommitReverse(r)
  PROVE  LET t == requests[r].txn
         IN  /\ t \in 1..Len(txns) /\ txns[t].bill = requests[r].bill
             /\ \E row : /\ Booked(row) /\ TakenBack(row, txns[t])
                         /\ row.reverses = t /\ row.cancels = 0
<1> USE DEF IInv, TypeOK
<1> DEFINE q    == requests[r]
           orig == txns[q.txn]
           row  == [orig EXCEPT !.amount = -orig.amount, !.lines = Swapped(orig.lines),
                                !.reverses = q.txn, !.cancels = 0]
<1>1. q \in ReverseRequest /\ q.op = "reverse"
  BY RequestByOp DEF CommitReverse
<1>2. q.txn \in Nat /\ q.txn \in 1..Len(txns)
  BY <1>1 DEF ReverseRequest, Links, RequestLinked
<1>3. orig \in TxnRow
  BY <1>2
<1>4. orig.bill = q.bill
  BY <1>1 DEF BillLinks, RequestOfBill
<1>5. row \in TxnRow /\ TakenBack(row, orig) /\ row.reverses = q.txn /\ row.cancels = 0
  BY ZenonT(60), <1>2, <1>3, UndoneRowType, UndoneRow
<1>6. txns' = Append(txns, row) /\ ledger' = Posted(q.bill, Swapped(orig.lines))
  BY DEF CommitReverse
<1>7. Booked(row)
  <2> HIDE DEF row, orig, q, IInv, TypeOK
  <2> QED BY <1>4, <1>5, <1>6 DEF Booked, TakenBack
<1> HIDE DEF row, IInv, TypeOK
<1> QED BY <1>2, <1>4, <1>5, <1>7

LEMMA PayBooks ==
  ASSUME IInv, NEW b \in Bill, NEW amount \in Amount, PayVendorBill(b, amount)
  PROVE  \E row : /\ Booked(row)
                  /\ row.bill = b /\ row.origin = "direct" /\ row.amount = amount
                  /\ row.lines = Posting(-amount, amount, 0, 0, 0)
                  /\ row.reverses = 0 /\ row.cancels = 0
<1> DEFINE lines == Posting(-amount, amount, 0, 0, 0)
           row == [bill |-> b, origin |-> "direct", amount |-> amount,
                   lines |-> lines, reverses |-> 0, cancels |-> 0]
<1>1. amount \in Int /\ -amount \in Int
  OBVIOUS
<1>2. lines \in Lines
  BY <1>1, PostingType
<1>3. row \in TxnRow
  BY <1>1, <1>2 DEF TxnRow
<1>4. txns' = Append(txns, row) /\ ledger' = Posted(row.bill, row.lines)
  BY DEF PayVendorBill
<1>5. /\ row.bill = b /\ row.origin = "direct" /\ row.amount = amount
      /\ row.lines = lines /\ row.reverses = 0 /\ row.cancels = 0
  OBVIOUS
<1> HIDE DEF row, lines
<1> QED BY <1>3, <1>4, <1>5 DEF Booked, lines

\* Every other step leaves the transactions table alone.
BooksNothing == txns' = txns
LEMMA OtherSteps ==
  ASSUME [Next]_vars
  PROVE  \/ BooksNothing
         \/ \E b \in Bill, amount \in Amount : PayVendorBill(b, amount)
         \/ \E r \in Request : CommitMarkPaid(r) \/ CommitCancelPaid(r) \/ CommitReverse(r)
<1> USE DEF BooksNothing
<1>1. CASE BillStep
  BY <1>1 DEF BillStep, CreateVendorBill, ApproveVendorBill, RejectVendorBill, UpdateTDS, DeleteTDS
<1>2. ASSUME NEW r \in Request, Begin(r) PROVE txns' = txns
  BY <1>2 DEF Begin, BeginCreateVoucher, BeginVoucherOp, BeginReverse, BeginCreateTDS
<1>3. ASSUME NEW r \in Request, Commit(r)
      PROVE  txns' = txns \/ CommitMarkPaid(r) \/ CommitCancelPaid(r) \/ CommitReverse(r)
  BY <1>3 DEF Commit, CommitCreateVoucher, CommitCancelPending, CommitCreateTDS
<1>4. ASSUME NEW r \in Request, Abort(r) PROVE txns' = txns
  BY <1>4 DEF Abort
<1>5. CASE UNCHANGED vars
  BY <1>5 DEF vars
<1> QED BY <1>1, <1>2, <1>3, <1>4, <1>5 DEF Next

LEMMA InitBillLinks == Init => BillLinks
BY DEF Init, BillLinks, OfBill, RequestOfBill, Idle

\* A transaction keeps its bill.
LEMMA OfBillKept ==
  ASSUME IInv, Grown, NEW t \in 0..Len(txns), NEW b, OfBill(t, b, txns)
  PROVE  OfBill(t, b, txns')
<1>1. Len(txns) \in Nat /\ \A i \in 1..Len(txns) : txns'[i] = txns[i]
  BY GrownLen DEF IInv, TypeOK
<1> QED BY <1>1 DEF OfBill

LEMMA RequestOfBillKept ==
  ASSUME IInv, Grown, NEW r \in Request, RequestOfBill(requests[r], txns)
  PROVE  RequestOfBill(requests[r], txns')
<1> DEFINE q == requests[r]
<1>1. Len(txns) \in Nat /\ \A i \in 1..Len(txns) : txns'[i] = txns[i]
  BY GrownLen DEF IInv, TypeOK
<1>2. RequestLinked(q, Len(txns)) /\ RequestOfBill(q, txns)
  BY DEF IInv, Links
<1> HIDE DEF q
<1>3. ASSUME q.op \in {"mark_paid", "cancel"}
      PROVE  OfBill(q.voucherRow.txn, q.bill, txns')
  <2>1. q.voucherRow.txn \in 0..Len(txns)
    BY <1>2, <1>3 DEF RequestLinked, VoucherLinked
  <2>2. OfBill(q.voucherRow.txn, q.bill, txns)
    BY <1>2, <1>3 DEF RequestOfBill
  <2> QED BY <2>1, <2>2, OfBillKept
<1>4. ASSUME q.op = "reverse" PROVE txns'[q.txn].bill = q.bill
  <2>1. q.txn \in 1..Len(txns) /\ txns[q.txn].bill = q.bill
    BY <1>2, <1>4 DEF RequestLinked, RequestOfBill
  <2> QED BY <1>1, <2>1
<1>5. RequestOfBill(q, txns')
  BY <1>2, <1>3, <1>4 DEF RequestOfBill
<1> QED BY <1>5 DEF q

LEMMA BeginBillLinks ==
  ASSUME IInv, BillLinks, NEW r \in Request, Begin(r), NEW s \in Request
  PROVE  RequestOfBill(requests'[s], txns)
<1> USE DEF IInv, TypeOK
<1>1. CASE s # r
  <2>1. requests'[s] = requests[s]
    BY <1>1 DEF Begin, BeginCreateVoucher, BeginVoucherOp, BeginReverse, BeginCreateTDS, Start
  <2> QED BY <2>1 DEF BillLinks
<1>2. ASSUME s = r, NEW v \in Voucher, NEW gross \in Amount,
             NEW withheld \in Withheld, NEW retention \in Withheld,
             BeginCreateVoucher(r, v, gross, withheld, retention)
      PROVE  RequestOfBill(requests'[s], txns)
  BY <1>2 DEF BeginCreateVoucher, Start, RequestOfBill
<1>3. ASSUME s = r, NEW v \in Voucher, NEW op \in {"mark_paid", "cancel"}, BeginVoucherOp(r, op, v)
      PROVE  RequestOfBill(requests'[s], txns)
  <2> DEFINE q == [op |-> op, bill |-> BillOf[v], voucher |-> v, billRow |-> bills[BillOf[v]],
                   voucherRow |-> vouchers[v], tdsRows |-> tds[BillOf[v]]]
  <2>1. requests'[s] = q
    BY <1>3 DEF BeginVoucherOp, Start
  <2>3. q.op = op /\ q.bill = BillOf[v] /\ q.voucher = v /\ q.voucherRow = vouchers[v]
    OBVIOUS
  <2> HIDE DEF q
  <2>2. OfBill(vouchers[v].txn, BillOf[v], txns)
    BY DEF BillLinks
  <2> QED BY <2>1, <2>2, <2>3 DEF RequestOfBill
<1>4. ASSUME s = r, NEW t \in 1..Len(txns), BeginReverse(r, t) PROVE RequestOfBill(requests'[s], txns)
  BY <1>4 DEF BeginReverse, Start, RequestOfBill
<1>5. ASSUME s = r, NEW b \in Bill, NEW st \in ManualTDS, NEW amount \in Withheld,
             BeginCreateTDS(r, b, st, amount)
      PROVE  RequestOfBill(requests'[s], txns)
  BY <1>5 DEF BeginCreateTDS, Start, RequestOfBill
<1> QED BY <1>1, <1>2, <1>3, <1>4, <1>5 DEF Begin

\* How a step changes the vouchers: not at all, or one row.
VoucherStep(r, v, row) ==
    /\ vouchers' = [vouchers EXCEPT ![v] = row]
    /\ v = requests[r].voucher
    /\ \/ CommitCreateVoucher(r) /\ row.txn = 0 /\ row.status = "PENDING"
       \/ CommitMarkPaid(r) /\ row.txn = Len(txns) + 1 /\ row.status = "PAID"
       \/ /\ CommitCancelPending(r) \/ CommitCancelPaid(r)
          /\ row = [vouchers[v] EXCEPT !.status = "CANCELLED"]
LEMMA VoucherSteps ==
  ASSUME IInv, [Next]_vars
  PROVE  \/ vouchers' = vouchers
         \/ \E r \in Request, v \in Voucher : \E row : VoucherStep(r, v, row)
<1> USE DEF IInv, TypeOK
<1>1. CASE BillStep
  BY <1>1 DEF BillStep, CreateVendorBill, ApproveVendorBill, RejectVendorBill, PayVendorBill,
     UpdateTDS, DeleteTDS
<1>2. ASSUME NEW r \in Request, Begin(r) \/ Abort(r) PROVE vouchers' = vouchers
  BY <1>2 DEF Abort, Begin, BeginCreateVoucher, BeginVoucherOp, BeginReverse, BeginCreateTDS
<1>3. CASE UNCHANGED vars
  BY <1>3 DEF vars
<1>4. ASSUME NEW r \in Request, CommitCreateVoucher(r)
      PROVE  \E v \in Voucher : \E row : VoucherStep(r, v, row)
  <2> DEFINE q == requests[r]
             row == [status |-> "PENDING", gross |-> q.gross, tds |-> q.tds,
                     retention |-> q.retention, txn |-> 0]
  <2>1. q \in CreateVoucherRequest
    BY <1>4, RequestByOp DEF CommitCreateVoucher
  <2>2. q.voucher \in Voucher
    BY <2>1 DEF CreateVoucherRequest
  <2>3. vouchers' = [vouchers EXCEPT ![q.voucher] = row] /\ row.txn = 0 /\ row.status = "PENDING"
    BY <1>4 DEF CommitCreateVoucher
  <2>4. VoucherStep(r, q.voucher, row)
    BY <1>4, <2>3 DEF VoucherStep
  <2> QED BY <2>2, <2>4
<1>5. ASSUME NEW r \in Request, CommitMarkPaid(r)
      PROVE  \E v \in Voucher : \E row : VoucherStep(r, v, row)
  <2>1. VoucherLinked(requests[r].voucherRow, Len(txns))
    BY <1>5 DEF Links, RequestLinked, CommitMarkPaid
  <2> DEFINE v == requests[r].voucher
             row == vouchers'[v]
  <2>2. /\ v \in Voucher /\ vouchers' = [vouchers EXCEPT ![v] = row]
        /\ row.status = "PAID" /\ row.txn = Len(txns) + 1
    BY <1>5, <2>1, MarkPaidFlush
  <2>3. VoucherStep(r, v, row)
    BY <1>5, <2>2 DEF VoucherStep
  <2> HIDE DEF v, row
  <2> QED BY <2>2, <2>3
<1>6. ASSUME NEW r \in Request, CommitCancelPending(r) \/ CommitCancelPaid(r)
      PROVE  \E v \in Voucher : \E row : VoucherStep(r, v, row)
  <2> DEFINE v == requests[r].voucher
             row == [vouchers[v] EXCEPT !.status = "CANCELLED"]
  <2>1. requests[r] \in VoucherRequest
    BY <1>6, RequestByOp DEF CommitCancelPending, CommitCancelPaid
  <2>2. v \in Voucher
    BY <2>1 DEF VoucherRequest
  <2>3. vouchers' = [vouchers EXCEPT ![v] = row]
    BY <1>6 DEF CommitCancelPending, CommitCancelPaid
  <2>4. VoucherStep(r, v, row)
    BY <1>6, <2>3 DEF VoucherStep
  <2> QED BY <2>2, <2>4
<1>7. ASSUME NEW r \in Request, CommitReverse(r) \/ CommitCreateTDS(r) PROVE vouchers' = vouchers
  BY <1>7 DEF CommitReverse, CommitCreateTDS
<1>8. ASSUME NEW r \in Request, Commit(r)
      PROVE  vouchers' = vouchers \/ \E v \in Voucher : \E row : VoucherStep(r, v, row)
  BY <1>4, <1>5, <1>6, <1>7, <1>8 DEF Commit
<1> QED BY <1>1, <1>2, <1>3, <1>8 DEF Next

\* A commit or an abort frees its request and leaves the others.
LEMMA RequestSteps ==
  ASSUME IInv, [Next]_vars
  PROVE  \/ requests' = requests
         \/ \E r \in Request : Begin(r)
         \/ \E r \in Request : /\ Commit(r) \/ Abort(r)
                               /\ requests'[r] = Idle
                               /\ \A s \in Request : s # r => requests'[s] = requests[s]
<1>1. CASE BillStep
  BY <1>1 DEF BillStep, CreateVendorBill, ApproveVendorBill, RejectVendorBill, PayVendorBill,
     UpdateTDS, DeleteTDS
<1>2. ASSUME NEW r \in Request, Commit(r) \/ Abort(r)
      PROVE  /\ requests'[r] = Idle
             /\ \A s \in Request : s # r => requests'[s] = requests[s]
  BY <1>2 DEF Abort, Commit, CommitCreateVoucher, CommitMarkPaid, CommitCancelPending,
     CommitCancelPaid, CommitReverse, CommitCreateTDS, Done, IInv, TypeOK
<1>3. CASE UNCHANGED vars
  BY <1>3 DEF vars
<1> QED BY <1>1, <1>2, <1>3 DEF Next

LEMMA IdleOfBill == RequestOfBill(Idle, txns')
BY DEF RequestOfBill, Idle

LEMMA NextBillLinks ==
  ASSUME IInv, BillLinks, [Next]_vars PROVE BillLinks'
<1>0. Grown
  BY NextGrown
<1>1. ASSUME NEW v \in Voucher, vouchers'[v].txn = vouchers[v].txn
      PROVE  OfBill(vouchers'[v].txn, BillOf[v], txns')
  <2>1. vouchers[v].txn \in 0..Len(txns)
    BY DEF IInv, Links, VoucherLinked
  <2>2. OfBill(vouchers[v].txn, BillOf[v], txns)
    BY DEF BillLinks
  <2>3. OfBill(vouchers[v].txn, BillOf[v], txns')
    BY <1>0, <2>1, <2>2, OfBillKept
  <2> QED BY <1>1, <2>3
<1>2. ASSUME NEW v \in Voucher PROVE OfBill(vouchers'[v].txn, BillOf[v], txns')
  <2>1. CASE vouchers' = vouchers
    BY <1>1, <2>1
  <2>2. ASSUME NEW r \in Request, NEW w \in Voucher, NEW row, VoucherStep(r, w, row)
        PROVE  OfBill(vouchers'[v].txn, BillOf[v], txns')
    <3>0. vouchers'[v] = IF v = w THEN row ELSE vouchers[v]
      BY <2>2 DEF VoucherStep, IInv, TypeOK
    <3>1. CASE v # w
      BY <1>1, <3>0, <3>1
    <3>2. CASE v = w /\ row.txn = 0
      BY <3>0, <3>2 DEF OfBill
    <3>3. CASE v = w /\ row = [vouchers[w] EXCEPT !.status = "CANCELLED"]
      <4>1. row.txn = vouchers[w].txn
        BY <3>3 DEF IInv, TypeOK, VoucherRow
      <4> QED BY <1>1, <3>0, <3>3, <4>1
    <3>4. CASE v = w /\ CommitMarkPaid(r) /\ row.txn = Len(txns) + 1
      <4>1. PICK new : Booked(new) /\ new.bill = requests[r].bill
        BY <3>4, MarkPaidBooks
      <4>2. requests[r].bill = BillOf[v]
        BY <2>2, <3>4 DEF VoucherStep, BillLinks, RequestOfBill, CommitMarkPaid
      <4>3. txns'[Len(txns) + 1] = new
        BY <4>1 DEF Booked, IInv, TypeOK
      <4> QED BY <3>0, <3>4, <4>1, <4>2, <4>3 DEF OfBill
    <3> QED BY <2>2, <3>1, <3>2, <3>3, <3>4 DEF VoucherStep
  <2> QED BY <2>1, <2>2, VoucherSteps
<1>3. ASSUME NEW s \in Request PROVE RequestOfBill(requests'[s], txns')
  <2>1. CASE requests'[s] = requests[s]
    <3>1. RequestOfBill(requests[s], txns)
      BY DEF BillLinks
    <3> QED BY <1>0, <2>1, <3>1, RequestOfBillKept
  <2>2. ASSUME NEW r \in Request, Begin(r) PROVE RequestOfBill(requests'[s], txns')
    <3>1. txns' = txns
      BY <2>2 DEF Begin, BeginCreateVoucher, BeginVoucherOp, BeginReverse, BeginCreateTDS
    <3>2. RequestOfBill(requests'[s], txns)
      BY <2>2, BeginBillLinks
    <3> QED BY <3>1, <3>2 DEF RequestOfBill, OfBill
  <2>3. CASE requests'[s] = Idle
    BY <2>3, IdleOfBill
  <2> QED BY <2>1, <2>2, <2>3, RequestSteps
<1> QED BY <1>2, <1>3 DEF BillLinks

-----------------------------------------------------------------------------
(* The cash book. *)

\* Every row's journal moves its amount on the bank account.
BankLines == \A i \in 1..Len(txns) : txns[i].lines["bank"] = txns[i].amount

LEMMA BookedRowsBankLines ==
  ASSUME IInv, BillLinks, BankLines, [Next]_vars
  PROVE  \/ BooksNothing
         \/ \E row : Booked(row) /\ row.lines["bank"] = row.amount
<1> USE DEF IInv, TypeOK
<1>1. ASSUME NEW b \in Bill, NEW amount \in Amount, PayVendorBill(b, amount)
      PROVE  \E row : Booked(row) /\ row.lines["bank"] = row.amount
  <2>1. PICK row : Booked(row) /\ row.amount = amount
                   /\ row.lines = Posting(-amount, amount, 0, 0, 0)
    BY <1>1, PayBooks
  <2> QED BY <2>1 DEF Posting
<1>2. ASSUME NEW r \in Request, CommitMarkPaid(r)
      PROVE  \E row : Booked(row) /\ row.lines["bank"] = row.amount
  <2> DEFINE pv == requests[r].voucherRow
             net == pv.gross - pv.tds - pv.retention
  <2>1. PICK row : Booked(row) /\ row.amount = net
                   /\ row.lines = Posting(-pv.gross, net, pv.tds, pv.retention, 0)
    BY <1>2, MarkPaidBooks
  <2> HIDE DEF net
  <2> QED BY <2>1 DEF Posting
<1>3. ASSUME NEW t \in 1..Len(txns), NEW row, Booked(row), TakenBack(row, txns[t])
      PROVE  row.lines["bank"] = row.amount
  <2>1. txns[t] \in TxnRow /\ txns[t].lines["bank"] = txns[t].amount
    BY DEF BankLines
  <2>2. Swapped(txns[t].lines)["bank"] = -txns[t].amount
    BY <2>1 DEF Swapped, Accounts
  <2> QED BY <1>3, <2>2 DEF TakenBack
<1>4. ASSUME NEW r \in Request, CommitCancelPaid(r) \/ CommitReverse(r)
      PROVE  \E t \in 1..Len(txns) : \E row : Booked(row) /\ TakenBack(row, txns[t])
  BY <1>4, CancelPaidBooks, ReverseBooks
<1>5. ASSUME NEW r \in Request, CommitCancelPaid(r) \/ CommitReverse(r)
      PROVE  \E row : Booked(row) /\ row.lines["bank"] = row.amount
  BY <1>3, <1>4, <1>5
<1> QED BY <1>1, <1>2, <1>5, OtherSteps

\* A step that books no row posts nothing on the bank account.
LEMMA NothingOnBank ==
  ASSUME IInv, [Next]_vars, BooksNothing, NEW x \in Bill
  PROVE  ledger'[x]["bank"] = ledger[x]["bank"]
<1> USE DEF IInv, TypeOK, BooksNothing
<1>0. "bank" \in Accounts /\ ledger[x]["bank"] \in Int
  BY DEF Accounts, Lines
<1>1. ASSUME NEW b \in Bill, NEW lines \in Lines, lines["bank"] = 0, ledger' = Posted(b, lines)
      PROVE  ledger'[x]["bank"] = ledger[x]["bank"]
  BY <1>0, <1>1, PostedAt
<1>2. CASE ledger' = ledger
  BY <1>2
<1>3. CASE BillStep
  <2>1. PICK b \in Bill : ledger' = ledger \/ ApproveVendorBill(b)
                          \/ \E amount \in Amount : PayVendorBill(b, amount)
    BY <1>3 DEF BillStep, CreateVendorBill, RejectVendorBill, UpdateTDS, DeleteTDS
  <2>2. ASSUME NEW amount \in Amount, PayVendorBill(b, amount) PROVE FALSE
    <3>1. PICK row : txns' = Append(txns, row)
      BY <2>2 DEF PayVendorBill
    <3> QED BY <3>1
  <2>3. CASE ApproveVendorBill(b)
    <3> DEFINE lines == Posting(Total[b], 0, 0, 0, -Total[b])
    <3>1. Total[b] \in Int /\ -Total[b] \in Int /\ 0 \in Int
      OBVIOUS
    <3>2. lines \in Lines /\ lines["bank"] = 0
      <4> HIDE DEF IInv, TypeOK
      <4> QED BY <3>1, PostingType DEF Posting
    <3>3. ledger' = ledger \/ ledger' = Posted(b, lines)
      BY <2>3 DEF ApproveVendorBill
    <3> HIDE DEF lines
    <3> QED BY <1>1, <1>2, <3>2, <3>3
  <2> QED BY <1>2, <2>1, <2>2, <2>3
<1>4. ASSUME NEW r \in Request, Begin(r) \/ Abort(r) PROVE ledger' = ledger
  BY <1>4 DEF Abort, Begin, BeginCreateVoucher, BeginVoucherOp, BeginReverse, BeginCreateTDS
<1>5. ASSUME NEW r \in Request, CommitMarkPaid(r) \/ CommitCancelPaid(r) \/ CommitReverse(r)
      PROVE  FALSE
  <2>1. PICK row : txns' = Append(txns, row)
    BY <1>5 DEF CommitMarkPaid, CommitCancelPaid, CommitReverse
  <2> QED BY <2>1
<1>6. ASSUME NEW r \in Request, CommitCreateVoucher(r) \/ CommitCancelPending(r)
      PROVE  ledger' = ledger
  BY <1>6 DEF CommitCreateVoucher, CommitCancelPending
<1>7. ASSUME NEW r \in Request, CommitCreateTDS(r)
      PROVE  ledger'[x]["bank"] = ledger[x]["bank"]
  <2> DEFINE q == requests[r]
             lines == Posting(-q.amount, 0, q.amount, 0, 0)
  <2>1. q \in TDSRequest
    BY <1>7, RequestByOp DEF CommitCreateTDS
  <2>2. q.bill \in Bill /\ q.amount \in Nat
    BY <2>1 DEF TDSRequest
  <2>3. lines \in Lines /\ lines["bank"] = 0
    <3> HIDE DEF IInv, TypeOK, q
    <3>1. q.amount \in Int /\ -q.amount \in Int /\ 0 \in Int
      BY <2>2
    <3> QED BY <3>1, PostingType DEF Posting
  <2>4. ledger' = ledger \/ ledger' = Posted(q.bill, lines)
    BY <1>7 DEF CommitCreateTDS
  <2> HIDE DEF lines, q
  <2> QED BY <1>1, <1>2, <2>2, <2>3, <2>4
<1>8. CASE UNCHANGED vars
  BY <1>8 DEF vars
<1> QED BY <1>2, <1>3, <1>4, <1>5, <1>6, <1>7, <1>8 DEF Next, Commit

CashInv == IInv /\ BillLinks /\ BankLines /\ CashBookMatchesBank

LEMMA CashBookFinite ==
  ASSUME TypeOK, NEW b PROVE Finitely(CashBook(b)) /\ DOMAIN CashBook(b) = 1..Len(txns)
<1>1. DOMAIN txns = 1..Len(txns) /\ Len(txns) \in Nat
  BY DEF TypeOK
<1>2. IsFiniteSet(1..Len(txns))
  BY <1>1, FS_Interval
<1>3. \A i \in 1..Len(txns) : txns[i].amount \in Int
  <2>1. \A i \in 1..Len(txns) : txns[i] \in TxnRow
    BY DEF TypeOK
  <2> QED BY <2>1 DEF TxnRow
<1> QED BY <1>1, <1>2, <1>3 DEF CashBook, Finitely

LEMMA CashBookNext ==
  ASSUME CashInv, [Next]_vars PROVE BankLines' /\ CashBookMatchesBank'
<1>0. IInv /\ TypeOK /\ BillLinks /\ BankLines /\ CashBookMatchesBank /\ Len(txns) \in Nat
  BY DEF CashInv, IInv, TypeOK
<1>1. CASE BooksNothing
  <2>1. \A x \in Bill : ledger'[x]["bank"] = ledger[x]["bank"]
    BY <1>0, <1>1, NothingOnBank
  <2>2. \A x \in Bill : CashBook(x)' = CashBook(x)
    BY <1>1 DEF CashBook, BooksNothing
  <2>3. BankLines'
    BY <1>0, <1>1 DEF BankLines, BooksNothing
  <2> QED BY <1>0, <2>1, <2>2, <2>3 DEF CashBookMatchesBank
<1>2. ASSUME NEW row, Booked(row), row.lines["bank"] = row.amount
      PROVE  BankLines' /\ CashBookMatchesBank'
  <2> DEFINE n == Len(txns) + 1
  <2>1. /\ row \in TxnRow /\ row.bill \in Bill /\ row.amount \in Int /\ row.lines \in Lines
        /\ txns' = Append(txns, row) /\ ledger' = Posted(row.bill, row.lines)
    BY <1>2 DEF Booked, TxnRow
  <2>2. /\ DOMAIN txns' = 1..n /\ Len(txns') = n /\ txns'[n] = row
        /\ \A i \in 1..Len(txns) : txns'[i] = txns[i]
        /\ n \notin 1..Len(txns) /\ 1..n = 1..Len(txns) \cup {n}
    BY <1>0, <2>1 DEF TypeOK
  <2>3. BankLines'
    BY <1>0, <1>2, <2>2 DEF BankLines
  <2>4. ASSUME NEW x \in Bill PROVE ledger'[x]["bank"] = TotalOf(CashBook(x))'
    <3> DEFINE f == CashBook(x)
               g == CashBook(x)'
    <3>1. Finitely(f) /\ DOMAIN f = 1..Len(txns)
      BY <1>0, CashBookFinite
    <3>2. DOMAIN g = DOMAIN f \cup {n} /\ n \notin DOMAIN f
      BY <2>2, <3>1 DEF CashBook
    <3>3. g[n] = IF row.bill = x THEN row.amount ELSE 0
      BY <2>2 DEF CashBook
    <3>4. \A y \in DOMAIN f : g[y] = f[y]
      <4>1. DOMAIN txns = 1..Len(txns)
        BY <1>0 DEF TypeOK
      <4> QED BY <2>2, <3>1, <4>1 DEF CashBook
    <3>5. g[n] \in Int
      BY <2>1, <3>3
    <3>6. TotalOf(g) = TotalOf(f) + g[n] /\ TotalOf(f) \in Int
      <4> HIDE DEF f, g, n
      <4> QED BY <3>1, <3>2, <3>4, <3>5, TotalGrown, TotalInt
    <3>7. ledger[x]["bank"] = TotalOf(f)
      BY <1>0 DEF CashBookMatchesBank
    <3>8. ledger'[x]["bank"] = IF x = row.bill THEN ledger[row.bill]["bank"] + row.lines["bank"]
                               ELSE ledger[x]["bank"]
      BY <1>0, <2>1, PostedAt DEF Accounts, TypeOK
    <3> HIDE DEF f, g, n
    <3>9. ledger'[x]["bank"] = TotalOf(g)
      BY <1>2, <3>3, <3>6, <3>7, <3>8
    <3> QED BY <3>9 DEF g
  <2> QED BY <2>3, <2>4 DEF CashBookMatchesBank
<1> QED BY <1>0, <1>1, <1>2, BookedRowsBankLines

\* What the transactions say was paid is what the bank account lost, for every
\* number of requests and however they overlap.
THEOREM CashBookAlwaysMatches == Spec => []CashBookMatchesBank
<1>1. Init => CashInv
  <2> SUFFICES ASSUME Init PROVE CashInv
    OBVIOUS
  <2>1. IInv /\ BillLinks
    BY InitType, InitLinks, InitBillLinks DEF IInv
  <2>2. BankLines
    BY DEF Init, BankLines
  <2>3. ASSUME NEW b \in Bill PROVE ledger[b]["bank"] = TotalOf(CashBook(b))
    <3>1. \A i \in DOMAIN CashBook(b) : CashBook(b)[i] = 0
      BY DEF Init, CashBook
    <3>2. TotalOf(CashBook(b)) = 0
      BY <3>1, TotalZero
    <3> QED BY <3>2 DEF Init, Accounts
  <2> QED BY <2>1, <2>2, <2>3 DEF CashInv, CashBookMatchesBank
<1>2. CashInv /\ [Next]_vars => CashInv'
  <2> SUFFICES ASSUME CashInv, [Next]_vars PROVE CashInv'
    OBVIOUS
  <2>1. IInv' /\ BillLinks'
    BY NextType, LinksNext, NextBillLinks DEF CashInv, IInv
  <2> QED BY <2>1, CashBookNext DEF CashInv
<1>3. CashInv => CashBookMatchesBank
  BY DEF CashInv
<1> QED BY <1>1, <1>2, <1>3, PTL DEF Spec

-----------------------------------------------------------------------------
(* Nothing moves for a bill before its accrual. *)

NotPayable == {"ABSENT", "PENDING", "REJECTED"}

\* Before its accrual a bill has no voucher and no transaction, and no request
\* holds a row of it that a payment could be decided on.
Innocent(q, b) ==
    q # Idle /\ q.bill = b =>
        /\ q.op \in {"create_voucher", "create_tds"}
        /\ q.op = "create_voucher" => q.billRow.status \in NotPayable
Unpaid(b) ==
    /\ bills[b].status \in NotPayable
    /\ \A i \in 1..Len(txns) : txns[i].bill # b
    /\ \A v \in Voucher : BillOf[v] = b => vouchers[v].status = "ABSENT"
    /\ \A r \in Request : Innocent(requests[r], b)
AccrualInv ==
    /\ IInv /\ BillLinks
    /\ \A b \in Bill \ Legacy : bills[b].accrued \/ Unpaid(b)

\* How a step changes the bills: not at all, or one row, which keeps
\* its accrual and its existence.
BillStepAt(b, row) ==
    /\ bills' = [bills EXCEPT ![b] = row]
    /\ bills[b].accrued => row.accrued
    /\ bills[b].status # "ABSENT" => row.status # "ABSENT"
    /\ \/ CreateVendorBill(b) /\ row.status = "PENDING"
       \/ ApproveVendorBill(b) /\ row.accrued
       \/ RejectVendorBill(b) /\ row.status = "REJECTED"
       \/ \E amount \in Amount : PayVendorBill(b, amount)
       \/ \E r \in Request : /\ CommitMarkPaid(r) \/ CommitCancelPaid(r) \/ CommitReverse(r)
                             /\ requests[r].bill = b

LEMMA FlushStepAt ==
  ASSUME IInv, NEW r \in Request, CommitMarkPaid(r) \/ CommitCancelPaid(r) \/ CommitReverse(r)
  PROVE  \E b \in Bill : \E row : BillStepAt(b, row)
<1> USE DEF IInv, TypeOK
<1> DEFINE q == requests[r]
           b == q.bill
<1>1. q \in VoucherRequest \cup ReverseRequest
  BY RequestByOp DEF CommitMarkPaid, CommitCancelPaid, CommitReverse
<1>2. b \in Bill /\ q.billRow \in BillRow /\ bills[b] \in BillRow
  BY <1>1 DEF VoucherRequest, ReverseRequest
<1>3. PICK paid, status :
        bills' = [bills EXCEPT ![b] = Flushed(bills[b], q.billRow,
                     [q.billRow EXCEPT !.paid = paid, !.status = status])]
        /\ status # "ABSENT"
  <2>1. CASE CommitMarkPaid(r)
    <3> DEFINE left == q.billRow.paid + q.voucherRow.gross
               said == SettledStatus(b, left)
    <3>1. bills' = [bills EXCEPT ![b] = Flushed(bills[b], q.billRow,
                      [q.billRow EXCEPT !.paid = left, !.status = said])]
      BY <1>2, <2>1 DEF CommitMarkPaid
    <3>2. said # "ABSENT"
      BY DEF SettledStatus
    <3> HIDE DEF left, said
    <3> QED BY <3>1, <3>2
  <2>2. CASE CommitCancelPaid(r)
    <3> DEFINE left == q.billRow.paid - q.voucherRow.gross
               said == IF left <= 0 THEN "APPROVED" ELSE "PARTIAL"
    <3>1. bills' = [bills EXCEPT ![b] = Flushed(bills[b], q.billRow,
                      [q.billRow EXCEPT !.paid = left, !.status = said])]
      BY <1>2, <2>2 DEF CommitCancelPaid
    <3>2. said # "ABSENT"
      BY DEF SettledStatus
    <3> HIDE DEF left, said
    <3> QED BY <3>1, <3>2
  <2>3. CASE CommitReverse(r)
    <3> DEFINE rest == q.billRow.paid - txns[q.txn].amount
               left == IF rest < 0 THEN 0 ELSE rest
               said == IF left = 0 THEN "PENDING" ELSE SettledStatus(b, left)
    <3>1. bills' = [bills EXCEPT ![b] = Flushed(bills[b], q.billRow,
                      [q.billRow EXCEPT !.paid = left, !.status = said])]
      BY <1>2, <2>3 DEF CommitReverse
    <3>2. said # "ABSENT"
      BY DEF SettledStatus
    <3> HIDE DEF left, said
    <3> QED BY <3>1, <3>2
  <2> QED BY <2>1, <2>2, <2>3
<1> DEFINE new == [q.billRow EXCEPT !.paid = paid, !.status = status]
           row == Flushed(bills[b], q.billRow, new)
<1>4. new.accrued = q.billRow.accrued /\ new.status = status
  BY <1>2 DEF BillRow
<1>5. row.accrued = bills[b].accrued
  <2> HIDE DEF new, q, b
  <2> QED BY <1>2, <1>4, FlushKeepsAccrued
<1>6. bills' = [bills EXCEPT ![b] = row]
  BY <1>3
<1>7. bills[b].status # "ABSENT" => row.status # "ABSENT"
  <2>1. "status" \in DOMAIN bills[b]
    BY <1>2 DEF BillRow
  <2> HIDE DEF new, q, b
  <2> QED BY <1>3, <1>4, <2>1 DEF Flushed
<1> HIDE DEF row, IInv, TypeOK
<1>8. BillStepAt(b, row)
  BY <1>5, <1>6, <1>7 DEF BillStepAt
<1> QED BY <1>2, <1>8

LEMMA BillSteps ==
  ASSUME IInv, [Next]_vars
  PROVE  bills' = bills \/ \E b \in Bill : \E row : BillStepAt(b, row)
<1> USE DEF IInv, TypeOK
<1>1. ASSUME NEW b \in Bill, CreateVendorBill(b) PROVE \E row : BillStepAt(b, row)
  <2> DEFINE row == [bills[b] EXCEPT !.status = "PENDING"]
  <2>1. row.status = "PENDING" /\ row.accrued = bills[b].accrued
    BY DEF BillRow
  <2>2. bills' = [bills EXCEPT ![b] = row]
    BY <1>1 DEF CreateVendorBill
  <2> HIDE DEF row
  <2> QED BY <1>1, <2>1, <2>2 DEF BillStepAt
<1>2. ASSUME NEW b \in Bill, ApproveVendorBill(b) PROVE \E row : BillStepAt(b, row)
  <2> DEFINE row == [bills[b] EXCEPT !.status = "APPROVED", !.accrued = TRUE]
  <2>1. row.accrued /\ row.status = "APPROVED"
    BY DEF BillRow
  <2>2. bills' = [bills EXCEPT ![b] = row]
    BY <1>2 DEF ApproveVendorBill
  <2> HIDE DEF row
  <2> QED BY <1>2, <2>1, <2>2 DEF BillStepAt
<1>3. ASSUME NEW b \in Bill, RejectVendorBill(b) PROVE \E row : BillStepAt(b, row)
  <2> DEFINE row == [bills[b] EXCEPT !.status = "REJECTED"]
  <2>1. row.status = "REJECTED" /\ row.accrued = bills[b].accrued
    BY DEF BillRow
  <2>2. bills' = [bills EXCEPT ![b] = row]
    BY <1>3 DEF RejectVendorBill
  <2> HIDE DEF row
  <2> QED BY <1>3, <2>1, <2>2 DEF BillStepAt
<1>4. ASSUME NEW b \in Bill, NEW amount \in Amount, PayVendorBill(b, amount)
      PROVE  \E row : BillStepAt(b, row)
  <2> DEFINE paid == bills[b].paid + amount
             row == [bills[b] EXCEPT !.paid = paid, !.status = SettledStatus(b, paid)]
  <2>1. row.accrued = bills[b].accrued /\ row.status # "ABSENT"
    BY DEF BillRow, SettledStatus
  <2>2. bills' = [bills EXCEPT ![b] = row]
    BY <1>4 DEF PayVendorBill
  <2> HIDE DEF row
  <2> QED BY <1>4, <2>1, <2>2 DEF BillStepAt
<1>5. ASSUME NEW b \in Bill, DeleteTDS(b) \/ \E s \in ManualTDS : UpdateTDS(b, s)
      PROVE  bills' = bills
  BY <1>5 DEF DeleteTDS, UpdateTDS
<1>6. ASSUME NEW r \in Request, Begin(r) \/ Abort(r) PROVE bills' = bills
  BY <1>6 DEF Abort, Begin, BeginCreateVoucher, BeginVoucherOp, BeginReverse, BeginCreateTDS
<1>7. ASSUME NEW r \in Request, CommitCreateVoucher(r) \/ CommitCancelPending(r) \/ CommitCreateTDS(r)
      PROVE  bills' = bills
  BY <1>7 DEF CommitCreateVoucher, CommitCancelPending, CommitCreateTDS
<1>8. CASE UNCHANGED vars
  BY <1>8 DEF vars
<1>9. ASSUME BillStep PROVE bills' = bills \/ \E b \in Bill : \E row : BillStepAt(b, row)
  <2>1. PICK b \in Bill :
          \/ CreateVendorBill(b) \/ ApproveVendorBill(b) \/ RejectVendorBill(b)
          \/ \E amount \in Amount : PayVendorBill(b, amount)
          \/ \E s \in ManualTDS : UpdateTDS(b, s)
          \/ DeleteTDS(b)
    BY <1>9 DEF BillStep
  <2> QED BY <1>1, <1>2, <1>3, <1>4, <1>5, <2>1
<1>10. ASSUME NEW r \in Request, Commit(r)
       PROVE  bills' = bills \/ \E b \in Bill : \E row : BillStepAt(b, row)
  BY <1>7, <1>10, FlushStepAt DEF Commit
<1> HIDE DEF IInv, TypeOK
<1> QED BY <1>6, <1>8, <1>9, <1>10 DEF Next

LEMMA AccrualStays ==
  ASSUME IInv, [Next]_vars, NEW b \in Bill, bills[b].accrued
  PROVE  bills'[b].accrued
<1>1. CASE bills' = bills
  BY <1>1
<1>2. ASSUME NEW c \in Bill, NEW row, BillStepAt(c, row) PROVE bills'[b].accrued
  <2>1. bills'[b] = IF b = c THEN row ELSE bills[b]
    BY <1>2 DEF BillStepAt, IInv, TypeOK
  <2> QED BY <1>2, <2>1 DEF BillStepAt
<1> QED BY <1>1, <1>2, BillSteps

\* A request that pays, cancels or reverses is of a bill that is not Unpaid, and
\* so is a creation that succeeds.
LEMMA CommitsElsewhere ==
  ASSUME IInv, NEW b \in Bill, Unpaid(b), NEW r \in Request,
         \/ CommitMarkPaid(r) \/ CommitCancelPending(r) \/ CommitCancelPaid(r)
         \/ CommitReverse(r) \/ CommitCreateVoucher(r)
  PROVE  requests[r].bill # b
<1>1. Innocent(requests[r], b)
  BY DEF Unpaid
<1>2. requests[r] # Idle
  BY SMTT(40) DEF CommitMarkPaid, CommitCancelPending, CommitCancelPaid, CommitReverse,
     CommitCreateVoucher, Idle
<1>3. CASE CommitCreateVoucher(r)
  BY <1>1, <1>2, <1>3 DEF Innocent, CommitCreateVoucher, VoucherEligible, NotPayable
<1>4. CASE \/ CommitMarkPaid(r) \/ CommitCancelPending(r) \/ CommitCancelPaid(r)
           \/ CommitReverse(r)
  BY <1>1, <1>2, <1>4 DEF Innocent, CommitMarkPaid, CommitCancelPending, CommitCancelPaid,
     CommitReverse
<1> QED BY <1>3, <1>4

LEMMA UnpaidStatus ==
  ASSUME IInv, [Next]_vars, NEW b \in Bill, Unpaid(b), ~bills'[b].accrued
  PROVE  bills'[b].status \in NotPayable
<1>1. CASE bills' = bills
  BY <1>1 DEF Unpaid
<1>2. ASSUME NEW c \in Bill, NEW row, BillStepAt(c, row) PROVE bills'[b].status \in NotPayable
  <2>1. bills'[b] = IF b = c THEN row ELSE bills[b]
    BY <1>2 DEF BillStepAt, IInv, TypeOK
  <2>2. CASE b # c
    BY <2>1, <2>2 DEF Unpaid
  <2>3. CASE b = c
    <3>1. ASSUME NEW amount \in Amount, PayVendorBill(c, amount) PROVE FALSE
      BY <2>3, <3>1 DEF PayVendorBill, Unpaid, NotPayable
    <3>2. ASSUME NEW r \in Request, requests[r].bill = c,
                 CommitMarkPaid(r) \/ CommitCancelPaid(r) \/ CommitReverse(r)
          PROVE  FALSE
      BY <2>3, <3>2, CommitsElsewhere
    <3>3. CASE row.accrued
      BY <2>1, <2>3, <3>3
    <3>4. CASE row.status \in {"PENDING", "REJECTED"}
      BY <2>1, <2>3, <3>4 DEF NotPayable
    <3> QED BY <1>2, <3>1, <3>2, <3>3, <3>4 DEF BillStepAt
  <2> QED BY <2>2, <2>3
<1> QED BY <1>1, <1>2, BillSteps

LEMMA UnpaidTxns ==
  ASSUME IInv, BillLinks, [Next]_vars, NEW b \in Bill, Unpaid(b), NEW i \in 1..Len(txns')
  PROVE  txns'[i].bill # b
<1>0. \A j \in 1..Len(txns) : txns[j].bill # b
  BY DEF Unpaid
<1>1. CASE BooksNothing
  BY <1>0, <1>1 DEF BooksNothing
<1>2. ASSUME NEW row, Booked(row), row.bill # b PROVE txns'[i].bill # b
  BY <1>0, <1>2 DEF Booked, IInv, TypeOK
<1>3. ASSUME NEW c \in Bill, NEW amount \in Amount, PayVendorBill(c, amount)
      PROVE  txns'[i].bill # b
  <2>1. c # b
    BY <1>3 DEF PayVendorBill, Unpaid, NotPayable
  <2> QED BY <1>2, <1>3, <2>1, PayBooks
<1>4. ASSUME NEW r \in Request, CommitMarkPaid(r) \/ CommitCancelPaid(r) \/ CommitReverse(r)
      PROVE  txns'[i].bill # b
  <2>1. requests[r].bill # b
    BY <1>4, CommitsElsewhere
  <2>2. \E row : Booked(row) /\ row.bill = requests[r].bill
    BY <1>4, MarkPaidBooks, CancelPaidBooks, ReverseBooks DEF TakenBack
  <2> QED BY <1>2, <2>1, <2>2
<1> QED BY <1>1, <1>3, <1>4, OtherSteps

LEMMA UnpaidVouchers ==
  ASSUME IInv, BillLinks, [Next]_vars, NEW b \in Bill, Unpaid(b),
         NEW v \in Voucher, BillOf[v] = b
  PROVE  vouchers'[v].status = "ABSENT"
<1>1. vouchers[v].status = "ABSENT"
  BY DEF Unpaid
<1>2. ASSUME NEW r \in Request, NEW w \in Voucher, NEW row, VoucherStep(r, w, row)
      PROVE  vouchers'[v].status = "ABSENT"
  <2>1. vouchers'[v] = IF v = w THEN row ELSE vouchers[v]
    BY <1>2 DEF VoucherStep, IInv, TypeOK
  <2>2. requests[r].bill # b
    BY <1>2, CommitsElsewhere DEF VoucherStep
  <2>3. requests[r].op \in {"create_voucher", "mark_paid", "cancel"} /\ w = requests[r].voucher
    BY <1>2 DEF VoucherStep, CommitCreateVoucher, CommitMarkPaid, CommitCancelPending,
       CommitCancelPaid
  <2>4. BillOf[w] = requests[r].bill
    BY <2>3 DEF BillLinks, RequestOfBill
  <2> QED BY <1>1, <2>1, <2>2, <2>4
<1> QED BY <1>1, <1>2, VoucherSteps

LEMMA UnpaidRequests ==
  ASSUME IInv, [Next]_vars, NEW b \in Bill, Unpaid(b), NEW s \in Request
  PROVE  Innocent(requests'[s], b)
<1> USE DEF IInv, TypeOK
<1>1. Innocent(requests[s], b)
  BY DEF Unpaid
<1>2. ASSUME NEW r \in Request, Begin(r) PROVE Innocent(requests'[s], b)
  <2>1. CASE s # r
    <3>1. requests'[s] = requests[s]
      BY <1>2, <2>1 DEF Begin, BeginCreateVoucher, BeginVoucherOp, BeginReverse,
         BeginCreateTDS, Start
    <3> QED BY <1>1, <3>1
  <2>2. ASSUME s = r, NEW v \in Voucher, NEW gross \in Amount,
               NEW withheld \in Withheld, NEW retention \in Withheld,
               BeginCreateVoucher(r, v, gross, withheld, retention)
        PROVE  Innocent(requests'[s], b)
    <3>1. /\ requests'[s].op = "create_voucher" /\ requests'[s].bill = BillOf[v]
          /\ requests'[s].billRow = bills[BillOf[v]]
      BY <2>2 DEF BeginCreateVoucher, Start
    <3> QED BY <3>1 DEF Innocent, Unpaid
  <2>3. ASSUME s = r, NEW v \in Voucher, NEW op \in {"mark_paid", "cancel"}, BeginVoucherOp(r, op, v)
        PROVE  Innocent(requests'[s], b)
    <3>1. requests'[s].bill = BillOf[v]
      BY <2>3 DEF BeginVoucherOp, Start
    <3>2. BillOf[v] # b
      BY <2>3 DEF BeginVoucherOp, Issued, Unpaid
    <3> QED BY <3>1, <3>2 DEF Innocent
  <2>4. ASSUME s = r, NEW t \in 1..Len(txns), BeginReverse(r, t) PROVE Innocent(requests'[s], b)
    <3>1. requests'[s].bill = txns[t].bill
      BY <2>4 DEF BeginReverse, Start
    <3> QED BY <3>1 DEF Innocent, Unpaid
  <2>5. ASSUME s = r, NEW c \in Bill, NEW st \in ManualTDS, NEW amount \in Withheld,
               BeginCreateTDS(r, c, st, amount)
        PROVE  Innocent(requests'[s], b)
    <3>1. requests'[s].op = "create_tds"
      BY <2>5 DEF BeginCreateTDS, Start
    <3> QED BY <3>1 DEF Innocent
  <2> QED BY <1>2, <2>1, <2>2, <2>3, <2>4, <2>5 DEF Begin
<1>3. Innocent(Idle, b)
  BY DEF Innocent
<1> HIDE DEF IInv, TypeOK
<1> QED BY <1>1, <1>2, <1>3, RequestSteps

\* No bill of the accrual era is paid before its accrual is posted, whatever
\* stale status an overlapping request writes back.
THEOREM PaidOnlyAfterAccrual == Spec => []PaidOnlyWhenAccrued
<1>1. Init => AccrualInv
  <2>1. Init => IInv /\ BillLinks
    BY InitType, InitLinks, InitBillLinks DEF IInv
  <2>2. Init => \A b \in Bill \ Legacy : Unpaid(b)
    BY DEF Init, Unpaid, NotPayable, Innocent
  <2> QED BY <2>1, <2>2 DEF AccrualInv
<1>2. AccrualInv /\ [Next]_vars => AccrualInv'
  <2> SUFFICES ASSUME AccrualInv, [Next]_vars PROVE AccrualInv'
    OBVIOUS
  <2>0. IInv /\ BillLinks
    BY DEF AccrualInv
  <2>1. IInv' /\ BillLinks'
    BY <2>0, NextType, LinksNext, NextBillLinks DEF IInv
  <2>2. ASSUME NEW b \in Bill \ Legacy, ~bills'[b].accrued PROVE Unpaid(b)'
    <3>1. Unpaid(b)
      BY <2>0, <2>2, AccrualStays DEF AccrualInv
    <3> QED BY <2>0, <2>2, <3>1, UnpaidStatus, UnpaidTxns, UnpaidVouchers, UnpaidRequests
            DEF Unpaid
  <2> QED BY <2>1, <2>2 DEF AccrualInv
<1>3. AccrualInv => PaidOnlyWhenAccrued
  BY DEF AccrualInv, Unpaid, NotPayable, PaidOnlyWhenAccrued
<1> QED BY <1>1, <1>2, <1>3, PTL DEF Spec

-----------------------------------------------------------------------------
(* When requests on one bill do not overlap, a handler decides on current rows. *)

\* What the request read of its bill is what the tables hold.
Fresh(q) ==
    /\ bills[q.bill].status # "ABSENT"
    /\ q.op \in {"create_voucher", "mark_paid", "cancel", "reverse"} => q.billRow = bills[q.bill]
    /\ q.op = "create_voucher" => vouchers[q.voucher].status = "ABSENT"
    /\ q.op \in {"mark_paid", "cancel"} => q.voucherRow = vouchers[q.voucher]
    /\ q.op \in {"mark_paid", "cancel", "reverse", "create_tds"} => q.tdsRows = tds[q.bill]
    /\ q.op = "reverse" => \A i \in 1..Len(txns) : txns[i].bill = q.bill => i <= q.seen
Alone == \A r, s \in Request : requests[r] # Idle /\ requests[s] # Idle
                               /\ requests[r].bill = requests[s].bill => r = s
Known ==
    /\ \A v \in Voucher : vouchers[v].status # "ABSENT" => bills[BillOf[v]].status # "ABSENT"
    /\ \A i \in 1..Len(txns) : bills[txns[i].bill].status # "ABSENT"
ExclusiveInv ==
    /\ IInv /\ BillLinks /\ Alone /\ Known
    /\ \A r \in Request : requests[r] # Idle => Fresh(requests[r])

LEMMA RequestBill ==
  ASSUME IInv, BillLinks, NEW r \in Request, requests[r] # Idle
  PROVE  LET q == requests[r]
         IN  /\ q.bill \in Bill
             /\ q.op \in {"create_voucher", "mark_paid", "cancel"} =>
                    q.voucher \in Voucher /\ BillOf[q.voucher] = q.bill
             /\ q.op = "reverse" => q.txn \in 1..Len(txns) /\ txns[q.txn].bill = q.bill
             /\ q.op \in {"create_voucher", "mark_paid", "cancel", "reverse", "create_tds"}
<1> DEFINE q == requests[r]
<1>1. q \in RequestState /\ RequestOfBill(q, txns) /\ RequestLinked(q, Len(txns)) /\ q # Idle
  BY DEF IInv, TypeOK, BillLinks, Links
<1> HIDE DEF q
<1>2. /\ q.bill \in Bill
      /\ q.op \in {"create_voucher", "mark_paid", "cancel"} => q.voucher \in Voucher
      /\ q.op \in {"create_voucher", "mark_paid", "cancel", "reverse", "create_tds"}
  BY <1>1 DEF RequestState, CreateVoucherRequest, VoucherRequest, ReverseRequest, TDSRequest
<1>3. q.op = "reverse" => q.txn \in 1..Len(txns) /\ txns[q.txn].bill = q.bill
  BY <1>1 DEF RequestLinked, RequestOfBill
<1>4. q.op \in {"create_voucher", "mark_paid", "cancel"} => BillOf[q.voucher] = q.bill
  BY <1>1 DEF RequestOfBill
<1> QED BY <1>2, <1>3, <1>4 DEF q

\* A step that touches no other bill than c.
Local(c) ==
    /\ \A b \in Bill \ {c} : bills'[b] = bills[b] /\ tds'[b] = tds[b] /\ ledger'[b] = ledger[b]
    /\ \A v \in Voucher : BillOf[v] # c => vouchers'[v] = vouchers[v]
    /\ txns' = txns \/ \E row : txns' = Append(txns, row) /\ row.bill = c

LEMMA CommitLocal ==
  ASSUME IInv, BillLinks, NEW r \in Request, Commit(r) \/ Abort(r)
  PROVE  requests[r] # Idle /\ Local(requests[r].bill)
<1> USE DEF IInv, TypeOK
<1> DEFINE q == requests[r]
           c == q.bill
<1>0. q # Idle
  BY DEF Commit, Abort, Free, CommitCreateVoucher, CommitMarkPaid, CommitCancelPending,
     CommitCancelPaid, CommitReverse, CommitCreateTDS, Idle
<1>1. \A b \in Bill \ {c} : bills'[b] = bills[b] /\ tds'[b] = tds[b] /\ ledger'[b] = ledger[b]
  BY ZenonT(60), <1>0, RequestBill DEF Posted, Commit, Abort, CommitCreateVoucher, CommitMarkPaid,
     CommitCancelPending, CommitCancelPaid, CommitReverse, CommitCreateTDS
<1>2. ASSUME NEW v \in Voucher, BillOf[v] # c PROVE vouchers'[v] = vouchers[v]
  <2>1. q.op \in {"create_voucher", "mark_paid", "cancel"} => v # q.voucher
    BY <1>0, <1>2, RequestBill
  <2> QED BY <2>1 DEF Commit, Abort, CommitCreateVoucher, CommitMarkPaid,
     CommitCancelPending, CommitCancelPaid, CommitReverse, CommitCreateTDS
<1>3. txns' = txns \/ \E row : txns' = Append(txns, row) /\ row.bill = c
  <2>1. CASE CommitMarkPaid(r)
    BY <2>1, MarkPaidBooks DEF Booked
  <2>2. CASE CommitCancelPaid(r)
    BY <2>2, CancelPaidBooks DEF Booked, TakenBack
  <2>3. CASE CommitReverse(r)
    BY <2>3, ReverseBooks DEF Booked, TakenBack
  <2> QED BY <2>1, <2>2, <2>3 DEF Commit, Abort, CommitCreateVoucher, CommitCancelPending,
          CommitCreateTDS
<1> QED BY <1>0, <1>1, <1>2, <1>3 DEF Local

LEMMA BillStepLocal ==
  ASSUME IInv, BillStep
  PROVE  \E b \in Bill : /\ Local(b) /\ requests' = requests /\ vouchers' = vouchers
                         /\ MayStart(b) \/ bills[b].status = "ABSENT"
                         /\ txns' # txns => bills[b].status # "ABSENT"
<1> USE DEF IInv, TypeOK, Local
<1>1. PICK b \in Bill :
        \/ CreateVendorBill(b) \/ ApproveVendorBill(b) \/ RejectVendorBill(b)
        \/ \E amount \in Amount : PayVendorBill(b, amount)
        \/ \E s \in ManualTDS : UpdateTDS(b, s)
        \/ DeleteTDS(b)
  BY DEF BillStep
<1>2. ASSUME NEW amount \in Amount, PayVendorBill(b, amount)
      PROVE  /\ Local(b) /\ requests' = requests /\ vouchers' = vouchers /\ MayStart(b)
             /\ bills[b].status # "ABSENT"
  <2>1. \E row : txns' = Append(txns, row) /\ row.bill = b
    BY <1>2, PayBooks DEF Booked
  <2> QED BY <1>2, <2>1 DEF PayVendorBill, Posted
<1>3. CASE ~ \E amount \in Amount : PayVendorBill(b, amount)
  <2>1. /\ Local(b) /\ requests' = requests /\ vouchers' = vouchers /\ txns' = txns
        /\ MayStart(b) \/ bills[b].status = "ABSENT"
    BY <1>1, <1>3 DEF CreateVendorBill, ApproveVendorBill, RejectVendorBill, UpdateTDS, DeleteTDS,
       Posted
  <2> QED BY <2>1
<1> QED BY <1>2, <1>3

LEMMA StaysKnown ==
  ASSUME IInv, [Next]_vars, NEW b \in Bill, bills[b].status # "ABSENT"
  PROVE  bills'[b].status # "ABSENT"
<1>1. CASE bills' = bills
  BY <1>1
<1>2. ASSUME NEW c \in Bill, NEW row, BillStepAt(c, row) PROVE bills'[b].status # "ABSENT"
  <2>1. bills'[b] = IF b = c THEN row ELSE bills[b]
    BY <1>2 DEF BillStepAt, IInv, TypeOK
  <2> QED BY <1>2, <2>1 DEF BillStepAt
<1> QED BY <1>1, <1>2, BillSteps

\* A step on another bill leaves a request's rows current.
LEMMA FreshKept ==
  ASSUME IInv, BillLinks, NEW s \in Request, requests[s] # Idle, Fresh(requests[s]),
         NEW c, Local(c), requests[s].bill # c, requests'[s] = requests[s]
  PROVE  Fresh(requests[s])'
<1> DEFINE q == requests[s]
<1>0. /\ q.bill \in Bill \ {c}
      /\ q.op \in {"create_voucher", "mark_paid", "cancel"} => vouchers'[q.voucher] = vouchers[q.voucher]
  BY RequestBill DEF Local
<1>1. bills'[q.bill] = bills[q.bill] /\ tds'[q.bill] = tds[q.bill]
  BY <1>0 DEF Local
<1>2. ASSUME NEW i \in 1..Len(txns'), txns'[i].bill = q.bill
      PROVE  i \in 1..Len(txns) /\ txns[i].bill = q.bill
  <2>1. CASE txns' = txns
    BY <1>2, <2>1
  <2>2. ASSUME NEW row, txns' = Append(txns, row), row.bill = c
        PROVE  i \in 1..Len(txns) /\ txns[i].bill = q.bill
    <3>1. txns' = Append(txns, row) /\ txns \in Seq(TxnRow) /\ q.bill # c
      BY <2>2 DEF IInv, TypeOK
    <3>2. Len(txns') = Len(txns) + 1 /\ Len(txns) \in Nat /\ txns'[Len(txns) + 1] = row
          /\ \A j \in 1..Len(txns) : txns'[j] = txns[j]
      BY <3>1
    <3> HIDE DEF q
    <3> QED BY <1>2, <2>2, <3>1, <3>2
  <2> QED BY <2>1, <2>2 DEF Local
<1> HIDE DEF q
<1>3. Fresh(q)
  BY DEF q
<1>4. Fresh(q)' <=> Fresh(requests[s])'
  BY DEF q
<1>5. q' = q
  BY DEF q
<1> QED BY <1>0, <1>1, <1>2, <1>3, <1>4, <1>5 DEF Fresh

LEMMA BeginFresh ==
  ASSUME ExclusiveInv, NEW r \in Request, Begin(r)
  PROVE  requests'[r] # Idle => Fresh(requests[r])'
<1> USE DEF IInv, TypeOK, ExclusiveInv
<1>1. ASSUME NEW v \in Voucher, NEW gross \in Amount,
             NEW withheld \in Withheld, NEW retention \in Withheld,
             BeginCreateVoucher(r, v, gross, withheld, retention)
      PROVE  Fresh(requests[r])'
  BY <1>1 DEF BeginCreateVoucher, Start, Fresh, Issued
<1>2. ASSUME NEW v \in Voucher, NEW op \in {"mark_paid", "cancel"}, BeginVoucherOp(r, op, v)
      PROVE  Fresh(requests[r])'
  <2>1. vouchers[v].status # "ABSENT"
    BY <1>2 DEF BeginVoucherOp, Issued
  <2>2. bills[BillOf[v]].status # "ABSENT"
    BY <2>1 DEF Known
  <2> QED BY <1>2, <2>2 DEF BeginVoucherOp, Start, Fresh
<1>3. ASSUME NEW t \in 1..Len(txns), BeginReverse(r, t) PROVE Fresh(requests[r])'
  <2>1. bills[txns[t].bill].status # "ABSENT"
    BY DEF Known
  <2> QED BY <1>3, <2>1 DEF BeginReverse, Start, Fresh
<1>4. ASSUME NEW b \in Bill, NEW st \in ManualTDS, NEW amount \in Withheld,
             BeginCreateTDS(r, b, st, amount)
      PROVE  Fresh(requests[r])'
  BY <1>4 DEF BeginCreateTDS, Start, Fresh
<1> QED BY <1>1, <1>2, <1>3, <1>4 DEF Begin

LEMMA BeginAlone ==
  ASSUME Exclusive, ExclusiveInv, NEW r \in Request, Begin(r), NEW s \in Request, s # r,
         requests[s] # Idle
  PROVE  requests'[s] = requests[s] /\ requests'[r].bill # requests[s].bill
<1> USE DEF IInv, TypeOK, ExclusiveInv, MayStart
<1>1. requests'[s] = requests[s]
  BY DEF Begin, BeginCreateVoucher, BeginVoucherOp, BeginReverse, BeginCreateTDS, Start
<1>2. MayStart(requests'[r].bill)
  BY DEF Begin, BeginCreateVoucher, BeginVoucherOp, BeginReverse, BeginCreateTDS, Start
<1> QED BY <1>1, <1>2

LEMMA KnownNext ==
  ASSUME ExclusiveInv, [Next]_vars PROVE Known'
<1> USE DEF ExclusiveInv
<1>1. ASSUME NEW r \in Request, Commit(r) \/ Abort(r)
      PROVE  bills[requests[r].bill].status # "ABSENT"
  BY <1>1, CommitLocal DEF Fresh
<1>2. ASSUME NEW v \in Voucher, vouchers'[v].status # "ABSENT"
      PROVE  bills'[BillOf[v]].status # "ABSENT"
  <2>1. CASE vouchers[v].status # "ABSENT"
    BY <2>1, StaysKnown DEF Known
  <2>2. CASE vouchers[v].status = "ABSENT"
    <3>1. PICK r \in Request, w \in Voucher : \E row : VoucherStep(r, w, row)
      BY <1>2, <2>2, VoucherSteps
    <3>2. w = v
      BY <1>2, <2>2, <3>1 DEF VoucherStep, IInv, TypeOK
    <3>3. Commit(r)
      BY <3>1 DEF VoucherStep, Commit
    <3>4. requests[r].op \in {"create_voucher", "mark_paid", "cancel"} /\ v = requests[r].voucher
      BY <3>1, <3>2 DEF VoucherStep, CommitCreateVoucher, CommitMarkPaid, CommitCancelPending,
         CommitCancelPaid
    <3>5. BillOf[v] = requests[r].bill
      BY <3>4 DEF BillLinks, RequestOfBill
    <3> QED BY <1>1, <3>3, <3>5, StaysKnown
  <2> QED BY <2>1, <2>2
<1>3. ASSUME NEW c \in Bill, NEW row, txns' = Append(txns, row), row.bill = c,
             bills[c].status # "ABSENT", NEW i \in 1..Len(txns')
      PROVE  bills'[txns'[i].bill].status # "ABSENT"
  <2>1. \A j \in 1..Len(txns) : txns[j].bill \in Bill /\ bills[txns[j].bill].status # "ABSENT"
    <3>1. \A j \in 1..Len(txns) : txns[j] \in TxnRow
      BY DEF IInv, TypeOK
    <3> QED BY <3>1 DEF Known, TxnRow
  <2>2. txns'[i].bill = c \/ \E j \in 1..Len(txns) : txns'[i] = txns[j]
    BY <1>3 DEF IInv, TypeOK
  <2> QED BY <1>3, <2>1, <2>2, StaysKnown
<1>4. ASSUME txns' = txns, NEW i \in 1..Len(txns') PROVE bills'[txns'[i].bill].status # "ABSENT"
  <2>1. txns[i] \in TxnRow /\ txns' = txns /\ i \in 1..Len(txns)
    BY <1>4 DEF IInv, TypeOK
  <2> QED BY <2>1, StaysKnown DEF Known, TxnRow
<1>5. ASSUME NEW i \in 1..Len(txns') PROVE bills'[txns'[i].bill].status # "ABSENT"
  <2>1. CASE BooksNothing
    BY <1>4, <2>1 DEF BooksNothing
  <2>2. ASSUME NEW b \in Bill, NEW amount \in Amount, PayVendorBill(b, amount)
        PROVE  bills'[txns'[i].bill].status # "ABSENT"
    <3>1. bills[b].status # "ABSENT"
      BY <2>2 DEF PayVendorBill
    <3> QED BY <1>3, <2>2, <3>1, PayBooks DEF Booked
  <2>3. ASSUME NEW r \in Request, CommitMarkPaid(r) \/ CommitCancelPaid(r) \/ CommitReverse(r)
        PROVE  bills'[txns'[i].bill].status # "ABSENT"
    <3>1. Commit(r)
      BY <2>3 DEF Commit
    <3>2. /\ requests[r].bill \in Bill /\ bills[requests[r].bill].status # "ABSENT"
          /\ Local(requests[r].bill)
      BY <1>1, <3>1, RequestBill, CommitLocal
    <3> QED BY <1>3, <1>4, <3>2 DEF Local
  <2> QED BY <2>1, <2>2, <2>3, OtherSteps
<1> QED BY <1>2, <1>5 DEF Known

LEMMA AloneFreshNext ==
  ASSUME Exclusive, ExclusiveInv, [Next]_vars
  PROVE  Alone' /\ \A s \in Request : requests'[s] # Idle => Fresh(requests[s])'
<1> USE DEF ExclusiveInv
<1> DEFINE Goal == Alone' /\ \A s \in Request : requests'[s] # Idle => Fresh(requests[s])'
<1>1. CASE BillStep
  <2>1. PICK b \in Bill : /\ Local(b) /\ requests' = requests
                          /\ MayStart(b) \/ bills[b].status = "ABSENT"
    BY <1>1, BillStepLocal
  <2>2. ASSUME NEW s \in Request, requests'[s] # Idle PROVE Fresh(requests[s])'
    <3>1. requests[s].bill # b
      BY <2>1, <2>2 DEF MayStart, Fresh
    <3> QED BY <2>1, <2>2, <3>1, FreshKept
  <2> QED BY <2>1, <2>2 DEF Alone
<1>2. ASSUME NEW r \in Request, Begin(r) PROVE Goal
  <2>1. UNCHANGED <<bills, vouchers, txns, ledger, tds>>
    BY <1>2 DEF Begin, BeginCreateVoucher, BeginVoucherOp, BeginReverse, BeginCreateTDS
  <2>2. \A s \in Request : s # r => requests'[s] = requests[s]
    BY <1>2 DEF Begin, BeginCreateVoucher, BeginVoucherOp, BeginReverse, BeginCreateTDS, Start,
       IInv, TypeOK
  <2>3. ASSUME NEW s \in Request, requests'[s] # Idle PROVE Fresh(requests[s])'
    BY <1>2, <2>1, <2>2, <2>3, BeginFresh DEF Fresh
  <2>4. Alone'
    BY <1>2, <2>2, BeginAlone DEF Alone
  <2> QED BY <2>3, <2>4
<1>3. ASSUME NEW r \in Request, Commit(r) \/ Abort(r), requests'[r] = Idle,
             \A s \in Request : s # r => requests'[s] = requests[s]
      PROVE  Goal
  <2>1. requests[r] # Idle /\ Local(requests[r].bill)
    BY <1>3, CommitLocal
  <2>2. ASSUME NEW s \in Request, requests'[s] # Idle PROVE Fresh(requests[s])'
    <3>1. s # r /\ requests'[s] = requests[s] /\ requests[s].bill # requests[r].bill
      BY <1>3, <2>1, <2>2 DEF Alone
    <3>2. Fresh(requests[s]) /\ requests[s] # Idle
      BY <2>2, <3>1
    <3> QED BY <2>1, <3>1, <3>2, FreshKept
  <2>3. Alone'
    BY <1>3 DEF Alone
  <2> QED BY <2>2, <2>3
<1>4. CASE UNCHANGED vars
  BY <1>4 DEF vars, Alone, Fresh
<1>5. CASE Next
  <2>1. ASSUME NEW r \in Request, Commit(r) \/ Abort(r)
        PROVE  /\ requests'[r] = Idle
               /\ \A s \in Request : s # r => requests'[s] = requests[s]
    BY <2>1 DEF Abort, Commit, CommitCreateVoucher, CommitMarkPaid, CommitCancelPending,
       CommitCancelPaid, CommitReverse, CommitCreateTDS, Done, IInv, TypeOK
  <2>2. ASSUME NEW r \in Request, Commit(r) \/ Abort(r) PROVE Goal
    BY <1>3, <2>1, <2>2
  <2> QED BY <1>1, <1>2, <1>5, <2>2 DEF Next
<1> QED BY <1>4, <1>5

LEMMA ExclusiveInit == Init => ExclusiveInv
<1> SUFFICES ASSUME Init PROVE ExclusiveInv
  OBVIOUS
<1>1. IInv /\ BillLinks
  BY InitType, InitLinks, InitBillLinks DEF IInv
<1> QED BY <1>1 DEF Init, ExclusiveInv, Alone, Known

LEMMA ExclusiveNext == ASSUME Exclusive, ExclusiveInv, [Next]_vars PROVE ExclusiveInv'
<1>1. IInv' /\ BillLinks'
  BY NextType, LinksNext, NextBillLinks DEF ExclusiveInv, IInv
<1> QED BY <1>1, KnownNext, AloneFreshNext DEF ExclusiveInv

-----------------------------------------------------------------------------
(* What the exclusive handlers write. *)

\* A flush over the row that was loaded leaves the row the handler made.
LEMMA FlushCurrentBill ==
  ASSUME NEW cur \in BillRow, NEW new \in BillRow PROVE Flushed(cur, cur, new) = new
BY DEF Flushed, BillRow

LEMMA FlushCurrentVoucher ==
  ASSUME NEW cur \in VoucherRow, NEW new \in VoucherRow PROVE Flushed(cur, cur, new) = new
BY DEF Flushed, VoucherRow

Paid(row, paid, status) == [row EXCEPT !.paid = paid, !.status = status]

LEMMA PaidRow ==
  ASSUME NEW row \in BillRow, NEW paid \in Int, NEW status \in BillStatus
  PROVE  /\ Paid(row, paid, status) \in BillRow
         /\ Paid(row, paid, status).paid = paid /\ Paid(row, paid, status).status = status
         /\ Paid(row, paid, status).accrued = row.accrued
BY DEF Paid, BillRow

LEMMA MarkPaidExclusive ==
  ASSUME ExclusiveInv, NEW r \in Request, CommitMarkPaid(r)
  PROVE  LET q  == requests[r]
             b  == q.bill
             pv == vouchers[q.voucher]
         IN  /\ b \in Bill /\ q.voucher \in Voucher /\ BillOf[q.voucher] = b
             /\ q.voucherRow = pv /\ pv.status = "PENDING"
             /\ pv.gross <= Total[b] - bills[b].paid
             /\ vouchers' = [vouchers EXCEPT ![q.voucher] =
                               [pv EXCEPT !.status = "PAID", !.txn = Len(txns) + 1]]
             /\ bills' = [bills EXCEPT ![b] =
                    Paid(bills[b], bills[b].paid + pv.gross,
                         SettledStatus(b, bills[b].paid + pv.gross))]
<1> USE DEF ExclusiveInv, IInv, TypeOK
<1> DEFINE q  == requests[r]
           b  == q.bill
           pv == vouchers[q.voucher]
           newPv == [pv EXCEPT !.status = "PAID", !.txn = Len(txns) + 1]
           paid == bills[b].paid + pv.gross
           new == Paid(bills[b], paid, SettledStatus(b, paid))
<1>0. q.op = "mark_paid" /\ q # Idle
  BY DEF CommitMarkPaid, Idle
<1>1. b \in Bill /\ q.voucher \in Voucher /\ BillOf[q.voucher] = b
  BY <1>0, RequestBill
<1>2. q.billRow = bills[b] /\ q.voucherRow = pv
  BY <1>0 DEF Fresh
<1>3. pv.status = "PENDING" /\ pv.gross <= Total[b] - bills[b].paid
  BY <1>2 DEF CommitMarkPaid, MayPay, Outstanding
<1>4. pv \in VoucherRow /\ bills[b] \in BillRow
  BY <1>1
<1>5. Flushed(pv, pv, newPv) = newPv
  <2>1. newPv \in VoucherRow
    <3>1. Len(txns) + 1 \in Nat
      OBVIOUS
    <3> HIDE DEF pv
    <3> QED BY <1>4, <3>1 DEF VoucherRow, VoucherStatus
  <2> HIDE DEF pv, newPv
  <2> QED BY <1>4, <2>1, FlushCurrentVoucher
<1>6. Flushed(bills[b], bills[b], new) = new
  <2>1. paid \in Int
    <3>1. bills[b].paid \in Int /\ pv.gross \in Nat
      <4> HIDE DEF b, pv
      <4> QED BY <1>4 DEF BillRow, VoucherRow
    <3> HIDE DEF b, pv
    <3> QED BY <3>1
  <2>2. SettledStatus(b, paid) \in BillStatus
    BY DEF SettledStatus, BillStatus
  <2>3. new \in BillRow
    <3> HIDE DEF paid
    <3> QED BY <1>4, <2>1, <2>2, PaidRow
  <2> HIDE DEF new, b
  <2> QED BY <1>4, <2>3, FlushCurrentBill
<1>7. vouchers' = [vouchers EXCEPT ![q.voucher] = Flushed(pv, pv, newPv)]
  BY <1>1, <1>2 DEF CommitMarkPaid
<1>8. bills' = [bills EXCEPT ![b] = Flushed(bills[b], bills[b], new)]
  BY <1>1, <1>2 DEF CommitMarkPaid, Paid
<1> QED BY <1>1, <1>2, <1>3, <1>5, <1>6, <1>7, <1>8

LEMMA CancelPaidExclusive ==
  ASSUME ExclusiveInv, NEW r \in Request, CommitCancelPaid(r)
  PROVE  LET q  == requests[r]
             b  == q.bill
             pv == vouchers[q.voucher]
             paid == bills[b].paid - pv.gross
         IN  /\ b \in Bill /\ q.voucher \in Voucher /\ BillOf[q.voucher] = b
             /\ q.voucherRow = pv /\ pv.status = "PAID"
             /\ pv.tds > 0 => Processed(tds[b]) = {}
             /\ vouchers' = [vouchers EXCEPT ![q.voucher] = [pv EXCEPT !.status = "CANCELLED"]]
             /\ bills' = [bills EXCEPT ![b] =
                    Paid(bills[b], paid, IF paid <= 0 THEN "APPROVED" ELSE "PARTIAL")]
<1> USE DEF ExclusiveInv, IInv, TypeOK
<1> DEFINE q  == requests[r]
           b  == q.bill
           pv == vouchers[q.voucher]
           paid == bills[b].paid - pv.gross
           status == IF paid <= 0 THEN "APPROVED" ELSE "PARTIAL"
           new == Paid(bills[b], paid, status)
<1>0. q.op = "cancel" /\ q # Idle
  BY DEF CommitCancelPaid, Idle
<1>1. b \in Bill /\ q.voucher \in Voucher /\ BillOf[q.voucher] = b
  BY <1>0, RequestBill
<1>2. q.billRow = bills[b] /\ q.voucherRow = pv /\ q.tdsRows = tds[b]
  BY <1>0 DEF Fresh
<1>3. pv.status = "PAID" /\ (pv.tds > 0 => Processed(tds[b]) = {})
  BY <1>2 DEF CommitCancelPaid
<1>4. pv \in VoucherRow /\ bills[b] \in BillRow
  BY <1>1
<1>6. Flushed(bills[b], bills[b], new) = new
  <2>1. paid \in Int
    BY SMTT(40), <1>4 DEF BillRow, VoucherRow
  <2>2. status \in BillStatus
    BY DEF BillStatus
  <2>3. new \in BillRow
    <3> HIDE DEF paid, status
    <3> QED BY <1>4, <2>1, <2>2, PaidRow
  <2> HIDE DEF new, b
  <2> QED BY <1>4, <2>3, FlushCurrentBill
<1>7. vouchers' = [vouchers EXCEPT ![q.voucher] = [pv EXCEPT !.status = "CANCELLED"]]
  BY <1>1, <1>2 DEF CommitCancelPaid
<1>8. bills' = [bills EXCEPT ![b] = Flushed(bills[b], bills[b], new)]
  BY <1>1, <1>2 DEF CommitCancelPaid, Paid
<1> QED BY <1>1, <1>2, <1>3, <1>6, <1>7, <1>8

LEMMA ReverseExclusive ==
  ASSUME ExclusiveInv, NEW r \in Request, CommitReverse(r)
  PROVE  LET q  == requests[r]
             b  == q.bill
             left == bills[b].paid - txns[q.txn].amount
             paid == IF left < 0 THEN 0 ELSE left
         IN  /\ b \in Bill /\ q.txn \in 1..Len(txns) /\ txns[q.txn].bill = b
             /\ Processed(tds[b]) = {}
             /\ \A i \in 1..Len(txns) : txns[i].bill = b => txns[i].reverses # q.txn
             /\ bills' = [bills EXCEPT ![b] =
                    Paid(bills[b], paid,
                         IF paid = 0 THEN "PENDING" ELSE SettledStatus(b, paid))]
<1> USE DEF ExclusiveInv, IInv, TypeOK
<1> DEFINE q  == requests[r]
           b  == q.bill
           left == bills[b].paid - txns[q.txn].amount
           paid == IF left < 0 THEN 0 ELSE left
           status == IF paid = 0 THEN "PENDING" ELSE SettledStatus(b, paid)
           new == Paid(bills[b], paid, status)
<1>0. q.op = "reverse" /\ q # Idle /\ q \in ReverseRequest
  BY RequestByOp DEF CommitReverse, Idle
<1>1. b \in Bill /\ q.txn \in 1..Len(txns) /\ txns[q.txn].bill = b
  BY <1>0, RequestBill
<1>2. q.billRow = bills[b] /\ q.tdsRows = tds[b]
  BY <1>0 DEF Fresh
<1>3. Processed(tds[b]) = {}
  BY <1>2 DEF CommitReverse
<1>4. txns[q.txn] \in TxnRow /\ bills[b] \in BillRow
  BY <1>1
<1>5. ASSUME NEW i \in 1..Len(txns), txns[i].bill = b PROVE txns[i].reverses # q.txn
  <2>1. i <= q.seen
    BY <1>0, <1>5 DEF Fresh
  <2>2. q.seen \in Nat
    BY <1>0 DEF ReverseRequest
  <2>3. i \in 1..q.seen
    BY <2>1, <2>2
  <2> QED BY <2>3 DEF CommitReverse, ReversalExists
<1>6. Flushed(bills[b], bills[b], new) = new
  <2>1. paid \in Int
    <3>1. bills[b].paid \in Int /\ txns[q.txn].amount \in Int
      BY <1>4 DEF BillRow, TxnRow
    <3> QED BY <3>1
  <2>2. status \in BillStatus
    BY DEF BillStatus, SettledStatus
  <2>3. new \in BillRow
    <3> HIDE DEF paid, status
    <3> QED BY <1>4, <2>1, <2>2, PaidRow
  <2> HIDE DEF new, b
  <2> QED BY <1>4, <2>3, FlushCurrentBill
<1>8. bills' = [bills EXCEPT ![b] = Flushed(bills[b], bills[b], new)]
  <2>1. txns[q.txn] = txns[q.txn]
    OBVIOUS
  <2> QED BY <1>1, <1>2 DEF CommitReverse, Paid
<1> QED BY <1>1, <1>3, <1>5, <1>6, <1>8

-----------------------------------------------------------------------------
(* Vouchers and the payments they made. *)

\* The transaction of a voucher is its payment, journal and all.
PaymentOf(pv, table) ==
    pv.txn # 0 =>
        LET t == table[pv.txn] IN
        /\ t.origin = "voucher" /\ t.reverses = 0 /\ t.cancels = 0
        /\ t.lines = Posting(-pv.gross, pv.gross - pv.tds - pv.retention, pv.tds, pv.retention, 0)
VoucherSound(pv, table) ==
    /\ pv.status \in {"ABSENT", "PENDING"} => pv.txn = 0
    /\ pv.status # "ABSENT" => pv.gross > 0
    /\ PaymentOf(pv, table)
\* A reversal is of an earlier transaction of the same bill and takes it back.
ReversalSound(i) ==
    txns[i].reverses # 0 =>
        /\ txns[i].reverses \in 1..Len(txns) /\ txns[i].reverses < i
        /\ txns[i].cancels = 0
        /\ TakenBack(txns[i], txns[txns[i].reverses])
RowsSound ==
    /\ \A v \in Voucher : VoucherSound(vouchers[v], txns)
    /\ \A i \in 1..Len(txns) : ReversalSound(i)

PaymentInv == ExclusiveInv /\ RowsSound /\ ReversedOnce /\ EveryPaymentOwned

\* The row a step books, when it books one.
LEMMA BookedLast ==
  ASSUME TypeOK, NEW row, Booked(row)
  PROVE  /\ Len(txns) \in Nat /\ Len(txns') = Len(txns) + 1
         /\ txns'[Len(txns) + 1] = row
         /\ \A i \in 1..Len(txns) : txns'[i] = txns[i] /\ i \in 1..Len(txns')
         /\ \A i \in 1..Len(txns') : i \in 1..Len(txns) \/ i = Len(txns) + 1
BY DEF Booked, TypeOK

LEMMA PaymentOfKept ==
  ASSUME IInv, Grown, NEW v \in Voucher, VoucherSound(vouchers[v], txns)
  PROVE  VoucherSound(vouchers[v], txns')
<1>1. Len(txns) \in Nat /\ \A i \in 1..Len(txns) : txns'[i] = txns[i]
  BY GrownLen DEF IInv, TypeOK
<1>2. vouchers[v].txn \in 0..Len(txns)
  BY DEF IInv, Links, VoucherLinked
<1> QED BY <1>1, <1>2 DEF VoucherSound, PaymentOf

LEMMA VouchersSoundNext ==
  ASSUME PaymentInv, [Next]_vars, NEW v \in Voucher
  PROVE  VoucherSound(vouchers'[v], txns')
<1> USE DEF PaymentInv, ExclusiveInv
<1>0. IInv /\ TypeOK /\ Grown /\ VoucherSound(vouchers[v], txns') /\ vouchers[v] \in VoucherRow
  BY NextGrown, PaymentOfKept DEF RowsSound, IInv, TypeOK
<1>1. CASE vouchers'[v] = vouchers[v]
  BY <1>0, <1>1
<1>2. ASSUME NEW r \in Request, NEW row, VoucherStep(r, v, row), vouchers'[v] = row
      PROVE  VoucherSound(row, txns')
  <2>1. CASE CommitCreateVoucher(r)
    <3>1. requests[r] \in CreateVoucherRequest /\ v = requests[r].voucher
      BY <1>0, <1>2, <2>1, RequestByOp DEF CommitCreateVoucher, TypeOK, VoucherStep
    <3>2. requests[r].gross \in Nat \ {0}
      BY <3>1 DEF CreateVoucherRequest
    <3>3. row.status = "PENDING" /\ row.gross = requests[r].gross /\ row.txn = 0
      BY <1>0, <1>2, <2>1, <3>1 DEF CommitCreateVoucher, TypeOK
    <3> QED BY <3>2, <3>3 DEF VoucherSound, PaymentOf
  <2>2. CASE CommitMarkPaid(r)
    <3> DEFINE pv == vouchers[v]
               net == pv.gross - pv.tds - pv.retention
    <3>1. v = requests[r].voucher
      BY <1>2 DEF VoucherStep
    <3>2. /\ requests[r].voucherRow = pv /\ pv.status = "PENDING"
          /\ vouchers' = [vouchers EXCEPT ![v] = [pv EXCEPT !.status = "PAID", !.txn = Len(txns) + 1]]
      BY <2>2, <3>1, MarkPaidExclusive
    <3>3. /\ row.status = "PAID" /\ row.txn = Len(txns) + 1 /\ row.gross = pv.gross
          /\ row.tds = pv.tds /\ row.retention = pv.retention
      BY <1>0, <1>2, <3>2 DEF VoucherRow, TypeOK
    <3>4. PICK new : /\ Booked(new) /\ new.origin = "voucher"
                     /\ new.lines = Posting(-pv.gross, net, pv.tds, pv.retention, 0)
                     /\ new.reverses = 0 /\ new.cancels = 0
      BY <2>2, <3>2, MarkPaidBooks
    <3>5. txns'[row.txn] = new
      BY <1>0, <3>3, <3>4, BookedLast
    <3>6. PaymentOf(row, txns')
      BY <3>3, <3>4, <3>5 DEF PaymentOf
    <3>7. row.gross > 0
      BY <3>2, <3>3 DEF RowsSound, VoucherSound
    <3> QED BY <3>3, <3>6, <3>7 DEF VoucherSound
  <2>3. CASE CommitCancelPending(r) \/ CommitCancelPaid(r)
    <3>1. row = [vouchers[v] EXCEPT !.status = "CANCELLED"]
      BY <1>2, <2>3 DEF VoucherStep, CommitCreateVoucher, CommitMarkPaid, CommitCancelPending,
         CommitCancelPaid
    <3>2. /\ row.status = "CANCELLED" /\ row.txn = vouchers[v].txn /\ row.gross = vouchers[v].gross
          /\ row.tds = vouchers[v].tds /\ row.retention = vouchers[v].retention
      BY <1>0, <3>1 DEF VoucherRow
    <3>3. vouchers[v].status # "ABSENT"
      <4>1. requests[r].op = "cancel" /\ requests[r] # Idle /\ v = requests[r].voucher
        BY SMTT(40), <1>2, <2>3 DEF VoucherStep, CommitCancelPending, CommitCancelPaid, Idle
      <4>2. requests[r].voucherRow = vouchers[v]
        BY <4>1 DEF Fresh
      <4> QED BY <2>3, <4>2 DEF CommitCancelPending, CommitCancelPaid
    <3> QED BY <1>0, <3>2, <3>3 DEF VoucherSound, PaymentOf
  <2> QED BY <1>2, <2>1, <2>2, <2>3 DEF VoucherStep
<1>3. ASSUME NEW r \in Request, NEW w \in Voucher, NEW row, VoucherStep(r, w, row)
      PROVE  VoucherSound(vouchers'[v], txns')
  <2>1. vouchers'[v] = IF v = w THEN row ELSE vouchers[v]
    BY <1>0, <1>3 DEF VoucherStep, TypeOK
  <2> QED BY <1>1, <1>2, <1>3, <2>1
<1> QED BY <1>1, <1>3, VoucherSteps

\* What cancel takes back is a payment, never a reversal.
LEMMA CancelledRow ==
  ASSUME PaymentInv, NEW r \in Request, CommitCancelPaid(r)
  PROVE  LET t == vouchers[requests[r].voucher].txn
         IN  /\ t \in 1..Len(txns) /\ txns[t].bill = requests[r].bill
             /\ \E row : /\ Booked(row) /\ TakenBack(row, txns[t])
                         /\ row.reverses = 0 /\ row.cancels = t
<1> DEFINE pv == vouchers[requests[r].voucher]
<1>1. requests[r].voucher \in Voucher /\ requests[r].voucherRow = pv
  BY CancelPaidExclusive DEF PaymentInv
<1>2. /\ pv.txn \in 1..Len(txns) /\ txns[pv.txn].bill = requests[r].bill
      /\ \E row : /\ Booked(row) /\ TakenBack(row, txns[pv.txn])
                  /\ row.reverses = txns[pv.txn].reverses /\ row.cancels = pv.txn
  BY <1>1, CancelPaidBooks DEF PaymentInv, ExclusiveInv
<1>3. txns[pv.txn].reverses = 0
  BY <1>1, <1>2 DEF PaymentInv, RowsSound, VoucherSound, PaymentOf
<1> QED BY <1>2, <1>3

\* The rows steps book: payments, rows that cancel one, and rows that reverse one.
LEMMA ExclusiveBooks ==
  ASSUME PaymentInv, [Next]_vars
  PROVE  \/ BooksNothing
         \/ \E row : Booked(row) /\ row.reverses = 0
         \/ \E row : /\ Booked(row) /\ row.cancels = 0
                     /\ row.reverses \in 1..Len(txns) /\ TakenBack(row, txns[row.reverses])
                     /\ \A i \in 1..Len(txns) : txns[i].reverses # row.reverses
<1> USE DEF PaymentInv, ExclusiveInv
<1>1. ASSUME NEW b \in Bill, NEW amount \in Amount, PayVendorBill(b, amount)
      PROVE  \E row : Booked(row) /\ row.reverses = 0
  BY <1>1, PayBooks
<1>2. ASSUME NEW r \in Request, CommitMarkPaid(r) PROVE \E row : Booked(row) /\ row.reverses = 0
  BY <1>2, MarkPaidBooks
<1>3. ASSUME NEW r \in Request, CommitCancelPaid(r) PROVE \E row : Booked(row) /\ row.reverses = 0
  BY <1>3, CancelledRow
<1>4. ASSUME NEW r \in Request, CommitReverse(r)
      PROVE  \E row : /\ Booked(row) /\ row.cancels = 0
                      /\ row.reverses \in 1..Len(txns) /\ TakenBack(row, txns[row.reverses])
                      /\ \A i \in 1..Len(txns) : txns[i].reverses # row.reverses
  <2> DEFINE t == requests[r].txn
  <2>1. PICK row : Booked(row) /\ TakenBack(row, txns[t]) /\ row.reverses = t /\ row.cancels = 0
    BY <1>4, ReverseBooks
  <2>2. /\ t \in 1..Len(txns) /\ txns[t].bill = requests[r].bill
        /\ \A i \in 1..Len(txns) : txns[i].bill = requests[r].bill => txns[i].reverses # t
    BY <1>4, ReverseExclusive
  <2>3. ASSUME NEW i \in 1..Len(txns), txns[i].reverses = t PROVE FALSE
    <3>1. TakenBack(txns[i], txns[t])
      BY <2>2, <2>3 DEF RowsSound, ReversalSound
    <3> QED BY <2>2, <2>3, <3>1 DEF TakenBack
  <2> HIDE DEF t
  <2> QED BY <2>1, <2>2, <2>3
<1> QED BY <1>1, <1>2, <1>3, <1>4, OtherSteps

LEMMA ReversalsNext ==
  ASSUME PaymentInv, [Next]_vars
  PROVE  (\A i \in 1..Len(txns) : ReversalSound(i))' /\ ReversedOnce'
<1> USE DEF PaymentInv, ExclusiveInv
<1>0. TypeOK /\ ReversedOnce /\ \A i \in 1..Len(txns) : ReversalSound(i)
  BY DEF IInv, RowsSound
<1>1. CASE BooksNothing
  BY <1>0, <1>1 DEF BooksNothing, ReversalSound, ReversedOnce
<1>2. ASSUME NEW row, Booked(row), row.reverses = 0
      PROVE  (\A i \in 1..Len(txns) : ReversalSound(i))' /\ ReversedOnce'
  BY SMTT(40), <1>0, <1>2, BookedLast DEF ReversalSound, ReversedOnce
<1>3. ASSUME NEW row, Booked(row), row.cancels = 0,
             row.reverses \in 1..Len(txns), TakenBack(row, txns[row.reverses]),
             \A i \in 1..Len(txns) : txns[i].reverses # row.reverses
      PROVE  (\A i \in 1..Len(txns) : ReversalSound(i))' /\ ReversedOnce'
  <2>1. ReversedOnce'
    BY <1>0, <1>3, BookedLast DEF ReversedOnce
  <2>2. ASSUME NEW i \in 1..Len(txns') PROVE ReversalSound(i)'
    <3>1. CASE i = Len(txns) + 1
      BY <1>0, <1>3, <3>1, BookedLast DEF ReversalSound
    <3>2. CASE i \in 1..Len(txns)
      BY <1>0, <1>3, <3>2, BookedLast DEF ReversalSound
    <3> QED BY <1>0, <1>3, <3>1, <3>2, BookedLast
  <2> QED BY <2>1, <2>2
<1> QED BY <1>1, <1>2, <1>3, ExclusiveBooks

\* A voucher that owns a payment goes on owning it.
Owned(t, v) ==
    /\ vouchers[v].txn = t
    /\ \/ vouchers[v].status = "PAID"
       \/ /\ vouchers[v].status = "CANCELLED"
          /\ \E i \in 1..Len(txns) : txns[i].cancels = t

LEMMA OwnedKept ==
  ASSUME PaymentInv, [Next]_vars, NEW v \in Voucher, NEW t \in 1..Len(txns), Owned(t, v)
  PROVE  Owned(t, v)'
<1> USE DEF PaymentInv, ExclusiveInv
<1>0. IInv /\ TypeOK /\ Grown /\ vouchers[v] \in VoucherRow
  BY NextGrown DEF IInv, TypeOK
<1>1. \A i \in 1..Len(txns) : i \in 1..Len(txns') /\ txns'[i] = txns[i]
  BY <1>0, GrownLen DEF TypeOK
<1>2. CASE vouchers'[v] = vouchers[v]
  BY <1>1, <1>2 DEF Owned
<1>3. ASSUME NEW r \in Request, NEW row, VoucherStep(r, v, row), vouchers'[v] = row
      PROVE  Owned(t, v)'
  <2>1. v = requests[r].voucher /\ requests[r] # Idle
    BY SMTT(40), <1>3 DEF VoucherStep, CommitCreateVoucher, CommitMarkPaid, CommitCancelPending,
       CommitCancelPaid, Idle
  <2>2. CASE CommitCreateVoucher(r)
    <3>1. vouchers[v].status = "ABSENT"
      BY <2>1, <2>2 DEF Fresh, CommitCreateVoucher
    <3> QED BY <3>1 DEF Owned
  <2>3. CASE CommitMarkPaid(r)
    <3>1. vouchers[v].status = "PENDING"
      BY <2>1, <2>3, MarkPaidExclusive
    <3> QED BY <3>1 DEF Owned
  <2>4. CASE CommitCancelPending(r)
    <3>1. vouchers[v].status = "PENDING"
      BY <2>1, <2>4 DEF Fresh, CommitCancelPending
    <3> QED BY <3>1 DEF Owned
  <2>5. CASE CommitCancelPaid(r)
    <3>1. vouchers' = [vouchers EXCEPT ![v] = [vouchers[v] EXCEPT !.status = "CANCELLED"]]
      BY <2>1, <2>5, CancelPaidExclusive
    <3>2. vouchers'[v].status = "CANCELLED" /\ vouchers'[v].txn = t
      BY <1>0, <3>1 DEF TypeOK, VoucherRow, Owned
    <3>3. PICK new : Booked(new) /\ new.cancels = t
      BY <2>1, <2>5, CancelledRow DEF Owned
    <3>4. \E i \in 1..Len(txns') : txns'[i].cancels = t
      BY <1>0, <3>3, BookedLast
    <3> QED BY <3>2, <3>4 DEF Owned
  <2> QED BY <1>3, <2>2, <2>3, <2>4, <2>5 DEF VoucherStep
<1>4. ASSUME NEW r \in Request, NEW w \in Voucher, NEW row, VoucherStep(r, w, row)
      PROVE  Owned(t, v)'
  <2>1. vouchers'[v] = IF v = w THEN row ELSE vouchers[v]
    BY <1>0, <1>4 DEF VoucherStep, TypeOK
  <2> QED BY <1>2, <1>3, <1>4, <2>1
<1> QED BY <1>2, <1>4, VoucherSteps

LEMMA OwnedNext ==
  ASSUME PaymentInv, [Next]_vars PROVE EveryPaymentOwned'
<1> USE DEF PaymentInv, ExclusiveInv
<1>0. TypeOK /\ IInv /\ Len(txns) \in Nat
  BY DEF IInv, TypeOK
<1>1. ASSUME NEW t \in 1..Len(txns), txns'[t] = txns[t], IsVoucherPayment(t)'
      PROVE  \E v \in Voucher : Owned(t, v)'
  <2>1. \E v \in Voucher : Owned(t, v)
    BY <1>1 DEF EveryPaymentOwned, IsVoucherPayment, Owned
  <2> QED BY <2>1, OwnedKept
<1>2. ASSUME NEW t \in 1..Len(txns'), IsVoucherPayment(t)' PROVE \E v \in Voucher : Owned(t, v)'
  <2>1. CASE BooksNothing
    BY <1>1, <1>2, <2>1 DEF BooksNothing
  <2>2. ASSUME NEW row, Booked(row), row.origin # "voucher" \/ row.reverses # 0 \/ row.cancels # 0
        PROVE  \E v \in Voucher : Owned(t, v)'
    <3>1. t # Len(txns) + 1
      BY <1>0, <1>2, <2>2, BookedLast DEF IsVoucherPayment
    <3> QED BY <1>0, <1>1, <1>2, <2>2, <3>1, BookedLast
  <2>3. ASSUME NEW b \in Bill, NEW amount \in Amount, PayVendorBill(b, amount)
        PROVE  \E v \in Voucher : Owned(t, v)'
    BY <1>0, <2>2, <2>3, PayBooks
  <2>4. ASSUME NEW r \in Request, CommitCancelPaid(r) PROVE \E v \in Voucher : Owned(t, v)'
    BY <2>2, <2>4, CancelledRow
  <2>5. ASSUME NEW r \in Request, CommitReverse(r) PROVE \E v \in Voucher : Owned(t, v)'
    BY <1>0, <2>2, <2>5, ReverseBooks
  <2>6. ASSUME NEW r \in Request, CommitMarkPaid(r) PROVE \E v \in Voucher : Owned(t, v)'
    <3>1. PICK row : Booked(row)
      BY <1>0, <2>6, MarkPaidBooks
    <3>2. CASE t = Len(txns) + 1
      <4> DEFINE v == requests[r].voucher
      <4>1. /\ v \in Voucher
            /\ vouchers' = [vouchers EXCEPT ![v] =
                              [vouchers[v] EXCEPT !.status = "PAID", !.txn = Len(txns) + 1]]
        BY <2>6, MarkPaidExclusive
      <4>2. vouchers'[v].status = "PAID" /\ vouchers'[v].txn = Len(txns) + 1
        <5> HIDE DEF v
        <5> QED BY <1>0, <4>1 DEF TypeOK, VoucherRow
      <4> QED BY <3>2, <4>1, <4>2 DEF Owned
    <3>3. CASE t \in 1..Len(txns)
      BY <1>0, <1>1, <1>2, <3>1, <3>3, BookedLast
    <3> QED BY <1>0, <3>1, <3>2, <3>3, BookedLast
  <2> QED BY <2>1, <2>3, <2>4, <2>5, <2>6, OtherSteps
<1> QED BY <1>2 DEF EveryPaymentOwned, Owned

LEMMA PaymentInit == Init => PaymentInv
<1> SUFFICES ASSUME Init PROVE PaymentInv
  OBVIOUS
<1>1. ExclusiveInv
  BY ExclusiveInit
<1> QED BY <1>1 DEF Init, PaymentInv, RowsSound, VoucherSound, PaymentOf, ReversedOnce,
        EveryPaymentOwned

LEMMA PaymentNext == ASSUME Exclusive, PaymentInv, [Next]_vars PROVE PaymentInv'
<1>1. ExclusiveInv'
  BY ExclusiveNext DEF PaymentInv
<1> QED BY <1>1, VouchersSoundNext, ReversalsNext, OwnedNext DEF PaymentInv, RowsSound

THEOREM PaymentInvAlways == ASSUME Exclusive PROVE Spec => []PaymentInv
<1>1. PaymentInv /\ [Next]_vars => PaymentInv'
  BY PaymentNext
<1> QED BY <1>1, PaymentInit, PTL DEF Spec

\* When requests on a bill do not overlap, a transaction is reversed at most once.
THEOREM ReversedOnceAlways == ASSUME Exclusive PROVE Spec => []ReversedOnce
<1>1. PaymentInv => ReversedOnce
  BY DEF PaymentInv
<1> QED BY <1>1, PaymentInvAlways, PTL

\* When requests on a bill do not overlap, no voucher pays twice.
THEOREM PaymentsOwnedAlways == ASSUME Exclusive PROVE Spec => []EveryPaymentOwned
<1>1. PaymentInv => EveryPaymentOwned
  BY DEF PaymentInv
<1> QED BY <1>1, PaymentInvAlways, PTL

-----------------------------------------------------------------------------
(* No payment whose TDS was remitted is taken back. *)

LEMMA NotRemitted ==
  ASSUME TypeOK, NEW b \in Bill, Processed(tds[b]) = {}
  PROVE  tds[b] \subseteq {"PENDING", "Pending"}
BY DEF TypeOK, TDSStatus, Processed

LEMMA RemittedStep ==
  ASSUME PaymentInv, [Next]_vars, NEW b \in Bill,
         Len(txns') > Len(txns),
         LET t == txns'[Len(txns')]
         IN  t.bill = b /\ (t.reverses # 0 \/ (t.cancels # 0 /\ t.lines["tds"] # 0))
  PROVE  tds[b] \subseteq {"PENDING", "Pending"}
<1> USE DEF PaymentInv, ExclusiveInv
<1>0. TypeOK /\ IInv
  BY DEF IInv
<1>1. ASSUME NEW row, Booked(row), row.reverses = 0, row.cancels = 0 PROVE FALSE
  BY <1>0, <1>1, BookedLast
<1>2. ASSUME NEW c \in Bill, NEW amount \in Amount, PayVendorBill(c, amount) PROVE FALSE
  BY <1>0, <1>1, <1>2, PayBooks
<1>3. ASSUME NEW r \in Request, CommitMarkPaid(r) PROVE FALSE
  BY <1>0, <1>1, <1>3, MarkPaidBooks
<1>4. ASSUME NEW r \in Request, CommitReverse(r) PROVE tds[b] \subseteq {"PENDING", "Pending"}
  <2>1. PICK row : Booked(row) /\ TakenBack(row, txns[requests[r].txn])
    BY <1>0, <1>4, ReverseBooks
  <2>2. row.bill = b
    BY <1>0, <2>1, BookedLast
  <2>3. txns[requests[r].txn].bill = requests[r].bill /\ Processed(tds[requests[r].bill]) = {}
    BY <1>4, ReverseExclusive
  <2> QED BY <1>0, <2>1, <2>2, <2>3, NotRemitted DEF TakenBack
<1>5. ASSUME NEW r \in Request, CommitCancelPaid(r) PROVE tds[b] \subseteq {"PENDING", "Pending"}
  <2> DEFINE v == requests[r].voucher
             t == vouchers[v].txn
  <2>1. PICK row : /\ Booked(row) /\ TakenBack(row, txns[t])
                   /\ row.reverses = 0 /\ t \in 1..Len(txns) /\ txns[t].bill = requests[r].bill
    BY <1>5, CancelledRow
  <2>2. row.bill = b /\ row.lines["tds"] # 0
    BY <1>0, <2>1, BookedLast
  <2>3. v \in Voucher /\ (vouchers[v].tds > 0 => Processed(tds[requests[r].bill]) = {})
    BY <1>5, CancelPaidExclusive
  <2>4. txns[t].lines["tds"] = vouchers[v].tds
    <3> DEFINE pv == vouchers[v]
               net == pv.gross - pv.tds - pv.retention
    <3>1. txns[t].lines = Posting(-pv.gross, net, pv.tds, pv.retention, 0)
      BY <2>1, <2>3 DEF RowsSound, VoucherSound, PaymentOf
    <3> HIDE DEF net, t
    <3> QED BY <3>1 DEF Posting
  <2>5. row.lines["tds"] = -vouchers[v].tds /\ vouchers[v].tds \in Nat
    BY <1>0, <2>1, <2>3, <2>4 DEF TakenBack, Swapped, Accounts, TypeOK, VoucherRow
  <2>6. vouchers[v].tds > 0
    BY <2>2, <2>5
  <2> QED BY <1>0, <2>1, <2>2, <2>3, <2>6, NotRemitted DEF TakenBack
<1>6. CASE BooksNothing
  BY <1>0, <1>6 DEF BooksNothing, TypeOK
<1> QED BY <1>2, <1>3, <1>4, <1>5, <1>6, OtherSteps

\* A payment whose TDS was deposited or posted is never taken back, when requests
\* on a bill do not overlap.
THEOREM RemittedNeverUndone == ASSUME Exclusive PROVE Spec => RemittedTDSNotUndone
<1>1. PaymentInv /\ [Next]_vars =>
        [ \A b \in Bill :
            (/\ Len(txns') > Len(txns)
             /\ LET t == txns'[Len(txns')]
                IN  t.bill = b /\ (t.reverses # 0 \/ (t.cancels # 0 /\ t.lines["tds"] # 0)))
            => tds[b] \subseteq {"PENDING", "Pending"} ]_vars
  BY RemittedStep
<1> QED BY <1>1, PaymentInvAlways, PTL DEF Spec, RemittedTDSNotUndone

-----------------------------------------------------------------------------
(* The subledger: what amount_paid adds up. *)

\* What a transaction settles on the payable account.
Settles(t) == -t.lines["payable"]
Undone(i) == \E j \in 1..Len(txns) : txns[j].reverses = i \/ txns[j].cancels = i
\* The payments of a bill that stand, each with what it settled.
Standing(b) ==
    [i \in 1..Len(txns) |->
        IF txns[i].bill = b /\ Settles(txns[i]) > 0 /\ ~Undone(i) THEN Settles(txns[i]) ELSE 0]

\* A cancellation names a voucher's payment of the same bill; a voucher that is PAID
\* was not cancelled, and no two vouchers share a payment.
CancelSound(i) ==
    txns[i].cancels # 0 =>
        /\ txns[i].cancels \in 1..Len(txns)
        /\ txns[txns[i].cancels].origin = "voucher" /\ txns[i].origin = "voucher"
DirectSound(i) ==
    txns[i].origin = "direct" =>
        /\ txns[i].lines["payable"] = -txns[i].amount /\ txns[i].amount # 0
        /\ txns[i].reverses = 0 => txns[i].amount > 0
CancelsSound ==
    /\ \A i \in 1..Len(txns) : CancelSound(i) /\ DirectSound(i)
    /\ \A v \in Voucher : vouchers[v].status = "PAID" =>
           \A i \in 1..Len(txns) : txns[i].cancels # vouchers[v].txn
    /\ \A v, w \in Voucher : vouchers[v].txn = vouchers[w].txn /\ vouchers[v].txn # 0 => v = w

SettledInv == PaymentInv /\ CancelsSound

LEMMA RowType == ASSUME TypeOK, NEW i \in 1..Len(txns) PROVE txns[i] \in TxnRow /\ Settles(txns[i]) \in Int
<1>1. txns[i] \in TxnRow
  BY DEF TypeOK
<1> QED BY <1>1 DEF Settles, TxnRow, Lines, Accounts

\* Rows that keep the two row invariants.
LEMMA CancelsBooked ==
  ASSUME SettledInv, NEW row, Booked(row),
         row.cancels # 0 => /\ row.cancels \in 1..Len(txns) /\ row.origin = "voucher"
                            /\ txns[row.cancels].origin = "voucher",
         row.origin = "direct" => /\ row.lines["payable"] = -row.amount /\ row.amount # 0
                                  /\ row.reverses = 0 => row.amount > 0,
         NEW i \in 1..Len(txns')
  PROVE  CancelSound(i)' /\ DirectSound(i)'
<1>0. TypeOK /\ \A j \in 1..Len(txns) : CancelSound(j) /\ DirectSound(j)
  BY DEF SettledInv, PaymentInv, ExclusiveInv, IInv, CancelsSound
<1>1. CASE i = Len(txns) + 1
  BY <1>0, <1>1, BookedLast DEF CancelSound, DirectSound
<1>2. CASE i \in 1..Len(txns)
  BY <1>0, <1>2, BookedLast DEF CancelSound, DirectSound
<1> QED BY <1>0, <1>1, <1>2, BookedLast

LEMMA TakenBackDirect ==
  ASSUME TypeOK, NEW t \in 1..Len(txns), DirectSound(t), NEW row, TakenBack(row, txns[t]),
         row.origin = "direct"
  PROVE  row.lines["payable"] = -row.amount /\ row.amount # 0
<1>1. /\ txns[t].lines["payable"] = -txns[t].amount /\ txns[t].amount # 0 /\ txns[t].amount \in Int
      /\ row.amount = -txns[t].amount /\ row.lines = Swapped(txns[t].lines)
  BY RowType DEF TakenBack, DirectSound, TxnRow
<1>2. row.lines["payable"] = -txns[t].lines["payable"]
  BY <1>1 DEF Swapped, Accounts
<1> QED BY <1>1, <1>2

LEMMA CancelRowsNext ==
  ASSUME SettledInv, [Next]_vars, NEW i \in 1..Len(txns')
  PROVE  CancelSound(i)' /\ DirectSound(i)'
<1> USE DEF SettledInv, PaymentInv, ExclusiveInv
<1>0. TypeOK /\ IInv /\ \A j \in 1..Len(txns) : CancelSound(j) /\ DirectSound(j)
  BY DEF IInv, CancelsSound
<1>1. CASE BooksNothing
  BY <1>0, <1>1 DEF BooksNothing, CancelSound, DirectSound
<1>2. ASSUME NEW b \in Bill, NEW amount \in Amount, PayVendorBill(b, amount)
      PROVE  CancelSound(i)' /\ DirectSound(i)'
  <2>1. PICK row : /\ Booked(row) /\ row.cancels = 0 /\ row.amount = amount
                   /\ row.lines = Posting(-amount, amount, 0, 0, 0)
    BY <1>0, <1>2, PayBooks
  <2>2. row.lines["payable"] = -row.amount /\ row.amount # 0 /\ row.amount > 0
    BY <2>1 DEF Posting
  <2> QED BY <2>1, <2>2, CancelsBooked
<1>3. ASSUME NEW r \in Request, CommitMarkPaid(r) PROVE CancelSound(i)' /\ DirectSound(i)'
  <2>1. PICK row : Booked(row) /\ row.cancels = 0 /\ row.origin = "voucher"
    BY <1>0, <1>3, MarkPaidBooks
  <2> QED BY <2>1, CancelsBooked
<1>4. ASSUME NEW r \in Request, CommitReverse(r) PROVE CancelSound(i)' /\ DirectSound(i)'
  <2> DEFINE t == requests[r].txn
  <2>1. PICK row : /\ Booked(row) /\ row.cancels = 0 /\ row.reverses = t
                   /\ TakenBack(row, txns[t]) /\ t \in 1..Len(txns)
    BY <1>0, <1>4, ReverseBooks
  <2>2. row.origin = "direct" => row.lines["payable"] = -row.amount /\ row.amount # 0
    BY <1>0, <2>1, TakenBackDirect
  <2> QED BY <2>1, <2>2, CancelsBooked
<1>5. ASSUME NEW r \in Request, CommitCancelPaid(r) PROVE CancelSound(i)' /\ DirectSound(i)'
  <2> DEFINE v == requests[r].voucher
             t == vouchers[v].txn
  <2>1. PICK row : /\ Booked(row) /\ row.cancels = t /\ TakenBack(row, txns[t])
                   /\ t \in 1..Len(txns)
    BY <1>5, CancelledRow
  <2>2. v \in Voucher
    BY <1>5, CancelPaidExclusive
  <2>3. txns[t].origin = "voucher"
    BY <2>1, <2>2 DEF RowsSound, VoucherSound, PaymentOf
  <2> QED BY <2>1, <2>3, CancelsBooked DEF TakenBack
<1> QED BY <1>1, <1>2, <1>3, <1>4, <1>5, OtherSteps

LEMMA CancelsVouchersNext ==
  ASSUME SettledInv, [Next]_vars
  PROVE  /\ \A v \in Voucher : vouchers'[v].status = "PAID" =>
                \A i \in 1..Len(txns') : txns'[i].cancels # vouchers'[v].txn
         /\ \A v, w \in Voucher :
                vouchers'[v].txn = vouchers'[w].txn /\ vouchers'[v].txn # 0 => v = w
<1> USE DEF SettledInv, PaymentInv, ExclusiveInv
<1>0. /\ TypeOK /\ IInv /\ Grown /\ Len(txns) \in Nat
      /\ \A v \in Voucher : vouchers[v].txn \in 0..Len(txns)
      /\ \A i \in 1..Len(txns) : txns[i].cancels \in 0..Len(txns)
  <2>1. TypeOK /\ IInv /\ Links /\ CancelsSound
    BY DEF IInv
  <2>2. Len(txns) \in Nat
    BY <2>1 DEF TypeOK
  <2>3. \A i \in 1..Len(txns) : txns[i].cancels = 0 \/ txns[i].cancels \in 1..Len(txns)
    BY <2>1 DEF CancelsSound, CancelSound
  <2>4. \A v \in Voucher : vouchers[v].txn \in 0..Len(txns)
    BY <2>1 DEF Links, VoucherLinked
  <2> QED BY <2>1, <2>2, <2>3, <2>4, NextGrown
<1>1. CASE vouchers' = vouchers /\ BooksNothing
  BY <1>1 DEF BooksNothing, CancelsSound
<1>2. ASSUME vouchers' = vouchers, NEW row, Booked(row), row.cancels = 0
      PROVE  /\ \A v \in Voucher : vouchers'[v].status = "PAID" =>
                    \A i \in 1..Len(txns') : txns'[i].cancels # vouchers'[v].txn
             /\ \A v, w \in Voucher :
                    vouchers'[v].txn = vouchers'[w].txn /\ vouchers'[v].txn # 0 => v = w
  <2>1. \A v \in Voucher : vouchers[v].status = "PAID" => vouchers[v].txn # 0
    BY DEF IInv, Links, VoucherLinked
  <2> QED BY <1>0, <1>2, <2>1, BookedLast DEF CancelsSound
<1>3. ASSUME NEW r \in Request, NEW u \in Voucher, NEW new, VoucherStep(r, u, new)
      PROVE  /\ \A v \in Voucher : vouchers'[v].status = "PAID" =>
                    \A i \in 1..Len(txns') : txns'[i].cancels # vouchers'[v].txn
             /\ \A v, w \in Voucher :
                    vouchers'[v].txn = vouchers'[w].txn /\ vouchers'[v].txn # 0 => v = w
  <2>0. \A v \in Voucher : vouchers'[v] = IF v = u THEN new ELSE vouchers[v]
    BY <1>0, <1>3 DEF VoucherStep, TypeOK
  <2>1. CASE CommitCreateVoucher(r)
    <3>1. txns' = txns
      BY <2>1 DEF CommitCreateVoucher
    <3>2. new.txn = 0 /\ new.status = "PENDING"
      BY <1>3, <2>1 DEF VoucherStep, CommitCreateVoucher, CommitMarkPaid, CommitCancelPending,
         CommitCancelPaid
    <3> QED BY <2>0, <3>1, <3>2 DEF CancelsSound
  <2>2. CASE CommitMarkPaid(r)
    <3>1. new.txn = Len(txns) + 1
      BY <1>3, <2>2 DEF VoucherStep, CommitCreateVoucher, CommitMarkPaid, CommitCancelPending,
         CommitCancelPaid
    <3>2. PICK row : Booked(row) /\ row.cancels = 0
      BY <1>0, <2>2, MarkPaidBooks
    <3>3. \A v \in Voucher : vouchers[v].status = "PAID" => vouchers[v].txn # 0
      BY DEF IInv, Links, VoucherLinked
    <3>4. \A i \in 1..Len(txns') : (i \in 1..Len(txns) /\ txns'[i] = txns[i]) \/ txns'[i].cancels = 0
      BY <1>0, <3>2, BookedLast
    <3>5. ASSUME NEW v \in Voucher, vouchers'[v].status = "PAID", NEW i \in 1..Len(txns')
          PROVE  txns'[i].cancels # vouchers'[v].txn
      <4>1. CASE v = u
        BY <1>0, <2>0, <3>1, <3>4, <4>1
      <4>2. CASE v # u
        BY <1>0, <2>0, <3>3, <3>4, <3>5, <4>2 DEF CancelsSound
      <4> QED BY <4>1, <4>2
    <3>6. ASSUME NEW v \in Voucher, NEW w \in Voucher,
                 vouchers'[v].txn = vouchers'[w].txn, vouchers'[v].txn # 0
          PROVE  v = w
      BY <1>0, <2>0, <3>1, <3>6 DEF CancelsSound
    <3> QED BY <3>5, <3>6
  <2>3. CASE CommitCancelPending(r)
    <3>1. txns' = txns
      BY <2>3 DEF CommitCancelPending
    <3>2. new = [vouchers[u] EXCEPT !.status = "CANCELLED"]
      BY <1>3, <2>3 DEF VoucherStep, CommitCreateVoucher, CommitMarkPaid, CommitCancelPending,
         CommitCancelPaid
    <3>3. new.status = "CANCELLED" /\ new.txn = vouchers[u].txn
      BY <1>0, <3>2 DEF TypeOK, VoucherRow
    <3> QED BY <2>0, <3>1, <3>3 DEF CancelsSound
  <2>4. CASE CommitCancelPaid(r)
    <3>1. PICK row : Booked(row) /\ row.cancels = vouchers[u].txn /\ vouchers[u].txn \in 1..Len(txns)
      BY <1>3, <2>4, CancelledRow DEF VoucherStep
    <3>2. new = [vouchers[u] EXCEPT !.status = "CANCELLED"]
      BY <1>3, <2>4 DEF VoucherStep, CommitCreateVoucher, CommitMarkPaid, CommitCancelPending,
         CommitCancelPaid
    <3>3. new.status = "CANCELLED" /\ new.txn = vouchers[u].txn
      BY <1>0, <3>2 DEF TypeOK, VoucherRow
    <3>4. \A v \in Voucher : v # u => vouchers[v].txn # vouchers[u].txn
      BY <3>1 DEF CancelsSound
    <3>5. \A i \in 1..Len(txns') :
              (i \in 1..Len(txns) /\ txns'[i] = txns[i]) \/ txns'[i].cancels = vouchers[u].txn
      BY <1>0, <3>1, BookedLast
    <3>6. ASSUME NEW v \in Voucher, vouchers'[v].status = "PAID", NEW i \in 1..Len(txns')
          PROVE  txns'[i].cancels # vouchers'[v].txn
      BY ZenonT(60), <2>0, <3>3, <3>4, <3>5, <3>6 DEF CancelsSound
    <3>7. ASSUME NEW v \in Voucher, NEW w \in Voucher,
                 vouchers'[v].txn = vouchers'[w].txn, vouchers'[v].txn # 0
          PROVE  v = w
      BY <2>0, <3>3, <3>7 DEF CancelsSound
    <3> QED BY <3>6, <3>7
  <2> QED BY <1>3, <2>1, <2>2, <2>3, <2>4 DEF VoucherStep
<1>4. ASSUME vouchers' = vouchers
      PROVE  BooksNothing \/ \E row : Booked(row) /\ row.cancels = 0
  <2>1. ASSUME NEW r \in Request, CommitMarkPaid(r) PROVE FALSE
    <3> DEFINE v == requests[r].voucher
    <3>1. /\ v \in Voucher /\ vouchers[v].status = "PENDING"
          /\ vouchers' = [vouchers EXCEPT ![v] =
                            [vouchers[v] EXCEPT !.status = "PAID", !.txn = Len(txns) + 1]]
      BY <2>1, MarkPaidExclusive
    <3>2. vouchers'[v].status = "PAID"
      <4> HIDE DEF v
      <4> QED BY <1>0, <3>1 DEF TypeOK, VoucherRow
    <3> QED BY <1>4, <3>1, <3>2
  <2>2. ASSUME NEW r \in Request, CommitCancelPaid(r) PROVE FALSE
    <3> DEFINE v == requests[r].voucher
    <3>1. /\ v \in Voucher /\ vouchers[v].status = "PAID"
          /\ vouchers' = [vouchers EXCEPT ![v] = [vouchers[v] EXCEPT !.status = "CANCELLED"]]
      BY <2>2, CancelPaidExclusive
    <3>2. vouchers'[v].status = "CANCELLED"
      <4> HIDE DEF v
      <4> QED BY <1>0, <3>1 DEF TypeOK, VoucherRow
    <3> QED BY <1>4, <3>1, <3>2
  <2>3. ASSUME NEW r \in Request, CommitReverse(r) PROVE \E row : Booked(row) /\ row.cancels = 0
    BY <1>0, <2>3, ReverseBooks
  <2>4. ASSUME NEW b \in Bill, NEW amount \in Amount, PayVendorBill(b, amount)
        PROVE  \E row : Booked(row) /\ row.cancels = 0
    BY <1>0, <2>4, PayBooks
  <2> QED BY <2>1, <2>2, <2>3, <2>4, OtherSteps
<1> QED BY <1>0, <1>1, <1>2, <1>3, <1>4, VoucherSteps

LEMMA SettledNext == ASSUME Exclusive, SettledInv, [Next]_vars PROVE SettledInv'
<1>1. PaymentInv'
  BY PaymentNext DEF SettledInv
<1>2. CancelsSound'
  BY CancelRowsNext, CancelsVouchersNext DEF CancelsSound
<1> QED BY <1>1, <1>2 DEF SettledInv

LEMMA SettledInit == Init => SettledInv
<1> SUFFICES ASSUME Init PROVE SettledInv
  OBVIOUS
<1>1. PaymentInv
  BY PaymentInit
<1> QED BY <1>1 DEF Init, SettledInv, CancelsSound

-----------------------------------------------------------------------------
(* What a booked row does to the payments that stand. *)

\* What a row adds to the standing payments of b while nobody takes it back.
Adds(row, b) == IF row.bill = b /\ Settles(row) > 0 THEN Settles(row) ELSE 0

LEMMA StandingFinite ==
  ASSUME TypeOK, NEW b
  PROVE  /\ Finitely(Standing(b)) /\ DOMAIN Standing(b) = 1..Len(txns)
         /\ \A i \in 1..Len(txns) : Standing(b)[i] \in Nat
         /\ TotalOf(Standing(b)) \in Nat
         /\ \A i \in 1..Len(txns) : Standing(b)[i] <= TotalOf(Standing(b))
<1>1. Len(txns) \in Nat
  BY DEF TypeOK
<1>2. \A i \in 1..Len(txns) : Standing(b)[i] \in Nat
  BY RowType DEF Standing
<1>3. DOMAIN Standing(b) = 1..Len(txns)
  BY DEF Standing
<1>4. Finitely(Standing(b))
  <2>1. IsFiniteSet(1..Len(txns))
    BY <1>1, FS_Interval
  <2> QED BY <1>2, <1>3, <2>1 DEF Finitely
<1> QED BY <1>2, <1>3, <1>4, TotalNat, TotalAtLeast

\* Nobody names the row to come.
LEMMA NobodyNamesNext ==
  ASSUME SettledInv, NEW j \in 1..Len(txns)
  PROVE  /\ txns[j].reverses # Len(txns) + 1 /\ txns[j].cancels # Len(txns) + 1
         /\ Len(txns) \in Nat
<1>1. ReversalSound(j) /\ CancelSound(j) /\ Len(txns) \in Nat
  BY DEF SettledInv, PaymentInv, ExclusiveInv, IInv, TypeOK, RowsSound, CancelsSound
<1> QED BY <1>1 DEF ReversalSound, CancelSound

\* A payment adds itself.
LEMMA StandingGrown ==
  ASSUME SettledInv, NEW row, Booked(row), row.reverses = 0, row.cancels = 0, NEW b
  PROVE  TotalOf(Standing(b))' = TotalOf(Standing(b)) + Adds(row, b)
<1> DEFINE f == Standing(b)
           g == Standing(b)'
<1>0. TypeOK /\ Len(txns) \in Nat
  BY DEF SettledInv, PaymentInv, ExclusiveInv, IInv, TypeOK
<1> PICK n : n = Len(txns) + 1
  OBVIOUS
<1>1. \A i \in 1..Len(txns) : Undone(i)' <=> Undone(i)
  BY SMTT(40), <1>0, BookedLast DEF Undone
<1>2. ~Undone(n)'
  <2> SUFFICES ASSUME NEW j \in 1..Len(txns') PROVE txns'[j].reverses # n /\ txns'[j].cancels # n
    BY DEF Undone
  <2>1. CASE j \in 1..Len(txns)
    BY <1>0, <2>1, BookedLast, NobodyNamesNext
  <2>2. CASE j = n
    BY <1>0, <2>2, BookedLast
  <2> QED BY <1>0, <2>1, <2>2, BookedLast
<1>3. Finitely(f) /\ DOMAIN f = 1..Len(txns)
  BY <1>0, StandingFinite
<1>4. DOMAIN g = DOMAIN f \cup {n} /\ n \notin DOMAIN f
  BY <1>0, <1>3, BookedLast DEF Standing
<1>5. g[n] = Adds(row, b)
  <2>1. txns'[n] = row /\ n \in 1..Len(txns')
    BY <1>0, BookedLast
  <2> QED BY <1>2, <2>1 DEF Standing, Adds, Settles
<1>6. \A y \in DOMAIN f : g[y] = f[y]
  BY <1>0, <1>1, <1>3, BookedLast DEF Standing
<1>7. g[n] \in Int
  <2>1. row \in TxnRow
    BY DEF Booked
  <2>2. Settles(row) \in Int
    BY <2>1 DEF TxnRow, Lines, Accounts, Settles
  <2> QED BY <1>5, <2>2 DEF Adds
<1> HIDE DEF f, g
<1>8. TotalOf(g) = TotalOf(f) + Adds(row, b)
  BY <1>3, <1>4, <1>5, <1>6, <1>7, TotalGrown
<1> QED BY <1>8 DEF f, g

\* A row that takes t back adds itself, and t stands no more.
LEMMA StandingTaken ==
  ASSUME SettledInv, NEW row, Booked(row), NEW t \in 1..Len(txns),
         \/ row.reverses = t /\ row.cancels = 0
         \/ row.cancels = t /\ row.reverses = 0,
         NEW b
  PROVE  TotalOf(Standing(b))' = TotalOf(Standing(b)) - Standing(b)[t] + Adds(row, b)
<1> DEFINE f == Standing(b)
           h == [i \in DOMAIN f |-> IF i = t THEN 0 ELSE f[i]]
           g == Standing(b)'
<1>0. TypeOK /\ Len(txns) \in Nat
  BY DEF SettledInv, PaymentInv, ExclusiveInv, IInv, TypeOK
<1> PICK n : n = Len(txns) + 1
  OBVIOUS
<1>1. \A i \in 1..Len(txns) : Undone(i)' <=> (Undone(i) \/ i = t)
  <2>1. /\ Len(txns') = n /\ txns'[n] = row /\ n \in 1..Len(txns')
        /\ \A j \in 1..Len(txns) : j \in 1..Len(txns') /\ txns'[j] = txns[j]
        /\ \A j \in 1..Len(txns') : j \in 1..Len(txns) \/ j = n
    BY <1>0, BookedLast
  <2>2. \A i \in 1..Len(txns) : Undone(i) => Undone(i)'
    BY <2>1 DEF Undone
  <2>3. Undone(t)'
    BY <2>1 DEF Undone
  <2>4. ASSUME NEW i \in 1..Len(txns), Undone(i)' PROVE Undone(i) \/ i = t
    <3>1. PICK j \in 1..Len(txns') : txns'[j].reverses = i \/ txns'[j].cancels = i
      BY <2>4 DEF Undone
    <3>2. CASE j = n
      <4>1. i # 0
        BY <1>0, <2>4
      <4> QED BY <2>1, <3>1, <3>2, <4>1
    <3>3. CASE j \in 1..Len(txns)
      BY <2>1, <3>1, <3>3 DEF Undone
    <3> QED BY <2>1, <3>2, <3>3
  <2> QED BY <2>2, <2>3, <2>4
<1>2. ~Undone(n)'
  <2> SUFFICES ASSUME NEW j \in 1..Len(txns') PROVE txns'[j].reverses # n /\ txns'[j].cancels # n
    BY DEF Undone
  <2>1. CASE j \in 1..Len(txns)
    BY <1>0, <2>1, BookedLast, NobodyNamesNext
  <2>2. CASE j = n
    BY <1>0, <2>2, BookedLast
  <2> QED BY <1>0, <2>1, <2>2, BookedLast
<1>3. Finitely(f) /\ DOMAIN f = 1..Len(txns)
  BY <1>0, StandingFinite
<1>4. DOMAIN g = DOMAIN f \cup {n} /\ n \notin DOMAIN f
  BY <1>0, <1>3, BookedLast DEF Standing
<1>5. g[n] = Adds(row, b)
  <2>1. txns'[n] = row /\ n \in 1..Len(txns')
    BY <1>0, BookedLast
  <2> QED BY <1>2, <2>1 DEF Standing, Adds, Settles
<1>6. \A y \in DOMAIN f : g[y] = h[y]
  BY <1>0, <1>1, <1>3, BookedLast DEF Standing
<1>7. g[n] \in Int
  <2>1. row \in TxnRow
    BY DEF Booked
  <2>2. Settles(row) \in Int
    BY <2>1 DEF TxnRow, Lines, Accounts, Settles
  <2> QED BY <1>5, <2>2 DEF Adds
<1>8. DOMAIN h = DOMAIN f /\ h[t] = 0 /\ h[t] \in Int /\ \A y \in DOMAIN f : y # t => h[y] = f[y]
  BY <1>3
<1>9. t \in DOMAIN f
  BY <1>3
<1>10. TotalOf(f) \in Int /\ f[t] \in Int
  BY <1>0, StandingFinite
<1> HIDE DEF f, g, h
<1>11. Finitely(h) /\ TotalOf(h) = TotalOf(f) - f[t] + h[t]
  <2>1. /\ Finitely(f) /\ DOMAIN h = DOMAIN f /\ t \in DOMAIN f /\ h[t] \in Int
        /\ \A y \in DOMAIN f : y # t => h[y] = f[y]
    BY <1>3, <1>8, <1>9
  <2> QED BY ONLY <2>1, TotalChanged
<1>12. TotalOf(g) = TotalOf(h) + g[n]
  BY <1>4, <1>6, <1>7, <1>8, <1>11, TotalGrown
<1>13. TotalOf(g) = TotalOf(f) - f[t] + Adds(row, b)
  BY <1>5, <1>8, <1>10, <1>11, <1>12
<1> QED BY <1>13 DEF f, g

-----------------------------------------------------------------------------
(* Ledger, paid amount and status of a bill say the same. *)

NoSecondReversal(b) ==
    \A i \in 1..Len(txns) :
        txns[i].bill = b /\ txns[i].reverses # 0 => txns[txns[i].reverses].reverses = 0
StatusFits(b, row) ==
    CASE row.status = "PARTIAL" -> 0 < row.paid /\ row.paid < Total[b]
      [] row.status = "PAID"    -> row.paid = Total[b]
      [] OTHER                  -> row.paid = 0
PaidIsStanding(b) == NoVoucherReversal(b) => bills[b].paid = TotalOf(Standing(b))
PayableFits(b) ==
    NoVoucherReversal(b) /\ "Posted" \notin tds[b] =>
        ledger[b]["payable"] = (IF bills[b].accrued THEN Total[b] ELSE 0) - bills[b].paid
BillSound(b) ==
    /\ PaidIsStanding(b)
    /\ PayableFits(b)
    /\ NoVoucherReversal(b) /\ NoSecondReversal(b) => StatusFits(b, bills[b])

SubledgerInv == SettledInv /\ \A b \in Bill : BillSound(b)

LEMMA SubledgerFollows == SubledgerInv => SubledgerAgrees
BY DEF SubledgerInv, BillSound, PayableFits, NoSecondReversal, StatusFits, SubledgerAgrees,
   SubledgerMatchesPayable, StatusMatchesPaid

\* What the rows say of reversals stays said.
LEMMA ReversalsStay ==
  ASSUME SettledInv, [Next]_vars, NEW b
  PROVE  /\ NoVoucherReversal(b)' => NoVoucherReversal(b)
         /\ NoSecondReversal(b)' => NoSecondReversal(b)
<1>0. TypeOK /\ Grown /\ \A i \in 1..Len(txns) : ReversalSound(i)
  BY NextGrown DEF SettledInv, PaymentInv, ExclusiveInv, IInv, RowsSound
<1>1. \A i \in 1..Len(txns) : i \in 1..Len(txns') /\ txns'[i] = txns[i]
  BY <1>0, GrownLen DEF TypeOK
<1>2. \A i \in 1..Len(txns) : txns[i].reverses # 0 => txns[i].reverses \in 1..Len(txns)
  BY <1>0 DEF ReversalSound
<1>3. NoVoucherReversal(b)' => NoVoucherReversal(b)
  BY <1>1 DEF NoVoucherReversal
<1>4. NoSecondReversal(b)' => NoSecondReversal(b)
  BY <1>1, <1>2 DEF NoSecondReversal
<1> QED BY <1>3, <1>4

\* A step that moves no row of the bill keeps what was said of it.
LEMMA QuietBill ==
  ASSUME SubledgerInv, [Next]_vars, NEW x \in Bill,
         TotalOf(Standing(x))' = TotalOf(Standing(x)),
         bills'[x].paid = bills[x].paid,
         "Posted" \notin tds'[x] =>
            /\ "Posted" \notin tds[x]
            /\ ledger'[x]["payable"] - (IF bills'[x].accrued THEN Total[x] ELSE 0)
                  = ledger[x]["payable"] - (IF bills[x].accrued THEN Total[x] ELSE 0),
         StatusFits(x, bills[x]) => StatusFits(x, bills'[x])
  PROVE  BillSound(x)'
<1>0. BillSound(x) /\ SettledInv /\ TypeOK /\ TypeOK'
  BY NextType DEF SubledgerInv, SettledInv, PaymentInv, ExclusiveInv, IInv
<1>1. /\ NoVoucherReversal(x)' => NoVoucherReversal(x)
      /\ NoSecondReversal(x)' => NoSecondReversal(x)
  BY <1>0, ReversalsStay
<1>2. /\ ledger[x]["payable"] \in Int /\ ledger'[x]["payable"] \in Int
      /\ bills[x].paid \in Int /\ Total[x] \in Int
  BY <1>0 DEF TypeOK, Lines, Accounts, BillRow
<1>3. PaidIsStanding(x)'
  BY <1>0, <1>1 DEF BillSound, PaidIsStanding
<1>4. PayableFits(x)'
  <2> SUFFICES ASSUME NoVoucherReversal(x)', "Posted" \notin tds'[x]
               PROVE  ledger'[x]["payable"] =
                        (IF bills'[x].accrued THEN Total[x] ELSE 0) - bills'[x].paid
    BY DEF PayableFits
  <2>1. ledger[x]["payable"] = (IF bills[x].accrued THEN Total[x] ELSE 0) - bills[x].paid
    BY <1>0, <1>1 DEF BillSound, PayableFits
  <2> DEFINE k == IF bills[x].accrued THEN Total[x] ELSE 0
             l == IF bills'[x].accrued THEN Total[x] ELSE 0
             p == ledger[x]["payable"]
             q == ledger'[x]["payable"]
  <2>2. k \in Int /\ l \in Int /\ p \in Int /\ q \in Int
    BY <1>2
  <2>3. q - l = p - k /\ p = k - bills[x].paid
    BY <2>1
  <2> HIDE DEF k, l, p, q
  <2>4. q = l - bills[x].paid
    BY <1>2, <2>2, <2>3
  <2> QED BY <2>4 DEF q, l
<1>5. NoVoucherReversal(x)' /\ NoSecondReversal(x)' => StatusFits(x, bills'[x])
  BY <1>0, <1>1 DEF BillSound
<1> QED BY <1>3, <1>4, <1>5 DEF BillSound, StatusFits

\* A step that books a row of the bill and moves its paid amount as much.
LEMMA BookedBill ==
  ASSUME SubledgerInv, [Next]_vars, NEW row, Booked(row), NEW x \in Bill, row.bill = x,
         NoVoucherReversal(x)' =>
            /\ TotalOf(Standing(x))' = TotalOf(Standing(x)) + Settles(row)
            /\ bills'[x].paid = bills[x].paid + Settles(row),
         bills'[x].accrued = bills[x].accrued,
         "Posted" \notin tds'[x] => "Posted" \notin tds[x],
         NoVoucherReversal(x)' /\ NoSecondReversal(x)' => StatusFits(x, bills'[x])
  PROVE  BillSound(x)'
<1>0. BillSound(x) /\ SettledInv /\ TypeOK /\ TypeOK'
  BY NextType DEF SubledgerInv, SettledInv, PaymentInv, ExclusiveInv, IInv
<1>1. NoVoucherReversal(x)' => NoVoucherReversal(x)
  BY <1>0, ReversalsStay
<1>2. /\ ledger[x]["payable"] \in Int /\ bills[x].paid \in Int /\ Total[x] \in Int
  BY <1>0 DEF TypeOK, Lines, Accounts, BillRow
<1>3. row \in TxnRow /\ row.lines \in Lines /\ row.lines["payable"] \in Int
  BY DEF Booked, TxnRow, Lines, Accounts
<1>4. ledger'[x]["payable"] = ledger[x]["payable"] - Settles(row) /\ Settles(row) \in Int
  <2>1. ledger'[x]["payable"] = ledger[x]["payable"] + row.lines["payable"]
    BY <1>0, <1>3, PostedAt DEF Booked, TypeOK, Accounts
  <2> QED BY <1>2, <1>3, <2>1 DEF Settles
<1>5. PaidIsStanding(x)'
  BY <1>0, <1>1 DEF BillSound, PaidIsStanding
<1>6. PayableFits(x)'
  <2> SUFFICES ASSUME NoVoucherReversal(x)', "Posted" \notin tds'[x]
               PROVE  ledger'[x]["payable"] =
                        (IF bills'[x].accrued THEN Total[x] ELSE 0) - bills'[x].paid
    BY DEF PayableFits
  <2> DEFINE k == IF bills[x].accrued THEN Total[x] ELSE 0
  <2>1. ledger[x]["payable"] = k - bills[x].paid /\ k \in Int
    BY <1>0, <1>1, <1>2 DEF BillSound, PayableFits
  <2>2. bills'[x].paid = bills[x].paid + Settles(row)
    OBVIOUS
  <2>3. k = IF bills'[x].accrued THEN Total[x] ELSE 0
    OBVIOUS
  <2> HIDE DEF k
  <2>4. ledger'[x]["payable"] = k - bills'[x].paid
    BY <1>2, <1>4, <2>1, <2>2
  <2> QED BY <2>3, <2>4
<1> QED BY <1>5, <1>6 DEF BillSound, StatusFits

-----------------------------------------------------------------------------
(* One lemma per action on the books of a bill. *)

LEMMA SubledgerTyped ==
  ASSUME SubledgerInv
  PROVE  /\ SettledInv /\ PaymentInv /\ ExclusiveInv /\ BillLinks /\ IInv /\ TypeOK
         /\ Len(txns) \in Nat
         /\ \A b \in Bill : /\ bills[b] \in BillRow /\ bills[b].paid \in Int
                            /\ ledger[b]["payable"] \in Int
                            /\ Total[b] \in Nat \ {0} /\ BillSound(b)
<1>1. /\ SettledInv /\ PaymentInv /\ ExclusiveInv /\ BillLinks /\ IInv /\ TypeOK
  BY DEF SubledgerInv, SettledInv, PaymentInv, ExclusiveInv, IInv
<1>2. \A b \in Bill : bills[b] \in BillRow /\ ledger[b] \in Lines
  BY <1>1 DEF TypeOK
<1> QED BY <1>1, <1>2 DEF TypeOK, BillRow, Lines, Accounts, SubledgerInv

\* A step that books nothing and changes no paid amount of a bill.
LEMMA UnbookedBill ==
  ASSUME SubledgerInv, [Next]_vars, BooksNothing, NEW x \in Bill,
         bills'[x].paid = bills[x].paid,
         "Posted" \notin tds'[x] =>
            /\ "Posted" \notin tds[x]
            /\ ledger'[x]["payable"] - (IF bills'[x].accrued THEN Total[x] ELSE 0)
                  = ledger[x]["payable"] - (IF bills[x].accrued THEN Total[x] ELSE 0),
         StatusFits(x, bills[x]) => StatusFits(x, bills'[x])
  PROVE  BillSound(x)'
<1>1. Standing(x)' = Standing(x)
  BY DEF BooksNothing, Standing, Undone
<1> QED BY <1>1, QuietBill

LEMMA BillStepSubledger ==
  ASSUME SubledgerInv, NEW b \in Bill,
         \/ CreateVendorBill(b) \/ ApproveVendorBill(b) \/ RejectVendorBill(b)
         \/ \E s \in ManualTDS : UpdateTDS(b, s)
         \/ DeleteTDS(b),
         [Next]_vars, NEW x \in Bill
  PROVE  BillSound(x)'
<1>0. /\ TypeOK /\ bills[x] \in BillRow /\ bills[b] \in BillRow /\ Total[b] \in Nat
      /\ ledger[x]["payable"] \in Int /\ "payable" \in Accounts
  BY SubledgerTyped DEF Accounts
<1>1. ASSUME NEW s \in {"PENDING", "REJECTED"}, bills[b].status \in {"ABSENT", "PENDING"},
             bills' = [bills EXCEPT ![b].status = s],
             UNCHANGED <<txns, ledger, tds>>
      PROVE  BillSound(x)'
  <2> DEFINE row == [bills[b] EXCEPT !.status = s]
  <2>1. row.status = s /\ row.paid = bills[b].paid /\ row.accrued = bills[b].accrued
    BY <1>0 DEF BillRow
  <2>2. bills'[x] = IF x = b THEN row ELSE bills[x]
    BY <1>0, <1>1 DEF TypeOK
  <2> HIDE DEF row
  <2>3. bills'[x].paid = bills[x].paid /\ bills'[x].accrued = bills[x].accrued
    BY <2>1, <2>2
  <2>4. StatusFits(x, bills[x]) => StatusFits(x, bills'[x])
    BY <1>1, <2>1, <2>2 DEF StatusFits
  <2> QED BY <1>1, <2>3, <2>4, UnbookedBill DEF BooksNothing
<1>2. CASE CreateVendorBill(b) \/ RejectVendorBill(b)
  BY <1>1, <1>2 DEF CreateVendorBill, RejectVendorBill
<1>3. CASE ApproveVendorBill(b)
  <2> DEFINE row == [bills[b] EXCEPT !.status = "APPROVED", !.accrued = TRUE]
             lines == Posting(Total[b], 0, 0, 0, -Total[b])
  <2>1. row.status = "APPROVED" /\ row.paid = bills[b].paid /\ row.accrued
    BY <1>0 DEF BillRow
  <2>2. bills'[x] = IF x = b THEN row ELSE bills[x]
    BY <1>0, <1>3 DEF TypeOK, ApproveVendorBill
  <2>3. ledger' = (IF bills[b].accrued THEN ledger ELSE Posted(b, lines))
    BY <1>0, <1>3 DEF ApproveVendorBill, AccrualDue, BillRow
  <2>4. lines \in Lines /\ lines["payable"] = Total[b]
    <3>1. Total[b] \in Int /\ -Total[b] \in Int /\ 0 \in Int
      BY <1>0
    <3> QED BY <3>1, PostingType DEF Posting
  <2> HIDE DEF lines, row
  <2>5. Posted(b, lines)[x]["payable"] =
          IF x = b THEN ledger[b]["payable"] + Total[b] ELSE ledger[x]["payable"]
    BY <1>0, <2>4, PostedAt DEF TypeOK
  <2>6. ledger'[x]["payable"] - (IF bills'[x].accrued THEN Total[x] ELSE 0)
          = ledger[x]["payable"] - (IF bills[x].accrued THEN Total[x] ELSE 0)
    <3>1. CASE x = b /\ ~bills[b].accrued
      <4>1. ledger'[x]["payable"] = ledger[x]["payable"] + Total[x] /\ bills'[x].accrued
        BY <2>1, <2>2, <2>3, <2>5, <3>1
      <4> QED BY <1>0, <3>1, <4>1
    <3>2. CASE ~(x = b /\ ~bills[b].accrued)
      <4>1. ledger'[x]["payable"] = ledger[x]["payable"]
        BY <2>3, <2>5, <3>2
      <4>2. bills'[x].accrued <=> bills[x].accrued
        BY <2>1, <2>2, <3>2
      <4> QED BY <4>1, <4>2
    <3> QED BY <3>1, <3>2
  <2>7. bills[b].status = "PENDING" /\ UNCHANGED <<txns, tds>>
    BY <1>3 DEF ApproveVendorBill
  <2>8. StatusFits(x, bills[x]) => StatusFits(x, bills'[x])
    BY <2>1, <2>2, <2>7 DEF StatusFits
  <2>9. bills'[x].paid = bills[x].paid
    BY <2>1, <2>2
  <2> QED BY <2>6, <2>7, <2>8, <2>9, UnbookedBill DEF BooksNothing
<1>4. CASE DeleteTDS(b) \/ \E s \in ManualTDS : UpdateTDS(b, s)
  <2>1. UNCHANGED <<bills, txns, ledger>>
    BY <1>4 DEF DeleteTDS, UpdateTDS
  <2>2. "Posted" \notin tds'[x] => "Posted" \notin tds[x]
    <3>1. \E old \in tds[b] \ {"PENDING", "Posted"} : \E new :
             tds' = [tds EXCEPT ![b] = (tds[b] \ {old}) \cup new]
      <4>1. CASE DeleteTDS(b)
        <5>1. PICK old \in tds[b] \ {"PENDING", "Posted"} : tds' = [tds EXCEPT ![b] = tds[b] \ {old}]
          BY <4>1 DEF DeleteTDS
        <5>2. (tds[b] \ {old}) \cup {} = tds[b] \ {old}
          OBVIOUS
        <5> QED BY <5>1, <5>2
      <4>2. ASSUME NEW s \in ManualTDS, UpdateTDS(b, s)
            PROVE  \E old \in tds[b] \ {"PENDING", "Posted"} : \E new :
                      tds' = [tds EXCEPT ![b] = (tds[b] \ {old}) \cup new]
        BY <4>2 DEF UpdateTDS
      <4> QED BY <1>4, <4>1, <4>2
    <3> QED BY <1>0, <3>1 DEF TypeOK
  <2> QED BY <2>1, <2>2, UnbookedBill DEF BooksNothing, StatusFits
<1> QED BY <1>2, <1>3, <1>4

LEMMA QuietCommitSubledger ==
  ASSUME SubledgerInv, [Next]_vars, NEW x \in Bill,
         \/ UNCHANGED <<bills, txns, ledger, tds>>
         \/ \E r \in Request : CommitCreateTDS(r)
  PROVE  BillSound(x)'
<1>0. TypeOK
  BY SubledgerTyped
<1>1. CASE UNCHANGED <<bills, txns, ledger, tds>>
  BY <1>1, UnbookedBill DEF BooksNothing
<1>2. ASSUME NEW r \in Request, CommitCreateTDS(r) PROVE BillSound(x)'
  <2> DEFINE q == requests[r]
  <2>1. q \in TDSRequest
    BY <1>0, <1>2, RequestByOp DEF CommitCreateTDS, TypeOK
  <2>2. q.bill \in Bill
    BY <2>1 DEF TDSRequest
  <2>3. tds' = [tds EXCEPT ![q.bill] = tds[q.bill] \cup {q.status}] /\ UNCHANGED <<bills, txns>>
        /\ ledger' = (IF q.status = "Posted"
                      THEN Posted(q.bill, Posting(-q.amount, 0, q.amount, 0, 0)) ELSE ledger)
    BY <1>2 DEF CommitCreateTDS
  <2> HIDE DEF q
  <2>4. tds'[x] = IF x = q.bill THEN tds[x] \cup {q.status} ELSE tds[x]
    BY <1>0, <2>2, <2>3 DEF TypeOK
  <2>5. "Posted" \notin tds'[x] => "Posted" \notin tds[x] /\ ledger'[x] = ledger[x]
    BY <1>0, <2>2, <2>3, <2>4 DEF TypeOK, Posted
  <2> QED BY <2>3, <2>5, UnbookedBill DEF BooksNothing
<1> QED BY <1>1, <1>2

\* The books of another bill than the one a booked row is of.
LEMMA OtherBill ==
  ASSUME SubledgerInv, [Next]_vars, NEW row, Booked(row), NEW x \in Bill, row.bill # x,
         Local(row.bill),
         \/ row.reverses = 0 /\ row.cancels = 0
         \/ \E t \in 1..Len(txns) :
              /\ txns[t].bill = row.bill
              /\ \/ row.reverses = t /\ row.cancels = 0
                 \/ row.cancels = t /\ row.reverses = 0
  PROVE  BillSound(x)'
<1>0. SettledInv /\ TypeOK
  BY SubledgerTyped
<1>1. Adds(row, x) = 0
  BY DEF Adds
<1>2. TotalOf(Standing(x)) \in Nat
  BY <1>0, StandingFinite
<1>3. TotalOf(Standing(x))' = TotalOf(Standing(x))
  <2>1. CASE row.reverses = 0 /\ row.cancels = 0
    BY <1>0, <1>1, <1>2, <2>1, StandingGrown
  <2>2. ASSUME NEW t \in 1..Len(txns), txns[t].bill = row.bill,
               \/ row.reverses = t /\ row.cancels = 0
               \/ row.cancels = t /\ row.reverses = 0
        PROVE  TotalOf(Standing(x))' = TotalOf(Standing(x))
    <3>1. Standing(x)[t] = 0
      BY <2>2 DEF Standing
    <3> QED BY <1>0, <1>1, <1>2, <2>2, <3>1, StandingTaken
  <2> QED BY <2>1, <2>2
<1>4. bills'[x] = bills[x] /\ tds'[x] = tds[x] /\ ledger'[x] = ledger[x]
  BY DEF Local
<1> QED BY <1>3, <1>4, QuietBill

LEMMA PaySubledger ==
  ASSUME SubledgerInv, [Next]_vars, NEW b \in Bill, NEW amount \in Amount,
         PayVendorBill(b, amount), NEW x \in Bill
  PROVE  BillSound(x)'
<1>0. /\ SettledInv /\ TypeOK /\ IInv /\ bills[b] \in BillRow /\ bills[b].paid \in Int
      /\ Total[b] \in Nat \ {0} /\ BillSound(b)
  BY SubledgerTyped
<1>1. PICK row : /\ Booked(row) /\ row.bill = b
                 /\ row.lines = Posting(-amount, amount, 0, 0, 0)
                 /\ row.reverses = 0 /\ row.cancels = 0
  BY <1>0, PayBooks
<1> DEFINE paid == bills[b].paid + amount
           new == Paid(bills[b], paid, SettledStatus(b, paid))
<1>2. amount \in Nat \ {0} /\ paid \in Int /\ paid <= Total[b]
      /\ bills[b].status \in {"APPROVED", "PARTIAL", "PAID"}
  BY <1>0 DEF PayVendorBill, Outstanding
<1>3. bills' = [bills EXCEPT ![b] = new] /\ tds' = tds
  BY DEF PayVendorBill, Paid
<1>4. new.paid = paid /\ new.status = SettledStatus(b, paid) /\ new.accrued = bills[b].accrued
  <2>1. SettledStatus(b, paid) \in BillStatus
    BY DEF SettledStatus, BillStatus
  <2> HIDE DEF paid
  <2> QED BY <1>0, <1>2, <2>1, PaidRow
<1>5. Settles(row) = amount /\ Adds(row, b) = amount
  <2>1. row.lines["payable"] = -amount
    BY <1>1 DEF Posting
  <2> QED BY <1>1, <1>2, <2>1 DEF Settles, Adds
<1>6. CASE x = b
  <2>1. bills'[b] = new
    BY <1>0, <1>3 DEF TypeOK
  <2>2. TotalOf(Standing(b))' = TotalOf(Standing(b)) + Settles(row) /\ TotalOf(Standing(b)) \in Nat
    BY <1>0, <1>1, <1>5, StandingGrown, StandingFinite
  <2>3. bills'[b].paid = bills[b].paid + Settles(row)
    BY <1>4, <1>5, <2>1
  <2>4. NoVoucherReversal(b)' /\ NoSecondReversal(b)' => StatusFits(b, bills'[b])
    <3> SUFFICES ASSUME NoVoucherReversal(b)' PROVE StatusFits(b, new)
      BY <2>1
    <3>1. bills[b].paid = TotalOf(Standing(b))
      BY <1>0, ReversalsStay DEF BillSound, PaidIsStanding
    <3>2. 0 < paid
      BY <1>2, <2>2, <3>1
    <3> HIDE DEF new, paid
    <3> QED BY <1>0, <1>2, <1>4, <3>2 DEF StatusFits, SettledStatus
  <2> HIDE DEF new
  <2> QED BY <1>1, <1>3, <1>4, <1>6, <2>1, <2>2, <2>3, <2>4, BookedBill
<1>7. CASE x # b
  <2>1. Local(b)
    <3>1. \A c \in Bill \ {b} : bills'[c] = bills[c] /\ ledger'[c] = ledger[c] /\ tds'[c] = tds[c]
      BY <1>0, <1>3 DEF PayVendorBill, Posted, TypeOK
    <3> QED BY <1>1, <3>1 DEF Local, Booked, PayVendorBill
  <2> QED BY <1>1, <1>7, <2>1, OtherBill
<1> QED BY <1>6, <1>7

LEMMA MarkPaidSubledger ==
  ASSUME SubledgerInv, [Next]_vars, NEW r \in Request, CommitMarkPaid(r), NEW x \in Bill
  PROVE  BillSound(x)'
<1> PICK q : q = requests[r]
  OBVIOUS
<1> PICK b : b = q.bill
  OBVIOUS
<1> PICK pv : pv = vouchers[q.voucher]
  OBVIOUS
<1> DEFINE net == pv.gross - pv.tds - pv.retention
           paid == bills[b].paid + pv.gross
           new == Paid(bills[b], paid, SettledStatus(b, paid))
<1>a. ExclusiveInv /\ IInv /\ BillLinks /\ SettledInv /\ TypeOK /\ RowsSound
  BY SubledgerTyped DEF PaymentInv
<1>b. /\ b \in Bill /\ q.voucher \in Voucher /\ q.voucherRow = pv /\ pv.status = "PENDING"
      /\ pv.gross <= Total[b] - bills[b].paid
      /\ bills' = [bills EXCEPT ![b] = new]
  BY <1>a, MarkPaidExclusive
<1>0. /\ bills[b] \in BillRow /\ bills[b].paid \in Int /\ Total[b] \in Nat \ {0} /\ BillSound(b)
  BY <1>b, SubledgerTyped
<1>1. PICK row : /\ Booked(row) /\ row.bill = b
                 /\ row.lines = Posting(-pv.gross, net, pv.tds, pv.retention, 0)
                 /\ row.reverses = 0 /\ row.cancels = 0
  BY <1>a, <1>b, MarkPaidBooks
<1>2. pv.gross \in Nat \ {0} /\ paid \in Int /\ paid <= Total[b]
  <2>1. pv.gross \in Nat /\ pv.gross > 0
    BY <1>a, <1>b DEF TypeOK, VoucherRow, RowsSound, VoucherSound
  <2> QED BY <1>b, <1>0, <2>1
<1>3. "Posted" \notin tds'[b] => "Posted" \notin tds[b]
  BY <1>a, <1>b DEF CommitMarkPaid, TypeOK
<1>4. new.paid = paid /\ new.status = SettledStatus(b, paid) /\ new.accrued = bills[b].accrued
  <2>1. SettledStatus(b, paid) \in BillStatus
    BY DEF SettledStatus, BillStatus
  <2> HIDE DEF paid
  <2> QED BY <1>0, <1>2, <2>1, PaidRow
<1>5. Settles(row) = pv.gross /\ Adds(row, b) = pv.gross
  <2>1. row.lines["payable"] = -pv.gross
    <3> HIDE DEF net
    <3> QED BY <1>1 DEF Posting
  <2> QED BY SMTT(40), <1>1, <1>2, <2>1 DEF Settles, Adds
<1>6. CASE x = b
  <2>1. bills'[b] = new
    BY <1>a, <1>b DEF TypeOK
  <2>2. TotalOf(Standing(b))' = TotalOf(Standing(b)) + Settles(row) /\ TotalOf(Standing(b)) \in Nat
    BY <1>a, <1>1, <1>5, StandingGrown, StandingFinite
  <2>3. bills'[b].paid = bills[b].paid + Settles(row)
    BY <1>4, <1>5, <2>1
  <2>4. NoVoucherReversal(b)' /\ NoSecondReversal(b)' => StatusFits(b, bills'[b])
    <3> SUFFICES ASSUME NoVoucherReversal(b)' PROVE StatusFits(b, new)
      BY <2>1
    <3>1. bills[b].paid = TotalOf(Standing(b))
      BY <1>0, <1>a, ReversalsStay DEF BillSound, PaidIsStanding
    <3>2. 0 < paid
      BY <1>2, <2>2, <3>1
    <3> HIDE DEF new, paid
    <3> QED BY <1>0, <1>2, <1>4, <3>2 DEF StatusFits, SettledStatus
  <2> HIDE DEF new
  <2> QED BY <1>1, <1>3, <1>4, <1>6, <2>1, <2>2, <2>3, <2>4, BookedBill
<1>7. CASE x # b
  <2>1. Local(b)
    BY <1>a, CommitLocal DEF Commit
  <2> QED BY <1>1, <1>7, <2>1, OtherBill
<1> QED BY <1>6, <1>7

LEMMA CancelPaidSubledger ==
  ASSUME SubledgerInv, [Next]_vars, NEW r \in Request, CommitCancelPaid(r), NEW x \in Bill
  PROVE  BillSound(x)'
<1> PICK q : q = requests[r]
  OBVIOUS
<1> PICK b : b = q.bill
  OBVIOUS
<1> PICK pv : pv = vouchers[q.voucher]
  OBVIOUS
<1> PICK t : t = pv.txn
  OBVIOUS
<1> DEFINE paid == bills[b].paid - pv.gross
           status == IF paid <= 0 THEN "APPROVED" ELSE "PARTIAL"
           new == Paid(bills[b], paid, status)
<1>a. /\ ExclusiveInv /\ IInv /\ BillLinks /\ SettledInv /\ PaymentInv /\ TypeOK /\ RowsSound
      /\ CancelsSound
  BY SubledgerTyped DEF PaymentInv, SettledInv
<1>b. /\ b \in Bill /\ q.voucher \in Voucher /\ pv.status = "PAID"
      /\ bills' = [bills EXCEPT ![b] = new]
  BY <1>a, CancelPaidExclusive
<1>0. /\ bills[b] \in BillRow /\ bills[b].paid \in Int /\ Total[b] \in Nat \ {0} /\ BillSound(b)
  BY <1>b, SubledgerTyped
<1>1. t \in 1..Len(txns) /\ txns[t].bill = b
      /\ \E row : Booked(row) /\ TakenBack(row, txns[t]) /\ row.reverses = 0 /\ row.cancels = t
  BY <1>a, CancelledRow
<1> PICK row : Booked(row) /\ TakenBack(row, txns[t]) /\ row.reverses = 0 /\ row.cancels = t
  BY <1>1
<1>2. pv.gross \in Nat \ {0} /\ paid \in Int /\ t # 0
  <2>1. pv.gross \in Nat /\ pv.gross > 0
    BY <1>a, <1>b DEF TypeOK, VoucherRow, RowsSound, VoucherSound
  <2> QED BY SMTT(40), <1>0, <1>1, <2>1
<1>3. /\ txns[t].origin = "voucher" /\ txns[t].lines["payable"] = -pv.gross
  <2>1. PaymentOf(pv, txns)
    BY <1>a, <1>b DEF RowsSound, VoucherSound
  <2>2. /\ txns[t].origin = "voucher"
        /\ txns[t].lines = Posting(-pv.gross, pv.gross - pv.tds - pv.retention, pv.tds, pv.retention, 0)
    BY <1>2, <2>1 DEF PaymentOf
  <2> QED BY <2>2 DEF Posting
<1>4. row.bill = b /\ Settles(txns[t]) = pv.gross /\ Settles(row) = -pv.gross /\ Adds(row, b) = 0
  <2>1. row.lines["payable"] = -(-pv.gross)
    BY ZenonT(60), <1>3 DEF TakenBack, Swapped, Accounts
  <2> QED BY SMTT(40), <1>1, <1>2, <1>3, <2>1 DEF TakenBack, Settles, Adds
<1>5. new.paid = paid /\ new.status = status /\ new.accrued = bills[b].accrued
  <2>1. status \in BillStatus
    BY DEF BillStatus
  <2> HIDE DEF paid, status
  <2> QED BY <1>0, <1>2, <2>1, PaidRow
<1>6. tds' = tds
  BY DEF CommitCancelPaid
<1>7. CASE x = b
  <2>1. bills'[b] = new
    BY <1>a, <1>b DEF TypeOK
  <2>2. ASSUME NoVoucherReversal(b)' PROVE Standing(b)[t] = pv.gross
    <3>1. ~Undone(t)
      <4> SUFFICES ASSUME NEW j \in 1..Len(txns), txns[j].reverses = t \/ txns[j].cancels = t
                   PROVE  FALSE
        BY DEF Undone
      <4>1. txns[j].cancels # t
        BY <1>a, <1>b DEF CancelsSound
      <4>2. txns[j].reverses = t /\ txns[j].bill = b /\ txns[j].origin = "voucher"
        BY <1>a, <1>1, <1>2, <1>3, <4>1 DEF RowsSound, ReversalSound, TakenBack
      <4>3. NoVoucherReversal(b)
        BY <1>a, <2>2, ReversalsStay
      <4> QED BY <1>2, <4>2, <4>3 DEF NoVoucherReversal
    <3> QED BY SMTT(40), <1>1, <1>2, <1>4, <3>1 DEF Standing
  <2>3. /\ TotalOf(Standing(b))' = TotalOf(Standing(b)) - Standing(b)[t] + Adds(row, b)
        /\ TotalOf(Standing(b)) \in Nat /\ Standing(b)[t] <= TotalOf(Standing(b))
    BY SMTT(40), <1>a, <1>1, StandingTaken, StandingFinite
  <2>4. NoVoucherReversal(b)' =>
          /\ TotalOf(Standing(b))' = TotalOf(Standing(b)) + Settles(row)
          /\ bills'[b].paid = bills[b].paid + Settles(row)
    <3>1. Settles(row) = -pv.gross /\ Adds(row, b) = 0 /\ bills'[b].paid = bills[b].paid - pv.gross
      BY <1>4, <1>5, <2>1
    <3> HIDE DEF paid, status, new
    <3>2. bills[b].paid \in Int /\ pv.gross \in Nat
      BY <1>0, <1>2
    <3>3. NoVoucherReversal(b)' =>
            TotalOf(Standing(b))' = TotalOf(Standing(b)) - pv.gross + 0
      BY <2>2, <2>3, <3>1
    <3> QED BY <2>3, <3>1, <3>2, <3>3
  <2>5. NoVoucherReversal(b)' /\ NoSecondReversal(b)' => StatusFits(b, bills'[b])
    <3> SUFFICES ASSUME NoVoucherReversal(b)', NoSecondReversal(b)' PROVE StatusFits(b, new)
      BY <2>1
    <3>1. bills[b].paid = TotalOf(Standing(b)) /\ StatusFits(b, bills[b])
      BY <1>0, <1>a, ReversalsStay DEF BillSound, PaidIsStanding
    <3>2. 0 <= paid
      BY SMTT(40), <1>0, <1>2, <2>2, <2>3, <3>1
    <3>3. bills[b].paid <= Total[b]
      BY <1>0, <3>1 DEF StatusFits
    <3>4. paid < Total[b]
      BY <1>0, <1>2, <3>3
    <3> HIDE DEF new, paid
    <3> QED BY <1>0, <1>2, <1>5, <3>2, <3>4 DEF StatusFits
  <2> HIDE DEF new
  <2> QED BY <1>4, <1>5, <1>6, <1>7, <2>1, <2>4, <2>5, BookedBill
<1>8. CASE x # b
  <2>1. Local(b)
    BY <1>a, CommitLocal DEF Commit
  <2> QED BY <1>1, <1>4, <1>8, <2>1, OtherBill
<1> QED BY <1>7, <1>8

LEMMA ReverseSubledger ==
  ASSUME SubledgerInv, [Next]_vars, NEW r \in Request, CommitReverse(r), NEW x \in Bill
  PROVE  BillSound(x)'
<1> PICK q : q = requests[r]
  OBVIOUS
<1> PICK b : b = q.bill
  OBVIOUS
<1> PICK t : t = q.txn
  OBVIOUS
<1> DEFINE left == bills[b].paid - txns[t].amount
           paid == IF left < 0 THEN 0 ELSE left
           status == IF paid = 0 THEN "PENDING" ELSE SettledStatus(b, paid)
           new == Paid(bills[b], paid, status)
<1>a. /\ ExclusiveInv /\ IInv /\ BillLinks /\ SettledInv /\ PaymentInv /\ TypeOK /\ RowsSound
      /\ CancelsSound /\ Len(txns) \in Nat
  BY SubledgerTyped DEF PaymentInv, SettledInv
<1>b. /\ b \in Bill /\ t \in 1..Len(txns) /\ txns[t].bill = b
      /\ \A i \in 1..Len(txns) : txns[i].bill = b => txns[i].reverses # t
      /\ bills' = [bills EXCEPT ![b] = new]
  BY <1>a, ReverseExclusive
<1>0. /\ bills[b] \in BillRow /\ bills[b].paid \in Int /\ Total[b] \in Nat \ {0} /\ BillSound(b)
  BY <1>b, SubledgerTyped
<1> PICK row : Booked(row) /\ TakenBack(row, txns[t]) /\ row.reverses = t /\ row.cancels = 0
  BY <1>a, ReverseBooks
<1>1. /\ row.bill = b /\ row.origin = txns[t].origin /\ t # 0
      /\ txns[t].amount \in Int /\ Settles(txns[t]) \in Int /\ txns[t].origin \in {"direct", "voucher"}
  <2>1. txns[t] \in TxnRow /\ Settles(txns[t]) \in Int
    BY <1>a, <1>b, RowType
  <2> QED BY <1>a, <1>b, <2>1 DEF TakenBack, TxnRow
<1>2. Settles(row) = -Settles(txns[t])
  BY DEF TakenBack, Swapped, Accounts, Settles
<1>3. paid \in Int /\ new.paid = paid /\ new.status = status /\ new.accrued = bills[b].accrued
  <2>1. status \in BillStatus
    BY DEF BillStatus, SettledStatus
  <2>2. paid \in Int
    BY <1>0, <1>1
  <2> HIDE DEF paid, status
  <2> QED BY <1>0, <2>1, <2>2, PaidRow
<1>4. tds' = tds
  BY DEF CommitReverse
<1>5. CASE x = b
  <2>1. bills'[b] = new
    BY <1>a, <1>b DEF TypeOK
  <2>2. /\ TotalOf(Standing(b))' = TotalOf(Standing(b)) - Standing(b)[t] + Adds(row, b)
        /\ TotalOf(Standing(b)) \in Nat /\ Standing(b)[t] <= TotalOf(Standing(b))
    BY <1>a, <1>b, StandingTaken, StandingFinite
  <2>3. ASSUME NoVoucherReversal(b)'
        PROVE  /\ txns[t].origin = "direct" /\ Settles(txns[t]) = txns[t].amount
               /\ txns[t].amount # 0
               /\ bills[b].paid = TotalOf(Standing(b))
    <3>1. txns'[Len(txns) + 1] = row /\ Len(txns) + 1 \in 1..Len(txns')
      BY <1>a, BookedLast
    <3>2. row.origin = "direct"
      BY <1>1, <2>3, <3>1 DEF NoVoucherReversal
    <3>3. DirectSound(t)
      BY <1>a, <1>b DEF CancelsSound
    <3>4. bills[b].paid = TotalOf(Standing(b))
      BY <1>0, <1>a, <2>3, ReversalsStay DEF BillSound, PaidIsStanding
    <3> QED BY <1>1, <3>2, <3>3, <3>4 DEF DirectSound, Settles
  <2>4. ASSUME NoVoucherReversal(b)', txns[t].amount > 0
        PROVE  Standing(b)[t] = txns[t].amount /\ Adds(row, b) = 0
    <3>1. ~Undone(t)
      <4> SUFFICES ASSUME NEW j \in 1..Len(txns), txns[j].reverses = t \/ txns[j].cancels = t
                   PROVE  FALSE
        BY DEF Undone
      <4>1. txns[j].cancels # t
        BY <1>a, <1>1, <2>3, <2>4 DEF CancelsSound, CancelSound
      <4>2. txns[j].reverses = t /\ txns[j].bill = b
        BY <1>a, <1>b, <1>1, <4>1 DEF RowsSound, ReversalSound, TakenBack
      <4> QED BY <1>b, <4>2
    <3> QED BY <1>b, <1>1, <1>2, <2>3, <2>4, <3>1 DEF Standing, Adds
  <2>5. ASSUME NoVoucherReversal(b)', ~(txns[t].amount > 0)
        PROVE  Standing(b)[t] = 0 /\ Adds(row, b) = -txns[t].amount
    BY <1>b, <1>1, <1>2, <2>3, <2>5 DEF Standing, Adds
  <2>6. NoVoucherReversal(b)' =>
          /\ TotalOf(Standing(b))' = TotalOf(Standing(b)) + Settles(row)
          /\ bills'[b].paid = bills[b].paid + Settles(row)
          /\ 0 <= paid
    <3> SUFFICES ASSUME NoVoucherReversal(b)'
                 PROVE  /\ TotalOf(Standing(b))' = TotalOf(Standing(b)) + Settles(row)
                        /\ bills'[b].paid = bills[b].paid + Settles(row)
                        /\ 0 <= paid
      OBVIOUS
    <3>1. TotalOf(Standing(b))' = TotalOf(Standing(b)) - txns[t].amount
      <4>1. CASE txns[t].amount > 0
        BY <1>1, <2>2, <2>4, <4>1
      <4>2. CASE ~(txns[t].amount > 0)
        BY <1>1, <2>2, <2>5, <4>2
      <4> QED BY <4>1, <4>2
    <3>2. left >= 0
      <4>1. CASE txns[t].amount > 0
        BY <1>1, <2>2, <2>3, <2>4, <4>1
      <4>2. CASE ~(txns[t].amount > 0)
        BY <1>1, <2>2, <2>3, <4>2
      <4> QED BY <4>1, <4>2
    <3>3. Settles(row) = -txns[t].amount
      BY <1>2, <2>3
    <3>4. bills'[b].paid = left
      <4>1. bills'[b].paid = paid
        BY <1>3, <2>1
      <4>2. left \in Int
        BY <1>0, <1>1
      <4> QED BY <3>2, <4>1, <4>2
    <3> QED BY <1>0, <1>1, <2>2, <3>1, <3>2, <3>3, <3>4
  <2>7. NoVoucherReversal(b)' /\ NoSecondReversal(b)' => StatusFits(b, bills'[b])
    <3> SUFFICES ASSUME NoVoucherReversal(b)', NoSecondReversal(b)' PROVE StatusFits(b, new)
      BY <2>1
    <3>1. txns[t].reverses = 0
      <4>1. /\ txns'[Len(txns) + 1] = row /\ Len(txns) + 1 \in 1..Len(txns')
            /\ txns'[t] = txns[t]
        BY <1>a, <1>b, BookedLast
      <4> QED BY <1>1, <4>1 DEF NoSecondReversal
    <3>2. txns[t].amount > 0
      BY <1>a, <1>b, <2>3, <3>1 DEF CancelsSound, DirectSound
    <3>3. bills[b].paid = TotalOf(Standing(b)) /\ StatusFits(b, bills[b])
      BY <1>0, <1>a, ReversalsStay DEF BillSound, PaidIsStanding
    <3>4. bills[b].paid <= Total[b]
      BY <1>0, <3>3 DEF StatusFits
    <3>5. 0 <= paid /\ paid < Total[b]
      BY <1>0, <1>1, <2>6, <3>2, <3>4
    <3> HIDE DEF new, paid
    <3> QED BY <1>0, <1>3, <3>5 DEF StatusFits, SettledStatus
  <2> HIDE DEF new
  <2> QED BY <1>1, <1>3, <1>4, <1>5, <2>1, <2>6, <2>7, BookedBill
<1>6. CASE x # b
  <2>1. Local(b)
    BY <1>a, CommitLocal DEF Commit
  <2> QED BY <1>b, <1>1, <1>6, <2>1, OtherBill
<1> QED BY <1>5, <1>6

LEMMA SubledgerInit == Init => SubledgerInv
<1> SUFFICES ASSUME Init PROVE SubledgerInv
  OBVIOUS
<1>1. SettledInv /\ TypeOK
  BY SettledInit DEF SettledInv, PaymentInv, ExclusiveInv, IInv
<1>2. ASSUME NEW b \in Bill PROVE BillSound(b)
  <2>1. TotalOf(Standing(b)) = 0
    BY TotalZero DEF Init, Standing
  <2> QED BY <2>1 DEF Init, Accounts, BillSound, PaidIsStanding, PayableFits, StatusFits
<1> QED BY <1>1, <1>2 DEF SubledgerInv

LEMMA SubledgerNext == ASSUME Exclusive, SubledgerInv, [Next]_vars PROVE SubledgerInv'
<1>1. SettledInv'
  BY SettledNext DEF SubledgerInv
<1>2. ASSUME NEW x \in Bill PROVE BillSound(x)'
  <2>1. CASE UNCHANGED vars
    BY <2>1, QuietCommitSubledger DEF vars
  <2>2. ASSUME NEW b \in Bill, NEW amount \in Amount, PayVendorBill(b, amount)
        PROVE  BillSound(x)'
    BY <2>2, PaySubledger
  <2>3. CASE BillStep
    BY <2>2, <2>3, BillStepSubledger DEF BillStep
  <2>4. ASSUME NEW r \in Request, Begin(r) \/ Abort(r) PROVE BillSound(x)'
    <3>1. UNCHANGED <<bills, txns, ledger, tds>>
      BY <2>4 DEF Begin, Abort, BeginCreateVoucher, BeginVoucherOp, BeginReverse, BeginCreateTDS
    <3> QED BY <3>1, QuietCommitSubledger
  <2>5. ASSUME NEW r \in Request, Commit(r) PROVE BillSound(x)'
    <3>1. CASE CommitCreateVoucher(r) \/ CommitCancelPending(r)
      <4>1. UNCHANGED <<bills, txns, ledger, tds>>
        BY <3>1 DEF CommitCreateVoucher, CommitCancelPending
      <4> QED BY <4>1, QuietCommitSubledger
    <3>2. CASE CommitCreateTDS(r)
      BY <3>2, QuietCommitSubledger
    <3> QED BY <2>5, <3>1, <3>2, MarkPaidSubledger, CancelPaidSubledger, ReverseSubledger DEF Commit
  <2> QED BY <2>1, <2>3, <2>4, <2>5 DEF Next
<1> QED BY <1>1, <1>2 DEF SubledgerInv

\* When requests on a bill do not overlap, ledger, paid amount and status of the bill
\* say the same, for as long as no voucher's payment was reversed through the bill.
THEOREM SubledgerAlwaysAgrees == ASSUME Exclusive PROVE Spec => []SubledgerAgrees
<1>1. SubledgerInv /\ [Next]_vars => SubledgerInv'
  BY SubledgerNext
<1> QED BY <1>1, SubledgerInit, SubledgerFollows, PTL DEF Spec

=============================================================================
