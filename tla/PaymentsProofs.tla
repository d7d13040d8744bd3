---------------------------- MODULE PaymentsProofs ----------------------------
(***************************************************************************)
(* Proofs about Payments, for every number of requests, payments, salons,  *)
(* tickets, services and prices.                                           *)
(***************************************************************************)
EXTENDS Payments, TLAPS, FiniteSetTheorems

(* What the local values of a request hold, by program counter.            *)
Shape(x) ==
  /\ x.pc = "idle" => x = Idle
  /\ x.pc \in {"pricing", "locked"} => x.op = "record" /\ x.payment = None
  /\ x.pc \in {"checked", "loaded"} => x.op = "adjust"
  /\ x.pc = "flushed" => x.op \in {"record", "adjust"}
  /\ x.op = "record" => x.salon \in Salons /\ x.amount \in Amounts
  /\ x.op = "record" => x.pc \in {"pricing", "locked", "flushed"}
  /\ x.op = "adjust" => x.payment \in PaymentIds /\ x.amount \in Deltas
  /\ x.pc = "flushed" => x.payment \in PaymentIds

TxnShape == \A r \in Requests : Shape(txn[r])
TypeInv  == TypeOK /\ TxnShape

(* At most one transaction allocates the receipts of a salon.              *)
OneAllocator == \A s \in Salons : \A q, r \in Allocators(s) : q = r

(* The receipt in hand is the next one, the id in hand is nobody else's.   *)
InHand(r) ==
  txn[r].op = "record" /\ txn[r].pc = "flushed" =>
    /\ \A s \in Salons : txn[r].salon = s => txn[r].receipt = Cardinality(RecordedBy(s)) + 1
    /\ txn[r].payment \notin Recorded
    /\ \A q \in Requests \ {r} : txn[q].payment # txn[r].payment
ReceiptInHand == \A r \in Requests : InHand(r)

(* A correction acts on a recorded payment, which belongs to a salon.      *)
ActsOnRecorded   == \A r \in Requests : txn[r].op = "adjust" => txn[r].payment \in Recorded
RecordedInSalon  == \A p \in Recorded : payments[p].salon \in Salons

ReceiptsInv == /\ OneAllocator /\ ReceiptInHand /\ ActsOnRecorded
               /\ RecordedInSalon /\ ReceiptsDense

-----------------------------------------------------------------------------
(* Lemmas on the operators of the model.                                   *)

LEMMA MaxOfPrefix ==
  ASSUME NEW n \in Nat
  PROVE  Max({0} \cup 1 .. n) = n
<1> DEFINE S == {0} \cup 1 .. n
<1>1. n \in S /\ \A y \in S : n >= y
  OBVIOUS
<1>2. ASSUME NEW x \in S, \A y \in S : x >= y
      PROVE  x = n
  BY <1>1, <1>2
<1>3. QED
  BY <1>1, <1>2 DEF Max

LEMMA RecordedFinite ==
  ASSUME NEW s
  PROVE  IsFiniteSet(RecordedBy(s)) /\ Cardinality(RecordedBy(s)) \in Nat
<1>1. RecordedBy(s) \subseteq PaymentIds
  BY DEF RecordedBy, Recorded
<1>2. QED
  BY <1>1, DataAssumption, FS_Subset, FS_CardinalityType

(* The maximum of the column of receipts counts the rows of the salon.     *)
LEMMA NextReceiptCounts ==
  ASSUME ReceiptsDense, NEW s \in Salons
  PROVE  NextReceipt(s) = Cardinality(RecordedBy(s)) + 1
<1> DEFINE n == Cardinality(RecordedBy(s))
<1>1. n \in Nat
  BY RecordedFinite
<1>2. {payments[p].receipt : p \in RecordedBy(s)} = 1 .. n
  BY DEF ReceiptsDense
<1>3. Max({0} \cup {payments[p].receipt : p \in RecordedBy(s)}) = n
  BY <1>1, <1>2, MaxOfPrefix
<1>4. QED
  BY <1>1, <1>3 DEF NextReceipt

-----------------------------------------------------------------------------
(* Types and shape.                                                        *)

LEMMA IdleShape == Idle \in Txns /\ Shape(Idle)
  BY NoneAssumption DEF Idle, Txns, Shape

LEMMA AppendLine ==
  ASSUME NEW S, NEW f \in [PaymentIds -> Seq(S)], NEW p \in PaymentIds, NEW e \in S
  PROVE  [f EXCEPT ![p] = Append(@, e)] \in [PaymentIds -> Seq(S)]
<1>1. Append(f[p], e) \in Seq(S)
  OBVIOUS
<1>2. QED
  BY <1>1

LEMMA InitType == Init => TypeInv
<1> SUFFICES ASSUME Init PROVE TypeInv
  OBVIOUS
<1>1. NoRow \in Rows
  BY DEF NoRow, Rows
<1>2. QED
  BY <1>1, IdleShape DEF Init, TypeInv, TypeOK, TxnShape

(* A request moves to x, the committed rows do not change.                 *)
LEMMA MoveType ==
  ASSUME TypeInv, NEW r \in Requests, NEW x \in Txns, Shape(x),
         txn' = [txn EXCEPT ![r] = x], UNCHANGED Committed
  PROVE  TypeInv'
<1>1. txn' \in [Requests -> Txns]
  BY DEF TypeInv, TypeOK
<1>2. TypeOK'
  BY <1>1 DEF TypeInv, TypeOK, Committed
<1>3. TxnShape'
  BY DEF TypeInv, TypeOK, TxnShape
<1>4. QED
  BY <1>2, <1>3 DEF TypeInv

LEMMA RollbackType ==
  ASSUME TypeInv, NEW r \in Requests, Rollback(r), UNCHANGED Committed
  PROVE  TypeInv'
  BY IdleShape, MoveType DEF Rollback

LEMMA GotoType ==
  ASSUME TypeInv, NEW r \in Requests, UNCHANGED Committed,
         NEW pc, Goto(r, pc),
         \/ txn[r].pc = "pricing" /\ pc = "locked"
         \/ txn[r].pc = "checked" /\ pc = "loaded"
         \/ txn[r].pc = "loaded" /\ pc = "flushed"
  PROVE  TypeInv'
<1> DEFINE x == [txn[r] EXCEPT !.pc = pc]
<1>1. txn[r] \in Txns /\ Shape(txn[r])
  BY DEF TypeInv, TypeOK, TxnShape
<1>2. x \in Txns
  BY <1>1 DEF Txns
<1>3. Shape(x)
  BY <1>1 DEF Shape, Txns
<1>4. txn' = [txn EXCEPT ![r] = x]
  BY DEF Goto
<1>5. QED
  BY <1>2, <1>3, <1>4, MoveType

LEMMA StepType ==
  TypeInv /\ ReceiptsDense /\ [Next]_vars => TypeInv'
<1> SUFFICES ASSUME TypeInv, ReceiptsDense, [Next]_vars PROVE TypeInv'
  OBVIOUS
<1>1. ASSUME NEW r \in Requests, NEW t \in Tickets, NEW a \in Amounts, RecordTicket(r, t, a)
      PROVE  TypeInv'
  <2> DEFINE x == [Idle EXCEPT !.pc = "pricing", !.op = "record", !.salon = HomeOf[t],
                               !.ticket = t, !.amount = a, !.left = ServicesOf[t]]
  <2>1. HomeOf[t] \in Salons /\ ServicesOf[t] \in SUBSET Services /\ a \in Nat
    BY DataAssumption
  <2>2. x \in Txns
    <3> DEFINE y == [Idle EXCEPT !.pc = "pricing", !.op = "record", !.salon = HomeOf[t]]
    <3>1. y \in Txns
      BY <2>1, IdleShape DEF Txns
    <3>2. x = [y EXCEPT !.ticket = t, !.amount = a, !.left = ServicesOf[t]]
      OBVIOUS
    <3>3. a \in Int
      BY <2>1
    <3> HIDE DEF x, y
    <3>4. QED
      BY <2>1, <3>1, <3>2, <3>3 DEF Txns
  <2>3. Shape(x)
    BY <2>1 DEF Shape, Idle
  <2>4. QED
    BY <1>1, <2>2, <2>3, MoveType DEF RecordTicket
<1>2. ASSUME NEW r \in Requests, NEW s \in Services, NEW a \in Amounts, RecordService(r, s, a)
      PROVE  TypeInv'
  <2> DEFINE x == [Idle EXCEPT !.pc = "pricing", !.op = "record", !.salon = HomeOf[s],
                               !.amount = a, !.left = {s}]
  <2>1. HomeOf[s] \in Salons /\ a \in Nat
    BY DataAssumption
  <2>2. x \in Txns
    <3> DEFINE y == [Idle EXCEPT !.pc = "pricing", !.op = "record", !.salon = HomeOf[s]]
    <3>1. y \in Txns
      BY <2>1, IdleShape DEF Txns
    <3>2. x = [y EXCEPT !.amount = a, !.left = {s}] /\ {s} \in SUBSET Services
      OBVIOUS
    <3>3. a \in Int
      BY <2>1
    <3> HIDE DEF x, y
    <3>4. QED
      BY <2>1, <3>1, <3>2, <3>3 DEF Txns
  <2>3. Shape(x)
    BY <2>1 DEF Shape, Idle
  <2>4. QED
    BY <1>2, <2>2, <2>3, MoveType DEF RecordService
<1>3. ASSUME NEW r \in Requests, NEW p \in PaymentIds, NEW d \in Deltas, AdjustCheck(r, p, d)
      PROVE  TypeInv'
  <2> DEFINE x == [Idle EXCEPT !.pc = "checked", !.op = "adjust", !.payment = p, !.amount = d]
  <2>1. x \in Txns /\ Shape(x)
    BY DataAssumption DEF Txns, Shape, Idle
  <2>2. QED
    BY <1>3, <2>1, MoveType DEF AdjustCheck
<1>4. ASSUME NEW r \in Requests, PriceService(r) PROVE TypeInv'
  <2>1. txn[r] \in Txns /\ Shape(txn[r]) /\ txn[r].pc = "pricing"
    BY <1>4 DEF PriceService, TypeInv, TypeOK, TxnShape
  <2>2. ASSUME NEW s \in txn[r].left,
               txn' = [txn EXCEPT ![r].left = @ \ {s}, ![r].sum = @ + price[s]]
        PROVE  TypeInv'
    <3> DEFINE x == [txn[r] EXCEPT !.left = @ \ {s}, !.sum = @ + price[s]]
    <3>1. price[s] \in Nat
      BY <2>1, DataAssumption DEF TypeInv, TypeOK, Txns
    <3>2. txn[r].left \ {s} \in SUBSET Services /\ txn[r].sum + price[s] \in Nat
      BY <2>1, <3>1 DEF Txns
    <3>3. x \in Txns
      BY <2>1, <3>2 DEF Txns
    <3>4. Shape(x)
      BY <2>1 DEF Txns, Shape
    <3>5. txn' = [txn EXCEPT ![r] = x]
      BY <2>2 DEF TypeInv, TypeOK
    <3>6. QED
      BY <1>4, <3>3, <3>4, <3>5, MoveType DEF PriceService
  <2>3. QED
    BY <1>4, <2>2, RollbackType DEF PriceService
<1>5. ASSUME NEW r \in Requests, Lock(r) PROVE TypeInv'
  BY <1>5, GotoType, RollbackType DEF Lock
<1>6. ASSUME NEW r \in Requests, Insert(r) PROVE TypeInv'
  <2>1. txn[r] \in Txns /\ Shape(txn[r]) /\ txn[r].pc = "locked" /\ txn[r].salon \in Salons
    BY <1>6 DEF Insert, TypeInv, TypeOK, TxnShape, Shape
  <2>2. NextReceipt(txn[r].salon) \in Nat
    BY <2>1, NextReceiptCounts, RecordedFinite
  <2>3. PICK p \in PaymentIds :
          txn' = [txn EXCEPT ![r].pc = "flushed", ![r].payment = p,
                             ![r].receipt = NextReceipt(txn[r].salon)]
    BY <1>6 DEF Insert
  <2> DEFINE x == [txn[r] EXCEPT !.pc = "flushed", !.payment = p,
                                 !.receipt = NextReceipt(txn[r].salon)]
  <2>4. x \in Txns /\ Shape(x)
    BY <2>1, <2>2 DEF Txns, Shape
  <2>5. txn' = [txn EXCEPT ![r] = x]
    BY <2>3 DEF TypeInv, TypeOK
  <2>6. QED
    BY <1>6, <2>4, <2>5, MoveType DEF Insert
<1>7. ASSUME NEW r \in Requests, CommitRecord(r) PROVE TypeInv'
  <2>1. txn[r] \in Txns /\ Shape(txn[r]) /\ txn[r].op = "record" /\ txn[r].pc = "flushed"
    BY <1>7 DEF CommitRecord, TypeInv, TypeOK, TxnShape
  <2>2. payments' \in [PaymentIds -> Rows]
    <3>1. txn[r].amount \in Nat /\ txn[r].salon \in Salons /\ txn[r].payment \in PaymentIds
      BY <2>1, DataAssumption DEF Shape
    <3>2. txn[r].ticket \in Tickets \cup {None} /\ txn[r].receipt \in Nat
      BY <2>1 DEF Txns
    <3>3. QED
      BY <1>7, <3>1, <3>2 DEF CommitRecord, TypeInv, TypeOK, Rows
  <2>3. [kind |-> "PAYMENT", amount |-> txn[r].amount] \in Lines
    BY <2>1, DataAssumption DEF Lines, Txns
  <2>4. journal' \in [PaymentIds -> Seq(Lines)]
    <3>1. journal' = [journal EXCEPT ![txn[r].payment] =
                        Append(@, [kind |-> "PAYMENT", amount |-> txn[r].amount])]
      BY <1>7 DEF CommitRecord
    <3>2. journal \in [PaymentIds -> Seq(Lines)] /\ txn[r].payment \in PaymentIds
      BY <2>1 DEF TypeInv, TypeOK, Shape
    <3>3. QED
      BY <2>3, <3>1, <3>2, AppendLine
  <2>5. audit' \in [PaymentIds -> Seq({"RECORDED", "ADJUSTED"})]
    <3>1. audit' = [audit EXCEPT ![txn[r].payment] = Append(@, "RECORDED")]
      BY <1>7 DEF CommitRecord
    <3>2. /\ audit \in [PaymentIds -> Seq({"RECORDED", "ADJUSTED"})]
          /\ txn[r].payment \in PaymentIds
      BY <2>1 DEF TypeInv, TypeOK, Shape
    <3>3. QED
      BY <3>1, <3>2, AppendLine
  <2>6. txn' \in [Requests -> Txns] /\ TxnShape'
    BY <1>7, IdleShape DEF CommitRecord, Rollback, TypeInv, TypeOK, TxnShape
  <2>7. QED
    BY <1>7, <2>2, <2>4, <2>5, <2>6 DEF CommitRecord, TypeInv, TypeOK
<1>8. ASSUME NEW r \in Requests, AdjustLoad(r) PROVE TypeInv'
  BY <1>8, GotoType, RollbackType DEF AdjustLoad
<1>9. ASSUME NEW r \in Requests, AdjustUpdate(r) PROVE TypeInv'
  BY <1>9, GotoType DEF AdjustUpdate
<1>10. ASSUME NEW r \in Requests, CommitAdjust(r) PROVE TypeInv'
  <2>1. txn[r] \in Txns /\ Shape(txn[r]) /\ txn[r].op = "adjust" /\ txn[r].pc = "flushed"
    BY <1>10 DEF CommitAdjust, TypeInv, TypeOK, TxnShape
  <2>2. payments' \in [PaymentIds -> Rows]
    BY ZenonT(40), <1>10, <2>1 DEF CommitAdjust, TypeInv, TypeOK, Rows, Shape
  <2>3. [kind |-> "ADJUSTMENT", amount |-> txn[r].amount] \in Lines
    BY <2>1, DataAssumption DEF Lines, Txns
  <2>4. journal' \in [PaymentIds -> Seq(Lines)]
    <3>1. journal' = [journal EXCEPT ![txn[r].payment] =
                        Append(@, [kind |-> "ADJUSTMENT", amount |-> txn[r].amount])]
      BY <1>10 DEF CommitAdjust
    <3>2. journal \in [PaymentIds -> Seq(Lines)] /\ txn[r].payment \in PaymentIds
      BY <2>1 DEF TypeInv, TypeOK, Shape
    <3>3. QED
      BY <2>3, <3>1, <3>2, AppendLine
  <2>5. audit' \in [PaymentIds -> Seq({"RECORDED", "ADJUSTED"})]
    <3>1. audit' = [audit EXCEPT ![txn[r].payment] = Append(@, "ADJUSTED")]
      BY <1>10 DEF CommitAdjust
    <3>2. /\ audit \in [PaymentIds -> Seq({"RECORDED", "ADJUSTED"})]
          /\ txn[r].payment \in PaymentIds
      BY <2>1 DEF TypeInv, TypeOK, Shape
    <3>3. QED
      BY <3>1, <3>2, AppendLine
  <2>6. txn' \in [Requests -> Txns] /\ TxnShape'
    BY <1>10, IdleShape DEF CommitAdjust, Rollback, TypeInv, TypeOK, TxnShape
  <2>7. QED
    BY <1>10, <2>2, <2>4, <2>5, <2>6 DEF CommitAdjust, TypeInv, TypeOK
<1>11. ASSUME NEW r \in Requests, Abort(r) PROVE TypeInv'
  BY <1>11, RollbackType DEF Abort
<1>12. ASSUME NEW s \in Services, NEW n \in Prices, SetPrice(s, n) PROVE TypeInv'
  BY <1>12 DEF SetPrice, TypeInv, TypeOK, TxnShape, Shape
<1>13. ASSUME NEW s \in Services, SetActive(s) PROVE TypeInv'
  BY <1>13 DEF SetActive, TypeInv, TypeOK, TxnShape, Shape
<1>14. CASE UNCHANGED vars
  BY <1>14 DEF vars, TypeInv, TypeOK, TxnShape, Shape
<1>15. QED
  BY <1>1, <1>2, <1>3, <1>4, <1>5, <1>6, <1>7, <1>8, <1>9, <1>10, <1>11, <1>12, <1>13, <1>14
     DEF Next, Receive, Serve, Record, Adjust

-----------------------------------------------------------------------------
(* Receipts.                                                               *)

LEMMA InitReceipts == Init => ReceiptsInv
<1> SUFFICES ASSUME Init PROVE ReceiptsInv
  OBVIOUS
<1>1. Recorded = {} /\ \A s : RecordedBy(s) = {}
  BY DEF Init, Recorded, RecordedBy, NoRow
<1>2. \A s : Cardinality(RecordedBy(s)) = 0
  BY <1>1, FS_EmptySet
<1>3. ReceiptsDense /\ RecordedInSalon
  BY <1>1, <1>2 DEF ReceiptsDense, RecordedInSalon
<1>4. OneAllocator /\ ReceiptInHand /\ ActsOnRecorded
  BY DEF Init, Idle, OneAllocator, Allocators, ReceiptInHand, InHand, ActsOnRecorded
<1>5. QED
  BY <1>3, <1>4 DEF ReceiptsInv

(* A request moves to a record that allocates nothing.                     *)
LEMMA QuietReceipts ==
  ASSUME TypeInv, ReceiptsInv, NEW r \in Requests, NEW x, UNCHANGED payments,
         txn' = [txn EXCEPT ![r] = x],
         x.op = "record" => x.pc = "pricing",
         x.payment \in Recorded \cup {None},
         x.op = "adjust" => x.payment \in Recorded
  PROVE  ReceiptsInv'
<1>1. Recorded' = Recorded /\ \A s : RecordedBy(s)' = RecordedBy(s)
  BY DEF Recorded, RecordedBy
<1>2. \A q \in Requests : txn'[q] = IF q = r THEN x ELSE txn[q]
  BY DEF TypeInv, TypeOK
<1>3. ReceiptsDense' /\ RecordedInSalon'
  BY <1>1 DEF ReceiptsInv, ReceiptsDense, RecordedInSalon
<1>4. ActsOnRecorded'
  BY <1>1, <1>2 DEF ReceiptsInv, ActsOnRecorded
<1>5. OneAllocator'
  BY <1>2 DEF ReceiptsInv, OneAllocator, Allocators
<1>6. ASSUME NEW q \in Requests, txn'[q].op = "record", txn'[q].pc = "flushed"
      PROVE  InHand(q)'
  <2>1. q # r /\ txn'[q] = txn[q]
    BY <1>2, <1>6
  <2>2. txn[q].payment \in PaymentIds
    BY <1>6, <2>1 DEF TypeInv, TxnShape, Shape
  <2>3. x.payment # txn[q].payment
    BY <1>6, <2>1, <2>2, NoneAssumption DEF ReceiptsInv, ReceiptInHand, InHand
  <2>4. QED
    BY <1>1, <1>2, <1>6, <2>1, <2>3 DEF ReceiptsInv, ReceiptInHand, InHand
<1>7. ReceiptInHand'
  BY <1>6 DEF ReceiptInHand, InHand
<1>8. QED
  BY <1>3, <1>4, <1>5, <1>7 DEF ReceiptsInv

LEMMA RollbackReceipts ==
  ASSUME TypeInv, ReceiptsInv, NEW r \in Requests, Rollback(r), UNCHANGED payments
  PROVE  ReceiptsInv'
  BY QuietReceipts DEF Rollback, Idle

(* A correction advances.                                                  *)
LEMMA GotoReceipts ==
  ASSUME TypeInv, ReceiptsInv, NEW r \in Requests, NEW pc, Goto(r, pc),
         txn[r].op = "adjust", UNCHANGED payments
  PROVE  ReceiptsInv'
<1> DEFINE x == [txn[r] EXCEPT !.pc = pc]
<1>1. txn[r] \in Txns /\ txn[r].payment \in Recorded
  BY DEF TypeInv, TypeOK, ReceiptsInv, ActsOnRecorded
<1>2. x.op = txn[r].op /\ x.payment = txn[r].payment /\ txn' = [txn EXCEPT ![r] = x]
  BY <1>1 DEF Goto, Txns
<1>3. QED
  BY <1>1, <1>2, QuietReceipts

LEMMA StepReceipts ==
  TypeInv /\ ReceiptsInv /\ [Next]_vars => ReceiptsInv'
<1> SUFFICES ASSUME TypeInv, ReceiptsInv, [Next]_vars PROVE ReceiptsInv'
  OBVIOUS
<1>1. ASSUME NEW r \in Requests, NEW t \in Tickets, NEW a \in Amounts, RecordTicket(r, t, a)
      PROVE  ReceiptsInv'
  BY <1>1, QuietReceipts DEF RecordTicket, Idle, Committed
<1>2. ASSUME NEW r \in Requests, NEW s \in Services, NEW a \in Amounts, RecordService(r, s, a)
      PROVE  ReceiptsInv'
  BY <1>2, QuietReceipts DEF RecordService, Idle, Committed
<1>3. ASSUME NEW r \in Requests, NEW p \in PaymentIds, NEW d \in Deltas, AdjustCheck(r, p, d)
      PROVE  ReceiptsInv'
  BY <1>3, QuietReceipts DEF AdjustCheck, Idle, Committed, Recorded
<1>4. ASSUME NEW r \in Requests, PriceService(r) PROVE ReceiptsInv'
  <2>1. txn[r] \in Txns /\ txn[r].pc = "pricing" /\ txn[r].op = "record" /\ txn[r].payment = None
    BY <1>4 DEF PriceService, TypeInv, TypeOK, TxnShape, Shape
  <2>2. ASSUME NEW s \in txn[r].left,
               txn' = [txn EXCEPT ![r].left = @ \ {s}, ![r].sum = @ + price[s]]
        PROVE  ReceiptsInv'
    <3> DEFINE x == [txn[r] EXCEPT !.left = @ \ {s}, !.sum = @ + price[s]]
    <3>1. txn' = [txn EXCEPT ![r] = x]
      BY <2>2 DEF TypeInv, TypeOK
    <3>2. x.pc = "pricing" /\ x.op = "record" /\ x.payment = None
      BY <2>1 DEF Txns
    <3>3. QED
      BY <1>4, <3>1, <3>2, QuietReceipts DEF PriceService, Committed
  <2>3. QED
    BY <1>4, <2>2, RollbackReceipts DEF PriceService, Committed
<1>5. ASSUME NEW r \in Requests, Lock(r) PROVE ReceiptsInv'
  <2>1. CASE Rollback(r)
    BY <1>5, <2>1, RollbackReceipts DEF Lock, Committed
  <2>2. CASE Allocators(txn[r].salon) = {} /\ Goto(r, "locked")
    <3>1. txn[r] \in Txns /\ txn[r].op = "record" /\ txn[r].pc = "pricing"
      BY <1>5 DEF Lock, TypeInv, TypeOK, TxnShape, Shape
    <3>2. \A q \in Requests : txn'[q] = IF q = r THEN [txn[r] EXCEPT !.pc = "locked"] ELSE txn[q]
      BY <2>2 DEF Goto, TypeInv, TypeOK
    <3>3. Recorded' = Recorded /\ \A s : RecordedBy(s)' = RecordedBy(s)
      BY <1>5 DEF Lock, Committed, Recorded, RecordedBy
    <3>4. /\ txn'[r].op = "record" /\ txn'[r].pc = "locked"
          /\ txn'[r].salon = txn[r].salon /\ txn'[r].payment = txn[r].payment
      BY <3>1, <3>2 DEF Txns
    <3>5. OneAllocator'
      BY <2>2, <3>2, <3>4 DEF ReceiptsInv, OneAllocator, Allocators
    <3>6. ReceiptInHand'
      BY <3>2, <3>3, <3>4 DEF ReceiptsInv, ReceiptInHand, InHand
    <3>7. ActsOnRecorded'
      BY <3>2, <3>3, <3>4 DEF ReceiptsInv, ActsOnRecorded
    <3>8. ReceiptsDense' /\ RecordedInSalon'
      BY <1>5, <3>3 DEF Lock, Committed, ReceiptsInv, ReceiptsDense, RecordedInSalon
    <3>9. QED
      BY <3>5, <3>6, <3>7, <3>8 DEF ReceiptsInv
  <2>3. QED
    BY <1>5, <2>1, <2>2 DEF Lock
<1>6. ASSUME NEW r \in Requests, Insert(r) PROVE ReceiptsInv'
  <2>1. /\ txn[r] \in Txns /\ txn[r].op = "record" /\ txn[r].pc = "locked"
        /\ txn[r].salon \in Salons
    BY <1>6 DEF Insert, TypeInv, TypeOK, TxnShape, Shape
  <2> DEFINE n == NextReceipt(txn[r].salon)
  <2>2. n = Cardinality(RecordedBy(txn[r].salon)) + 1
    BY <2>1, NextReceiptCounts DEF ReceiptsInv
  <2>3. PICK p \in PaymentIds \ Recorded :
          /\ \A q \in Requests : txn[q].payment # p
          /\ txn' = [txn EXCEPT ![r].pc = "flushed", ![r].payment = p, ![r].receipt = n]
    BY <1>6 DEF Insert
  <2>4. \A q \in Requests \ {r} : txn'[q] = txn[q]
    BY <2>3 DEF TypeInv, TypeOK
  <2>5. /\ txn'[r].op = "record" /\ txn'[r].pc = "flushed" /\ txn'[r].payment = p
        /\ txn'[r].salon = txn[r].salon /\ txn'[r].receipt = n
    BY <2>1, <2>3 DEF TypeInv, TypeOK, Txns
  <2>6. UNCHANGED payments /\ Recorded' = Recorded /\ \A s : RecordedBy(s)' = RecordedBy(s)
    BY <1>6 DEF Insert, Committed, Recorded, RecordedBy
  <2>7. OneAllocator'
    BY <2>1, <2>4, <2>5 DEF ReceiptsInv, OneAllocator, Allocators
  <2>8. ReceiptInHand'
    <3>1. InHand(r)'
      <4>1. \A q \in Requests \ {r} : txn'[q].payment # txn'[r].payment
        BY <2>3, <2>4, <2>5
      <4>2. txn'[r].payment \notin Recorded'
        BY <2>3, <2>5, <2>6
      <4>3. \A s \in Salons : txn'[r].salon = s => txn'[r].receipt = Cardinality(RecordedBy(s)) + 1
        BY <2>2, <2>5
      <4>4. \A s \in Salons : txn'[r].salon = s => txn'[r].receipt = Cardinality(RecordedBy(s)') + 1
        BY <2>6, <4>3
      <4>5. QED
        BY <4>1, <4>2, <4>4 DEF InHand
    <3>2. ASSUME NEW q \in Requests \ {r} PROVE InHand(q)'
      <4>1. InHand(q) /\ txn'[q] = txn[q] /\ txn[q].payment # p
        BY <2>3, <2>4 DEF ReceiptsInv, ReceiptInHand
      <4>2. \A o \in Requests \ {q} : o # r => txn'[o].payment = txn[o].payment
        BY <2>4
      <4>3. QED
        BY <2>5, <2>6, <4>1, <4>2 DEF InHand
    <3>3. QED
      BY <3>1, <3>2 DEF ReceiptInHand
  <2>9. ActsOnRecorded'
    BY <2>4, <2>5, <2>6 DEF ReceiptsInv, ActsOnRecorded
  <2>10. ReceiptsDense' /\ RecordedInSalon'
    BY <2>6 DEF ReceiptsInv, ReceiptsDense, RecordedInSalon
  <2>11. QED
    BY <2>7, <2>8, <2>9, <2>10 DEF ReceiptsInv
<1>7. ASSUME NEW r \in Requests, CommitRecord(r) PROVE ReceiptsInv'
  <2>0. /\ txn[r] \in Txns /\ txn[r].op = "record" /\ txn[r].pc = "flushed"
        /\ txn[r].salon \in Salons /\ txn[r].payment \in PaymentIds
    BY <1>7 DEF CommitRecord, TypeInv, TypeOK, TxnShape, Shape
  <2>1. PICK s \in Salons, p \in PaymentIds : s = txn[r].salon /\ p = txn[r].payment
    BY <2>0
  <2>2. /\ txn[r].receipt = Cardinality(RecordedBy(s)) + 1 /\ p \notin Recorded
        /\ \A q \in Requests \ {r} : txn[q].payment # p
    BY <2>0, <2>1 DEF ReceiptsInv, ReceiptInHand, InHand
  <2>3. \A q \in Requests : txn'[q] = IF q = r THEN Idle ELSE txn[q]
    BY <1>7 DEF CommitRecord, Rollback, TypeInv, TypeOK
  <2>4. \A u \in PaymentIds \ {p} : payments'[u] = payments[u]
    BY <1>7, <2>1 DEF CommitRecord, TypeInv, TypeOK
  <2>5. /\ payments'[p].status = "VALIDATED" /\ payments'[p].salon = s
        /\ payments'[p].receipt = txn[r].receipt
    BY <1>7, <2>1 DEF CommitRecord, TypeInv, TypeOK
  <2>6. Recorded' = Recorded \cup {p}
    BY <2>1, <2>4, <2>5 DEF Recorded
  <2>7. RecordedBy(s)' = RecordedBy(s) \cup {p} /\ p \notin RecordedBy(s)
    BY <2>1, <2>2, <2>4, <2>5, <2>6 DEF RecordedBy, Recorded
  <2>8. \A z : z # s => RecordedBy(z)' = RecordedBy(z)
    BY <2>1, <2>2, <2>4, <2>5, <2>6 DEF RecordedBy, Recorded
  <2>9. Cardinality(RecordedBy(s)') = Cardinality(RecordedBy(s)) + 1
    BY <2>7, RecordedFinite, FS_AddElement
  <2>10. ReceiptsDense'
    <3>1. ASSUME NEW z \in Salons
          PROVE  {payments'[u].receipt : u \in RecordedBy(z)'} = 1 .. Cardinality(RecordedBy(z)')
      <4>1. CASE z = s
        <5>1. \A u \in RecordedBy(s) : payments'[u] = payments[u]
          BY <2>4, <2>7 DEF RecordedBy, Recorded
        <5>2. {payments'[u].receipt : u \in RecordedBy(s)'}
                = {payments[u].receipt : u \in RecordedBy(s)} \cup {txn[r].receipt}
          BY <2>5, <2>7, <5>1
        <5>3. {payments[u].receipt : u \in RecordedBy(s)} = 1 .. Cardinality(RecordedBy(s))
          BY <2>1 DEF ReceiptsInv, ReceiptsDense
        <5>4. 1 .. Cardinality(RecordedBy(s)) + 1
                = 1 .. Cardinality(RecordedBy(s)) \cup {Cardinality(RecordedBy(s)) + 1}
          BY RecordedFinite
        <5>5. QED
          BY <2>2, <2>9, <4>1, <5>2, <5>3, <5>4
      <4>2. CASE z # s
        <5>1. RecordedBy(z)' = RecordedBy(z)
          BY <2>8, <4>2
        <5>2. \A u \in RecordedBy(z) : payments'[u] = payments[u]
          BY <2>2, <2>4 DEF RecordedBy, Recorded
        <5>3. {payments'[u].receipt : u \in RecordedBy(z)} = {payments[u].receipt : u \in RecordedBy(z)}
          BY <5>2
        <5>4. QED
          BY <5>1, <5>3 DEF ReceiptsInv, ReceiptsDense
      <4>3. QED
        BY <4>1, <4>2
    <3>2. QED
      BY <3>1 DEF ReceiptsDense
  <2>11. ReceiptInHand'
    <3>1. ASSUME NEW q \in Requests, txn'[q].op = "record", txn'[q].pc = "flushed"
          PROVE  InHand(q)'
      <4>1. q # r /\ txn'[q] = txn[q]
        BY <2>3, <3>1 DEF Idle
      <4>2. txn[q].salon # s
        BY <2>0, <2>1, <3>1, <4>1 DEF ReceiptsInv, OneAllocator, Allocators
      <4>3. txn[q].payment \in PaymentIds
        BY <3>1, <4>1 DEF TypeInv, TxnShape, Shape
      <4>4. \A o \in Requests \ {q} : txn'[o].payment # txn[q].payment
        BY <2>3, <3>1, <4>1, <4>3, NoneAssumption DEF ReceiptsInv, ReceiptInHand, InHand, Idle
      <4>5. QED
        BY <2>2, <2>6, <2>8, <3>1, <4>1, <4>2, <4>4 DEF ReceiptsInv, ReceiptInHand, InHand
    <3>2. QED
      BY <3>1 DEF ReceiptInHand, InHand
  <2>12. OneAllocator'
    BY <2>3 DEF ReceiptsInv, OneAllocator, Allocators, Idle
  <2>13. ActsOnRecorded'
    BY <2>3, <2>6 DEF ReceiptsInv, ActsOnRecorded, Idle
  <2>14. RecordedInSalon'
    BY <2>1, <2>4, <2>5, <2>6 DEF ReceiptsInv, RecordedInSalon, Recorded
  <2>15. QED
    BY <2>10, <2>11, <2>12, <2>13, <2>14 DEF ReceiptsInv
<1>8. ASSUME NEW r \in Requests, AdjustLoad(r) \/ AdjustUpdate(r) PROVE ReceiptsInv'
  <2>1. txn[r].op = "adjust"
    BY <1>8 DEF AdjustLoad, AdjustUpdate, TypeInv, TxnShape, Shape
  <2>2. QED
    BY <1>8, <2>1, GotoReceipts, RollbackReceipts DEF AdjustLoad, AdjustUpdate, Committed
<1>9. ASSUME NEW r \in Requests, CommitAdjust(r) PROVE ReceiptsInv'
  <2> DEFINE p == txn[r].payment
  <2>1. p \in PaymentIds /\ p \in Recorded
    BY <1>9 DEF CommitAdjust, TypeInv, TxnShape, Shape, ReceiptsInv, ActsOnRecorded
  <2>2. /\ \A u \in PaymentIds \ {p} : payments'[u] = payments[u]
        /\ payments'[p] = [payments[p] EXCEPT !.status = "ADJUSTED"]
    BY <1>9, <2>1 DEF CommitAdjust, TypeInv, TypeOK
  <2>3. /\ payments'[p].salon = payments[p].salon /\ payments'[p].receipt = payments[p].receipt
        /\ payments'[p].status = "ADJUSTED"
    BY <2>1, <2>2 DEF TypeInv, TypeOK, Rows
  <2>4. Recorded' = Recorded
    BY <2>1, <2>2, <2>3 DEF Recorded
  <2>5. \A u \in PaymentIds : /\ payments'[u].salon = payments[u].salon
                               /\ payments'[u].receipt = payments[u].receipt
    BY <2>2, <2>3
  <2>6. \A z : RecordedBy(z)' = RecordedBy(z)
    BY <2>4, <2>5 DEF RecordedBy, Recorded
  <2>7. \A q \in Requests : txn'[q] = IF q = r THEN Idle ELSE txn[q]
    BY <1>9 DEF CommitAdjust, Rollback, TypeInv, TypeOK
  <2>8. ReceiptsDense'
    <3>1. ASSUME NEW z \in Salons
          PROVE  {payments'[u].receipt : u \in RecordedBy(z)'} = {payments[u].receipt : u \in RecordedBy(z)}
      BY <2>5, <2>6 DEF RecordedBy, Recorded
    <3>2. QED
      BY <2>6, <3>1 DEF ReceiptsInv, ReceiptsDense
  <2>9. RecordedInSalon'
    BY <2>4, <2>5 DEF ReceiptsInv, RecordedInSalon, Recorded
  <2>10. OneAllocator' /\ ActsOnRecorded'
    BY <2>4, <2>7 DEF ReceiptsInv, OneAllocator, Allocators, ActsOnRecorded, Idle
  <2>11. ReceiptInHand'
    <3>1. ASSUME NEW q \in Requests, txn'[q].op = "record", txn'[q].pc = "flushed"
          PROVE  InHand(q)'
      <4>1. q # r /\ txn'[q] = txn[q] /\ txn[q].payment \in PaymentIds
        BY <2>7, <3>1 DEF Idle, TypeInv, TxnShape, Shape
      <4>2. \A o \in Requests \ {q} : txn'[o].payment # txn[q].payment
        BY <2>7, <3>1, <4>1, NoneAssumption DEF ReceiptsInv, ReceiptInHand, InHand, Idle
      <4>3. QED
        BY <2>4, <2>6, <3>1, <4>1, <4>2 DEF ReceiptsInv, ReceiptInHand, InHand
    <3>2. QED
      BY <3>1 DEF ReceiptInHand, InHand
  <2>12. QED
    BY <2>8, <2>9, <2>10, <2>11 DEF ReceiptsInv
<1>10. ASSUME NEW r \in Requests, Abort(r) PROVE ReceiptsInv'
  BY <1>10, RollbackReceipts DEF Abort, Committed
<1>11. CASE UNCHANGED <<payments, txn>>
  <2>1. Recorded' = Recorded /\ \A s : RecordedBy(s)' = RecordedBy(s)
    BY <1>11 DEF RecordedBy, Recorded
  <2>2. OneAllocator' /\ ReceiptInHand' /\ ActsOnRecorded' /\ RecordedInSalon'
    BY <1>11, <2>1 DEF ReceiptsInv, OneAllocator, Allocators, ReceiptInHand, InHand,
                       ActsOnRecorded, RecordedInSalon
  <2>3. ReceiptsDense'
    BY <1>11, <2>1 DEF ReceiptsInv, ReceiptsDense
  <2>4. QED
    BY <2>2, <2>3 DEF ReceiptsInv
<1>12. QED
  BY <1>1, <1>2, <1>3, <1>4, <1>5, <1>6, <1>7, <1>8, <1>9, <1>10, <1>11
     DEF Next, Receive, Serve, Record, Adjust, SetPrice, SetActive, vars

LEMMA ReceiptsAlways == Spec => [](TypeInv /\ ReceiptsInv)
<1>1. Init => TypeInv /\ ReceiptsInv
  BY InitType, InitReceipts
<1>2. TypeInv /\ ReceiptsInv /\ [Next]_vars => TypeInv' /\ ReceiptsInv'
  BY StepType, StepReceipts DEF ReceiptsInv
<1>3. QED
  BY <1>1, <1>2, PTL DEF Spec

(* The types of the rows and of the requests' local values hold, for any   *)
(* number of requests, payments, salons, tickets, services and prices.     *)
THEOREM PaymentsTypeOK == Spec => []TypeOK
<1>1. TypeInv /\ ReceiptsInv => TypeOK
  BY DEF TypeInv
<1>2. QED
  BY <1>1, ReceiptsAlways, PTL

(* The receipts of a salon stay 1 .. n for any number of cashiers: the     *)
(* advisory lock makes the maximum read in the transaction the count of    *)
(* the committed payments, and a rolled back payment leaves no hole.       *)
THEOREM PaymentsReceiptsDense == Spec => []ReceiptsDense
<1>1. TypeInv /\ ReceiptsInv => ReceiptsDense
  BY DEF ReceiptsInv
<1>2. QED
  BY <1>1, ReceiptsAlways, PTL

-----------------------------------------------------------------------------
(* The journal and the audit log.                                          *)

Tells(p) ==
  LET lines == journal[p]
  IN /\ \A i \in DOMAIN lines : (lines[i].kind = "PAYMENT") = (i = 1)
     /\ p \in Recorded <=> lines # <<>>
     /\ p \in Recorded => lines[1].amount = payments[p].amount
     /\ payments[p].status = "ADJUSTED" <=> Len(lines) > 1
     /\ audit[p] = [i \in DOMAIN lines |-> IF i = 1 THEN "RECORDED" ELSE "ADJUSTED"]

LEMMA TellsAll == JournalTellsPayments <=> \A p \in PaymentIds : Tells(p)
  BY DEF JournalTellsPayments, Tells

LEMMA InitTells == Init => JournalTellsPayments
<1> SUFFICES ASSUME Init, NEW p \in PaymentIds PROVE Tells(p)
  BY TellsAll
<1>1. journal[p] = <<>> /\ audit[p] = <<>> /\ payments[p].status = "absent"
  BY DEF Init, NoRow
<1>2. QED
  BY <1>1 DEF Tells, Recorded

(* A payment whose rows do not change.                                     *)
LEMMA SameTells ==
  ASSUME NEW p \in PaymentIds, Tells(p), payments'[p] = payments[p],
         journal'[p] = journal[p], audit'[p] = audit[p]
  PROVE  Tells(p)'
  BY DEF Tells, Recorded

LEMMA QuietTells ==
  ASSUME JournalTellsPayments, UNCHANGED <<payments, journal, audit>>
  PROVE  JournalTellsPayments'
  BY DEF JournalTellsPayments, Recorded

LEMMA StepTells ==
  TypeInv /\ ReceiptsInv /\ JournalTellsPayments /\ [Next]_vars => JournalTellsPayments'
<1> SUFFICES ASSUME TypeInv, ReceiptsInv, JournalTellsPayments, [Next]_vars
             PROVE  JournalTellsPayments'
  OBVIOUS
<1>0. (\A p \in PaymentIds : Tells(p)') => JournalTellsPayments'
  BY DEF JournalTellsPayments, Tells
<1>1. ASSUME NEW r \in Requests, CommitRecord(r) PROVE JournalTellsPayments'
  <2>1. txn[r].op = "record" /\ txn[r].pc = "flushed" /\ txn[r].payment \in PaymentIds
    BY <1>1 DEF CommitRecord, TypeInv, TxnShape, Shape
  <2>2. PICK p \in PaymentIds : p = txn[r].payment
    BY <2>1
  <2>3. p \notin Recorded
    BY <2>1, <2>2 DEF ReceiptsInv, ReceiptInHand, InHand
  <2>4. journal[p] = <<>> /\ audit[p] = <<>>
    <3>1. Tells(p)
      BY TellsAll
    <3>2. journal[p] = <<>>
      BY <2>3, <3>1 DEF Tells
    <3>3. DOMAIN journal[p] = {} /\ audit[p] \in Seq({"RECORDED", "ADJUSTED"})
      BY <3>2 DEF TypeInv, TypeOK
    <3>4. QED
      BY <3>1, <3>2, <3>3 DEF Tells
  <2>5. /\ payments'[p].status = "VALIDATED" /\ payments'[p].amount = txn[r].amount
        /\ journal'[p] = <<[kind |-> "PAYMENT", amount |-> txn[r].amount]>>
        /\ audit'[p] = <<"RECORDED">>
    BY <1>1, <2>2, <2>4 DEF CommitRecord, TypeInv, TypeOK
  <2>6. Tells(p)'
    BY <2>5 DEF Tells, Recorded
  <2>7. ASSUME NEW q \in PaymentIds \ {p} PROVE Tells(q)'
    <3>1. payments'[q] = payments[q] /\ journal'[q] = journal[q] /\ audit'[q] = audit[q]
      BY <1>1, <2>2 DEF CommitRecord, TypeInv, TypeOK
    <3>2. QED
      BY <3>1, TellsAll, SameTells
  <2>8. QED
    BY <1>0, <2>6, <2>7
<1>2. ASSUME NEW r \in Requests, CommitAdjust(r) PROVE JournalTellsPayments'
  <2>1. txn[r].payment \in PaymentIds /\ txn[r].payment \in Recorded
    BY <1>2 DEF CommitAdjust, TypeInv, TxnShape, Shape, ReceiptsInv, ActsOnRecorded
  <2>2. PICK p \in PaymentIds : p = txn[r].payment /\ p \in Recorded
    BY <2>1
  <2> DEFINE l == [kind |-> "ADJUSTMENT", amount |-> txn[r].amount]
  <2>3. /\ journal[p] \in Seq(Lines) /\ audit[p] \in Seq({"RECORDED", "ADJUSTED"})
        /\ payments[p] \in Rows
    BY DEF TypeInv, TypeOK
  <2>4. Tells(p) /\ Len(journal[p]) >= 1
    BY <2>2, <2>3, TellsAll DEF Tells
  <2>5. /\ payments'[p] = [payments[p] EXCEPT !.status = "ADJUSTED"]
        /\ journal'[p] = Append(journal[p], l) /\ audit'[p] = Append(audit[p], "ADJUSTED")
    BY <1>2, <2>2 DEF CommitAdjust, TypeInv, TypeOK
  <2>6. payments'[p].status = "ADJUSTED" /\ payments'[p].amount = payments[p].amount /\ p \in Recorded'
    BY <2>3, <2>5 DEF Rows, Recorded
  <2>7. /\ DOMAIN journal'[p] = 1 .. Len(journal[p]) + 1 /\ Len(journal'[p]) = Len(journal[p]) + 1
        /\ \A i \in DOMAIN journal[p] : journal'[p][i] = journal[p][i]
        /\ journal'[p][Len(journal[p]) + 1] = l
        /\ DOMAIN journal[p] = 1 .. Len(journal[p])
    BY <2>3, <2>5
  <2>8. \A i \in DOMAIN journal'[p] : (journal'[p][i].kind = "PAYMENT") = (i = 1)
    <3>1. ASSUME NEW i \in DOMAIN journal[p]
          PROVE  (journal'[p][i].kind = "PAYMENT") = (i = 1)
      BY <2>4, <2>7 DEF Tells
    <3>2. (l.kind = "PAYMENT") = (Len(journal[p]) + 1 = 1)
      BY <2>3, <2>4
    <3>3. \A i \in 1 .. Len(journal[p]) + 1 : i \in DOMAIN journal[p] \/ i = Len(journal[p]) + 1
      BY <2>3, <2>7
    <3>4. QED
      BY <2>7, <3>1, <3>2, <3>3
  <2>9. audit'[p] = [i \in DOMAIN journal'[p] |-> IF i = 1 THEN "RECORDED" ELSE "ADJUSTED"]
    <3>1. audit[p] = [i \in 1 .. Len(journal[p]) |-> IF i = 1 THEN "RECORDED" ELSE "ADJUSTED"]
      BY <2>4, <2>7 DEF Tells
    <3>2. Len(audit[p]) = Len(journal[p])
      BY <2>3, <3>1
    <3>3. audit'[p] = [i \in 1 .. Len(journal[p]) + 1 |->
                         IF i = 1 THEN "RECORDED" ELSE "ADJUSTED"]
      BY <2>3, <2>4, <2>5, <3>1, <3>2
    <3>4. QED
      BY <2>7, <3>3
  <2>10. Tells(p)'
    <3>1. p \in Recorded' <=> journal'[p] # <<>>
      BY <2>3, <2>6, <2>7
    <3>2. journal'[p][1].amount = payments'[p].amount
      BY <2>2, <2>3, <2>4, <2>6, <2>7 DEF Tells
    <3>3. payments'[p].status = "ADJUSTED" <=> Len(journal'[p]) > 1
      BY <2>3, <2>4, <2>6, <2>7
    <3>4. QED
      BY <2>8, <2>9, <3>1, <3>2, <3>3 DEF Tells
  <2>11. ASSUME NEW q \in PaymentIds \ {p} PROVE Tells(q)'
    <3>1. payments'[q] = payments[q] /\ journal'[q] = journal[q] /\ audit'[q] = audit[q]
      BY <1>2, <2>2 DEF CommitAdjust, TypeInv, TypeOK
    <3>2. QED
      BY <3>1, TellsAll, SameTells
  <2>12. QED
    BY <1>0, <2>10, <2>11
<1>3. CASE UNCHANGED <<payments, journal, audit>>
  BY <1>3, QuietTells
<1>4. QED
  BY <1>1, <1>2, <1>3
     DEF Next, Receive, Serve, Record, Adjust, RecordTicket, RecordService, AdjustCheck,
         PriceService, Lock, Insert, AdjustLoad, AdjustUpdate, Abort, SetPrice, SetActive,
         Committed, vars

LEMMA TellsAlways == Spec => []JournalTellsPayments
<1>1. Init => JournalTellsPayments
  BY InitTells
<1>2. TypeInv /\ ReceiptsInv /\ JournalTellsPayments /\ [Next]_vars => JournalTellsPayments'
  BY StepTells
<1>3. QED
  BY <1>1, <1>2, ReceiptsAlways, PTL DEF Spec

(* For any number of cashiers and managers, a payment has one PAYMENT line *)
(* of its amount, is ADJUSTED iff an ADJUSTMENT line corrects it, and the  *)
(* audit log says the same: no ghost line, no silent correction.           *)
THEOREM PaymentsJournalTells == Spec => []JournalTellsPayments
  BY TellsAlways

-----------------------------------------------------------------------------
(* The cash book.                                                          *)

LEMMA SameRecorded ==
  ASSUME JournalTellsPayments
  PROVE  Book!Recorded = Recorded /\ \A s : Book!RecordedBy(s) = RecordedBy(s)
<1>1. Book!Recorded = Recorded
  BY DEF JournalTellsPayments, Book!Recorded, Recorded
<1>2. QED
  BY <1>1 DEF Book!RecordedBy, RecordedBy, Recorded

LEMMA SameCardinality == \A S : Book!Cardinality(S) = Cardinality(S)
  BY DEF Book!Cardinality, Cardinality

LEMMA InitBook == Init => Book!Init
  BY DEF Init, NoRow, Book!Init, Book!NoSlip

Slip(p) == [salon |-> payments[p].salon, ticket |-> payments[p].ticket,
            amount |-> payments[p].amount, receipt |-> payments[p].receipt]
Slips == [p \in PaymentIds |-> Slip(p)]

LEMMA StepBook ==
  TypeInv /\ ReceiptsInv /\ JournalTellsPayments /\ [Next]_vars
  => [Book!Next]_<<Slips, journal>>
<1> SUFFICES ASSUME TypeInv, ReceiptsInv, JournalTellsPayments, [Next]_vars
             PROVE  Book!Next \/ UNCHANGED <<Slips, journal>>
  OBVIOUS
<1>1. ASSUME NEW r \in Requests, CommitRecord(r) PROVE Book!Next
  <2>1. /\ txn[r] \in Txns /\ txn[r].op = "record" /\ txn[r].pc = "flushed"
        /\ txn[r].payment \in PaymentIds /\ txn[r].salon \in Salons /\ txn[r].amount \in Amounts
    BY <1>1 DEF CommitRecord, TypeInv, TypeOK, TxnShape, Shape
  <2>2. PICK p \in PaymentIds, s \in Salons, t \in Tickets \cup {None}, n \in Amounts :
          /\ p = txn[r].payment /\ s = txn[r].salon /\ t = txn[r].ticket /\ n = txn[r].amount
    BY <2>1 DEF Txns
  <2>3. txn[r].receipt = Cardinality(RecordedBy(s)) + 1 /\ p \notin Recorded
    BY <2>1, <2>2 DEF ReceiptsInv, ReceiptInHand, InHand
  <2>4. p \notin Book!Recorded /\ txn[r].receipt = Cardinality(Book!RecordedBy(s)) + 1
    BY <2>3, SameRecorded
  <2> DEFINE row == [status |-> "VALIDATED", salon |-> s, ticket |-> t, amount |-> n,
                     receipt |-> txn[r].receipt]
  <2>5. payments' = [payments EXCEPT ![p] = row] /\ payments \in [PaymentIds -> Rows]
    BY <1>1, <2>2 DEF CommitRecord, TypeInv, TypeOK
  <2>6. Slips' = [Slips EXCEPT ![p] = [salon |-> s, ticket |-> t, amount |-> n,
                                       receipt |-> txn[r].receipt]]
    BY <2>5 DEF Slips, Slip
  <2>7. journal' = [journal EXCEPT ![p] = <<[kind |-> "PAYMENT", amount |-> n]>>]
    <3>1. journal[p] = <<>>
      BY <2>3 DEF JournalTellsPayments
    <3>2. QED
      BY <1>1, <2>2, <3>1 DEF CommitRecord
  <2> DEFINE slip == [salon |-> s, ticket |-> t, amount |-> n,
                      receipt |-> Cardinality(Book!RecordedBy(s)) + 1]
  <2>8. Book!Pay(p, s, t, n)
    <3>1. Slips' = [Slips EXCEPT ![p] = slip]
      BY <2>4, <2>6
    <3>2. QED
      BY <2>4, <2>7, <3>1, SameCardinality DEF Book!Pay, Slips, Slip
  <2>9. QED
    BY <2>8 DEF Book!Next
<1>2. ASSUME NEW r \in Requests, CommitAdjust(r) PROVE Book!Next
  <2>1. /\ txn[r].payment \in PaymentIds /\ txn[r].payment \in Recorded
        /\ txn[r].amount \in Deltas
    BY <1>2 DEF CommitAdjust, TypeInv, TxnShape, Shape, ReceiptsInv, ActsOnRecorded
  <2>2. PICK p \in PaymentIds, d \in Deltas :
          p = txn[r].payment /\ d = txn[r].amount /\ p \in Book!Recorded
    BY <2>1, SameRecorded
  <2>3. Slips' = Slips
    <3>1. /\ payments' = [payments EXCEPT ![p].status = "ADJUSTED"]
          /\ payments \in [PaymentIds -> Rows]
      BY <1>2, <2>2 DEF CommitAdjust, TypeInv, TypeOK
    <3>2. \A q \in PaymentIds : Slip(q)' = Slip(q)
      BY <3>1 DEF Slip, Rows
    <3>3. QED
      BY <3>2 DEF Slips
  <2>4. journal' = [journal EXCEPT ![p] = Append(@, [kind |-> "ADJUSTMENT", amount |-> d])]
    BY <1>2, <2>2 DEF CommitAdjust
  <2>5. Book!Correct(p, d)
    BY <2>2, <2>3, <2>4 DEF Book!Correct, Slips, Slip
  <2>6. QED
    BY <2>5 DEF Book!Next
<1>3. CASE UNCHANGED <<payments, journal>>
  BY <1>3 DEF Slips, Slip
<1>4. QED
  BY <1>1, <1>2, <1>3
     DEF Next, Receive, Serve, Record, Adjust, RecordTicket, RecordService, AdjustCheck,
         PriceService, Lock, Insert, AdjustLoad, AdjustUpdate, Abort, SetPrice, SetActive,
         Committed, vars

(* RecordPayment and AdjustPayment, statement by statement and in any      *)
(* interleaving, do to the committed rows only what the cash book allows.  *)
THEOREM PaymentsImplementBook == Spec => ImplementsBook
<1>1. Init => Book!Init
  BY InitBook
<1>2. TypeInv /\ ReceiptsInv /\ JournalTellsPayments /\ [Next]_vars
      => [Book!Next]_<<[p \in PaymentIds |-> [salon |-> payments[p].salon,
                                              ticket |-> payments[p].ticket,
                                              amount |-> payments[p].amount,
                                              receipt |-> payments[p].receipt]], journal>>
  BY StepBook DEF Slips, Slip
<1>3. QED
  BY <1>1, <1>2, ReceiptsAlways, TellsAlways, PTL DEF Spec, ImplementsBook, Book!Spec

-----------------------------------------------------------------------------
(* Rivals: a ticket, and a payment, are contended for by the requests that *)
(* ran together only.  The inductive invariants count what is committed    *)
(* and the requests that may still add to it: the guard that refuses a     *)
(* second payment, or correction, keeps the sum below the bound.           *)

PaidFor(t)    == {p \in Recorded : payments[p].ticket = t}
Paying(t)     == {r \in Requests : txn[r].op = "record" /\ txn[r].ticket = t}
Correcting(p) == {r \in Requests : txn[r].op = "adjust" /\ txn[r].payment = p}

TicketRivals ==
  \A t \in Tickets : Cardinality(PaidFor(t)) + Cardinality(Paying(t)) <= Cardinality(Requests)

PaymentRivals ==
  \A p \in PaymentIds : Len(journal[p]) + Cardinality(Correcting(p)) <= 1 + Cardinality(Requests)

LEMMA FiniteRivals ==
  /\ Cardinality(Requests) \in Nat
  /\ \A t : /\ IsFiniteSet(PaidFor(t)) /\ Cardinality(PaidFor(t)) \in Nat
            /\ IsFiniteSet(Paying(t)) /\ Cardinality(Paying(t)) \in Nat
            /\ Cardinality(Paying(t)) <= Cardinality(Requests)
  /\ \A p : /\ IsFiniteSet(Correcting(p)) /\ Cardinality(Correcting(p)) \in Nat
            /\ Cardinality(Correcting(p)) <= Cardinality(Requests)
<1>1. \A t : /\ PaidFor(t) \subseteq PaymentIds /\ Paying(t) \subseteq Requests
             /\ Correcting(t) \subseteq Requests
  BY DEF PaidFor, Recorded, Paying, Correcting
<1>2. IsFiniteSet(Requests) /\ IsFiniteSet(PaymentIds)
  BY DataAssumption
<1>3. QED
  BY <1>1, <1>2, FS_Subset, FS_CardinalityType

LEMMA InitRivals == Init => TicketRivals /\ PaymentRivals
<1> SUFFICES ASSUME Init PROVE TicketRivals /\ PaymentRivals
  OBVIOUS
<1>1. \A t : PaidFor(t) = {} /\ Paying(t) = {} /\ Correcting(t) = {}
  BY DEF Init, NoRow, Idle, PaidFor, Recorded, Paying, Correcting
<1>2. \A t : Cardinality(PaidFor(t)) = 0 /\ Cardinality(Paying(t)) = 0
             /\ Cardinality(Correcting(t)) = 0
  BY <1>1, FS_EmptySet
<1>3. \A p \in PaymentIds : Len(journal[p]) = 0
  BY DEF Init
<1>4. Cardinality(Requests) \in Nat
  BY FiniteRivals
<1>5. TicketRivals
  BY <1>2, <1>4 DEF TicketRivals
<1>6. PaymentRivals
  BY <1>2, <1>3, <1>4 DEF PaymentRivals
<1>7. QED
  BY <1>5, <1>6

(* A request that asks for no more than it did disturbs no count.          *)
LEMMA QuietRivals ==
  ASSUME TypeInv, TicketRivals, PaymentRivals, UNCHANGED <<payments, journal>>,
         NEW r \in Requests, NEW x, txn' = [txn EXCEPT ![r] = x],
         x.op = "record" => txn[r].op = "record" /\ x.ticket = txn[r].ticket,
         x.op = "adjust" => txn[r].op = "adjust" /\ x.payment = txn[r].payment
  PROVE  TicketRivals' /\ PaymentRivals'
<1>1. \A q \in Requests : txn'[q] = IF q = r THEN x ELSE txn[q]
  BY DEF TypeInv, TypeOK
<1>2. \A t : /\ PaidFor(t)' = PaidFor(t) /\ Paying(t)' \subseteq Paying(t)
             /\ Correcting(t)' \subseteq Correcting(t)
  BY <1>1 DEF PaidFor, Recorded, Paying, Correcting
<1>3. \A t : /\ Cardinality(Paying(t)') \in Nat /\ Cardinality(Correcting(t)') \in Nat
             /\ Cardinality(Paying(t)') <= Cardinality(Paying(t))
             /\ Cardinality(Correcting(t)') <= Cardinality(Correcting(t))
  BY <1>2, FiniteRivals, FS_Subset, FS_CardinalityType
<1>4. TicketRivals'
  BY <1>2, <1>3, FiniteRivals DEF TicketRivals
<1>5. PaymentRivals'
  <2>1. \A p \in PaymentIds : Len(journal[p]) \in Nat
    BY DEF TypeInv, TypeOK
  <2>2. QED
    BY <1>3, <2>1, FiniteRivals DEF PaymentRivals
<1>6. QED
  BY <1>4, <1>5

(* Nobody pays the ticket, nobody corrects the payment.                    *)
LEMMA EnterRivals ==
  ASSUME TypeInv, TicketRivals, PaymentRivals, UNCHANGED <<payments, journal>>,
         NEW r \in Requests, NEW x, txn' = [txn EXCEPT ![r] = x],
         \A t \in Tickets : x.op = "record" /\ x.ticket = t => ~Paid(t),
         \A p \in PaymentIds : x.op = "adjust" /\ x.payment = p => Len(journal[p]) = 1
  PROVE  TicketRivals' /\ PaymentRivals'
<1>1. \A q \in Requests : txn'[q] = IF q = r THEN x ELSE txn[q]
  BY DEF TypeInv, TypeOK
<1>2. \A t : /\ PaidFor(t)' = PaidFor(t)
             /\ Paying(t)' \subseteq Requests /\ Correcting(t)' \subseteq Requests
  BY DEF PaidFor, Recorded, Paying, Correcting
<1>3. \A t : /\ Cardinality(Paying(t)') \in Nat /\ Cardinality(Correcting(t)') \in Nat
             /\ Cardinality(Paying(t)') <= Cardinality(Requests)
             /\ Cardinality(Correcting(t)') <= Cardinality(Requests)
  BY <1>2, DataAssumption, FS_Subset, FS_CardinalityType
<1>4. ASSUME NEW t \in Tickets
      PROVE  Cardinality(PaidFor(t)') + Cardinality(Paying(t)') <= Cardinality(Requests)
  <2>1. CASE x.op = "record" /\ x.ticket = t
    <3>1. PaidFor(t) = {}
      BY <2>1 DEF Paid, PaidFor
    <3>2. Cardinality(PaidFor(t)') = 0
      BY <1>2, <3>1, FS_EmptySet
    <3>3. QED
      BY <1>3, <3>2, FiniteRivals
  <2>2. CASE ~(x.op = "record" /\ x.ticket = t)
    <3>1. Paying(t)' \subseteq Paying(t)
      BY <1>1, <2>2 DEF Paying
    <3>2. Cardinality(Paying(t)') <= Cardinality(Paying(t))
      BY <3>1, FiniteRivals, FS_Subset
    <3>3. QED
      BY <1>2, <1>3, <3>2, FiniteRivals DEF TicketRivals
  <2>3. QED
    BY <2>1, <2>2
<1>5. ASSUME NEW p \in PaymentIds
      PROVE  Len(journal[p]) + Cardinality(Correcting(p)') <= 1 + Cardinality(Requests)
  <2>1. Len(journal[p]) \in Nat
    BY DEF TypeInv, TypeOK
  <2>2. CASE x.op = "adjust" /\ x.payment = p
    <3>1. Len(journal[p]) = 1
      BY <2>2
    <3>2. QED
      BY <1>3, <3>1, FiniteRivals
  <2>3. CASE ~(x.op = "adjust" /\ x.payment = p)
    <3>1. Correcting(p)' \subseteq Correcting(p)
      BY <1>1, <2>3 DEF Correcting
    <3>2. Cardinality(Correcting(p)') <= Cardinality(Correcting(p))
      BY <3>1, FiniteRivals, FS_Subset
    <3>3. QED
      BY <1>3, <2>1, <3>2, FiniteRivals DEF PaymentRivals
  <2>4. QED
    BY <2>2, <2>3
<1>6. QED
  BY <1>4, <1>5 DEF TicketRivals, PaymentRivals

(* A payment is recorded: its request pays no more.                        *)
LEMMA RecordRivals ==
  ASSUME TypeInv, ReceiptsInv, JournalTellsPayments, TicketRivals, PaymentRivals,
         NEW r \in Requests, CommitRecord(r)
  PROVE  TicketRivals' /\ PaymentRivals'
<1>1. txn[r].op = "record" /\ txn[r].pc = "flushed" /\ txn[r].payment \in PaymentIds
  BY DEF CommitRecord, TypeInv, TxnShape, Shape
<1>2. PICK n \in PaymentIds : n = txn[r].payment
  BY <1>1
<1>3. n \notin Recorded /\ journal[n] = <<>>
  BY <1>1, <1>2 DEF ReceiptsInv, ReceiptInHand, InHand, JournalTellsPayments
<1>4. \A q \in Requests : txn'[q] = IF q = r THEN Idle ELSE txn[q]
  BY DEF CommitRecord, Rollback, TypeInv, TypeOK
<1>5. \A p \in PaymentIds : p # n => payments'[p] = payments[p] /\ journal'[p] = journal[p]
  BY <1>2 DEF CommitRecord, TypeInv, TypeOK
<1>6. /\ payments'[n].status = "VALIDATED" /\ payments'[n].ticket = txn[r].ticket
      /\ Len(journal'[n]) = 1
  BY <1>2, <1>3 DEF CommitRecord, TypeInv, TypeOK
<1>7. ASSUME NEW t \in Tickets
      PROVE  Cardinality(PaidFor(t)') + Cardinality(Paying(t)') <= Cardinality(Requests)
  <2>1. CASE txn[r].ticket = t
    <3>1. PaidFor(t)' = PaidFor(t) \cup {n} /\ n \notin PaidFor(t)
      BY <1>2, <1>3, <1>5, <1>6, <2>1 DEF PaidFor, Recorded
    <3>2. Paying(t)' = Paying(t) \ {r} /\ r \in Paying(t)
      BY <1>1, <1>4, <2>1 DEF Paying, Idle
    <3>3. Cardinality(PaidFor(t)') = Cardinality(PaidFor(t)) + 1
      BY <3>1, FiniteRivals, FS_AddElement
    <3>4. Cardinality(Paying(t)') = Cardinality(Paying(t)) - 1
      BY <3>2, FiniteRivals, FS_RemoveElement
    <3>5. QED
      BY <3>3, <3>4, FiniteRivals DEF TicketRivals
  <2>2. CASE txn[r].ticket # t
    <3>1. PaidFor(t)' = PaidFor(t)
      BY <1>2, <1>3, <1>5, <1>6, <2>2 DEF PaidFor, Recorded
    <3>2. Paying(t)' = Paying(t)
      BY <1>4, <2>2 DEF Paying, Idle
    <3>3. QED
      BY <3>1, <3>2 DEF TicketRivals
  <2>3. QED
    BY <2>1, <2>2
<1>8. ASSUME NEW p \in PaymentIds
      PROVE  Len(journal'[p]) + Cardinality(Correcting(p)') <= 1 + Cardinality(Requests)
  <2>1. Correcting(p)' = Correcting(p)
    BY <1>1, <1>4 DEF Correcting, Idle
  <2>2. CASE p = n
    <3>1. Len(journal'[p]) = 1
      BY <1>6, <2>2
    <3>2. Cardinality(Correcting(p)') = Cardinality(Correcting(p))
      BY <2>1
    <3>3. QED
      BY <3>1, <3>2, FiniteRivals
  <2>3. CASE p # n
    BY <1>5, <2>1, <2>3 DEF PaymentRivals
  <2>4. QED
    BY <2>2, <2>3
<1>9. QED
  BY <1>7, <1>8 DEF TicketRivals, PaymentRivals

(* A payment is corrected: its request corrects no more.                   *)
LEMMA AdjustRivals ==
  ASSUME TypeInv, ReceiptsInv, TicketRivals, PaymentRivals, NEW r \in Requests, CommitAdjust(r)
  PROVE  TicketRivals' /\ PaymentRivals'
<1>1. txn[r].op = "adjust" /\ txn[r].payment \in PaymentIds /\ txn[r].payment \in Recorded
  BY DEF CommitAdjust, TypeInv, TxnShape, Shape, ReceiptsInv, ActsOnRecorded
<1>2. PICK n \in PaymentIds : n = txn[r].payment /\ n \in Recorded
  BY <1>1
<1>3. \A q \in Requests : txn'[q] = IF q = r THEN Idle ELSE txn[q]
  BY DEF CommitAdjust, Rollback, TypeInv, TypeOK
<1>4. \A p \in PaymentIds : p # n => payments'[p] = payments[p] /\ journal'[p] = journal[p]
  BY <1>2 DEF CommitAdjust, TypeInv, TypeOK
<1>5. payments'[n].status = "ADJUSTED" /\ payments'[n].ticket = payments[n].ticket
  BY <1>2 DEF CommitAdjust, TypeInv, TypeOK, Rows
<1>6. Len(journal'[n]) = Len(journal[n]) + 1 /\ Len(journal[n]) \in Nat
  BY <1>2 DEF CommitAdjust, TypeInv, TypeOK
<1>7. ASSUME NEW t \in Tickets
      PROVE  PaidFor(t)' = PaidFor(t) /\ Paying(t)' = Paying(t)
  <2>1. PaidFor(t)' = PaidFor(t)
    BY <1>2, <1>4, <1>5 DEF PaidFor, Recorded
  <2>2. Paying(t)' = Paying(t)
    BY <1>1, <1>3 DEF Paying, Idle
  <2>3. QED
    BY <2>1, <2>2
<1>8. ASSUME NEW p \in PaymentIds
      PROVE  Len(journal'[p]) + Cardinality(Correcting(p)') <= 1 + Cardinality(Requests)
  <2>1. CASE p = n
    <3>1. Correcting(n)' = Correcting(n) \ {r} /\ r \in Correcting(n)
      BY <1>1, <1>2, <1>3 DEF Correcting, Idle
    <3>2. Cardinality(Correcting(n)') = Cardinality(Correcting(n)) - 1
      BY <3>1, FiniteRivals, FS_RemoveElement
    <3>3. QED
      BY <1>6, <2>1, <3>2, FiniteRivals DEF PaymentRivals
  <2>2. CASE p # n
    <3>1. Correcting(p)' = Correcting(p)
      BY <1>2, <1>3, <2>2 DEF Correcting, Idle
    <3>2. QED
      BY <1>4, <2>2, <3>1 DEF PaymentRivals
  <2>3. QED
    BY <2>1, <2>2
<1>9. QED
  BY <1>7, <1>8 DEF TicketRivals, PaymentRivals

LEMMA StepRivals ==
  TypeInv /\ ReceiptsInv /\ JournalTellsPayments /\ TicketRivals /\ PaymentRivals /\ [Next]_vars
  => TicketRivals' /\ PaymentRivals'
<1> SUFFICES ASSUME TypeInv, ReceiptsInv, JournalTellsPayments, TicketRivals, PaymentRivals,
                    [Next]_vars
             PROVE  TicketRivals' /\ PaymentRivals'
  OBVIOUS
<1>1. ASSUME NEW r \in Requests, NEW t \in Tickets, NEW a \in Amounts, RecordTicket(r, t, a)
      PROVE  TicketRivals' /\ PaymentRivals'
  <2> DEFINE x == [Idle EXCEPT !.pc = "pricing", !.op = "record", !.salon = HomeOf[t],
                               !.ticket = t, !.amount = a, !.left = ServicesOf[t]]
  <2>1. x.op = "record" /\ x.ticket = t
    BY DEF Idle
  <2>2. /\ txn' = [txn EXCEPT ![r] = x] /\ ~Paid(t) /\ UNCHANGED <<payments, journal>>
    BY <1>1 DEF RecordTicket, Committed
  <2> HIDE DEF x
  <2>3. QED
    BY <2>1, <2>2, EnterRivals
<1>2. ASSUME NEW r \in Requests, NEW s \in Services, NEW a \in Amounts, RecordService(r, s, a)
      PROVE  TicketRivals' /\ PaymentRivals'
  <2> DEFINE x == [Idle EXCEPT !.pc = "pricing", !.op = "record", !.salon = HomeOf[s],
                               !.amount = a, !.left = {s}]
  <2>1. x.op = "record" /\ x.ticket = None /\ None \notin Tickets
    BY NoneAssumption DEF Idle
  <2>2. txn' = [txn EXCEPT ![r] = x] /\ UNCHANGED <<payments, journal>>
    BY <1>2 DEF RecordService, Committed
  <2> HIDE DEF x
  <2>3. QED
    BY <2>1, <2>2, EnterRivals
<1>3. ASSUME NEW r \in Requests, NEW p \in PaymentIds, NEW d \in Deltas, AdjustCheck(r, p, d)
      PROVE  TicketRivals' /\ PaymentRivals'
  <2>1. Len(journal[p]) = 1
    <3>1. journal[p] # <<>> /\ ~(Len(journal[p]) > 1) /\ journal[p] \in Seq(Lines)
      BY <1>3 DEF AdjustCheck, JournalTellsPayments, Recorded, TypeInv, TypeOK
    <3> DEFINE n == Len(journal[p])
    <3>2. n \in Nat /\ n # 0 /\ ~(n > 1)
      BY <3>1
    <3> HIDE DEF n
    <3>3. n = 1
      BY <3>2
    <3>4. QED
      BY <3>3 DEF n
  <2> DEFINE x == [Idle EXCEPT !.pc = "checked", !.op = "adjust", !.payment = p, !.amount = d]
  <2>2. x.op = "adjust" /\ x.payment = p
    BY DEF Idle
  <2>3. txn' = [txn EXCEPT ![r] = x] /\ UNCHANGED <<payments, journal>>
    BY <1>3 DEF AdjustCheck, Committed
  <2> HIDE DEF x
  <2>4. QED
    BY <2>1, <2>2, <2>3, EnterRivals
<1>4. ASSUME NEW r \in Requests, Rollback(r), UNCHANGED Committed
      PROVE  TicketRivals' /\ PaymentRivals'
  BY <1>4, QuietRivals DEF Rollback, Idle, Committed
<1>5. ASSUME NEW r \in Requests, NEW x, UNCHANGED Committed, txn' = [txn EXCEPT ![r] = x],
             x.op = txn[r].op, x.ticket = txn[r].ticket,
             x.op = "adjust" => x.payment = txn[r].payment
      PROVE  TicketRivals' /\ PaymentRivals'
  BY <1>5, QuietRivals DEF Committed
<1>6. ASSUME NEW r \in Requests, NEW pc, Goto(r, pc), UNCHANGED Committed
      PROVE  TicketRivals' /\ PaymentRivals'
  <2> DEFINE x == [txn[r] EXCEPT !.pc = pc]
  <2>1. txn[r] \in Txns
    BY DEF TypeInv, TypeOK
  <2>2. x.op = txn[r].op /\ x.ticket = txn[r].ticket /\ x.payment = txn[r].payment
    BY <2>1 DEF Txns
  <2>3. QED
    BY <1>5, <1>6, <2>2 DEF Goto
<1>7. ASSUME NEW r \in Requests, PriceService(r) PROVE TicketRivals' /\ PaymentRivals'
  <2>1. txn[r] \in Txns
    BY DEF TypeInv, TypeOK
  <2>2. ASSUME NEW s \in txn[r].left,
               txn' = [txn EXCEPT ![r].left = @ \ {s}, ![r].sum = @ + price[s]]
        PROVE  TicketRivals' /\ PaymentRivals'
    <3> DEFINE x == [txn[r] EXCEPT !.left = @ \ {s}, !.sum = @ + price[s]]
    <3>1. txn' = [txn EXCEPT ![r] = x]
      BY <2>2 DEF TypeInv, TypeOK
    <3>2. x.op = txn[r].op /\ x.ticket = txn[r].ticket /\ x.payment = txn[r].payment
      BY <2>1 DEF Txns
    <3>3. QED
      BY <1>5, <1>7, <3>1, <3>2 DEF PriceService
  <2>3. QED
    BY <1>4, <1>7, <2>2 DEF PriceService
<1>8. ASSUME NEW r \in Requests, Insert(r) PROVE TicketRivals' /\ PaymentRivals'
  <2>1. txn[r] \in Txns /\ txn[r].op = "record"
    BY <1>8 DEF Insert, TypeInv, TypeOK, TxnShape, Shape
  <2>2. PICK p \in PaymentIds :
          txn' = [txn EXCEPT ![r].pc = "flushed", ![r].payment = p,
                             ![r].receipt = NextReceipt(txn[r].salon)]
    BY <1>8 DEF Insert
  <2> DEFINE x == [txn[r] EXCEPT !.pc = "flushed", !.payment = p,
                                 !.receipt = NextReceipt(txn[r].salon)]
  <2>3. txn' = [txn EXCEPT ![r] = x]
    BY <2>2 DEF TypeInv, TypeOK
  <2>4. x.op = "record" /\ x.ticket = txn[r].ticket
    BY <2>1 DEF Txns
  <2>5. QED
    BY <1>5, <1>8, <2>1, <2>3, <2>4 DEF Insert
<1>9. ASSUME NEW r \in Requests, Lock(r) \/ AdjustLoad(r) \/ AdjustUpdate(r) \/ Abort(r)
      PROVE  TicketRivals' /\ PaymentRivals'
  BY <1>4, <1>6, <1>9 DEF Lock, AdjustLoad, AdjustUpdate, Abort
<1>10. CASE UNCHANGED <<payments, journal, txn>>
  BY <1>10 DEF TicketRivals, PaymentRivals, PaidFor, Recorded, Paying, Correcting
<1>11. QED
  BY <1>1, <1>2, <1>3, <1>7, <1>8, <1>9, <1>10, RecordRivals, AdjustRivals
     DEF Next, Receive, Serve, Record, Adjust, SetPrice, SetActive, vars

(* has_paid_payment and the test of the status are read before the lock,   *)
(* so a race may pay a ticket, or correct a payment, again.  For any number *)
(* of requests it happens at most once for each of them: what is committed *)
(* and what is under way never exceed the requests the server runs.        *)
THEOREM PaymentsRivalsOnly == Spec => []RivalsOnly
<1>1. Init => TicketRivals /\ PaymentRivals
  BY InitRivals
<1>2. TypeInv /\ ReceiptsInv /\ JournalTellsPayments /\ TicketRivals /\ PaymentRivals /\ [Next]_vars
      => TicketRivals' /\ PaymentRivals'
  BY StepRivals
<1>3. TypeInv /\ TicketRivals /\ PaymentRivals => RivalsOnly
  <2> SUFFICES ASSUME TypeInv, TicketRivals, PaymentRivals PROVE RivalsOnly
    OBVIOUS
  <2>1. \A t \in Tickets : Cardinality(PaidFor(t)) <= Cardinality(Requests)
    BY FiniteRivals DEF TicketRivals
  <2>2. \A p \in PaymentIds : Len(journal[p]) \in Nat
    BY DEF TypeInv, TypeOK
  <2>3. \A p \in PaymentIds : Len(journal[p]) <= 1 + Cardinality(Requests)
    BY <2>2, FiniteRivals DEF PaymentRivals
  <2>4. QED
    BY <2>1, <2>3 DEF RivalsOnly, PaidFor
<1>4. QED
  BY <1>1, <1>2, <1>3, ReceiptsAlways, TellsAlways, PTL DEF Spec

-----------------------------------------------------------------------------
(* What was due.  The prices are read one by one, so the sum of several is *)
(* of no moment; the price of one service is of the moment it is read.     *)

OfOneService(x) == x.ticket # None => \E s \in Services : ServicesOf[x.ticket] = {s}

(* The price to be read next is one of the totals the request has seen, as *)
(* is the price it read.                                                   *)
ToRead(x, p, seen) ==
  \E s \in Services : /\ x.left = {s} /\ x.sum = 0 /\ p[s] \in seen
                      /\ x.ticket # None => ServicesOf[x.ticket] = {s}

Tallied(x, p, seen) ==
  x.op = "record" /\ OfOneService(x) =>
    /\ x.pc = "pricing" /\ x.left # {} => ToRead(x, p, seen)
    /\ x.pc = "pricing" /\ x.left = {} => x.sum \in seen
    /\ x.pc \in {"locked", "flushed"} => x.amount \in seen

DuesShape == dues = [r \in Requests |-> dues[r]]
TallyInv  == DuesShape /\ \A r \in Requests : Tallied(txn[r], price, dues[r])

(* FoldSet over one element.                                               *)
LEMMA TotalOfOne ==
  ASSUME NEW a, NEW p, p[a] \in Nat
  PROVE  Total({a}, p) = p[a]
<1> DEFINE It(f) == f = [s \in SUBSET {a} |->
                           IF s = {} THEN 0
                           ELSE LET x == CHOOSE x \in s : TRUE IN f[s \ {x}] + p[x]]
           g == [s \in SUBSET {a} |-> IF s = {} THEN 0 ELSE p[a]]
           h == CHOOSE f : It(f)
<1>1. (CHOOSE x \in {a} : TRUE) = a /\ {a} \ {a} = {}
  OBVIOUS
<1>2. It(g)
  <2>1. \A s \in SUBSET {a} : s = {} \/ s = {a}
    OBVIOUS
  <2>2. QED
    BY <1>1, <2>1
<1>3. It(h)
  BY <1>2
<1>4. Total({a}, p) = h[{a}]
  BY DEF Total, FoldSet, MapThenFoldSet
<1>5. {a} \in SUBSET {a} /\ {} \in SUBSET {a} /\ {a} # {}
  OBVIOUS
<1>6. h[{}] = 0
  BY <1>3, <1>5
<1>7. h[{a}] = h[{a} \ {CHOOSE x \in {a} : TRUE}] + p[CHOOSE x \in {a} : TRUE]
  BY <1>3, <1>5
<1>8. h[{a} \ {CHOOSE x \in {a} : TRUE}] + p[CHOOSE x \in {a} : TRUE] = h[{}] + p[a]
  BY <1>1
<1> HIDE DEF h
<1>9. QED
  BY <1>4, <1>6, <1>7, <1>8

LEMMA InitTally == Init => TallyInv
  BY DEF Init, Idle, TallyInv, DuesShape, Tallied

(* A request moves to x, which is tallied, and sees no new total.          *)
LEMMA MoveTally ==
  ASSUME TypeInv, TallyInv, NEW r \in Requests, NEW x, txn' = [txn EXCEPT ![r] = x],
         UNCHANGED <<price, dues>>, Tallied(x, price, dues[r])
  PROVE  TallyInv'
<1>1. \A q \in Requests : txn'[q] = IF q = r THEN x ELSE txn[q]
  BY DEF TypeInv, TypeOK
<1>2. \A q \in Requests : Tallied(txn'[q], price', dues'[q])
  BY <1>1 DEF TallyInv
<1>3. QED
  BY <1>2 DEF TallyInv, DuesShape

LEMMA RollbackTally ==
  ASSUME TypeInv, TallyInv, NEW r \in Requests, Rollback(r), UNCHANGED <<price, dues>>
  PROVE  TallyInv'
<1>1. Tallied(Idle, price, dues[r])
  BY DEF Tallied, Idle
<1>2. QED
  BY <1>1, MoveTally DEF Rollback

(* A request begins.                                                       *)
LEMMA BeginTally ==
  ASSUME TypeInv, TallyInv, NEW r \in Requests, NEW x, NEW n,
         txn' = [txn EXCEPT ![r] = x], dues' = [dues EXCEPT ![r] = {n}], UNCHANGED price,
         Tallied(x, price, {n})
  PROVE  TallyInv'
<1>1. \A q \in Requests : txn'[q] = IF q = r THEN x ELSE txn[q]
  BY DEF TypeInv, TypeOK
<1>2. \A q \in Requests : dues'[q] = IF q = r THEN {n} ELSE dues[q]
  BY DEF TallyInv, DuesShape
<1>3. \A q \in Requests : Tallied(txn'[q], price', dues'[q])
  BY <1>1, <1>2 DEF TallyInv
<1>4. DuesShape'
  BY DEF TallyInv, DuesShape
<1>5. QED
  BY <1>3, <1>4 DEF TallyInv

(* A price changes: who has not read it sees the new total.                *)
LEMMA SetPriceTally ==
  ASSUME TypeInv, TallyInv, NEW s \in Services, NEW n \in Prices, SetPrice(s, n)
  PROVE  TallyInv'
<1>1. price' \in [Services -> Prices] /\ Prices \subseteq Nat
  BY DataAssumption DEF SetPrice, TypeInv, TypeOK
<1>2. ASSUME NEW r \in Requests PROVE Tallied(txn[r], price', dues'[r])
  <2>1. Tallied(txn[r], price, dues[r])
    BY DEF TallyInv
  <2>2. dues'[r] = IF txn[r].pc = "pricing" /\ txn[r].left # {}
                   THEN dues[r] \cup {Due(txn[r], price')} ELSE dues[r]
    BY DEF SetPrice
  <2>3. CASE txn[r].op = "record" /\ OfOneService(txn[r]) /\ txn[r].pc = "pricing"
             /\ txn[r].left # {}
    <3>1. PICK a \in Services : /\ txn[r].left = {a} /\ txn[r].sum = 0
                                /\ txn[r].ticket # None => ServicesOf[txn[r].ticket] = {a}
      BY <2>1, <2>3 DEF Tallied, ToRead
    <3>2. Due(txn[r], price') = Total({a}, price')
      BY <3>1 DEF Due
    <3>3. price'[a] \in dues'[r]
      BY <1>1, <2>2, <2>3, <3>2, TotalOfOne
    <3>4. ToRead(txn[r], price', dues'[r])
      BY <3>1, <3>3 DEF ToRead
    <3>5. QED
      BY <2>3, <3>4 DEF Tallied
  <2>4. CASE ~(txn[r].pc = "pricing" /\ txn[r].left # {})
    BY <2>1, <2>2, <2>4 DEF Tallied
  <2>5. QED
    BY <2>3, <2>4 DEF Tallied
<1>3. DuesShape' /\ UNCHANGED txn
  BY DEF SetPrice, DuesShape
<1>4. QED
  BY <1>2, <1>3 DEF TallyInv

LEMMA StepTally == TypeInv /\ TallyInv /\ [Next]_vars => TallyInv'
<1> SUFFICES ASSUME TypeInv, TallyInv, [Next]_vars PROVE TallyInv'
  OBVIOUS
<1>0. price \in [Services -> Prices] /\ Prices \subseteq Nat
  BY DataAssumption DEF TypeInv, TypeOK
<1>1. ASSUME NEW r \in Requests, NEW t \in Tickets, NEW a \in Amounts, RecordTicket(r, t, a)
      PROVE  TallyInv'
  <2> DEFINE x == [Idle EXCEPT !.pc = "pricing", !.op = "record", !.salon = HomeOf[t],
                               !.ticket = t, !.amount = a, !.left = ServicesOf[t]]
             n == Total(ServicesOf[t], price)
  <2>1. /\ x.op = "record" /\ x.pc = "pricing" /\ x.ticket = t /\ x.left = ServicesOf[t]
        /\ x.sum = 0 /\ t # None
    BY NoneAssumption DEF Idle
  <2>2. /\ txn' = [txn EXCEPT ![r] = x] /\ dues' = [dues EXCEPT ![r] = {n}]
        /\ UNCHANGED price
    BY <1>1 DEF RecordTicket, Committed
  <2>3. ASSUME NEW s \in Services, ServicesOf[t] = {s} PROVE n = price[s]
    BY <1>0, <2>3, TotalOfOne
  <2> HIDE DEF x, n
  <2>4. Tallied(x, price, {n})
    BY <2>1, <2>3 DEF Tallied, OfOneService, ToRead
  <2>5. QED
    BY <2>2, <2>4, BeginTally
<1>2. ASSUME NEW r \in Requests, NEW s \in Services, NEW a \in Amounts, RecordService(r, s, a)
      PROVE  TallyInv'
  <2> DEFINE x == [Idle EXCEPT !.pc = "pricing", !.op = "record", !.salon = HomeOf[s],
                               !.amount = a, !.left = {s}]
  <2>1. /\ x.op = "record" /\ x.pc = "pricing" /\ x.ticket = None /\ x.left = {s} /\ x.sum = 0
    BY DEF Idle
  <2>2. /\ txn' = [txn EXCEPT ![r] = x] /\ dues' = [dues EXCEPT ![r] = {price[s]}]
        /\ UNCHANGED price
    BY <1>2 DEF RecordService, Committed
  <2> HIDE DEF x
  <2>3. Tallied(x, price, {price[s]})
    BY <2>1 DEF Tallied, ToRead
  <2>4. QED
    BY <2>2, <2>3, BeginTally
<1>3. ASSUME NEW r \in Requests, PriceService(r) PROVE TallyInv'
  <2>1. /\ txn[r] \in Txns /\ txn[r].pc = "pricing" /\ Tallied(txn[r], price, dues[r])
        /\ UNCHANGED <<price, dues>>
    BY <1>3 DEF PriceService, Committed, TypeInv, TypeOK, TallyInv
  <2>2. ASSUME NEW s \in txn[r].left,
               txn' = [txn EXCEPT ![r].left = @ \ {s}, ![r].sum = @ + price[s]]
        PROVE  TallyInv'
    <3> DEFINE x == [txn[r] EXCEPT !.left = @ \ {s}, !.sum = @ + price[s]]
    <3>1. txn' = [txn EXCEPT ![r] = x]
      BY <2>2 DEF TypeInv, TypeOK
    <3>2. /\ x.op = txn[r].op /\ x.pc = "pricing" /\ x.ticket = txn[r].ticket
          /\ x.left = txn[r].left \ {s} /\ x.sum = txn[r].sum + price[s]
      BY <2>1 DEF Txns
    <3>3. price[s] \in Nat
      BY <1>0, <2>1 DEF Txns
    <3> HIDE DEF x
    <3>4. Tallied(x, price, dues[r])
      <4>1. SUFFICES ASSUME txn[r].op = "record", OfOneService(txn[r])
                     PROVE  x.left = {} /\ x.sum \in dues[r]
        BY <3>2 DEF Tallied, OfOneService
      <4>2. ToRead(txn[r], price, dues[r])
        BY <2>1, <2>2, <4>1 DEF Tallied
      <4>3. txn[r].left = {s} /\ txn[r].sum = 0 /\ price[s] \in dues[r]
        BY <4>2 DEF ToRead
      <4>4. QED
        BY <3>2, <3>3, <4>3
    <3>5. QED
      BY <2>1, <3>1, <3>4, MoveTally
  <2>3. QED
    BY <1>3, <2>1, <2>2, RollbackTally DEF PriceService
<1>4. ASSUME NEW r \in Requests, NEW pc, Goto(r, pc), UNCHANGED <<price, dues>>,
             \/ txn[r].pc = "pricing" /\ txn[r].left = {} /\ txn[r].sum = txn[r].amount
             \/ txn[r].op = "adjust"
      PROVE  TallyInv'
  <2> DEFINE x == [txn[r] EXCEPT !.pc = pc]
  <2>1. txn[r] \in Txns /\ Tallied(txn[r], price, dues[r])
    BY DEF TypeInv, TypeOK, TallyInv
  <2>2. /\ x.op = txn[r].op /\ x.ticket = txn[r].ticket /\ x.left = txn[r].left
        /\ x.sum = txn[r].sum /\ x.amount = txn[r].amount /\ txn' = [txn EXCEPT ![r] = x]
    BY <1>4, <2>1 DEF Goto, Txns
  <2> HIDE DEF x
  <2>3. Tallied(x, price, dues[r])
    BY <1>4, <2>1, <2>2 DEF Tallied, OfOneService
  <2>4. QED
    BY <1>4, <2>2, <2>3, MoveTally
<1>5. ASSUME NEW r \in Requests, Lock(r) PROVE TallyInv'
  BY <1>4, <1>5, RollbackTally DEF Lock, Committed
<1>6. ASSUME NEW r \in Requests, Insert(r) PROVE TallyInv'
  <2>1. /\ txn[r] \in Txns /\ txn[r].pc = "locked" /\ Tallied(txn[r], price, dues[r])
        /\ UNCHANGED <<price, dues>>
    BY <1>6 DEF Insert, Committed, TypeInv, TypeOK, TallyInv
  <2>2. PICK p \in PaymentIds :
          txn' = [txn EXCEPT ![r].pc = "flushed", ![r].payment = p,
                             ![r].receipt = NextReceipt(txn[r].salon)]
    BY <1>6 DEF Insert
  <2> DEFINE x == [txn[r] EXCEPT !.pc = "flushed", !.payment = p,
                                 !.receipt = NextReceipt(txn[r].salon)]
  <2>3. /\ x.op = txn[r].op /\ x.ticket = txn[r].ticket /\ x.amount = txn[r].amount
        /\ x.pc = "flushed" /\ txn' = [txn EXCEPT ![r] = x]
    BY <2>1, <2>2 DEF TypeInv, TypeOK, Txns
  <2> HIDE DEF x
  <2>4. Tallied(x, price, dues[r])
    BY <2>1, <2>3 DEF Tallied, OfOneService
  <2>5. QED
    BY <2>1, <2>3, <2>4, MoveTally
<1>7. ASSUME NEW r \in Requests, NEW p \in PaymentIds, NEW d \in Deltas, AdjustCheck(r, p, d)
      PROVE  TallyInv'
  <2> DEFINE x == [Idle EXCEPT !.pc = "checked", !.op = "adjust", !.payment = p, !.amount = d]
  <2>1. x.op = "adjust" /\ txn' = [txn EXCEPT ![r] = x] /\ UNCHANGED <<price, dues>>
    BY <1>7 DEF AdjustCheck, Idle, Committed
  <2> HIDE DEF x
  <2>2. QED
    BY <2>1, MoveTally DEF Tallied
<1>8. ASSUME NEW r \in Requests, AdjustLoad(r) \/ AdjustUpdate(r) PROVE TallyInv'
  <2>1. txn[r].op = "adjust"
    BY <1>8 DEF AdjustLoad, AdjustUpdate, TypeInv, TxnShape, Shape
  <2>2. QED
    BY <1>4, <1>8, <2>1, RollbackTally DEF AdjustLoad, AdjustUpdate, Committed
<1>9. ASSUME NEW r \in Requests, CommitRecord(r) \/ CommitAdjust(r) \/ Abort(r) PROVE TallyInv'
  BY <1>9, RollbackTally DEF CommitRecord, CommitAdjust, Abort, Committed
<1>10. CASE UNCHANGED <<price, txn, dues>>
  BY <1>10 DEF TallyInv, DuesShape
<1>11. QED
  BY <1>1, <1>2, <1>3, <1>5, <1>6, <1>7, <1>8, <1>9, <1>10, SetPriceTally
     DEF Next, Receive, Serve, Record, Adjust, SetActive, vars

LEMMA TallyAlways == Spec => []TallyInv
<1>1. Init => TallyInv
  BY InitTally
<1>2. TypeInv /\ TallyInv /\ [Next]_vars => TallyInv'
  BY StepTally
<1>3. QED
  BY <1>1, <1>2, ReceiptsAlways, PTL DEF Spec

(* What a cashier is paid for one service, with or without a ticket, is a  *)
(* price that the service had since the request began, however often the   *)
(* prices change and whatever other requests do.                           *)
THEOREM OneServiceWasDue ==
  Spec => [](\A r \in Requests :
               /\ txn[r].op = "record" /\ txn[r].pc \in {"locked", "flushed"}
               /\ OfOneService(txn[r])
               => txn[r].amount \in dues[r])
<1>1. TallyInv => \A r \in Requests :
                    /\ txn[r].op = "record" /\ txn[r].pc \in {"locked", "flushed"}
                    /\ OfOneService(txn[r])
                    => txn[r].amount \in dues[r]
  BY DEF TallyInv, Tallied
<1>2. QED
  BY <1>1, TallyAlways, PTL

(* So that in a salon whose tickets are for one service each the amount of *)
(* a payment was due when RecordPayment compared it.  The hypothesis is    *)
(* needed: two prices are read by two SELECTs.                             *)
THEOREM PaymentsAmountWasDue ==
  ASSUME \A t \in Tickets : \E s \in Services : ServicesOf[t] = {s}
  PROVE  Spec => []AmountWasDue
<1>1. TypeInv /\ TallyInv => AmountWasDue
  <2>1. TypeInv => \A r \in Requests : txn[r].ticket \in Tickets \cup {None}
    BY DEF TypeInv, TypeOK, Txns
  <2>2. TypeInv => \A r \in Requests : OfOneService(txn[r])
    BY <2>1 DEF OfOneService
  <2>3. QED
    BY <2>2 DEF TallyInv, Tallied, AmountWasDue
<1>2. QED
  BY <1>1, TallyAlways, ReceiptsAlways, PTL
=============================================================================
