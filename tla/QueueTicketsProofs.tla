-------------------------- MODULE QueueTicketsProofs --------------------------
(***************************************************************************)
(* Proofs about QueueTickets, for every number of requests, tickets,       *)
(* salons and hairdressers: first its types, its numbers and who serves,   *)
(* then what the committed rows tell of the queue, which change by         *)
(* JoinCommit and Commit only, and the board of WalkInQueue.               *)
(***************************************************************************)
EXTENDS MCQueueTickets, TLAPS, FiniteSetTheorems

(* What the local values of a request hold, by program counter.            *)
Shape(x) ==
  /\ x.pc = "idle" => x = Idle
  /\ x.pc # "idle" => x.op \in Ops
  /\ x.pc \in {"loaded", "updating"} => x.op # "join"
  /\ x.pc = "updating" => x.op = "start"
  /\ x.pc = "locked" => x.op = "join"
  /\ x.op \in Ops \ {"join"} => x.ticket \in TicketIds
  /\ x.op = "start" => x.hairdresser \in Hairdressers
  /\ x.op = "join" => x.salon \in Salons
  /\ x.op = "join" /\ x.pc = "flushed" => x.ticket \in TicketIds

TxnShape == \A r \in Requests : Shape(txn[r])

(* At most one transaction holds the row lock of a ticket.                 *)
OneWriter ==
  \A t \in TicketIds : \A q, r \in Writers(t) : q = r

(* At most one transaction holds an entry of the unique index that it has  *)
(* not committed, for a given hairdresser ...                              *)
OneInserter ==
  \A q, r \in Requests :
    /\ txn[q].op = "start" /\ txn[q].pc = "flushed"
    /\ txn[r].op = "start" /\ txn[r].pc = "flushed"
    /\ txn[q].hairdresser = txn[r].hairdresser
    => q = r

(* ... and no committed row of another ticket holds that entry.            *)
EntryFree ==
  \A r \in Requests :
    txn[r].op = "start" /\ txn[r].pc = "flushed" =>
      InProgressOf(txn[r].hairdresser, txn[r].ticket) = {}

ExclusiveInv == /\ OneWriter /\ OneInserter /\ EntryFree
                /\ HairdresserExclusive

(* At most one transaction allocates the numbers of a salon.               *)
OneAllocator ==
  \A s \in Salons : \A q, r \in Allocators(s) : q = r

(* The number in hand is the next one, and the id in hand is nobody else's.*)
InHand(r) ==
  txn[r].op = "join" /\ txn[r].pc = "flushed" =>
    /\ \A s \in Salons : txn[r].salon = s => txn[r].number = Cardinality(IssuedBy(s)) + 1
    /\ txn[r].ticket \notin Issued
    /\ \A q \in Requests \ {r} : txn[q].ticket # txn[r].ticket
NumberInHand == \A r \in Requests : InHand(r)

(* An issued ticket belongs to a salon.                                    *)
IssuedInSalon == \A t \in Issued : tickets[t].salon \in Salons

(* The other operations act on an issued ticket.                           *)
ActsOnIssued ==
  \A r \in Requests : txn[r].op \in Ops \ {"join"} => txn[r].ticket \in Issued

NumbersInv == /\ OneAllocator /\ NumberInHand /\ ActsOnIssued
              /\ IssuedInSalon /\ NumbersDense

-----------------------------------------------------------------------------
(* Lemmas on the operators of the model.                                   *)

LEMMA MaxOfPrefix ==
  ASSUME NEW n \in Nat
  PROVE  Max({0} \cup 1 .. n) = n
<1> DEFINE S == {0} \cup 1 .. n
<1>1. n \in S /\ \A y \in S : n >= y
  OBVIOUS
<1>2. ASSUME NEW x \in S, \A y \in S : x >= y
      PROVE  x = n
  BY <1>1, <1>2
<1>3. QED
  BY <1>1, <1>2 DEF Max

LEMMA IssuedFinite ==
  ASSUME NEW s
  PROVE  IsFiniteSet(IssuedBy(s)) /\ Cardinality(IssuedBy(s)) \in Nat
<1>1. IssuedBy(s) \subseteq TicketIds
  BY DEF IssuedBy, Issued
<1>2. QED
  BY <1>1, FiniteAssumption, FS_Subset, FS_CardinalityType

(* The number a join is given is one more than the number of tickets its   *)
(* salon has issued: the maximum of the column counts the rows.            *)
LEMMA NextNumberCounts ==
  ASSUME NumbersDense, NEW s \in Salons
  PROVE  NextNumber(s) = Cardinality(IssuedBy(s)) + 1
<1> DEFINE n == Cardinality(IssuedBy(s))
<1>1. n \in Nat
  BY IssuedFinite
<1>2. {tickets[t].number : t \in IssuedBy(s)} = 1 .. n
  BY DEF NumbersDense
<1>3. Max({0} \cup {tickets[t].number : t \in IssuedBy(s)}) = n
  BY <1>1, <1>2, MaxOfPrefix
<1>4. QED
  BY <1>1, <1>3 DEF NextNumber

LEMMA AheadIsNat ==
  ASSUME NEW s, NEW n
  PROVE  CountAhead(s, n) \in Nat
<1> DEFINE A == {t \in IssuedBy(s) : tickets[t].status = "waiting" /\ tickets[t].number < n}
<1>1. IsFiniteSet(A)
  BY IssuedFinite, FS_Subset
<1>2. QED
  BY <1>1, FS_CardinalityType DEF CountAhead

-----------------------------------------------------------------------------
(* Types and shape.                                                        *)

TypeInv == TypeOK /\ TxnShape

LEMMA InitType == Init => TypeInv
  BY NoneAssumption DEF Init, TypeInv, TypeOK, TxnShape, Shape, Rows, Txns, NoRow, Idle, Statuses, Ops, Actions

(* A request moves to x, the committed rows do not change.                 *)
LEMMA MoveType ==
  ASSUME TypeInv, NEW r \in Requests, NEW x \in Txns, Shape(x),
         txn' = [txn EXCEPT ![r] = x], UNCHANGED <<tickets, active, audit>>
  PROVE  TypeInv'
<1>1. txn' \in [Requests -> Txns]
  BY DEF TypeInv, TypeOK
<1>2. TypeOK'
  BY <1>1 DEF TypeInv, TypeOK
<1>3. TxnShape'
  BY DEF TypeInv, TypeOK, TxnShape
<1>4. QED
  BY <1>2, <1>3 DEF TypeInv

LEMMA IdleShape == Idle \in Txns /\ Shape(Idle)
  BY NoneAssumption DEF Idle, Txns, Shape, Ops

LEMMA RollbackType ==
  ASSUME TypeInv, NEW r \in Requests, Rollback(r), UNCHANGED <<tickets, active, audit>>
  PROVE  TypeInv'
  BY IdleShape, MoveType DEF Rollback

LEMMA GotoType ==
  ASSUME TypeInv, NEW r \in Requests, txn[r].pc # "idle",
         NEW pc \in {"locked", "loaded", "updating", "flushed"}, Goto(r, pc),
         txn[r].op = "join" <=> pc = "locked",
         pc = "updating" => txn[r].op = "start",
         UNCHANGED <<tickets, active, audit>>
  PROVE  TypeInv'
<1> DEFINE x == [txn[r] EXCEPT !.pc = pc]
<1>1. txn[r] \in Txns /\ Shape(txn[r])
  BY DEF TypeInv, TypeOK, TxnShape
<1>2. x \in Txns
  BY <1>1 DEF Txns
<1>3. Shape(x)
  BY <1>1 DEF Shape, Txns, Ops
<1>4. txn' = [txn EXCEPT ![r] = x]
  BY DEF Goto
<1>5. QED
  BY <1>2, <1>3, <1>4, MoveType

LEMMA StepType ==
  TypeInv /\ NumbersDense /\ [Next]_vars => TypeInv'
<1> SUFFICES ASSUME TypeInv, NumbersDense, [Next]_vars PROVE TypeInv'
  OBVIOUS
<1>1. ASSUME NEW r \in Requests, NEW s \in Salons, JoinBegin(r, s) PROVE TypeInv'
  <2> DEFINE x == [Idle EXCEPT !.pc = "checked", !.op = "join", !.salon = s]
  <2>1. x \in Txns /\ Shape(x)
    BY DEF Txns, Shape, Idle, Ops
  <2>2. QED
    BY <1>1, <2>1, MoveType DEF JoinBegin
<1>2. ASSUME NEW r \in Requests, JoinLock(r) PROVE TypeInv'
  BY <1>2, GotoType DEF JoinLock
<1>3. ASSUME NEW r \in Requests, JoinInsert(r) PROVE TypeInv'
  <2>1. txn[r].op = "join" /\ txn[r].salon \in Salons /\ txn[r] \in Txns
    BY <1>3 DEF JoinInsert, TypeInv, TypeOK, TxnShape, Shape
  <2>2. NextNumber(txn[r].salon) \in Nat
    BY <2>1, NextNumberCounts, IssuedFinite
  <2>3. CountAhead(txn[r].salon, NextNumber(txn[r].salon)) \in Nat
    BY AheadIsNat
  <2>4. PICK t \in TicketIds :
          txn' = [txn EXCEPT ![r].pc = "flushed", ![r].ticket = t,
                    ![r].number = NextNumber(txn[r].salon),
                    ![r].ahead = CountAhead(txn[r].salon, NextNumber(txn[r].salon))]
    BY <1>3 DEF JoinInsert
  <2> DEFINE x == [txn[r] EXCEPT !.pc = "flushed", !.ticket = t,
                     !.number = NextNumber(txn[r].salon),
                     !.ahead = CountAhead(txn[r].salon, NextNumber(txn[r].salon))]
  <2>5. x \in Txns
    BY <2>1, <2>2, <2>3 DEF Txns
  <2>6. Shape(x)
    BY <2>1 DEF Txns, Shape, Ops
  <2>7. txn' = [txn EXCEPT ![r] = x]
    BY <2>4 DEF TypeInv, TypeOK
  <2>8. QED
    BY <1>3, <2>5, <2>6, <2>7, MoveType DEF JoinInsert
<1>4. ASSUME NEW r \in Requests, JoinCommit(r) PROVE TypeInv'
  <2>1. txn[r] \in Txns /\ Shape(txn[r]) /\ txn[r].op = "join" /\ txn[r].pc = "flushed"
    BY <1>4 DEF JoinCommit, TypeInv, TypeOK, TxnShape
  <2>2. tickets' \in [TicketIds -> Rows]
    BY <1>4, <2>1 DEF JoinCommit, TypeInv, TypeOK, Rows, Txns, Statuses
  <2>3. txn' \in [Requests -> Txns] /\ TxnShape'
    BY <1>4, IdleShape DEF JoinCommit, TypeInv, TypeOK, TxnShape
  <2>4. QED
    BY <1>4, <2>2, <2>3 DEF JoinCommit, TypeInv, TypeOK
<1>5. ASSUME NEW r \in Requests, NEW t \in TicketIds, NEW h \in Hairdressers, StartCheck(r, t, h)
      PROVE TypeInv'
  <2> DEFINE x == [Idle EXCEPT !.pc = "checked", !.op = "start", !.ticket = t, !.hairdresser = h]
  <2>1. x \in Txns /\ Shape(x)
    BY DEF Txns, Shape, Idle, Ops
  <2>2. QED
    BY <1>5, <2>1, MoveType DEF StartCheck
<1>6. ASSUME NEW r \in Requests, StartLoad(r) PROVE TypeInv'
  BY <1>6, GotoType, RollbackType DEF StartLoad
<1>7. ASSUME NEW r \in Requests, StartUpdate(r) PROVE TypeInv'
  BY <1>7, GotoType DEF StartUpdate
<1>8. ASSUME NEW r \in Requests, StartIndex(r) PROVE TypeInv'
  <2>1. txn[r].op = "start"
    BY <1>8 DEF StartIndex, TypeInv, TxnShape, Shape
  <2>2. QED
    BY <1>8, <2>1, GotoType, RollbackType DEF StartIndex
<1>9. ASSUME NEW r \in Requests, NEW t \in TicketIds, CompleteCheck(r, t) PROVE TypeInv'
  <2> DEFINE x == [Idle EXCEPT !.pc = "checked", !.op = "complete", !.ticket = t]
  <2>1. x \in Txns /\ Shape(x)
    BY DEF Txns, Shape, Idle, Ops
  <2>2. QED
    BY <1>9, <2>1, MoveType DEF CompleteCheck
<1>10. ASSUME NEW r \in Requests, CompleteLoad(r) PROVE TypeInv'
  BY <1>10, GotoType, RollbackType DEF CompleteLoad
<1>11. ASSUME NEW r \in Requests, CompleteUpdate(r) PROVE TypeInv'
  BY <1>11, GotoType DEF CompleteUpdate
<1>12. ASSUME NEW r \in Requests, NEW t \in TicketIds, CancelCheck(r, t) PROVE TypeInv'
  <2> DEFINE x == [Idle EXCEPT !.pc = "checked", !.op = "cancel", !.ticket = t]
  <2>1. x \in Txns /\ Shape(x)
    BY DEF Txns, Shape, Idle, Ops
  <2>2. QED
    BY <1>12, <2>1, MoveType DEF CancelCheck
<1>13. ASSUME NEW r \in Requests, CancelLoad(r) PROVE TypeInv'
  BY <1>13, GotoType, RollbackType DEF CancelLoad
<1>14. ASSUME NEW r \in Requests, CancelUpdate(r) PROVE TypeInv'
  BY <1>14, GotoType DEF CancelUpdate
<1>15. ASSUME NEW r \in Requests, Commit(r) PROVE TypeInv'
  <2>1. txn[r].op \in {"start", "complete", "cancel"} /\ txn[r].ticket \in TicketIds
    BY <1>15 DEF Commit, TypeInv, TxnShape, Shape, Ops
  <2>2. Target[txn[r].op] \in Statuses /\ Logged[txn[r].op] \in Actions
    BY <2>1 DEF Target, Logged, Statuses, Actions
  <2>3. Updated(txn[r], tickets[txn[r].ticket]) \in Rows
    BY ZenonT(40), <2>1, <2>2 DEF Updated, Rows, TypeInv, TypeOK, TxnShape, Shape
  <2>4. tickets' \in [TicketIds -> Rows]
    BY <1>15, <2>3 DEF Commit, TypeInv, TypeOK
  <2>5. audit' \in [TicketIds -> Seq(Actions)]
    BY <1>15, <2>1, <2>2 DEF Commit, TypeInv, TypeOK
  <2>6. txn' \in [Requests -> Txns] /\ TxnShape'
    BY <1>15, IdleShape DEF Commit, TypeInv, TypeOK, TxnShape
  <2>7. QED
    BY <1>15, <2>4, <2>5, <2>6 DEF Commit, TypeInv, TypeOK
<1>16. ASSUME NEW r \in Requests, Abort(r) \/ BreakDeadlock(r) PROVE TypeInv'
  BY <1>16, RollbackType DEF Abort, BreakDeadlock
<1>17. ASSUME NEW s \in Salons, NEW h \in Hairdressers, SetAvailability(s, h) PROVE TypeInv'
  BY <1>17 DEF SetAvailability, TypeInv, TypeOK, TxnShape, Shape
<1>18. CASE UNCHANGED vars
  BY <1>18 DEF vars, TypeInv, TypeOK, TxnShape, Shape
<1>19. QED
  BY <1>1, <1>2, <1>3, <1>4, <1>5, <1>6, <1>7, <1>8, <1>9, <1>10, <1>11, <1>12, <1>13,
     <1>14, <1>15, <1>16, <1>17, <1>18
     DEF Next, Receive, Serve, Join, Start, Complete, Cancel

-----------------------------------------------------------------------------
(* Numbers.                                                                *)

LEMMA InitNumbers == Init => NumbersInv
<1> SUFFICES ASSUME Init PROVE NumbersInv
  OBVIOUS
<1>1. Issued = {} /\ \A s : IssuedBy(s) = {}
  BY DEF Init, Issued, IssuedBy, NoRow
<1>2. \A s : Cardinality(IssuedBy(s)) = 0
  BY <1>1, FS_EmptySet
<1>3. NumbersDense /\ IssuedInSalon
  BY <1>1, <1>2 DEF NumbersDense, IssuedInSalon
<1>4. OneAllocator /\ NumberInHand /\ ActsOnIssued
  BY DEF Init, Idle, Ops, OneAllocator, Allocators, NumberInHand, InHand, ActsOnIssued
<1>5. QED
  BY <1>3, <1>4 DEF NumbersInv

(* A request moves to a record that allocates nothing.                     *)
LEMMA QuietNumbers ==
  ASSUME TypeInv, NumbersInv, NEW r \in Requests, NEW x, UNCHANGED tickets,
         txn' = [txn EXCEPT ![r] = x],
         x.op = "join" => x.pc = "checked",
         x.ticket \in Issued \cup {None},
         x.op \in Ops \ {"join"} => x.ticket \in Issued
  PROVE  NumbersInv'
<1>1. Issued' = Issued /\ \A s : IssuedBy(s)' = IssuedBy(s)
  BY DEF Issued, IssuedBy
<1>2. \A q \in Requests : txn'[q] = IF q = r THEN x ELSE txn[q]
  BY DEF TypeInv, TypeOK
<1>3. NumbersDense' /\ IssuedInSalon'
  BY <1>1 DEF NumbersInv, NumbersDense, IssuedInSalon
<1>4. ActsOnIssued'
  BY <1>1, <1>2 DEF NumbersInv, ActsOnIssued
<1>5. OneAllocator'
  BY <1>2 DEF NumbersInv, OneAllocator, Allocators
<1>6. ASSUME NEW q \in Requests, txn'[q].op = "join", txn'[q].pc = "flushed"
      PROVE  InHand(q)'
  <2>1. q # r /\ txn'[q] = txn[q]
    BY <1>2, <1>6
  <2>2. txn[q].ticket \in TicketIds
    BY <1>6, <2>1 DEF TypeInv, TxnShape, Shape
  <2>3. x.ticket # txn[q].ticket
    BY <1>6, <2>1, <2>2, NoneAssumption DEF NumbersInv, NumberInHand, InHand
  <2>4. QED
    BY <1>1, <1>2, <1>6, <2>1, <2>3 DEF NumbersInv, NumberInHand, InHand
<1>7. NumberInHand'
  BY <1>6 DEF NumberInHand, InHand
<1>8. QED
  BY <1>3, <1>4, <1>5, <1>7 DEF NumbersInv

LEMMA RollbackNumbers ==
  ASSUME TypeInv, NumbersInv, NEW r \in Requests, Rollback(r), UNCHANGED tickets
  PROVE  NumbersInv'
  BY QuietNumbers DEF Rollback, Idle, Ops

(* A request on an issued ticket advances.                                 *)
LEMMA GotoNumbers ==
  ASSUME TypeInv, NumbersInv, NEW r \in Requests, NEW pc, Goto(r, pc),
         txn[r].op \in Ops \ {"join"}, UNCHANGED tickets
  PROVE  NumbersInv'
<1> DEFINE x == [txn[r] EXCEPT !.pc = pc]
<1>1. txn[r] \in Txns /\ txn[r].ticket \in Issued
  BY DEF TypeInv, TypeOK, NumbersInv, ActsOnIssued
<1>2. x.op = txn[r].op /\ x.ticket = txn[r].ticket /\ txn' = [txn EXCEPT ![r] = x]
  BY <1>1 DEF Goto, Txns
<1>3. QED
  BY <1>1, <1>2, QuietNumbers

LEMMA StepNumbers ==
  TypeInv /\ TypeInv' /\ NumbersInv /\ [Next]_vars => NumbersInv'
<1> SUFFICES ASSUME TypeInv, TypeInv', NumbersInv, [Next]_vars PROVE NumbersInv'
  OBVIOUS
<1>0. \A t \in TicketIds, op \in {"start", "complete", "cancel"} : Accepts(op, t) => t \in Issued
  BY DEF Accepts, Source, Issued
<1>1. ASSUME NEW r \in Requests, NEW s \in Salons, JoinBegin(r, s) PROVE NumbersInv'
  BY <1>1, QuietNumbers DEF JoinBegin, Idle, Ops
<1>2. ASSUME NEW r \in Requests, JoinLock(r) PROVE NumbersInv'
  <2>1. txn[r] \in Txns /\ txn[r].op = "join" /\ txn[r].pc = "checked"
    BY <1>2 DEF JoinLock, TypeInv, TypeOK
  <2>2. \A q \in Requests : txn'[q] = IF q = r THEN [txn[r] EXCEPT !.pc = "locked"] ELSE txn[q]
    BY <1>2 DEF JoinLock, Goto, TypeInv, TypeOK
  <2>3. Issued' = Issued /\ \A s : IssuedBy(s)' = IssuedBy(s)
    BY <1>2 DEF JoinLock, Issued, IssuedBy
  <2>4. /\ txn'[r].op = "join" /\ txn'[r].pc = "locked"
        /\ txn'[r].salon = txn[r].salon /\ txn'[r].ticket = txn[r].ticket
    BY <2>1, <2>2 DEF Txns
  <2>5. OneAllocator'
    <3>1. Allocators(txn[r].salon) = {}
      BY <1>2 DEF JoinLock
    <3>2. QED
      BY <2>2, <2>4, <3>1 DEF NumbersInv, OneAllocator, Allocators
  <2>6. NumberInHand'
    BY <2>2, <2>3, <2>4 DEF NumbersInv, NumberInHand, InHand
  <2>7. ActsOnIssued'
    BY <2>2, <2>3, <2>4 DEF NumbersInv, ActsOnIssued
  <2>8. NumbersDense' /\ IssuedInSalon'
    BY <1>2, <2>3 DEF JoinLock, NumbersInv, NumbersDense, IssuedInSalon
  <2>9. QED
    BY <2>5, <2>6, <2>7, <2>8 DEF NumbersInv
<1>3. ASSUME NEW r \in Requests, JoinInsert(r) PROVE NumbersInv'
  <2>1. txn[r] \in Txns /\ txn[r].op = "join" /\ txn[r].pc = "locked" /\ txn[r].salon \in Salons
    BY <1>3 DEF JoinInsert, TypeInv, TypeOK, TxnShape, Shape
  <2> DEFINE n == NextNumber(txn[r].salon)
  <2>2. n = Cardinality(IssuedBy(txn[r].salon)) + 1
    BY <2>1, NextNumberCounts DEF NumbersInv
  <2>3. PICK t \in TicketIds \ Issued :
          /\ \A q \in Requests : txn[q].ticket # t
          /\ txn' = [txn EXCEPT ![r].pc = "flushed", ![r].ticket = t, ![r].number = n,
                       ![r].ahead = CountAhead(txn[r].salon, n)]
    BY <1>3 DEF JoinInsert
  <2>4. \A q \in Requests \ {r} : txn'[q] = txn[q]
    BY <2>3 DEF TypeInv, TypeOK
  <2>5. /\ txn'[r].op = "join" /\ txn'[r].pc = "flushed" /\ txn'[r].ticket = t
        /\ txn'[r].salon = txn[r].salon /\ txn'[r].number = n
    BY <2>1, <2>3 DEF TypeInv, TypeOK, Txns
  <2>6. UNCHANGED tickets /\ Issued' = Issued /\ \A s : IssuedBy(s)' = IssuedBy(s)
    BY <1>3 DEF JoinInsert, Issued, IssuedBy
  <2>7. OneAllocator'
    BY <2>1, <2>4, <2>5 DEF NumbersInv, OneAllocator, Allocators
  <2>8. NumberInHand'
    <3>1. InHand(r)'
      <4>1. \A p \in Requests \ {r} : txn'[p].ticket # txn'[r].ticket
        BY <2>3, <2>4, <2>5
      <4>2. txn'[r].ticket \notin Issued'
        BY <2>3, <2>5, <2>6
      <4>3. \A s \in Salons : txn'[r].salon = s => txn'[r].number = Cardinality(IssuedBy(s)) + 1
        BY <2>2, <2>5
      <4>4. \A s \in Salons : txn'[r].salon = s => txn'[r].number = Cardinality(IssuedBy(s)') + 1
        BY <2>6, <4>3
      <4>5. QED
        BY <4>1, <4>2, <4>4 DEF InHand
    <3>2. ASSUME NEW q \in Requests \ {r} PROVE InHand(q)'
      <4>1. InHand(q) /\ txn'[q] = txn[q] /\ txn[q].ticket # t
        BY <2>3, <2>4 DEF NumbersInv, NumberInHand
      <4>2. \A p \in Requests \ {q} : p # r => txn'[p].ticket = txn[p].ticket
        BY <2>4
      <4>3. QED
        BY <2>5, <2>6, <4>1, <4>2 DEF InHand
    <3>3. QED
      BY <3>1, <3>2 DEF NumberInHand
  <2>9. ActsOnIssued'
    BY <2>4, <2>5, <2>6 DEF NumbersInv, ActsOnIssued
  <2>10. NumbersDense' /\ IssuedInSalon'
    BY <2>6 DEF NumbersInv, NumbersDense, IssuedInSalon
  <2>11. QED
    BY <2>7, <2>8, <2>9, <2>10 DEF NumbersInv
<1>4. ASSUME NEW r \in Requests, JoinCommit(r) PROVE NumbersInv'
  <2>0. /\ txn[r] \in Txns /\ txn[r].op = "join" /\ txn[r].pc = "flushed"
        /\ txn[r].salon \in Salons /\ txn[r].ticket \in TicketIds
    BY <1>4 DEF JoinCommit, TypeInv, TypeOK, TxnShape, Shape
  <2>1. PICK s \in Salons, t \in TicketIds : s = txn[r].salon /\ t = txn[r].ticket
    BY <2>0
  <2>2. /\ txn[r].number = Cardinality(IssuedBy(s)) + 1 /\ t \notin Issued
        /\ \A q \in Requests \ {r} : txn[q].ticket # t
    BY <2>0, <2>1 DEF NumbersInv, NumberInHand, InHand
  <2>3. \A q \in Requests : txn'[q] = IF q = r THEN Idle ELSE txn[q]
    BY <1>4 DEF JoinCommit, TypeInv, TypeOK
  <2>4. \A u \in TicketIds \ {t} : tickets'[u] = tickets[u]
    BY <1>4, <2>1 DEF JoinCommit, TypeInv, TypeOK
  <2>5. /\ tickets'[t].status = "waiting" /\ tickets'[t].salon = s
        /\ tickets'[t].number = txn[r].number
    BY <1>4, <2>1 DEF JoinCommit, TypeInv, TypeOK
  <2>6. Issued' = Issued \cup {t}
    BY <2>1, <2>4, <2>5 DEF Issued
  <2>7. IssuedBy(s)' = IssuedBy(s) \cup {t} /\ t \notin IssuedBy(s)
    BY <2>1, <2>2, <2>4, <2>5, <2>6 DEF IssuedBy, Issued
  <2>8. \A z : z # s => IssuedBy(z)' = IssuedBy(z)
    BY <2>1, <2>2, <2>4, <2>5, <2>6 DEF IssuedBy, Issued
  <2>9. Cardinality(IssuedBy(s)') = Cardinality(IssuedBy(s)) + 1
    BY <2>7, IssuedFinite, FS_AddElement
  <2>10. NumbersDense'
    <3>1. ASSUME NEW z \in Salons
          PROVE  {tickets'[u].number : u \in IssuedBy(z)'} = 1 .. Cardinality(IssuedBy(z)')
      <4>1. CASE z = s
        <5>0. \A u \in IssuedBy(s) : tickets'[u] = tickets[u]
          BY <2>4, <2>7 DEF IssuedBy, Issued
        <5>1. {tickets'[u].number : u \in IssuedBy(s)'}
                = {tickets[u].number : u \in IssuedBy(s)} \cup {txn[r].number}
          BY <2>5, <2>7, <5>0
        <5>2. {tickets[u].number : u \in IssuedBy(s)} = 1 .. Cardinality(IssuedBy(s))
          BY <2>1 DEF NumbersInv, NumbersDense
        <5>4. 1 .. Cardinality(IssuedBy(s)) + 1
                = 1 .. Cardinality(IssuedBy(s)) \cup {Cardinality(IssuedBy(s)) + 1}
          BY IssuedFinite
        <5>3. QED
          BY <2>2, <2>9, <4>1, <5>1, <5>2, <5>4
      <4>2. CASE z # s
        <5>1. IssuedBy(z)' = IssuedBy(z)
          BY <2>8, <4>2
        <5>2. \A u \in IssuedBy(z) : tickets'[u] = tickets[u]
          BY <2>2, <2>4 DEF IssuedBy, Issued
        <5>3. {tickets'[u].number : u \in IssuedBy(z)} = {tickets[u].number : u \in IssuedBy(z)}
          BY <5>2
        <5>4. QED
          BY <5>1, <5>3 DEF NumbersInv, NumbersDense
      <4>3. QED
        BY <4>1, <4>2
    <3>2. QED
      BY <3>1 DEF NumbersDense
  <2>11. NumberInHand'
    <3>1. ASSUME NEW q \in Requests, txn'[q].op = "join", txn'[q].pc = "flushed"
          PROVE  InHand(q)'
      <4>1. q # r /\ txn'[q] = txn[q]
        BY <2>3, <3>1 DEF Idle
      <4>2. txn[q].salon # s
        BY <2>0, <2>1, <3>1, <4>1 DEF NumbersInv, OneAllocator, Allocators
      <4>3. txn[q].ticket \in TicketIds
        BY <3>1, <4>1 DEF TypeInv, TxnShape, Shape
      <4>4. \A p \in Requests \ {q} : txn'[p].ticket # txn[q].ticket
        BY <2>3, <3>1, <4>1, <4>3, NoneAssumption DEF NumbersInv, NumberInHand, InHand, Idle
      <4>5. QED
        BY <2>2, <2>6, <2>8, <3>1, <4>1, <4>2, <4>4 DEF NumbersInv, NumberInHand, InHand
    <3>2. QED
      BY <3>1 DEF NumberInHand, InHand
  <2>12. OneAllocator'
    BY <2>3 DEF NumbersInv, OneAllocator, Allocators, Idle
  <2>13. ActsOnIssued'
    BY <2>3, <2>6 DEF NumbersInv, ActsOnIssued, Idle, Ops
  <2>14. IssuedInSalon'
    BY <2>1, <2>4, <2>5, <2>6 DEF NumbersInv, IssuedInSalon, Issued
  <2>15. QED
    BY <2>10, <2>11, <2>12, <2>13, <2>14 DEF NumbersInv
<1>5. ASSUME NEW r \in Requests, NEW t \in TicketIds, NEW h \in Hairdressers, StartCheck(r, t, h)
      PROVE NumbersInv'
  BY <1>0, <1>5, QuietNumbers DEF StartCheck, Idle, Ops
<1>6. ASSUME NEW r \in Requests, StartLoad(r) PROVE NumbersInv'
  BY <1>6, GotoNumbers, RollbackNumbers DEF StartLoad, Ops
<1>7. ASSUME NEW r \in Requests, StartUpdate(r) PROVE NumbersInv'
  BY <1>7, GotoNumbers DEF StartUpdate, Ops
<1>8. ASSUME NEW r \in Requests, StartIndex(r) PROVE NumbersInv'
  <2>1. txn[r].op = "start"
    BY <1>8 DEF StartIndex, TypeInv, TxnShape, Shape
  <2>2. QED
    BY <1>8, <2>1, GotoNumbers, RollbackNumbers DEF StartIndex, Ops
<1>9. ASSUME NEW r \in Requests, NEW t \in TicketIds, CompleteCheck(r, t) PROVE NumbersInv'
  BY <1>0, <1>9, QuietNumbers DEF CompleteCheck, Idle, Ops
<1>10. ASSUME NEW r \in Requests, CompleteLoad(r) PROVE NumbersInv'
  BY <1>10, GotoNumbers, RollbackNumbers DEF CompleteLoad, Ops
<1>11. ASSUME NEW r \in Requests, CompleteUpdate(r) PROVE NumbersInv'
  BY <1>11, GotoNumbers DEF CompleteUpdate, Ops
<1>12. ASSUME NEW r \in Requests, NEW t \in TicketIds, CancelCheck(r, t) PROVE NumbersInv'
  BY <1>0, <1>12, QuietNumbers DEF CancelCheck, Idle, Ops
<1>13. ASSUME NEW r \in Requests, CancelLoad(r) PROVE NumbersInv'
  BY <1>13, GotoNumbers, RollbackNumbers DEF CancelLoad, Ops
<1>14. ASSUME NEW r \in Requests, CancelUpdate(r) PROVE NumbersInv'
  BY <1>14, GotoNumbers DEF CancelUpdate, Ops
<1>15. ASSUME NEW r \in Requests, Commit(r) PROVE NumbersInv'
  <2> DEFINE t == txn[r].ticket
  <2>1. txn[r].op \in {"start", "complete", "cancel"} /\ t \in TicketIds /\ t \in Issued
    BY <1>15 DEF Commit, TypeInv, TxnShape, Shape, Ops, NumbersInv, ActsOnIssued
  <2>2. /\ \A u \in TicketIds \ {t} : tickets'[u] = tickets[u]
        /\ tickets'[t] = Updated(txn[r], tickets[t])
    BY <1>15, <2>1 DEF Commit, TypeInv, TypeOK
  <2>3. /\ tickets'[t].salon = tickets[t].salon /\ tickets'[t].number = tickets[t].number
        /\ tickets'[t].status \in Statuses
    BY <2>1, <2>2 DEF Updated, Target, Statuses, TypeInv, TypeOK, Rows
  <2>4. Issued' = Issued
    BY <2>1, <2>2, <2>3 DEF Issued, Statuses
  <2>5. \A u \in TicketIds : tickets'[u].salon = tickets[u].salon /\ tickets'[u].number = tickets[u].number
    BY <2>2, <2>3
  <2>6. \A z : IssuedBy(z)' = IssuedBy(z)
    BY <2>4, <2>5 DEF IssuedBy, Issued
  <2>7. \A q \in Requests : txn'[q] = IF q = r THEN Idle ELSE txn[q]
    BY <1>15 DEF Commit, TypeInv, TypeOK
  <2>8. NumbersDense'
    <3>1. ASSUME NEW z \in Salons
          PROVE  {tickets'[u].number : u \in IssuedBy(z)'} = {tickets[u].number : u \in IssuedBy(z)}
      BY <2>5, <2>6 DEF IssuedBy, Issued
    <3>2. QED
      BY <2>6, <3>1 DEF NumbersInv, NumbersDense
  <2>9. IssuedInSalon'
    BY <2>4, <2>5 DEF NumbersInv, IssuedInSalon, Issued
  <2>10. OneAllocator' /\ ActsOnIssued'
    BY <2>4, <2>7 DEF NumbersInv, OneAllocator, Allocators, ActsOnIssued, Idle, Ops
  <2>11. NumberInHand'
    <3>1. ASSUME NEW q \in Requests, txn'[q].op = "join", txn'[q].pc = "flushed"
          PROVE  InHand(q)'
      <4>1. q # r /\ txn'[q] = txn[q] /\ txn[q].ticket \in TicketIds
        BY <2>7, <3>1 DEF Idle, TypeInv, TxnShape, Shape
      <4>2. QED
        BY <2>4, <2>6, <2>7, <3>1, <4>1, NoneAssumption DEF TxnShape, Shape, TypeInv, NumbersInv, NumberInHand, InHand, Idle
    <3>2. QED
      BY <3>1 DEF NumberInHand, InHand
  <2>12. QED
    BY <2>8, <2>9, <2>10, <2>11 DEF NumbersInv
<1>16. ASSUME NEW r \in Requests, Abort(r) \/ BreakDeadlock(r) PROVE NumbersInv'
  BY <1>16, RollbackNumbers DEF Abort, BreakDeadlock
<1>17. CASE UNCHANGED <<tickets, txn>>
  <2>1. Issued' = Issued /\ \A s : IssuedBy(s)' = IssuedBy(s)
    BY <1>17 DEF IssuedBy, Issued
  <2>2. OneAllocator' /\ NumberInHand' /\ ActsOnIssued' /\ IssuedInSalon'
    BY <1>17, <2>1 DEF NumbersInv, OneAllocator, Allocators, NumberInHand, InHand,
                       ActsOnIssued, IssuedInSalon
  <2>3. NumbersDense'
    BY <1>17, <2>1 DEF NumbersInv, NumbersDense
  <2>4. QED
    BY <2>2, <2>3 DEF NumbersInv
<1>18. QED
  BY <1>1, <1>2, <1>3, <1>4, <1>5, <1>6, <1>7, <1>8, <1>9, <1>10, <1>11, <1>12, <1>13,
     <1>14, <1>15, <1>16, <1>17
     DEF Next, Receive, Serve, Join, Start, Complete, Cancel, SetAvailability, vars

LEMMA NumbersAlways == Spec => [](TypeInv /\ NumbersInv)
<1>1. Init => TypeInv /\ NumbersInv
  BY InitType, InitNumbers
<1>2. TypeInv /\ NumbersInv /\ [Next]_vars => TypeInv' /\ NumbersInv'
  BY StepType, StepNumbers DEF NumbersInv
<1>3. QED
  BY <1>1, <1>2, PTL DEF Spec

(* The types of the rows and of the requests' local values hold, for any   *)
(* number of requests, tickets, salons and hairdressers.                   *)
THEOREM QueueTypeOK == Spec => []TypeOK
<1>1. TypeInv /\ NumbersInv => TypeOK
  BY DEF TypeInv
<1>2. QED
  BY <1>1, NumbersAlways, PTL

(* The numbers of a salon's day stay dense for any number of kiosks: no    *)
(* rolled back join leaves a gap and none repeats a number.                *)
THEOREM QueueNumbersDense == Spec => []NumbersDense
<1>1. TypeInv /\ NumbersInv => NumbersDense
  BY DEF NumbersInv
<1>2. QED
  BY <1>1, NumbersAlways, PTL
-----------------------------------------------------------------------------
(* One ticket at a time.                                                   *)

LEMMA InitExclusive == Init => ExclusiveInv
  BY DEF Init, ExclusiveInv, OneWriter, Writers, OneInserter, EntryFree, HairdresserExclusive,
         Idle, Issued, NoRow

(* A request moves to a record that writes nothing yet.                    *)
LEMMA QuietExclusive ==
  ASSUME TypeInv, ExclusiveInv, NEW r \in Requests, NEW x, UNCHANGED tickets,
         txn' = [txn EXCEPT ![r] = x], x.op # "join" => x.pc \notin {"updating", "flushed"}
  PROVE  ExclusiveInv'
<1>1. \A q \in Requests : txn'[q] = IF q = r THEN x ELSE txn[q]
  BY DEF TypeInv, TypeOK
<1>2. Issued' = Issued /\ \A h, t : InProgressOf(h, t)' = InProgressOf(h, t)
  BY DEF Issued, InProgressOf
<1>3. OneWriter' /\ OneInserter'
  BY <1>1 DEF ExclusiveInv, OneWriter, Writers, OneInserter
<1>4. EntryFree'
  BY <1>1, <1>2 DEF ExclusiveInv, EntryFree
<1>5. HairdresserExclusive'
  BY <1>2 DEF ExclusiveInv, HairdresserExclusive
<1>6. QED
  BY <1>3, <1>4, <1>5 DEF ExclusiveInv

LEMMA RollbackExclusive ==
  ASSUME TypeInv, ExclusiveInv, NEW r \in Requests, Rollback(r), UNCHANGED tickets
  PROVE  ExclusiveInv'
  BY QuietExclusive DEF Rollback, Idle

(* An UPDATE that finds the row unlocked takes its lock.                   *)
LEMMA LockExclusive ==
  ASSUME TypeInv, ExclusiveInv, NEW r \in Requests, NEW pc \in {"updating", "flushed"},
         Goto(r, pc), UNCHANGED tickets, Writers(txn[r].ticket) = {},
         txn[r].op = "start" => pc = "updating"
  PROVE  ExclusiveInv'
<1>1. \A q \in Requests \ {r} : txn'[q] = txn[q]
  BY DEF Goto, TypeInv, TypeOK
<1>2. txn'[r].pc = pc /\ txn'[r].op = txn[r].op /\ txn'[r].ticket = txn[r].ticket
  BY DEF Goto, TypeInv, TypeOK, Txns
<1>3. Issued' = Issued /\ \A h, t : InProgressOf(h, t)' = InProgressOf(h, t)
  BY DEF Issued, InProgressOf
<1>4. OneWriter'
  BY <1>1, <1>2 DEF ExclusiveInv, OneWriter, Writers
<1>5. OneInserter' /\ EntryFree'
  BY <1>1, <1>2, <1>3 DEF ExclusiveInv, OneInserter, EntryFree
<1>6. HairdresserExclusive'
  BY <1>3 DEF ExclusiveInv, HairdresserExclusive
<1>7. QED
  BY <1>4, <1>5, <1>6 DEF ExclusiveInv

LEMMA StepExclusive ==
  TypeInv /\ ExclusiveInv /\ NumbersInv /\ [Next]_vars => ExclusiveInv'
<1> SUFFICES ASSUME TypeInv, ExclusiveInv, NumbersInv, [Next]_vars PROVE ExclusiveInv'
  OBVIOUS
<1>1. ASSUME NEW r \in Requests, NEW s \in Salons, JoinBegin(r, s) PROVE ExclusiveInv'
  BY <1>1, QuietExclusive DEF JoinBegin, Idle
<1>2. ASSUME NEW r \in Requests, JoinLock(r) PROVE ExclusiveInv'
  <2> DEFINE x == [txn[r] EXCEPT !.pc = "locked"]
  <2>1. txn' = [txn EXCEPT ![r] = x] /\ x.op = "join"
    BY <1>2 DEF JoinLock, Goto, TypeInv, TypeOK, Txns
  <2>2. QED
    BY <1>2, <2>1, QuietExclusive DEF JoinLock
<1>3. ASSUME NEW r \in Requests, JoinInsert(r) PROVE ExclusiveInv'
  <2>1. PICK x : txn' = [txn EXCEPT ![r] = x] /\ x.op = "join"
    BY <1>3 DEF JoinInsert, TypeInv, TypeOK, Txns, TxnShape, Shape
  <2>2. QED
    BY <1>3, <2>1, QuietExclusive DEF JoinInsert
<1>4. ASSUME NEW r \in Requests, JoinCommit(r) PROVE ExclusiveInv'
  <2>1. txn[r].ticket \in TicketIds /\ txn[r].op = "join"
    BY <1>4 DEF JoinCommit, TypeInv, TxnShape, Shape
  <2>2. PICK t \in TicketIds : t = txn[r].ticket
    BY <2>1
  <2>3. \A u \in TicketIds : tickets'[u] = tickets[u] \/ (u = t /\ tickets'[u].status = "waiting")
    BY <1>4, <2>2 DEF JoinCommit, TypeInv, TypeOK
  <2>4. \A q \in Requests : txn'[q] = IF q = r THEN Idle ELSE txn[q]
    BY <1>4 DEF JoinCommit, TypeInv, TypeOK
  <2>5. \A h, u : InProgressOf(h, u)' \subseteq InProgressOf(h, u)
    BY <2>3 DEF InProgressOf, Issued
  <2>6. OneWriter' /\ OneInserter'
    BY <2>4 DEF ExclusiveInv, OneWriter, Writers, OneInserter, Idle
  <2>7. EntryFree'
    BY <2>4, <2>5 DEF ExclusiveInv, EntryFree, Idle
  <2>8. HairdresserExclusive'
    BY <2>3 DEF ExclusiveInv, HairdresserExclusive, Issued
  <2>9. QED
    BY <2>6, <2>7, <2>8 DEF ExclusiveInv
<1>5. ASSUME NEW r \in Requests, NEW t \in TicketIds, NEW h \in Hairdressers, StartCheck(r, t, h)
      PROVE ExclusiveInv'
  BY <1>5, QuietExclusive DEF StartCheck, Idle
<1>6. ASSUME NEW r \in Requests, NEW op \in {"start", "complete", "cancel"}, Goto(r, "loaded"),
             UNCHANGED tickets
      PROVE ExclusiveInv'
  <2> DEFINE x == [txn[r] EXCEPT !.pc = "loaded"]
  <2>1. txn' = [txn EXCEPT ![r] = x] /\ x.pc = "loaded"
    BY <1>6 DEF Goto, TypeInv, TypeOK, Txns
  <2>2. QED
    BY <1>6, <2>1, QuietExclusive
<1>7. ASSUME NEW r \in Requests, StartLoad(r) \/ CompleteLoad(r) \/ CancelLoad(r)
      PROVE ExclusiveInv'
  BY <1>6, <1>7, RollbackExclusive DEF StartLoad, CompleteLoad, CancelLoad
<1>8. ASSUME NEW r \in Requests, StartUpdate(r) PROVE ExclusiveInv'
  BY <1>8, LockExclusive DEF StartUpdate
<1>9. ASSUME NEW r \in Requests, CompleteUpdate(r) \/ CancelUpdate(r) PROVE ExclusiveInv'
  BY <1>9, LockExclusive DEF CompleteUpdate, CancelUpdate
<1>10. ASSUME NEW r \in Requests, StartIndex(r) PROVE ExclusiveInv'
  <2>1. CASE Rollback(r)
    BY <1>10, <2>1, RollbackExclusive DEF StartIndex
  <2>2. CASE InProgressOf(txn[r].hairdresser, txn[r].ticket) = {} /\ Goto(r, "flushed")
    <3>1. txn[r].pc = "updating" /\ txn[r].op = "start" /\ txn[r].ticket \in TicketIds
      BY <1>10 DEF StartIndex, TypeInv, TxnShape, Shape, Ops
    <3>2. \A q \in Requests \ {r} : txn'[q] = txn[q]
      BY <2>2 DEF Goto, TypeInv, TypeOK
    <3>3. /\ txn'[r].pc = "flushed" /\ txn'[r].op = "start" /\ txn'[r].ticket = txn[r].ticket
          /\ txn'[r].hairdresser = txn[r].hairdresser
      BY <2>2, <3>1 DEF Goto, TypeInv, TypeOK, Txns
    <3>4. Issued' = Issued /\ \A h, t : InProgressOf(h, t)' = InProgressOf(h, t)
      BY <1>10 DEF StartIndex, Issued, InProgressOf
    <3>5. OneWriter'
      <4>1. \A t : Writers(t)' = Writers(t)
        BY <3>1, <3>2, <3>3 DEF Writers
      <4>2. QED
        BY <4>1 DEF ExclusiveInv, OneWriter
    <3>6. ASSUME NEW q \in Requests \ {r}, txn[q].op = "start", txn[q].pc = "flushed"
          PROVE  txn[q].hairdresser # txn[r].hairdresser
      <4>1. q \in Writers(txn[q].ticket) /\ r \in Writers(txn[r].ticket)
        BY <3>1, <3>6 DEF Writers
      <4>2. txn[q].ticket # txn[r].ticket
        BY <3>1, <4>1 DEF ExclusiveInv, OneWriter
      <4>3. QED
        BY <1>10, <3>6, <4>2 DEF StartIndex, Rivals
    <3>7. OneInserter'
      BY <3>2, <3>3, <3>6 DEF ExclusiveInv, OneInserter
    <3>8. EntryFree'
      BY <2>2, <3>2, <3>3, <3>4 DEF ExclusiveInv, EntryFree
    <3>9. HairdresserExclusive'
      BY <1>10, <3>4 DEF StartIndex, ExclusiveInv, HairdresserExclusive
    <3>10. QED
      BY <3>5, <3>7, <3>8, <3>9 DEF ExclusiveInv
  <2>3. QED
    BY <1>10, <2>1, <2>2 DEF StartIndex
<1>11. ASSUME NEW r \in Requests, NEW t \in TicketIds, CompleteCheck(r, t) \/ CancelCheck(r, t)
      PROVE ExclusiveInv'
  BY <1>11, QuietExclusive DEF CompleteCheck, CancelCheck, Idle
<1>12. ASSUME NEW r \in Requests, Commit(r) PROVE ExclusiveInv'
  <2>1. txn[r].op \in {"start", "complete", "cancel"} /\ txn[r].ticket \in Issued
    BY <1>12 DEF Commit, TypeInv, TxnShape, Shape, Ops, NumbersInv, ActsOnIssued
  <2>2. PICK t \in Issued : t = txn[r].ticket
    BY <2>1
  <2>3. t \in TicketIds /\ tickets[t] \in Rows /\ txn[r].pc = "flushed"
    BY <1>12 DEF Commit, Issued, TypeInv, TypeOK
  <2>4. /\ \A u \in TicketIds \ {t} : tickets'[u] = tickets[u]
        /\ tickets'[t] = Updated(txn[r], tickets[t])
    BY <1>12, <2>2, <2>3 DEF Commit, TypeInv, TypeOK
  <2>5. \A q \in Requests : txn'[q] = IF q = r THEN Idle ELSE txn[q]
    BY <1>12 DEF Commit, TypeInv, TypeOK
  <2>11. tickets'[t].status \in {"in_progress", "done", "expired"}
    BY <2>1, <2>3, <2>4 DEF Updated, Target, Rows
  <2>6. Issued' = Issued
    BY <2>3, <2>4, <2>11 DEF Issued
  <2>7. OneWriter' /\ OneInserter'
    BY <2>5 DEF ExclusiveInv, OneWriter, Writers, OneInserter, Idle
  <2>8. CASE txn[r].op = "start"
    <3>1. tickets'[t].status = "in_progress" /\ tickets'[t].hairdresser = txn[r].hairdresser
      BY <2>3, <2>4, <2>8 DEF Updated, Target, Rows
    <3>2. InProgressOf(txn[r].hairdresser, t) = {}
      BY <2>2, <2>3, <2>8 DEF ExclusiveInv, EntryFree
    <3>3. HairdresserExclusive'
      <4>1. \A u \in Issued \ {t} : ~(/\ tickets'[u].status = "in_progress"
                                       /\ tickets'[u].hairdresser = tickets'[t].hairdresser)
        BY <2>4, <3>1, <3>2 DEF InProgressOf, Issued
      <4>2. \A u \in Issued \ {t} : tickets'[u] = tickets[u]
        BY <2>4 DEF Issued
      <4>3. QED
        BY <2>6, <4>1, <4>2 DEF ExclusiveInv, HairdresserExclusive
    <3>4. \A h, u : h # txn[r].hairdresser => InProgressOf(h, u)' = InProgressOf(h, u) \ {t}
      BY <2>4, <2>6, <3>1 DEF InProgressOf, Issued
    <3>5. EntryFree'
      <4>1. ASSUME NEW q \in Requests, txn'[q].op = "start", txn'[q].pc = "flushed"
            PROVE  /\ q # r /\ txn'[q] = txn[q]
                   /\ txn[q].hairdresser # txn[r].hairdresser
                   /\ InProgressOf(txn[q].hairdresser, txn[q].ticket) = {}
        BY <2>3, <2>5, <2>8, <4>1 DEF Idle, ExclusiveInv, OneInserter, EntryFree
      <4>2. QED
        BY <3>4, <4>1 DEF EntryFree
    <3>6. QED
      BY <2>7, <3>3, <3>5 DEF ExclusiveInv
  <2>9. CASE txn[r].op # "start"
    <3>1. tickets'[t].status # "in_progress"
      BY <2>1, <2>3, <2>4, <2>9 DEF Updated, Target, Rows
    <3>2. HairdresserExclusive'
      BY <2>3, <2>4, <2>6, <3>1 DEF ExclusiveInv, HairdresserExclusive, Issued
    <3>3. \A h, u : InProgressOf(h, u)' \subseteq InProgressOf(h, u)
      BY <2>4, <2>6, <3>1 DEF InProgressOf, Issued
    <3>4. EntryFree'
      BY <2>5, <3>3 DEF ExclusiveInv, EntryFree, Idle
    <3>5. QED
      BY <2>7, <3>2, <3>4 DEF ExclusiveInv
  <2>10. QED
    BY <2>8, <2>9
<1>13. ASSUME NEW r \in Requests, Abort(r) \/ BreakDeadlock(r) PROVE ExclusiveInv'
  BY <1>13, RollbackExclusive DEF Abort, BreakDeadlock
<1>14. CASE UNCHANGED <<tickets, txn>>
  BY <1>14 DEF ExclusiveInv, OneWriter, Writers, OneInserter, EntryFree, InProgressOf,
               HairdresserExclusive, Issued
<1>15. QED
  BY <1>1, <1>2, <1>3, <1>4, <1>5, <1>7, <1>8, <1>9, <1>10, <1>11, <1>12, <1>13, <1>14
     DEF Next, Receive, Serve, Join, Start, Complete, Cancel, SetAvailability, vars

(* A hairdresser serves at most one ticket at a time, for any number of    *)
(* concurrent requests, tickets and salons: what the partial unique index  *)
(* uq_queue_tickets_hairdresser_in_progress gives the use case.            *)
THEOREM QueueHairdresserExclusive == Spec => []HairdresserExclusive
<1>1. Init => ExclusiveInv
  BY InitExclusive
<1>2. TypeInv /\ NumbersInv /\ ExclusiveInv /\ [Next]_vars => ExclusiveInv'
  BY StepExclusive
<1>3. ExclusiveInv => HairdresserExclusive
  BY DEF ExclusiveInv
<1>4. QED
  BY <1>1, <1>2, <1>3, NumbersAlways, PTL DEF Spec

-----------------------------------------------------------------------------
(* What the committed rows tell.                                           *)
Base == TypeInv /\ NumbersInv

(* Rows and log change by a commit only.                                   *)
LEMMA StepRows ==
  ASSUME [Next]_vars
  PROVE  \/ UNCHANGED <<tickets, audit>>
         \/ \E r \in Requests : JoinCommit(r) \/ Commit(r)
  BY DEF Next, Receive, Serve, Join, Start, Complete, Cancel, vars,
         JoinBegin, JoinLock, JoinInsert, StartCheck, StartLoad, StartUpdate, StartIndex,
         CompleteCheck, CompleteLoad, CompleteUpdate, CancelCheck, CancelLoad, CancelUpdate,
         Abort, BreakDeadlock, SetAvailability

(* A join that commits adds a row with the next number of its salon.       *)
NewRow(r) == [salon |-> txn[r].salon, number |-> Cardinality(IssuedBy(txn[r].salon)) + 1,
              status |-> "waiting", hairdresser |-> None, ahead |-> txn[r].ahead]

LEMMA JoinCommitRows ==
  ASSUME Base, NEW r \in Requests, JoinCommit(r)
  PROVE  /\ txn[r].ticket \in TicketIds \ Issued
         /\ txn[r].salon \in Salons /\ txn[r].ahead \in Nat
         /\ txn[r].number = Cardinality(IssuedBy(txn[r].salon)) + 1
         /\ tickets' = [tickets EXCEPT ![txn[r].ticket] = NewRow(r)]
         /\ Issued' = Issued \cup {txn[r].ticket}
         /\ audit' = audit
         /\ \A q \in Requests : txn'[q] = IF q = r THEN Idle ELSE txn[q]
<1>1. /\ txn[r].ticket \in TicketIds /\ txn[r].salon \in Salons /\ txn[r].ahead \in Nat
      /\ txn[r].op = "join" /\ txn[r].pc = "flushed"
  BY DEF Base, TypeInv, TypeOK, TxnShape, Shape, Txns, JoinCommit
<1>2. txn[r].ticket \notin Issued /\ txn[r].number = Cardinality(IssuedBy(txn[r].salon)) + 1
  BY <1>1 DEF Base, NumbersInv, NumberInHand, InHand
<1>3. tickets' = [tickets EXCEPT ![txn[r].ticket] = NewRow(r)] /\ audit' = audit
  BY <1>1, <1>2 DEF JoinCommit, NewRow
<1>4. Issued' = Issued \cup {txn[r].ticket}
  BY <1>1, <1>3 DEF Issued, NewRow, Base, TypeInv, TypeOK
<1>5. \A q \in Requests : txn'[q] = IF q = r THEN Idle ELSE txn[q]
  BY DEF JoinCommit, Base, TypeInv, TypeOK
<1>6. QED
  BY <1>1, <1>2, <1>3, <1>4, <1>5

(* Another request that commits changes the row of an issued ticket and    *)
(* adds its line to the log of that ticket.                                *)
LEMMA CommitRows ==
  ASSUME Base, NEW r \in Requests, Commit(r)
  PROVE  /\ txn[r].op \in {"start", "complete", "cancel"} /\ txn[r].pc = "flushed"
         /\ txn[r].ticket \in Issued /\ txn[r].ticket \in TicketIds
         /\ tickets' = [tickets EXCEPT ![txn[r].ticket] = Updated(txn[r], tickets[txn[r].ticket])]
         /\ tickets'[txn[r].ticket] = Updated(txn[r], tickets[txn[r].ticket])
         /\ \A t \in TicketIds : t # txn[r].ticket => tickets'[t] = tickets[t]
         /\ audit' = [audit EXCEPT ![txn[r].ticket] = Append(@, Logged[txn[r].op])]
         /\ audit'[txn[r].ticket] = Append(audit[txn[r].ticket], Logged[txn[r].op])
         /\ \A t \in TicketIds : t # txn[r].ticket => audit'[t] = audit[t]
         /\ Issued' = Issued
         /\ \A q \in Requests : txn'[q] = IF q = r THEN Idle ELSE txn[q]
<1>1. txn[r].op \in {"start", "complete", "cancel"} /\ txn[r].pc = "flushed"
  BY DEF Commit, Base, TypeInv, TxnShape, Shape, Ops
<1>2. txn[r].ticket \in Issued /\ txn[r].ticket \in TicketIds
  BY <1>1 DEF Base, NumbersInv, ActsOnIssued, Ops, Issued
<1>3. /\ tickets' = [tickets EXCEPT ![txn[r].ticket] = Updated(txn[r], tickets[txn[r].ticket])]
      /\ audit' = [audit EXCEPT ![txn[r].ticket] = Append(@, Logged[txn[r].op])]
  BY DEF Commit
<1>4. /\ tickets'[txn[r].ticket] = Updated(txn[r], tickets[txn[r].ticket])
      /\ \A t \in TicketIds : t # txn[r].ticket => tickets'[t] = tickets[t]
      /\ audit'[txn[r].ticket] = Append(audit[txn[r].ticket], Logged[txn[r].op])
      /\ \A t \in TicketIds : t # txn[r].ticket => audit'[t] = audit[t]
  BY <1>2, <1>3 DEF Base, TypeInv, TypeOK
<1>5. tickets'[txn[r].ticket].status = Target[txn[r].op]
  BY <1>2, <1>4 DEF Updated, Base, TypeInv, TypeOK, Rows
<1>6. Issued' = Issued
  BY <1>1, <1>2, <1>4, <1>5 DEF Issued, Target
<1>7. \A q \in Requests : txn'[q] = IF q = r THEN Idle ELSE txn[q]
  BY DEF Commit, Base, TypeInv, TypeOK
<1>8. QED
  BY <1>1, <1>2, <1>3, <1>4, <1>6, <1>7

-----------------------------------------------------------------------------
(* Numbers grow.                                                           *)

LEMMA NumberInRange ==
  ASSUME Base, NEW t \in Issued
  PROVE  tickets[t].number \in 1 .. Cardinality(IssuedBy(tickets[t].salon))
<1>1. tickets[t].salon \in Salons
  BY DEF Base, NumbersInv, IssuedInSalon
<1>2. t \in IssuedBy(tickets[t].salon)
  BY DEF IssuedBy
<1>3. QED
  BY <1>1, <1>2 DEF Base, NumbersInv, NumbersDense

Grows ==
  \A t, u \in TicketIds :
    /\ t \in Issued /\ u \notin Issued /\ u \in Issued'
    /\ tickets[t].salon = tickets'[u].salon
    => tickets[t].number < tickets'[u].number

LEMMA StepGrows ==
  ASSUME Base, [Next]_vars
  PROVE  Grows
<1> SUFFICES ASSUME NEW t \in TicketIds, NEW u \in TicketIds,
                    t \in Issued, u \notin Issued, u \in Issued',
                    tickets[t].salon = tickets'[u].salon
             PROVE  tickets[t].number < tickets'[u].number
  BY DEF Grows
<1>1. CASE UNCHANGED <<tickets, audit>>
  BY <1>1 DEF Issued
<1>2. ASSUME NEW r \in Requests, JoinCommit(r) PROVE tickets[t].number < tickets'[u].number
  <2>1. /\ u = txn[r].ticket /\ tickets' = [tickets EXCEPT ![u] = NewRow(r)]
    BY <1>2, JoinCommitRows
  <2>2. /\ tickets'[u].salon = txn[r].salon
        /\ tickets'[u].number = Cardinality(IssuedBy(txn[r].salon)) + 1
    BY <2>1 DEF NewRow, Base, TypeInv, TypeOK
  <2>3. tickets[t].number \in 1 .. Cardinality(IssuedBy(txn[r].salon))
    BY <2>2, NumberInRange
  <2>4. Cardinality(IssuedBy(txn[r].salon)) \in Nat
    BY IssuedFinite
  <2>5. QED
    BY <2>2, <2>3, <2>4
<1>3. ASSUME NEW r \in Requests, Commit(r) PROVE FALSE
  BY <1>3, CommitRows
<1>4. QED
  BY <1>1, <1>2, <1>3, StepRows

(* A ticket that becomes visible bears a higher number than every ticket   *)
(* of its salon that was visible before, for any number of kiosks.         *)
THEOREM QueueNumbersGrow == Spec => NumbersGrow
<1>1. Base /\ [Next]_vars => [Grows]_vars
  BY StepGrows
<1>2. Spec => []Base
  BY NumbersAlways DEF Base
<1>3. QED
  BY <1>1, <1>2, PTL DEF Spec, NumbersGrow, Grows

-----------------------------------------------------------------------------
(* The log tells the status.                                               *)

Told(lines) ==
  IF lines = <<>> THEN "waiting"
  ELSE CHOOSE st \in Statuses :
         \E op \in DOMAIN Target : Target[op] = st /\ Logged[op] = Last(lines)

(* A ticket that nobody sees yet has no line: the conjunct that makes the  *)
(* property inductive.                                                     *)
AuditInv ==
  /\ \A t \in Issued : tickets[t].status = Told(audit[t])
  /\ \A t \in TicketIds \ Issued : audit[t] = <<>>

(* A line tells the status that the operation it logs leaves.              *)
LEMMA ToldByLine ==
  ASSUME NEW lines \in Seq(Actions), NEW op \in {"start", "complete", "cancel"}
  PROVE  Told(Append(lines, Logged[op])) = Target[op]
<1> DEFINE longer == Append(lines, Logged[op])
<1>1. Logged[op] \in Actions
  BY DEF Logged, Actions
<1>2. longer # <<>> /\ Last(longer) = Logged[op]
  BY <1>1 DEF Last
<1>3. DOMAIN Target = {"start", "complete", "cancel"} /\ Target[op] \in Statuses
  BY DEF Target, Statuses
<1>4. \A o \in DOMAIN Target : Logged[o] = Logged[op] => o = op
  BY <1>3 DEF Logged
<1>5. \A st \in Statuses :
        (\E o \in DOMAIN Target : Target[o] = st /\ Logged[o] = Last(longer)) <=> st = Target[op]
  BY <1>2, <1>3, <1>4
<1>6. (CHOOSE st \in Statuses :
         \E o \in DOMAIN Target : Target[o] = st /\ Logged[o] = Last(longer)) = Target[op]
  BY <1>3, <1>5
<1>7. QED
  BY <1>2, <1>6 DEF Told

LEMMA InitAudit == Init => AuditInv
  BY DEF Init, AuditInv, Issued, NoRow

LEMMA StepAudit ==
  ASSUME Base, AuditInv, [Next]_vars
  PROVE  AuditInv'
<1>1. CASE UNCHANGED <<tickets, audit>>
  BY <1>1 DEF AuditInv, Issued
<1>2. ASSUME NEW r \in Requests, JoinCommit(r) PROVE AuditInv'
  <2>1. /\ txn[r].ticket \in TicketIds \ Issued /\ Issued' = Issued \cup {txn[r].ticket}
        /\ tickets' = [tickets EXCEPT ![txn[r].ticket] = NewRow(r)] /\ audit' = audit
    BY <1>2, JoinCommitRows
  <2>2. /\ tickets'[txn[r].ticket].status = "waiting"
        /\ \A t \in Issued : tickets'[t] = tickets[t]
    BY <2>1 DEF NewRow, Issued, Base, TypeInv, TypeOK
  <2>3. audit[txn[r].ticket] = <<>>
    BY <2>1 DEF AuditInv
  <2>4. \A t \in Issued' : tickets'[t].status = Told(audit'[t])
    BY SMTT(30), <2>1, <2>2, <2>3 DEF AuditInv, Told
  <2>5. QED
    BY <2>1, <2>4 DEF AuditInv
<1>3. ASSUME NEW r \in Requests, Commit(r) PROVE AuditInv'
  <2>1. /\ txn[r].op \in {"start", "complete", "cancel"}
        /\ txn[r].ticket \in Issued /\ txn[r].ticket \in TicketIds /\ Issued' = Issued
        /\ tickets'[txn[r].ticket] = Updated(txn[r], tickets[txn[r].ticket])
        /\ \A t \in TicketIds : t # txn[r].ticket => tickets'[t] = tickets[t]
        /\ audit'[txn[r].ticket] = Append(audit[txn[r].ticket], Logged[txn[r].op])
        /\ \A t \in TicketIds : t # txn[r].ticket => audit'[t] = audit[t]
    BY <1>3, CommitRows
  <2>2. tickets'[txn[r].ticket].status = Target[txn[r].op]
    BY <2>1 DEF Updated, Base, TypeInv, TypeOK, Rows
  <2>3. Told(audit'[txn[r].ticket]) = Target[txn[r].op]
    BY <2>1, ToldByLine DEF Base, TypeInv, TypeOK
  <2>4. \A t \in Issued' : tickets'[t].status = Told(audit'[t])
    BY <2>1, <2>2, <2>3 DEF AuditInv, Issued
  <2>5. \A t \in TicketIds \ Issued' : audit'[t] = <<>>
    BY <2>1 DEF AuditInv
  <2>6. QED
    BY <2>4, <2>5 DEF AuditInv
<1>4. QED
  BY <1>1, <1>2, <1>3, StepRows

(* The last line of the log of a ticket tells its status, whatever         *)
(* requests overlap and whichever are rolled back, in any number.          *)
THEOREM QueueAuditTellsStatus == Spec => []AuditTellsStatus
<1>1. Init => AuditInv
  BY InitAudit
<1>2. Base /\ AuditInv /\ [Next]_vars => AuditInv'
  BY StepAudit
<1>3. AuditInv => AuditTellsStatus
  BY DEF AuditInv, AuditTellsStatus, Told
<1>4. Spec => []Base
  BY NumbersAlways DEF Base
<1>5. QED
  BY <1>1, <1>2, <1>3, <1>4, PTL DEF Spec

-----------------------------------------------------------------------------
(* Served means started.                                                   *)

Handled(row, lines) == /\ row.hairdresser # None
                       /\ \E j \in DOMAIN lines : lines[j] = "STARTED"

(* A request that completes a ticket found it in progress once, and what   *)
(* was done to the ticket then is not undone, whatever its status is now.  *)
ServedInv ==
  /\ \A t \in Issued : tickets[t].status \in {"in_progress", "done"} => Handled(tickets[t], audit[t])
  /\ \A r \in Requests : txn[r].op = "complete" => Handled(tickets[txn[r].ticket], audit[txn[r].ticket])
  /\ \A t \in Issued : \A i \in DOMAIN audit[t] :
       audit[t][i] = "COMPLETED" => \E j \in 1 .. i - 1 : audit[t][j] = "STARTED"

LEMMA InitServed == Init => ServedInv
  BY DEF Init, ServedInv, Issued, NoRow, Idle

(* Where the ticket of a completion comes from.                            *)
LEMMA CompletesWhat ==
  ASSUME Base, [Next]_vars, NEW q \in Requests, txn'[q].op = "complete"
  PROVE  \/ txn[q].op = "complete" /\ txn'[q].ticket = txn[q].ticket
         \/ \E t \in TicketIds : Accepts("complete", t) /\ txn'[q].ticket = t
<1> USE DEF Base, TypeInv, TypeOK
<1>1. ASSUME NEW r \in Requests, NEW x \in Txns, txn' = [txn EXCEPT ![r] = x],
             x.op = "complete" => txn[r].op = "complete" /\ x.ticket = txn[r].ticket
      PROVE  txn[q].op = "complete" /\ txn'[q].ticket = txn[q].ticket
  BY <1>1
<1>2. ASSUME NEW r \in Requests, Rollback(r)
      PROVE  txn[q].op = "complete" /\ txn'[q].ticket = txn[q].ticket
  BY <1>2 DEF Rollback, Idle
<1>3. ASSUME NEW r \in Requests, NEW pc, Goto(r, pc)
      PROVE  txn[q].op = "complete" /\ txn'[q].ticket = txn[q].ticket
  BY <1>3 DEF Goto, Txns
<1>4. ASSUME NEW r \in Requests, \E s \in Salons : JoinBegin(r, s)
      PROVE  txn[q].op = "complete" /\ txn'[q].ticket = txn[q].ticket
  BY <1>4 DEF JoinBegin, Idle
<1>5. ASSUME NEW r \in Requests, JoinInsert(r)
      PROVE  txn[q].op = "complete" /\ txn'[q].ticket = txn[q].ticket
  <2>1. txn[r].op = "join"
    BY <1>5 DEF JoinInsert, TxnShape, Shape
  <2>2. QED
    BY <1>5, <2>1 DEF JoinInsert, Txns
<1>6. ASSUME NEW r \in Requests, JoinCommit(r) \/ Commit(r)
      PROVE  txn[q].op = "complete" /\ txn'[q].ticket = txn[q].ticket
  BY SMTT(30), <1>6 DEF JoinCommit, Commit, Idle
<1>7. ASSUME NEW r \in Requests, NEW t \in TicketIds,
             (\E h \in Hairdressers : StartCheck(r, t, h)) \/ CancelCheck(r, t)
      PROVE  txn[q].op = "complete" /\ txn'[q].ticket = txn[q].ticket
  BY <1>7 DEF StartCheck, CancelCheck, Idle
<1>8. ASSUME NEW r \in Requests, NEW t \in TicketIds, CompleteCheck(r, t)
      PROVE  \/ txn[q].op = "complete" /\ txn'[q].ticket = txn[q].ticket
             \/ Accepts("complete", t) /\ txn'[q].ticket = t
  BY <1>8 DEF CompleteCheck, Idle
<1>9. CASE UNCHANGED txn
  BY <1>9
<1>10. QED
  BY <1>2, <1>3, <1>4, <1>5, <1>6, <1>7, <1>8, <1>9
     DEF Next, Receive, Serve, Join, Start, Complete, Cancel, vars, JoinLock,
         StartLoad, StartUpdate, StartIndex, CompleteLoad, CompleteUpdate,
         CancelLoad, CancelUpdate, Abort, BreakDeadlock, SetAvailability

(* A line written at the end leaves the earlier ones where they were.      *)
LEMMA AppendKeeps ==
  ASSUME NEW S, NEW lines \in Seq(S), NEW line \in S
  PROVE  /\ Append(lines, line) \in Seq(S)
         /\ \A j \in DOMAIN lines : /\ j \in DOMAIN Append(lines, line)
                                   /\ Append(lines, line)[j] = lines[j]
  OBVIOUS

(* Lines are only added, and the hairdresser of a ticket is only replaced. *)
LEMMA HandledStays ==
  ASSUME Base, [Next]_vars, NEW t \in Issued, Handled(tickets[t], audit[t])
  PROVE  t \in Issued' /\ Handled(tickets'[t], audit'[t])
<1>1. CASE UNCHANGED <<tickets, audit>>
  BY <1>1 DEF Handled, Issued
<1>2. ASSUME NEW r \in Requests, JoinCommit(r) PROVE t \in Issued' /\ Handled(tickets'[t], audit'[t])
  <2>1. /\ txn[r].ticket \notin Issued /\ Issued' = Issued \cup {txn[r].ticket}
        /\ tickets' = [tickets EXCEPT ![txn[r].ticket] = NewRow(r)] /\ audit' = audit
    BY <1>2, JoinCommitRows
  <2>2. tickets'[t] = tickets[t]
    BY <2>1 DEF Issued, Base, TypeInv, TypeOK
  <2>3. QED
    BY <2>1, <2>2 DEF Handled
<1>3. ASSUME NEW r \in Requests, Commit(r) PROVE t \in Issued' /\ Handled(tickets'[t], audit'[t])
  <2>1. /\ txn[r].op \in {"start", "complete", "cancel"}
        /\ txn[r].ticket \in Issued /\ txn[r].ticket \in TicketIds /\ Issued' = Issued
        /\ tickets'[txn[r].ticket] = Updated(txn[r], tickets[txn[r].ticket])
        /\ \A u \in TicketIds : u # txn[r].ticket => tickets'[u] = tickets[u]
        /\ audit'[txn[r].ticket] = Append(audit[txn[r].ticket], Logged[txn[r].op])
        /\ \A u \in TicketIds : u # txn[r].ticket => audit'[u] = audit[u]
    BY <1>3, CommitRows
  <2>2. t \in TicketIds
    BY DEF Issued
  <2>3. CASE t # txn[r].ticket
    BY <2>1, <2>2, <2>3 DEF Handled
  <2>4. CASE t = txn[r].ticket
    <3>1. txn[r].op = "start" => txn[r].hairdresser \in Hairdressers
      BY DEF Base, TypeInv, TxnShape, Shape
    <3>2. tickets[t] \in Rows /\ audit[t] \in Seq(Actions) /\ Logged[txn[r].op] \in Actions
      BY <2>1, <2>2 DEF Base, TypeInv, TypeOK, Logged, Actions
    <3>3. tickets'[t].hairdresser # None
      <4>1. tickets[t].hairdresser # None
        BY DEF Handled
      <4>2. tickets'[t].hairdresser = IF txn[r].op = "start" THEN txn[r].hairdresser
                                      ELSE tickets[t].hairdresser
        BY <2>1, <2>4, <3>2 DEF Updated, Rows
      <4>3. QED
        BY <3>1, <4>1, <4>2, NoneAssumption
    <3>4. \A j \in DOMAIN audit[t] : j \in DOMAIN audit'[t] /\ audit'[t][j] = audit[t][j]
      <4>1. audit'[t] = Append(audit[t], Logged[txn[r].op])
        BY <2>1, <2>4
      <4>2. QED
        BY <3>2, <4>1, AppendKeeps
    <3>5. QED
      BY <2>1, <2>4, <3>3, <3>4 DEF Handled
  <2>5. QED
    BY <2>3, <2>4
<1>4. QED
  BY <1>1, <1>2, <1>3, StepRows

LEMMA StepServed ==
  ASSUME Base, AuditInv, ServedInv, [Next]_vars
  PROVE  ServedInv'
<1> DEFINE InOrder(lines) == \A i \in DOMAIN lines :
                               lines[i] = "COMPLETED" => \E j \in 1 .. i - 1 : lines[j] = "STARTED"
<1>1. ASSUME NEW q \in Requests, txn'[q].op = "complete"
      PROVE  Handled(tickets'[txn'[q].ticket], audit'[txn'[q].ticket])
  <2>1. PICK t : t = txn'[q].ticket /\ t \in Issued /\ Handled(tickets[t], audit[t])
    <3>1. CASE txn[q].op = "complete" /\ txn'[q].ticket = txn[q].ticket
      BY <3>1 DEF ServedInv, Base, NumbersInv, ActsOnIssued, Ops
    <3>2. CASE \E u \in TicketIds : Accepts("complete", u) /\ txn'[q].ticket = u
      BY <3>2 DEF ServedInv, Accepts, Source, Issued
    <3>3. QED
      BY <1>1, <3>1, <3>2, CompletesWhat
  <2>2. QED
    BY <2>1, HandledStays
<1>2. CASE UNCHANGED <<tickets, audit>>
  BY <1>1, <1>2 DEF ServedInv, Issued, Handled
<1>3. ASSUME NEW r \in Requests, JoinCommit(r) PROVE ServedInv'
  <2>1. /\ txn[r].ticket \in TicketIds \ Issued /\ Issued' = Issued \cup {txn[r].ticket}
        /\ tickets' = [tickets EXCEPT ![txn[r].ticket] = NewRow(r)] /\ audit' = audit
    BY <1>3, JoinCommitRows
  <2>2. /\ tickets'[txn[r].ticket].status = "waiting"
        /\ \A t \in Issued : tickets'[t] = tickets[t]
    BY <2>1 DEF NewRow, Issued, Base, TypeInv, TypeOK
  <2>3. audit[txn[r].ticket] = <<>>
    BY <2>1 DEF AuditInv
  <2>4. \A t \in Issued' : tickets'[t].status \in {"in_progress", "done"} => Handled(tickets'[t], audit'[t])
    BY <2>1, <2>2 DEF ServedInv, Handled
  <2>5. \A t \in Issued' : InOrder(audit'[t])
    BY <2>1, <2>3 DEF ServedInv
  <2>6. QED
    BY <1>1, <2>4, <2>5 DEF ServedInv
<1>4. ASSUME NEW r \in Requests, Commit(r) PROVE ServedInv'
  <2> DEFINE line == Logged[txn[r].op]
  <2>0. PICK t \in TicketIds : t = txn[r].ticket
    BY <1>4, CommitRows
  <2>1. /\ txn[r].op \in {"start", "complete", "cancel"}
        /\ t \in Issued /\ t \in TicketIds /\ Issued' = Issued
        /\ tickets'[t] = Updated(txn[r], tickets[t])
        /\ \A u \in TicketIds : u # t => tickets'[u] = tickets[u]
        /\ audit'[t] = Append(audit[t], line)
        /\ \A u \in TicketIds : u # t => audit'[u] = audit[u]
    BY <1>4, <2>0, CommitRows
  <2>2. tickets[t] \in Rows /\ audit[t] \in Seq(Actions) /\ line \in Actions
    BY <2>1 DEF Base, TypeInv, TypeOK, Logged, Actions
  <2>3. ASSUME tickets'[t].status \in {"in_progress", "done"} PROVE Handled(tickets'[t], audit'[t])
    <3>1. CASE txn[r].op = "start"
      <4>1. txn[r].hairdresser \in Hairdressers
        BY <3>1 DEF Base, TypeInv, TxnShape, Shape
      <4>2. tickets'[t].hairdresser # None
        BY <2>1, <2>2, <3>1, <4>1, NoneAssumption DEF Updated, Rows
      <4>3. Len(audit'[t]) \in DOMAIN audit'[t] /\ audit'[t][Len(audit'[t])] = "STARTED"
        BY <2>1, <2>2, <3>1 DEF Logged
      <4>4. QED
        BY <4>2, <4>3 DEF Handled
    <3>2. CASE txn[r].op = "complete"
      BY <2>0, <2>1, <3>2, HandledStays DEF ServedInv
    <3>3. CASE txn[r].op = "cancel"
      BY <2>1, <2>2, <2>3, <3>3 DEF Updated, Target, Rows
    <3>4. QED
      BY <2>1, <3>1, <3>2, <3>3
  <2>4. ASSUME NEW u \in Issued', tickets'[u].status \in {"in_progress", "done"}
        PROVE  Handled(tickets'[u], audit'[u])
    <3>1. CASE u = t
      BY <2>3, <2>4, <3>1
    <3>2. CASE u # t
      BY <2>1, <2>4, <3>2, HandledStays DEF ServedInv, Issued
    <3>3. QED
      BY <3>1, <3>2
  <2>5. InOrder(audit'[t])
    <3>1. ASSUME NEW i \in DOMAIN audit'[t], audit'[t][i] = "COMPLETED"
          PROVE  \E j \in 1 .. i - 1 : audit'[t][j] = "STARTED"
      <4>1. CASE i \in DOMAIN audit[t]
        <5>1. PICK j \in 1 .. i - 1 : audit[t][j] = "STARTED"
          BY <2>1, <2>2, <3>1, <4>1 DEF ServedInv
        <5>2. QED
          BY <2>1, <2>2, <4>1, <5>1
      <4>2. CASE i \notin DOMAIN audit[t]
        <5>1. i = Len(audit[t]) + 1 /\ line = "COMPLETED"
          BY <2>1, <2>2, <3>1, <4>2
        <5>2. txn[r].op = "complete"
          BY <2>1, <5>1 DEF Logged
        <5>3. PICK j \in DOMAIN audit[t] : audit[t][j] = "STARTED"
          BY <2>0, <5>2 DEF ServedInv, Handled
        <5>4. j \in 1 .. i - 1 /\ audit'[t][j] = "STARTED"
          BY <2>1, <2>2, <5>1, <5>3
        <5>5. QED
          BY <5>4
      <4>3. QED
        BY <4>1, <4>2
    <3>2. QED
      BY <3>1
  <2>6. ASSUME NEW u \in Issued' PROVE InOrder(audit'[u])
    <3>1. CASE u = t
      BY <2>5, <3>1
    <3>2. CASE u # t
      <4>1. u \in Issued /\ audit'[u] = audit[u]
        BY <2>1, <2>6, <3>2 DEF Issued
      <4>2. QED
        BY <4>1 DEF ServedInv
    <3>3. QED
      BY <3>1, <3>2
  <2>7. QED
    BY <1>1, <2>4, <2>6 DEF ServedInv
<1>5. QED
  BY <1>2, <1>3, <1>4, StepRows

LEMMA ServedAlways == Spec => []ServedInv
<1>1. Init => AuditInv /\ ServedInv
  BY InitAudit, InitServed
<1>2. Base /\ AuditInv /\ ServedInv /\ [Next]_vars => AuditInv' /\ ServedInv'
  BY StepAudit, StepServed
<1>3. Spec => []Base
  BY NumbersAlways DEF Base
<1>4. QED
  BY <1>1, <1>2, <1>3, PTL DEF Spec

(* Nothing is recorded as served that nobody took in charge, for any       *)
(* number of requests: although a completion may overwrite whatever        *)
(* committed since it was checked, its ticket was started before.          *)
THEOREM QueueServedWasStarted == Spec => []ServedWasStarted
<1>1. ServedInv => ServedWasStarted
  BY DEF ServedInv, ServedWasStarted, Handled
<1>2. QED
  BY <1>1, ServedAlways, PTL

-----------------------------------------------------------------------------
(* The number of people ahead.                                             *)

Earlier(rows, s, n) ==
  {u \in TicketIds : rows[u].status = "waiting" /\ rows[u].salon = s /\ rows[u].number < n}

(* What the kiosk announces holds from the count on, before the ticket is  *)
(* visible: the advisory lock lets no other ticket of the salon in.        *)
AheadInv ==
  /\ \A t \in Issued :
       tickets[t].status = "waiting" =>
         Cardinality(Earlier(tickets, tickets[t].salon, tickets[t].number)) <= tickets[t].ahead
  /\ \A r \in Requests :
       txn[r].op = "join" /\ txn[r].pc = "flushed" =>
         Cardinality(Earlier(tickets, txn[r].salon, txn[r].number)) <= txn[r].ahead

LEMMA InitAhead == Init => AheadInv
  BY DEF Init, AheadInv, Issued, NoRow, Idle

LEMMA EarlierFinite ==
  ASSUME NEW rows, NEW s, NEW n
  PROVE  IsFiniteSet(Earlier(rows, s, n)) /\ Cardinality(Earlier(rows, s, n)) \in Nat
<1>1. Earlier(rows, s, n) \subseteq TicketIds
  BY DEF Earlier
<1>2. QED
  BY <1>1, FiniteAssumption, FS_Subset, FS_CardinalityType

(* It is what the kiosk counts.                                            *)
LEMMA EarlierCounted ==
  ASSUME NEW s, NEW n
  PROVE  {u \in IssuedBy(s) : tickets[u].status = "waiting" /\ tickets[u].number < n}
         = Earlier(tickets, s, n)
  BY DEF Earlier, IssuedBy, Issued

(* Nobody enters the part of a queue before a number that is given or in   *)
(* hand.                                                                   *)
LEMMA EarlierShrinks ==
  ASSUME Base, [Next]_vars, NEW s, NEW n \in Nat, n <= Cardinality(IssuedBy(s)) + 1
  PROVE  Earlier(tickets', s, n) \subseteq Earlier(tickets, s, n)
<1>1. CASE UNCHANGED <<tickets, audit>>
  BY <1>1 DEF Earlier
<1>2. ASSUME NEW r \in Requests, JoinCommit(r), NEW u \in Earlier(tickets', s, n)
      PROVE  u \in Earlier(tickets, s, n)
  <2>1. /\ txn[r].ticket \in TicketIds \ Issued /\ Issued' = Issued \cup {txn[r].ticket}
        /\ tickets' = [tickets EXCEPT ![txn[r].ticket] = NewRow(r)]
    BY <1>2, JoinCommitRows
  <2>2. u \in TicketIds /\ tickets'[u].salon = s /\ tickets'[u].status = "waiting" /\ tickets'[u].number < n
    BY DEF Earlier
  <2>3. CASE u = txn[r].ticket
    <3>1. tickets'[u].salon = txn[r].salon /\ tickets'[u].number = Cardinality(IssuedBy(txn[r].salon)) + 1
      BY <2>1, <2>3 DEF NewRow, Base, TypeInv, TypeOK
    <3>2. Cardinality(IssuedBy(s)) \in Nat
      BY IssuedFinite
    <3>3. QED
      BY <2>2, <3>1, <3>2
  <2>4. CASE u # txn[r].ticket
    <3>1. tickets'[u] = tickets[u]
      BY <2>1, <2>2, <2>4 DEF Base, TypeInv, TypeOK
    <3>2. QED
      BY <2>2, <3>1 DEF Earlier
  <2>5. QED
    BY <2>3, <2>4
<1>3. ASSUME NEW r \in Requests, Commit(r), NEW u \in Earlier(tickets', s, n)
      PROVE  u \in Earlier(tickets, s, n)
  <2>1. /\ txn[r].op \in {"start", "complete", "cancel"} /\ txn[r].ticket \in TicketIds
        /\ Issued' = Issued /\ tickets'[txn[r].ticket] = Updated(txn[r], tickets[txn[r].ticket])
        /\ \A t \in TicketIds : t # txn[r].ticket => tickets'[t] = tickets[t]
    BY <1>3, CommitRows
  <2>2. tickets'[txn[r].ticket].status # "waiting"
    BY <2>1 DEF Updated, Target, Base, TypeInv, TypeOK, Rows
  <2>3. u \in TicketIds /\ tickets'[u].salon = s /\ tickets'[u].status = "waiting" /\ tickets'[u].number < n
    BY DEF Earlier
  <2>4. tickets'[u] = tickets[u]
    BY <2>1, <2>2, <2>3
  <2>5. QED
    BY <2>3, <2>4 DEF Earlier
<1>4. QED
  BY <1>1, <1>2, <1>3, StepRows

LEMMA EarlierCount ==
  ASSUME Base, [Next]_vars, NEW s, NEW n \in Nat, n <= Cardinality(IssuedBy(s)) + 1,
         NEW k \in Nat, Cardinality(Earlier(tickets, s, n)) <= k
  PROVE  Cardinality(Earlier(tickets', s, n)) <= k
<1>1. Cardinality(Earlier(tickets', s, n)) <= Cardinality(Earlier(tickets, s, n)) /\ IsFiniteSet(Earlier(tickets', s, n))
  BY EarlierShrinks, EarlierFinite, FS_Subset
<1>2. Cardinality(Earlier(tickets', s, n)) \in Nat /\ Cardinality(Earlier(tickets, s, n)) \in Nat
  BY <1>1, EarlierFinite, FS_CardinalityType
<1>3. QED
  BY <1>1, <1>2

(* A number in hand was in hand, or is counted by this step.               *)
LEMMA CountsWhat ==
  ASSUME Base, [Next]_vars, NEW q \in Requests, txn'[q].op = "join", txn'[q].pc = "flushed"
  PROVE  txn'[q] = txn[q] \/ JoinInsert(q)
<1> USE DEF Base, TypeInv, TypeOK
<1>1. ASSUME NEW r \in Requests, Rollback(r) PROVE txn'[q] = txn[q]
  BY <1>1 DEF Rollback, Idle
<1>2. ASSUME NEW r \in Requests, NEW pc, Goto(r, pc), pc = "flushed" => txn[r].op # "join"
      PROVE  txn'[q] = txn[q]
  BY <1>2 DEF Goto, Txns
<1>3. ASSUME NEW r \in Requests, (\E s \in Salons : JoinBegin(r, s)) \/ JoinCommit(r) \/ Commit(r)
      PROVE  txn'[q] = txn[q]
  <2>1. ASSUME NEW s \in Salons, JoinBegin(r, s) PROVE txn'[q] = txn[q]
    BY <2>1 DEF JoinBegin, Idle
  <2>2. ASSUME JoinCommit(r) \/ Commit(r) PROVE txn'[q] = txn[q]
    BY <2>2 DEF JoinCommit, Commit, Idle
  <2>3. QED
    BY <1>3, <2>1, <2>2
<1>4. ASSUME NEW r \in Requests, NEW t \in TicketIds,
             (\E h \in Hairdressers : StartCheck(r, t, h)) \/ CompleteCheck(r, t) \/ CancelCheck(r, t)
      PROVE  txn'[q] = txn[q]
  BY <1>4 DEF StartCheck, CompleteCheck, CancelCheck, Idle
<1>5. ASSUME NEW r \in Requests, JoinInsert(r) PROVE txn'[q] = txn[q] \/ JoinInsert(q)
  BY <1>5 DEF JoinInsert
<1>6. ASSUME NEW r \in Requests, StartIndex(r) PROVE txn'[q] = txn[q]
  <2>1. txn[r].op = "start"
    BY <1>6 DEF StartIndex, TxnShape, Shape
  <2>2. QED
    BY <1>1, <1>2, <1>6, <2>1 DEF StartIndex
<1>7. CASE UNCHANGED txn
  BY <1>7
<1>8. QED
  BY <1>1, <1>2, <1>3, <1>4, <1>5, <1>6, <1>7
     DEF Next, Receive, Serve, Join, Start, Complete, Cancel, vars, JoinLock,
         StartLoad, StartUpdate, CompleteLoad, CompleteUpdate, CancelLoad, CancelUpdate,
         Abort, BreakDeadlock, SetAvailability

LEMMA StepAhead ==
  ASSUME Base, Base', AheadInv, [Next]_vars
  PROVE  AheadInv'
<1>1. ASSUME NEW t \in Issued', tickets'[t].status = "waiting"
      PROVE  Cardinality(Earlier(tickets', tickets'[t].salon, tickets'[t].number)) <= tickets'[t].ahead
  <2>1. ASSUME t \in Issued, tickets'[t] = tickets[t]
        PROVE  Cardinality(Earlier(tickets', tickets'[t].salon, tickets'[t].number)) <= tickets'[t].ahead
    <3>1. PICK s, n, k : s = tickets[t].salon /\ n = tickets[t].number /\ k = tickets[t].ahead
      OBVIOUS
    <3>2. n \in Nat /\ k \in Nat /\ Cardinality(IssuedBy(s)) \in Nat
      BY <2>1, <3>1, IssuedFinite DEF Base, TypeInv, TypeOK, Rows, Issued
    <3>3. n <= Cardinality(IssuedBy(s)) + 1
      BY <2>1, <3>1, <3>2, NumberInRange
    <3>4. Cardinality(Earlier(tickets, s, n)) <= k
      BY <1>1, <2>1, <3>1 DEF AheadInv
    <3>5. QED
      BY <2>1, <3>1, <3>2, <3>3, <3>4, EarlierCount
  <2>2. CASE UNCHANGED <<tickets, audit>>
    BY <2>1, <2>2 DEF Issued
  <2>3. ASSUME NEW r \in Requests, Commit(r)
        PROVE  t \in Issued /\ tickets'[t] = tickets[t]
    <3>1. /\ txn[r].op \in {"start", "complete", "cancel"} /\ txn[r].ticket \in TicketIds
          /\ Issued' = Issued /\ tickets'[txn[r].ticket] = Updated(txn[r], tickets[txn[r].ticket])
          /\ \A u \in TicketIds : u # txn[r].ticket => tickets'[u] = tickets[u]
      BY <2>3, CommitRows
    <3>2. tickets'[txn[r].ticket].status # "waiting"
      BY <3>1 DEF Updated, Target, Base, TypeInv, TypeOK, Rows
    <3>3. QED
      BY <1>1, <3>1, <3>2 DEF Issued
  <2>4. ASSUME NEW r \in Requests, JoinCommit(r)
        PROVE  Cardinality(Earlier(tickets', tickets'[t].salon, tickets'[t].number)) <= tickets'[t].ahead
    <3>1. /\ txn[r].ticket \in TicketIds \ Issued /\ txn[r].salon \in Salons /\ txn[r].ahead \in Nat
          /\ txn[r].number = Cardinality(IssuedBy(txn[r].salon)) + 1
          /\ tickets' = [tickets EXCEPT ![txn[r].ticket] = NewRow(r)]
          /\ Issued' = Issued \cup {txn[r].ticket}
      BY <2>4, JoinCommitRows
    <3>2. CASE t # txn[r].ticket
      <4>1. t \in Issued /\ tickets'[t] = tickets[t]
        BY <3>1, <3>2 DEF Issued, Base, TypeInv, TypeOK
      <4>2. QED
        BY <2>1, <4>1
    <3>3. CASE t = txn[r].ticket
      <4>1. PICK s, n, k : s = txn[r].salon /\ n = txn[r].number /\ k = txn[r].ahead
        OBVIOUS
      <4>2. tickets'[t].salon = s /\ tickets'[t].number = n /\ tickets'[t].ahead = k
        BY <3>1, <3>3, <4>1 DEF NewRow, Base, TypeInv, TypeOK
      <4>3. n \in Nat /\ k \in Nat /\ n <= Cardinality(IssuedBy(s)) + 1
        BY <3>1, <4>1, IssuedFinite
      <4>4. Cardinality(Earlier(tickets, s, n)) <= k
        BY <2>4, <4>1 DEF JoinCommit, AheadInv
      <4>5. QED
        BY <4>2, <4>3, <4>4, EarlierCount
    <3>4. QED
      BY <3>2, <3>3
  <2>5. QED
    BY <2>1, <2>2, <2>3, <2>4, StepRows
<1>2. ASSUME NEW q \in Requests, txn'[q].op = "join", txn'[q].pc = "flushed"
      PROVE  Cardinality(Earlier(tickets', txn'[q].salon, txn'[q].number)) <= txn'[q].ahead
  <2>1. CASE txn'[q] = txn[q]
    <3>1. PICK s, n, k : s = txn[q].salon /\ n = txn[q].number /\ k = txn[q].ahead
      OBVIOUS
    <3>2. s \in Salons /\ k \in Nat /\ n = Cardinality(IssuedBy(s)) + 1
      BY <1>2, <2>1, <3>1 DEF Base, TypeInv, TypeOK, TxnShape, Shape, Txns, NumbersInv, NumberInHand, InHand
    <3>3. n \in Nat /\ n <= Cardinality(IssuedBy(s)) + 1
      BY <3>2, IssuedFinite
    <3>4. Cardinality(Earlier(tickets, s, n)) <= k
      BY <1>2, <2>1, <3>1 DEF AheadInv
    <3>5. QED
      BY <2>1, <3>1, <3>2, <3>3, <3>4, EarlierCount
  <2>2. CASE JoinInsert(q)
    <3>1. PICK s, n : s = txn[q].salon /\ n = NextNumber(s)
      OBVIOUS
    <3>2. txn'[q].salon = s /\ txn'[q].number = n /\ txn'[q].ahead = CountAhead(s, n)
      BY <2>2, <3>1 DEF JoinInsert, Base, TypeInv, TypeOK, Txns
    <3>3. CountAhead(s, n) = Cardinality(Earlier(tickets, s, n)) /\ Cardinality(Earlier(tickets, s, n)) \in Nat
      BY EarlierFinite, EarlierCounted DEF CountAhead
    <3>4. Earlier(tickets', s, n) = Earlier(tickets, s, n)
      BY <2>2 DEF JoinInsert
    <3>5. QED
      BY <3>2, <3>3, <3>4
  <2>3. QED
    BY <1>2, <2>1, <2>2, CountsWhat
<1>3. QED
  BY <1>1, <1>2 DEF AheadInv

(* The number of people ahead that is announced is never exceeded while    *)
(* the ticket waits, for any number of kiosks and hairdressers.            *)
THEOREM QueueAheadIsUpperBound == Spec => []AheadIsUpperBound
<1>1. Init => AheadInv
  BY InitAhead
<1>2. Base /\ Base' /\ AheadInv /\ [Next]_vars => AheadInv'
  BY StepAhead
<1>3. AheadInv => AheadIsUpperBound
  BY EarlierCounted DEF AheadInv, AheadIsUpperBound
<1>4. Spec => []Base
  BY NumbersAlways DEF Base
<1>5. QED
  BY <1>1, <1>2, <1>3, <1>4, PTL DEF Spec

-----------------------------------------------------------------------------
(* The board.                                                              *)

Says(row) == [salon |-> row.salon, number |-> row.number, status |-> row.status,
              hairdresser |-> row.hairdresser]
Shown == [t \in TicketIds |-> [salon |-> tickets[t].salon, number |-> tickets[t].number,
                               status |-> tickets[t].status,
                               hairdresser |-> tickets[t].hairdresser]]

LEMMA SameIssued == Board!Issued = Issued /\ \A s : Board!IssuedBy(s) = IssuedBy(s)
<1>1. Board!Issued = Issued
  BY DEF Board!Issued, Issued
<1>2. QED
  BY <1>1 DEF Board!IssuedBy, IssuedBy, Issued

LEMMA SameBoardCardinality == \A S : Board!Cardinality(S) = Cardinality(S)
  BY DEF Board!Cardinality, Cardinality

LEMMA InitBoard == Init => Board!Init
  BY DEF Init, NoRow, Board!Init, Board!NotIssued

LEMMA ShownAfter ==
  ASSUME Base, NEW t \in TicketIds, NEW row, tickets' = [tickets EXCEPT ![t] = row]
  PROVE  Shown' = [Shown EXCEPT ![t] = Says(row)]
<1>1. \A u \in TicketIds : tickets'[u] = IF u = t THEN row ELSE tickets[u]
  BY DEF Base, TypeInv, TypeOK
<1>2. QED
  BY <1>1 DEF Shown, Says

(* A join that commits puts the next ticket on the board; a start that     *)
(* commits takes a ticket in charge, because nobody else's is in those     *)
(* hands (EntryFree); a completion serves a ticket that had a hairdresser  *)
(* (ServedInv); a cancellation gives up.                                   *)
LEMMA StepBoard ==
  Base /\ ExclusiveInv /\ ServedInv /\ [Next]_vars => [Board!Next]_Shown
<1> SUFFICES ASSUME Base, ExclusiveInv, ServedInv, [Next]_vars
             PROVE  Board!Next \/ UNCHANGED Shown
  OBVIOUS
<1>1. CASE UNCHANGED <<tickets, audit>>
  BY <1>1 DEF Shown
<1>2. ASSUME NEW r \in Requests, JoinCommit(r) PROVE Board!Next
  <2>1. PICK t \in TicketIds, s \in Salons :
          /\ t = txn[r].ticket /\ s = txn[r].salon /\ t \notin Issued
          /\ tickets' = [tickets EXCEPT ![t] = NewRow(r)]
    BY <1>2, JoinCommitRows
  <2>2. Says(NewRow(r)) = [salon |-> s, number |-> Board!Cardinality(Board!IssuedBy(s)) + 1,
                           status |-> "waiting", hairdresser |-> None]
    BY <2>1, SameIssued, SameBoardCardinality DEF NewRow, Says
  <2>3. Shown' = [Shown EXCEPT ![t] = Says(NewRow(r))]
    BY <2>1, ShownAfter
  <2>4. t \notin Board!Issued
    BY <2>1, SameIssued
  <2>5. Board!Issue(t, s)
    BY <2>2, <2>3, <2>4 DEF Board!Issue, Shown
  <2>6. QED
    BY <2>5 DEF Board!Next
<1>3. ASSUME NEW r \in Requests, Commit(r) PROVE Board!Next
  <2>0. PICK t \in TicketIds : t = txn[r].ticket
    BY <1>3, CommitRows
  <2>1. PICK row :
          /\ t = txn[r].ticket /\ row = Updated(txn[r], tickets[t]) /\ t \in Issued
          /\ txn[r].op \in {"start", "complete", "cancel"} /\ txn[r].pc = "flushed"
          /\ tickets' = [tickets EXCEPT ![t] = row]
    BY <1>3, <2>0, CommitRows
  <2>2. tickets[t] \in Rows
    BY DEF Base, TypeInv, TypeOK
  <2>3. /\ row.salon = tickets[t].salon /\ row.number = tickets[t].number
        /\ row.status = Target[txn[r].op]
        /\ row.hairdresser = IF txn[r].op = "start" THEN txn[r].hairdresser
                             ELSE tickets[t].hairdresser
    BY <2>1, <2>2 DEF Updated, Rows
  <2>4. Shown' = [Shown EXCEPT ![t] = Says(row)]
    BY <2>1, ShownAfter
  <2>5. t \in Board!Issued
    BY <2>1, SameIssued
  <2>6. Shown[t] = Says(tickets[t])
    BY DEF Shown, Says
  <2>7. \A is : [Shown[t] EXCEPT !.status = is]
                 = [salon |-> tickets[t].salon, number |-> tickets[t].number,
                    status |-> is, hairdresser |-> tickets[t].hairdresser]
    BY <2>6 DEF Says
  <2>8. CASE txn[r].op = "start"
    <3>1. PICK h \in Hairdressers : h = txn[r].hairdresser
      BY <2>8 DEF Base, TypeInv, TxnShape, Shape
    <3>2. InProgressOf(h, t) = {}
      BY <2>1, <2>8, <3>1 DEF ExclusiveInv, EntryFree
    <3>3. Board!InHandsOf(h) \subseteq {t}
      BY <3>2, SameIssued DEF Board!InHandsOf, InProgressOf, Issued
    <3> DEFINE begun == [Shown EXCEPT ![t].status = "in_progress"]
    <3>4. begun[t] = [salon |-> tickets[t].salon, number |-> tickets[t].number,
                      status |-> "in_progress", hairdresser |-> tickets[t].hairdresser]
      BY <2>7 DEF Shown
    <3>5. [begun[t] EXCEPT !.hairdresser = h] = Says(row)
      BY <2>3, <2>8, <3>1, <3>4 DEF Says, Target
    <3>6. \A u \in TicketIds : u # t => begun[u] = Shown[u]
      BY DEF Shown
    <3>7. begun = [u \in TicketIds |-> begun[u]] /\ Shown = [u \in TicketIds |-> Shown[u]]
      BY DEF Shown
    <3>8. [begun EXCEPT ![t].hairdresser = h] = [Shown EXCEPT ![t] = Says(row)]
      <4> HIDE DEF begun
      <4>1. QED
        BY <3>5, <3>6, <3>7
    <3>9. Shown' = [Shown EXCEPT ![t].status = "in_progress", ![t].hairdresser = h]
      BY <2>4, <3>8
    <3>10. Board!TakeInCharge(t, h)
      BY <2>5, <3>3, <3>9 DEF Board!TakeInCharge, Shown
    <3>11. QED
      BY <3>10 DEF Board!Next
  <2>9. CASE txn[r].op = "complete"
    <3>1. tickets[t].hairdresser # None
      BY <2>1, <2>9 DEF ServedInv, Handled
    <3>2. Says(row) = [Shown[t] EXCEPT !.status = "done"]
      BY <2>3, <2>7, <2>9 DEF Says, Target
    <3>3. Shown' = [Shown EXCEPT ![t].status = "done"]
      BY <2>4, <3>2
    <3>4. Board!Serve(t)
      BY <2>5, <3>1, <3>3 DEF Board!Serve, Shown
    <3>5. QED
      BY <3>4 DEF Board!Next
  <2>10. CASE txn[r].op = "cancel"
    <3>1. Says(row) = [Shown[t] EXCEPT !.status = "expired"]
      BY <2>3, <2>7, <2>10 DEF Says, Target
    <3>2. Shown' = [Shown EXCEPT ![t].status = "expired"]
      BY <2>4, <3>1
    <3>3. Board!GiveUp(t)
      BY <2>5, <3>2 DEF Board!GiveUp, Shown
    <3>4. QED
      BY <3>3 DEF Board!Next
  <2>11. QED
    BY <2>1, <2>8, <2>9, <2>10
<1>4. QED
  BY <1>1, <1>2, <1>3, StepRows

LEMMA ExclusiveAlways == Spec => []ExclusiveInv
<1>1. Init => ExclusiveInv
  BY InitExclusive
<1>2. TypeInv /\ NumbersInv /\ ExclusiveInv /\ [Next]_vars => ExclusiveInv'
  BY StepExclusive
<1>3. QED
  BY <1>1, <1>2, NumbersAlways, PTL DEF Spec

(* The rows of queue_tickets implement the board of WalkInQueue for any    *)
(* number of requests, tickets, salons and hairdressers: what several      *)
(* statements and locks do looks like one step to whoever watches.         *)
THEOREM QueueImplementsBoard == Spec => ImplementsBoard
<1>1. Init => Board!Init
  BY InitBoard
<1>2. Base /\ ExclusiveInv /\ ServedInv /\ [Next]_vars
      => [Board!Next]_([t \in TicketIds |-> [salon |-> tickets[t].salon,
                                             number |-> tickets[t].number,
                                             status |-> tickets[t].status,
                                             hairdresser |-> tickets[t].hairdresser]])
  BY StepBoard DEF Shown
<1>3. Spec => []Base
  BY NumbersAlways DEF Base
<1>4. QED
  BY <1>1, <1>2, <1>3, ExclusiveAlways, ServedAlways, PTL DEF Spec, ImplementsBoard, Board!Spec

-----------------------------------------------------------------------------
(* The lifecycle of a ticket.  A request that has met nobody on its ticket *)
(* still finds it in a status its operation accepts, whichever statements  *)
(* lie between its check and its commit.                                   *)
Accepted(r) == Accepts(txn[r].op, txn[r].ticket)
AloneInv ==
  \A r \in Requests : alone[r] /\ txn[r].pc # "idle" =>
    /\ \A q \in Requests \ {r} : txn[q].pc # "idle" => txn[q].ticket # txn[r].ticket
    /\ txn[r].op \in Ops \ {"join"} => Accepted(r)

(* A request is accepted as it begins, and keeps what it works on.         *)
KeepsOn(r) == /\ txn[r].pc # "idle" /\ txn'[r].op = txn[r].op
              /\ txn'[r].ticket = txn[r].ticket

LEMMA GotoKeeps ==
  ASSUME TypeInv, NEW q \in Requests, txn[q].pc # "idle", NEW p, Goto(q, p) \/ Rollback(q),
         NEW r \in Requests, txn'[r].pc # "idle"
  PROVE  KeepsOn(r)
<1>1. CASE Goto(q, p)
  <2> DEFINE x == [txn[q] EXCEPT !.pc = p]
  <2>1. x.op = txn[q].op /\ x.ticket = txn[q].ticket
    BY DEF TypeInv, TypeOK, Txns
  <2>2. txn' = [txn EXCEPT ![q] = x]
    BY <1>1 DEF Goto
  <2> HIDE DEF x
  <2>3. QED
    BY <2>1, <2>2 DEF TypeInv, TypeOK, KeepsOn
<1>2. CASE Rollback(q)
  BY <1>2 DEF Rollback, Idle, TypeInv, TypeOK, KeepsOn
<1>3. QED
  BY <1>1, <1>2

LEMMA StepAccepts ==
  ASSUME TypeInv, [Next]_vars, NEW r \in Requests, txn'[r].pc # "idle", txn'[r].op # "join"
  PROVE  (tickets' = tickets /\ Accepts(txn'[r].op, txn'[r].ticket)) \/ KeepsOn(r)
<1> DEFINE Goal == (tickets' = tickets /\ Accepts(txn'[r].op, txn'[r].ticket)) \/ KeepsOn(r)
<1>1. CASE txn'[r] = txn[r]
  BY <1>1 DEF KeepsOn
<1>2. ASSUME NEW q \in Requests, NEW x, x.op = "join" \/ Accepts(x.op, x.ticket),
             txn' = [txn EXCEPT ![q] = x], tickets' = tickets
      PROVE  Goal
  BY <1>1, <1>2 DEF TypeInv, TypeOK
<1>3. ASSUME NEW q \in Requests, NEW s, JoinBegin(q, s) PROVE Goal
  <2> DEFINE x == [Idle EXCEPT !.pc = "checked", !.op = "join", !.salon = s]
  <2>1. x.op = "join" /\ txn' = [txn EXCEPT ![q] = x] /\ tickets' = tickets
    BY <1>3 DEF JoinBegin, Idle
  <2> HIDE DEF x
  <2>2. QED
    BY <1>2, <2>1
<1>4. ASSUME NEW q \in Requests, NEW t, NEW h, StartCheck(q, t, h) PROVE Goal
  <2> DEFINE x == [Idle EXCEPT !.pc = "checked", !.op = "start", !.ticket = t, !.hairdresser = h]
  <2>1. x.op = "start" /\ x.ticket = t
    BY DEF Idle
  <2>2. Accepts("start", t) /\ txn' = [txn EXCEPT ![q] = x] /\ tickets' = tickets
    BY <1>4 DEF StartCheck
  <2> HIDE DEF x
  <2>3. QED
    BY <1>2, <2>1, <2>2
<1>5. ASSUME NEW q \in Requests, NEW t, CompleteCheck(q, t) PROVE Goal
  <2> DEFINE x == [Idle EXCEPT !.pc = "checked", !.op = "complete", !.ticket = t]
  <2>1. x.op = "complete" /\ x.ticket = t
    BY DEF Idle
  <2>2. Accepts("complete", t) /\ txn' = [txn EXCEPT ![q] = x] /\ tickets' = tickets
    BY <1>5 DEF CompleteCheck
  <2> HIDE DEF x
  <2>3. QED
    BY <1>2, <2>1, <2>2
<1>6. ASSUME NEW q \in Requests, NEW t, CancelCheck(q, t) PROVE Goal
  <2> DEFINE x == [Idle EXCEPT !.pc = "checked", !.op = "cancel", !.ticket = t]
  <2>1. x.op = "cancel" /\ x.ticket = t
    BY DEF Idle
  <2>2. Accepts("cancel", t) /\ txn' = [txn EXCEPT ![q] = x] /\ tickets' = tickets
    BY <1>6 DEF CancelCheck
  <2> HIDE DEF x
  <2>3. QED
    BY <1>2, <2>1, <2>2
<1>7. ASSUME NEW q \in Requests, JoinInsert(q) PROVE Goal
  <2>1. PICK t, n, a : txn' = [txn EXCEPT ![q].pc = "flushed", ![q].ticket = t,
                                          ![q].number = n, ![q].ahead = a]
    BY <1>7 DEF JoinInsert
  <2> DEFINE x == [txn[q] EXCEPT !.pc = "flushed", !.ticket = t, !.number = n, !.ahead = a]
  <2>2. txn[q].op = "join" /\ txn[q] \in Txns
    BY <1>7 DEF JoinInsert, TypeInv, TypeOK, TxnShape, Shape
  <2>3. x.op = "join"
    BY <2>2 DEF Txns
  <2>4. txn' = [txn EXCEPT ![q] = x] /\ tickets' = tickets
    BY ZenonT(40), <1>7, <2>1 DEF JoinInsert
  <2> HIDE DEF x
  <2>5. QED
    BY <1>2, <2>3, <2>4
<1>8. ASSUME NEW q \in Requests, JoinLock(q) \/ JoinCommit(q) \/ Start(q) \/ Complete(q)
                                  \/ Cancel(q) \/ Commit(q) \/ Abort(q)
                                  \/ BreakDeadlock(q)
      PROVE  Goal
  <2>1. txn[q].pc # "idle" /\ \E p : Goto(q, p) \/ Rollback(q)
    BY <1>8 DEF JoinLock, JoinCommit, Start, StartLoad, StartUpdate, StartIndex,
       Complete, CompleteLoad, CompleteUpdate, Cancel, CancelLoad, CancelUpdate, Commit, Abort,
       BreakDeadlock, WaitsFor, Rollback
  <2>2. QED
    BY <2>1, GotoKeeps
<1>9. QED
  BY <1>1, <1>3, <1>4, <1>5, <1>6, <1>7, <1>8 DEF Next, Receive, Serve, Join, SetAvailability, vars

LEMMA StepAlone ==
  ASSUME Base, AloneInv, [MCNext]_mcvars
  PROVE  AloneInv'
<1>1. CASE UNCHANGED mcvars
  BY <1>1 DEF mcvars, vars, AloneInv, Accepted, Accepts
<1>2. CASE MCNext
  <2> SUFFICES ASSUME NEW r \in Requests, alone'[r], txn'[r].pc # "idle"
               PROVE  /\ \A q \in Requests \ {r} :
                           txn'[q].pc # "idle" => txn'[q].ticket # txn'[r].ticket
                      /\ txn'[r].op \in Ops \ {"join"} => Accepted(r)'
    BY DEF AloneInv
  <2>1. alone[r] /\ ~Meets(r) /\ [Next]_vars
    BY <1>2 DEF MCNext
  <2>2. \A q \in Requests \ {r} : txn'[q].pc # "idle" => txn'[q].ticket # txn'[r].ticket
    BY <2>1 DEF Meets
  <2>3. ASSUME txn'[r].op \in Ops \ {"join"} PROVE Accepted(r)'
    <3>1. CASE tickets' = tickets /\ Accepts(txn'[r].op, txn'[r].ticket)
      BY <3>1 DEF Accepted, Accepts
    <3>2. CASE KeepsOn(r)
      <4>1. /\ Accepts(txn[r].op, txn[r].ticket)
            /\ \A q \in Requests \ {r} : txn[q].pc # "idle" => txn[q].ticket # txn[r].ticket
        BY <2>1, <2>3, <3>2 DEF AloneInv, KeepsOn, Accepted
      <4>2. txn[r].ticket \in TicketIds
        BY <2>3, <3>2 DEF Base, TypeInv, TxnShape, Shape, KeepsOn
      <4>3. tickets'[txn[r].ticket] = tickets[txn[r].ticket]
        <5>1. CASE UNCHANGED <<tickets, audit>>
          BY <5>1
        <5>2. ASSUME NEW q \in Requests, JoinCommit(q) \/ Commit(q)
              PROVE  tickets'[txn[r].ticket] = tickets[txn[r].ticket]
          <6>1. q # r /\ txn[q].pc # "idle"
            BY <5>2 DEF JoinCommit, Commit, Base, TypeInv, TypeOK, Idle
          <6>2. txn[q].ticket # txn[r].ticket
            BY <4>1, <6>1
          <6>3. QED
            BY <4>2, <5>2, <6>2 DEF JoinCommit, Commit, Base, TypeInv, TypeOK
        <5>3. QED
          BY <2>1, <5>1, <5>2, StepRows
      <4>4. QED
        BY <3>2, <4>1, <4>3 DEF Accepted, Accepts, KeepsOn
    <3>3. QED
      BY <2>1, <2>3, <3>1, <3>2, StepAccepts DEF Base
  <2>4. QED
    BY <2>2, <2>3
<1>3. QED
  BY <1>1, <1>2

OnTheTable ==
  \A r \in Requests :
    alone[r] /\ txn[r].pc = "flushed" /\ tickets' # tickets /\ txn'[r].pc = "idle"
    => \A t \in TicketIds :
         tickets'[t].status # tickets[t].status
         => tickets'[t].status \in Lifecycle!AllowedTransitions[tickets[t].status]

LEMMA StepOnTheTable ==
  ASSUME Base, AloneInv, MCNext
  PROVE  OnTheTable
<1> SUFFICES ASSUME NEW r \in Requests, alone[r], txn[r].pc = "flushed", tickets' # tickets,
                    txn'[r].pc = "idle", NEW t \in TicketIds,
                    tickets'[t].status # tickets[t].status
             PROVE  tickets'[t].status \in Lifecycle!AllowedTransitions[tickets[t].status]
  BY DEF OnTheTable
<1>1. PICK q \in Requests : JoinCommit(q) \/ Commit(q)
  BY StepRows DEF MCNext
<1>2. q = r
  BY <1>1 DEF JoinCommit, Commit, Base, TypeInv, TypeOK
<1>3. CASE JoinCommit(r)
  <2>1. t = txn[r].ticket /\ tickets[t].status = "absent" /\ tickets'[t].status = "waiting"
    <3> DEFINE u == txn[r].ticket
    <3>1. u \in TicketIds \ Issued /\ tickets' = [tickets EXCEPT ![u] = NewRow(r)]
      BY <1>3, JoinCommitRows
    <3>2. NewRow(r).status = "waiting"
      BY DEF NewRow
    <3> HIDE DEF u
    <3>3. t = u /\ tickets[t].status = "absent" /\ tickets'[t].status = "waiting"
      BY <3>1, <3>2 DEF Issued, Base, TypeInv, TypeOK
    <3>4. QED
      BY <3>3 DEF u
  <2>2. QED
    BY <2>1 DEF Lifecycle!AllowedTransitions
<1>4. CASE Commit(r)
  <2>1. /\ t = txn[r].ticket /\ txn[r].op \in {"start", "complete", "cancel"}
        /\ tickets'[t] = Updated(txn[r], tickets[t])
    BY <1>4, CommitRows
  <2>2. tickets'[t].status = Target[txn[r].op]
    BY <2>1 DEF Updated, Base, TypeInv, TypeOK, Rows
  <2>3. tickets[t].status \in Source[txn[r].op]
    BY <2>1 DEF AloneInv, Accepted, Accepts, Ops
  <2>4. QED
    BY <2>1, <2>2, <2>3 DEF Target, Source, Lifecycle!AllowedTransitions
<1>5. QED
  BY <1>1, <1>2, <1>3, <1>4

(* No request calls assert_transition, and an UPDATE goes by the primary   *)
(* key: a request that met no other one on its ticket moves it along the   *)
(* table of domain/queue_ticket.py nevertheless, as its check promised.    *)
THEOREM QueueFollowsLifecycleAlone == MCSpec => LifecycleWhenAlone
<1>1. MCInit => Init /\ AloneInv
  BY DEF MCInit, Init, AloneInv, Idle
<1>2. [MCNext]_mcvars => [Next]_vars
  BY DEF MCNext, mcvars, vars
<1>3. Base /\ AloneInv /\ [MCNext]_mcvars => AloneInv'
  BY StepAlone
<1>4. Base /\ AloneInv /\ [MCNext]_mcvars => [OnTheTable]_mcvars
  BY StepOnTheTable
<1>5. Spec => []Base
  BY NumbersAlways DEF Base
<1>6. QED
  BY <1>1, <1>2, <1>3, <1>4, <1>5, PTL DEF Spec, MCSpec, LifecycleWhenAlone, OnTheTable
=============================================================================
