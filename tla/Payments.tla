------------------------------- MODULE Payments -------------------------------
(***************************************************************************)
(* The till of a salon: RecordPayment (application/payments.py) and        *)
(* AdjustPayment (application/cash_journal.py) over SqlPaymentRepository,  *)
(* SqlCashJournalEntryRepository and PostgreSQL.                           *)
(*                                                                         *)
(* As in QueueTickets.tla a request is a transaction, one action is one    *)
(* statement whose interleaving matters, the rows are the committed ones   *)
(* and locks follow from the program counters.  The journal and the audit  *)
(* log have a foreign key to the payment, so their lines are kept per      *)
(* payment.  The services of a ticket are fixed here (their correction is  *)
(* in TicketServices.tla), the prices are not: they are read in direct.    *)
(***************************************************************************)
EXTENDS Integers, FiniteSets, Sequences, SequencesExt

CONSTANTS
  Requests,    \* the requests the server may run at once
  PaymentIds,  \* the ids a payment may get: bounds the payments recorded
  Salons,
  Tickets,
  Services,
  HomeOf,      \* ticket or service -> its salon
  ServicesOf,  \* ticket -> its services
  Prices,      \* what a service may cost
  Amounts,     \* what a cashier may submit
  Deltas,      \* the corrections a manager may submit
  None         \* SQL NULL

ASSUME NoneAssumption ==
  None \notin Requests \cup PaymentIds \cup Salons \cup Tickets \cup Services

ASSUME DataAssumption ==
  /\ IsFiniteSet(Requests) /\ IsFiniteSet(PaymentIds)
  /\ HomeOf \in [Tickets \cup Services -> Salons]
  /\ ServicesOf \in [Tickets -> SUBSET Services]
  /\ \A t \in Tickets : \A s \in ServicesOf[t] : HomeOf[s] = HomeOf[t]
  /\ Prices \subseteq Nat /\ Amounts \subseteq Nat /\ Deltas \subseteq Int \ {0}

VARIABLES
  payments,  \* committed rows of payments
  journal,   \* payment -> committed rows of cash_journal, in commit order
  audit,     \* payment -> committed audit_log actions, in commit order
  price,     \* service -> its price
  inactive,  \* services that are not offered any more
  txn,       \* request -> its program counter and local values
  dues       \* request -> totals its ticket had since it began (for properties)

vars == <<payments, journal, audit, price, inactive, txn, dues>>

NoRow == [status |-> "absent", salon |-> None, ticket |-> None, amount |-> 0,
          receipt |-> 0]
Idle  == [pc |-> "idle", op |-> "none", salon |-> None, ticket |-> None,
          payment |-> None, amount |-> 0, left |-> {}, sum |-> 0, receipt |-> 0]

Recorded      == {p \in PaymentIds : payments[p].status # "absent"}
RecordedBy(s) == {p \in Recorded : payments[p].salon = s}

Init ==
  /\ payments = [p \in PaymentIds |-> NoRow]
  /\ journal  = [p \in PaymentIds |-> <<>>]
  /\ audit    = [p \in PaymentIds |-> <<>>]
  /\ price    \in [Services -> Prices]
  /\ inactive = {}
  /\ txn      = [r \in Requests |-> Idle]
  /\ dues     = [r \in Requests |-> {}]

Goto(r, pc) == txn' = [txn EXCEPT ![r].pc = pc]
Rollback(r) == txn' = [txn EXCEPT ![r] = Idle]

Committed == <<payments, journal, audit, price, inactive>>

(* The price of a set of services, as one consistent read would find it.   *)
Total(ss, p) == FoldSet(LAMBDA s, n : n + p[s], 0, ss)

-----------------------------------------------------------------------------
(* RecordPayment                                                           *)

PaidValidated(t) ==                                                 \* mutant
  \E p \in Recorded : payments[p].ticket = t /\ payments[p].status = "VALIDATED"

(* PAID_PAYMENT_STATUSES, has_paid_payment.                                *)
Paid(t) == \E p \in Recorded : payments[p].ticket = t

IdsLeft ==  \* bound: no more payments than ids left
  Cardinality(PaymentIds \ Recorded) > Cardinality({q \in Requests : txn[q].op = "record"})

(* For a ticket: the amount is validated, the ticket is not paid yet and   *)
(* its services are read.                                                  *)
RecordTicket(r, t, amount) ==
  /\ txn[r].pc = "idle" /\ IdsLeft
  /\ ~Paid(t)
  /\ txn' = [txn EXCEPT ![r] =
       [Idle EXCEPT !.pc = "pricing", !.op = "record", !.salon = HomeOf[t],
                    !.ticket = t, !.amount = amount, !.left = ServicesOf[t]]]
  /\ dues' = [dues EXCEPT ![r] = {Total(ServicesOf[t], price)}]
  /\ UNCHANGED Committed

(* For a service alone, without a ticket.                                  *)
RecordService(r, s, amount) ==
  /\ txn[r].pc = "idle" /\ IdsLeft
  /\ txn' = [txn EXCEPT ![r] =
       [Idle EXCEPT !.pc = "pricing", !.op = "record", !.salon = HomeOf[s],
                    !.amount = amount, !.left = {s}]]
  /\ dues' = [dues EXCEPT ![r] = {price[s]}]
  /\ UNCHANGED Committed

(* _resolve_expected_amount: one SELECT per service.  A service alone must *)
(* be active, those of a ticket need not.                                  *)
PriceService(r) ==
  /\ txn[r].pc = "pricing"
  /\ \E s \in txn[r].left :
       \/ /\ txn[r].ticket = None => s \notin inactive
          /\ txn' = [txn EXCEPT ![r].left = @ \ {s}, ![r].sum = @ + price[s]]
       \/ /\ txn[r].ticket = None /\ s \in inactive
          /\ Rollback(r)
  /\ UNCHANGED <<Committed, dues>>

(* Requests that hold the advisory lock of a salon.                        *)
Allocators(s) == {q \in Requests : /\ txn[q].op = "record" /\ txn[q].salon = s
                                   /\ txn[q].pc \in {"locked", "flushed"}}

LockForgotten(r) ==                                                 \* mutant
  /\ txn[r].pc = "pricing" /\ txn[r].left = {}
  /\ \/ txn[r].sum = txn[r].amount /\ Goto(r, "locked")
     \/ txn[r].sum # txn[r].amount /\ Rollback(r)
  /\ UNCHANGED <<Committed, dues>>

LockUnmatched(r) ==                                                 \* mutant
  /\ txn[r].pc = "pricing" /\ txn[r].left = {}
  /\ Allocators(txn[r].salon) = {}
  /\ Goto(r, "locked")
  /\ UNCHANGED <<Committed, dues>>

(* validate_amount_matches, then pg_advisory_xact_lock.                    *)
Lock(r) ==
  /\ txn[r].pc = "pricing" /\ txn[r].left = {}
  /\ \/ /\ txn[r].sum = txn[r].amount
        /\ Allocators(txn[r].salon) = {}
        /\ Goto(r, "locked")
     \/ txn[r].sum # txn[r].amount /\ Rollback(r)
  /\ UNCHANGED <<Committed, dues>>

NextReceipt(s) == 1 + Max({0} \cup {payments[p].receipt : p \in RecordedBy(s)})

(* The payment is inserted with its receipt number, then the journal line. *)
Insert(r) ==
  /\ txn[r].pc = "locked"
  /\ \E p \in PaymentIds \ Recorded :
       /\ \A q \in Requests : txn[q].payment # p
       /\ txn' = [txn EXCEPT ![r].pc = "flushed", ![r].payment = p,
                             ![r].receipt = NextReceipt(txn[r].salon)]
  /\ UNCHANGED <<Committed, dues>>

CommitRecord(r) ==
  LET x == txn[r]
  IN /\ x.pc = "flushed" /\ x.op = "record"
     /\ payments' = [payments EXCEPT ![x.payment] =
          [status |-> "VALIDATED", salon |-> x.salon, ticket |-> x.ticket,
           amount |-> x.amount, receipt |-> x.receipt]]
     /\ journal' = [journal EXCEPT ![x.payment] =
          Append(@, [kind |-> "PAYMENT", amount |-> x.amount])]
     /\ audit' = [audit EXCEPT ![x.payment] = Append(@, "RECORDED")]
     /\ Rollback(r)
     /\ UNCHANGED <<price, inactive, dues>>

-----------------------------------------------------------------------------
(* AdjustPayment                                                           *)

AdjustCheck(r, p, delta) ==
  /\ txn[r].pc = "idle"
  /\ payments[p].status = "VALIDATED"
  /\ txn' = [txn EXCEPT ![r] = [Idle EXCEPT !.pc = "checked", !.op = "adjust",
                                            !.payment = p, !.amount = delta]]
  /\ UNCHANGED <<Committed, dues>>

(* The ADJUSTMENT line is inserted, then mark_adjusted reads the row again. *)
AdjustLoad(r) ==
  /\ txn[r].pc = "checked"
  /\ \/ payments[txn[r].payment].status = "VALIDATED" /\ Goto(r, "loaded")
     \/ payments[txn[r].payment].status # "VALIDATED" /\ Rollback(r)
  /\ UNCHANGED <<Committed, dues>>

Writers(p) == {q \in Requests : /\ txn[q].op = "adjust" /\ txn[q].payment = p
                                /\ txn[q].pc = "flushed"}

(* UPDATE ... SET status WHERE id: waits for the lock of the row.          *)
AdjustUpdate(r) ==
  /\ txn[r].pc = "loaded"
  /\ Writers(txn[r].payment) = {}
  /\ Goto(r, "flushed")
  /\ UNCHANGED <<Committed, dues>>

CommitAdjustUnmarked(r) ==                                          \* mutant
  LET x == txn[r]
  IN /\ x.pc = "flushed" /\ x.op = "adjust"
     /\ journal' = [journal EXCEPT ![x.payment] =
          Append(@, [kind |-> "ADJUSTMENT", amount |-> x.amount])]
     /\ audit' = [audit EXCEPT ![x.payment] = Append(@, "ADJUSTED")]
     /\ Rollback(r)
     /\ UNCHANGED <<payments, price, inactive, dues>>

CommitAdjustOverwrites(r) ==                                        \* mutant
  LET x == txn[r]
  IN /\ x.pc = "flushed" /\ x.op = "adjust"
     /\ payments' = [payments EXCEPT ![x.payment].status = "ADJUSTED",
                                     ![x.payment].amount = @ + x.amount]
     /\ journal' = [journal EXCEPT ![x.payment] =
          Append(@, [kind |-> "ADJUSTMENT", amount |-> x.amount])]
     /\ audit' = [audit EXCEPT ![x.payment] = Append(@, "ADJUSTED")]
     /\ Rollback(r)
     /\ UNCHANGED <<price, inactive, dues>>

CommitAdjust(r) ==
  LET x == txn[r]
  IN /\ x.pc = "flushed" /\ x.op = "adjust"
     /\ payments' = [payments EXCEPT ![x.payment].status = "ADJUSTED"]
     /\ journal' = [journal EXCEPT ![x.payment] =
          Append(@, [kind |-> "ADJUSTMENT", amount |-> x.amount])]
     /\ audit' = [audit EXCEPT ![x.payment] = Append(@, "ADJUSTED")]
     /\ Rollback(r)
     /\ UNCHANGED <<price, inactive, dues>>

-----------------------------------------------------------------------------
(* An exception, a lost connection or a crash of the server process.       *)
Abort(r) ==
  /\ txn[r].pc # "idle"
  /\ Rollback(r)
  /\ UNCHANGED <<Committed, dues>>

(* UpdateService changes the price of a service.                           *)
Due(x, p) == Total(IF x.ticket = None THEN x.left ELSE ServicesOf[x.ticket], p)

SetPrice(s, n) ==
  /\ price[s] # n
  /\ price' = [price EXCEPT ![s] = n]
  /\ dues' = [r \in Requests |->
       IF txn[r].pc = "pricing" /\ txn[r].left # {}
       THEN dues[r] \cup {Due(txn[r], price')} ELSE dues[r]]
  /\ UNCHANGED <<payments, journal, audit, inactive, txn>>

(* DeactivateService, ReactivateService.                                   *)
SetActive(s) ==
  /\ inactive' = IF s \in inactive THEN inactive \ {s} ELSE inactive \cup {s}
  /\ UNCHANGED <<payments, journal, audit, price, txn, dues>>

Receive(r) ==
  \/ \E t \in Tickets, a \in Amounts : RecordTicket(r, t, a)
  \/ \E s \in Services, a \in Amounts : RecordService(r, s, a)
  \/ \E p \in PaymentIds, d \in Deltas : AdjustCheck(r, p, d)

Record(r) == PriceService(r) \/ Lock(r) \/ Insert(r) \/ CommitRecord(r)
Adjust(r) == AdjustLoad(r) \/ AdjustUpdate(r) \/ CommitAdjust(r)
Serve(r)  == Record(r) \/ Adjust(r)

Next ==
  \/ \E r \in Requests : Receive(r) \/ Serve(r) \/ Abort(r)
  \/ \E s \in Services : (\E n \in Prices : SetPrice(s, n)) \/ SetActive(s)

Spec == Init /\ [][Next]_vars

-----------------------------------------------------------------------------
(* Properties                                                              *)

Rows  == [status : {"absent", "VALIDATED", "ADJUSTED"}, salon : Salons \cup {None},
          ticket : Tickets \cup {None}, amount : Nat, receipt : Nat]
Lines == [kind : {"PAYMENT", "ADJUSTMENT"}, amount : Int]
Txns  == [pc : {"idle", "pricing", "locked", "checked", "loaded", "flushed"},
          op : {"none", "record", "adjust"}, salon : Salons \cup {None},
          ticket : Tickets \cup {None}, payment : PaymentIds \cup {None},
          amount : Int, left : SUBSET Services, sum : Nat, receipt : Nat]

(* The type invariant of the module's variables.                           *)
TypeOK ==
  /\ payments \in [PaymentIds -> Rows]
  /\ journal \in [PaymentIds -> Seq(Lines)]
  /\ audit \in [PaymentIds -> Seq({"RECORDED", "ADJUSTED"})]
  /\ price \in [Services -> Prices] /\ inactive \in SUBSET Services
  /\ txn \in [Requests -> Txns]

(* The receipts of a salon bear the numbers 1 .. n, each once, whatever    *)
(* cashiers race and whatever payments are rolled back: no hole, and       *)
(* uq_payments_salon_receipt_number never refuses a payment.               *)
ReceiptsDense ==
  \A s \in Salons :
    {payments[p].receipt : p \in RecordedBy(s)} = 1 .. Cardinality(RecordedBy(s))

(* Every payment has exactly one PAYMENT line, of its amount, and the      *)
(* journal and the audit log tell the same story: the payment is ADJUSTED  *)
(* iff an ADJUSTMENT line corrects it.  Nothing is in the journal without  *)
(* its payment (no ghost line), even if requests race or fail.             *)
JournalTellsPayments ==
  \A p \in PaymentIds :
    LET lines == journal[p]
    IN /\ \A i \in DOMAIN lines : (lines[i].kind = "PAYMENT") = (i = 1)
       /\ p \in Recorded <=> lines # <<>>
       /\ p \in Recorded => lines[1].amount = payments[p].amount
       /\ payments[p].status = "ADJUSTED" <=> Len(lines) > 1
       /\ audit[p] = [i \in DOMAIN lines |-> IF i = 1 THEN "RECORDED" ELSE "ADJUSTED"]

(* The amount of a payment that passes the check of coherence is what its  *)
(* services cost at a moment of its request.  True of one service, refuted *)
(* of a ticket of two services whose prices are read one after the other   *)
(* (RecordPayment: "somme des Service.price actuels").                     *)
AmountWasDue ==
  \A r \in Requests :
    txn[r].op = "record" /\ txn[r].pc \in {"locked", "flushed"}
    => txn[r].amount \in dues[r]

(* The committed rows implement the cash book of CashBook.tla: a payment,  *)
(* its receipt number and its line appear in one step in spite of the      *)
(* statements between them, and nothing written changes afterwards.        *)
Book ==
  INSTANCE CashBook WITH
    slips <- [p \in PaymentIds |-> [salon |-> payments[p].salon,
                                    ticket |-> payments[p].ticket,
                                    amount |-> payments[p].amount,
                                    receipt |-> payments[p].receipt]],
    lines <- journal
ImplementsBook == Book!Spec

(* RecordPayment: a ticket that is paid cannot be paid a second time ...   *)
PaidOnce ==
  \A p, q \in Recorded : payments[p].ticket = payments[q].ticket
                         => p = q \/ payments[p].ticket = None

(* ... which a race refutes: has_paid_payment is read before the lock.     *)
(* What the code does promise is that a ticket is paid, and a payment is   *)
(* corrected, at most once by each of the requests that were running       *)
(* together when the first of them committed, corrections included: no     *)
(* sequence of calls, however long, does it again.                         *)
RivalsOnly ==
  /\ \A t \in Tickets :
       Cardinality({p \in Recorded : payments[p].ticket = t}) <= Cardinality(Requests)
  /\ \A p \in PaymentIds : Len(journal[p]) <= 1 + Cardinality(Requests)
=============================================================================
