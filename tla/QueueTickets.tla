----------------------------- MODULE QueueTickets -----------------------------
(***************************************************************************)
(* The walk-in queue of a salon: JoinQueue, StartQueueTicket,              *)
(* CompleteQueueTicket and CancelQueueTicket of application/               *)
(* queue_ticket.py, over SqlQueueTicketRepository and PostgreSQL.          *)
(*                                                                         *)
(* Each HTTP request runs in its own thread and its own transaction        *)
(* (persistence/session.py), READ COMMITTED.  A request is a record with a *)
(* program counter; one action is one statement whose interleaving with    *)
(* other requests matters.  The rows are the COMMITTED ones: what a        *)
(* running transaction has written is in its record until Commit.  Locks   *)
(* are not stored, they follow from the program counters: a row is locked  *)
(* from its UPDATE to the end of the transaction, the salon's advisory     *)
(* lock from JoinLock to the end of the transaction.                       *)
(*                                                                         *)
(* The day (issued_date) is fixed: the counter of another day is the       *)
(* counter of another salon.  The services of a ticket are in              *)
(* TicketServices.tla; the wait is the number of tickets ahead, of which   *)
(* the code makes minutes.                                                 *)
(***************************************************************************)
EXTENDS Integers, FiniteSets, Sequences, SequencesExt

CONSTANTS
  Requests,      \* the requests the server may run at once
  TicketIds,     \* the ids a ticket may get: bounds the tickets issued
  Salons,
  Hairdressers,  \* accounts; a hairdresser may be a member of several salons
  None           \* SQL NULL

ASSUME NoneAssumption ==
  None \notin Requests \cup TicketIds \cup Salons \cup Hairdressers

ASSUME FiniteAssumption == IsFiniteSet(TicketIds)

VARIABLES
  tickets,  \* committed rows of queue_tickets
  active,   \* salon -> accounts whose membership is ACTIVE
  txn,      \* request -> its program counter and local values
  audit     \* ticket -> committed audit_log actions, in commit order

vars == <<tickets, active, txn, audit>>

Statuses == {"waiting", "called", "in_progress", "done", "expired"}
Actions  == {"STARTED", "COMPLETED", "CANCELLED"}
Ops      == {"join", "start", "complete", "cancel"}

NoRow == [salon |-> None, number |-> 0, status |-> "absent",
          hairdresser |-> None, ahead |-> 0]
Idle  == [pc |-> "idle", op |-> "none", salon |-> None, ticket |-> None,
          hairdresser |-> None, number |-> 0, ahead |-> 0]

Issued     == {t \in TicketIds : tickets[t].status # "absent"}
IssuedBy(s) == {t \in Issued : tickets[t].salon = s}

(* What the UPDATE of each operation leaves in status, and what it logs.   *)
Target == [start |-> "in_progress", complete |-> "done", cancel |-> "expired"]
Logged == [start |-> "STARTED", complete |-> "COMPLETED", cancel |-> "CANCELLED"]

(* Statuses from which each operation is accepted (pre-check of the use    *)
(* case and condition of the repository's SELECT, which agree).            *)
SourceCompleteUnchecked ==                                          \* mutant
  [start |-> {"waiting"}, complete |-> {"waiting", "in_progress"},
   cancel |-> {"waiting", "called"}]
SourceCancelUnchecked ==                                            \* mutant
  [start |-> {"waiting"}, complete |-> {"in_progress"},
   cancel |-> {"waiting", "called", "in_progress"}]
Source == [start    |-> {"waiting"},
           complete |-> {"in_progress"},
           cancel   |-> {"waiting", "called"}]
Accepts(op, t) == tickets[t].status \in Source[op]

(* Requests that hold an uncommitted UPDATE of ticket t.                   *)
Writers(t) == {r \in Requests : /\ txn[r].ticket = t
                                /\ txn[r].op # "join"
                                /\ txn[r].pc \in {"updating", "flushed"}}

(* Requests that hold the advisory lock salon:day.                         *)
Allocators(s) == {r \in Requests : /\ txn[r].op = "join"
                                   /\ txn[r].salon = s
                                   /\ txn[r].pc \in {"locked", "flushed"}}

Init ==
  /\ tickets = [t \in TicketIds |-> NoRow]
  /\ active  = [s \in Salons |-> Hairdressers]
  /\ txn     = [r \in Requests |-> Idle]
  /\ audit   = [t \in TicketIds |-> <<>>]

Goto(r, pc) == txn' = [txn EXCEPT ![r].pc = pc]
Rollback(r) == txn' = [txn EXCEPT ![r] = Idle]

-----------------------------------------------------------------------------
(* JoinQueue                                                               *)

(* Services and customer are validated; nothing that is read here is read  *)
(* again later.  Bound: no more joins than ids left.                       *)
IdsLeft ==
  Cardinality(TicketIds \ Issued) > Cardinality({q \in Requests : txn[q].op = "join"})

JoinBegin(r, s) ==
  /\ txn[r].pc = "idle"
  /\ IdsLeft
  /\ txn' = [txn EXCEPT ![r] = [Idle EXCEPT !.pc = "checked", !.op = "join",
                                            !.salon = s]]
  /\ UNCHANGED <<tickets, active, audit>>

JoinLockForgotten(r) ==                                             \* mutant
  /\ txn[r].pc = "checked" /\ txn[r].op = "join"
  /\ Goto(r, "locked")
  /\ UNCHANGED <<tickets, active, audit>>

(* pg_advisory_xact_lock: waits for the allocator of the same salon.       *)
JoinLock(r) ==
  /\ txn[r].pc = "checked" /\ txn[r].op = "join"
  /\ Allocators(txn[r].salon) = {}
  /\ Goto(r, "locked")
  /\ UNCHANGED <<tickets, active, audit>>

NextNumberOfWaiting(s) ==                                           \* mutant
  1 + Max({0} \cup {tickets[t].number :
                      t \in {u \in IssuedBy(s) : tickets[u].status = "waiting"}})

(* COALESCE(MAX(ticket_number), 0) + 1 over the committed rows.            *)
NextNumber(s) == 1 + Max({0} \cup {tickets[t].number : t \in IssuedBy(s)})

CountAheadOffByOne(s, n) ==                                         \* mutant
  Cardinality({t \in IssuedBy(s) : /\ tickets[t].status = "waiting"
                                   /\ tickets[t].number < n - 1})

(* count_waiting_ahead.                                                    *)
CountAhead(s, n) ==
  Cardinality({t \in IssuedBy(s) : /\ tickets[t].status = "waiting"
                                   /\ tickets[t].number < n})

(* The row is inserted, then people_ahead_count is counted: the answer the *)
(* kiosk will show.                                                        *)
JoinInsert(r) ==
  LET n == NextNumber(txn[r].salon)
  IN /\ txn[r].pc = "locked"
     /\ \E t \in TicketIds \ Issued :
          /\ \A q \in Requests : txn[q].ticket # t
          /\ txn' = [txn EXCEPT ![r].pc = "flushed", ![r].ticket = t,
                       ![r].number = n,
                       ![r].ahead = CountAhead(txn[r].salon, n)]
     /\ UNCHANGED <<tickets, active, audit>>

JoinCommit(r) ==
  LET x == txn[r]
  IN /\ x.pc = "flushed" /\ x.op = "join"
     /\ tickets' = [tickets EXCEPT ![x.ticket] =
                      [salon |-> x.salon, number |-> x.number,
                       status |-> "waiting", hairdresser |-> None,
                       ahead |-> x.ahead]]
     /\ txn' = [txn EXCEPT ![r] = Idle]
     /\ UNCHANGED <<active, audit>>

-----------------------------------------------------------------------------
(* StartQueueTicket                                                        *)

(* Pre-check of the status, then membership of the hairdresser.            *)
StartCheck(r, t, h) ==
  /\ txn[r].pc = "idle"
  /\ Accepts("start", t)
  /\ h \in active[tickets[t].salon]
  /\ txn' = [txn EXCEPT ![r] = [Idle EXCEPT !.pc = "checked", !.op = "start",
                                            !.ticket = t, !.hairdresser = h]]
  /\ UNCHANGED <<tickets, active, audit>>

Busy(h) == \E t \in Issued : /\ tickets[t].status = "in_progress"
                             /\ tickets[t].hairdresser = h

(* is_hairdresser_busy, then the conditional SELECT of the repository; a   *)
(* request refused here is answered 409.                                   *)
StartLoad(r) ==
  /\ txn[r].pc = "checked" /\ txn[r].op = "start"
  /\ \/ /\ Accepts("start", txn[r].ticket)
        /\ ~Busy(txn[r].hairdresser)
        /\ Goto(r, "loaded")
     \/ /\ \/ ~Accepts("start", txn[r].ticket)
           \/ Busy(txn[r].hairdresser)
        /\ Rollback(r)
  /\ UNCHANGED <<tickets, active, audit>>

(* UPDATE ... WHERE id = :id: waits for the row lock, nothing else.  The   *)
(* unique index is consulted once the new version of the row exists.       *)
StartUpdate(r) ==
  /\ txn[r].pc = "loaded" /\ txn[r].op = "start"
  /\ Writers(txn[r].ticket) = {}
  /\ Goto(r, "updating")
  /\ UNCHANGED <<tickets, active, audit>>

InProgressInSalon(h, t) ==                                          \* mutant
  {u \in Issued \ {t} : /\ tickets[u].status = "in_progress"
                        /\ tickets[u].hairdresser = h
                        /\ tickets[u].salon = tickets[t].salon}

(* Other tickets that hold the entry of h in the partial unique index.     *)
InProgressOf(h, t) ==
  {u \in Issued \ {t} : /\ tickets[u].status = "in_progress"
                        /\ tickets[u].hairdresser = h}

(* Requests that are inserting or deleting an entry of h in the index: the *)
(* insertion of the same key waits for the end of their transactions.      *)
Rivals(h, t) ==
  {q \in Requests : /\ txn[q].op = "start" /\ txn[q].pc = "flushed"
                    /\ txn[q].ticket # t /\ txn[q].hairdresser = h}
  \cup UNION {Writers(u) : u \in InProgressOf(h, t)}

StartIndexMissing(r) ==                                             \* mutant
  /\ txn[r].pc = "updating"
  /\ Goto(r, "flushed")
  /\ UNCHANGED <<tickets, active, audit>>

StartIndexRetries(r) ==                                             \* mutant
  LET x == txn[r]
  IN /\ x.pc = "updating"
     /\ Rivals(x.hairdresser, x.ticket) = {}
     /\ \/ InProgressOf(x.hairdresser, x.ticket) = {} /\ Goto(r, "flushed")
        \/ InProgressOf(x.hairdresser, x.ticket) # {} /\ Goto(r, "loaded")
     /\ UNCHANGED <<tickets, active, audit>>

StartIndex(r) ==
  LET x == txn[r]
  IN /\ x.pc = "updating"
     /\ Rivals(x.hairdresser, x.ticket) = {}
     /\ \/ InProgressOf(x.hairdresser, x.ticket) = {} /\ Goto(r, "flushed")
        \/ InProgressOf(x.hairdresser, x.ticket) # {} /\ Rollback(r)
     /\ UNCHANGED <<tickets, active, audit>>

-----------------------------------------------------------------------------
(* CompleteQueueTicket                                                     *)

CompleteCheck(r, t) ==
  /\ txn[r].pc = "idle"
  /\ Accepts("complete", t)
  /\ txn' = [txn EXCEPT ![r] = [Idle EXCEPT !.pc = "checked", !.op = "complete",
                                            !.ticket = t]]
  /\ UNCHANGED <<tickets, active, audit>>

CompleteLoad(r) ==
  /\ txn[r].pc = "checked" /\ txn[r].op = "complete"
  /\ \/ Accepts("complete", txn[r].ticket) /\ Goto(r, "loaded")
     \/ ~Accepts("complete", txn[r].ticket) /\ Rollback(r)
  /\ UNCHANGED <<tickets, active, audit>>

CompleteUpdate(r) ==
  /\ txn[r].pc = "loaded" /\ txn[r].op = "complete"
  /\ Writers(txn[r].ticket) = {}
  /\ Goto(r, "flushed")
  /\ UNCHANGED <<tickets, active, audit>>

-----------------------------------------------------------------------------
(* CancelQueueTicket                                                       *)

CancelCheck(r, t) ==
  /\ txn[r].pc = "idle"
  /\ Accepts("cancel", t)
  /\ txn' = [txn EXCEPT ![r] = [Idle EXCEPT !.pc = "checked", !.op = "cancel",
                                            !.ticket = t]]
  /\ UNCHANGED <<tickets, active, audit>>

CancelLoad(r) ==
  /\ txn[r].pc = "checked" /\ txn[r].op = "cancel"
  /\ \/ Accepts("cancel", txn[r].ticket) /\ Goto(r, "loaded")
     \/ ~Accepts("cancel", txn[r].ticket) /\ Rollback(r)
  /\ UNCHANGED <<tickets, active, audit>>

CancelUpdate(r) ==
  /\ txn[r].pc = "loaded" /\ txn[r].op = "cancel"
  /\ Writers(txn[r].ticket) = {}
  /\ Goto(r, "flushed")
  /\ UNCHANGED <<tickets, active, audit>>

-----------------------------------------------------------------------------
(* The end of a request                                                    *)

(* The columns an operation's UPDATE changes, over the committed row.      *)
Updated(x, row) ==
  [row EXCEPT !.status = Target[x.op],
              !.hairdresser = IF x.op = "start" THEN x.hairdresser ELSE @]

(* get_session: the row and its audit line become visible together.        *)
Commit(r) ==
  LET x == txn[r]
  IN /\ x.pc = "flushed" /\ x.op # "join"
     /\ tickets' = [tickets EXCEPT ![x.ticket] = Updated(x, @)]
     /\ audit' = [audit EXCEPT ![x.ticket] = Append(@, Logged[x.op])]
     /\ txn' = [txn EXCEPT ![r] = Idle]
     /\ UNCHANGED active

AbortKeepsAudit(r) ==                                               \* mutant
  /\ txn[r].pc # "idle"
  /\ Rollback(r)
  /\ audit' = IF txn[r].pc = "flushed" /\ txn[r].op # "join"
              THEN [audit EXCEPT ![txn[r].ticket] = Append(@, Logged[txn[r].op])]
              ELSE audit
  /\ UNCHANGED <<tickets, active>>

(* An exception, a lost connection or a crash of the server process.       *)
Abort(r) ==
  /\ txn[r].pc # "idle"
  /\ Rollback(r)
  /\ UNCHANGED <<tickets, active, audit>>

(* SetEmployeeAvailability commits a change of one membership row.         *)
SetAvailability(s, h) ==
  /\ active' = [active EXCEPT ![s] = IF h \in @ THEN @ \ {h} ELSE @ \cup {h}]
  /\ UNCHANGED <<tickets, txn, audit>>

-----------------------------------------------------------------------------
(* The circles of the database                                             *)

(* Whom a statement waits for: the writer of its row, those that hold or   *)
(* free its entry of the index, the holder of the advisory lock.           *)
WaitsFor(r) ==
  LET x == txn[r]
  IN {q \in Requests \ {r} :
        \/ x.pc = "checked" /\ x.op = "join" /\ q \in Allocators(x.salon)
        \/ x.pc = "loaded" /\ q \in Writers(x.ticket)
        \/ x.pc = "updating" /\ q \in Rivals(x.hairdresser, x.ticket)}

(* PostgreSQL looks for a circle of transactions that wait for each other  *)
(* and aborts one of them; the error is no IntegrityError, so it is not    *)
(* the refusal of HairdresserBusy.                                         *)
BreakDeadlock(r) ==
  /\ WaitsFor(r) # {}
  /\ \E circle \in SUBSET Requests :
       r \in circle /\ \A q \in circle : WaitsFor(q) \cap circle # {}
  /\ Rollback(r)
  /\ UNCHANGED <<tickets, active, audit>>

-----------------------------------------------------------------------------
Receive(r) ==
  \/ \E s \in Salons : JoinBegin(r, s)
  \/ \E t \in TicketIds, h \in Hairdressers : StartCheck(r, t, h)
  \/ \E t \in TicketIds : CompleteCheck(r, t)
  \/ \E t \in TicketIds : CancelCheck(r, t)

Join(r)     == JoinLock(r) \/ JoinInsert(r) \/ JoinCommit(r)
Start(r)    == StartLoad(r) \/ StartUpdate(r) \/ StartIndex(r)
Complete(r) == CompleteLoad(r) \/ CompleteUpdate(r)
Cancel(r)   == CancelLoad(r) \/ CancelUpdate(r)
Serve(r)    == \/ Join(r) \/ Start(r) \/ Complete(r) \/ Cancel(r) \/ Commit(r)
               \/ BreakDeadlock(r)

Next ==
  \/ \E r \in Requests : Receive(r) \/ Serve(r) \/ Abort(r)
  \/ \E s \in Salons, h \in Hairdressers : SetAvailability(s, h)

Spec == Init /\ [][Next]_vars

(* A thread that can execute its next statement does; PostgreSQL queues    *)
(* those that wait for a lock, so a waiter is not overtaken for ever.      *)
FairSpec == Spec /\ \A r \in Requests : SF_vars(Serve(r))

-----------------------------------------------------------------------------
(* Properties                                                              *)

Rows == [salon : Salons \cup {None}, number : Nat,
         status : Statuses \cup {"absent"},
         hairdresser : Hairdressers \cup {None}, ahead : Nat]
Txns == [pc : {"idle", "checked", "locked", "loaded", "updating", "flushed"},
         op : Ops \cup {"none"}, salon : Salons \cup {None},
         ticket : TicketIds \cup {None}, hairdresser : Hairdressers \cup {None},
         number : Nat, ahead : Nat]

(* The type invariant of the module's variables.                           *)
TypeOK ==
  /\ tickets \in [TicketIds -> Rows]
  /\ active \in [Salons -> SUBSET Hairdressers]
  /\ txn \in [Requests -> Txns]
  /\ audit \in [TicketIds -> Seq(Actions)]

(* A hairdresser serves at most one ticket at a time, whatever the salon   *)
(* and however the requests of two screens interleave: the promise of the  *)
(* index uq_queue_tickets_hairdresser_in_progress.                         *)
HairdresserExclusive ==
  \A t, u \in Issued :
    /\ tickets[t].status = "in_progress" /\ tickets[u].status = "in_progress"
    /\ tickets[t].hairdresser = tickets[u].hairdresser
    => t = u

(* The committed tickets of a salon and day bear the numbers 1 .. n, each  *)
(* once: no gap after a rolled back join, and uq_queue_tickets_salon_day_  *)
(* number never refuses a join (SqlQueueTicketRepository.create).          *)
NumbersDense ==
  \A s \in Salons :
    {tickets[t].number : t \in IssuedBy(s)} = 1 .. Cardinality(IssuedBy(s))

(* A ticket that becomes visible bears a higher number than every ticket   *)
(* of its salon that was visible before: the order of the numbers is the   *)
(* order in which the queue grew.                                          *)
NumbersGrow ==
  [][\A t, u \in TicketIds :
       /\ t \in Issued /\ u \notin Issued /\ u \in Issued'
       /\ tickets[t].salon = tickets'[u].salon
       => tickets[t].number < tickets'[u].number]_vars

(* The number of people ahead that the kiosk announces is never lower than *)
(* the number of earlier tickets still waiting, as long as the ticket      *)
(* waits: nobody is let in before a customer after the answer.             *)
AheadIsUpperBound ==
  \A t \in Issued :
    tickets[t].status = "waiting" =>
      Cardinality({u \in IssuedBy(tickets[t].salon) :
                     /\ tickets[u].status = "waiting"
                     /\ tickets[u].number < tickets[t].number}) <= tickets[t].ahead

(* The last audit line of a ticket tells its status, whatever races or     *)
(* rollbacks happened: rows and audit commit together.                     *)
AuditTellsStatus ==
  \A t \in Issued :
    tickets[t].status =
      IF audit[t] = <<>> THEN "waiting"
      ELSE CHOOSE st \in Statuses :
             \E op \in DOMAIN Target : /\ Target[op] = st
                                       /\ Logged[op] = Last(audit[t])

(* Nothing is recorded as served that nobody took in charge: a ticket in   *)
(* progress or done has a hairdresser, was started, and a done ticket was  *)
(* completed after its first start.                                        *)
ServedWasStarted ==
  \A t \in Issued :
    /\ tickets[t].status \in {"in_progress", "done"} => tickets[t].hairdresser # None
    /\ \A i \in DOMAIN audit[t] :
         audit[t][i] = "COMPLETED" => \E j \in 1 .. i - 1 : audit[t][j] = "STARTED"

(* Every request is answered: row locks, the advisory lock and the waits   *)
(* of the unique index make no request wait for ever.  Two starts that     *)
(* each hold the row whose index entry the other one needs do wait for     *)
(* each other; the database breaks that circle, and only such circles.     *)
RequestsReturn == \A r \in Requests : (txn[r].pc # "idle") ~> (txn[r].pc = "idle")

(* The committed rows implement the board of WalkInQueue.tla: number and   *)
(* appearance are one step in spite of the advisory lock's window, and a   *)
(* start is atomic with the hairdresser being free, in any salon.          *)
Board ==
  INSTANCE WalkInQueue WITH
    board <- [t \in TicketIds |-> [salon |-> tickets[t].salon,
                                   number |-> tickets[t].number,
                                   status |-> tickets[t].status,
                                   hairdresser |-> tickets[t].hairdresser]]
ImplementsBoard == Board!Spec

(* The closed state machine of domain/queue_ticket.py ("toute transition    *)
(* hors de cette table leve"): a claim of the sources that a race refutes, *)
(* since no request calls assert_transition and the UPDATE of a row is not *)
(* conditional on the status its transaction read.                         *)
Lifecycle ==
  INSTANCE TicketLifecycle WITH status <- [t \in TicketIds |-> tickets[t].status]
FollowsLifecycle == Lifecycle!Spec
=============================================================================
