---------------------------- MODULE TicketServices ----------------------------
(***************************************************************************)
(* UpdateQueueTicketServices: the correction of the services of ONE        *)
(* ticket (tickets do not share rows of the junction table).               *)
(*                                                                         *)
(* The use case never writes the row of the ticket, so no row lock orders  *)
(* it with StartQueueTicket; two corrections meet only on the rows of      *)
(* queue_ticket_services.  A DELETE works on the rows of its snapshot: one *)
(* that waits for another transaction's DELETE finds its rows gone when    *)
(* that transaction commits and does not see the rows it inserted          *)
(* (READ COMMITTED).  The other operations on the ticket appear as their   *)
(* committed effect on its status.                                         *)
(***************************************************************************)
EXTENDS FiniteSets

CONSTANTS
  Requests,  \* corrections that may run at once
  Services,  \* the salon's services
  Initial    \* services asked for at the kiosk

ASSUME InitialAssumption == Initial \subseteq Services /\ Initial # {}

VARIABLES
  status,    \* of the ticket
  junction,  \* services of the committed rows of queue_ticket_services
  catalogue, \* active services
  txn,       \* request -> program counter and local values
  asked      \* services of the corrections committed so far (for properties)

vars == <<status, junction, catalogue, txn, asked>>

Idle == [pc |-> "idle", wanted |-> {}, rows |-> {}, put |-> {}]

Init ==
  /\ status = "waiting"
  /\ junction = Initial
  /\ catalogue = Services
  /\ txn = [r \in Requests |-> Idle]
  /\ asked = {}

Goto(r, pc) == txn' = [txn EXCEPT ![r].pc = pc]
Rollback(r) == txn' = [txn EXCEPT ![r] = Idle]

Editable == status = "waiting"

CheckUnvalidated(r, wanted) ==                                      \* mutant
  /\ txn[r].pc = "idle"
  /\ Editable
  /\ wanted \subseteq catalogue
  /\ txn' = [txn EXCEPT ![r] = [Idle EXCEPT !.pc = "checked", !.wanted = wanted]]
  /\ UNCHANGED <<status, junction, catalogue, asked>>

(* validate_service_ids, the pre-check of the status, then every service   *)
(* is active in the catalogue.                                             *)
Check(r, wanted) ==
  /\ txn[r].pc = "idle"
  /\ wanted # {}
  /\ Editable
  /\ wanted \subseteq catalogue
  /\ txn' = [txn EXCEPT ![r] = [Idle EXCEPT !.pc = "checked", !.wanted = wanted]]
  /\ UNCHANGED <<status, junction, catalogue, asked>>

(* The conditional SELECT of the repository.                               *)
Load(r) ==
  /\ txn[r].pc = "checked"
  /\ \/ Editable /\ Goto(r, "loaded")
     \/ ~Editable /\ Rollback(r)
  /\ UNCHANGED <<status, junction, catalogue, asked>>

(* Rows that the running transaction of q has deleted, and the keys it has *)
(* inserted; their other writers wait for its end.                         *)
DeletedBy(q) == IF txn[q].pc \in {"deleted", "inserted"} THEN txn[q].rows ELSE {}
DeletedByOthers(r)  == UNION {DeletedBy(q) : q \in Requests \ {r}}
InsertedByOthers(r) == UNION {txn[q].put : q \in Requests \ {r}}

(* The DELETE takes its snapshot and stops at the first row another        *)
(* transaction has deleted.                                                *)
Delete(r) ==
  /\ txn[r].pc = "loaded"
  /\ txn' = [txn EXCEPT
       ![r].rows = junction,
       ![r].pc = IF junction \cap DeletedByOthers(r) = {} THEN "deleted" ELSE "blocked"]
  /\ UNCHANGED <<status, junction, catalogue, asked>>

(* It goes on with what is left of its snapshot.                           *)
Unblock(r) ==
  /\ txn[r].pc = "blocked"
  /\ txn[r].rows \cap DeletedByOthers(r) = {}
  /\ Goto(r, "deleted")
  /\ UNCHANGED <<status, junction, catalogue, asked>>

(* The INSERTs, row by row: each waits for a transaction that is inserting *)
(* or deleting its key, and fails (500) on a committed duplicate.          *)
Visible(r) == junction \ txn[r].rows
Left(r)    == txn[r].wanted \ txn[r].put
Free(r)    == Left(r) \ (Visible(r) \cup InsertedByOthers(r))

Put(r, s) == txn' = [txn EXCEPT ![r].put = @ \cup {s}]

InsertWaitsForDuplicate(r) ==                                       \* mutant
  /\ txn[r].pc = "deleted"
  /\ \/ \E s \in Free(r) : Put(r, s)
     \/ Left(r) = {} /\ Goto(r, "inserted")
  /\ UNCHANGED <<status, junction, catalogue, asked>>

Insert(r) ==
  /\ txn[r].pc = "deleted"
  /\ \/ \E s \in Free(r) : Put(r, s)
     \/ Left(r) = {} /\ Goto(r, "inserted")
     \/ /\ Left(r) \cap (Visible(r) \ DeletedByOthers(r)) # {}
        /\ Rollback(r)
  /\ UNCHANGED <<status, junction, catalogue, asked>>

(* PostgreSQL looks for a circle of transactions that wait for each other  *)
(* and rolls one of them back.                                             *)
WaitsFor(r) ==
  {q \in Requests \ {r} :
     \/ txn[r].pc = "blocked" /\ txn[r].rows \cap DeletedBy(q) # {}
     \/ /\ txn[r].pc = "deleted"
        /\ Left(r) \cap (txn[q].put \cup (Visible(r) \cap DeletedBy(q))) # {}}

BreakDeadlock(r) ==
  /\ \E circle \in SUBSET Requests :
       r \in circle /\ \A q \in circle : WaitsFor(q) \cap circle # {}
  /\ Rollback(r)
  /\ UNCHANGED <<status, junction, catalogue, asked>>

(* What the commit of x leaves, and what it takes from the snapshots of    *)
(* the DELETEs that wait for it.                                           *)
KeepsDeleted(x) == junction \cup x.wanted                           \* mutant
Replaced(x) == (junction \ x.rows) \cup x.wanted

Trimmed(q, x) ==
  IF txn[q].pc = "blocked" THEN [txn[q] EXCEPT !.rows = @ \ x.rows] ELSE txn[q]

Commit(r) ==
  LET x == txn[r]
  IN /\ x.pc = "inserted"
     /\ junction' = Replaced(x)
     /\ asked' = asked \cup x.wanted
     /\ txn' = [q \in Requests |-> IF q = r THEN Idle ELSE Trimmed(q, x)]
     /\ UNCHANGED <<status, catalogue>>

Abort(r) ==
  /\ txn[r].pc # "idle"
  /\ Rollback(r)
  /\ UNCHANGED <<status, junction, catalogue, asked>>

(* Start, cancellation and completion of the ticket by other requests.     *)
StatusStep ==
  /\ \/ status = "waiting" /\ status' \in {"in_progress", "expired"}
     \/ status = "in_progress" /\ status' = "done"
  /\ UNCHANGED <<junction, catalogue, txn, asked>>

(* DeactivateService, ReactivateService.                                   *)
SetServiceActive(s) ==
  /\ catalogue' = IF s \in catalogue THEN catalogue \ {s} ELSE catalogue \cup {s}
  /\ UNCHANGED <<status, junction, txn, asked>>

Serve(r) == Load(r) \/ Delete(r) \/ Unblock(r) \/ Insert(r)
            \/ BreakDeadlock(r) \/ Commit(r)

Next ==
  \/ \E r \in Requests : \/ \E wanted \in SUBSET Services : Check(r, wanted)
                         \/ Serve(r)
                         \/ Abort(r)
  \/ StatusStep
  \/ \E s \in Services : SetServiceActive(s)

Spec == Init /\ [][Next]_vars

(* A thread that can execute its next statement does; PostgreSQL queues    *)
(* those that wait for a row.                                              *)
FairSpec == Spec /\ \A r \in Requests : SF_vars(Serve(r))

-----------------------------------------------------------------------------
(* Properties                                                              *)

Txns == [pc : {"idle", "checked", "loaded", "blocked", "deleted", "inserted"},
         wanted : SUBSET Services, rows : SUBSET Services, put : SUBSET Services]

(* The type invariant of the module's variables.                           *)
TypeOK ==
  /\ status \in {"waiting", "in_progress", "done", "expired"}
  /\ junction \in SUBSET Services /\ catalogue \in SUBSET Services
  /\ txn \in [Requests -> Txns] /\ asked \in SUBSET Services

(* A ticket always has a service, whatever corrections cross: the DELETE   *)
(* and the INSERT of a correction are never seen apart.                    *)
NeverEmpty == junction # {}

(* Once a correction is committed nothing is left of what the kiosk asked  *)
(* for, unless a correction asked for it too: crossing corrections may     *)
(* add up, they do not resurrect the first choice.                         *)
OnlyAsked == asked # {} => junction \subseteq asked

(* Corrections never wait for one another for ever: the circles of their   *)
(* INSERTs are broken, and no DELETE waits for a row that stays.           *)
CorrectionsReturn == \A r \in Requests : (txn[r].pc # "idle") ~> (txn[r].pc = "idle")
=============================================================================
