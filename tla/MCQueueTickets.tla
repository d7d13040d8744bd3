---------------------------- MODULE MCQueueTickets ----------------------------
(* Instances of QueueTickets for TLC, with one history variable.           *)
EXTENDS QueueTickets, TLC

VARIABLE alone  \* request -> it has met no other request on its ticket

mcvars == <<vars, alone>>

Meets(r) == \E q \in Requests \ {r} :
              txn'[q].pc # "idle" /\ txn'[q].ticket = txn'[r].ticket

MCInit == Init /\ alone = [r \in Requests |-> TRUE]
MCNext == /\ Next
          /\ alone' = [r \in Requests |->
                         txn'[r].pc = "idle" \/ (alone[r] /\ ~Meets(r))]

MCSpec == MCInit /\ [][MCNext]_mcvars

(* The state machine of domain/queue_ticket.py at the pace of the requests *)
(* (none of them calls assert_transition): a status changes outside the    *)
(* table only by a request that met another one on the same ticket.        *)
LifecycleWhenAlone ==
  [][\A r \in Requests :
       alone[r] /\ txn[r].pc = "flushed" /\ tickets' # tickets /\ txn'[r].pc = "idle"
       => \A t \in TicketIds :
            tickets'[t].status # tickets[t].status
            => tickets'[t].status \in Lifecycle!AllowedTransitions[tickets[t].status]]_mcvars

(* Requests, ids and hairdressers are interchangeable.                     *)
Symmetry == Permutations(Requests) \cup Permutations(TicketIds)
              \cup Permutations(Hairdressers)
=============================================================================
