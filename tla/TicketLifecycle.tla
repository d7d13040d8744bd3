--------------------------- MODULE TicketLifecycle ---------------------------
(***************************************************************************)
(* The closed state machine of a walk-in ticket that                       *)
(* domain/queue_ticket.py declares: what the queue promises of a ticket's  *)
(* status, whoever asks for the change.                                    *)
(***************************************************************************)
CONSTANT TicketIds
VARIABLE status  \* ticket -> status; "absent" before the ticket is issued

AllowedTransitions ==
  [absent      |-> {"waiting"},
   waiting     |-> {"called", "in_progress", "expired"},
   called      |-> {"in_progress", "expired"},
   in_progress |-> {"done"},
   done        |-> {},
   expired     |-> {}]

Init == status = [t \in TicketIds |-> "absent"]

Step(t) == \E target \in AllowedTransitions[status[t]] :
             status' = [status EXCEPT ![t] = target]

Next == \E t \in TicketIds : Step(t)

Spec == Init /\ [][Next]_status
=============================================================================
