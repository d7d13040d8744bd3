--------------------------- MODULE MCTicketServices ---------------------------
(* Instances of TicketServices for TLC, with one history variable.         *)
EXTENDS TicketServices

VARIABLE crossed  \* request -> services of the corrections that overlapped it

mcvars == <<vars, crossed>>

(* A rival of r is in the middle of its own correction, or commits one.    *)
Rivals(r) == UNION {txn'[q].wanted : q \in Requests \ {r}}

MCInit == Init /\ crossed = [r \in Requests |-> {}]
MCNext == /\ Next
          /\ crossed' = [r \in Requests |->
               IF txn'[r].pc = "idle" THEN {} ELSE crossed[r] \cup Rivals(r)]

MCSpec == MCInit /\ [][MCNext]_mcvars /\ \A r \in Requests : SF_vars(Serve(r))

(* SqlQueueTicketRepository.update_services: the junction is "integralement*)
(* remplacee".  A committed correction leaves its own services and, at     *)
(* most, services of the corrections that overlapped it: one that runs     *)
(* alone replaces the list exactly.                                        *)
ReplacedUnlessCrossed ==
  [][\A r \in Requests :
       txn[r].pc = "inserted" /\ txn'[r].pc = "idle" /\ junction' # junction
       => /\ txn[r].wanted \subseteq junction'
          /\ junction' \subseteq txn[r].wanted \cup crossed[r]]_mcvars
=============================================================================
