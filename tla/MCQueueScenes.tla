---------------------------- MODULE MCQueueScenes -----------------------------
(* Two instances of QueueTickets for TLC in one run.  "salons": two        *)
(* requests do everything in two salons that share a hairdresser.  "rush": *)
(* a salon lets its tickets in one after the other, then three requests    *)
(* start them with two hairdressers, in every interleaving: the smallest   *)
(* instance in which the waits of the unique index close a circle.         *)
EXTENDS QueueTickets

CONSTANTS
  Pair,    \* the requests of the first scene
  Shared,  \* its hairdresser
  Home     \* the salon of the second scene

VARIABLE scene

scvars == <<vars, scene>>

OneByOne(r) == \A q \in Requests \ {r} : txn[q].pc = "idle"

InSalons ==
  /\ scene = "salons"
  /\ \E r \in Pair : Receive(r) /\ txn'[r].hairdresser \in {Shared, None}

InRush ==
  /\ scene = "rush"
  /\ \E r \in Requests :
       \/ OneByOne(r) /\ JoinBegin(r, Home)
       \/ /\ Issued = TicketIds
          /\ \E t \in TicketIds, h \in Hairdressers : StartCheck(r, t, h)

SceneInit == Init /\ scene \in {"salons", "rush"}
SceneNext ==
  /\ InSalons \/ InRush \/ \E r \in Requests : Serve(r) \/ Abort(r)
  /\ UNCHANGED scene

SceneSpec ==
  SceneInit /\ [][SceneNext]_scvars /\ \A r \in Requests : SF_vars(Serve(r))
=============================================================================
