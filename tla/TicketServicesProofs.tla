------------------------- MODULE TicketServicesProofs -------------------------
(* Theorems of TicketServices, for any number of corrections and services. *)
EXTENDS MCTicketServices, TLAPS

(***************************************************************************)
(* Type correctness.                                                       *)
(***************************************************************************)

LEMMA IdleType == Idle \in Txns
  BY DEF Idle, Txns

(* The variables of the module have their types in every reachable state.  *)
THEOREM ServicesTypeOK == Spec => []TypeOK
<1>1. Init => TypeOK
  BY InitialAssumption, IdleType DEF Init, TypeOK
<1>2. TypeOK /\ [Next]_vars => TypeOK'
  <2> SUFFICES ASSUME TypeOK, [Next]_vars PROVE TypeOK'
    OBVIOUS
  <2> USE DEF TypeOK
  <2>1. ASSUME NEW r \in Requests, NEW wanted \in SUBSET Services, Check(r, wanted)
        PROVE TypeOK'
    BY <2>1 DEF Check, Txns, Idle
  <2>2. ASSUME NEW r \in Requests, Load(r) PROVE TypeOK'
    BY <2>2, IdleType DEF Load, Goto, Rollback, Txns
  <2>3. ASSUME NEW r \in Requests, Delete(r) PROVE TypeOK'
    BY <2>3 DEF Delete, Txns
  <2>4. ASSUME NEW r \in Requests, Unblock(r) PROVE TypeOK'
    BY <2>4 DEF Unblock, Goto, Txns
  <2>5. ASSUME NEW r \in Requests, Insert(r) PROVE TypeOK'
    <3>1. Free(r) \subseteq Services
      BY DEF Free, Left, Txns
    <3>2. ASSUME NEW s \in Free(r), Put(r, s) PROVE txn' \in [Requests -> Txns]
      BY <3>1, <3>2 DEF Put, Txns
    <3> QED
      BY <2>5, <3>2, IdleType DEF Insert, Rollback, Goto, Txns
  <2>6. ASSUME NEW r \in Requests, Commit(r) PROVE TypeOK'
    <3>1. \A q \in Requests : Trimmed(q, txn[r]) \in Txns
      BY DEF Trimmed, Txns
    <3>2. txn' \in [Requests -> Txns]
      BY <2>6, <3>1, IdleType DEF Commit
    <3> QED
      BY <2>6, <3>2 DEF Commit, Replaced, Txns
  <2>7. ASSUME NEW r \in Requests, Abort(r) PROVE TypeOK'
    BY <2>7, IdleType DEF Abort, Rollback
  <2>8. ASSUME NEW r \in Requests, BreakDeadlock(r) PROVE TypeOK'
    BY <2>8, IdleType DEF BreakDeadlock, Rollback
  <2>9. CASE StatusStep
    BY <2>9 DEF StatusStep
  <2>10. ASSUME NEW s \in Services, SetServiceActive(s) PROVE TypeOK'
    BY <2>10 DEF SetServiceActive
  <2>11. CASE UNCHANGED vars
    BY <2>11 DEF vars
  <2> QED
    BY <2>1, <2>2, <2>3, <2>4, <2>5, <2>6, <2>7, <2>8, <2>9, <2>10, <2>11 DEF Next, Serve
<1> QED
  BY <1>1, <1>2, PTL DEF Spec

-----------------------------------------------------------------------------
(***************************************************************************)
(* A correction that has passed its check asks for something, and until    *)
(* the first commit every DELETE works on the kiosk's services: what a     *)
(* commit adds is not empty, and nothing of the first choice survives it.  *)
(***************************************************************************)
Deleting == {"blocked", "deleted", "inserted"}

WantedOK    == \A r \in Requests : txn[r].pc # "idle" => txn[r].wanted # {}
FirstChoice == asked = {} =>
                 /\ junction = Initial
                 /\ \A r \in Requests : txn[r].pc \in Deleting => txn[r].rows = Initial

IInv == TypeOK /\ WantedOK /\ FirstChoice /\ NeverEmpty /\ OnlyAsked

LEMMA InitIInv == Init => IInv
  BY InitialAssumption, IdleType
  DEF Init, IInv, TypeOK, WantedOK, FirstChoice, NeverEmpty, OnlyAsked, Idle, Deleting

(* A step of one request that commits nothing.                             *)
LEMMA LocalStep ==
  ASSUME IInv, TypeOK', NEW r \in Requests, UNCHANGED <<junction, asked>>,
         \A q \in Requests \ {r} : txn'[q] = txn[q],
         txn'[r].pc # "idle" => txn'[r].wanted # {},
         txn'[r].pc \in Deleting =>
           \/ txn'[r].rows = junction
           \/ txn[r].pc \in Deleting /\ txn'[r].rows = txn[r].rows
  PROVE  IInv'
  BY DEF IInv, WantedOK, FirstChoice, NeverEmpty, OnlyAsked

LEMMA CommitStep ==
  ASSUME IInv, TypeOK', NEW r \in Requests, Commit(r)
  PROVE  IInv'
<1>1. /\ txn[r].pc = "inserted" /\ txn[r].wanted # {}
      /\ junction' = (junction \ txn[r].rows) \cup txn[r].wanted
      /\ asked' = asked \cup txn[r].wanted
  BY DEF Commit, Replaced, IInv, WantedOK
<1>2. WantedOK'
  BY DEF Commit, Trimmed, IInv, TypeOK, Txns, WantedOK, Idle
<1>3. FirstChoice' /\ NeverEmpty'
  BY <1>1 DEF FirstChoice, NeverEmpty
<1>4. OnlyAsked'
  <2>1. CASE asked = {}
    BY <1>1, <2>1 DEF IInv, FirstChoice, OnlyAsked, Deleting
  <2>2. CASE asked # {}
    BY <1>1, <2>2 DEF IInv, OnlyAsked
  <2> QED
    BY <2>1, <2>2
<1> QED
  BY <1>2, <1>3, <1>4 DEF IInv

LEMMA NextIInv ==
  ASSUME IInv, TypeOK', [Next]_vars
  PROVE  IInv'
<1> USE DEF IInv
<1>1. ASSUME NEW r \in Requests, NEW wanted \in SUBSET Services, Check(r, wanted)
      PROVE IInv'
  BY <1>1, LocalStep DEF Check, TypeOK, Idle, Deleting
<1>2. ASSUME NEW r \in Requests, Load(r) PROVE IInv'
  BY <1>2, LocalStep DEF Load, Goto, Rollback, TypeOK, Txns, WantedOK, Idle, Deleting
<1>3. ASSUME NEW r \in Requests, Delete(r) PROVE IInv'
  BY <1>3, LocalStep DEF Delete, TypeOK, Txns, WantedOK
<1>4. ASSUME NEW r \in Requests, Unblock(r) PROVE IInv'
  BY <1>4, LocalStep DEF Unblock, Goto, TypeOK, Txns, WantedOK, Deleting
<1>5. ASSUME NEW r \in Requests, Insert(r) PROVE IInv'
  <2>1. ASSUME NEW s \in Free(r), Put(r, s), UNCHANGED <<junction, asked>>,
               txn[r].pc = "deleted"
        PROVE  IInv'
    BY <2>1, LocalStep DEF Put, TypeOK, Txns, WantedOK, Deleting
  <2>2. ASSUME Rollback(r), UNCHANGED <<junction, asked>>
        PROVE  IInv'
    BY <2>2, LocalStep DEF Rollback, TypeOK, Idle, Deleting
  <2>3. ASSUME Goto(r, "inserted"), UNCHANGED <<junction, asked>>,
               txn[r].pc = "deleted"
        PROVE  IInv'
    BY <2>3, LocalStep DEF Goto, TypeOK, Txns, WantedOK, Deleting
  <2> QED
    BY <1>5, <2>1, <2>2, <2>3 DEF Insert
<1>6. ASSUME NEW r \in Requests, Commit(r) PROVE IInv'
  BY <1>6, CommitStep
<1>7. ASSUME NEW r \in Requests, Abort(r) PROVE IInv'
  BY <1>7, LocalStep DEF Abort, Rollback, TypeOK, Idle, Deleting
<1>8. ASSUME NEW r \in Requests, BreakDeadlock(r) PROVE IInv'
  BY <1>8, LocalStep DEF BreakDeadlock, Rollback, TypeOK, Idle, Deleting
<1>9. CASE UNCHANGED <<junction, asked, txn>>
  BY <1>9 DEF WantedOK, FirstChoice, NeverEmpty, OnlyAsked
<1> QED
  BY <1>1, <1>2, <1>3, <1>4, <1>5, <1>6, <1>7, <1>8, <1>9
  DEF Next, Serve, StatusStep, SetServiceActive, vars

LEMMA ServicesInvariant == Spec => []IInv
<1>1. Init => IInv
  BY InitIInv
<1>2. IInv /\ TypeOK' /\ [Next]_vars => IInv'
  BY NextIInv
<1> QED
  BY <1>1, <1>2, ServicesTypeOK, PTL DEF Spec

(* A ticket has a service whatever corrections cross.                      *)
THEOREM ServicesNeverEmpty == Spec => []NeverEmpty
  BY ServicesInvariant, PTL DEF IInv

(* After a correction nothing is left that only the kiosk asked for.       *)
THEOREM ServicesOnlyAsked == Spec => []OnlyAsked
  BY ServicesInvariant, PTL DEF IInv

-----------------------------------------------------------------------------
(***************************************************************************)
(* A correction that runs alone replaces the list.  What the DELETE of a   *)
(* correction does not see are services of corrections that overlap it.    *)
(***************************************************************************)
CrossInv ==
  \A r \in Requests : txn[r].pc # "idle" =>
    /\ \A q \in Requests \ {r} : txn[q].wanted \subseteq crossed[r]
    /\ txn[r].pc \in Deleting => junction \ txn[r].rows \subseteq crossed[r]

(* A service is committed by a commit, which ends no other correction.     *)
LEMMA JunctionStep ==
  ASSUME TypeOK, [Next]_vars
  PROVE  \/ /\ junction' = junction
            /\ \A r \in Requests : txn'[r].pc \in Deleting =>
                 \/ txn'[r].rows = junction
                 \/ txn[r].pc \in Deleting /\ txn'[r].rows = txn[r].rows
         \/ \E q \in Requests : Commit(q)
<1> DEFINE Goal == \A r \in Requests : txn'[r].pc \in Deleting =>
                     \/ txn'[r].rows = junction
                     \/ txn[r].pc \in Deleting /\ txn'[r].rows = txn[r].rows
<1> USE DEF TypeOK, Txns, Idle, Deleting, Goto, Rollback
<1>1. ASSUME NEW r \in Requests, NEW wanted \in SUBSET Services, Check(r, wanted)
      PROVE Goal
  BY <1>1 DEF Check
<1>2. ASSUME NEW r \in Requests, Load(r) PROVE Goal
  BY <1>2 DEF Load
<1>3. ASSUME NEW r \in Requests, Delete(r) PROVE Goal
  BY <1>3 DEF Delete
<1>4. ASSUME NEW r \in Requests, Unblock(r) PROVE Goal
  BY <1>4 DEF Unblock
<1>5. ASSUME NEW r \in Requests, Insert(r) PROVE Goal
  BY <1>5 DEF Insert, Put
<1>6. ASSUME NEW r \in Requests, Abort(r) \/ BreakDeadlock(r) PROVE Goal
  BY <1>6 DEF Abort, BreakDeadlock
<1>7. CASE UNCHANGED <<junction, txn>>
  BY <1>7
<1>8. QED
  BY <1>1, <1>2, <1>3, <1>4, <1>5, <1>6, <1>7
     DEF Next, Serve, StatusStep, SetServiceActive, vars,
         Check, Load, Delete, Unblock, Insert, Abort, BreakDeadlock

LEMMA CrossStep ==
  ASSUME TypeOK, CrossInv, [MCNext]_mcvars
  PROVE  CrossInv'
<1>1. CASE UNCHANGED mcvars
  BY <1>1 DEF mcvars, vars, CrossInv, Deleting
<1>2. CASE MCNext
  <2> SUFFICES ASSUME NEW r \in Requests, txn'[r].pc # "idle"
               PROVE  /\ \A q \in Requests \ {r} : txn'[q].wanted \subseteq crossed'[r]
                      /\ txn'[r].pc \in Deleting => junction' \ txn'[r].rows \subseteq crossed'[r]
    BY DEF CrossInv, Deleting
  <2>1. crossed'[r] = crossed[r] \cup Rivals(r)
    BY <1>2 DEF MCNext
  <2>2. \A q \in Requests \ {r} : txn'[q].wanted \subseteq crossed'[r]
    BY <2>1 DEF Rivals
  <2>3. txn'[r].pc \in Deleting => junction' \ txn'[r].rows \subseteq crossed'[r]
    <3>1. CASE \E q \in Requests : Commit(q)
      <4>1. PICK q \in Requests : Commit(q)
        BY <3>1
      <4>2. q # r /\ txn[r].pc = txn'[r].pc /\ txn'[r] = Trimmed(r, txn[q])
        BY <4>1 DEF Commit, Trimmed, TypeOK, Txns, Idle
      <4>3. junction' = (junction \ txn[q].rows) \cup txn[q].wanted
        BY <4>1 DEF Commit, Replaced
      <4>4. txn'[r].rows = txn[r].rows \/ txn'[r].rows = txn[r].rows \ txn[q].rows
        BY <4>2 DEF Trimmed, TypeOK, Txns
      <4>5. /\ txn[q].wanted \subseteq crossed[r]
            /\ txn[r].pc \in Deleting => junction \ txn[r].rows \subseteq crossed[r]
        BY <4>2 DEF CrossInv
      <4>6. QED
        BY <2>1, <4>2, <4>3, <4>4, <4>5
    <3>2. CASE ~\E q \in Requests : Commit(q)
      <4>1. /\ junction' = junction
            /\ txn'[r].pc \in Deleting =>
                 \/ txn'[r].rows = junction
                 \/ txn[r].pc \in Deleting /\ txn'[r].rows = txn[r].rows
        BY <1>2, <3>2, JunctionStep DEF MCNext
      <4>2. QED
        BY <2>1, <4>1 DEF CrossInv, Deleting
    <3>3. QED
      BY <3>1, <3>2
  <2>4. QED
    BY <2>2, <2>3
<1>3. QED
  BY <1>1, <1>2

(* update_services: a correction that commits leaves its own services and, *)
(* of others, only what overlapping corrections asked for.                 *)
THEOREM ServicesReplaced == MCSpec => ReplacedUnlessCrossed
<1> DEFINE Exact ==
      \A r \in Requests :
        txn[r].pc = "inserted" /\ txn'[r].pc = "idle" /\ junction' # junction
        => /\ txn[r].wanted \subseteq junction'
           /\ junction' \subseteq txn[r].wanted \cup crossed[r]
<1>1. MCInit => CrossInv
  BY DEF MCInit, Init, CrossInv, Idle
<1>2. MCInit => Init
  BY DEF MCInit
<1>3. [MCNext]_mcvars => [Next]_vars
  BY DEF MCNext, mcvars, vars
<1>4. TypeOK /\ CrossInv /\ [MCNext]_mcvars => CrossInv'
  BY CrossStep
<1>5. TypeOK /\ CrossInv /\ [MCNext]_mcvars => [Exact]_mcvars
  <2> SUFFICES ASSUME TypeOK, CrossInv, MCNext, NEW r \in Requests,
                      txn[r].pc = "inserted", txn'[r].pc = "idle", junction' # junction
               PROVE  /\ txn[r].wanted \subseteq junction'
                      /\ junction' \subseteq txn[r].wanted \cup crossed[r]
    OBVIOUS
  <2>1. PICK q \in Requests : Commit(q)
    BY JunctionStep DEF MCNext
  <2>2. q = r
    BY <2>1 DEF Commit, Trimmed, TypeOK, Txns
  <2>3. junction' = (junction \ txn[r].rows) \cup txn[r].wanted
    BY <2>1, <2>2 DEF Commit, Replaced
  <2>4. junction \ txn[r].rows \subseteq crossed[r]
    BY DEF CrossInv, Deleting
  <2>5. QED
    BY <2>3, <2>4
<1>6. MCSpec => MCInit /\ [][MCNext]_mcvars
  BY PTL DEF MCSpec
<1>7. QED
  BY <1>1, <1>2, <1>3, <1>4, <1>5, <1>6, ServicesTypeOK, PTL DEF Spec, ReplacedUnlessCrossed
=============================================================================
