----------------------- MODULE TerminalActivationProofs -----------------------
(***************************************************************************)
(* Proofs about TerminalActivation, for every number of requests, kiosks   *)
(* and secrets: provisioning, crossing activations, revocation, failed     *)
(* commits and restarts of the process included.                           *)
(***************************************************************************)
EXTENDS MCTerminalActivation, TLAPS, FiniteSetTheorems

Statuses == {"absent", "ACTIVE", "SUSPENDED"}
Txns == [pc : {"idle", "inserted", "found", "verified", "consumed", "stored", "flushed",
               "answered"},
         op : {"none", "provision", "activate", "revoke"},
         device : Devices \cup {None}, secret : Nat, wrote : BOOLEAN]

(* What a request holds, by program counter.                               *)
Shape(x) ==
  /\ x.pc = "idle" => x = Idle
  /\ x.pc # "idle" => x.device \in Devices /\ x.op # "none"
  /\ x.pc = "inserted" => x.op = "provision"
  /\ x.pc \in {"found", "verified", "consumed", "stored"} => x.op = "activate"
  /\ x.op = "provision" => x.pc \in {"inserted", "flushed", "answered"}

TypeOK ==
  /\ rows \in [Devices -> [status : Statuses, secret : Nat]]
  /\ challenges \in [Devices -> [consumed : BOOLEAN, expires : Nat]]
  /\ stored \in SUBSET Devices
  /\ txn \in [Requests -> Txns]
  /\ told \in SUBSET Devices
  /\ given \in [Devices -> SUBSET Nat]
  /\ drawn \in Nat /\ now \in Nat
  /\ lost \in SUBSET Devices /\ missed \in SUBSET Devices
  /\ \A r \in Requests : Shape(txn[r])

(* A device that is being provisioned has no account yet, and no other     *)
(* request knows it until its code is told.                                *)
Provisioning(r) == txn[r].op = "provision"
OwnDevice ==
  /\ \A d \in told : challenges[d] # NoChallenge
  /\ \A r \in Requests : Provisioning(r) =>
       /\ rows[txn[r].device].status = "absent"
       /\ \A q \in Requests \ {r} : txn[q].device = txn[r].device =>
            txn[q].op = "activate" /\ txn[r].pc = "answered"
       /\ txn[r].pc # "answered" => txn[r].device \notin told
       /\ txn[r].pc # "inserted" => challenges[txn[r].device] # NoChallenge
       /\ txn[r].pc = "flushed" => txn[r].device \in stored

(* A challenge is consumed by whoever was told the code; no secret is      *)
(* drawn, and none is given, before it is consumed.                        *)
ToldFirst ==
  /\ \A d \in Devices : challenges[d].consumed => d \in told
  /\ \A r \in Requests : txn[r].op = "activate" => txn[r].device \in told
  /\ \A d \in Devices : ~challenges[d].consumed =>
       given[d] = {} /\ \A r \in Requests : ~Holds(r, d)

(* An activation has written its secret in an account, or has missed it.   *)
SecretKept ==
  \A r \in Requests : txn[r].op = "activate" =>
    /\ txn[r].wrote => rows[txn[r].device].status # "absent"
    /\ txn[r].pc \in {"stored", "flushed", "answered"} =>
         txn[r].wrote \/ txn[r].device \in missed
    /\ txn[r].pc = "answered" => txn[r].secret \in given[txn[r].device]

(* A challenge leaves the repository only consumed, or with a failure; a   *)
(* consumed one has an activation that will end it, or has been of use.    *)
Reachable ==
  \A d \in told \ (lost \cup missed) :
    /\ d \in stored \/ challenges[d].consumed
    /\ challenges[d].consumed /\ rows[d].status # "SUSPENDED" =>
         (\E r \in Requests : Holds(r, d)) \/ Working(d)

IInv == TypeOK /\ OwnDevice /\ ToldFirst /\ SecretKept /\ Reachable

(* Of a device with no rivals: one request at most is between comparison   *)
(* and mark, its challenge is not consumed, and one secret is drawn.       *)
Issued(d) == given[d] \cup {txn[r].secret : r \in {q \in Requests : Holds(q, d)}}
OneSecret ==
  \A d \in Devices \ rivals :
    /\ \A q, r \in Verified(d) : q = r
    /\ Verified(d) # {} => ~challenges[d].consumed
    /\ \A a, b \in Issued(d) : a = b

-----------------------------------------------------------------------------
(***************************************************************************)
(* Type correctness.                                                       *)
(***************************************************************************)

LEMMA IdleType == Idle \in Txns /\ Shape(Idle)
  BY DEF Idle, Txns, Shape

(* The request r goes on at pc and leaves the others alone.                *)
LEMMA GotoType ==
  ASSUME TypeOK, NEW r \in Requests, NEW pc, Goto(r, pc),
         \/ pc = "flushed"
         \/ pc = "answered" /\ txn[r].pc = "flushed"
         \/ pc \in {"found", "verified", "consumed", "stored"} /\ txn[r].op = "activate",
         txn[r].pc # "idle",
         txn[r].op = "provision" => pc \in {"flushed", "answered"}
  PROVE  txn' \in [Requests -> Txns] /\ \A q \in Requests : Shape(txn'[q])
<1>1. txn' \in [Requests -> Txns]
  <2>1. [txn[r] EXCEPT !.pc = pc] \in Txns
    BY DEF TypeOK, Txns
  <2> QED
    BY <2>1 DEF Goto, TypeOK
<1>2. /\ txn'[r].pc = pc /\ txn'[r].op = txn[r].op /\ txn'[r].device = txn[r].device
      /\ \A q \in Requests \ {r} : txn'[q] = txn[q]
  BY DEF Goto, TypeOK, Txns
<1>3. \A q \in Requests : Shape(txn'[q])
  BY <1>2 DEF TypeOK, Shape
<1> QED
  BY <1>1, <1>3

LEMMA StartType ==
  ASSUME TypeOK, NEW r \in Requests, NEW x \in Txns, Shape(x),
         txn' = [txn EXCEPT ![r] = x]
  PROVE  txn' \in [Requests -> Txns] /\ \A q \in Requests : Shape(txn'[q])
  BY DEF TypeOK

LEMMA TypeStep == TypeOK /\ [Next]_vars => TypeOK'
<1> SUFFICES ASSUME TypeOK, [Next]_vars PROVE TypeOK'
  OBVIOUS
<1> USE DEF TypeOK
<1>1. ASSUME NEW r \in Requests, NEW d \in Devices, Provision(r, d) PROVE TypeOK'
  <2> DEFINE x == [Idle EXCEPT !.pc = "inserted", !.op = "provision", !.device = d,
                           !.wrote = TRUE]
  <2>1. x \in Txns /\ Shape(x)
    BY DEF Txns, Shape, Idle
  <2> QED
    BY <1>1, <2>1, StartType DEF Provision
<1>2. ASSUME NEW r \in Requests, NEW d \in Devices, Find(r, d) PROVE TypeOK'
  <2> DEFINE x == [Idle EXCEPT !.pc = "found", !.op = "activate", !.device = d]
  <2>1. x \in Txns /\ Shape(x)
    BY DEF Txns, Shape, Idle
  <2> QED
    BY <1>2, <2>1, StartType DEF Find
<1>3. ASSUME NEW r \in Requests, NEW d \in Devices, Revoke(r, d) PROVE TypeOK'
  <2> DEFINE x == [Idle EXCEPT !.pc = "flushed", !.op = "revoke", !.device = d,
                           !.wrote = TRUE]
  <2>1. x \in Txns /\ Shape(x)
    BY DEF Txns, Shape, Idle
  <2> QED
    BY <1>3, <2>1, StartType DEF Revoke
<1>4. ASSUME NEW r \in Requests, SaveChallenge(r) PROVE TypeOK'
  <2>1. txn[r].device \in Devices /\ now + Ttl \in Nat
    BY <1>4, NumbersAssumption DEF SaveChallenge, Shape
  <2>2. txn' \in [Requests -> Txns] /\ \A q \in Requests : Shape(txn'[q])
    BY <1>4, GotoType DEF SaveChallenge
  <2>3. challenges' \in [Devices -> [consumed : BOOLEAN, expires : Nat]]
    BY <1>4, <2>1 DEF SaveChallenge
  <2> QED
    BY <1>4, <2>1, <2>2, <2>3 DEF SaveChallenge
<1>5. ASSUME NEW r \in Requests, Verify(r) PROVE TypeOK'
  <2>1. txn[r].op = "activate"
    BY <1>5 DEF Verify, Shape
  <2> QED
    BY <1>5, <2>1, GotoType DEF Verify
<1>6. ASSUME NEW r \in Requests, Refuse(r) PROVE TypeOK'
  BY <1>6, IdleType, StartType DEF Refuse, End, Shape
<1>7. ASSUME NEW r \in Requests, Consume(r) PROVE TypeOK'
  <2>1. challenges' \in [Devices -> [consumed : BOOLEAN, expires : Nat]]
    BY <1>7 DEF Consume
  <2>2. txn' \in [Requests -> Txns]
    <3>1. \A x \in Txns, n \in Nat : [x EXCEPT !.pc = "consumed", !.secret = n] \in Txns
      BY DEF Txns
    <3>2. txn' = [txn EXCEPT ![r] = [txn[r] EXCEPT !.pc = "consumed", !.secret = drawn + 1]]
      BY <1>7 DEF Consume
    <3>3. drawn + 1 \in Nat /\ txn[r] \in Txns
      OBVIOUS
    <3> QED
      BY <3>1, <3>2, <3>3
  <2>3. /\ txn'[r].pc = "consumed" /\ txn'[r].op = txn[r].op
        /\ txn'[r].device = txn[r].device
        /\ \A q \in Requests \ {r} : txn'[q] = txn[q]
    BY <1>7 DEF Consume, Txns
  <2>4. \A q \in Requests : Shape(txn'[q])
    BY <1>7, <2>3 DEF Consume, Shape
  <2> QED
    BY <1>7, <2>1, <2>2, <2>4 DEF Consume
<1>8. ASSUME NEW r \in Requests, StoreHash(r) PROVE TypeOK'
  <2>1. txn[r].op = "activate" /\ txn[r].device \in Devices
    BY <1>8 DEF StoreHash, Shape
  <2>2. PICK w \in BOOLEAN : txn' = [txn EXCEPT ![r].pc = "stored", ![r].wrote = w]
    BY <1>8 DEF StoreHash
  <2>3. txn' \in [Requests -> Txns]
    <3>1. [txn[r] EXCEPT !.pc = "stored", !.wrote = w] \in Txns
      BY DEF Txns
    <3> QED
      BY <2>2, <3>1
  <2>4. /\ txn'[r].pc = "stored" /\ txn'[r].op = "activate" /\ txn'[r].device = txn[r].device
        /\ \A q \in Requests \ {r} : txn'[q] = txn[q]
    BY <2>1, <2>2 DEF Txns
  <2>5. \A q \in Requests : Shape(txn'[q])
    BY <2>1, <2>4 DEF Shape
  <2> QED
    BY <1>8, <2>1, <2>3, <2>5 DEF StoreHash
<1>9. ASSUME NEW r \in Requests, DeleteChallenge(r) PROVE TypeOK'
  BY <1>9, GotoType DEF DeleteChallenge
<1>10. ASSUME NEW r \in Requests, txn[r].pc = "flushed", Answer(txn[r])
       PROVE told' \in SUBSET Devices /\ given' \in [Devices -> SUBSET Nat]
  BY <1>10 DEF Answer, Shape, Txns
<1>11. ASSUME NEW r \in Requests, Commit(r) PROVE TypeOK'
  <2>1. \A row \in [status : Statuses, secret : Nat] :
          Committed(txn[r], row) \in [status : Statuses, secret : Nat]
    BY <1>11 DEF Commit, Committed, Shape, Txns, Statuses
  <2>2. rows' \in [Devices -> [status : Statuses, secret : Nat]]
    BY <1>11, <2>1 DEF Commit, Shape
  <2> QED
    BY <1>10, <1>11, <2>2, IdleType, StartType DEF Commit, End
<1>12. ASSUME NEW r \in Requests, LoseAnswer(r) PROVE TypeOK'
  <2>1. \A row \in [status : Statuses, secret : Nat] :
          Committed(txn[r], row) \in [status : Statuses, secret : Nat]
    BY <1>12 DEF LoseAnswer, Committed, Shape, Txns, Statuses
  <2>2. rows' \in [Devices -> [status : Statuses, secret : Nat]]
    BY <1>12, <2>1 DEF LoseAnswer, Shape
  <2> QED
    BY <1>12, <2>2, IdleType, StartType DEF LoseAnswer, Deprived, End
<1>13. ASSUME NEW r \in Requests, Abort(r) PROVE TypeOK'
  BY <1>13, IdleType, StartType DEF Abort, Deprived, End
<1>14. ASSUME NEW r \in Requests, Respond(r) PROVE TypeOK'
  BY <1>10, <1>14, GotoType DEF Respond
<1>15. CASE Restart
  BY <1>15, IdleType DEF Restart, Deprived
<1>16. CASE Tick
  BY <1>16 DEF Tick
<1>17. CASE UNCHANGED vars
  BY <1>17 DEF vars
<1> QED
  BY <1>1, <1>2, <1>3, <1>4, <1>5, <1>6, <1>7, <1>8, <1>9, <1>11, <1>12, <1>13, <1>14,
     <1>15, <1>16, <1>17 DEF Next, Serve

(* Every variable of the credential's life keeps its type, and a request   *)
(* holds at each of its steps what that step of the code relies on.        *)
THEOREM ActivationTypeOK == Spec => []TypeOK
<1>1. Init => TypeOK
  BY IdleType DEF Init, TypeOK, NoRow, NoChallenge, Statuses
<1> QED
  BY <1>1, TypeStep, PTL DEF Spec

-----------------------------------------------------------------------------
(***************************************************************************)
(* The invariant behind the safety of activation.                          *)
(***************************************************************************)

LEMMA OwnDeviceStep == IInv /\ [Next]_vars => OwnDevice'
<1> SUFFICES ASSUME IInv, [Next]_vars PROVE OwnDevice'
  OBVIOUS
<1> USE NoneAssumption DEF IInv, TypeOK, OwnDevice, Provisioning, NoChallenge
<1>1. ASSUME NEW r \in Requests, NEW d \in Devices, Provision(r, d) PROVE OwnDevice'
  <2>1. /\ txn[r].pc = "idle" /\ rows[d].status = "absent"
        /\ challenges[d] = NoChallenge /\ \A q \in Requests : txn[q].device # d
        /\ UNCHANGED <<rows, challenges, stored, told>>
    BY <1>1 DEF Provision
  <2>2. /\ txn'[r].op = "provision" /\ txn'[r].device = d /\ txn'[r].pc = "inserted"
        /\ \A q \in Requests \ {r} : txn'[q] = txn[q]
    BY <1>1 DEF Provision, Idle, Txns
  <2>3. d \notin told
    BY <2>1
  <2> DEFINE Own(q) ==
        /\ rows[txn[q].device].status = "absent"
        /\ \A p \in Requests \ {q} : txn[p].device = txn[q].device =>
             txn[p].op = "activate" /\ txn[q].pc = "answered"
        /\ txn[q].pc # "answered" => txn[q].device \notin told
        /\ txn[q].pc # "inserted" => challenges[txn[q].device] # NoChallenge
        /\ txn[q].pc = "flushed" => txn[q].device \in stored
  <2>4. Own(r)'
    BY <2>1, <2>2, <2>3
  <2>5. ASSUME NEW q \in Requests \ {r}, Provisioning(q)' PROVE Own(q)'
    <3>1. txn'[q] = txn[q] /\ txn[q].device # d /\ Own(q)
      BY <2>1, <2>2, <2>5
    <3> QED
      BY <2>1, <2>2, <3>1
  <2>6. \A q \in Requests : Provisioning(q)' => Own(q)'
    BY <2>4, <2>5
  <2>7. \A e \in told' : challenges'[e] # NoChallenge
    BY <2>1
  <2> QED
    BY <2>6, <2>7
<1>2. ASSUME NEW r \in Requests, NEW d \in Devices, Find(r, d) PROVE OwnDevice'
  BY <1>2 DEF Find, Idle, Txns, ToldFirst
<1>3. ASSUME NEW r \in Requests, NEW d \in Devices, Revoke(r, d) PROVE OwnDevice'
  BY <1>3 DEF Revoke, Idle, Txns
<1>4. ASSUME NEW r \in Requests, SaveChallenge(r) PROVE OwnDevice'
  BY <1>4, NumbersAssumption DEF SaveChallenge, Goto, Txns, Shape, ToldFirst
<1>5. ASSUME NEW r \in Requests, Verify(r) PROVE OwnDevice'
  BY <1>5 DEF Verify, Goto, Txns
<1>6. ASSUME NEW r \in Requests, Refuse(r) PROVE OwnDevice'
  BY <1>6 DEF Refuse, End, Idle, Txns, Shape
<1>7. ASSUME NEW r \in Requests, Consume(r) PROVE OwnDevice'
  BY <1>7 DEF Consume, Txns, Shape
<1>8. ASSUME NEW r \in Requests, StoreHash(r) PROVE OwnDevice'
  BY <1>8 DEF StoreHash, Txns, Shape
<1>9. ASSUME NEW r \in Requests, DeleteChallenge(r) PROVE OwnDevice'
  BY <1>9 DEF DeleteChallenge, Goto, Txns, Shape
<1>10. ASSUME NEW r \in Requests, Respond(r) PROVE OwnDevice'
  BY <1>10 DEF Respond, Answer, Goto, Txns, Shape
<1>11. ASSUME NEW r \in Requests, Commit(r) PROVE OwnDevice'
  BY <1>11 DEF Commit, Committed, Answer, End, Idle, Txns, Shape
<1>12. ASSUME NEW r \in Requests, LoseAnswer(r) PROVE OwnDevice'
  BY <1>12 DEF LoseAnswer, Committed, Deprived, End, Idle, Txns, Shape
<1>13. ASSUME NEW r \in Requests, Abort(r) PROVE OwnDevice'
  BY <1>13 DEF Abort, Deprived, End, Idle, Txns, Shape
<1>14. CASE Restart
  BY <1>14 DEF Restart, Idle, Deprived
<1>15. CASE Tick
  BY <1>15 DEF Tick
<1>16. CASE UNCHANGED vars
  BY <1>16 DEF vars
<1> QED
  BY <1>1, <1>2, <1>3, <1>4, <1>5, <1>6, <1>7, <1>8, <1>9, <1>10, <1>11, <1>12, <1>13,
     <1>14, <1>15, <1>16 DEF Next, Serve

LEMMA ToldFirstStep == IInv /\ [Next]_vars => ToldFirst'
<1> SUFFICES ASSUME IInv, [Next]_vars PROVE ToldFirst'
  OBVIOUS
<1> USE NoneAssumption DEF IInv, TypeOK, ToldFirst, Holds
<1>1. ASSUME NEW r \in Requests, NEW d \in Devices, Provision(r, d) PROVE ToldFirst'
  BY <1>1 DEF Provision, Idle, Txns
<1>2. ASSUME NEW r \in Requests, NEW d \in Devices, Find(r, d) PROVE ToldFirst'
  BY <1>2 DEF Find, Idle, Txns
<1>3. ASSUME NEW r \in Requests, NEW d \in Devices, Revoke(r, d) PROVE ToldFirst'
  BY <1>3 DEF Revoke, Idle, Txns
<1>4. ASSUME NEW r \in Requests, SaveChallenge(r) PROVE ToldFirst'
  BY <1>4 DEF SaveChallenge, Goto, Txns, Shape, OwnDevice, Provisioning
<1>5. ASSUME NEW r \in Requests, Verify(r) PROVE ToldFirst'
  BY <1>5 DEF Verify, Goto, Txns
<1>6. ASSUME NEW r \in Requests, Refuse(r) PROVE ToldFirst'
  BY <1>6 DEF Refuse, End, Idle, Txns, Shape
<1>7. ASSUME NEW r \in Requests, Consume(r) PROVE ToldFirst'
  BY <1>7 DEF Consume, Txns, Shape
<1>8. ASSUME NEW r \in Requests, StoreHash(r) PROVE ToldFirst'
  BY <1>8 DEF StoreHash, Txns, Shape
<1>9. ASSUME NEW r \in Requests, DeleteChallenge(r) PROVE ToldFirst'
  BY <1>9 DEF DeleteChallenge, Goto, Txns, Shape
<1>10. ASSUME NEW r \in Requests, Respond(r) PROVE ToldFirst'
  BY <1>10 DEF Respond, Answer, Goto, Txns, Shape
<1>11. ASSUME NEW r \in Requests, Commit(r) PROVE ToldFirst'
  BY <1>11 DEF Commit, Committed, Answer, End, Idle, Txns, Shape
<1>12. ASSUME NEW r \in Requests, LoseAnswer(r) PROVE ToldFirst'
  BY <1>12 DEF LoseAnswer, Committed, Deprived, End, Idle, Txns, Shape
<1>13. ASSUME NEW r \in Requests, Abort(r) PROVE ToldFirst'
  BY <1>13 DEF Abort, Deprived, End, Idle, Txns, Shape
<1>14. CASE Restart
  BY <1>14 DEF Restart, Idle, Deprived
<1>15. CASE Tick
  BY <1>15 DEF Tick
<1>16. CASE UNCHANGED vars
  BY <1>16 DEF vars
<1> QED
  BY <1>1, <1>2, <1>3, <1>4, <1>5, <1>6, <1>7, <1>8, <1>9, <1>10, <1>11, <1>12, <1>13,
     <1>14, <1>15, <1>16 DEF Next, Serve

LEMMA SecretKeptStep == IInv /\ [Next]_vars => SecretKept'
<1> SUFFICES ASSUME IInv, [Next]_vars PROVE SecretKept'
  OBVIOUS
<1> USE NoneAssumption DEF IInv, TypeOK, SecretKept
<1>1. ASSUME NEW r \in Requests, NEW d \in Devices, Provision(r, d) PROVE SecretKept'
  BY <1>1 DEF Provision, Idle, Txns
<1>2. ASSUME NEW r \in Requests, NEW d \in Devices, Find(r, d) PROVE SecretKept'
  BY <1>2 DEF Find, Idle, Txns
<1>3. ASSUME NEW r \in Requests, NEW d \in Devices, Revoke(r, d) PROVE SecretKept'
  BY <1>3 DEF Revoke, Idle, Txns
<1>4. ASSUME NEW r \in Requests, SaveChallenge(r) PROVE SecretKept'
  BY <1>4 DEF SaveChallenge, Goto, Txns, Shape
<1>5. ASSUME NEW r \in Requests, Verify(r) PROVE SecretKept'
  BY <1>5 DEF Verify, Goto, Txns
<1>6. ASSUME NEW r \in Requests, Refuse(r) PROVE SecretKept'
  BY <1>6 DEF Refuse, End, Idle, Txns, Shape
<1>7. ASSUME NEW r \in Requests, Consume(r) PROVE SecretKept'
  BY <1>7 DEF Consume, Txns, Shape
<1>8. ASSUME NEW r \in Requests, StoreHash(r) PROVE SecretKept'
  BY <1>8 DEF StoreHash, Txns, Shape
<1>9. ASSUME NEW r \in Requests, DeleteChallenge(r) PROVE SecretKept'
  BY <1>9 DEF DeleteChallenge, Goto, Txns, Shape
<1>10. ASSUME NEW r \in Requests, Respond(r) PROVE SecretKept'
  BY <1>10 DEF Respond, Answer, Goto, Txns, Shape
<1>11. ASSUME NEW r \in Requests, Commit(r) PROVE SecretKept'
  BY <1>11 DEF Commit, Committed, Answer, End, Idle, Txns, Shape, OwnDevice, Provisioning
<1>12. ASSUME NEW r \in Requests, LoseAnswer(r) PROVE SecretKept'
  BY <1>12 DEF LoseAnswer, Committed, Deprived, End, Idle, Txns, Shape
<1>13. ASSUME NEW r \in Requests, Abort(r) PROVE SecretKept'
  BY <1>13 DEF Abort, Deprived, End, Idle, Txns, Shape
<1>14. CASE Restart
  BY <1>14 DEF Restart, Idle, Deprived
<1>15. CASE Tick
  BY <1>15 DEF Tick
<1>16. CASE UNCHANGED vars
  BY <1>16 DEF vars
<1> QED
  BY <1>1, <1>2, <1>3, <1>4, <1>5, <1>6, <1>7, <1>8, <1>9, <1>10, <1>11, <1>12, <1>13,
     <1>14, <1>15, <1>16 DEF Next, Serve

LEMMA ReachableStep == IInv /\ [Next]_vars => Reachable'
<1> SUFFICES ASSUME IInv, [Next]_vars PROVE Reachable'
  OBVIOUS
<1> USE NoneAssumption DEF IInv, TypeOK, Reachable, Holds, Working
<1>1. ASSUME NEW r \in Requests, NEW d \in Devices, Provision(r, d) PROVE Reachable'
  BY <1>1 DEF Provision, Idle, Txns
<1>2. ASSUME NEW r \in Requests, NEW d \in Devices, Find(r, d) PROVE Reachable'
  BY <1>2 DEF Find, Idle, Txns
<1>3. ASSUME NEW r \in Requests, NEW d \in Devices, Revoke(r, d) PROVE Reachable'
  BY <1>3 DEF Revoke, Idle, Txns
<1>4. ASSUME NEW r \in Requests, SaveChallenge(r) PROVE Reachable'
  BY <1>4 DEF SaveChallenge, Goto, Txns, Shape, OwnDevice, Provisioning
<1>5. ASSUME NEW r \in Requests, Verify(r) PROVE Reachable'
  BY <1>5 DEF Verify, Goto, Txns
<1>6. ASSUME NEW r \in Requests, Refuse(r) PROVE Reachable'
  BY <1>6 DEF Refuse, End, Idle, Txns, Shape
<1>7. ASSUME NEW r \in Requests, Consume(r) PROVE Reachable'
  BY <1>7 DEF Consume, Txns, Shape
<1>8. ASSUME NEW r \in Requests, StoreHash(r) PROVE Reachable'
  BY <1>8 DEF StoreHash, Txns, Shape
<1>9. ASSUME NEW r \in Requests, DeleteChallenge(r) PROVE Reachable'
  BY <1>9 DEF DeleteChallenge, Goto, Txns, Shape, ToldFirst
<1>10. ASSUME NEW r \in Requests, Respond(r) PROVE Reachable'
  BY <1>10 DEF Respond, Answer, Goto, Txns, Shape, OwnDevice, Provisioning, ToldFirst
<1>11. ASSUME NEW r \in Requests, Commit(r) PROVE Reachable'
  <2> PICK e \in Devices : e = txn[r].device
    BY <1>11 DEF Commit, Shape
  <2>1. \A q \in Requests \ {r} : txn'[q] = txn[q]
    BY <1>11 DEF Commit, End
  <2>2. stored' = stored /\ challenges' = challenges /\ lost' = lost /\ missed' = missed
    BY <1>11 DEF Commit
  <2>3. ASSUME NEW d \in told' \ (lost \cup missed)
        PROVE  d \in stored \/ challenges[d].consumed
    BY <1>11, <2>3 DEF Commit, Answer, OwnDevice, Provisioning, Shape
  <2>4. ASSUME NEW d \in told' \ (lost \cup missed),
               challenges[d].consumed, rows'[d].status # "SUSPENDED", d # e
        PROVE  (\E q \in Requests : Holds(q, d)') \/ Working(d)'
    <3>1. d \in told /\ rows'[d] = rows[d] /\ given[d] \subseteq given'[d]
      BY <1>11, <2>4 DEF Commit, Answer, ToldFirst
    <3>2. (\E q \in Requests \ {r} : Holds(q, d)) \/ Working(d)
      BY <2>4, <3>1
    <3> QED
      BY <2>1, <3>1, <3>2
  <2>5. ASSUME e \in told' \ (lost \cup missed),
               challenges[e].consumed, rows'[e].status # "SUSPENDED"
        PROVE  (\E q \in Requests : Holds(q, e)') \/ Working(e)'
    <3>1. e \in told /\ rows'[e] = Committed(txn[r], rows[e])
      BY <1>11, <2>1, <2>5 DEF Commit, ToldFirst
    <3>2. CASE txn[r].op = "activate"
      <4>1. txn[r].wrote /\ txn[r].secret \in given'[e]
        BY <1>11, <2>1, <2>5, <3>2 DEF Commit, Answer, SecretKept
      <4>2. rows'[e].secret = txn[r].secret /\ rows'[e].status = rows[e].status
        BY <2>1, <3>1, <3>2, <4>1 DEF Committed
      <4>3. rows[e].status = "ACTIVE"
        BY <2>1, <2>5, <3>2, <4>1, <4>2 DEF SecretKept, Statuses
      <4> QED
        BY <4>1, <4>2, <4>3
    <3>3. CASE txn[r].op = "provision"
      <4>1. rows[e].status = "absent"
        BY <3>3 DEF OwnDevice, Provisioning
      <4>2. PICK q \in Requests : Holds(q, e)
        BY <2>5, <3>1, <4>1
      <4>3. Holds(q, e)'
        BY <2>1, <3>3, <4>2
      <4> QED
        BY <4>3
    <3>4. CASE txn[r].op = "revoke"
      BY <2>1, <2>5, <3>1, <3>4 DEF Committed
    <3> QED
      BY <1>11, <3>2, <3>3, <3>4 DEF Commit, Shape, Txns
  <2> QED
    BY <2>2, <2>3, <2>4, <2>5
<1>12. ASSUME NEW r \in Requests, LoseAnswer(r) PROVE Reachable'
  BY <1>12 DEF LoseAnswer, Committed, Deprived, End, Idle, Txns, Shape, OwnDevice, Provisioning, ToldFirst, SecretKept
<1>13. ASSUME NEW r \in Requests, Abort(r) PROVE Reachable'
  BY <1>13 DEF Abort, Deprived, End, Idle, Txns, Shape
<1>14. CASE Restart
  BY <1>14 DEF Restart, Idle, Deprived
<1>15. CASE Tick
  BY <1>15 DEF Tick
<1>16. CASE UNCHANGED vars
  BY <1>16 DEF vars
<1> QED
  BY <1>1, <1>2, <1>3, <1>4, <1>5, <1>6, <1>7, <1>8, <1>9, <1>10, <1>11, <1>12, <1>13,
     <1>14, <1>15, <1>16 DEF Next, Serve

LEMMA ActivationInvariant == Spec => []IInv
<1>1. Init => IInv
  <2> SUFFICES ASSUME Init PROVE IInv
    OBVIOUS
  <2>1. TypeOK
    BY IdleType DEF Init, TypeOK, NoRow, NoChallenge, Statuses
  <2>2. OwnDevice /\ SecretKept /\ Reachable
    BY DEF Init, OwnDevice, SecretKept, Reachable, Provisioning, Idle
  <2>3. ToldFirst
    BY DEF Init, ToldFirst, Holds, Idle, NoChallenge
  <2> QED
    BY <2>1, <2>2, <2>3 DEF IInv
<1>2. IInv /\ [Next]_vars => IInv'
  BY TypeStep, OwnDeviceStep, ToldFirstStep, SecretKeptStep, ReachableStep DEF IInv
<1> QED
  BY <1>1, <1>2, PTL DEF Spec

(* ActivateTerminalDevice and ProvisionTerminalDevice: but for a failure of *)
(* its own and for an activation before the COMMIT of its account, an      *)
(* active kiosk whose code the manager holds is activable, is being        *)
(* activated, or has the secret of its account, however many activations   *)
(* cross and whatever challenge a refusal saves again.                     *)
THEOREM KiosksAreNotStranded == Spec => []NotStranded
<1>1. IInv => NotStranded
  BY DEF IInv, TypeOK, Reachable, NotStranded, Activating, Holds
<1> QED
  BY <1>1, ActivationInvariant, PTL

(* RevokeTerminalDevice: no activation, in flight or later, no late commit *)
(* and no restart makes a suspended account active again.                  *)
THEOREM RevocationIsFinal == Spec => RevokedForGood
<1> DEFINE Kept == \A d \in Devices : rows[d].status = "SUSPENDED" => rows'[d].status = "SUSPENDED"
<1>1. IInv /\ [Next]_vars => [Kept]_vars
  <2> SUFFICES ASSUME IInv, Next PROVE Kept
    OBVIOUS
  <2>1. ASSUME NEW r \in Requests, Commit(r) PROVE Kept
    BY <2>1 DEF Commit, Committed, IInv, TypeOK, OwnDevice, Provisioning, Shape, Txns
  <2>2. ASSUME NEW r \in Requests, LoseAnswer(r) PROVE Kept
    BY <2>2 DEF LoseAnswer, Committed, IInv, TypeOK, OwnDevice, Provisioning, Shape, Txns
  <2>3. CASE UNCHANGED rows
    BY <2>3
  <2> QED
    BY <2>1, <2>2, <2>3 DEF Next, Serve, Provision, Find, Revoke, SaveChallenge, Verify, Refuse,
       Consume, StoreHash, DeleteChallenge, Respond, Abort, Restart, Tick
<1> QED
  BY <1>1, ActivationInvariant, PTL DEF Spec, RevokedForGood

-----------------------------------------------------------------------------
(***************************************************************************)
(* One secret of a code, but for rivals.                                   *)
(***************************************************************************)

LEMMA Refines == MCSpec => Spec
<1>1. MCInit => Init
  BY DEF MCInit
<1>2. [MCNext]_mcvars => [Next]_vars
  BY DEF MCNext, mcvars, vars
<1> QED
  BY <1>1, <1>2, PTL DEF MCSpec, Spec

(* A step that leaves a device without rivals breaks none of the parts.    *)
LEMMA OneSecretStep == IInv /\ OneSecret /\ [MCNext]_mcvars => OneSecret'
<1> SUFFICES ASSUME IInv, OneSecret, [MCNext]_mcvars, NEW d \in Devices, d \notin rivals'
             PROVE  /\ (\A q, r \in Verified(d) : q = r)'
                    /\ (Verified(d) # {} => ~challenges[d].consumed)'
                    /\ (\A a, b \in Issued(d) : a = b)'
  BY DEF OneSecret
<1>1. d \notin rivals /\ (\A q, r \in Verified(d) : q = r)'
  BY DEF MCNext, mcvars, vars, OneSecret, Verified
<1>2. /\ \A q, r \in Verified(d) : q = r
      /\ Verified(d) # {} => ~challenges[d].consumed
      /\ \A a, b \in Issued(d) : a = b
  BY <1>1 DEF OneSecret
<1> DEFINE Bare == \A r \in Requests : txn[r].device = d /\ txn[r].pc = "verified" =>
                                       ~challenges[d].consumed
           Same == \A a, b \in Issued(d) : a = b
<1>3. Bare /\ Same
  BY <1>2 DEF Verified
<1>4. SUFFICES Bare' /\ Same'
  BY <1>1 DEF Verified
<1> DEFINE Fewer == /\ given'[d] \subseteq Issued(d)
                    /\ \A r \in Requests : Holds(r, d)' =>
                         Holds(r, d) /\ txn'[r].secret = txn[r].secret
<1>5. Fewer => Same'
  BY <1>3 DEF Issued
<1> HIDE DEF Same
<1> USE NoneAssumption DEF IInv, TypeOK, Holds
<1>6. ASSUME NEW r \in Requests, NEW e \in Devices, Provision(r, e) PROVE Bare' /\ Same'
  BY <1>3, <1>5, <1>6 DEF Provision, Idle, Issued
<1>7. ASSUME NEW r \in Requests, NEW e \in Devices, Find(r, e) PROVE Bare' /\ Same'
  BY <1>3, <1>5, <1>7 DEF Find, Idle, Issued
<1>8. ASSUME NEW r \in Requests, NEW e \in Devices, Revoke(r, e) PROVE Bare' /\ Same'
  BY <1>3, <1>5, <1>8 DEF Revoke, Idle, Issued
<1>9. ASSUME NEW r \in Requests, SaveChallenge(r) PROVE Bare' /\ Same'
  BY <1>3, <1>5, <1>9 DEF SaveChallenge, Goto, Issued, Shape
<1>10. ASSUME NEW r \in Requests, Verify(r) PROVE Bare' /\ Same'
  BY <1>3, <1>5, <1>10 DEF Verify, Alive, Goto, Issued
<1>11. ASSUME NEW r \in Requests, Refuse(r) PROVE Bare' /\ Same'
  BY <1>3, <1>5, <1>11 DEF Refuse, End, Idle, Issued
<1>12. ASSUME NEW r \in Requests, Consume(r) PROVE Bare' /\ Same'
  <2>1. /\ txn'[r].pc = "consumed" /\ txn'[r].secret = drawn + 1
        /\ txn'[r].device = txn[r].device
        /\ \A q \in Requests \ {r} : txn'[q] = txn[q]
    BY <1>12 DEF Consume, Txns
  <2>2. CASE txn[r].device = d
    <3>1. r \in Verified(d) /\ \A q \in Verified(d) : q = r
      BY <1>2, <1>12, <2>2 DEF Consume, Verified
    <3>2. given[d] = {} /\ \A q \in Requests : ~Holds(q, d)
      BY <1>2, <3>1 DEF ToldFirst
    <3>3. Bare'
      BY <2>1, <3>1 DEF Verified
    <3>4. \A a \in Issued(d)' : a = drawn + 1
      BY <1>12, <2>1, <3>2 DEF Consume, Issued
    <3> QED
      BY <3>3, <3>4 DEF Same
  <2>3. CASE txn[r].device # d
    BY <1>3, <1>5, <1>12, <2>1, <2>3 DEF Consume, Issued
  <2> QED
    BY <2>2, <2>3
<1>13. ASSUME NEW r \in Requests, StoreHash(r) PROVE Bare' /\ Same'
  BY <1>3, <1>5, <1>13 DEF StoreHash, Txns, Issued
<1>14. ASSUME NEW r \in Requests, DeleteChallenge(r) PROVE Bare' /\ Same'
  BY <1>3, <1>5, <1>14 DEF DeleteChallenge, Goto, Issued
<1>15. ASSUME NEW r \in Requests, txn[r].pc = "flushed", Answer(txn[r])
       PROVE  given'[d] \subseteq Issued(d)
  BY <1>15 DEF Answer, Issued, Shape
<1>16. ASSUME NEW r \in Requests, Commit(r) PROVE Bare' /\ Same'
  <2>1. given'[d] \subseteq Issued(d)
    BY <1>15, <1>16 DEF Commit, Issued
  <2> QED
    BY <1>3, <1>5, <1>16, <2>1 DEF Commit, End, Idle
<1>17. ASSUME NEW r \in Requests, LoseAnswer(r) PROVE Bare' /\ Same'
  BY <1>3, <1>5, <1>17 DEF LoseAnswer, End, Idle, Issued
<1>18. ASSUME NEW r \in Requests, Abort(r) PROVE Bare' /\ Same'
  BY <1>3, <1>5, <1>18 DEF Abort, End, Idle, Issued
<1>19. ASSUME NEW r \in Requests, Respond(r) PROVE Bare' /\ Same'
  <2>1. given'[d] \subseteq Issued(d)
    BY <1>15, <1>19 DEF Respond
  <2> QED
    BY <1>3, <1>5, <1>19, <2>1 DEF Respond, Goto, Txns
<1>20. CASE Restart
  BY <1>3, <1>5, <1>20 DEF Restart, Idle, Issued
<1>21. CASE Tick
  BY <1>3, <1>5, <1>21 DEF Tick, Issued
<1>22. CASE UNCHANGED mcvars
  BY <1>3, <1>5, <1>22 DEF mcvars, vars, Issued
<1> QED
  BY <1>6, <1>7, <1>8, <1>9, <1>10, <1>11, <1>12, <1>13, <1>14, <1>16, <1>17, <1>18,
     <1>19, <1>20, <1>21, <1>22 DEF MCNext, Next, Serve

(* ActivateTerminalDevice: two secrets are given for one code only after   *)
(* two requests held it compared at once, whoever deletes the challenge,   *)
(* saves it again, fails or restarts in between.                           *)
THEOREM SecretsAreShared == MCSpec => []SharedByRivalsOnly
<1>1. MCInit => OneSecret
  BY DEF MCInit, Init, OneSecret, Verified, Issued, Holds, Idle, NoChallenge
<1>2. IInv /\ OneSecret => SharedByRivalsOnly
  <2> SUFFICES ASSUME IInv, OneSecret, NEW d \in Devices \ rivals
               PROVE  Cardinality(given[d]) <= 1
    BY DEF SharedByRivalsOnly
  <2>1. \A a, b \in given[d] : a = b
    BY DEF OneSecret, Issued
  <2>2. CASE given[d] = {}
    BY <2>2, FS_EmptySet
  <2>3. CASE given[d] # {}
    <3>1. PICK a \in given[d] : TRUE
      BY <2>3
    <3>2. given[d] = {a}
      BY <2>1, <3>1
    <3>3. Cardinality(given[d]) = 1
      BY <3>2, FS_Singleton
    <3> QED
      BY <3>3
  <2> QED
    BY <2>2, <2>3
<1> QED
  BY <1>1, <1>2, OneSecretStep, Refines, ActivationInvariant, PTL DEF MCSpec
=============================================================================
