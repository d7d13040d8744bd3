------------------------------ MODULE SignInProofs ------------------------------
(***************************************************************************)
(* Proofs about SignIn, for every number of requests, identifiers,         *)
(* accounts and challenges and every setting: what a code is worth and     *)
(* which code works, then how many failures the limiter lets through.      *)
(* The theorems speak of the history variables of MCSignIn, which tell     *)
(* crossings from the rest.                                                *)
(***************************************************************************)
EXTENDS MCSignIn, TLAPS, FiniteSetTheorems

Limiting   == {"check", "unlock", "forget", "find", "known", "free", "failed", "counted", "full"}
Drawing    == {"drawn", "saved"}
Compared   == {"spent", "written", "deleted"}
Confirmed  == {"fetched", "matched", "missed", "refused"} \cup Compared
Holding    == Drawing \cup Confirmed

(* Which local values a request has, by program counter.                   *)
Fields == {"pc", "op", "id", "pass", "code", "otp", "seen", "at", "recent"}

Fits(x) ==
  /\ DOMAIN x = Fields
  /\ x.pc \in {"idle"} \cup Limiting \cup Holding
  /\ x.pc = "idle" => x = Idle
  /\ x.pc \in Limiting => x.op \in {"login", "request"}
  /\ x.pc \in Drawing => x.op = "request"
  /\ x.pc \in Confirmed => x.op = "confirm"
  /\ x.pc # "idle" => x.id \in Identifiers
  /\ x.pc \in Holding => x.otp \in Challenges
  /\ x.seen \in Int

Challenge0 == [drawn : BOOLEAN, expires : Int, left : Int, consumed : BOOLEAN]

(* A challenge in the store, sent, or in the hands of a request was drawn. *)
TypeInv ==
  /\ DOMAIN txn = Requests
  /\ \A r \in Requests : Fits(txn[r])
  /\ store \in [Identifiers -> Challenges \cup {None}]
  /\ sent \in [Identifiers -> Challenges \cup {None}]
  /\ otp \in [Challenges -> Challenge0]
  /\ now \in Nat
  /\ \A i \in Identifiers : /\ store[i] # None => otp[store[i]].drawn
                            /\ sent[i] # None => otp[sent[i]].drawn
  /\ \A r \in Requests : txn[r].pc \in Holding => otp[txn[r].otp].drawn

(* What a challenge is worth, and what was made of it.  One that nothing   *)
(* refers to any more (after a restart) keeps its tally for good.          *)
Reached(c)  == \/ \E i \in Identifiers : store[i] = c
               \/ \E r \in Requests : txn[r].pc \in Holding /\ txn[r].otp = c
Holds(pc, c) == \E r \in Held(c) : txn[r].pc = pc

CodeInv(c) ==
  /\ tally[c].right \in {0, 1} /\ tally[c].wrong \in 0 .. MaxGuesses
  /\ c \in rivals \/ ~otp[c].drawn => tally[c].right = 0 /\ tally[c].wrong = 0
  /\ c \notin rivals => ~Several(Held(c))
  /\ c \notin rivals /\ otp[c].drawn /\ Reached(c) =>
       /\ tally[c].right = 1 => otp[c].consumed \/ Holds("matched", c)
       /\ tally[c].wrong + otp[c].left = MaxGuesses + One(Holds("missed", c))
       /\ \A r \in Held(c) : txn[r].pc = "missed" =>
            txn[r].seen = otp[c].left /\ txn[r].seen > 0

CodesInv == \A c \in Challenges : CodeInv(c)

(* Which challenge an identifier has, unless its newest code was requested *)
(* amid something else.                                                    *)
Answers(i) == On(<<"confirm", i>>)
Saved(i) == {r \in Requesting(i) : txn[r].pc = "saved"}
Spent(i) == sent[i] # None /\ otp[sent[i]].consumed

LastInv(i) ==
  i \notin muddled =>
    /\ Requesting(i) # {} => ~Several(Resetting(i))
    /\ \A r \in Saved(i) : store[i] = txn[r].otp
    /\ Saved(i) = {} => /\ store[i] \in {sent[i], None}
                        /\ sent[i] # None => store[i] = sent[i] \/ Spent(i)
    /\ \A r \in Answers(i) : /\ txn[r].otp = sent[i]
                             /\ txn[r].pc \in Compared => Spent(i)

LastsInv == \A i \in Identifiers : LastInv(i)

-----------------------------------------------------------------------------
(* What a step of a request does to the codes.                             *)
Same(r) == txn'[r].op = txn[r].op /\ txn'[r].id = txn[r].id
Keeps(r) == Same(r) /\ txn'[r].otp = txn[r].otp /\ txn'[r].seen = txn[r].seen

Leaves(r) == /\ txn[r].pc \in Limiting \cup Compared /\ txn'[r] = Idle
             /\ UNCHANGED Codes
Limits(r) == /\ txn[r].pc \in Limiting /\ txn'[r].pc \in Limiting
             /\ Same(r) /\ UNCHANGED Codes
Begins(r) == /\ txn[r].pc = "idle" /\ txn'[r].pc = "check"
             /\ txn'[r].op \in {"login", "request"} /\ txn'[r].id \in Identifiers
             /\ UNCHANGED Codes
Draws(r)  == /\ txn[r].pc = "find" /\ txn[r].op = "request" /\ Same(r)
             /\ txn'[r].pc = "drawn" /\ txn'[r].otp \in Undrawn
             /\ otp' = [otp EXCEPT ![txn'[r].otp] =
                          [drawn |-> TRUE, expires |-> now + Ttl, left |-> MaxGuesses,
                           consumed |-> FALSE]]
             /\ UNCHANGED <<store, sent>>
Saves(r)  == /\ txn[r].pc = "drawn" /\ txn'[r].pc = "saved" /\ Keeps(r)
             /\ store' = [store EXCEPT ![txn[r].id] = txn[r].otp]
             /\ UNCHANGED <<otp, sent>>
Sends(r)  == /\ txn[r].pc = "saved" /\ txn'[r].pc = "failed" /\ Keeps(r)
             /\ sent' = [sent EXCEPT ![txn[r].id] = txn[r].otp]
             /\ UNCHANGED <<store, otp>>
Fetches(r) == /\ txn[r].pc = "idle" /\ txn'[r].pc = "fetched" /\ txn'[r].op = "confirm"
              /\ txn'[r].id \in Identifiers /\ store[txn'[r].id] # None
              /\ txn'[r].otp = store[txn'[r].id]
              /\ UNCHANGED Codes
Compares(r) == /\ txn[r].pc = "fetched" /\ Same(r) /\ txn'[r].otp = txn[r].otp
               /\ txn'[r].seen = otp[txn[r].otp].left
               /\ \/ txn'[r].pc = "refused"
                  \/ txn'[r].pc \in {"matched", "missed"} /\ Alive(otp[txn[r].otp])
               /\ UNCHANGED Codes
Consumes(r) == /\ txn[r].pc = "matched" /\ txn'[r].pc = "spent" /\ Keeps(r)
               /\ otp' = [otp EXCEPT ![txn[r].otp].consumed = TRUE]
               /\ UNCHANGED <<store, sent>>
Misses(r) == /\ txn[r].pc = "missed" /\ txn'[r].pc = "refused" /\ Keeps(r)
             /\ otp' = [otp EXCEPT ![txn[r].otp].left = txn[r].seen - 1]
             /\ UNCHANGED <<store, sent>>
Returns(r) == /\ txn[r].pc = "refused" /\ txn'[r] = Idle
              /\ store' = [store EXCEPT ![txn[r].id] = txn[r].otp]
              /\ UNCHANGED <<otp, sent>>
Writes(r) == /\ txn[r].pc = "spent" /\ txn'[r].pc = "written" /\ Keeps(r) /\ UNCHANGED Codes
Deletes(r) == /\ txn[r].pc = "written" /\ txn'[r].pc = "deleted" /\ Keeps(r)
              /\ store' = [store EXCEPT ![txn[r].id] = None]
              /\ UNCHANGED <<otp, sent>>

Step(r) == \/ Leaves(r) \/ Limits(r) \/ Begins(r) \/ Draws(r) \/ Saves(r) \/ Sends(r)
           \/ Fetches(r) \/ Compares(r) \/ Consumes(r) \/ Misses(r) \/ Returns(r)
           \/ Writes(r) \/ Deletes(r)

LEMMA Settings ==
  /\ None \notin Challenges /\ MaxGuesses \in Nat \ {0} /\ Ttl \in Nat \ {0}
  BY SettingsAssumption

LEMMA IdleFits == Fits(Idle)
  BY DEF Fits, Fields, Idle, Limiting, Drawing, Confirmed, Compared, Holding

SameOf(x, y) == DOMAIN y = Fields /\ y.op = x.op /\ y.id = x.id

-----------------------------------------------------------------------------
(* Every action of a request is one of these steps.                        *)
Alone(r) == /\ \A q \in Requests \ {r} : txn'[q] = txn[q]
            /\ DOMAIN txn' = Requests /\ now' = now

LEMMA Moved ==
  ASSUME TypeInv, NEW r \in Requests, NEW y, txn' = [txn EXCEPT ![r] = y], now' = now
  PROVE  txn'[r] = y /\ Alone(r)
  BY DEF TypeInv, Alone

LEMMA Reads ==
  ASSUME TypeInv, NEW r \in Requests
  PROVE  /\ Fits(txn[r]) /\ DOMAIN txn[r] = Fields /\ txn[r].seen \in Int
         /\ txn[r].pc \in Limiting => txn[r].op \in {"login", "request"}
  BY DEF TypeInv, Fits

LEMMA GotoView ==
  ASSUME TypeInv, NEW r \in Requests, NEW p, Goto(r, p), now' = now
  PROVE  /\ Keeps(r) /\ txn'[r].pc = p /\ DOMAIN txn'[r] = Fields /\ Alone(r)
<1>1. txn' = [txn EXCEPT ![r] = [txn[r] EXCEPT !.pc = p]]
  BY DEF Goto
<1>2. QED
  <2> DEFINE y == [txn[r] EXCEPT !.pc = p]
  <2>1. SameOf(txn[r], y) /\ y.pc = p /\ y.otp = txn[r].otp /\ y.seen = txn[r].seen
    BY Reads DEF SameOf, Fields
  <2> HIDE DEF y
  <2>2. QED
    BY <1>1, <2>1, Moved DEF Keeps, Same, SameOf, y

LEMMA EndView ==
  ASSUME TypeInv, NEW r \in Requests, End(r), now' = now
  PROVE  txn'[r] = Idle /\ Alone(r)
  BY Moved DEF End

LEMMA LimitView ==
  ASSUME TypeInv, NEW r \in Requests, Limit(r) \/ Verify(r)
  PROVE  /\ Leaves(r) \/ Limits(r)
         /\ DOMAIN txn'[r] = Fields /\ txn'[r].seen \in Int /\ Alone(r)
<1> DEFINE Goal == /\ Leaves(r) \/ Limits(r)
                   /\ DOMAIN txn'[r] = Fields /\ txn'[r].seen \in Int /\ Alone(r)
<1>1. ASSUME NEW p \in Limiting, txn[r].pc \in Limiting, Goto(r, p), now' = now, UNCHANGED Codes
      PROVE  Goal
  BY <1>1, GotoView, Reads DEF Limits, Keeps
<1>2. ASSUME txn[r].pc \in Limiting, End(r), now' = now, UNCHANGED Codes PROVE Goal
  BY <1>2, EndView, IdleFits DEF Leaves, Fits
<1>3. CASE Check(r) \/ PopLock(r) \/ PopFailures(r) \/ RecordLock(r) \/ ResetFailures(r)
           \/ ResetLock(r)
  <2>1. /\ txn[r].pc \in Limiting /\ now' = now /\ UNCHANGED Codes
        /\ End(r) \/ \E p \in Limiting : Goto(r, p)
    <3>1. CASE Check(r)
      BY <3>1 DEF Check, Limiting
    <3>2. CASE PopLock(r) \/ PopFailures(r)
      BY <3>2 DEF PopLock, PopFailures, Limiting
    <3>3. CASE RecordLock(r) \/ ResetFailures(r) \/ ResetLock(r)
      BY <3>3 DEF RecordLock, ResetFailures, ResetLock, Limiting
    <3>4. QED
      BY <1>3, <3>1, <3>2, <3>3
  <2> HIDE DEF Goal
  <2>2. Goal
    BY <1>1, <1>2, <2>1
  <2>3. QED
    BY <2>2 DEF Goal
<1>4. CASE RecordRead(r)
  <2> DEFINE v == Failing(InWindow(failures[Key(r)], now), now)
             y == [txn[r] EXCEPT !.pc = "counted", !.at = now, !.recent = v]
  <2>1. txn' = [txn EXCEPT ![r] = y] /\ now' = now /\ txn[r].pc = "failed" /\ UNCHANGED Codes
    BY <1>4 DEF RecordRead
  <2>2. SameOf(txn[r], y) /\ y.pc = "counted" /\ y.seen = txn[r].seen
    BY Reads DEF SameOf, Fields
  <2> HIDE DEF y
  <2>3. QED
    BY <2>1, <2>2, Moved, Reads DEF Limits, Limiting, Same, SameOf
<1>5. CASE RecordWrite(r)
  <2>1. CASE End(r)
    BY <1>2, <1>5, <2>1 DEF RecordWrite, Limiting
  <2>2. CASE ~End(r)
    <3> DEFINE y == [txn[r] EXCEPT !.pc = "full", !.recent = {}]
    <3>1. txn' = [txn EXCEPT ![r] = y] /\ now' = now /\ txn[r].pc = "counted" /\ UNCHANGED Codes
      BY <1>5, <2>2 DEF RecordWrite
    <3>2. SameOf(txn[r], y) /\ y.pc = "full" /\ y.seen = txn[r].seen
      BY Reads DEF SameOf, Fields
    <3> HIDE DEF y
    <3>3. QED
      BY <3>1, <3>2, Moved, Reads DEF Limits, Limiting, Same, SameOf
  <2>3. QED
    BY <2>1, <2>2
<1>6. CASE Verify(r)
  <2> DEFINE p == IF Known(txn[r].id, txn[r].pass) THEN "known" ELSE "failed"
             y == [txn[r] EXCEPT !.pc = p, !.pass = None]
  <2>1. txn' = [txn EXCEPT ![r] = y] /\ now' = now /\ txn[r].pc = "find" /\ UNCHANGED Codes
    BY <1>6 DEF Verify
  <2>2. p \in Limiting
    BY DEF Limiting
  <2> HIDE DEF p
  <2>3. SameOf(txn[r], y) /\ y.pc = p /\ y.seen = txn[r].seen
    BY Reads DEF SameOf, Fields
  <2> HIDE DEF y
  <2>4. QED
    BY <2>1, <2>2, <2>3, Moved, Reads DEF Limits, Limiting, Same, SameOf
<1>7. QED
  BY <1>3, <1>4, <1>5, <1>6 DEF Limit

LEMMA ReceiveView ==
  ASSUME TypeInv, NEW r \in Requests, Receive(r)
  PROVE  /\ Begins(r) \/ Fetches(r)
         /\ DOMAIN txn'[r] = Fields /\ txn'[r].seen \in Int /\ Alone(r)
<1> PICK i \in Identifiers :
      \/ \E p \in Passwords : Login(r, i, p)
      \/ AskReset(r, i)
      \/ \E c \in {d \in Challenges : otp[d].drawn} \cup {None}, p \in Passwords :
           Confirm(r, i, c, p)
  BY DEF Receive
<1> DEFINE Goal == /\ Begins(r) \/ Fetches(r)
                   /\ DOMAIN txn'[r] = Fields /\ txn'[r].seen \in Int /\ Alone(r)
<1>1. ASSUME NEW p, Login(r, i, p) PROVE Goal
  <2> DEFINE y == [Idle EXCEPT !.pc = "check", !.op = "login", !.id = i, !.pass = p]
  <2>1. txn' = [txn EXCEPT ![r] = y] /\ now' = now /\ txn[r].pc = "idle" /\ UNCHANGED Codes
    BY <1>1 DEF Login
  <2>2. DOMAIN y = Fields /\ y.pc = "check" /\ y.op = "login" /\ y.id = i /\ y.seen = 0
    BY DEF Idle, Fields
  <2> HIDE DEF y
  <2>3. txn'[r] = y /\ Alone(r)
    BY <2>1, Moved
  <2>4. QED
    BY <2>1, <2>2, <2>3 DEF Begins
<1>2. CASE AskReset(r, i)
  <2> DEFINE y == [Idle EXCEPT !.pc = "check", !.op = "request", !.id = i]
  <2>1. txn' = [txn EXCEPT ![r] = y] /\ now' = now /\ txn[r].pc = "idle" /\ UNCHANGED Codes
    BY <1>2 DEF AskReset
  <2>2. DOMAIN y = Fields /\ y.pc = "check" /\ y.op = "request" /\ y.id = i /\ y.seen = 0
    BY DEF Idle, Fields
  <2> HIDE DEF y
  <2>3. txn'[r] = y /\ Alone(r)
    BY <2>1, Moved
  <2>4. QED
    BY <2>1, <2>2, <2>3 DEF Begins
<1>3. ASSUME NEW c, NEW p, Confirm(r, i, c, p) PROVE Goal
  <2> DEFINE y == [Idle EXCEPT !.pc = "fetched", !.op = "confirm", !.id = i, !.pass = p,
                               !.code = c, !.otp = store[i]]
  <2>1. /\ txn' = [txn EXCEPT ![r] = y] /\ now' = now /\ txn[r].pc = "idle" /\ UNCHANGED Codes
        /\ store[i] # None
    BY <1>3 DEF Confirm
  <2>2. /\ DOMAIN y = Fields /\ y.pc = "fetched" /\ y.op = "confirm" /\ y.id = i /\ y.seen = 0
        /\ y.otp = store[i]
    BY DEF Idle, Fields
  <2> HIDE DEF y
  <2>3. txn'[r] = y /\ Alone(r)
    BY <2>1, Moved
  <2>4. QED
    BY <2>1, <2>2, <2>3 DEF Fetches
<1>4. QED
  BY <1>1, <1>2, <1>3

LEMMA ChallengeView ==
  ASSUME TypeInv, NEW r \in Requests, Challenge(r)
  PROVE  /\ Limits(r) \/ Draws(r) \/ Saves(r) \/ Sends(r)
         /\ DOMAIN txn'[r] = Fields /\ txn'[r].seen \in Int /\ Alone(r)
<1>1. CASE Draw(r) /\ Holder[txn[r].id] = None
  <2>1. Goto(r, "failed") /\ now' = now /\ txn[r].pc = "find" /\ UNCHANGED Codes
    BY <1>1 DEF Draw, Goto, Codes
  <2>2. QED
    BY <2>1, GotoView, Reads DEF Limits, Limiting, Keeps
<1>2. CASE Draw(r) /\ Holder[txn[r].id] # None
  <2>1. PICK c \in Undrawn :
          /\ otp' = [otp EXCEPT ![c] = [drawn |-> TRUE, expires |-> now + Ttl,
                                        left |-> MaxGuesses, consumed |-> FALSE]]
          /\ txn' = [txn EXCEPT ![r].pc = "drawn", ![r].otp = c]
    BY <1>2 DEF Draw
  <2> DEFINE y == [txn[r] EXCEPT !.pc = "drawn", !.otp = c]
  <2>2. SameOf(txn[r], y) /\ y.pc = "drawn" /\ y.otp = c /\ y.seen = txn[r].seen
    BY Reads DEF SameOf, Fields
  <2>3. txn' = [txn EXCEPT ![r] = y]
    BY <2>1
  <2> HIDE DEF y
  <2>4. QED
    BY <1>2, <2>1, <2>2, <2>3, Moved, Reads DEF Draw, Draws, Same, SameOf
<1>3. CASE Save(r)
  BY <1>3, GotoView, Reads DEF Save, Saves, Keeps
<1>4. CASE Send(r)
  BY <1>4, GotoView, Reads DEF Send, Sends, Keeps
<1>5. QED
  BY <1>1, <1>2, <1>3, <1>4 DEF Challenge

LEMMA ConfirmView ==
  ASSUME TypeInv, NEW r \in Requests, Confirming(r)
  PROVE  /\ Leaves(r) \/ Compares(r) \/ Consumes(r) \/ Misses(r) \/ Returns(r) \/ Writes(r)
            \/ Deletes(r)
         /\ DOMAIN txn'[r] = Fields /\ txn'[r].seen \in Int /\ Alone(r)
<1>1. CASE Compare(r)
  <2> DEFINE c == otp[txn[r].otp]
             p == IF ~Alive(c) THEN "refused"
                  ELSE IF txn[r].code = txn[r].otp THEN "matched" ELSE "missed"
             y == [txn[r] EXCEPT !.pc = p, !.seen = c.left, !.code = None]
  <2>1. txn' = [txn EXCEPT ![r] = y] /\ now' = now /\ txn[r].pc = "fetched" /\ UNCHANGED Codes
    BY <1>1 DEF Compare
  <2>2. p = "refused" \/ (p \in {"matched", "missed"} /\ Alive(c))
    OBVIOUS
  <2>3. SameOf(txn[r], y) /\ y.pc = p /\ y.otp = txn[r].otp /\ y.seen = c.left
    BY Reads DEF SameOf, Fields
  <2>4. c.left \in Int
    BY <2>1 DEF TypeInv, Fits, Challenge0, Holding, Confirmed
  <2> HIDE DEF p, y
  <2>5. QED
    BY <2>1, <2>2, <2>3, <2>4, Moved DEF Compares, Same, SameOf
<1>2. CASE Consume(r) \/ Miss(r) \/ Write(r) \/ Delete(r)
  BY <1>2, GotoView, Reads
     DEF Consume, Miss, Write, Delete, Consumes, Misses, Writes, Deletes, Keeps
<1>3. CASE PutBack(r)
  BY <1>3, EndView, IdleFits DEF PutBack, Returns, Fits
<1>4. CASE Commit(r)
  BY <1>4, EndView, IdleFits DEF Commit, Leaves, Compared, Fits
<1>5. QED
  BY <1>1, <1>2, <1>3, <1>4 DEF Confirming

LEMMA StepView ==
  ASSUME TypeInv, NEW r \in Requests, Receive(r) \/ Serve(r) \/ Abort(r)
  PROVE  Step(r) /\ DOMAIN txn'[r] = Fields /\ txn'[r].seen \in Int /\ Alone(r)
<1>1. CASE Abort(r)
  BY <1>1, EndView, IdleFits DEF Abort, Leaves, Limiting, Compared, Fits, Step
<1>2. QED
  BY <1>1, LimitView, ReceiveView, ChallengeView, ConfirmView DEF Serve, Step

(* The challenges that a step changes.                                     *)
LEMMA StepCodes ==
  ASSUME TypeInv, NEW r \in Requests, Step(r)
  PROVE  /\ otp' \in [Challenges -> Challenge0]
         /\ \A c \in Challenges : otp[c].drawn => otp'[c].drawn
         /\ \A c \in Challenges : otp[c].drawn /\ otp[c].consumed => otp'[c].consumed
         /\ \A c \in Challenges :
              \/ otp'[c] = otp[c]
              \/ Draws(r) /\ ~otp[c].drawn /\ c = txn'[r].otp
              \/ Consumes(r) /\ c = txn[r].otp
              \/ Misses(r) /\ c = txn[r].otp
<1>1. /\ otp \in [Challenges -> Challenge0] /\ Fits(txn[r]) /\ now \in Nat
  BY DEF TypeInv
<1>2. CASE UNCHANGED otp
  BY <1>1, <1>2
<1>3. CASE Draws(r)
  <2> DEFINE n == [drawn |-> TRUE, expires |-> now + Ttl, left |-> MaxGuesses, consumed |-> FALSE]
  <2>1. n \in Challenge0 /\ n.drawn
    BY <1>1, Settings DEF Challenge0
  <2> HIDE DEF n
  <2>2. otp' = [otp EXCEPT ![txn'[r].otp] = n] /\ txn'[r].otp \in Undrawn
    BY <1>3 DEF Draws, n
  <2>3. QED
    BY <1>1, <1>3, <2>1, <2>2 DEF Undrawn
<1>4. CASE Consumes(r)
  <2> DEFINE o == txn[r].otp
             n == [otp[o] EXCEPT !.consumed = TRUE]
  <2>1. o \in Challenges
    BY <1>1, <1>4 DEF Consumes, Fits, Holding, Confirmed
  <2>2. n \in Challenge0 /\ n.drawn = otp[o].drawn /\ n.consumed
    BY <1>1, <2>1 DEF Challenge0
  <2>3. otp' = [otp EXCEPT ![o] = n]
    BY <1>4 DEF Consumes
  <2> HIDE DEF n, o
  <2>4. QED
    BY <1>1, <1>4, <2>1, <2>2, <2>3 DEF o
<1>5. CASE Misses(r)
  <2> DEFINE o == txn[r].otp
             n == [otp[o] EXCEPT !.left = txn[r].seen - 1]
  <2>1. o \in Challenges /\ txn[r].seen \in Int
    BY <1>1, <1>5 DEF Misses, Fits, Holding, Confirmed
  <2>2. n \in Challenge0 /\ n.drawn = otp[o].drawn /\ n.consumed = otp[o].consumed
    BY <1>1, <2>1 DEF Challenge0
  <2>3. otp' = [otp EXCEPT ![o] = n]
    BY <1>5 DEF Misses
  <2> HIDE DEF n, o
  <2>4. QED
    BY <1>1, <1>5, <2>1, <2>2, <2>3 DEF o
<1>6. QED
  BY <1>2, <1>3, <1>4, <1>5 DEF Step, Leaves, Limits, Begins, Saves, Sends, Fetches, Compares,
     Returns, Writes, Deletes, Codes

LEMMA StepFits ==
  ASSUME TypeInv, NEW r \in Requests, Step(r), DOMAIN txn'[r] = Fields, txn'[r].seen \in Int
  PROVE  /\ Fits(txn'[r])
         /\ txn'[r].pc \in Holding => otp'[txn'[r].otp].drawn
<1>1. Fits(txn[r]) /\ (txn[r].pc \in Holding => otp[txn[r].otp].drawn)
  BY DEF TypeInv
<1> USE DEF Limiting, Drawing, Confirmed, Compared, Holding
<1>2. CASE Leaves(r) \/ Returns(r)
  BY <1>2, IdleFits DEF Leaves, Returns, Idle
<1>3. CASE Limits(r) \/ Begins(r)
  BY <1>1, <1>3 DEF Limits, Begins, Fits, Same
<1>4. CASE Draws(r)
  BY <1>1, <1>4, StepCodes DEF Draws, Fits, Same, Undrawn, TypeInv
<1>5. CASE Saves(r) \/ Sends(r)
  BY <1>1, <1>5 DEF Saves, Sends, Fits, Keeps, Same
<1>6. CASE Fetches(r)
  BY <1>1, <1>6 DEF Fetches, Fits, TypeInv, Codes
<1>7. CASE Compares(r)
  BY <1>1, <1>7 DEF Compares, Fits, Same, Codes
<1>8. CASE Consumes(r) \/ Misses(r) \/ Writes(r) \/ Deletes(r)
  <2>1. /\ txn[r].pc \in Confirmed /\ txn'[r].pc \in Confirmed /\ Keeps(r)
    BY <1>8 DEF Consumes, Misses, Writes, Deletes
  <2>2. txn[r].otp \in Challenges /\ otp[txn[r].otp].drawn
    BY <1>1, <2>1 DEF Fits
  <2>3. otp'[txn[r].otp].drawn
    BY <2>2, StepCodes
  <2>4. QED
    BY <1>1, <2>1, <2>2, <2>3 DEF Fits, Keeps, Same
<1>9. QED
  BY <1>2, <1>3, <1>4, <1>5, <1>6, <1>7, <1>8 DEF Step

LEMMA StepStored ==
  ASSUME TypeInv, NEW r \in Requests, Step(r)
  PROVE  /\ store' \in [Identifiers -> Challenges \cup {None}]
         /\ sent' \in [Identifiers -> Challenges \cup {None}]
         /\ \A i \in Identifiers : /\ store'[i] # None => otp'[store'[i]].drawn
                                   /\ sent'[i] # None => otp'[sent'[i]].drawn
<1>1. /\ Fits(txn[r]) /\ (txn[r].pc \in Holding => otp[txn[r].otp].drawn)
      /\ store \in [Identifiers -> Challenges \cup {None}]
      /\ sent \in [Identifiers -> Challenges \cup {None}]
      /\ \A i \in Identifiers : /\ store[i] # None => otp[store[i]].drawn
                                /\ sent[i] # None => otp[sent[i]].drawn
  BY DEF TypeInv
<1>2. \A c \in Challenges : otp[c].drawn => otp'[c].drawn
  BY StepCodes
<1>3. CASE UNCHANGED <<store, sent>>
  BY <1>1, <1>2, <1>3
<1>4. CASE Saves(r) \/ Sends(r) \/ Returns(r)
  <2>1. txn[r].id \in Identifiers /\ txn[r].otp \in Challenges /\ otp[txn[r].otp].drawn
    BY <1>1, <1>4 DEF Saves, Sends, Returns, Fits, Holding, Drawing, Confirmed
  <2>2. QED
    BY <1>1, <1>2, <1>4, <2>1 DEF Saves, Sends, Returns
<1>5. CASE Deletes(r)
  BY <1>1, <1>2, <1>5 DEF Deletes
<1>6. QED
  BY <1>3, <1>4, <1>5 DEF Step, Leaves, Limits, Begins, Draws, Fetches, Compares, Consumes, Misses,
     Writes, Codes

LEMMA TypeStep == ASSUME TypeInv, [MCNext]_mcvars PROVE TypeInv'
<1>1. CASE UNCHANGED mcvars
  BY <1>1 DEF mcvars, vars, TypeInv
<1>2. CASE Tick
  BY <1>2 DEF Tick, TypeInv, Codes
<1>3. CASE Restart
  <2>1. Idle.pc = "idle" /\ "idle" \notin Holding
    BY DEF Idle, Holding, Drawing, Confirmed, Compared
  <2>2. QED
    BY <1>3, <2>1, IdleFits DEF Restart, TypeInv
<1>4. ASSUME NEW r \in Requests, Receive(r) \/ Serve(r) \/ Abort(r) PROVE TypeInv'
  <2>1. Step(r) /\ DOMAIN txn'[r] = Fields /\ txn'[r].seen \in Int /\ Alone(r)
    BY <1>4, StepView
  <2>2. /\ Fits(txn'[r])
        /\ txn'[r].pc \in Holding => otp'[txn'[r].otp].drawn
    BY <2>1, StepFits
  <2>3. \A q \in Requests : Fits(txn'[q])
    BY <2>1, <2>2 DEF Alone, TypeInv
  <2>4. ASSUME NEW q \in Requests, txn'[q].pc \in Holding PROVE otp'[txn'[q].otp].drawn
    <3>1. CASE q = r
      BY <2>2, <2>4, <3>1
    <3>2. CASE q # r
      <4>1. txn'[q] = txn[q] /\ otp[txn[q].otp].drawn /\ txn[q].otp \in Challenges
        BY <2>1, <2>4, <3>2 DEF Alone, TypeInv, Fits
      <4>2. QED
        BY <2>1, <4>1, StepCodes
    <3>3. QED
      BY <3>1, <3>2
  <2>5. now' \in Nat /\ DOMAIN txn' = Requests
    BY <2>1 DEF Alone, TypeInv
  <2>6. QED
    BY <2>1, <2>3, <2>4, <2>5, StepCodes, StepStored DEF TypeInv
<1>5. QED
  BY <1>1, <1>2, <1>3, <1>4 DEF MCNext, Moves

-----------------------------------------------------------------------------
(* What a code was used for.                                               *)
Untouched(c) ==
  /\ otp'[c] = otp[c] /\ Held(c)' = Held(c)
  /\ \A q \in Held(c) : txn'[q].pc = txn[q].pc /\ txn'[q].seen = txn[q].seen

LEMMA CodeUntouched ==
  ASSUME NEW c \in Challenges, CodeInv(c), Follow, Untouched(c), Reached(c)' => Reached(c)
  PROVE  CodeInv(c)'
<1>1. CASE c \in rivals'
  <2>1. tally'[c] = [right |-> 0, wrong |-> 0]
    BY <1>1 DEF Follow
  <2>2. QED
    BY <1>1, <2>1, Settings DEF CodeInv
<1>2. CASE c \notin rivals'
  <2>1. c \notin rivals /\ ~Several(Held(c))'
    BY <1>2 DEF Follow
  <2>2. \A q \in Held(c)' : ~Turns("matched", q) /\ ~Turns("missed", q)
    BY DEF Untouched, Turns
  <2>3. tally'[c] = [right |-> tally[c].right + 0, wrong |-> tally[c].wrong + 0]
    BY <1>2, <2>2 DEF Follow, One
  <2>4. tally'[c].right = tally[c].right /\ tally'[c].wrong = tally[c].wrong
    BY <2>1, <2>3 DEF CodeInv
  <2>5. \A q \in Held(c)' : q \in Held(c) /\ txn'[q].pc = txn[q].pc
    BY DEF Untouched
  <2>6. \A q \in Held(c) : q \in Held(c)'
    BY DEF Untouched
  <2>7. (Holds("matched", c)' <=> Holds("matched", c)) /\ (Holds("missed", c)' <=> Holds("missed", c))
    BY <2>5, <2>6 DEF Holds
  <2>8. One(Holds("missed", c))' = One(Holds("missed", c))
    BY <2>7 DEF One
  <2>9. QED
    BY <1>2, <2>1, <2>4, <2>7, <2>8 DEF CodeInv, Untouched
<1>3. QED
  BY <1>1, <1>2

(* Nothing makes a challenge available again but the draw of it.           *)
LEMMA StepReached ==
  ASSUME TypeInv, NEW r \in Requests, Step(r), Alone(r), NEW c \in Challenges, Reached(c)'
  PROVE  Reached(c) \/ (Draws(r) /\ c = txn'[r].otp)
<1> USE DEF Holding, Confirmed, Drawing, Compared
<1>1. CASE \E i \in Identifiers : store'[i] = c
  <2>1. PICK i \in Identifiers : store'[i] = c
    BY <1>1
  <2>2. store'[i] # store[i] => txn[r].pc \in Holding /\ txn[r].otp = c
    BY <2>1, Settings DEF Step, Leaves, Limits, Begins, Draws, Saves, Sends, Fetches, Compares,
       Consumes, Misses, Returns, Writes, Deletes, Codes, TypeInv
  <2>3. QED
    BY <2>1, <2>2 DEF Reached
<1>2. CASE \E q \in Requests : txn'[q].pc \in Holding /\ txn'[q].otp = c
  <2>1. PICK q \in Requests : txn'[q].pc \in Holding /\ txn'[q].otp = c
    BY <1>2
  <2>2. CASE q # r
    BY <2>1, <2>2 DEF Alone, Reached
  <2>3. CASE q = r
    <3>1. CASE Leaves(r) \/ Limits(r) \/ Begins(r) \/ Sends(r) \/ Returns(r)
      BY <2>1, <2>3, <3>1 DEF Leaves, Limits, Begins, Sends, Returns, Idle, Limiting
    <3>2. CASE Draws(r)
      BY <2>1, <2>3, <3>2
    <3>3. CASE Fetches(r)
      BY <2>1, <2>3, <3>3 DEF Fetches, Reached
    <3>4. CASE Saves(r) \/ Compares(r) \/ Consumes(r) \/ Misses(r) \/ Writes(r) \/ Deletes(r)
      <4>1. txn[r].pc \in Holding /\ txn'[r].otp = txn[r].otp
        BY <3>4 DEF Saves, Compares, Consumes, Misses, Writes, Deletes, Keeps
      <4>2. QED
        BY <2>1, <2>3, <4>1 DEF Reached
    <3>5. QED
      BY <3>1, <3>2, <3>3, <3>4 DEF Step
  <2>4. QED
    BY <2>2, <2>3
<1>3. QED
  BY <1>1, <1>2 DEF Reached

(* The steps that touch a challenge.                                       *)
LEMMA StepTouches ==
  ASSUME TypeInv, NEW r \in Requests, Step(r), Alone(r), NEW c \in Challenges
  PROVE  \/ Untouched(c)
         \/ Draws(r) /\ c = txn'[r].otp
         \/ /\ Compares(r) \/ Consumes(r) \/ Misses(r)
            /\ c = txn[r].otp
<1>1. CASE Draws(r) /\ c = txn'[r].otp
  BY <1>1
<1>2. CASE (Compares(r) \/ Consumes(r) \/ Misses(r)) /\ c = txn[r].otp
  BY <1>2
<1>3. CASE ~(Draws(r) /\ c = txn'[r].otp) /\ ~((Compares(r) \/ Consumes(r) \/ Misses(r)) /\ c = txn[r].otp)
  <2>1. otp'[c] = otp[c]
    BY <1>3, StepCodes
  <2>2. r \notin Held(c) /\ r \notin Held(c)'
    <3>1. CASE Compares(r) \/ Consumes(r) \/ Misses(r)
      BY <1>3, <3>1 DEF Compares, Consumes, Misses, Keeps, Held
    <3>2. CASE ~(Compares(r) \/ Consumes(r) \/ Misses(r))
      BY <3>2 DEF Step, Leaves, Limits, Begins, Draws, Saves, Sends, Fetches, Returns, Writes,
         Deletes, Limiting, Compared, Idle, Held
    <3>3. QED
      BY <3>1, <3>2
  <2>3. QED
    BY <2>1, <2>2 DEF Untouched, Held, Alone
<1>4. QED
  BY <1>1, <1>2, <1>3

(* A comparison is counted, unless another confirmation holds one.         *)
LEMMA TallyView ==
  ASSUME Follow, NEW c \in Challenges, c \notin rivals'
  PROVE  /\ c \notin rivals /\ ~Several(Held(c))'
         /\ tally'[c].right = tally[c].right + One(\E r \in Held(c)' : Turns("matched", r))
         /\ tally'[c].wrong = tally[c].wrong + One(\E r \in Held(c)' : Turns("missed", r))
<1>1. c \notin rivals /\ ~Several(Held(c))'
  BY DEF Follow
<1>2. tally'[c] = [right |-> tally[c].right + One(\E r \in Held(c)' : Turns("matched", r)),
                   wrong |-> tally[c].wrong + One(\E r \in Held(c)' : Turns("missed", r))]
  BY DEF Follow
<1>3. QED
  BY <1>1, <1>2

LEMMA CodeRival ==
  ASSUME Follow, NEW c \in Challenges, c \in rivals'
  PROVE  CodeInv(c)'
<1>1. tally'[c] = [right |-> 0, wrong |-> 0]
  BY DEF Follow
<1>2. QED
  BY <1>1, Settings DEF CodeInv

(* A challenge that is drawn has its guesses and no comparison yet.        *)
LEMMA CodeDrawn ==
  ASSUME TypeInv, NEW r \in Requests, Draws(r), Alone(r), Follow,
         NEW c \in Challenges, c = txn'[r].otp, CodeInv(c), c \notin rivals'
  PROVE  CodeInv(c)'
<1>1. ~otp[c].drawn
  BY DEF Draws, Undrawn
<1>2. otp'[c] = [drawn |-> TRUE, expires |-> now + Ttl, left |-> MaxGuesses, consumed |-> FALSE]
  BY DEF Draws, TypeInv
<1>3. Held(c)' = {}
  <2>1. SUFFICES ASSUME NEW q \in Held(c)' PROVE FALSE
    OBVIOUS
  <2>2. q \in Requests /\ txn'[q].otp = c /\ txn'[q].pc \in {"matched", "missed"}
    BY <2>1 DEF Held
  <2>3. q # r
    BY <2>2 DEF Draws
  <2>4. txn[q].otp = c /\ txn[q].pc \in Holding
    BY <2>2, <2>3 DEF Alone, Holding, Confirmed
  <2>5. QED
    BY <1>1, <2>2, <2>4 DEF TypeInv
<1>4. c \notin rivals /\ tally'[c].right = tally[c].right + 0 /\ tally'[c].wrong = tally[c].wrong + 0
  BY <1>3, TallyView DEF One
<1>5. tally'[c].right = 0 /\ tally'[c].wrong = 0
  BY <1>1, <1>4 DEF CodeInv
<1>6. ~Holds("matched", c)' /\ One(Holds("missed", c))' = 0 /\ ~Several(Held(c))'
  BY <1>3 DEF Holds, One, Several
<1>7. otp'[c].left = MaxGuesses
  BY <1>2
<1>8. QED
  BY <1>3, <1>5, <1>6, <1>7, Settings DEF CodeInv

(* One comparison, alone, of a challenge that is alive.                    *)
LEMMA CodeCompared ==
  ASSUME TypeInv, NEW r \in Requests, Compares(r), Alone(r), Follow,
         NEW c \in Challenges, c = txn[r].otp, CodeInv(c), c \notin rivals',
         txn'[r].pc \in {"matched", "missed"}
  PROVE  CodeInv(c)'
<1>1. /\ ~otp[c].consumed /\ otp[c].left > 0 /\ otp'[c] = otp[c] /\ txn'[r].seen = otp[c].left
      /\ otp[c].left \in Int
  BY DEF Compares, Alive, Codes, TypeInv, Challenge0
<1>2. otp[c].drawn /\ Reached(c)
  BY DEF Compares, TypeInv, Reached, Holding, Confirmed
<1>3. c \notin rivals /\ ~Several(Held(c))'
  BY TallyView
<1>4. Held(c)' = {r} /\ Held(c) = {}
  <2>1. r \in Held(c)' /\ r \notin Held(c)
    BY DEF Held, Compares
  <2>2. \A q \in Held(c)' : q = r
    BY <1>3, <2>1 DEF Several
  <2>3. \A q \in Held(c) : q \in Held(c)'
    BY <2>1 DEF Held, Alone
  <2>4. QED
    BY <2>1, <2>2, <2>3
<1>5. tally[c].right = 0 /\ tally[c].wrong + otp[c].left = MaxGuesses
  BY <1>1, <1>2, <1>3, <1>4, Settings DEF CodeInv, Holds, One
<1>6. tally[c].wrong \in 0 .. MaxGuesses
  BY DEF CodeInv
<1>7. CASE txn'[r].pc = "matched"
  <2>1. tally'[c].right = 1 /\ tally'[c].wrong = tally[c].wrong
    BY <1>4, <1>5, <1>6, <1>7, TallyView DEF One, Turns, Compares
  <2>2. Holds("matched", c)' /\ One(Holds("missed", c))' = 0
    BY <1>4, <1>7 DEF Holds, One
  <2>3. QED
    BY <1>1, <1>2, <1>3, <1>4, <1>5, <1>6, <1>7, <2>1, <2>2, Settings DEF CodeInv
<1>8. CASE txn'[r].pc = "missed"
  <2>1. tally'[c].right = 0 /\ tally'[c].wrong = tally[c].wrong + 1
    BY <1>4, <1>5, <1>6, <1>8, TallyView DEF One, Turns, Compares
  <2>2. One(Holds("missed", c))' = 1
    BY <1>4, <1>8 DEF Holds, One
  <2>3. tally'[c].wrong \in 0 .. MaxGuesses
    BY <1>1, <1>5, <1>6, <2>1, Settings
  <2>4. QED
    BY <1>1, <1>2, <1>3, <1>4, <1>5, <1>6, <1>8, <2>1, <2>2, <2>3, Settings DEF CodeInv
<1>9. QED
  BY <1>7, <1>8

(* What the confirmation that compared it does to it.                      *)
LEMMA CodeSettled ==
  ASSUME TypeInv, NEW r \in Requests, Consumes(r) \/ Misses(r), Alone(r), Follow,
         NEW c \in Challenges, c = txn[r].otp, CodeInv(c), c \notin rivals'
  PROVE  CodeInv(c)'
<1>1. c \notin rivals /\ ~Several(Held(c))'
  BY TallyView
<1>2. r \in Held(c) /\ r \notin Held(c)'
  BY DEF Held, Consumes, Misses
<1>3. Held(c) = {r} /\ Held(c)' = {}
  <2>1. \A q \in Held(c) : q = r
    BY <1>1, <1>2 DEF CodeInv, Several
  <2>2. \A q \in Held(c)' : q \in Held(c)
    BY <1>2 DEF Held, Alone
  <2>3. QED
    BY <1>2, <2>1, <2>2
<1>4. otp[c].drawn /\ Reached(c) /\ otp[c] \in Challenge0
  BY DEF Consumes, Misses, TypeInv, Reached, Holding, Confirmed
<1>5. tally[c].right \in {0, 1} /\ tally[c].wrong \in 0 .. MaxGuesses
  BY DEF CodeInv
<1>6. tally'[c].right = tally[c].right /\ tally'[c].wrong = tally[c].wrong
  BY <1>3, <1>5, TallyView DEF One
<1>7. ~Holds("matched", c)' /\ One(Holds("missed", c))' = 0
  BY <1>3 DEF Holds, One
<1>8. CASE Consumes(r)
  <2>1. otp'[c].drawn /\ otp'[c].consumed /\ otp'[c].left = otp[c].left
    BY <1>4, <1>8 DEF Consumes, TypeInv, Challenge0
  <2>2. tally[c].wrong + otp[c].left = MaxGuesses
    BY <1>1, <1>3, <1>4, <1>8, Settings DEF CodeInv, Consumes, Holds, One
  <2>3. QED
    BY <1>1, <1>3, <1>5, <1>6, <1>7, <2>1, <2>2, Settings DEF CodeInv
<1>9. CASE Misses(r)
  <2>1. otp'[c].drawn /\ otp'[c].consumed = otp[c].consumed /\ otp'[c].left = txn[r].seen - 1
    BY <1>4, <1>9 DEF Misses, TypeInv, Challenge0
  <2>2. /\ tally[c].wrong + otp[c].left = MaxGuesses + 1
        /\ txn[r].seen = otp[c].left
        /\ tally[c].right = 1 => otp[c].consumed
    BY <1>1, <1>3, <1>4, <1>9 DEF CodeInv, Misses, Holds, One
  <2>3. tally'[c].wrong + otp'[c].left = MaxGuesses
    BY <1>4, <1>5, <1>6, <2>1, <2>2, Settings DEF Challenge0
  <2>4. QED
    BY <1>1, <1>3, <1>5, <1>6, <1>7, <2>1, <2>2, <2>3, Settings DEF CodeInv
<1>10. QED
  BY <1>8, <1>9

LEMMA CodesStep == ASSUME TypeInv, CodesInv, [MCNext]_mcvars PROVE CodesInv'
<1> SUFFICES ASSUME NEW c \in Challenges PROVE CodeInv(c)'
  BY DEF CodesInv
<1>1. CodeInv(c)
  BY DEF CodesInv
<1>2. CASE UNCHANGED mcvars
  BY <1>1, <1>2 DEF mcvars, vars, history, CodeInv, Held, Reached, Holds
<1>3. CASE Tick /\ Follow
  <2>1. Untouched(c) /\ (Reached(c)' => Reached(c))
    BY <1>3 DEF Tick, Codes, Untouched, Held, Reached
  <2>2. QED
    BY <1>1, <1>3, <2>1, CodeUntouched
<1>4. CASE Restart /\ Forget
  <2>1. Held(c)' = {} /\ ~Reached(c)'
    BY <1>4, Settings DEF Restart, Held, Reached, Idle, Holding, Confirmed, Drawing, Compared
  <2>2. QED
    BY <1>1, <1>4, <2>1 DEF CodeInv, Several, Restart, Forget
<1>5. ASSUME NEW r \in Requests, Receive(r) \/ Serve(r) \/ Abort(r), Follow PROVE CodeInv(c)'
  <2>1. Step(r) /\ Alone(r)
    BY <1>5, StepView
  <2>2. CASE c \in rivals'
    BY <1>5, <2>2, CodeRival
  <2>3. CASE Draws(r) /\ c = txn'[r].otp /\ c \notin rivals'
    BY <1>1, <1>5, <2>1, <2>3, CodeDrawn
  <2>4. CASE (Consumes(r) \/ Misses(r)) /\ c = txn[r].otp /\ c \notin rivals'
    BY <1>1, <1>5, <2>1, <2>4, CodeSettled
  <2>5. CASE Compares(r) /\ c = txn[r].otp /\ txn'[r].pc # "refused" /\ c \notin rivals'
    <3>1. txn'[r].pc \in {"matched", "missed"}
      BY <2>5 DEF Compares
    <3>2. QED
      BY <1>1, <1>5, <2>1, <2>5, <3>1, CodeCompared
  <2>6. CASE Untouched(c) /\ ~(Draws(r) /\ c = txn'[r].otp)
    BY <1>1, <1>5, <2>1, <2>6, CodeUntouched, StepReached
  <2>7. CASE Compares(r) /\ c = txn[r].otp /\ txn'[r].pc = "refused"
    <3>1. Untouched(c)
      BY <2>1, <2>7 DEF Compares, Untouched, Held, Alone, Codes
    <3>2. ~Draws(r)
      BY <2>7 DEF Draws, Compares
    <3>3. QED
      BY <1>1, <1>5, <2>1, <3>1, <3>2, CodeUntouched, StepReached
  <2>8. QED
    BY <2>1, <2>2, <2>3, <2>4, <2>5, <2>6, <2>7, StepTouches
<1>6. QED
  BY <1>2, <1>3, <1>4, <1>5 DEF MCNext, Moves

LEMMA CodesInit == MCInit => CodesInv
<1> SUFFICES ASSUME MCInit, NEW c \in Challenges PROVE CodeInv(c)
  BY DEF CodesInv
<1>1. Held(c) = {} /\ ~Reached(c)
  BY Settings DEF MCInit, Init, Held, Reached, Idle, Holding, Confirmed, Drawing, Compared
<1>2. QED
  BY <1>1, Settings DEF MCInit, CodeInv, Several

LEMMA TypeInit == MCInit => TypeInv
<1>1. Idle.pc = "idle" /\ "idle" \notin Holding
  BY DEF Idle, Holding, Drawing, Confirmed, Compared
<1>2. NoCode \in Challenge0
  BY DEF NoCode, Challenge0
<1>3. QED
  BY <1>1, <1>2, IdleFits DEF MCInit, Init, TypeInv

(* The code of a challenge, whatever the threads do and however often it   *)
(* is saved back: one comparison of it succeeds at most, and the guesses   *)
(* that failed are at most those it was given, unless two confirmations    *)
(* held it compared at once (domain/otp.py, verify_otp_challenge).         *)
THEOREM CodesServeOnce == MCSpec => []CodeServesOnce
<1>1. MCInit => TypeInv /\ CodesInv
  BY TypeInit, CodesInit
<1>2. TypeInv /\ CodesInv /\ [MCNext]_mcvars => (TypeInv /\ CodesInv)'
  BY TypeStep, CodesStep
<1>3. CodesInv => CodeServesOnce
  BY Settings DEF CodesInv, CodeInv, CodeServesOnce
<1>4. QED
  BY <1>1, <1>2, <1>3, PTL DEF MCSpec

-----------------------------------------------------------------------------
(* Which code works.                                                       *)
LEMMA MuddledView ==
  ASSUME Follow, NEW i \in Identifiers, i \notin muddled'
  PROVE  i \notin muddled /\ (Requesting(i)' # {} => ~Several(Resetting(i))')
  BY DEF Follow

(* What nothing changes of an identifier when a request moves.             *)
Settled(i) ==
  /\ store'[i] = store[i] /\ sent'[i] = sent[i] /\ (Spent(i) => Spent(i)')
  /\ Saved(i)' = Saved(i) /\ \A q \in Saved(i) : txn'[q].otp = txn[q].otp
  /\ \A q \in Answers(i)' :
       /\ q \in Answers(i) /\ txn'[q].otp = txn[q].otp
       /\ txn'[q].pc \in Compared => txn[q].pc \in Compared \/ Spent(i)'

LEMMA LastSettled ==
  ASSUME Follow, NEW i \in Identifiers, LastInv(i), i \notin muddled', Settled(i)
  PROVE  LastInv(i)'
<1>1. i \notin muddled /\ (Requesting(i)' # {} => ~Several(Resetting(i))')
  BY MuddledView
<1>2. \A q \in Saved(i)' : store'[i] = txn'[q].otp
  BY <1>1 DEF LastInv, Settled
<1>3. Saved(i)' = {} => /\ store'[i] \in {sent'[i], None}
                        /\ sent'[i] # None => store'[i] = sent'[i] \/ Spent(i)'
  BY <1>1 DEF LastInv, Settled
<1>4. \A q \in Answers(i)' : /\ txn'[q].otp = sent'[i]
                             /\ txn'[q].pc \in Compared => Spent(i)'
  BY <1>1 DEF LastInv, Settled
<1>5. QED
  BY <1>1, <1>2, <1>3, <1>4 DEF LastInv

LEMMA StaysSpent ==
  ASSUME TypeInv, NEW r \in Requests, Step(r), NEW i \in Identifiers, sent'[i] = sent[i], Spent(i)
  PROVE  Spent(i)'
<1>1. sent[i] \in Challenges /\ otp[sent[i]].drawn /\ otp[sent[i]].consumed
  BY DEF TypeInv, Spent
<1>2. otp'[sent[i]].consumed
  BY <1>1, StepCodes
<1>3. QED
  BY <1>2 DEF Spent

(* A request that is about something else, or has nothing to store, leaves *)
(* the code of the identifier alone.                                       *)
LEMMA ElsewhereSettled ==
  ASSUME TypeInv, NEW r \in Requests, Step(r), Alone(r), NEW i \in Identifiers,
         r \notin Resetting(i), r \notin Resetting(i)'
  PROVE  Settled(i)
<1>1. txn[r].id = i => txn[r].op \notin {"request", "confirm"}
  BY DEF Resetting, Requesting, Answers, On
<1>2. Fits(txn[r])
  BY DEF TypeInv
<1>3. store'[i] = store[i] /\ sent'[i] = sent[i]
  <2>1. CASE UNCHANGED <<store, sent>>
    BY <2>1
  <2>2. CASE Saves(r) \/ Sends(r) \/ Returns(r) \/ Deletes(r)
    <3>1. txn[r].id # i
      BY <1>1, <1>2, <2>2 DEF Saves, Sends, Returns, Deletes, Fits, Drawing, Confirmed, Compared
    <3>2. QED
      BY <2>2, <3>1 DEF Saves, Sends, Returns, Deletes, TypeInv
  <2>3. QED
    BY <2>1, <2>2 DEF Step, Leaves, Limits, Begins, Draws, Fetches, Compares, Consumes, Misses,
       Writes, Codes
<1>4. \A q \in Resetting(i) \cup Resetting(i)' : txn'[q] = txn[q]
  BY DEF Resetting, Requesting, Answers, On, Alone
<1>5. /\ Saved(i)' = Saved(i) /\ \A q \in Saved(i) : txn'[q].otp = txn[q].otp
      /\ \A q \in Answers(i)' : q \in Answers(i) /\ txn'[q] = txn[q]
  BY <1>4 DEF Saved, Resetting, Requesting, Answers, On
<1>6. QED
  BY <1>3, <1>5, StaysSpent DEF Settled

LEMMA QuietSettled ==
  ASSUME TypeInv, NEW r \in Requests, Alone(r), NEW i \in Identifiers, LastInv(i), i \notin muddled,
         \/ Leaves(r) \/ Limits(r) \/ Begins(r) \/ Draws(r)
         \/ Compares(r) \/ Consumes(r) \/ Misses(r) \/ Writes(r)
  PROVE  Settled(i)
<1>1. /\ UNCHANGED <<store, sent>> /\ Step(r) /\ txn[r].pc # "saved" /\ txn'[r].pc # "saved"
  BY DEF Step, Leaves, Limits, Begins, Draws, Compares, Consumes, Misses, Writes, Codes, Limiting,
     Compared, Idle
<1>2. Saved(i)' = Saved(i) /\ \A q \in Saved(i) : txn'[q].otp = txn[q].otp
  BY <1>1 DEF Saved, Requesting, Answers, On, Alone
<1>3. Spent(i) => Spent(i)'
  BY <1>1, StaysSpent
<1>4. ASSUME NEW q \in Answers(i)'
      PROVE  /\ q \in Answers(i) /\ txn'[q].otp = txn[q].otp
             /\ txn'[q].pc \in Compared => txn[q].pc \in Compared \/ Spent(i)'
  <2>1. CASE q # r
    BY <1>4, <2>1 DEF Answers, On, Alone
  <2>2. CASE q = r
    <3>1. r \in Requests /\ txn'[r].op = "confirm" /\ txn'[r].id = i
      BY <2>2, <1>4 DEF Answers, On
    <3>2. CASE Leaves(r) \/ Limits(r) \/ Begins(r) \/ Draws(r)
      BY <3>1, <3>2 DEF Leaves, Limits, Begins, Draws, Same, Idle, TypeInv, Fits
    <3>3. CASE Compares(r) \/ Misses(r) \/ Writes(r)
      BY <2>2, <3>1, <3>3 DEF Compares, Misses, Writes, Keeps, Same, Answers, On, Compared
    <3>4. CASE Consumes(r)
      <4>1. txn'[r].otp = txn[r].otp /\ r \in Answers(i)
        BY <3>1, <3>4 DEF Consumes, Keeps, Same, Answers, On
      <4>2. txn[r].otp = sent[i] /\ txn[r].otp \in Challenges
        BY <3>4, <4>1 DEF LastInv, Consumes, TypeInv, Fits, Holding, Confirmed
      <4>3. otp'[sent[i]].consumed
        BY <3>4, <4>2 DEF Consumes, TypeInv, Challenge0
      <4>4. Spent(i)'
        BY <1>1, <4>2, <4>3, Settings DEF Spent
      <4>5. QED
        BY <2>2, <4>1, <4>4
    <3>5. QED
      BY <3>2, <3>3, <3>4
  <2>3. QED
    BY <2>1, <2>2
<1>5. QED
  BY <1>1, <1>2, <1>3, <1>4 DEF Settled

(* A confirmation starts with the challenge of the store, which is the one *)
(* that was sent last when no request for a code is under way.             *)
LEMMA LastFetched ==
  ASSUME TypeInv, NEW r \in Requests, Fetches(r), Alone(r), Follow, NEW i \in Identifiers,
         LastInv(i), i \notin muddled', txn'[r].id = i
  PROVE  LastInv(i)'
<1>1. i \notin muddled /\ (Requesting(i)' # {} => ~Several(Resetting(i))')
  BY MuddledView
<1>2. r \in Resetting(i)' /\ r \notin Requesting(i)' /\ r \notin Requesting(i)
  BY DEF Fetches, Resetting, Requesting, Answers, On, TypeInv, Fits, Idle
<1>3. Requesting(i)' = {} /\ Requesting(i) = {}
  <2>1. Requesting(i)' = {}
    BY <1>1, <1>2 DEF Several, Resetting
  <2>2. \A q \in Requesting(i) : q \in Requesting(i)'
    BY <1>2 DEF Requesting, Answers, On, Alone
  <2>3. QED
    BY <2>1, <2>2
<1>4. Saved(i) = {} /\ Saved(i)' = {}
  BY <1>3 DEF Saved
<1>5. store[i] = sent[i] /\ UNCHANGED Codes /\ txn'[r].otp = store[i]
  BY <1>1, <1>4 DEF LastInv, Fetches
<1>6. \A q \in Answers(i)' : /\ txn'[q].otp = sent'[i]
                             /\ txn'[q].pc \in Compared => Spent(i)'
  <2>1. SUFFICES ASSUME NEW q \in Answers(i)'
                 PROVE  txn'[q].otp = sent'[i] /\ (txn'[q].pc \in Compared => Spent(i)')
    OBVIOUS
  <2>2. CASE q = r
    BY <1>5, <2>2 DEF Fetches, Compared, Codes
  <2>3. CASE q # r
    <3>1. q \in Answers(i) /\ txn'[q] = txn[q]
      BY <2>1, <2>3 DEF Answers, On, Alone
    <3>2. QED
      BY <1>1, <1>5, <3>1 DEF LastInv, Spent, Codes
  <2>4. QED
    BY <2>2, <2>3
<1>7. QED
  BY <1>1, <1>4, <1>5, <1>6 DEF LastInv, Codes, Spent

(* A request for a code stores its challenge, then sends the code of it.   *)
LEMMA LastSent ==
  ASSUME TypeInv, NEW r \in Requests, Saves(r) \/ Sends(r), Alone(r), Follow,
         NEW i \in Identifiers, LastInv(i), i \notin muddled', txn[r].id = i
  PROVE  LastInv(i)'
<1>1. i \notin muddled /\ (Requesting(i)' # {} => ~Several(Resetting(i))')
  BY MuddledView
<1>2. /\ txn[r].op = "request" /\ txn'[r].op = "request" /\ txn'[r].id = i
      /\ txn'[r].otp = txn[r].otp
  BY DEF Saves, Sends, Keeps, Same, TypeInv, Fits, Drawing
<1>3. r \in Requesting(i)' /\ \A q \in Resetting(i)' : q = r
  BY <1>1, <1>2 DEF Requesting, Resetting, Answers, On, Several
<1>4. Answers(i)' = {}
  <2>1. \A q \in Answers(i)' : q = r /\ txn'[q].op = "confirm"
    BY <1>3 DEF Resetting, Answers, On
  <2>2. QED
    BY <1>2, <2>1
<1>5. \A q \in Saved(i)' : q = r
  BY <1>3 DEF Saved, Resetting
<1>6. CASE Saves(r)
  <2>1. r \in Saved(i)' /\ store'[i] = txn[r].otp
    BY <1>2, <1>3, <1>6 DEF Saves, Saved, TypeInv
  <2>2. QED
    BY <1>1, <1>2, <1>4, <1>5, <2>1 DEF LastInv
<1>7. CASE Sends(r)
  <2>1. r \notin Saved(i)'
    BY <1>7 DEF Sends, Saved
  <2>2. Saved(i)' = {}
    BY <1>5, <2>1
  <2>3. sent'[i] = txn[r].otp /\ store' = store
    BY <1>7 DEF Sends, TypeInv
  <2>4. store[i] = txn[r].otp
    BY <1>1, <1>2, <1>7 DEF LastInv, Saved, Requesting, Answers, On, Sends
  <2>5. QED
    BY <1>1, <1>4, <2>2, <2>3, <2>4 DEF LastInv
<1>8. QED
  BY <1>6, <1>7

(* A confirmation puts its challenge back, or deletes what is there.       *)
LEMMA LastStored ==
  ASSUME TypeInv, NEW r \in Requests, Returns(r) \/ Deletes(r), Alone(r), Follow,
         NEW i \in Identifiers, LastInv(i), i \notin muddled', txn[r].id = i
  PROVE  LastInv(i)'
<1>1. i \notin muddled /\ (Requesting(i)' # {} => ~Several(Resetting(i))')
  BY MuddledView
<1>2. txn[r].op = "confirm" /\ txn[r].otp \in Challenges
  BY DEF Returns, Deletes, TypeInv, Fits, Confirmed, Compared, Holding
<1>3. r \in Answers(i) /\ r \in Resetting(i) /\ r \notin Requesting(i)
  BY <1>2 DEF Answers, On, Resetting, Requesting
<1>4. Requesting(i) = {}
  BY <1>1, <1>3 DEF LastInv, Several, Resetting
<1>5. Saved(i) = {} /\ Saved(i)' = {}
  <2>1. \A q \in Saved(i)' : q \in Requesting(i)
    BY DEF Saved, Requesting, Answers, On, Alone, Returns, Deletes, Idle
  <2>2. QED
    BY <1>4, <2>1 DEF Saved
<1>6. /\ txn[r].otp = sent[i] /\ sent'[i] = sent[i] /\ otp' = otp /\ sent[i] # None
      /\ Spent(i)' = Spent(i)
  BY <1>1, <1>2, <1>3, Settings DEF LastInv, Returns, Deletes, Spent
<1>7. ASSUME NEW q \in Answers(i)'
      PROVE  txn'[q].otp = sent'[i] /\ (txn'[q].pc \in Compared => Spent(i)')
  <2>1. CASE q # r
    <3>1. q \in Answers(i) /\ txn'[q] = txn[q]
      BY <1>7, <2>1 DEF Answers, On, Alone
    <3>2. QED
      BY <1>1, <1>6, <3>1 DEF LastInv
  <2>2. CASE q = r
    <3>1. Deletes(r)
      BY <1>7, <2>2 DEF Answers, On, Returns, Idle
    <3>2. QED
      BY <1>1, <1>3, <1>6, <2>2, <3>1 DEF Deletes, Keeps, LastInv, Compared
  <2>3. QED
    BY <2>1, <2>2
<1>8. /\ store'[i] \in {sent[i], None}
      /\ store'[i] = sent[i] \/ Spent(i)
  <2>1. CASE Returns(r)
    BY <1>6, <2>1 DEF Returns, TypeInv
  <2>2. CASE Deletes(r)
    BY <1>1, <1>3, <2>2 DEF Deletes, LastInv, Compared, TypeInv
  <2>3. QED
    BY <2>1, <2>2
<1>9. QED
  BY <1>1, <1>5, <1>6, <1>7, <1>8 DEF LastInv

LEMMA LastsStep == ASSUME TypeInv, LastsInv, [MCNext]_mcvars PROVE LastsInv'
<1> SUFFICES ASSUME NEW i \in Identifiers PROVE LastInv(i)'
  BY DEF LastsInv
<1>1. LastInv(i)
  BY DEF LastsInv
<1>2. CASE UNCHANGED mcvars
  BY <1>1, <1>2 DEF mcvars, vars, history, LastInv, Saved, Spent, Requesting, Resetting, Answers, On
<1>3. CASE Tick /\ Follow
  <2>1. CASE i \in muddled'
    BY <2>1 DEF LastInv
  <2>2. CASE i \notin muddled'
    <3>1. Settled(i)
      BY <1>3 DEF Tick, Codes, Settled, Saved, Spent, Requesting, Answers, On
    <3>2. QED
      BY <1>1, <1>3, <2>2, <3>1, LastSettled
  <2>3. QED
    BY <2>1, <2>2
<1>4. CASE Restart /\ Forget
  BY <1>4 DEF Forget, LastInv
<1>5. ASSUME NEW r \in Requests, Receive(r) \/ Serve(r) \/ Abort(r), Follow PROVE LastInv(i)'
  <2>1. Step(r) /\ Alone(r)
    BY <1>5, StepView
  <2>2. CASE i \in muddled'
    BY <2>2 DEF LastInv
  <2>3. CASE i \notin muddled' /\ r \notin Resetting(i) /\ r \notin Resetting(i)'
    BY <1>1, <1>5, <2>1, <2>3, ElsewhereSettled, LastSettled
  <2>4. CASE i \notin muddled' /\ (\/ Leaves(r) \/ Limits(r) \/ Begins(r) \/ Draws(r)
                                   \/ Compares(r) \/ Consumes(r) \/ Misses(r) \/ Writes(r))
    BY <1>1, <1>5, <2>1, <2>4, MuddledView, QuietSettled, LastSettled
  <2>5. CASE i \notin muddled' /\ Fetches(r) /\ txn'[r].id = i
    BY <1>1, <1>5, <2>1, <2>5, LastFetched
  <2>6. CASE i \notin muddled' /\ (Saves(r) \/ Sends(r)) /\ txn[r].id = i
    BY <1>1, <1>5, <2>1, <2>6, LastSent
  <2>7. CASE i \notin muddled' /\ (Returns(r) \/ Deletes(r)) /\ txn[r].id = i
    BY <1>1, <1>5, <2>1, <2>7, LastStored
  <2>8. (r \notin Resetting(i) /\ r \notin Resetting(i)')
        \/ (Fetches(r) /\ txn'[r].id = i) \/ ~(\/ Saves(r) \/ Sends(r) \/ Fetches(r)
                                                \/ Returns(r) \/ Deletes(r))
        \/ (~Fetches(r) /\ txn[r].id = i)
    <3>1. CASE Fetches(r) /\ txn'[r].id # i
      <4>1. txn[r] = Idle
        BY <3>1 DEF Fetches, TypeInv, Fits
      <4>2. QED
        BY <3>1, <4>1 DEF Resetting, Requesting, Answers, On, Idle
    <3>2. CASE (\/ Saves(r) \/ Sends(r) \/ Returns(r) \/ Deletes(r)) /\ txn[r].id # i
      BY <3>2 DEF Saves, Sends, Returns, Deletes, Keeps, Same, Resetting, Requesting, Answers, On, Idle
    <3>3. CASE (\/ Saves(r) \/ Sends(r) \/ Returns(r) \/ Deletes(r)) /\ txn[r].id = i
      BY <3>3 DEF Saves, Sends, Returns, Deletes, Fetches
    <3>4. QED
      BY <3>1, <3>2, <3>3
  <2>9. QED
    BY <2>1, <2>2, <2>3, <2>4, <2>5, <2>6, <2>7, <2>8 DEF Step
<1>6. QED
  BY <1>2, <1>3, <1>4, <1>5 DEF MCNext, Moves

LEMMA LastsInit == MCInit => LastsInv
<1> SUFFICES ASSUME MCInit, NEW i \in Identifiers PROVE LastInv(i)
  BY DEF LastsInv
<1>1. \A r \in Requests : txn[r].op = "none"
  BY DEF MCInit, Init, Idle
<1>2. Requesting(i) = {} /\ Answers(i) = {}
  BY <1>1 DEF Requesting, Answers, On
<1>3. Saved(i) = {}
  BY <1>2 DEF Saved
<1>4. QED
  BY <1>2, <1>3 DEF MCInit, Init, LastInv

(* The code that went out last is the one that works, for an identifier    *)
(* whose requests for a code met nothing else of its own: refused          *)
(* confirmations may have saved the challenge back any number of times,    *)
(* and commits may have failed (password_reset.py).                        *)
THEOREM LastCodeIsGood == MCSpec => []LastCodeWorks
<1>1. MCInit => TypeInv /\ LastsInv
  BY TypeInit, LastsInit
<1>2. TypeInv /\ LastsInv /\ [MCNext]_mcvars => (TypeInv /\ LastsInv)'
  BY TypeStep, LastsStep
<1>3. TypeInv /\ LastsInv => LastCodeWorks
  <2> SUFFICES ASSUME TypeInv, LastsInv, NEW i \in Identifiers \ muddled, sent[i] # None,
                      \A r \in Requests : ~(txn[r].op \in {"request", "confirm"} /\ txn[r].id = i)
               PROVE  store[i] = sent[i] \/ otp[sent[i]].consumed
    BY DEF LastCodeWorks
  <2>1. Saved(i) = {}
    BY DEF Saved, Requesting, Answers, On
  <2>2. LastInv(i)
    BY DEF LastsInv
  <2>3. QED
    BY <2>1, <2>2 DEF LastInv, Spent
<1>4. QED
  BY <1>1, <1>2, <1>3, PTL DEF MCSpec

-----------------------------------------------------------------------------
(* The limiter.  A list of failures, and how many of them are later than u. *)
Failure     == [at : Int, nth : Nat]
IsList(S)   == S \subseteq Failure /\ IsFiniteSet(S)
Since(S, u) == Cardinality({f \in S : f.at > u})
Before(S, t) == \A f \in S : f.at <= t

(* The list F of a key tells of the failures T of the window, of which the *)
(* last d are still to be recorded.                                        *)
Covers(F, T, n, d) == \A u \in Int : u >= n - Window => Since(T, u) <= Since(F, u) + d

(* A key that nobody uses: without a lock it is below the threshold; a    *)
(* lock was set after the failures that it is for and outlasts them.       *)
Free(F, L, T, n) ==
  /\ L = 0 => Cardinality(F) < MaxFailures /\ Covers(F, T, n, 0)
  /\ L # 0 => Cardinality(T) <= MaxFailures /\ Before(T, L - Lockout)

(* A key that the request x alone uses, by its program counter.            *)
Used(x, F, L, T, n) ==
  /\ x.pc = "check" => Free(F, L, T, n)
  /\ x.pc \in {"unlock", "forget", "known", "free"} => T = {}
  /\ x.pc \notin {"check", "unlock"} => L = 0
  /\ x.pc = "free" => F = {}
  /\ x.pc \in {"find", "drawn", "saved", "failed", "known"} => Cardinality(F) < MaxFailures
  /\ x.pc \in {"find", "drawn", "saved"} => Covers(F, T, n, 0)
  /\ x.pc = "failed" => Covers(F, T, n, 1)
  /\ x.pc = "counted" => /\ Covers(x.recent, T, n, 0) /\ Cardinality(x.recent) <= MaxFailures
                         /\ Before(T, x.at)
  /\ x.pc = "full" => Cardinality(T) <= MaxFailures /\ Before(T, x.at)

KeyInv(k) ==
  k \notin crowded =>
    /\ ~Several(On(k))
    /\ On(k) = {} => Free(failures[k], locked[k], tried[k], now)
    /\ \A r \in On(k) : Used(txn[r], failures[k], locked[k], tried[k], now)

ListInv ==
  /\ DOMAIN failures = Keys /\ DOMAIN locked = Keys
  /\ \A k \in Keys :
       /\ IsList(failures[k]) /\ locked[k] \in Nat
       /\ IsList(tried[k]) /\ \A f \in tried[k] : now - Window < f.at /\ f.at <= now
  /\ \A r \in Requests : IsList(txn[r].recent) /\ txn[r].at \in Nat

LimitInv == ListInv /\ \A k \in Keys : KeyInv(k)

LEMMA LimitSettings ==
  /\ MaxFailures \in Nat \ {0} /\ Window \in Nat \ {0} /\ Lockout \in Nat /\ Lockout >= Window
  BY SettingsAssumption

LEMMA NoFailures == IsList({}) /\ Cardinality({}) = 0 /\ \A u : Since({}, u) = 0
<1>1. \A u : {f \in {} : f.at > u} = {}
  OBVIOUS
<1>2. QED
  BY <1>1, FS_EmptySet DEF IsList, Since

LEMMA SinceCounts ==
  ASSUME NEW S, IsList(S)
  PROVE  Cardinality(S) \in Nat /\ \A u : Since(S, u) \in Nat /\ Since(S, u) <= Cardinality(S)
<1>1. \A u : {f \in S : f.at > u} \subseteq S
  OBVIOUS
<1>2. QED
  BY <1>1, FS_Subset, FS_CardinalityType DEF IsList, Since

(* A filter forgets nothing of the window that it keeps.                   *)
LEMMA WindowCounts ==
  ASSUME NEW S, IsList(S), NEW n \in Int
  PROVE  /\ IsList(InWindow(S, n)) /\ Cardinality(InWindow(S, n)) <= Cardinality(S)
         /\ \A u \in Int : u >= n - Window => Since(InWindow(S, n), u) = Since(S, u)
         /\ \A t : Before(S, t) => Before(InWindow(S, n), t)
<1>1. InWindow(S, n) \subseteq S
  BY DEF InWindow
<1>2. IsList(InWindow(S, n)) /\ Cardinality(InWindow(S, n)) <= Cardinality(S)
  BY <1>1, FS_Subset DEF IsList
<1>3. ASSUME NEW u \in Int, u >= n - Window
      PROVE  Since(InWindow(S, n), u) = Since(S, u)
  <2>1. \A f \in S : f.at \in Int
    BY DEF IsList, Failure
  <2>2. {f \in InWindow(S, n) : f.at > u} = {f \in S : f.at > u}
    BY <1>3, <2>1, LimitSettings DEF InWindow
  <2>3. QED
    BY <2>2 DEF Since
<1>4. QED
  BY <1>1, <1>2, <1>3 DEF Before

(* A failure at t is one more, later than whatever is before t.            *)
LEMMA FailingCounts ==
  ASSUME NEW S, IsList(S), NEW t \in Int
  PROVE  /\ IsList(Failing(S, t)) /\ Cardinality(Failing(S, t)) = Cardinality(S) + 1
         /\ \A f \in Failing(S, t) : f \in S \/ f.at = t
         /\ \A u \in Int : /\ Since(Failing(S, t), u) <= Since(S, u) + 1
                           /\ Since(S, u) <= Since(Failing(S, t), u)
                           /\ u < t => Since(Failing(S, t), u) = Since(S, u) + 1
<1> DEFINE c == Cardinality(S)
           failure(n) == [at |-> t, nth |-> n]
           N == {failure(n) : n \in 0 .. c}
<1>1. c \in Nat
  BY SinceCounts
<1>2. \E n \in 0 .. c : failure(n) \notin S
  <2>1. SUFFICES ASSUME N \subseteq S PROVE FALSE
    OBVIOUS
  <2>2. IsFiniteSet(0 .. c) /\ Cardinality(0 .. c) = c + 1
    BY <1>1, FS_Interval
  <2>3. IsFiniteSet(N) /\ Cardinality(N) <= c
    BY <2>1, FS_Subset DEF IsList
  <2>4. [n \in 0 .. c |-> failure(n)] \in Injection(0 .. c, N)
    <3>1. [n \in 0 .. c |-> failure(n)] \in [0 .. c -> N]
      OBVIOUS
    <3>2. \A a, b \in 0 .. c : failure(a) = failure(b) => a = b
      OBVIOUS
    <3>3. QED
      BY <3>1, <3>2 DEF Injection, IsInjective
  <2>5. Cardinality(0 .. c) <= Cardinality(N)
    BY <2>2, <2>3, <2>4, FS_Injection
  <2>6. QED
    BY <1>1, <2>2, <2>3, <2>5, FS_CardinalityType
<1> DEFINE m == CHOOSE n \in 0 .. c : failure(n) \notin S
           x == failure(m)
<1>3. m \in 0 .. c /\ x \notin S
  BY <1>2
<1>4. Failing(S, t) = S \cup {x}
  BY DEF Failing
<1>5. x \in Failure /\ x.at = t
  BY <1>1, <1>3 DEF Failure
<1> HIDE DEF x, m, c
<1>6. IsList(Failing(S, t)) /\ Cardinality(Failing(S, t)) = Cardinality(S) + 1
  BY <1>3, <1>4, <1>5, FS_AddElement DEF IsList
<1>7. ASSUME NEW u \in Int
      PROVE  /\ u < t => Since(Failing(S, t), u) = Since(S, u) + 1
             /\ ~(u < t) => Since(Failing(S, t), u) = Since(S, u)
  <2> DEFINE A == {f \in S : f.at > u}
  <2>1. IsFiniteSet(A) /\ x \notin A
    BY <1>3, FS_Subset DEF IsList
  <2>2. CASE u < t
    <3>1. {f \in S \cup {x} : f.at > u} = A \cup {x}
      BY <1>5, <2>2
    <3>2. QED
      BY <1>4, <2>1, <2>2, <3>1, FS_AddElement DEF Since
  <2>3. CASE ~(u < t)
    <3>1. {f \in S \cup {x} : f.at > u} = A
      BY <1>5, <2>3
    <3>2. QED
      BY <1>4, <2>3, <3>1 DEF Since
  <2>4. QED
    BY <2>2, <2>3
<1>8. ASSUME NEW u \in Int
      PROVE  /\ Since(Failing(S, t), u) <= Since(S, u) + 1
             /\ Since(S, u) <= Since(Failing(S, t), u)
             /\ u < t => Since(Failing(S, t), u) = Since(S, u) + 1
  <2>1. Since(S, u) \in Nat
    BY SinceCounts
  <2>2. QED
    BY <1>7, <2>1
<1>9. \A f \in Failing(S, t) : f \in S \/ f.at = t
  BY <1>4, <1>5
<1>10. QED
  BY <1>6, <1>8, <1>9

(* Time only takes failures out of the window.                             *)
LEMMA TimePasses ==
  ASSUME NEW F, NEW T, IsList(T), NEW n \in Nat, NEW m \in Nat, m >= n, NEW L, NEW x
  PROVE  /\ \A d : Covers(F, T, n, d) => Covers(F, InWindow(T, m), m, d)
         /\ Free(F, L, T, n) => Free(F, L, InWindow(T, m), m)
         /\ Used(x, F, L, T, n) => Used(x, F, L, InWindow(T, m), m)
<1>1. ASSUME NEW G, NEW d, Covers(G, T, n, d) PROVE Covers(G, InWindow(T, m), m, d)
  BY <1>1, WindowCounts, LimitSettings DEF Covers
<1>2. /\ Cardinality(T) \in Nat /\ Cardinality(InWindow(T, m)) \in Nat
      /\ Cardinality(InWindow(T, m)) <= Cardinality(T)
      /\ \A t : Before(T, t) => Before(InWindow(T, m), t)
      /\ T = {} => InWindow(T, m) = {}
  BY WindowCounts, SinceCounts DEF InWindow
<1>3. Free(F, L, T, n) => Free(F, L, InWindow(T, m), m)
  BY <1>1, <1>2, LimitSettings DEF Free
<1>4. Used(x, F, L, T, n) => Used(x, F, L, InWindow(T, m), m)
  BY <1>1, <1>2, <1>3, LimitSettings DEF Used
<1>5. QED
  BY <1>1, <1>3, <1>4

(* What a step of a request does to the limiter of its key.                *)
Walks(r, from, to) == txn[r].pc = from /\ txn'[r].pc = to /\ Same(r)
Quits(r, from)     == txn[r].pc = from /\ txn'[r] = Idle
Limited(r)         == txn[r].op \in {"login", "request"} /\ Key(r) \in Keys
Lists(r) == /\ txn'[r].at \in {txn[r].at, now, 0}
            /\ \/ txn'[r].recent \in {txn[r].recent, {}}
               \/ Limited(r) /\ txn'[r].recent = Failing(InWindow(failures[Key(r)], now), now)

Reading(r) ==
  /\ UNCHANGED Counters
  /\ \/ Walks(r, "check", "find") /\ locked[Key(r)] = 0
     \/ Walks(r, "check", "unlock") /\ locked[Key(r)] \in 1 .. now
     \/ Walks(r, "find", "known") \/ Walks(r, "find", "failed") \/ Walks(r, "find", "drawn")
     \/ Walks(r, "drawn", "saved") \/ Walks(r, "saved", "failed")
     \/ Quits(r, "check") \/ Quits(r, "find")
     \/ /\ Walks(r, "failed", "counted") /\ txn'[r].at = now
        /\ txn'[r].recent = Failing(InWindow(failures[Key(r)], now), now)

Listing(r) ==
  /\ locked' = locked
  /\ \/ /\ Walks(r, "forget", "find") \/ Walks(r, "known", "free")
        /\ failures' = [failures EXCEPT ![Key(r)] = {}]
     \/ /\ failures' = [failures EXCEPT ![Key(r)] = txn[r].recent]
        /\ \/ Quits(r, "counted") /\ Cardinality(txn[r].recent) < MaxFailures
           \/ Walks(r, "counted", "full") /\ txn'[r].at = txn[r].at

Locking(r) ==
  /\ failures' = failures
  /\ \/ /\ Walks(r, "unlock", "forget") \/ Quits(r, "free")
        /\ locked' = [locked EXCEPT ![Key(r)] = 0]
     \/ /\ Quits(r, "full")
        /\ locked' = [locked EXCEPT ![Key(r)] = txn[r].at + Lockout]

Entering(r)  == /\ UNCHANGED Counters /\ txn[r] = Idle /\ txn'[r].pc = "check"
Elsewhere(r) == /\ UNCHANGED Counters
                /\ txn[r].op \notin {"login", "request"} /\ txn'[r].op \notin {"login", "request"}

LimiterStep(r) == (Limited(r) /\ (Reading(r) \/ Listing(r) \/ Locking(r))) \/ Entering(r) \/ Elsewhere(r)

LEMMA InKeys ==
  ASSUME TypeInv, NEW r \in Requests, txn[r].op \in {"login", "request"} \/ txn[r].pc \in Limiting
  PROVE  Limited(r)
<1>1. Fits(txn[r])
  BY DEF TypeInv
<1>2. txn[r].op \in {"login", "request"} /\ txn[r].pc # "idle"
  BY <1>1 DEF Fits, Idle
<1>3. QED
  BY <1>1, <1>2 DEF Fits, Limited, Key, Keys

LEMMA GotoLists ==
  ASSUME TypeInv, NEW r \in Requests, NEW p, Goto(r, p), now' = now
  PROVE  /\ Same(r) /\ txn'[r].pc = p /\ Alone(r)
         /\ txn'[r].at = txn[r].at /\ txn'[r].recent = txn[r].recent
<1> DEFINE y == [txn[r] EXCEPT !.pc = p]
<1>1. txn' = [txn EXCEPT ![r] = y]
  BY DEF Goto
<1>2. y.at = txn[r].at /\ y.recent = txn[r].recent
  BY Reads DEF Fields
<1> HIDE DEF y
<1>3. txn'[r] = y
  BY <1>1, Moved
<1>4. QED
  BY <1>2, <1>3, GotoView DEF Keeps

LEMMA EndLists ==
  ASSUME TypeInv, NEW r \in Requests, End(r), now' = now
  PROVE  /\ txn'[r] = Idle /\ Alone(r) /\ txn'[r].at = 0 /\ txn'[r].recent = {}
         /\ txn'[r].op = "none"
  BY EndView DEF Idle

LEMMA LimitLists ==
  ASSUME TypeInv, NEW r \in Requests, Limit(r)
  PROVE  Lists(r) /\ LimiterStep(r)
<1> USE DEF Lists, LimiterStep, Reading, Listing, Locking, Walks, Quits
<1>1. CASE Check(r)
  <2>1. Limited(r) /\ UNCHANGED Counters /\ txn[r].pc = "check" /\ now' = now
    BY <1>1, InKeys DEF Check, Limiting
  <2>2. CASE End(r)
    BY <2>1, <2>2, EndLists
  <2>3. CASE locked[Key(r)] = 0 /\ Goto(r, "find")
    BY <2>1, <2>3, GotoLists
  <2>4. CASE locked[Key(r)] \in 1 .. now /\ Goto(r, "unlock")
    BY <2>1, <2>4, GotoLists
  <2>5. QED
    BY <1>1, <2>2, <2>3, <2>4 DEF Check
<1>2. CASE PopLock(r)
  BY <1>2, InKeys, GotoLists DEF PopLock, Limiting
<1>3. CASE PopFailures(r)
  BY <1>3, InKeys, GotoLists DEF PopFailures, Limiting
<1>4. CASE RecordRead(r)
  <2> DEFINE v == Failing(InWindow(failures[Key(r)], now), now)
             y == [txn[r] EXCEPT !.pc = "counted", !.at = now, !.recent = v]
  <2>1. /\ txn' = [txn EXCEPT ![r] = y] /\ now' = now /\ txn[r].pc = "failed"
        /\ UNCHANGED Counters /\ Limited(r)
    BY <1>4, InKeys DEF RecordRead, Limiting
  <2>2. SameOf(txn[r], y) /\ y.pc = "counted" /\ y.at = now /\ y.recent = v
    BY Reads DEF SameOf, Fields
  <2> HIDE DEF y
  <2>3. txn'[r] = y
    BY <2>1, Moved
  <2>4. QED
    BY <2>1, <2>2, <2>3 DEF Same, SameOf
<1>5. CASE RecordWrite(r)
  <2>1. /\ txn[r].pc = "counted" /\ locked' = locked /\ now' = now /\ Limited(r)
        /\ failures' = [failures EXCEPT ![Key(r)] = txn[r].recent]
    BY <1>5, InKeys DEF RecordWrite, Limiting
  <2>2. CASE Cardinality(txn[r].recent) < MaxFailures
    BY <1>5, <2>1, <2>2, EndLists DEF RecordWrite
  <2>3. CASE ~(Cardinality(txn[r].recent) < MaxFailures)
    <3> DEFINE y == [txn[r] EXCEPT !.pc = "full", !.recent = {}]
    <3>1. txn' = [txn EXCEPT ![r] = y]
      BY <1>5, <2>3 DEF RecordWrite
    <3>2. SameOf(txn[r], y) /\ y.pc = "full" /\ y.at = txn[r].at /\ y.recent = {}
      BY Reads DEF SameOf, Fields
    <3> HIDE DEF y
    <3>3. txn'[r] = y
      BY <2>1, <3>1, Moved
    <3>4. QED
      BY <2>1, <3>2, <3>3 DEF Same, SameOf
  <2>4. QED
    BY <2>2, <2>3
<1>6. CASE RecordLock(r)
  BY <1>6, InKeys, EndLists DEF RecordLock, Limiting
<1>7. CASE ResetFailures(r)
  BY <1>7, InKeys, GotoLists DEF ResetFailures, Limiting
<1>8. CASE ResetLock(r)
  BY <1>8, InKeys, EndLists DEF ResetLock, Limiting
<1>9. QED
  BY <1>1, <1>2, <1>3, <1>4, <1>5, <1>6, <1>7, <1>8 DEF Limit

LEMMA ReceiveLists ==
  ASSUME TypeInv, NEW r \in Requests, Receive(r)
  PROVE  Lists(r) /\ (Entering(r) \/ Elsewhere(r))
<1> PICK i \in Identifiers :
      \/ \E p \in Passwords : Login(r, i, p)
      \/ AskReset(r, i)
      \/ \E c \in {d \in Challenges : otp[d].drawn} \cup {None}, p \in Passwords :
           Confirm(r, i, c, p)
  BY DEF Receive
<1>1. txn[r].pc = "idle" => txn[r] = Idle
  BY DEF TypeInv, Fits
<1>2. ASSUME NEW p, Login(r, i, p) PROVE Lists(r) /\ Entering(r)
  <2> DEFINE y == [Idle EXCEPT !.pc = "check", !.op = "login", !.id = i, !.pass = p]
  <2>1. txn' = [txn EXCEPT ![r] = y] /\ now' = now /\ txn[r] = Idle /\ UNCHANGED Counters
    BY <1>1, <1>2 DEF Login
  <2>2. y.pc = "check" /\ y.at = 0 /\ y.recent = {}
    BY DEF Idle
  <2> HIDE DEF y
  <2>3. QED
    BY <2>1, <2>2, Moved DEF Lists, Entering
<1>3. CASE AskReset(r, i)
  <2> DEFINE y == [Idle EXCEPT !.pc = "check", !.op = "request", !.id = i]
  <2>1. txn' = [txn EXCEPT ![r] = y] /\ now' = now /\ txn[r] = Idle /\ UNCHANGED Counters
    BY <1>1, <1>3 DEF AskReset
  <2>2. y.pc = "check" /\ y.at = 0 /\ y.recent = {}
    BY DEF Idle
  <2> HIDE DEF y
  <2>3. QED
    BY <2>1, <2>2, Moved DEF Lists, Entering
<1>4. ASSUME NEW c, NEW p, Confirm(r, i, c, p) PROVE Lists(r) /\ Elsewhere(r)
  <2> DEFINE y == [Idle EXCEPT !.pc = "fetched", !.op = "confirm", !.id = i, !.pass = p,
                               !.code = c, !.otp = store[i]]
  <2>1. txn' = [txn EXCEPT ![r] = y] /\ now' = now /\ txn[r] = Idle /\ UNCHANGED Counters
    BY <1>1, <1>4 DEF Confirm
  <2>2. y.op = "confirm" /\ y.at = 0 /\ y.recent = {} /\ Idle.op = "none"
    BY DEF Idle
  <2> HIDE DEF y
  <2>3. QED
    BY <2>1, <2>2, Moved DEF Lists, Elsewhere
<1>5. QED
  BY <1>2, <1>3, <1>4

LEMMA ServeLists ==
  ASSUME TypeInv, NEW r \in Requests, Verify(r) \/ Challenge(r) \/ Abort(r)
  PROVE  Lists(r) /\ LimiterStep(r)
<1> USE DEF Lists, LimiterStep, Reading, Walks, Quits
<1>1. CASE Verify(r)
  <2> DEFINE p == IF Known(txn[r].id, txn[r].pass) THEN "known" ELSE "failed"
             y == [txn[r] EXCEPT !.pc = p, !.pass = None]
  <2>1. /\ txn' = [txn EXCEPT ![r] = y] /\ now' = now /\ txn[r].pc = "find"
        /\ UNCHANGED Counters /\ Limited(r)
    BY <1>1, InKeys DEF Verify, Limiting
  <2>2. p \in {"known", "failed"}
    OBVIOUS
  <2> HIDE DEF p
  <2>3. SameOf(txn[r], y) /\ y.pc = p /\ y.at = txn[r].at /\ y.recent = txn[r].recent
    BY Reads DEF SameOf, Fields
  <2> HIDE DEF y
  <2>4. txn'[r] = y
    BY <2>1, Moved
  <2>5. QED
    BY <2>1, <2>2, <2>3, <2>4 DEF Same, SameOf
<1>2. CASE Draw(r) /\ Holder[txn[r].id] = None
  <2>1. Goto(r, "failed") /\ now' = now /\ txn[r].pc = "find" /\ UNCHANGED Counters
    BY <1>2 DEF Draw, Goto
  <2>2. QED
    BY <2>1, GotoLists, InKeys DEF Limiting
<1>3. CASE Draw(r) /\ Holder[txn[r].id] # None
  <2>1. PICK c \in Undrawn : txn' = [txn EXCEPT ![r].pc = "drawn", ![r].otp = c]
    BY <1>3 DEF Draw
  <2> DEFINE y == [txn[r] EXCEPT !.pc = "drawn", !.otp = c]
  <2>2. /\ SameOf(txn[r], y) /\ y.pc = "drawn"
        /\ y.at = txn[r].at /\ y.recent = txn[r].recent
    BY Reads DEF SameOf, Fields
  <2>3. txn' = [txn EXCEPT ![r] = y]
    BY <2>1
  <2> HIDE DEF y
  <2>4. /\ txn'[r] = y /\ txn[r].pc = "find" /\ UNCHANGED Counters /\ Limited(r)
    BY <1>3, <2>3, Moved, InKeys DEF Draw, Limiting
  <2>5. QED
    BY <2>2, <2>4 DEF Same, SameOf
<1>4. CASE Save(r) \/ Send(r)
  <2>1. txn[r].op = "request"
    BY <1>4 DEF Save, Send, TypeInv, Fits, Drawing
  <2>2. QED
    BY <1>4, <2>1, InKeys, GotoLists DEF Save, Send
<1>5. CASE Abort(r)
  <2>1. txn'[r] = Idle /\ txn'[r].at = 0 /\ txn'[r].recent = {} /\ txn'[r].op = "none"
        /\ UNCHANGED Counters
    BY <1>5, EndLists DEF Abort
  <2>2. CASE txn[r].pc = "find"
    BY <2>1, <2>2, InKeys DEF Limiting
  <2>3. CASE txn[r].pc # "find"
    <3>1. txn[r].op = "confirm"
      BY <1>5, <2>3 DEF Abort, TypeInv, Fits, Confirmed, Compared
    <3>2. QED
      BY <2>1, <3>1 DEF Elsewhere
  <2>4. QED
    BY <2>2, <2>3
<1>6. QED
  BY <1>1, <1>2, <1>3, <1>4, <1>5 DEF Challenge

LEMMA ConfirmLists ==
  ASSUME TypeInv, NEW r \in Requests, Confirming(r)
  PROVE  Lists(r) /\ Elsewhere(r)
<1>1. txn[r].op = "confirm" /\ UNCHANGED Counters /\ now' = now
  <2>1. txn[r].pc \in Confirmed
    BY DEF Confirming, Compare, Consume, Miss, PutBack, Write, Delete, Commit, Confirmed, Compared
  <2>2. QED
    BY <2>1 DEF TypeInv, Fits, Confirming, Compare, Consume, Miss, PutBack, Write, Delete, Commit
<1>2. CASE Compare(r)
  <2> DEFINE c == otp[txn[r].otp]
             p == IF ~Alive(c) THEN "refused"
                  ELSE IF txn[r].code = txn[r].otp THEN "matched" ELSE "missed"
             y == [txn[r] EXCEPT !.pc = p, !.seen = c.left, !.code = None]
  <2>1. txn' = [txn EXCEPT ![r] = y]
    BY <1>2 DEF Compare
  <2> HIDE DEF p
  <2>2. SameOf(txn[r], y) /\ y.at = txn[r].at /\ y.recent = txn[r].recent
    BY Reads DEF SameOf, Fields
  <2> HIDE DEF y
  <2>3. txn'[r] = y
    BY <1>1, <2>1, Moved
  <2>4. QED
    BY <1>1, <2>2, <2>3 DEF Lists, Elsewhere, SameOf
<1>3. CASE Consume(r) \/ Miss(r) \/ Write(r) \/ Delete(r)
  BY <1>1, <1>3, GotoLists DEF Consume, Miss, Write, Delete, Lists, Elsewhere, Same
<1>4. CASE PutBack(r) \/ Commit(r)
  BY <1>1, <1>4, EndLists DEF PutBack, Commit, Lists, Elsewhere
<1>5. QED
  BY <1>2, <1>3, <1>4 DEF Confirming

(* Every action of a request is one of these steps, too.                   *)
LEMMA LimiterView ==
  ASSUME TypeInv, NEW r \in Requests, Receive(r) \/ Serve(r) \/ Abort(r)
  PROVE  Lists(r) /\ LimiterStep(r)
  BY LimitLists, ReceiveLists, ServeLists, ConfirmLists DEF Serve, LimiterStep

(* What follows of tried.                                                  *)
LEMMA TriedView ==
  ASSUME Follow, NEW k \in Keys
  PROVE  /\ k \in crowded' \/ SucceedsOn(k) => tried'[k] = {}
         /\ k \notin crowded' /\ ~SucceedsOn(k) =>
              tried'[k] = IF FailsOn(k) THEN Failing(InWindow(tried[k], now), now)
                          ELSE InWindow(tried[k], now')
         /\ k \notin crowded' => k \notin crowded /\ ~Several(On(k))'
  BY DEF Follow

(* The failures of tried are the ones of the window.                       *)
LEMMA TriedStays ==
  ASSUME ListInv, NEW k \in Keys
  PROVE  InWindow(tried[k], now) = tried[k]
  BY DEF ListInv, InWindow

LEMMA TriedTyped ==
  ASSUME ListInv, Follow, now \in Nat, now' = now \/ (now' = now + 1 /\ txn' = txn),
         NEW k \in Keys
  PROVE  IsList(tried[k])' /\ \A f \in tried'[k] : now' - Window < f.at /\ f.at <= now'
<1>1. /\ IsList(tried[k]) /\ now' \in Int /\ now' >= now
      /\ \A f \in tried[k] : f.at \in Int /\ now - Window < f.at /\ f.at <= now
  BY DEF ListInv, IsList, Failure
<1>2. CASE tried'[k] = {}
  BY <1>2, NoFailures
<1>3. CASE tried'[k] = InWindow(tried[k], now')
  <2>1. IsList(tried'[k])
    BY <1>1, <1>3, WindowCounts
  <2>2. \A f \in tried'[k] : f \in tried[k] /\ f.at > now' - Window
    BY <1>3 DEF InWindow
  <2>3. QED
    BY <1>1, <2>1, <2>2, LimitSettings
<1>4. CASE tried'[k] = Failing(InWindow(tried[k], now), now) /\ now' = now
  <2>1. InWindow(tried[k], now) = tried[k]
    BY TriedStays
  <2>2. IsList(tried'[k]) /\ \A f \in tried'[k] : f \in tried[k] \/ f.at = now
    BY <1>1, <1>4, <2>1, FailingCounts
  <2>3. QED
    BY <1>1, <1>4, <2>2, LimitSettings
<1>5. FailsOn(k) /\ k \notin crowded' => now' = now
  BY DEF FailsOn, Turns
<1>6. QED
  BY <1>2, <1>3, <1>4, <1>5, TriedView

LEMMA ListStep == ASSUME TypeInv, ListInv, [MCNext]_mcvars PROVE ListInv'
<1>1. CASE UNCHANGED mcvars
  BY <1>1 DEF mcvars, vars, history, ListInv
<1>2. CASE Tick /\ Follow
  <2>1. /\ UNCHANGED <<failures, locked, txn>> /\ now' = now + 1 /\ now \in Nat
    BY <1>2 DEF Tick, Counters, TypeInv
  <2>2. QED
    BY <1>2, <2>1, TriedTyped DEF ListInv
<1>3. CASE Restart /\ Forget
  <2>1. Idle.recent = {} /\ Idle.at = 0
    BY DEF Idle
  <2>2. \A k \in Keys : failures'[k] = {} /\ locked'[k] = 0 /\ tried'[k] = {}
    BY <1>3 DEF Restart, Forget
  <2>3. DOMAIN failures' = Keys /\ DOMAIN locked' = Keys /\ \A q \in Requests : txn'[q] = Idle
    BY <1>3 DEF Restart
  <2>4. IsList({})
    BY NoFailures
  <2>5. ASSUME NEW k \in Keys
        PROVE  /\ IsList(failures'[k]) /\ locked'[k] \in Nat /\ IsList(tried'[k])
               /\ \A f \in tried'[k] : now' - Window < f.at /\ f.at <= now'
    <3>1. failures'[k] = {} /\ tried'[k] = {} /\ locked'[k] \in Nat
      BY <2>2
    <3>2. IsList(failures'[k]) /\ IsList(tried'[k])
      BY <2>4, <3>1, Zenon
    <3>3. QED
      BY <3>1, <3>2
  <2>6. \A q \in Requests : IsList(txn'[q].recent) /\ txn'[q].at \in Nat
    BY <2>1, <2>3, <2>4
  <2>7. QED
    BY <2>3, <2>5, <2>6 DEF ListInv
<1>4. ASSUME NEW r \in Requests, Receive(r) \/ Serve(r) \/ Abort(r), Follow PROVE ListInv'
  <2>1. Alone(r) /\ Lists(r) /\ LimiterStep(r) /\ now \in Nat
    BY <1>4, StepView, LimiterView DEF TypeInv
  <2>2. IsList(txn'[r].recent) /\ txn'[r].at \in Nat
    <3>1. IsList(txn[r].recent) /\ txn[r].at \in Nat /\ IsList({})
      BY NoFailures DEF ListInv
    <3>2. CASE Limited(r) /\ txn'[r].recent = Failing(InWindow(failures[Key(r)], now), now)
      <4>1. IsList(failures[Key(r)])
        BY <3>2 DEF ListInv, Limited
      <4>2. IsList(txn'[r].recent)
        BY <2>1, <3>2, <4>1, WindowCounts, FailingCounts
      <4>3. QED
        BY <2>1, <3>1, <4>2 DEF Lists
    <3>3. QED
      BY <2>1, <3>1, <3>2 DEF Lists
  <2>3. \A q \in Requests : IsList(txn'[q].recent) /\ txn'[q].at \in Nat
    BY <2>1, <2>2 DEF Alone, ListInv
  <2>4. /\ DOMAIN failures' = Keys /\ DOMAIN locked' = Keys
        /\ \A k \in Keys : IsList(failures'[k]) /\ locked'[k] \in Nat
    <3>1. CASE UNCHANGED Counters
      BY <3>1 DEF Counters, ListInv
    <3>2. CASE Limited(r) /\ Listing(r)
      <4>1. /\ DOMAIN failures' = Keys /\ locked' = locked
            /\ \A k \in Keys : failures'[k] \in {failures[k], {}, txn[r].recent}
        BY <3>2 DEF Listing, Limited, ListInv
      <4>2. QED
        BY <4>1, NoFailures DEF ListInv
    <3>3. CASE Limited(r) /\ Locking(r)
      <4>1. /\ DOMAIN locked' = Keys /\ failures' = failures
            /\ \A k \in Keys : locked'[k] \in {locked[k], 0, txn[r].at + Lockout}
        BY <3>3 DEF Locking, Limited, ListInv
      <4>2. QED
        BY <4>1, LimitSettings DEF ListInv
    <3>4. QED
      BY <2>1, <3>1, <3>2, <3>3 DEF LimiterStep, Reading, Entering, Elsewhere
  <2>5. \A k \in Keys : IsList(tried[k])' /\ \A f \in tried'[k] : now' - Window < f.at /\ f.at <= now'
    BY <1>4, <2>1, TriedTyped DEF Alone
  <2>6. QED
    BY <2>3, <2>4, <2>5 DEF ListInv
<1>5. QED
  BY <1>1, <1>2, <1>3, <1>4 DEF MCNext, Moves

(* What covers what.                                                       *)
LEMMA CoversMore ==
  ASSUME NEW F, NEW T, IsList(F), IsList(T), NEW n \in Nat, Covers(F, T, n, 0)
  PROVE  Covers(F, Failing(T, n), n, 1)
<1> SUFFICES ASSUME NEW u \in Int, u >= n - Window
             PROVE  Since(Failing(T, n), u) <= Since(F, u) + 1
  BY DEF Covers
<1>1. /\ Since(T, u) \in Nat /\ Since(F, u) \in Nat /\ IsList(Failing(T, n))
      /\ Since(Failing(T, n), u) <= Since(T, u) + 1 /\ Since(T, u) <= Since(F, u) + 0
  BY SinceCounts, FailingCounts DEF Covers
<1>2. Since(Failing(T, n), u) \in Nat
  BY <1>1, SinceCounts
<1>3. QED
  BY <1>1, <1>2

LEMMA CoversRecord ==
  ASSUME NEW F, NEW T, IsList(F), IsList(T), NEW n \in Nat, Covers(F, T, n, 1), Before(T, n)
  PROVE  /\ Covers(Failing(InWindow(F, n), n), T, n, 0)
         /\ Cardinality(Failing(InWindow(F, n), n)) <= Cardinality(F) + 1
<1> DEFINE W == InWindow(F, n)
<1>1. IsList(W) /\ Cardinality(W) <= Cardinality(F)
  BY WindowCounts
<1>2. /\ Cardinality(W) \in Nat /\ Cardinality(F) \in Nat
      /\ IsList(Failing(W, n)) /\ Cardinality(Failing(W, n)) = Cardinality(W) + 1
  BY <1>1, SinceCounts, FailingCounts
<1>3. ASSUME NEW u \in Int, u >= n - Window
      PROVE  Since(T, u) <= Since(Failing(W, n), u) + 0
  <2>1. /\ Since(T, u) \in Nat /\ Since(W, u) \in Nat /\ Since(Failing(W, n), u) \in Nat
        /\ Since(T, u) <= Since(W, u) + 1
    BY <1>1, <1>2, <1>3, SinceCounts, WindowCounts DEF Covers
  <2>2. CASE u < n
    BY <1>1, <2>1, <2>2, FailingCounts
  <2>3. CASE ~(u < n)
    <3>1. \A f \in T : f.at \in Int /\ f.at <= n
      BY DEF IsList, Failure, Before
    <3>2. {f \in T : f.at > u} = {}
      BY <2>3, <3>1
    <3>3. QED
      <4>1. Since(T, u) = 0
        BY <3>2, FS_EmptySet DEF Since
      <4>2. QED
        BY <2>1, <4>1
  <2>4. QED
    BY <2>2, <2>3
<1>4. QED
  BY <1>1, <1>2, <1>3 DEF Covers

LEMMA CoversCounts ==
  ASSUME NEW F, NEW T, IsList(F), IsList(T), NEW n \in Nat, NEW d \in Nat, Covers(F, T, n, d),
         \A f \in T : n - Window < f.at
  PROVE  Cardinality(T) <= Cardinality(F) + d
<1>1. {f \in T : f.at > n - Window} = T
  <2>1. \A f \in T : f.at \in Int
    BY DEF IsList, Failure
  <2>2. QED
    BY <2>1, LimitSettings
<1>2. /\ Since(T, n - Window) = Cardinality(T) /\ Cardinality(T) \in Nat
      /\ Cardinality(F) \in Nat /\ Since(F, n - Window) \in Nat
      /\ Since(F, n - Window) <= Cardinality(F) /\ Since(T, n - Window) <= Since(F, n - Window) + d
  <2>1. n - Window \in Int
    BY LimitSettings
  <2>2. Since(T, n - Window) = Cardinality(T)
    BY <1>1 DEF Since
  <2>3. Since(T, n - Window) <= Since(F, n - Window) + d
    BY <2>1, LimitSettings DEF Covers
  <2>4. QED
    BY <2>2, <2>3, SinceCounts
<1>3. QED
  BY <1>2

-----------------------------------------------------------------------------
(* The key of a limiter, when a request moves.                             *)
LEMMA OnKey ==
  ASSUME NEW k \in Keys, NEW r \in Requests
  PROVE  r \in On(k) <=> Key(r) = k
  BY DEF On, Key, Keys

LEMMA KeyElsewhere ==
  ASSUME TypeInv, ListInv, Follow, NEW r \in Requests, Alone(r), LimiterStep(r),
         NEW k \in Keys, k \notin crowded', r \notin On(k), r \notin On(k)', KeyInv(k)
  PROVE  KeyInv(k)'
<1>1. On(k)' = On(k) /\ \A q \in On(k) : txn'[q] = txn[q]
  BY DEF On, Alone
<1>2. ~FailsOn(k) /\ ~SucceedsOn(k)
  <2>1. \A q \in Requests : Key(q) = k => txn'[q] = txn[q]
    BY OnKey DEF Alone
  <2>2. QED
    BY <2>1 DEF FailsOn, SucceedsOn, Turns
<1>3. k \notin crowded /\ ~Several(On(k))' /\ tried'[k] = InWindow(tried[k], now')
  BY <1>2, TriedView
<1>4. failures'[k] = failures[k] /\ locked'[k] = locked[k]
  <2>1. Key(r) # k
    BY OnKey
  <2>2. QED
    BY <2>1 DEF LimiterStep, Reading, Listing, Locking, Entering, Elsewhere, Counters, ListInv
<1>5. IsList(tried[k]) /\ now \in Nat /\ now' \in Nat /\ now' >= now
  BY DEF ListInv, TypeInv, Alone
<1>6. On(k)' = {} => Free(failures'[k], locked'[k], tried'[k], now')
  BY <1>1, <1>3, <1>4, <1>5, TimePasses DEF KeyInv
<1>7. \A q \in On(k)' : Used(txn'[q], failures'[k], locked'[k], tried'[k], now')
  BY <1>1, <1>3, <1>4, <1>5, TimePasses DEF KeyInv
<1>8. QED
  BY <1>3, <1>6, <1>7 DEF KeyInv

(* A request that begins finds the key as it was left.                     *)
LEMMA KeyEntered ==
  ASSUME TypeInv, ListInv, Follow, NEW r \in Requests, Alone(r), LimiterStep(r),
         NEW k \in Keys, k \notin crowded', r \notin On(k), r \in On(k)', KeyInv(k)
  PROVE  KeyInv(k)'
<1>1. UNCHANGED Counters /\ txn[r] = Idle /\ txn'[r].pc = "check"
  <2>1. txn'[r].op \in {"login", "request"} /\ Idle.op = "none"
    BY DEF On, Keys, Idle
  <2>2. ~Same(r) /\ txn'[r] # Idle /\ ~Elsewhere(r)
    BY <2>1 DEF On, Same, Elsewhere
  <2>3. QED
    BY <2>2 DEF LimiterStep, Reading, Listing, Locking, Walks, Quits, Entering
<1>2. On(k)' = On(k) \cup {r}
  BY DEF On, Alone
<1>3. k \notin crowded /\ ~Several(On(k))'
  BY TriedView
<1>4. On(k) = {} /\ On(k)' = {r}
  BY <1>2, <1>3 DEF Several
<1>5. ~FailsOn(k) /\ ~SucceedsOn(k)
  BY <1>4, OnKey DEF FailsOn, SucceedsOn
<1>6. tried'[k] = tried[k] /\ now' = now
  BY <1>5, TriedView, TriedStays DEF Alone
<1>7. Free(failures'[k], locked'[k], tried'[k], now')
  BY <1>1, <1>3, <1>4, <1>6 DEF KeyInv, Counters
<1>8. Used(txn'[r], failures'[k], locked'[k], tried'[k], now')
  BY <1>1, <1>7 DEF Used
<1>9. QED
  BY <1>3, <1>4, <1>8 DEF KeyInv

(* The request that uses the key alone: what it counts, what it leaves.    *)
LEMMA HereTried ==
  ASSUME TypeInv, ListInv, Follow, NEW r \in Requests, Alone(r),
         NEW k \in Keys, k \notin crowded', r \in On(k)
  PROVE  /\ Turns("known", r) => tried'[k] = {}
         /\ Turns("failed", r) => tried'[k] = Failing(tried[k], now)
         /\ ~Turns("known", r) /\ ~Turns("failed", r) => tried'[k] = tried[k]
<1>1. SucceedsOn(k) <=> Turns("known", r)
  BY OnKey DEF SucceedsOn, Turns, Alone
<1>2. FailsOn(k) <=> Turns("failed", r)
  BY OnKey DEF FailsOn, Turns, Alone
<1>3. InWindow(tried[k], now) = tried[k] /\ now' = now
  BY TriedStays DEF Alone
<1>4. QED
  BY <1>1, <1>2, <1>3, TriedView DEF Turns

LEMMA HereLeft ==
  ASSUME TypeInv, Follow, NEW r \in Requests, Alone(r),
         NEW k \in Keys, k \notin crowded', r \in On(k), KeyInv(k),
         \/ txn'[r] = Idle /\ Free(failures'[k], locked'[k], tried'[k], now')
         \/ Same(r) /\ Used(txn'[r], failures'[k], locked'[k], tried'[k], now')
  PROVE  KeyInv(k)'
<1>1. k \notin crowded /\ ~Several(On(k))'
  BY TriedView
<1>2. On(k) = {r}
  BY <1>1 DEF KeyInv, Several
<1>3. CASE txn'[r] = Idle /\ Free(failures'[k], locked'[k], tried'[k], now')
  <2>1. On(k)' = {}
    <3>1. Idle.op = "none" /\ k[1] # "none"
      BY DEF Idle, Keys
    <3>2. QED
      BY <1>2, <1>3, <3>1 DEF On, Alone
  <2>2. QED
    BY <1>1, <1>3, <2>1 DEF KeyInv
<1>4. CASE Same(r) /\ Used(txn'[r], failures'[k], locked'[k], tried'[k], now')
  <2>1. On(k)' = {r}
    BY <1>2, <1>4 DEF On, Alone, Same
  <2>2. QED
    BY <1>1, <1>4, <2>1 DEF KeyInv
<1>5. QED
  BY <1>3, <1>4

LEMMA KeyRead ==
  ASSUME TypeInv, ListInv, Follow, NEW r \in Requests, Alone(r), Reading(r),
         NEW k \in Keys, k \notin crowded', r \in On(k), KeyInv(k)
  PROVE  KeyInv(k)'
<1> DEFINE F == failures[k]
           T == tried[k]
<1>1. /\ Key(r) = k /\ failures' = failures /\ locked' = locked
      /\ now' = now /\ now \in Nat /\ k \notin crowded
  BY OnKey, TriedView DEF Reading, Counters, TypeInv, Alone
<1>2. Used(txn[r], F, locked[k], T, now)
  BY <1>1 DEF KeyInv
<1>3. /\ IsList(F) /\ IsList(T) /\ locked[k] \in Nat /\ Cardinality(F) \in Nat
      /\ \A f \in T : f.at \in Int /\ now - Window < f.at /\ f.at <= now
  BY SinceCounts DEF ListInv, IsList, Failure
<1>4. SUFFICES \/ txn'[r] = Idle /\ Free(F, locked[k], tried'[k], now)
               \/ Same(r) /\ Used(txn'[r], F, locked[k], tried'[k], now)
  BY <1>1, HereLeft
<1> USE DEF Walks, Quits
<1>5. CASE Walks(r, "check", "find") /\ locked[Key(r)] = 0
  BY <1>1, <1>2, <1>5, HereTried DEF Turns, Used, Free
<1>6. CASE Walks(r, "check", "unlock") /\ locked[Key(r)] \in 1 .. now
  <2>1. Free(F, locked[k], T, now) /\ tried'[k] = T
    BY <1>2, <1>6, HereTried DEF Turns, Used
  <2>2. T = {}
    <3>1. \A f \in T : f.at <= locked[k] - Lockout
      BY <1>1, <1>6, <2>1 DEF Free, Before
    <3>2. QED
      BY <1>1, <1>3, <1>6, <3>1, LimitSettings
  <2>3. QED
    BY <1>6, <2>1, <2>2 DEF Used
<1>7. CASE Walks(r, "find", "known")
  BY <1>2, <1>7, HereTried DEF Turns, Used
<1>8. CASE Walks(r, "find", "drawn") \/ Walks(r, "drawn", "saved")
  BY <1>2, <1>8, HereTried DEF Turns, Used
<1>9. CASE Walks(r, "find", "failed") \/ Walks(r, "saved", "failed")
  <2>1. /\ tried'[k] = Failing(T, now) /\ Covers(F, T, now, 0) /\ locked[k] = 0
        /\ Cardinality(F) < MaxFailures
    BY <1>2, <1>9, HereTried DEF Turns, Used
  <2>2. Covers(F, Failing(T, now), now, 1)
    BY <1>1, <1>3, <2>1, CoversMore
  <2>3. QED
    BY <1>9, <2>1, <2>2 DEF Used
<1>10. CASE Quits(r, "check") \/ Quits(r, "find")
  <2>1. Idle.pc = "idle"
    BY DEF Idle
  <2>2. tried'[k] = T
    BY <1>10, <2>1, HereTried DEF Turns
  <2>3. Free(F, locked[k], T, now)
    BY <1>2, <1>10 DEF Used, Free
  <2>4. QED
    BY <1>10, <2>2, <2>3
<1>11. CASE /\ Walks(r, "failed", "counted") /\ txn'[r].at = now
            /\ txn'[r].recent = Failing(InWindow(failures[Key(r)], now), now)
  <2>1. /\ Covers(F, T, now, 1) /\ Cardinality(F) < MaxFailures /\ locked[k] = 0
        /\ tried'[k] = T
    BY <1>2, <1>11, HereTried DEF Turns, Used
  <2>2. Before(T, now)
    BY <1>3 DEF Before
  <2>3. /\ Covers(txn'[r].recent, T, now, 0)
        /\ Cardinality(txn'[r].recent) <= Cardinality(F) + 1
    BY <1>1, <1>3, <1>11, <2>1, <2>2, CoversRecord
  <2>4. IsList(txn'[r].recent) /\ Cardinality(txn'[r].recent) \in Nat
    BY <1>1, <1>3, <1>11, WindowCounts, FailingCounts, SinceCounts
  <2>5. Cardinality(txn'[r].recent) <= MaxFailures
    BY <1>3, <2>1, <2>3, <2>4, LimitSettings
  <2>6. QED
    BY <1>11, <2>1, <2>2, <2>3, <2>5 DEF Used
<1>12. QED
  BY <1>5, <1>6, <1>7, <1>8, <1>9, <1>10, <1>11 DEF Reading

LEMMA KeyListed ==
  ASSUME TypeInv, ListInv, Follow, NEW r \in Requests, Alone(r), Listing(r),
         NEW k \in Keys, k \notin crowded', r \in On(k), KeyInv(k)
  PROVE  KeyInv(k)'
<1> DEFINE T == tried[k]
<1>1. /\ Key(r) = k /\ locked' = locked /\ now' = now /\ now \in Nat
      /\ k \notin crowded /\ DOMAIN failures = Keys
  BY OnKey, TriedView DEF Listing, TypeInv, Alone, ListInv
<1>2. Used(txn[r], failures[k], locked[k], T, now)
  BY <1>1 DEF KeyInv
<1>3. IsList(T) /\ \A f \in T : now - Window < f.at
  BY DEF ListInv
<1>4. SUFFICES \/ txn'[r] = Idle /\ Free(failures'[k], locked[k], tried'[k], now)
               \/ Same(r) /\ Used(txn'[r], failures'[k], locked[k], tried'[k], now)
  BY <1>1, HereLeft
<1>5. Idle.pc = "idle"
  BY DEF Idle
<1>6. tried'[k] = T
  BY <1>5, HereTried DEF Listing, Walks, Quits, Turns
<1> USE DEF Walks, Quits
<1>7. CASE /\ Walks(r, "forget", "find") \/ Walks(r, "known", "free")
           /\ failures' = [failures EXCEPT ![Key(r)] = {}]
  <2>1. failures'[k] = {} /\ T = {} /\ locked[k] = 0
    BY <1>1, <1>2, <1>7 DEF Used
  <2>2. Cardinality({}) < MaxFailures /\ Covers({}, {}, now, 0)
    BY NoFailures, LimitSettings DEF Covers
  <2>3. QED
    BY <1>6, <1>7, <2>1, <2>2 DEF Used
<1>8. CASE failures' = [failures EXCEPT ![Key(r)] = txn[r].recent] /\ txn[r].pc = "counted"
  <2> DEFINE F == txn[r].recent
  <2>1. /\ failures'[k] = F /\ Covers(F, T, now, 0) /\ Cardinality(F) <= MaxFailures
        /\ Before(T, txn[r].at) /\ locked[k] = 0
    BY <1>1, <1>2, <1>8 DEF Used
  <2>2. CASE Quits(r, "counted") /\ Cardinality(txn[r].recent) < MaxFailures
    BY <1>6, <2>1, <2>2 DEF Free
  <2>3. CASE Walks(r, "counted", "full") /\ txn'[r].at = txn[r].at
    <3>1. IsList(F)
      BY DEF ListInv
    <3>2. Cardinality(T) <= Cardinality(F) + 0
      BY <1>1, <1>3, <2>1, <3>1, CoversCounts
    <3>3. Cardinality(T) <= MaxFailures
      BY <1>3, <2>1, <3>1, <3>2, SinceCounts, LimitSettings
    <3>4. QED
      BY <1>6, <2>1, <2>3, <3>3 DEF Used
  <2>4. QED
    BY <1>8, <2>2, <2>3 DEF Listing
<1>9. QED
  BY <1>7, <1>8 DEF Listing

LEMMA KeyLocked ==
  ASSUME TypeInv, ListInv, Follow, NEW r \in Requests, Alone(r), Locking(r),
         NEW k \in Keys, k \notin crowded', r \in On(k), KeyInv(k)
  PROVE  KeyInv(k)'
<1> DEFINE F == failures[k]
           T == tried[k]
<1>1. /\ Key(r) = k /\ failures' = failures /\ now' = now /\ now \in Nat
      /\ k \notin crowded /\ DOMAIN locked = Keys
  BY OnKey, TriedView DEF Locking, TypeInv, Alone, ListInv
<1>2. Used(txn[r], F, locked[k], T, now)
  BY <1>1 DEF KeyInv
<1>3. SUFFICES \/ txn'[r] = Idle /\ Free(F, locked'[k], tried'[k], now)
               \/ Same(r) /\ Used(txn'[r], F, locked'[k], tried'[k], now)
  BY <1>1, HereLeft
<1>4. Idle.pc = "idle"
  BY DEF Idle
<1>5. tried'[k] = T
  BY <1>4, HereTried DEF Locking, Walks, Quits, Turns
<1> USE DEF Walks, Quits
<1>6. CASE Walks(r, "unlock", "forget") /\ locked' = [locked EXCEPT ![Key(r)] = 0]
  BY <1>1, <1>2, <1>5, <1>6 DEF Used
<1>7. CASE Quits(r, "free") /\ locked' = [locked EXCEPT ![Key(r)] = 0]
  <2>1. locked'[k] = 0 /\ T = {} /\ F = {}
    BY <1>1, <1>2, <1>7 DEF Used
  <2>2. Cardinality({}) < MaxFailures /\ Covers({}, {}, now, 0)
    BY NoFailures, LimitSettings DEF Covers
  <2>3. QED
    BY <1>5, <1>7, <2>1, <2>2 DEF Free
<1>8. CASE Quits(r, "full") /\ locked' = [locked EXCEPT ![Key(r)] = txn[r].at + Lockout]
  <2>1. locked'[k] = txn[r].at + Lockout /\ txn[r].at \in Nat
    BY <1>1, <1>8 DEF ListInv
  <2>2. Cardinality(T) <= MaxFailures /\ Before(T, txn[r].at)
    BY <1>2, <1>8 DEF Used
  <2>3. locked'[k] # 0 /\ locked'[k] - Lockout = txn[r].at
    BY <2>1, LimitSettings
  <2>4. QED
    BY <1>5, <1>8, <2>2, <2>3 DEF Free
<1>9. QED
  BY <1>6, <1>7, <1>8 DEF Locking

LEMMA LimitStep == ASSUME TypeInv, LimitInv, [MCNext]_mcvars PROVE LimitInv'
<1>1. ListInv'
  BY ListStep DEF LimitInv
<1>2. CASE UNCHANGED mcvars
  <2>1. \A k \in Keys : On(k)' = On(k)
    BY <1>2 DEF mcvars, vars, On
  <2>2. \A k \in Keys : KeyInv(k)'
    BY <1>2, <2>1 DEF mcvars, vars, history, LimitInv, KeyInv
  <2>3. QED
    BY <1>1, <2>2 DEF LimitInv
<1>3. CASE Tick /\ Follow
  <2> SUFFICES ASSUME NEW k \in Keys, k \notin crowded' PROVE KeyInv(k)'
    BY <1>1 DEF LimitInv, KeyInv
  <2>1. /\ UNCHANGED <<failures, locked, txn>> /\ now' = now + 1 /\ now \in Nat
    BY <1>3 DEF Tick, Counters, TypeInv
  <2>2. On(k)' = On(k) /\ ~FailsOn(k) /\ ~SucceedsOn(k)
    BY <2>1 DEF On, FailsOn, SucceedsOn, Turns
  <2>3. k \notin crowded /\ ~Several(On(k))' /\ tried'[k] = InWindow(tried[k], now')
    BY <1>3, <2>2, TriedView
  <2>4. KeyInv(k) /\ IsList(tried[k]) /\ now' \in Nat /\ now' >= now
    BY <2>1 DEF LimitInv, ListInv
  <2>5. On(k)' = {} => Free(failures'[k], locked'[k], tried'[k], now')
    BY <2>1, <2>2, <2>3, <2>4, TimePasses DEF KeyInv
  <2>6. \A q \in On(k)' : Used(txn'[q], failures'[k], locked'[k], tried'[k], now')
    BY <2>1, <2>2, <2>3, <2>4, TimePasses DEF KeyInv
  <2>7. QED
    BY <2>3, <2>5, <2>6 DEF KeyInv
<1>4. CASE Restart /\ Forget
  <2> SUFFICES ASSUME NEW k \in Keys PROVE KeyInv(k)'
    BY <1>1 DEF LimitInv
  <2>1. On(k)' = {}
    BY <1>4 DEF Restart, On, Idle, Keys
  <2>2. failures'[k] = {} /\ locked'[k] = 0 /\ tried'[k] = {}
    BY <1>4 DEF Restart, Forget
  <2>3. Free({}, 0, {}, now')
    BY NoFailures, LimitSettings DEF Free, Covers
  <2>4. Free(failures'[k], locked'[k], tried'[k], now')
    BY <2>2, <2>3, Zenon
  <2>5. QED
    BY <2>1, <2>4 DEF KeyInv, Several
<1>5. ASSUME NEW r \in Requests, Receive(r) \/ Serve(r) \/ Abort(r), Follow PROVE LimitInv'
  <2>1. Alone(r) /\ LimiterStep(r)
    BY <1>5, StepView, LimiterView
  <2> SUFFICES ASSUME NEW k \in Keys, k \notin crowded' PROVE KeyInv(k)'
    BY <1>1 DEF LimitInv, KeyInv
  <2>2. KeyInv(k) /\ ListInv
    BY DEF LimitInv
  <2>3. CASE r \notin On(k) /\ r \notin On(k)'
    BY <1>5, <2>1, <2>2, <2>3, KeyElsewhere
  <2>4. CASE r \notin On(k) /\ r \in On(k)'
    BY <1>5, <2>1, <2>2, <2>4, KeyEntered
  <2>5. CASE r \in On(k)
    <3>1. Reading(r) \/ Listing(r) \/ Locking(r)
      <4>1. txn[r].op \in {"login", "request"} /\ Idle.op = "none"
        BY <2>5 DEF On, Keys, Idle
      <4>2. QED
        BY <2>1, <4>1 DEF LimiterStep, Entering, Elsewhere
    <3>2. QED
      BY <1>5, <2>1, <2>2, <2>5, <3>1, KeyRead, KeyListed, KeyLocked
  <2>6. QED
    BY <2>3, <2>4, <2>5
<1>6. QED
  BY <1>2, <1>3, <1>4, <1>5 DEF MCNext, Moves

LEMMA LimitInit == MCInit => LimitInv
<1> SUFFICES ASSUME MCInit PROVE LimitInv
  OBVIOUS
<1>1. Idle.recent = {} /\ Idle.at = 0 /\ Idle.op = "none"
  BY DEF Idle
<1>2. /\ DOMAIN failures = Keys /\ DOMAIN locked = Keys /\ \A q \in Requests : txn[q] = Idle
      /\ \A k \in Keys : failures[k] = {} /\ locked[k] = 0 /\ tried[k] = {}
  BY DEF MCInit, Init
<1>3. IsList({}) /\ Free({}, 0, {}, now)
  BY NoFailures, LimitSettings DEF Free, Covers
<1>4. ASSUME NEW k \in Keys
      PROVE  /\ IsList(failures[k]) /\ locked[k] \in Nat /\ IsList(tried[k])
             /\ \A f \in tried[k] : now - Window < f.at /\ f.at <= now
             /\ Free(failures[k], locked[k], tried[k], now)
  <2>1. failures[k] = {} /\ tried[k] = {} /\ locked[k] = 0 /\ locked[k] \in Nat
    BY <1>2
  <2>2. /\ IsList(failures[k]) /\ IsList(tried[k])
        /\ Free(failures[k], locked[k], tried[k], now)
    BY <1>3, <2>1, Zenon
  <2>3. QED
    BY <2>1, <2>2
<1>5. \A q \in Requests : IsList(txn[q].recent) /\ txn[q].at \in Nat
  BY <1>1, <1>2, <1>3
<1>6. \A k \in Keys : On(k) = {}
  BY <1>1, <1>2 DEF On, Keys
<1>7. QED
  BY <1>2, <1>4, <1>5, <1>6 DEF LimitInv, ListInv, KeyInv, Several

(* Requests for a key that do not overlap fail at most MaxFailures times   *)
(* within a window, between two successes, for every setting in which a    *)
(* lock outlasts the window: what record_failure writes back is all that   *)
(* failed, and a lock is gone only when its failures are out of the window *)
(* (FailuresBounded, run SignIn_races).                                    *)
THEOREM FailuresAreBounded == MCSpec => []FailuresBounded
<1>1. MCInit => TypeInv /\ LimitInv
  BY TypeInit, LimitInit
<1>2. TypeInv /\ LimitInv /\ [MCNext]_mcvars => (TypeInv /\ LimitInv)'
  BY TypeStep, LimitStep
<1>3. TypeInv /\ LimitInv => FailuresBounded
  <2> SUFFICES ASSUME TypeInv, LimitInv, NEW k \in Keys \ crowded
               PROVE  Cardinality(InWindow(tried[k], now)) <= MaxFailures
    BY DEF FailuresBounded
  <2> DEFINE T == tried[k]
             F == failures[k]
  <2>1. /\ ListInv /\ KeyInv(k) /\ IsList(F) /\ IsList(T) /\ now \in Nat
        /\ \A f \in T : now - Window < f.at
    BY DEF LimitInv, ListInv, TypeInv
  <2>2. InWindow(T, now) = T /\ Cardinality(T) \in Nat /\ Cardinality(F) \in Nat
    BY <2>1, TriedStays, SinceCounts
  <2>3. ASSUME Free(F, locked[k], T, now) PROVE Cardinality(T) <= MaxFailures
    BY <2>1, <2>2, <2>3, CoversCounts, LimitSettings DEF Free
  <2>4. CASE On(k) = {}
    BY <2>1, <2>2, <2>3, <2>4 DEF KeyInv
  <2>5. ASSUME NEW r \in On(k) PROVE Cardinality(T) <= MaxFailures
    <3>1. Used(txn[r], F, locked[k], T, now)
      BY <2>1 DEF KeyInv
    <3>2. txn[r].pc \in Limiting \cup Drawing
      BY DEF On, Keys, TypeInv, Fits, Idle, Holding
    <3>3. CASE txn[r].pc = "check"
      BY <2>3, <3>1, <3>3 DEF Used
    <3>4. CASE txn[r].pc \in {"unlock", "forget", "known", "free"}
      BY <3>1, <3>4, NoFailures, LimitSettings DEF Used
    <3>5. CASE txn[r].pc \in {"find", "drawn", "saved"}
      BY <2>1, <2>2, <3>1, <3>5, CoversCounts, LimitSettings DEF Used
    <3>6. CASE txn[r].pc = "failed"
      BY <2>1, <2>2, <3>1, <3>6, CoversCounts, LimitSettings DEF Used
    <3>7. CASE txn[r].pc = "counted"
      <4>1. IsList(txn[r].recent)
        BY <2>1 DEF ListInv, On
      <4>2. /\ Cardinality(T) <= Cardinality(txn[r].recent) + 0
            /\ Cardinality(txn[r].recent) \in Nat
            /\ Cardinality(txn[r].recent) <= MaxFailures
        BY <2>1, <3>1, <3>7, <4>1, CoversCounts, SinceCounts DEF Used
      <4>3. QED
        BY <2>2, <4>2, LimitSettings
    <3>8. CASE txn[r].pc = "full"
      BY <3>1, <3>8 DEF Used
    <3>9. QED
      BY <3>2, <3>3, <3>4, <3>5, <3>6, <3>7, <3>8 DEF Limiting, Drawing
  <2>6. QED
    BY <2>2, <2>4, <2>5
<1>4. QED
  BY <1>1, <1>2, <1>3, PTL DEF MCSpec
=============================================================================
