-------------------------------- MODULE SignIn --------------------------------
(***************************************************************************)
(* Logging in and resetting a password: AuthenticateUser                   *)
(* (application/authentication.py), RequestPasswordReset and               *)
(* ConfirmPasswordReset (application/password_reset.py), behind the routes *)
(* of adapters/inbound/auth.py.                                            *)
(*                                                                         *)
(* The hash of an account is a row of PostgreSQL.  What else is shared is  *)
(* memory of the process that its threads read and write without a lock:   *)
(* the two dictionaries of each limiter of failures                        *)
(* (login_rate_limiter_memory.py), the store of challenges                 *)
(* (otp_in_memory.py) and the challenge objects themselves (domain/otp.py).*)
(* One action is what a thread does between two accesses to that memory.   *)
(*                                                                         *)
(* An identifier stands for a telephone number or an e-mail from one       *)
(* client address: with the name of the limiter it is the key of the       *)
(* counters.  Codes of different challenges differ.                        *)
(***************************************************************************)
EXTENDS Integers, FiniteSets

CONSTANTS
  Requests,     \* the requests the server may run at once
  Identifiers,  \* what people type to say who they are
  Holder,       \* identifier -> the ACTIVE account it finds, None if there is none
  Accounts, Passwords,
  First,        \* the password every account has at first
  Challenges,   \* bound: challenges drawn
  MaxFailures, Window, Lockout,  \* settings of the limiters (config.py)
  MaxGuesses, Ttl,               \* settings of the challenges
  MaxNow,       \* bound: the clock
  MaxListed,    \* bound: failures in the list of a key that a request finds
  None

ASSUME SettingsAssumption ==
  /\ MaxFailures \in Nat \ {0} /\ MaxGuesses \in Nat \ {0} /\ Ttl \in Nat \ {0}
  /\ Window \in Nat \ {0} /\ Lockout \in Nat /\ Lockout >= Window /\ MaxNow \in Nat
  /\ Holder \in [Identifiers -> Accounts \cup {None}] /\ None \notin Accounts \cup Challenges
  /\ First \in Passwords

VARIABLES
  password,  \* account -> the password its committed hash is of
  failures,  \* _failures: key -> the recent failures
  locked,    \* _locked_until: key -> end of its lock, 0 without one
  store,     \* InMemoryOtpRepository: identifier -> its challenge
  otp,       \* the challenge objects
  sent,      \* identifier -> the challenge whose code was sent last
  now,
  txn        \* request -> program counter and local values

vars == <<password, failures, locked, store, otp, sent, now, txn>>

Keys   == {"login", "request"} \X Identifiers
NoCode == [drawn |-> FALSE, expires |-> 0, left |-> 0, consumed |-> FALSE]
Idle   == [pc |-> "idle", op |-> "none", id |-> None, pass |-> None, code |-> None,
           otp |-> None, seen |-> 0, at |-> 0, recent |-> {}]

Init ==
  /\ password = [a \in Accounts |-> First]
  /\ failures = [k \in Keys |-> {}]
  /\ locked   = [k \in Keys |-> 0]
  /\ store    = [i \in Identifiers |-> None]
  /\ otp      = [c \in Challenges |-> NoCode]
  /\ sent     = [i \in Identifiers |-> None]
  /\ now = 1
  /\ txn      = [r \in Requests |-> Idle]

Goto(r, pc)       == txn' = [txn EXCEPT ![r].pc = pc]
End(r)            == txn' = [txn EXCEPT ![r] = Idle]
Key(r)            == <<txn[r].op, txn[r].id>>
Counters          == <<failures, locked>>
Codes             == <<store, otp, sent>>

-----------------------------------------------------------------------------
(* The limiter                                                             *)

(* check: a lock in force refuses, one that has expired is to be removed.  *)
Check(r) ==
  /\ txn[r].pc = "check"
  /\ \/ locked[Key(r)] = 0 /\ Goto(r, "find")
     \/ now < locked[Key(r)] /\ End(r)
     \/ locked[Key(r)] \in 1 .. now /\ Goto(r, "unlock")
  /\ UNCHANGED <<password, Counters, Codes, now>>

(* _locked_until.pop(key), whatever lock is there by now ...               *)
PopLock(r) ==
  /\ txn[r].pc = "unlock"
  /\ locked' = [locked EXCEPT ![Key(r)] = 0]
  /\ Goto(r, "forget")
  /\ UNCHANGED <<password, failures, Codes, now>>

(* ... then _failures.pop(key).                                            *)
PopFailures(r) ==
  /\ txn[r].pc = "forget"
  /\ failures' = [failures EXCEPT ![Key(r)] = {}]
  /\ Goto(r, "find")
  /\ UNCHANGED <<password, locked, Codes, now>>

(* A list of failures is only filtered and counted, so that it is a set    *)
(* here, of their times with a number that tells equal times apart.        *)
InWindow(list, t) == {f \in list : f.at > t - Window}

Failing(list, t) ==
  LET failure(n) == [at |-> t, nth |-> n]
  IN list \cup {failure(CHOOSE n \in 0 .. Cardinality(list) : failure(n) \notin list)}

(* record_failure: the failures of the window are copied ...               *)
RecordRead(r) ==
  /\ txn[r].pc = "failed"
  /\ txn' = [txn EXCEPT ![r].pc = "counted", ![r].at = now,
                        ![r].recent = Failing(InWindow(failures[Key(r)], now), now)]
  /\ UNCHANGED <<password, Counters, Codes, now>>

RecordWriteLate(r) ==                                               \* mutant
  /\ txn[r].pc = "counted"
  /\ failures' = [failures EXCEPT ![Key(r)] = txn[r].recent]
  /\ IF Cardinality(txn[r].recent) <= MaxFailures THEN End(r)
     ELSE txn' = [txn EXCEPT ![r].pc = "full", ![r].recent = {}]
  /\ UNCHANGED <<password, locked, Codes, now>>

(* ... the longer copy replaces what is there by then ...                  *)
RecordWrite(r) ==
  /\ txn[r].pc = "counted"
  /\ failures' = [failures EXCEPT ![Key(r)] = txn[r].recent]
  /\ IF Cardinality(txn[r].recent) < MaxFailures THEN End(r)
     ELSE txn' = [txn EXCEPT ![r].pc = "full", ![r].recent = {}]
  /\ UNCHANGED <<password, locked, Codes, now>>

(* ... and at the threshold the key is locked.                             *)
RecordLock(r) ==
  /\ txn[r].pc = "full"
  /\ locked' = [locked EXCEPT ![Key(r)] = txn[r].at + Lockout]
  /\ End(r)
  /\ UNCHANGED <<password, failures, Codes, now>>

(* reset, after a success: the failures, then the lock.                    *)
ResetFailures(r) ==
  /\ txn[r].pc = "known"
  /\ failures' = [failures EXCEPT ![Key(r)] = {}]
  /\ Goto(r, "free")
  /\ UNCHANGED <<password, locked, Codes, now>>

ResetLock(r) ==
  /\ txn[r].pc = "free"
  /\ locked' = [locked EXCEPT ![Key(r)] = 0]
  /\ End(r)
  /\ UNCHANGED <<password, failures, Codes, now>>

-----------------------------------------------------------------------------
(* AuthenticateUser                                                        *)

Login(r, i, p) ==
  /\ txn[r].pc = "idle" /\ Cardinality(failures[<<"login", i>>]) <= MaxListed
  /\ txn' = [txn EXCEPT ![r] = [Idle EXCEPT !.pc = "check", !.op = "login",
                                            !.id = i, !.pass = p]]
  /\ UNCHANGED <<password, Counters, Codes, now>>

(* find_by_phone or find_by_email, then the hash is verified.              *)
Known(i, p) == Holder[i] # None /\ password[Holder[i]] = p

Verify(r) ==
  /\ txn[r].pc = "find" /\ txn[r].op = "login"
  /\ txn' = [txn EXCEPT ![r].pc = IF Known(txn[r].id, txn[r].pass) THEN "known" ELSE "failed",
                        ![r].pass = None]
  /\ UNCHANGED <<password, Counters, Codes, now>>

-----------------------------------------------------------------------------
(* RequestPasswordReset                                                    *)

Undrawn == {c \in Challenges : ~otp[c].drawn}

AskReset(r, i) ==
  /\ txn[r].pc = "idle" /\ Cardinality(failures[<<"request", i>>]) <= MaxListed
  /\ Cardinality(Undrawn) > Cardinality({q \in Requests : txn[q].op = "request"})
  /\ txn' = [txn EXCEPT ![r] = [Idle EXCEPT !.pc = "check", !.op = "request", !.id = i]]
  /\ UNCHANGED <<password, Counters, Codes, now>>

(* generate_otp_challenge; without an account the challenge is dropped.    *)
Draw(r) ==
  /\ txn[r].pc = "find" /\ txn[r].op = "request"
  /\ \E c \in Undrawn :
       /\ otp' = IF Holder[txn[r].id] = None THEN otp
                 ELSE [otp EXCEPT ![c] = [drawn |-> TRUE, expires |-> now + Ttl,
                                          left |-> MaxGuesses, consumed |-> FALSE]]
       /\ txn' = IF Holder[txn[r].id] = None THEN [txn EXCEPT ![r].pc = "failed"]
                 ELSE [txn EXCEPT ![r].pc = "drawn", ![r].otp = c]
  /\ UNCHANGED <<password, Counters, store, sent, now>>

SaveIfNone(r) ==                                                    \* mutant
  /\ txn[r].pc = "drawn"
  /\ store' = [store EXCEPT ![txn[r].id] = IF @ = None THEN txn[r].otp ELSE @]
  /\ Goto(r, "saved")
  /\ UNCHANGED <<password, Counters, otp, sent, now>>

(* OtpRepository.save replaces the challenge that is there ...             *)
Save(r) ==
  /\ txn[r].pc = "drawn"
  /\ store' = [store EXCEPT ![txn[r].id] = txn[r].otp]
  /\ Goto(r, "saved")
  /\ UNCHANGED <<password, Counters, otp, sent, now>>

(* ... and its code goes out; then the request is counted as a failure.    *)
Send(r) ==
  /\ txn[r].pc = "saved"
  /\ sent' = [sent EXCEPT ![txn[r].id] = txn[r].otp]
  /\ Goto(r, "failed")
  /\ UNCHANGED <<password, Counters, store, otp, now>>

-----------------------------------------------------------------------------
(* ConfirmPasswordReset                                                    *)

(* The challenge is fetched; without one the confirmation only refuses.    *)
Confirm(r, i, c, p) ==
  /\ txn[r].pc = "idle"
  /\ store[i] # None
  /\ txn' = [txn EXCEPT ![r] =
            [Idle EXCEPT !.pc = "fetched", !.op = "confirm", !.id = i, !.pass = p,
                         !.code = c, !.otp = store[i]]]
  /\ UNCHANGED <<password, Counters, Codes, now>>

(* verify_otp_challenge up to its comparison: what it reads of the         *)
(* challenge, and the branch it takes.                                     *)
Alive(c) == ~c.consumed /\ now < c.expires /\ c.left > 0

Compare(r) ==
  LET c == otp[txn[r].otp]
  IN /\ txn[r].pc = "fetched"
     /\ txn' = [txn EXCEPT
          ![r].pc = IF ~Alive(c) THEN "refused"
                    ELSE IF txn[r].code = txn[r].otp THEN "matched" ELSE "missed",
          ![r].seen = c.left, ![r].code = None]
     /\ UNCHANGED <<password, Counters, Codes, now>>

ConsumeNothing(r) ==                                                \* mutant
  /\ txn[r].pc = "matched"
  /\ Goto(r, "spent")
  /\ UNCHANGED <<password, Counters, Codes, now>>

(* challenge.consumed = True                                               *)
Consume(r) ==
  /\ txn[r].pc = "matched"
  /\ otp' = [otp EXCEPT ![txn[r].otp].consumed = TRUE]
  /\ Goto(r, "spent")
  /\ UNCHANGED <<password, Counters, store, sent, now>>

(* challenge.attempts_left -= 1, from the value that was read.             *)
Miss(r) ==
  /\ txn[r].pc = "missed"
  /\ otp' = [otp EXCEPT ![txn[r].otp].left = txn[r].seen - 1]
  /\ Goto(r, "refused")
  /\ UNCHANGED <<password, Counters, store, sent, now>>

(* A refused confirmation saves the challenge it holds back.               *)
PutBack(r) ==
  /\ txn[r].pc = "refused"
  /\ store' = [store EXCEPT ![txn[r].id] = txn[r].otp]
  /\ End(r)
  /\ UNCHANGED <<password, Counters, otp, sent, now>>

(* Requests that hold the lock of the row of an account.                   *)
Writers(a) == {q \in Requests : /\ txn[q].pc \in {"written", "deleted"}
                                /\ Holder[txn[q].id] = a}

(* The account is found and its new hash is flushed (update_password).     *)
Write(r) ==
  /\ txn[r].pc = "spent"
  /\ Writers(Holder[txn[r].id]) = {}
  /\ Goto(r, "written")
  /\ UNCHANGED <<password, Counters, Codes, now>>

(* OtpRepository.delete, before the commit, whichever challenge is there.  *)
Delete(r) ==
  /\ txn[r].pc = "written"
  /\ store' = [store EXCEPT ![txn[r].id] = None]
  /\ Goto(r, "deleted")
  /\ UNCHANGED <<password, Counters, otp, sent, now>>

Commit(r) ==
  /\ txn[r].pc = "deleted"
  /\ password' = [password EXCEPT ![Holder[txn[r].id]] = txn[r].pass]
  /\ End(r)
  /\ UNCHANGED <<Counters, Codes, now>>

-----------------------------------------------------------------------------
(* A statement or the commit fails: the row is as before, memory is not.   *)
Abort(r) ==
  /\ txn[r].pc \in {"find", "spent", "written", "deleted"}
  /\ End(r)
  /\ UNCHANGED <<password, Counters, Codes, now>>

(* The process restarts with an empty memory.                              *)
Restart ==
  /\ failures' = [k \in Keys |-> {}]
  /\ locked'   = [k \in Keys |-> 0]
  /\ store'    = [i \in Identifiers |-> None]
  /\ txn'      = [r \in Requests |-> Idle]
  /\ UNCHANGED <<password, otp, sent, now>>

Tick ==
  /\ now < MaxNow
  /\ now' = now + 1
  /\ UNCHANGED <<password, Counters, Codes, txn>>

Limit(r)      == Check(r) \/ PopLock(r) \/ PopFailures(r) \/ RecordRead(r) \/ RecordWrite(r)
                 \/ RecordLock(r) \/ ResetFailures(r) \/ ResetLock(r)
Challenge(r)  == Draw(r) \/ Save(r) \/ Send(r)
Confirming(r) == Compare(r) \/ Consume(r) \/ Miss(r) \/ PutBack(r) \/ Write(r) \/ Delete(r)
                 \/ Commit(r)

Receive(r) ==
  \E i \in Identifiers :
    \/ \E p \in Passwords : Login(r, i, p)
    \/ AskReset(r, i)
    \/ \E c \in {d \in Challenges : otp[d].drawn} \cup {None}, p \in Passwords :
         Confirm(r, i, c, p)

Serve(r) == Limit(r) \/ Verify(r) \/ Challenge(r) \/ Confirming(r)
Moves    == \E r \in Requests : Receive(r) \/ Serve(r) \/ Abort(r)

Next == Moves \/ Restart \/ Tick

Spec == Init /\ [][Next]_vars
=============================================================================
