-------------------------- MODULE TerminalActivation --------------------------
(***************************************************************************)
(* The life of a kiosk's credential: ProvisionTerminalDevice and           *)
(* RevokeTerminalDevice (application/terminal_devices.py) and              *)
(* ActivateTerminalDevice (application/terminal_device_activation.py).     *)
(*                                                                         *)
(* The account of the kiosk is a row of PostgreSQL, written in the         *)
(* transaction of the request; its activation challenge lives in the       *)
(* memory of the server process, which no transaction protects and which a *)
(* restart loses.  A code stands for its device: two live challenges never *)
(* have the same code.  The limiter of failed activations is left out: it  *)
(* refuses requests before they read or write anything modelled here.      *)
(***************************************************************************)
EXTENDS Integers

CONSTANTS
  Requests,    \* the requests the server may run at once
  Devices,     \* ids a kiosk may get: bounds the kiosks provisioned
  MaxSecret,   \* bound: secrets drawn
  Ttl,         \* lifetime of a challenge, in ticks of the clock
  MaxNow,      \* bound: the clock
  None

ASSUME NumbersAssumption == MaxSecret \in Nat /\ Ttl \in Nat \ {0} /\ MaxNow \in Nat
ASSUME NoneAssumption == None \notin Devices

VARIABLES
  rows,        \* committed accounts: device -> status and hashed secret
  challenges,  \* memory of the process: device -> its challenge object
  stored,      \* devices whose challenge is in the repository in memory
  txn,         \* request -> program counter and local values
  told,        \* devices whose code the manager was given
  given,       \* device -> secrets that an answered activation gave a kiosk
  drawn,       \* number of secrets drawn so far
  now,
  lost,        \* devices that a failure deprived of code or secret, and
  missed       \* devices whose activation found no account (for properties)

vars == <<rows, challenges, stored, txn, told, given, drawn, now, lost, missed>>

NoRow == [status |-> "absent", secret |-> 0]   \* secret 0: the placeholder
NoChallenge == [consumed |-> FALSE, expires |-> 0]
Idle  == [pc |-> "idle", op |-> "none", device |-> None, secret |-> 0,
          wrote |-> FALSE]

Init ==
  /\ rows = [d \in Devices |-> NoRow]
  /\ challenges = [d \in Devices |-> NoChallenge]
  /\ stored = {}
  /\ txn = [r \in Requests |-> Idle]
  /\ told = {}
  /\ given = [d \in Devices |-> {}]
  /\ drawn = 0 /\ now = 0
  /\ lost = {} /\ missed = {}

Goto(r, pc) == txn' = [txn EXCEPT ![r].pc = pc]
End(r)      == txn' = [txn EXCEPT ![r] = Idle]

(* Requests that have written the row of d and not yet committed it.       *)
Writers(d) == {r \in Requests : txn[r].device = d /\ txn[r].wrote}

(* Does r activate d with a challenge it has marked consumed?              *)
Holds(r, d) ==
  /\ txn[r].op = "activate" /\ txn[r].device = d
  /\ txn[r].pc \in {"consumed", "stored", "flushed", "answered"}

-----------------------------------------------------------------------------
(* ProvisionTerminalDevice                                                 *)

(* The account and the membership are inserted with a placeholder hash,    *)
(* under a fresh id.                                                       *)
Provision(r, d) ==
  /\ txn[r].pc = "idle"
  /\ rows[d].status = "absent"
  /\ challenges[d] = NoChallenge /\ \A q \in Requests : txn[q].device # d
  /\ txn' = [txn EXCEPT ![r] = [Idle EXCEPT !.pc = "inserted", !.op = "provision",
                                            !.device = d, !.wrote = TRUE]]
  /\ UNCHANGED <<rows, challenges, stored, told, given, drawn, now, lost, missed>>

(* generate_otp_challenge, then the repository in memory.                  *)
SaveChallenge(r) ==
  /\ txn[r].pc = "inserted"
  /\ challenges' = [challenges EXCEPT ![txn[r].device] =
                      [consumed |-> FALSE, expires |-> now + Ttl]]
  /\ stored' = stored \cup {txn[r].device}
  /\ Goto(r, "flushed")
  /\ UNCHANGED <<rows, told, given, drawn, now, lost, missed>>

-----------------------------------------------------------------------------
(* ActivateTerminalDevice                                                  *)

(* find_by_code: the request holds the object of the challenge from here   *)
(* on, in the repository or not.  Without it the request is refused.       *)
Find(r, d) ==
  /\ txn[r].pc = "idle"
  /\ d \in told \cap stored
  /\ txn' = [txn EXCEPT ![r] = [Idle EXCEPT !.pc = "found", !.op = "activate",
                                            !.device = d]]
  /\ UNCHANGED <<rows, challenges, stored, told, given, drawn, now, lost, missed>>

Alive(c) == ~c.consumed /\ now < c.expires

(* verify_otp_challenge up to the comparison, which the code that found    *)
(* the challenge passes.                                                   *)
Verify(r) ==
  /\ txn[r].pc = "found"
  /\ Alive(challenges[txn[r].device])
  /\ Goto(r, "verified")
  /\ UNCHANGED <<rows, challenges, stored, told, given, drawn, now, lost, missed>>

(* A dead challenge is refused, but saved: it comes back to the repository *)
(* even when the activation that consumed it has just deleted it.          *)
Refuse(r) ==
  /\ txn[r].pc = "found"
  /\ ~Alive(challenges[txn[r].device])
  /\ stored' = stored \cup {txn[r].device}
  /\ End(r)
  /\ UNCHANGED <<rows, challenges, told, given, drawn, now, lost, missed>>

ConsumeNothing(r) ==                                                \* mutant
  /\ txn[r].pc = "verified" /\ drawn < MaxSecret
  /\ drawn' = drawn + 1
  /\ txn' = [txn EXCEPT ![r].pc = "consumed", ![r].secret = drawn + 1]
  /\ UNCHANGED <<rows, challenges, stored, told, given, now, lost, missed>>

(* The challenge is marked consumed, the real secret is drawn and hashed.  *)
Consume(r) ==
  /\ txn[r].pc = "verified" /\ drawn < MaxSecret
  /\ challenges' = [challenges EXCEPT ![txn[r].device].consumed = TRUE]
  /\ drawn' = drawn + 1
  /\ txn' = [txn EXCEPT ![r].pc = "consumed", ![r].secret = drawn + 1]
  /\ UNCHANGED <<rows, stored, told, given, now, lost, missed>>

(* set_password_hash: the UPDATE waits for the lock of the row.  If no     *)
(* account is committed, there is nothing to update and the request goes   *)
(* on all the same.                                                        *)
StoreHash(r) ==
  LET d == txn[r].device
  IN /\ txn[r].pc = "consumed"
     /\ rows[d].status # "absent" => Writers(d) = {}
     /\ txn' = [txn EXCEPT ![r].pc = "stored",
                           ![r].wrote = rows[d].status # "absent"]
     /\ missed' = IF rows[d].status = "absent" THEN missed \cup {d} ELSE missed
     /\ UNCHANGED <<rows, challenges, stored, told, given, drawn, now, lost>>

DeleteChallenge(r) ==
  /\ txn[r].pc = "stored"
  /\ stored' = stored \ {txn[r].device}
  /\ Goto(r, "flushed")
  /\ UNCHANGED <<rows, challenges, told, given, drawn, now, lost, missed>>

-----------------------------------------------------------------------------
(* RevokeTerminalDevice: the account is suspended, whatever its challenge. *)
Revoke(r, d) ==
  /\ txn[r].pc = "idle"
  /\ rows[d].status # "absent"
  /\ Writers(d) = {}
  /\ txn' = [txn EXCEPT ![r] = [Idle EXCEPT !.pc = "flushed", !.op = "revoke",
                                            !.device = d, !.wrote = TRUE]]
  /\ UNCHANGED <<rows, challenges, stored, told, given, drawn, now, lost, missed>>

-----------------------------------------------------------------------------
(* What the commit of x makes of the row of its device.                    *)
CommittedKeepsHash(x, row) ==                                       \* mutant
  CASE x.op = "provision" -> [status |-> "ACTIVE", secret |-> 0]
    [] x.op = "activate"  -> row
    [] x.op = "revoke"    -> [row EXCEPT !.status = "SUSPENDED"]

CommittedReactivates(x, row) ==                                     \* mutant
  CASE x.op = "provision" -> [status |-> "ACTIVE", secret |-> 0]
    [] x.op = "activate"  -> [status |-> "ACTIVE", secret |-> x.secret]
    [] x.op = "revoke"    -> [row EXCEPT !.status = "SUSPENDED"]

Committed(x, row) ==
  CASE x.op = "provision" -> [status |-> "ACTIVE", secret |-> 0]
    [] x.op = "activate"  -> IF x.wrote THEN [row EXCEPT !.secret = x.secret] ELSE row
    [] x.op = "revoke"    -> [row EXCEPT !.status = "SUSPENDED"]

(* The client is answered: the manager learns the code, the kiosk the      *)
(* secret.                                                                 *)
Answer(x) ==
  /\ told'  = IF x.op = "provision" THEN told \cup {x.device} ELSE told
  /\ given' = IF x.op = "activate"
              THEN [given EXCEPT ![x.device] = @ \cup {x.secret}] ELSE given

(* Releases of FastAPI differ (>= 0.111): some leave get_session, which    *)
(* commits, before they send the response, others after it.                *)
Respond(r) ==
  /\ txn[r].pc = "flushed"
  /\ Answer(txn[r])
  /\ Goto(r, "answered")
  /\ UNCHANGED <<rows, challenges, stored, drawn, now, lost, missed>>

Commit(r) ==
  LET x == txn[r]
  IN /\ x.pc \in {"flushed", "answered"}
     /\ rows' = [rows EXCEPT ![x.device] = Committed(x, @)]
     /\ \/ x.pc = "flushed" /\ Answer(x)
        \/ x.pc = "answered" /\ UNCHANGED <<told, given>>
     /\ End(r)
     /\ UNCHANGED <<challenges, stored, drawn, now, lost, missed>>

(* A failure deprives a kiosk once its challenge has been consumed for it. *)
Deprived(r) == {d \in Devices : Holds(r, d)}

(* The transaction is committed, the answer is lost.                       *)
LoseAnswer(r) ==
  LET x == txn[r]
  IN /\ x.pc = "flushed"
     /\ rows' = [rows EXCEPT ![x.device] = Committed(x, @)]
     /\ lost' = lost \cup Deprived(r)
     /\ End(r)
     /\ UNCHANGED <<challenges, stored, told, given, drawn, now, missed>>

(* An exception, in the use case or of the COMMIT.                         *)
Abort(r) ==
  /\ txn[r].pc # "idle"
  /\ lost' = lost \cup Deprived(r)
  /\ End(r)
  /\ UNCHANGED <<rows, challenges, stored, told, given, drawn, now, missed>>

(* The process restarts: requests are lost and so is its memory.           *)
Restart ==
  /\ txn' = [r \in Requests |-> Idle]
  /\ stored' = {}
  /\ lost' = lost \cup {d \in stored : ~challenges[d].consumed}
                  \cup UNION {Deprived(r) : r \in Requests}
  /\ UNCHANGED <<rows, challenges, told, given, drawn, now, missed>>

Tick ==
  /\ now < MaxNow
  /\ now' = now + 1
  /\ UNCHANGED <<rows, challenges, stored, txn, told, given, drawn, lost, missed>>

Serve(r) == \/ SaveChallenge(r)
            \/ Verify(r) \/ Refuse(r) \/ Consume(r) \/ StoreHash(r) \/ DeleteChallenge(r)
            \/ Respond(r) \/ Commit(r)

Next ==
  \/ \E r \in Requests, d \in Devices : Provision(r, d) \/ Find(r, d) \/ Revoke(r, d)
  \/ \E r \in Requests : Serve(r) \/ LoseAnswer(r) \/ Abort(r)
  \/ Restart
  \/ Tick

Spec == Init /\ [][Next]_vars

-----------------------------------------------------------------------------
(* Properties                                                              *)

(* Can the kiosk log in with a secret it was given?                        *)
Working(d) == rows[d].status = "ACTIVE" /\ rows[d].secret \in given[d]

Activating(d) == \E r \in Requests : txn[r].op = "activate" /\ txn[r].device = d

(* No kiosk is stranded: until its challenge expires, an account whose     *)
(* code the manager holds can still be activated, is being activated, or   *)
(* its kiosk can log in, whatever activations cross and requests fail.     *)
(* Two exceptions: a failure took the challenge from memory, or the answer *)
(* or the secret from a request that had consumed it; or an activation     *)
(* came between the answer of the provisioning and its COMMIT.             *)
NotStranded ==
  \A d \in told \ (lost \cup missed) :
    rows[d].status = "ACTIVE" =>
      \/ d \in stored /\ ~challenges[d].consumed
      \/ Activating(d)
      \/ Working(d)

(* ActivateTerminalDevice.execute: "Effet net en cas de succes :           *)
(* users.password_hash de la borne porte le condensat du secret reel ...   *)
(* la borne peut se connecter".  Refuted where the response of the         *)
(* provisioning leaves before its COMMIT: set_password_hash finds no       *)
(* account, and the challenge is deleted all the same.                     *)
ActivationTakesEffect ==
  \A d \in Devices \ lost :
    /\ given[d] # {} /\ rows[d].status = "ACTIVE"
    /\ \A r \in Requests : txn[r].device # d
    => Working(d)

(* A revoked kiosk stays revoked: an activation that was in flight, or     *)
(* that comes later with a code still in memory, does not revive it.       *)
RevokedForGood ==
  [][\A d \in Devices : rows[d].status = "SUSPENDED" => rows'[d].status = "SUSPENDED"]_vars
=============================================================================
