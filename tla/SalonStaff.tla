------------------------------ MODULE SalonStaff ------------------------------
(***************************************************************************)
(* The people of the salons and what they may do: the guards of every      *)
(* route (adapters/inbound/security.py, application/authorization.py,      *)
(* domain/access.py, domain/permissions.py), the employees of a salon      *)
(* (application/employees.py), the revocation of a kiosk                   *)
(* (RevokeTerminalDevice) and the registration of an account               *)
(* (application/registration.py).                                          *)
(*                                                                         *)
(* A request is one transaction at READ COMMITTED, its guards included:    *)
(* each of their SELECTs sees what has committed by then.  One action is   *)
(* one statement or the commit; users and members hold committed rows.     *)
(* SQLAlchemy writes the columns that differ from the row it loaded last.  *)
(* An identity is its telephone (unique, like the address; the name goes   *)
(* through the same statements); what an employee does is specialties.     *)
(***************************************************************************)
EXTENDS Integers, Sequences, FiniteSets

CONSTANTS
  Requests,      \* bound: the requests of a behaviour
  Users,         \* bound: accounts, those at first and one for each creation
  User0,         \* account -> its row at first
  Salons, Owner, \* salons and salons.owner_id
  Member0,       \* <<salon, account>> -> its row of salon_members at first
  Phones, Skills, \* bound: values asked for
  Callers,       \* bound: accounts that call the routes of the employees
  Subjects,      \* bound: accounts that they name
  Uses,          \* bound: permissions of the other routes that are asked for
  None

VARIABLES
  users,    \* users: account -> row
  members,  \* salon_members: <<salon, account>> -> row
  trail,    \* audit_logs: the lines about employees and kiosks, in order
  txn,      \* request -> program counter and local values
  granted   \* request -> what was granted to it since it began (for properties)

vars == <<users, members, trail, txn, granted>>
rows == <<users, members>>

NoUser   == [role |-> None, status |-> None, phone |-> None]
NoMember == [role |-> None, status |-> None, specialties |-> None]

New == [pc |-> "new", op |-> "none", by |-> None, salon |-> None, who |-> None,
        needs |-> "none", role |-> None, phone |-> None, skills |-> None,
        seen |-> <<NoUser, NoMember>>, loaded |-> NoMember,
        setU |-> {}, setM |-> {}, answer |-> None]

Init ==
  /\ users = [u \in Users |-> IF u \in DOMAIN User0 THEN User0[u] ELSE NoUser]
  /\ members = [m \in Salons \X Users |-> IF m \in DOMAIN Member0 THEN Member0[m] ELSE NoMember]
  /\ trail = <<>>
  /\ txn = [r \in Requests |-> New]
  /\ granted = [r \in Requests |-> {}]

Goto(r, pc) == txn' = [txn EXCEPT ![r].pc = pc]
Answer(r, a) == txn' = [txn EXCEPT ![r] =
                  [New EXCEPT !.pc = "done", !.by = txn[r].by, !.op = txn[r].op,
                              !.salon = txn[r].salon, !.needs = txn[r].needs, !.answer = a]]

(* What a request can be refused with; the last is "Compte desactive.".    *)
Refusals == {"EmployeeNotFound", "PhoneAlreadyInUse", "TerminalDeviceNotFound",
             "NotAuthenticated", "PermissionDenied", "AccountDisabled"}

Seat(r) == <<txn[r].salon, txn[r].who>>

-----------------------------------------------------------------------------
(* domain/permissions.py: what each role may do on a salon.                *)
RolePermissions(role) ==
  CASE role = "HAIRDRESSER" -> {"SALON_READ_OWN", "SERVICE_READ", "QUEUE_TICKET_UPDATE_STATUS",
                                "QUEUE_TICKET_READ_SALON"}
    [] role = "MANAGER" -> {"SALON_CREATE", "SALON_UPDATE", "SALON_READ_OWN", "SERVICE_MANAGE",
                            "SERVICE_READ", "QUEUE_TICKET_UPDATE_STATUS",
                            "QUEUE_TICKET_READ_SALON", "EMPLOYEE_MANAGE", "CUSTOMER_MANAGE",
                            "PAYMENT_RECORD", "CASH_JOURNAL_READ", "STATS_READ_SALON",
                            "TERMINAL_PROVISION", "AUDIT_LOG_READ"}
    [] role = "TERMINAL" -> {"CUSTOMER_LOOKUP_TERMINAL", "CUSTOMER_CREATE_WALKIN",
                             "QUEUE_TICKET_CREATE"}
    [] role = "CLIENT" -> {"SALON_READ_ANY", "SERVICE_READ", "PAYMENT_READ_OWN"}
    [] role = "ADMIN" -> {"SALON_READ_ANY", "SALON_SET_STATUS", "USER_MANAGE",
                          "STATS_READ_PLATFORM"}

(* SqlSalonScopeRepository.salon_ids_for                                   *)
SalonIdsFor(u, role) ==
  IF role = "MANAGER" THEN {s \in Salons : Owner[s] = u}
  ELSE IF role \in {"HAIRDRESSER", "TERMINAL"}
       THEN {s \in Salons : members[<<s, u>>].status = "ACTIVE"}
  ELSE {}

(* AccessPolicy.scope_of and can_access_salon                              *)
ScopeOf(u, role) == IF role = "ADMIN" THEN Salons ELSE SalonIdsFor(u, role)

CanAccessSalon(u, role, s) ==
  role = "ADMIN" \/ (role \in {"MANAGER", "HAIRDRESSER", "TERMINAL"} /\ s \in ScopeOf(u, role))

-----------------------------------------------------------------------------
(* A request with a valid token of account u for salon s                   *)
(* (require_authenticated: the signature and the expiry only).             *)
Enter(r, op, u, s, local) ==
  /\ txn[r].pc = "new"
  /\ txn' = [txn EXCEPT ![r] = [local EXCEPT !.pc = "principal", !.op = op, !.by = u, !.salon = s]]
  /\ UNCHANGED <<rows, trail>>

ReadClaims(r) ==                                                    \* mutant
  LET account == users[txn[r].by]
  IN /\ txn[r].pc = "principal"
     /\ IF account = NoUser THEN Answer(r, "NotAuthenticated")
        ELSE txn' = [txn EXCEPT ![r].pc = "scope", ![r].role = account.role]
     /\ UNCHANGED <<rows, trail>>

(* get_current_principal: the account is read again.                       *)
ReadPrincipal(r) ==
  LET account == users[txn[r].by]
  IN /\ txn[r].pc = "principal"
     /\ IF account = NoUser THEN Answer(r, "NotAuthenticated")
        ELSE IF account.status # "ACTIVE" THEN Answer(r, "AccountDisabled")
        ELSE txn' = [txn EXCEPT ![r].pc = "scope", ![r].role = account.role]
     /\ UNCHANGED <<rows, trail>>

First(op) == CASE op = "create" -> "exists" [] op = "update" -> "find" [] op = "get" -> "get"
               [] op = "use" -> "use" [] OTHER -> "load"

CheckRoleOnly(r) ==                                                 \* mutant
  /\ txn[r].pc = "scope"
  /\ IF txn[r].needs \in RolePermissions(txn[r].role)
     THEN Goto(r, First(txn[r].op)) ELSE Answer(r, "PermissionDenied")
  /\ UNCHANGED <<rows, trail>>

(* require_salon_scope, then require_permission.                           *)
CheckScope(r) ==
  /\ txn[r].pc = "scope"
  /\ IF CanAccessSalon(txn[r].by, txn[r].role, txn[r].salon)
        /\ txn[r].needs \in RolePermissions(txn[r].role)
     THEN Goto(r, First(txn[r].op))
     ELSE Answer(r, "PermissionDenied")
  /\ UNCHANGED <<rows, trail>>

-----------------------------------------------------------------------------
(* The routes of the employees                                             *)
Manage(who) == [New EXCEPT !.needs = "EMPLOYEE_MANAGE", !.who = who]

CreateEmployee(r, u, s, p, k) ==
  Enter(r, "create", u, s, [Manage(None) EXCEPT !.phone = p, !.skills = k])
UpdateEmployee(r, u, s, who, p, k) ==
  Enter(r, "update", u, s, [Manage(who) EXCEPT !.phone = p, !.skills = k])
DeactivateEmployee(r, u, s, who) == Enter(r, "deactivate", u, s, Manage(who))
ReactivateEmployee(r, u, s, who) == Enter(r, "reactivate", u, s, Manage(who))
GetEmployee(r, u, s, who)        == Enter(r, "get", u, s, Manage(who))

(* DELETE terminal-devices, and any route of the salon that needs p.       *)
RevokeTerminal(r, u, s, who) ==
  Enter(r, "revoke", u, s, [New EXCEPT !.needs = "TERMINAL_PROVISION", !.who = who])
UseRoute(r, u, s, p) == Enter(r, "use", u, s, [New EXCEPT !.needs = p])

(* POST auth/register: public.                                             *)
Register(r, p) ==
  /\ txn[r].pc = "new"
  /\ txn' = [txn EXCEPT ![r] = [New EXCEPT !.pc = "exists", !.op = "register", !.phone = p]]
  /\ UNCHANGED <<rows, trail>>

-----------------------------------------------------------------------------
(* Locks of rows, and of the entries of the unique index on users.phone    *)
(* that a transaction adds or removes.                                     *)
Writing(q)       == txn[q].pc \in {"member", "loadM", "flushM", "flushed"}
UserHolders(u)   == {q \in Requests : Writing(q) /\ txn[q].who = u /\ txn[q].setU # {}}
MemberHolders(m) == {q \in Requests : txn[q].pc = "flushed" /\ Seat(q) = m /\ txn[q].setM # {}}

Carrier(p)   == {u \in Users : users[u].phone = p}
Undecided(r) == \E q \in Requests \ {r} :
                  /\ Writing(q) /\ "phone" \in txn[q].setU
                  /\ txn[q].phone = txn[r].phone \/ users[txn[q].who].phone = txn[r].phone
Duplicate(r) == Carrier(txn[r].phone) \ {txn[r].who} # {}

(* phone_exists                                                            *)
PhoneExists(r) ==
  /\ txn[r].pc = "exists"
  /\ IF Carrier(txn[r].phone) # {} THEN Answer(r, "PhoneAlreadyInUse") ELSE Goto(r, "insert")
  /\ UNCHANGED <<rows, trail>>

Fresh == {u \in Users : users[u] = NoUser /\ \A q \in Requests : txn[q].who # u}

(* SqlUserRepository.create                                                *)
InsertUser(r) ==
  /\ txn[r].pc = "insert" /\ ~Undecided(r)
  /\ Fresh # {}  \* bound: accounts left
  /\ IF Duplicate(r) THEN Answer(r, "PhoneAlreadyInUse")
     ELSE txn' = [txn EXCEPT ![r].who = CHOOSE u \in Fresh : TRUE,
                    ![r].pc = IF txn[r].op = "create" THEN "member" ELSE "flushed",
                    ![r].setU = {"role", "status", "phone"}]
  /\ UNCHANGED <<rows, trail>>

(* add_member, and the specialties, which are loaded and written next.     *)
AddMember(r) ==
  /\ txn[r].pc = "member"
  /\ txn' = [txn EXCEPT ![r].pc = "flushed", ![r].setM = {"role", "status", "specialties"}]
  /\ UNCHANGED <<rows, trail>>

-----------------------------------------------------------------------------
(* UpdateEmployeeProfile: the employee is selected in the salon ...        *)
Find(r) ==
  /\ txn[r].pc = "find"
  /\ IF members[Seat(r)] = NoMember THEN Answer(r, "EmployeeNotFound")
     ELSE txn' = [txn EXCEPT ![r].pc = "loadU",
                             ![r].seen = <<users[txn[r].who], members[Seat(r)]>>]
  /\ UNCHANGED <<rows, trail>>

(* ... the identity is loaded ...                                          *)
LoadUser(r) ==
  /\ txn[r].pc = "loadU"
  /\ txn' = [txn EXCEPT ![r].pc = "flushU",
               ![r].setU = IF users[txn[r].who].phone # txn[r].phone THEN {"phone"} ELSE {}]
  /\ UNCHANGED <<rows, trail>>

(* ... and written, and then what she does is loaded.                      *)
FlushUser(r) ==
  /\ txn[r].pc = "flushU"
  /\ txn[r].setU # {} => UserHolders(txn[r].who) = {} /\ ~Undecided(r)
  /\ IF txn[r].setU # {} /\ Duplicate(r) THEN Answer(r, "PhoneAlreadyInUse")
     ELSE Goto(r, "loadM")
  /\ UNCHANGED <<rows, trail>>

LoadMemberAll(r) ==                                                 \* mutant
  LET row == members[Seat(r)]
  IN /\ txn[r].pc = "loadM"
     /\ txn' = [txn EXCEPT ![r].pc = "flushM", ![r].loaded = txn[r].seen[2],
          ![r].setM = {"status"} \cup IF row.specialties # txn[r].skills
                                      THEN {"specialties"} ELSE {}]
     /\ UNCHANGED <<rows, trail>>

LoadMember(r) ==
  LET row == members[Seat(r)]
  IN /\ txn[r].pc = "loadM"
     /\ txn' = [txn EXCEPT ![r].pc = "flushM", ![r].loaded = row,
          ![r].setM = IF row.specialties # txn[r].skills THEN {"specialties"} ELSE {}]
     /\ UNCHANGED <<rows, trail>>

(* set_status and revoke: the row of salon_members, whose role matters for *)
(* a revocation only.                                                      *)
Target(r) == IF txn[r].op = "reactivate" THEN "ACTIVE" ELSE "INACTIVE"

LoadStatus(r) ==
  LET row == members[Seat(r)]
  IN /\ txn[r].pc = "load"
     /\ IF row = NoMember \/ (txn[r].op = "revoke" /\ row.role # "TERMINAL")
        THEN Answer(r, IF txn[r].op = "revoke" THEN "TerminalDeviceNotFound"
                       ELSE "EmployeeNotFound")
        ELSE txn' = [txn EXCEPT ![r].pc = IF txn[r].op = "revoke" THEN "account" ELSE "flushM",
                                ![r].loaded = row,
                                ![r].setM = IF row.status # Target(r) THEN {"status"} ELSE {}]
     /\ UNCHANGED <<rows, trail>>

(* revoke: the account, which is suspended.                                *)
SuspendAccount(r) ==
  /\ txn[r].pc = "account" /\ UserHolders(txn[r].who) = {}
  /\ txn' = [txn EXCEPT ![r].pc = "flushM",
               ![r].setU = IF users[txn[r].who].status = "SUSPENDED" THEN {} ELSE {"status"}]
  /\ UNCHANGED <<rows, trail>>

FlushMember(r) ==
  /\ txn[r].pc = "flushM"
  /\ txn[r].setM # {} => MemberHolders(Seat(r)) = {}
  /\ Goto(r, "flushed")
  /\ UNCHANGED <<rows, trail>>

-----------------------------------------------------------------------------
(* The line of the log and the commit of each.                             *)
Line(r, changed) == trail' = Append(trail, [action |-> txn[r].op, who |-> Seat(r),
                                            changed |-> changed])

CommitRegistration(r) ==
  /\ txn[r].pc = "flushed" /\ txn[r].op = "register"
  /\ users' = [users EXCEPT ![txn[r].who] =
                 [role |-> "CLIENT", status |-> "ACTIVE", phone |-> txn[r].phone]]
  /\ Answer(r, "ok")
  /\ UNCHANGED <<members, trail>>

CommitEmployee(r) ==
  /\ txn[r].pc = "flushed" /\ txn[r].op = "create"
  /\ users' = [users EXCEPT ![txn[r].who] =
                 [role |-> "HAIRDRESSER", status |-> "ACTIVE", phone |-> txn[r].phone]]
  /\ members' = [members EXCEPT ![Seat(r)] =
                   [role |-> "HAIRDRESSER", status |-> "ACTIVE", specialties |-> txn[r].skills]]
  /\ Line(r, {})
  /\ Answer(r, "ok")

Changed(r) == {k \in {"phone", "specialties"} :
                 IF k = "phone" THEN txn[r].seen[1].phone # txn[r].phone
                 ELSE txn[r].seen[2].specialties # txn[r].skills}

CommitProfile(r) ==
  /\ txn[r].pc = "flushed" /\ txn[r].op = "update"
  /\ users' = [users EXCEPT ![txn[r].who].phone =
                 IF "phone" \in txn[r].setU THEN txn[r].phone ELSE @]
  /\ members' = [members EXCEPT
       ![Seat(r)].specialties = IF "specialties" \in txn[r].setM THEN txn[r].skills ELSE @,
       ![Seat(r)].status = IF "status" \in txn[r].setM THEN txn[r].loaded.status ELSE @]
  /\ Line(r, Changed(r))
  /\ Answer(r, "ok")

CommitStatus(r) ==
  /\ txn[r].pc = "flushed" /\ txn[r].op \in {"deactivate", "reactivate", "revoke"}
  /\ users' = [users EXCEPT ![txn[r].who].status =
                 IF txn[r].setU # {} THEN "SUSPENDED" ELSE @]
  /\ members' = [members EXCEPT ![Seat(r)].status =
                   IF txn[r].setM # {} THEN Target(r) ELSE @]
  /\ Line(r, {})
  /\ Answer(r, "ok")

(* GET employees, and the other routes of the salon.                       *)
Get(r) ==
  /\ txn[r].pc = "get"
  /\ Answer(r, IF members[Seat(r)] = NoMember THEN "EmployeeNotFound" ELSE "ok")
  /\ UNCHANGED <<rows, trail>>

Use(r) == /\ txn[r].pc = "use"
          /\ Answer(r, "ok")
          /\ UNCHANGED <<rows, trail>>

Abort(r) == /\ txn[r].pc \in {"insert", "member", "flushU", "flushM", "flushed"}
            /\ Answer(r, "error")
            /\ UNCHANGED <<rows, trail>>

-----------------------------------------------------------------------------
Receive(r) ==
  \/ \E p \in Phones : Register(r, p)
  \/ \E u \in Callers, s \in Salons :
       \/ \E p \in Phones, k \in Skills : CreateEmployee(r, u, s, p, k)
       \/ \E who \in Subjects :
            \/ \E p \in Phones, k \in Skills : UpdateEmployee(r, u, s, who, p, k)
            \/ DeactivateEmployee(r, u, s, who) \/ ReactivateEmployee(r, u, s, who)
            \/ GetEmployee(r, u, s, who) \/ RevokeTerminal(r, u, s, who)
  \/ \E u \in DOMAIN User0, s \in Salons, p \in Uses : UseRoute(r, u, s, p)

Guard(r)  == ReadPrincipal(r) \/ CheckScope(r)
Write(r)  == \/ PhoneExists(r) \/ InsertUser(r) \/ AddMember(r)
             \/ Find(r) \/ LoadUser(r) \/ FlushUser(r) \/ LoadMember(r) \/ FlushMember(r)
             \/ LoadStatus(r) \/ SuspendAccount(r)
Finish(r) == \/ CommitRegistration(r) \/ CommitEmployee(r) \/ CommitProfile(r)
             \/ CommitStatus(r) \/ Get(r) \/ Use(r)

(* What the guards ask of the account and of the salon, and what of it a   *)
(* request was granted at some time since it began.                        *)
AccountIsActive(r) == users[txn[r].by].status = "ACTIVE"
SalonIsOpenTo(r)   == /\ CanAccessSalon(txn[r].by, users[txn[r].by].role, txn[r].salon)
                      /\ txn[r].needs \in RolePermissions(users[txn[r].by].role)
Grants(r) == {x \in {"account", "salon"} :
                IF x = "account" THEN AccountIsActive(r) ELSE SalonIsOpenTo(r)}
Grant == granted' = [r \in Requests |->
                       IF txn'[r].by = None THEN {} ELSE granted[r] \cup Grants(r)']

Next == /\ \E r \in Requests : Receive(r) \/ Guard(r) \/ Write(r) \/ Finish(r) \/ Abort(r)
        /\ Grant

Spec == Init /\ [][Next]_vars

-----------------------------------------------------------------------------
(* What the accounts, the salons and the members there are at first are.   *)
(* An account is attached to one salon at most: those of employees and     *)
(* kiosks are created with their attachment (CreateEmployee,               *)
(* ProvisionTerminalDevice), and no route attaches one that exists.        *)
Roles       == {"CLIENT", "HAIRDRESSER", "MANAGER", "ADMIN", "TERMINAL"}
Telephones  == Phones \cup {User0[u].phone : u \in DOMAIN User0}
Specialties == Skills \cup {Member0[m].specialties : m \in DOMAIN Member0}
Accounts    == [role : Roles, status : {"ACTIVE", "SUSPENDED"}, phone : Telephones]
Members     == [role : {"HAIRDRESSER", "TERMINAL"}, status : {"ACTIVE", "INACTIVE"},
                specialties : Specialties]

ASSUME StaffAssumption ==
  /\ DOMAIN User0 \cup Callers \cup Subjects \subseteq Users
  /\ \A u \in DOMAIN User0 : User0[u] \in Accounts
  /\ DOMAIN Member0 \subseteq Salons \X DOMAIN User0
  /\ \A m \in DOMAIN Member0 : Member0[m] \in Members
  /\ \A m, n \in DOMAIN Member0 : m[2] = n[2] => m = n
  /\ None \notin Users \cup Telephones \cup Roles \cup {"ok"}

(* The type invariant of the rows: an account or a member that exists is   *)
(* complete.                                                               *)
TypeOK ==
  /\ users \in [Users -> Accounts \cup {NoUser}]
  /\ members \in [Salons \X Users -> Members \cup {NoMember}]
  /\ \A r \in Requests : txn[r].answer \in Refusals \cup {None, "ok", "error"}

(* A salon is closed to everybody but its own (11.2): an account that is   *)
(* attached to a salon, and its attachment, are changed by requests of the *)
(* owner of that salon only, although an edit of an employee writes the    *)
(* identity of an account, which belongs to no salon.                      *)
Finishing(r) == txn[r].pc = "flushed" /\ txn'[r].answer = "ok"

SalonsAreIsolated ==
  [][\A m \in DOMAIN members :
       members[m] # NoMember /\ (members'[m] # members[m] \/ users'[m[2]] # users[m[2]]) =>
         \E r \in Requests : Finishing(r) /\ Seat(r) = m /\ txn[r].by = Owner[m[1]]]_vars

(* The log tells who is available: whatever changes the status of a member *)
(* leaves a line that says so in the same commit, and a line that says it  *)
(* is followed by the status unless the row changed after it was loaded    *)
(* ("activer/desactiver", employees.py).                                   *)
Says(line) == IF line.action \in {"create", "reactivate"} THEN "ACTIVE"
              ELSE IF line.action \in {"deactivate", "revoke"} THEN "INACTIVE" ELSE None

AuditTellsAvailability ==
  [][LET told == IF trail' = trail THEN [who |-> None, action |-> "none"] ELSE trail'[Len(trail')]
     IN /\ \A m \in DOMAIN members : members'[m].status # members[m].status =>
             told.who = m /\ Says(told) = members'[m].status
        /\ Says(told) # None /\ members'[told.who].status # Says(told) =>
             \E r \in Requests : Finishing(r) /\ Seat(r) = told.who
                                 /\ txn[r].loaded # members[told.who]]_vars

(* A right that is withdrawn is withdrawn at once (security.py, "relu a    *)
(* chaque requete"): a request that passed its guards ran, at some time    *)
(* since it began, while its account was active, and at some time while    *)
(* the salon and the permission were granted to the account.  The two are  *)
(* read by two statements, and need not have held together.                *)
Passed(r) == /\ txn[r].op \notin {"none", "register"}
             /\ \/ txn[r].answer = "ok"
                \/ txn[r].pc \notin {"new", "principal", "scope", "done"}

WithdrawalIsImmediate == \A r \in Requests : Passed(r) => granted[r] = {"account", "salon"}
=============================================================================
