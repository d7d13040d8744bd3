---------------------------- MODULE BackOfficeProofs ----------------------------
(***************************************************************************)
(* The staff and the customers by their own invariants (Inv and GrantInv,  *)
(* CardInv and CoverInv), and the back office as its five desks: each of   *)
(* its behaviours is one of every desk, so that what holds at a desk holds *)
(* in the office.  The pictures, the hours and the catalogue are in        *)
(* DeskProofs.                                                             *)
(***************************************************************************)
EXTENDS DeskProofs

-----------------------------------------------------------------------------
(* The staff (SalonStaff).                                                 *)

Creating == {"create", "register"}
Setting  == {"deactivate", "reactivate", "revoke"}
Managing == Setting \cup {"update"}
Loaded   == {"loadU", "flushU", "loadM", "account", "flushM", "flushed"}
Entering == {"new", "principal", "done"}

Pcs     == {"new", "principal", "scope", "exists", "insert", "member", "find", "load", "get",
            "use", "done"} \cup Loaded
Ops     == {"none", "get", "use"} \cup Creating \cup Managing
Needs   == Uses \cup {"none", "EMPLOYEE_MANAGE", "TERMINAL_PROVISION"}
Seen    == (Accounts \cup {NoUser}) \X (Members \cup {NoMember})
Answers == Refusals \cup {None, "ok", "error"}

Txns == [pc : Pcs, op : Ops, by : Users \cup {None}, salon : Salons \cup {None},
         who : Users \cup {None}, needs : Needs, role : Roles \cup {None},
         phone : Phones \cup {None}, skills : Skills \cup {None}, seen : Seen,
         loaded : Members \cup {NoMember}, setU : SUBSET {"role", "status", "phone"},
         setM : SUBSET {"role", "status", "specialties"}, answer : Answers]

Aim(op) == IF op = "reactivate" THEN "ACTIVE" ELSE "INACTIVE"

(* What the local values of a request hold, by program counter.  The last  *)
(* two conjuncts are what the ORM writes: an edit never the status, a      *)
(* change of status only what the row that was loaded had not.             *)
Shape(x) ==
  /\ x.pc = "new" => x = New
  /\ x.op = "none" => x.pc = "new"
  /\ x.pc = "done" => x.who = None
  /\ x.op = "register" => x.pc \in {"exists", "insert", "flushed", "done"}
  /\ x.op \notin {"none", "register"} => x.by \in Users /\ x.salon \in Salons
  /\ x.op \in {"create", "update", "deactivate", "reactivate"} => x.needs = "EMPLOYEE_MANAGE"
  /\ x.op = "revoke" => x.needs = "TERMINAL_PROVISION"
  /\ x.pc \in {"exists", "insert", "member"} => x.op \in Creating
  /\ x.pc = "member" => x.op = "create"
  /\ x.pc \in {"find", "loadU", "flushU", "loadM"} => x.op = "update"
  /\ x.pc \in {"load", "account"} => x.op \in Setting
  /\ x.pc = "flushM" => x.op \in Managing
  /\ x.pc = "flushed" => x.op \in Creating \cup Managing
  /\ x.op \in Creating /\ x.pc \notin {"member", "flushed"} => x.who = None
  /\ x.op \in Creating /\ x.pc \in {"member", "flushed"} => x.who \in Users
  /\ x.op \in Managing /\ x.pc # "done" => x.who \in Users
  /\ x.op \in Creating \cup {"update"} /\ x.pc # "done" => x.phone \in Phones
  /\ x.op \in {"create", "update"} /\ x.pc # "done" => x.skills \in Skills
  /\ x.op = "update" => x.setM \subseteq {"specialties"}
  /\ x.op \in Setting /\ x.pc \in {"account", "flushM", "flushed"} =>
       /\ x.setM \subseteq {"status"}
       /\ x.setM = {} <=> x.loaded.status = Aim(x.op)

(* The account of a request exists and has the role that was read, and who *)
(* manages the people of a salon owns it.                                  *)
Entitled(x) ==
  /\ x.op \notin {"none", "register"} /\ x.pc \notin Entering =>
       /\ users[x.by] # NoUser /\ users[x.by].role = x.role
  /\ x.op \in Managing \cup {"create"} /\ x.pc \notin Entering \cup {"scope"} =>
       Owner[x.salon] = x.by

(* A member that was loaded is there, an account to be created is not.     *)
Placed(x) ==
  /\ x.op \in Managing /\ x.pc \in Loaded => members[<<x.salon, x.who>>] # NoMember
  /\ x.op \in Creating /\ x.pc \in {"member", "flushed"} => users[x.who] = NoUser

Fits(x) == x \in Txns /\ Shape(x) /\ Entitled(x) /\ Placed(x)

(* An account belongs to one salon.                                        *)
OneSalon ==
  \A m, n \in Salons \X Users :
    members[m] # NoMember /\ members[n] # NoMember /\ m[2] = n[2] => m = n
Attached == \A m \in Salons \X Users : members[m] # NoMember => users[m[2]] # NoUser

(* Two requests create two accounts.                                       *)
OwnAccount ==
  \A q, r \in Requests :
    q # r /\ txn[q].op \in Creating /\ txn[r].op \in Creating /\ txn[r].who # None
    => txn[q].who # txn[r].who

Rows == /\ users \in [Users -> Accounts \cup {NoUser}]
        /\ members \in [Salons \X Users -> Members \cup {NoMember}]
        /\ OneSalon /\ Attached

Inv == /\ txn \in [Requests -> Txns] /\ (\A r \in Requests : Fits(txn[r]))
       /\ Rows /\ OwnAccount

(* What a request was granted: the account once it was read, the salon     *)
(* once the scope was checked, and what it is granted now.                 *)
GrantInv ==
  \A r \in Requests :
    /\ granted[r] \subseteq {"account", "salon"}
    /\ txn[r].by # None => Grants(r) \subseteq granted[r]
    /\ /\ txn[r].op \notin {"none", "register"}
       /\ txn[r].answer = "ok" \/ txn[r].pc \notin Entering
       => "account" \in granted[r]
    /\ Passed(r) => "salon" \in granted[r]

-----------------------------------------------------------------------------
(* Lemmas on the operators of the model.                                   *)

LEMMA Distinct ==
  ASSUME StaffAssumption
  PROVE  /\ NoUser \notin Accounts /\ NoMember \notin Members
         /\ None \notin Users /\ None \notin Phones
  BY StaffAssumption DEF NoUser, NoMember, Accounts, Members, Roles, Telephones

(* One local value is set.                                                 *)
LEMMA SetOne ==
  ASSUME NEW x \in Txns
  PROVE  /\ \A v \in Pcs : [x EXCEPT !.pc = v] \in Txns
         /\ \A v \in Ops : [x EXCEPT !.op = v] \in Txns
         /\ \A v \in Users \cup {None} : [x EXCEPT !.by = v] \in Txns
         /\ \A v \in Salons \cup {None} : [x EXCEPT !.salon = v] \in Txns
         /\ \A v \in Users \cup {None} : [x EXCEPT !.who = v] \in Txns
         /\ \A v \in Needs : [x EXCEPT !.needs = v] \in Txns
         /\ \A v \in Roles \cup {None} : [x EXCEPT !.role = v] \in Txns
         /\ \A v \in Phones \cup {None} : [x EXCEPT !.phone = v] \in Txns
         /\ \A v \in Skills \cup {None} : [x EXCEPT !.skills = v] \in Txns
         /\ \A v \in Seen : [x EXCEPT !.seen = v] \in Txns
         /\ \A v \in Members \cup {NoMember} : [x EXCEPT !.loaded = v] \in Txns
         /\ \A v \in SUBSET {"role", "status", "phone"} : [x EXCEPT !.setU = v] \in Txns
         /\ \A v \in SUBSET {"role", "status", "specialties"} : [x EXCEPT !.setM = v] \in Txns
         /\ \A v \in Answers : [x EXCEPT !.answer = v] \in Txns
  BY DEF Txns

(* Several are set.                                                        *)
LEMMA SetCall ==
  ASSUME NEW x \in Txns, NEW p \in Pcs, NEW o \in Ops, NEW b \in Users \cup {None},
         NEW s \in Salons \cup {None}
  PROVE  [x EXCEPT !.pc = p, !.op = o, !.by = b, !.salon = s] \in Txns
<1>1. [[[x EXCEPT !.pc = p] EXCEPT !.op = o] EXCEPT !.by = b] \in Txns
  BY SetOne
<1>2. [x EXCEPT !.pc = p, !.op = o, !.by = b, !.salon = s]
        = [[[[x EXCEPT !.pc = p] EXCEPT !.op = o] EXCEPT !.by = b] EXCEPT !.salon = s]
  OBVIOUS
<1>3. QED
  BY <1>1, <1>2, SetOne

LEMMA NewFits == New \in Txns /\ Shape(New) /\ Entitled(New) /\ Placed(New)
<1>1. New \in Txns
  BY DEF New, Txns, Pcs, Ops, Needs, Seen, Answers
<1>2. Shape(New) /\ Entitled(New) /\ Placed(New)
  BY DEF New, Shape, Entitled, Placed, Creating, Managing, Setting, Entering, Loaded
<1>3. QED
  BY <1>1, <1>2

(* What a request that is answered holds.                                  *)
Answered(x, a) == [New EXCEPT !.pc = "done", !.by = x.by, !.op = x.op, !.salon = x.salon,
                              !.needs = x.needs, !.answer = a]

LEMMA AnsweredFits ==
  ASSUME NEW x \in Txns, Shape(x), x.pc # "new", NEW a \in Refusals \cup {"ok", "error"}
  PROVE  /\ Answered(x, a) \in Txns /\ Shape(Answered(x, a))
         /\ Entitled(Answered(x, a)) /\ Placed(Answered(x, a))
         /\ Answered(x, a).pc = "done" /\ Answered(x, a).who = None
         /\ Answered(x, a).answer = a /\ Answered(x, a).op = x.op
         /\ Answered(x, a).by = x.by
<1> DEFINE y == Answered(x, a)
<1>1. /\ y.pc = "done" /\ y.by = x.by /\ y.op = x.op /\ y.salon = x.salon /\ y.needs = x.needs
      /\ y.answer = a /\ y.who = None /\ y.setM = {}
  BY DEF Answered, New
<1>2. y \in Txns
  <2>1. "done" \in Pcs /\ a \in Answers
    BY DEF Pcs, Answers
  <2>2. /\ x.op \in Ops /\ x.by \in Users \cup {None} /\ x.salon \in Salons \cup {None}
        /\ x.needs \in Needs
    BY DEF Txns
  <2> DEFINE z == [New EXCEPT !.pc = "done", !.op = x.op, !.by = x.by, !.salon = x.salon]
  <2>3. z \in Txns
    BY <2>1, <2>2, NewFits, SetCall
  <2>4. y = [[z EXCEPT !.needs = x.needs] EXCEPT !.answer = a]
    BY DEF Answered
  <2> HIDE DEF y, z
  <2>5. QED
    BY <2>1, <2>2, <2>3, <2>4, SetOne
<1> HIDE DEF y
<1>3. Shape(y)
  BY <1>1 DEF Shape, Creating, Managing, Setting
<1>4. Entitled(y) /\ Placed(y)
  BY <1>1 DEF Entitled, Placed, Entering, Loaded
<1>5. QED
  BY <1>1, <1>2, <1>3, <1>4 DEF y

LEMMA InitInv == Init => Inv
<1> SUFFICES ASSUME Init PROVE Inv
  OBVIOUS
<1>1. \A r \in Requests : txn[r] = New
  BY DEF Init
<1>2. txn \in [Requests -> Txns] /\ \A r \in Requests : Fits(txn[r])
  BY <1>1, NewFits DEF Init, Fits
<1>3. OwnAccount
  BY <1>1 DEF OwnAccount, New
<1>4. users \in [Users -> Accounts \cup {NoUser}]
  BY StaffAssumption DEF Init
<1>5. members \in [Salons \X Users -> Members \cup {NoMember}]
  BY StaffAssumption DEF Init
<1>6. \A m \in Salons \X Users : members[m] # NoMember =>
        m \in DOMAIN Member0 /\ m[2] \in DOMAIN User0 /\ m[2] \in Users
  BY StaffAssumption DEF Init
<1>7. OneSalon
  BY <1>6, StaffAssumption DEF OneSalon
<1>8. Attached
  <2>1. \A u \in DOMAIN User0 : u \in Users /\ users[u] \in Accounts
    BY StaffAssumption DEF Init
  <2>2. QED
    BY <1>6, <2>1, Distinct, StaffAssumption DEF Attached
<1>9. QED
  BY <1>2, <1>3, <1>4, <1>5, <1>7, <1>8 DEF Inv, Rows

(* A request moves to x, the rows do not change.                           *)
LEMMA MoveInv ==
  ASSUME Inv, NEW r \in Requests, NEW x, Fits(x), txn' = [txn EXCEPT ![r] = x],
         UNCHANGED rows,
         x.op \in Creating /\ x.who # None
           => \A q \in Requests \ {r} : txn[q].op \in Creating => txn[q].who # x.who
  PROVE  Inv'
<1>1. \A q \in Requests : txn'[q] = IF q = r THEN x ELSE txn[q]
  BY DEF Inv
<1>2. txn' \in [Requests -> Txns]
  BY DEF Inv, Fits
<1>3. Rows'
  BY DEF Inv, Rows, rows, OneSalon, Attached
<1>4. \A q \in Requests : Fits(txn[q])' 
  <2>1. ASSUME NEW y, Fits(y) PROVE Fits(y)'
    BY <2>1 DEF Fits, Entitled, Placed, rows
  <2>2. ASSUME NEW q \in Requests, NEW y, y = txn'[q] PROVE Fits(y)'
    <3>1. Fits(y)
      BY <1>1, <2>2 DEF Inv
    <3>2. QED
      BY <2>1, <3>1
  <2>3. QED
    BY <2>2 DEF Fits, Entitled, Placed
<1>5. OwnAccount'
  <2>1. ASSUME NEW p \in Requests, NEW q \in Requests, p # q, txn'[p].op \in Creating,
               txn'[q].op \in Creating, txn'[q].who # None
        PROVE  txn'[p].who # txn'[q].who
    BY <1>1, <2>1 DEF Inv, OwnAccount
  <2>2. QED
    BY <2>1 DEF OwnAccount
<1>6. QED
  BY <1>2, <1>3, <1>4, <1>5 DEF Inv

LEMMA AnswerInv ==
  ASSUME Inv, NEW r \in Requests, NEW a \in Refusals \cup {"ok", "error"}, Answer(r, a),
         txn[r].pc # "new", UNCHANGED rows
  PROVE  Inv'
<1>1. txn[r] \in Txns /\ Shape(txn[r])
  BY DEF Inv, Fits
<1>2. txn' = [txn EXCEPT ![r] = Answered(txn[r], a)]
  BY DEF Answer, Answered
<1>3. QED
  BY <1>1, <1>2, AnsweredFits, MoveInv DEF Fits

(* Only the program counter of a request moves.                            *)
LEMMA OnlyPc ==
  ASSUME NEW x \in Txns, NEW p \in Pcs
  PROVE  LET y == [x EXCEPT !.pc = p]
         IN /\ y \in Txns /\ y.pc = p /\ y.op = x.op /\ y.by = x.by /\ y.salon = x.salon
            /\ y.who = x.who /\ y.needs = x.needs /\ y.role = x.role /\ y.phone = x.phone
            /\ y.skills = x.skills /\ y.loaded = x.loaded /\ y.setU = x.setU
            /\ y.setM = x.setM /\ y.answer = x.answer
<1>1. [x EXCEPT !.pc = p] \in Txns
  BY SetOne
<1>2. QED
  BY <1>1 DEF Txns

-----------------------------------------------------------------------------
(* A request begins.                                                       *)

LEMMA EnterInv ==
  ASSUME Inv, NEW r \in Requests, NEW op \in Ops \ {"none", "register"},
         NEW u \in Users, NEW s \in Salons, NEW local \in Txns, Enter(r, op, u, s, local),
         op \in {"create", "update", "deactivate", "reactivate"} => local.needs = "EMPLOYEE_MANAGE",
         op = "revoke" => local.needs = "TERMINAL_PROVISION",
         op = "create" => local.who = None,
         op \in Managing => local.who \in Users,
         op \in {"create", "update"} => local.phone \in Phones /\ local.skills \in Skills,
         local.setM = {}
  PROVE  Inv'
<1> DEFINE x == [local EXCEPT !.pc = "principal", !.op = op, !.by = u, !.salon = s]
<1>1. x \in Txns
  BY SetCall DEF Pcs
<1>2. /\ x.pc = "principal" /\ x.op = op /\ x.by = u /\ x.salon = s /\ x.who = local.who
      /\ x.needs = local.needs /\ x.phone = local.phone /\ x.skills = local.skills
      /\ x.setM = local.setM
  BY DEF Txns
<1>3. txn' = [txn EXCEPT ![r] = x] /\ UNCHANGED rows
  BY DEF Enter
<1> HIDE DEF x
<1>4. Shape(x)
  BY <1>2 DEF Shape, Creating, Managing, Setting
<1>5. Entitled(x) /\ Placed(x)
  BY <1>2 DEF Entitled, Placed, Entering, Loaded
<1>6. x.op \in Creating => x.who = None
  BY <1>2 DEF Creating
<1>7. QED
  BY <1>1, <1>3, <1>4, <1>5, <1>6, MoveInv DEF Fits

LEMMA ManageFacts ==
  ASSUME NEW who \in Users \cup {None}
  PROVE  LET m == Manage(who)
         IN m \in Txns /\ m.needs = "EMPLOYEE_MANAGE" /\ m.who = who /\ m.setM = {}
<1>1. New \in Txns /\ "EMPLOYEE_MANAGE" \in Needs
  BY NewFits DEF Needs
<1>2. [New EXCEPT !.needs = "EMPLOYEE_MANAGE"] \in Txns
  BY <1>1, SetOne
<1>3. [[New EXCEPT !.needs = "EMPLOYEE_MANAGE"] EXCEPT !.who = who] \in Txns
  BY <1>2, SetOne
<1>4. Manage(who) = [[New EXCEPT !.needs = "EMPLOYEE_MANAGE"] EXCEPT !.who = who]
  BY DEF Manage
<1>5. QED
  BY <1>3, <1>4 DEF New

Edit(who, p, k) == [Manage(who) EXCEPT !.phone = p, !.skills = k]

LEMMA EditFacts ==
  ASSUME NEW who \in Users \cup {None}, NEW p \in Phones, NEW k \in Skills
  PROVE  LET e == Edit(who, p, k)
         IN /\ e \in Txns /\ e.needs = "EMPLOYEE_MANAGE" /\ e.who = who /\ e.setM = {}
            /\ e.phone = p /\ e.skills = k
<1>1. [Manage(who) EXCEPT !.phone = p] \in Txns
  BY ManageFacts, SetOne
<1>2. [[Manage(who) EXCEPT !.phone = p] EXCEPT !.skills = k] \in Txns
  BY <1>1, SetOne
<1>3. Edit(who, p, k) = [[Manage(who) EXCEPT !.phone = p] EXCEPT !.skills = k]
  BY DEF Edit
<1>4. QED
  BY <1>2, <1>3 DEF Manage, New

LEMMA NeedFacts ==
  ASSUME NEW who \in Users \cup {None}, NEW n \in Needs
  PROVE  LET d == [New EXCEPT !.needs = n, !.who = who]
             a == [New EXCEPT !.needs = n]
         IN /\ d \in Txns /\ d.needs = n /\ d.who = who /\ d.setM = {}
            /\ a \in Txns /\ a.setM = {}
<1>1. [New EXCEPT !.needs = n] \in Txns
  BY NewFits, SetOne
<1>2. [[New EXCEPT !.needs = n] EXCEPT !.who = who] \in Txns
  BY <1>1, SetOne
<1>3. [New EXCEPT !.needs = n, !.who = who] = [[New EXCEPT !.needs = n] EXCEPT !.who = who]
  OBVIOUS
<1>4. QED
  BY <1>1, <1>2, <1>3 DEF New

LEMMA ReceiveInv == ASSUME Inv, NEW r \in Requests, Receive(r) PROVE Inv'
<1>0. Callers \subseteq Users /\ Subjects \subseteq Users /\ DOMAIN User0 \subseteq Users
  BY StaffAssumption
<1>1. ASSUME NEW p \in Phones, Register(r, p) PROVE Inv'
  <2> DEFINE x == [New EXCEPT !.pc = "exists", !.op = "register", !.phone = p]
  <2>1. x \in Txns
    <3>1. [New EXCEPT !.pc = "exists"] \in Txns
      BY NewFits, SetOne DEF Pcs
    <3>2. [[New EXCEPT !.pc = "exists"] EXCEPT !.op = "register"] \in Txns
      BY <3>1, SetOne DEF Ops, Creating
    <3>3. x = [[[New EXCEPT !.pc = "exists"] EXCEPT !.op = "register"] EXCEPT !.phone = p]
      OBVIOUS
    <3>4. QED
      BY <3>2, <3>3, SetOne
  <2>2. /\ x.pc = "exists" /\ x.op = "register" /\ x.phone = p /\ x.who = None
    BY DEF New
  <2>3. txn' = [txn EXCEPT ![r] = x] /\ UNCHANGED rows
    BY <1>1 DEF Register
  <2> HIDE DEF x
  <2>4. Shape(x)
    BY <2>2 DEF Shape, Creating, Managing, Setting
  <2>5. Entitled(x) /\ Placed(x)
    BY <2>2 DEF Entitled, Placed, Creating, Managing, Setting
  <2>6. QED
    BY <2>1, <2>2, <2>3, <2>4, <2>5, MoveInv DEF Fits
<1>2. ASSUME NEW u \in Callers, NEW s \in Salons, NEW p \in Phones, NEW k \in Skills,
             CreateEmployee(r, u, s, p, k)
      PROVE  Inv'
  <2>1. "create" \in Ops \ {"none", "register"} /\ "create" \notin Managing /\ u \in Users
    BY <1>0 DEF Ops, Creating, Managing, Setting
  <2> DEFINE local == Edit(None, p, k)
  <2>2. /\ local \in Txns /\ local.needs = "EMPLOYEE_MANAGE" /\ local.who = None
        /\ local.setM = {} /\ local.phone = p /\ local.skills = k
    BY EditFacts
  <2>3. Enter(r, "create", u, s, local)
    BY <1>2 DEF CreateEmployee, Edit
  <2> HIDE DEF local
  <2>4. QED
    BY <2>1, <2>2, <2>3, EnterInv
<1>3. ASSUME NEW u \in Callers, NEW s \in Salons, NEW who \in Subjects, NEW p \in Phones,
             NEW k \in Skills, UpdateEmployee(r, u, s, who, p, k)
      PROVE  Inv'
  <2>1. "update" \in Ops \ {"none", "register"} /\ u \in Users /\ who \in Users
    BY <1>0 DEF Ops, Creating, Managing, Setting
  <2> DEFINE local == Edit(who, p, k)
  <2>2. /\ local \in Txns /\ local.needs = "EMPLOYEE_MANAGE" /\ local.who = who
        /\ local.setM = {} /\ local.phone = p /\ local.skills = k
    BY <2>1, EditFacts
  <2>3. Enter(r, "update", u, s, local)
    BY <1>3 DEF UpdateEmployee, Edit
  <2> HIDE DEF local
  <2>4. QED
    BY <2>1, <2>2, <2>3, EnterInv
<1>4. ASSUME NEW u \in Callers, NEW s \in Salons, NEW who \in Subjects,
             NEW op \in {"deactivate", "reactivate", "get"}, Enter(r, op, u, s, Manage(who))
      PROVE  Inv'
  <2>1. op \in Ops \ {"none", "register"} /\ u \in Users /\ who \in Users
    BY <1>0 DEF Ops, Managing, Setting
  <2>2. /\ Manage(who) \in Txns /\ Manage(who).needs = "EMPLOYEE_MANAGE"
        /\ Manage(who).who = who /\ Manage(who).setM = {}
    BY <2>1, ManageFacts
  <2>3. QED
    BY <1>4, <2>1, <2>2, EnterInv
<1>5. ASSUME NEW u \in Callers, NEW s \in Salons, NEW who \in Subjects,
             RevokeTerminal(r, u, s, who)
      PROVE  Inv'
  <2>1. "revoke" \in Ops \ {"none", "register"} /\ u \in Users /\ who \in Users
    BY <1>0 DEF Ops, Managing, Setting
  <2> DEFINE local == [New EXCEPT !.needs = "TERMINAL_PROVISION", !.who = who]
  <2>2. /\ local \in Txns /\ local.needs = "TERMINAL_PROVISION" /\ local.who = who
        /\ local.setM = {}
    BY <2>1, NeedFacts DEF Needs
  <2>3. Enter(r, "revoke", u, s, local)
    BY <1>5 DEF RevokeTerminal
  <2> HIDE DEF local
  <2>4. QED
    BY <2>1, <2>2, <2>3, EnterInv
<1>6. ASSUME NEW u \in DOMAIN User0, NEW s \in Salons, NEW p \in Uses, UseRoute(r, u, s, p)
      PROVE  Inv'
  <2>1. "use" \in Ops \ {"none", "register"} /\ "use" \notin Managing /\ u \in Users
    BY <1>0 DEF Ops, Managing, Setting
  <2> DEFINE local == [New EXCEPT !.needs = p]
  <2>2. local \in Txns /\ local.setM = {}
    BY NeedFacts DEF Needs
  <2>3. Enter(r, "use", u, s, local)
    BY <1>6 DEF UseRoute
  <2> HIDE DEF local
  <2>4. QED
    BY <2>1, <2>2, <2>3, EnterInv
<1>7. QED
  BY <1>1, <1>2, <1>3, <1>4, <1>5, <1>6
     DEF Receive, DeactivateEmployee, ReactivateEmployee, GetEmployee

-----------------------------------------------------------------------------
(* The guards.                                                             *)

(* Who may manage the people of a salon is its owner: no other role has    *)
(* the two permissions, and the scope of a manager is what she owns.       *)
LEMMA OnlyOwners ==
  ASSUME NEW u, NEW role \in Roles, NEW s \in Salons, CanAccessSalon(u, role, s),
         NEW n \in {"EMPLOYEE_MANAGE", "TERMINAL_PROVISION"}, n \in RolePermissions(role)
  PROVE  Owner[s] = u
<1>1. role = "MANAGER"
  BY DEF RolePermissions, Roles
<1>2. QED
  BY <1>1 DEF CanAccessSalon, ScopeOf, SalonIdsFor

LEMMA GuardInv ==
  ASSUME Inv, NEW r \in Requests, Guard(r)
  PROVE  Inv'
<1>0. txn[r] \in Txns /\ Shape(txn[r]) /\ Entitled(txn[r])
  BY DEF Inv, Fits
<1>1. ASSUME ReadPrincipal(r) PROVE Inv'
  <2>1. /\ txn[r].pc = "principal" /\ txn[r].op \notin {"none", "register"} /\ txn[r].by \in Users
        /\ UNCHANGED rows
    BY <1>0, <1>1 DEF ReadPrincipal, Shape
  <2> DEFINE account == users[txn[r].by]
             x == [txn[r] EXCEPT !.pc = "scope", !.role = account.role]
  <2>2. CASE \E a \in {"NotAuthenticated", "AccountDisabled"} : Answer(r, a)
    BY <2>1, <2>2, AnswerInv DEF Refusals
  <2>3. CASE account # NoUser /\ txn' = [txn EXCEPT ![r].pc = "scope", ![r].role = account.role]
    <3>1. account \in Accounts /\ account.role \in Roles
      BY <2>1, <2>3 DEF Inv, Rows, Accounts
    <3>2. [[txn[r] EXCEPT !.pc = "scope"] EXCEPT !.role = account.role] \in Txns
      <4>1. [txn[r] EXCEPT !.pc = "scope"] \in Txns
        BY <1>0, SetOne DEF Pcs
      <4>2. QED
        BY <3>1, <4>1, SetOne
    <3>3. /\ x = [[txn[r] EXCEPT !.pc = "scope"] EXCEPT !.role = account.role]
          /\ txn' = [txn EXCEPT ![r] = x]
      BY <2>3 DEF Inv
    <3>4. /\ x \in Txns /\ x.pc = "scope" /\ x.role = account.role /\ x.op = txn[r].op
          /\ x.by = txn[r].by /\ x.salon = txn[r].salon /\ x.who = txn[r].who
          /\ x.needs = txn[r].needs /\ x.phone = txn[r].phone /\ x.skills = txn[r].skills
          /\ x.setM = txn[r].setM
      BY <1>0, <3>2, <3>3 DEF Txns
    <3>5. x.op \in Creating => x.who = None
      BY <1>0, <2>1, <3>4 DEF Shape
    <3> HIDE DEF x
    <3>6. Shape(x)
      BY <1>0, <2>1, <3>4 DEF Shape, Creating, Managing, Setting
    <3>7. Entitled(x) /\ Placed(x)
      BY <2>1, <2>3, <3>4 DEF Entitled, Placed, Entering, Loaded
    <3>8. QED
      BY <2>1, <3>3, <3>4, <3>5, <3>6, <3>7, MoveInv DEF Fits
  <2>4. QED
    BY <1>1, <2>2, <2>3 DEF ReadPrincipal
<1>2. ASSUME CheckScope(r) PROVE Inv'
  <2>1. /\ txn[r].pc = "scope" /\ txn[r].op \notin {"none", "register"} /\ UNCHANGED rows
        /\ txn[r].salon \in Salons /\ txn[r].by \in Users /\ users[txn[r].by] # NoUser
        /\ users[txn[r].by].role = txn[r].role
    BY <1>0, <1>2 DEF CheckScope, Shape, Entitled, Entering
  <2>2. CASE Answer(r, "PermissionDenied")
    BY <2>1, <2>2, AnswerInv DEF Refusals
  <2>3. CASE CanAccessSalon(txn[r].by, txn[r].role, txn[r].salon)
             /\ txn[r].needs \in RolePermissions(txn[r].role) /\ Goto(r, First(txn[r].op))
    <3>1. txn[r].role \in Roles
      BY <2>1 DEF Inv, Rows, Accounts
    <3>2. txn[r].op \in Managing \cup {"create"} => Owner[txn[r].salon] = txn[r].by
      <4>1. txn[r].op \in Managing \cup {"create"}
            => txn[r].needs \in {"EMPLOYEE_MANAGE", "TERMINAL_PROVISION"}
        BY <1>0 DEF Shape, Managing, Setting
      <4>2. QED
        BY <2>1, <2>3, <3>1, <4>1, OnlyOwners
    <3> DEFINE p == First(txn[r].op)
               x == [txn[r] EXCEPT !.pc = p]
    <3>3. /\ p \in {"exists", "find", "get", "use", "load"}
          /\ p = "exists" <=> txn[r].op = "create"
          /\ p = "find" <=> txn[r].op = "update"
          /\ p = "load" => txn[r].op \in Setting
      BY <1>0, <2>1 DEF First, Txns, Ops, Creating, Managing, Setting
    <3> HIDE DEF p
    <3>4. /\ x \in Txns /\ x.pc = p /\ x.op = txn[r].op /\ x.by = txn[r].by
          /\ x.salon = txn[r].salon /\ x.who = txn[r].who /\ x.needs = txn[r].needs
          /\ x.role = txn[r].role /\ x.phone = txn[r].phone /\ x.skills = txn[r].skills
          /\ x.setM = txn[r].setM
      BY <1>0, <3>3, OnlyPc DEF Pcs
    <3>5. txn' = [txn EXCEPT ![r] = x]
      BY <2>3 DEF Goto, p, Inv
    <3> HIDE DEF x
    <3>6. Shape(x)
      BY <1>0, <2>1, <3>3, <3>4 DEF Shape, Creating, Managing, Setting
    <3>7. Entitled(x) /\ Placed(x)
      BY <2>1, <3>2, <3>3, <3>4 DEF Entitled, Placed, Loaded
    <3>8. x.op \in Creating => x.who = None
      BY <1>0, <2>1, <3>4 DEF Shape
    <3>9. QED
      BY <2>1, <3>4, <3>5, <3>6, <3>7, <3>8, MoveInv DEF Fits
  <2>4. QED
    BY <1>2, <2>2, <2>3 DEF CheckScope
<1>3. QED
  BY <1>1, <1>2 DEF Guard

-----------------------------------------------------------------------------
(* The statements before the commit.                                       *)

(* A request goes on without setting anything.                             *)
LEMMA GotoInv ==
  ASSUME Inv, NEW r \in Requests, NEW p \in Pcs, Goto(r, p), UNCHANGED rows,
         \/ txn[r].pc = "exists" /\ p = "insert"
         \/ txn[r].pc = "flushU" /\ p = "loadM"
         \/ txn[r].pc = "flushM" /\ p = "flushed"
  PROVE  Inv'
<1> DEFINE x == [txn[r] EXCEPT !.pc = p]
<1>0. txn[r] \in Txns /\ Shape(txn[r]) /\ Entitled(txn[r]) /\ Placed(txn[r])
  BY DEF Inv, Fits
<1>1. /\ x \in Txns /\ x.pc = p /\ x.op = txn[r].op /\ x.by = txn[r].by
      /\ x.salon = txn[r].salon /\ x.who = txn[r].who /\ x.needs = txn[r].needs
      /\ x.role = txn[r].role /\ x.phone = txn[r].phone /\ x.skills = txn[r].skills
      /\ x.loaded = txn[r].loaded /\ x.setM = txn[r].setM
  BY <1>0, OnlyPc
<1>2. txn' = [txn EXCEPT ![r] = x]
  BY DEF Goto, Inv
<1> HIDE DEF x
<1>3. Shape(x)
  BY <1>0, <1>1 DEF Shape, Creating, Managing, Setting
<1>4. Entitled(x) /\ Placed(x)
  BY <1>0, <1>1 DEF Entitled, Placed, Entering, Loaded, Shape, Creating, Managing, Setting
<1>5. x.op \in Creating => x.who = None
  BY <1>0, <1>1 DEF Shape, Creating, Managing, Setting
<1>6. QED
  BY <1>1, <1>2, <1>3, <1>4, <1>5, MoveInv DEF Fits

(* A request past the guards moves to x, on behalf of the same account.    *)
LEMMA WriteInv ==
  ASSUME Inv, NEW r \in Requests, NEW x \in Txns, txn' = [txn EXCEPT ![r] = x], UNCHANGED rows,
         x.op = txn[r].op, x.by = txn[r].by, x.salon = txn[r].salon, x.role = txn[r].role,
         txn[r].pc \notin Entering \cup {"scope"},
         Shape(x), Placed(x),
         x.op \in Creating /\ x.who # None
           => \A q \in Requests \ {r} : txn[q].op \in Creating => txn[q].who # x.who
  PROVE  Inv'
<1>1. Entitled(x)
  BY DEF Inv, Fits, Entitled
<1>2. QED
  BY <1>1, MoveInv DEF Fits

LEMMA InsertInv ==
  ASSUME Inv, NEW r \in Requests, PhoneExists(r) \/ InsertUser(r) \/ AddMember(r)
  PROVE  Inv'
<1>0. txn[r] \in Txns /\ Shape(txn[r]) /\ Placed(txn[r])
  BY DEF Inv, Fits
<1>1. CASE PhoneExists(r)
  BY <1>1, GotoInv, AnswerInv DEF PhoneExists, Refusals, Pcs
<1>2. CASE InsertUser(r)
  <2>1. txn[r].pc = "insert" /\ txn[r].op \in Creating /\ Fresh # {} /\ UNCHANGED rows
    BY <1>0, <1>2 DEF InsertUser, Shape
  <2>2. PICK u \in Fresh : u = CHOOSE v \in Fresh : TRUE
    BY <2>1
  <2>3. u \in Users /\ users[u] = NoUser /\ \A q \in Requests : txn[q].who # u
    BY DEF Fresh
  <2>4. CASE Answer(r, "PhoneAlreadyInUse")
    BY <2>1, <2>4, AnswerInv DEF Refusals
  <2> DEFINE p == IF txn[r].op = "create" THEN "member" ELSE "flushed"
             x == [txn[r] EXCEPT !.who = u, !.pc = p, !.setU = {"role", "status", "phone"}]
  <2>5. CASE txn' = [txn EXCEPT ![r].who = CHOOSE v \in Fresh : TRUE, ![r].pc = p,
                                ![r].setU = {"role", "status", "phone"}]
    <3>1. [[[txn[r] EXCEPT !.who = u] EXCEPT !.pc = p] EXCEPT !.setU = {"role", "status", "phone"}]
            \in Txns
      <4>1. [txn[r] EXCEPT !.who = u] \in Txns /\ p \in Pcs
        BY <1>0, <2>3, SetOne DEF Pcs, Loaded
      <4>2. [[txn[r] EXCEPT !.who = u] EXCEPT !.pc = p] \in Txns
        BY <4>1, SetOne
      <4>3. QED
        BY <4>2, SetOne
    <3>2. x = [[[txn[r] EXCEPT !.who = u] EXCEPT !.pc = p] EXCEPT !.setU =
               {"role", "status", "phone"}]
      OBVIOUS
    <3>3. txn' = [txn EXCEPT ![r] = x]
      BY <2>2, <2>5 DEF Inv
    <3>4. /\ x \in Txns /\ x.pc = p /\ x.who = u /\ x.op = txn[r].op /\ x.by = txn[r].by
          /\ x.salon = txn[r].salon /\ x.needs = txn[r].needs /\ x.role = txn[r].role
          /\ x.phone = txn[r].phone /\ x.skills = txn[r].skills
          /\ x.setM = txn[r].setM
      BY <1>0, <3>1, <3>2 DEF Txns
    <3>5. p \in {"member", "flushed"} /\ (p = "member" => txn[r].op = "create")
      OBVIOUS
    <3> HIDE DEF x, p
    <3>6. Shape(x)
      BY <1>0, <2>1, <2>3, <3>4, <3>5 DEF Shape, Creating, Managing, Setting
    <3>7. Placed(x)
      BY <2>1, <2>3, <3>4 DEF Placed, Creating, Managing, Setting
    <3>8. QED
      BY <2>1, <2>3, <3>3, <3>4, <3>6, <3>7, WriteInv DEF Entering
  <2>6. QED
    BY <1>2, <2>4, <2>5 DEF InsertUser
<1>3. CASE AddMember(r)
  <2>1. txn[r].pc = "member" /\ txn[r].op = "create" /\ UNCHANGED rows
    BY <1>0, <1>3 DEF AddMember, Shape
  <2> DEFINE set == {"role", "status", "specialties"}
             x == [txn[r] EXCEPT !.pc = "flushed", !.setM = set]
  <2>2. [[txn[r] EXCEPT !.pc = "flushed"] EXCEPT !.setM = set] \in Txns
    <3>1. [txn[r] EXCEPT !.pc = "flushed"] \in Txns
      BY <1>0, SetOne DEF Pcs, Loaded
    <3>2. QED
      BY <3>1, SetOne
  <2>3. /\ x = [[txn[r] EXCEPT !.pc = "flushed"] EXCEPT !.setM = set]
        /\ txn' = [txn EXCEPT ![r] = x]
    BY <1>3 DEF AddMember, Inv
  <2>4. /\ x \in Txns /\ x.pc = "flushed" /\ x.who = txn[r].who /\ x.op = txn[r].op
        /\ x.by = txn[r].by /\ x.salon = txn[r].salon /\ x.needs = txn[r].needs
        /\ x.role = txn[r].role /\ x.phone = txn[r].phone /\ x.skills = txn[r].skills
    BY <1>0, <2>2, <2>3 DEF Txns
  <2> HIDE DEF x
  <2>5. Shape(x)
    BY <1>0, <2>1, <2>4 DEF Shape, Creating, Managing, Setting
  <2>6. Placed(x)
    BY <1>0, <2>1, <2>4 DEF Placed, Creating, Managing, Setting
  <2>7. \A q \in Requests \ {r} : x.who # None /\ txn[q].op \in Creating => txn[q].who # x.who
    <3>1. txn[r].op \in Creating /\ x.who = txn[r].who
      BY <2>1, <2>4 DEF Creating
    <3>2. QED
      BY <3>1 DEF Inv, OwnAccount
  <2>8. QED
    BY <2>1, <2>3, <2>4, <2>5, <2>6, <2>7, WriteInv DEF Entering
<1>4. QED
  BY <1>1, <1>2, <1>3

LEMMA EditInv ==
  ASSUME Inv, NEW r \in Requests,
         Find(r) \/ LoadUser(r) \/ FlushUser(r) \/ LoadMember(r) \/ FlushMember(r)
  PROVE  Inv'
<1>0. /\ txn[r] \in Txns /\ Shape(txn[r]) /\ Placed(txn[r])
      /\ txn[r].seen \in Seen /\ txn[r].skills \in Skills \cup {None}
  BY DEF Inv, Fits, Txns
<1>a. /\ users \in [Users -> Accounts \cup {NoUser}]
      /\ members \in [Salons \X Users -> Members \cup {NoMember}]
  BY DEF Inv, Rows
<1>b. txn[r].pc \in {"find", "loadU", "flushU", "loadM"} =>
        /\ txn[r].op = "update" /\ txn[r].who \in Users /\ txn[r].salon \in Salons
        /\ Seat(r) \in Salons \X Users
  BY <1>0 DEF Shape, Managing, Seat
<1>1. CASE Find(r)
  <2>1. txn[r].pc = "find" /\ UNCHANGED rows
    BY <1>1 DEF Find
  <2>2. CASE Answer(r, "EmployeeNotFound")
    BY <2>1, <2>2, AnswerInv DEF Refusals
  <2> DEFINE set == <<users[txn[r].who], members[Seat(r)]>>
             x == [txn[r] EXCEPT !.pc = "loadU", !.seen = set]
  <2>3. CASE /\ members[Seat(r)] # NoMember
             /\ txn' = [txn EXCEPT ![r].pc = "loadU", ![r].seen = set]
    <3>1. set \in Seen
      BY <1>a, <1>b, <2>1 DEF Seen
    <3>2. [[txn[r] EXCEPT !.pc = "loadU"] EXCEPT !.seen = set] \in Txns
      <4>1. [txn[r] EXCEPT !.pc = "loadU"] \in Txns
        BY <1>0, SetOne DEF Pcs, Loaded
      <4>2. QED
        BY <3>1, <4>1, SetOne
    <3>3. /\ x = [[txn[r] EXCEPT !.pc = "loadU"] EXCEPT !.seen = set]
          /\ txn' = [txn EXCEPT ![r] = x]
      BY <2>3 DEF Inv
    <3>4. /\ x \in Txns /\ x.pc = "loadU" /\ x.who = txn[r].who /\ x.op = txn[r].op
          /\ x.by = txn[r].by /\ x.salon = txn[r].salon /\ x.needs = txn[r].needs
          /\ x.role = txn[r].role /\ x.phone = txn[r].phone /\ x.skills = txn[r].skills
          /\ x.setM = txn[r].setM
      BY <1>0, <3>2, <3>3 DEF Txns
    <3> HIDE DEF x
    <3>5. Shape(x)
      BY <1>0, <1>b, <2>1, <3>4 DEF Shape, Creating, Managing, Setting
    <3>6. Placed(x)
      BY <1>b, <2>1, <2>3, <3>4 DEF Placed, Creating, Seat
    <3>7. QED
      BY <1>b, <2>1, <3>3, <3>4, <3>5, <3>6, WriteInv DEF Entering, Creating
  <2>4. QED
    BY <1>1, <2>2, <2>3 DEF Find
<1>2. CASE LoadUser(r)
  <2>1. txn[r].pc = "loadU" /\ UNCHANGED rows
    BY <1>2 DEF LoadUser
  <2> DEFINE set == IF users[txn[r].who].phone # txn[r].phone THEN {"phone"} ELSE {}
             x == [txn[r] EXCEPT !.pc = "flushU", !.setU = set]
  <2>2. [[txn[r] EXCEPT !.pc = "flushU"] EXCEPT !.setU = set] \in Txns
    <3>1. [txn[r] EXCEPT !.pc = "flushU"] \in Txns
      BY <1>0, SetOne DEF Pcs, Loaded
    <3>2. set \in SUBSET {"role", "status", "phone"}
      OBVIOUS
    <3> HIDE DEF set
    <3>3. QED
      BY <3>1, <3>2, SetOne
  <2>3. /\ x = [[txn[r] EXCEPT !.pc = "flushU"] EXCEPT !.setU = set]
        /\ txn' = [txn EXCEPT ![r] = x]
    BY <1>2 DEF LoadUser, Inv
  <2> HIDE DEF set
  <2>4. /\ x \in Txns /\ x.pc = "flushU" /\ x.who = txn[r].who /\ x.op = txn[r].op
        /\ x.by = txn[r].by /\ x.salon = txn[r].salon /\ x.needs = txn[r].needs
        /\ x.role = txn[r].role /\ x.phone = txn[r].phone /\ x.skills = txn[r].skills
        /\ x.setM = txn[r].setM
    BY <1>0, <2>2, <2>3 DEF Txns
  <2> HIDE DEF x
  <2>5. Shape(x)
    BY <1>0, <1>b, <2>1, <2>4 DEF Shape, Creating, Managing, Setting
  <2>6. Placed(x)
    BY <1>0, <1>b, <2>1, <2>4 DEF Placed, Creating, Managing, Loaded
  <2>7. QED
    BY <1>b, <2>1, <2>3, <2>4, <2>5, <2>6, WriteInv DEF Entering, Creating
<1>3. CASE FlushUser(r)
  BY <1>3, GotoInv, AnswerInv DEF FlushUser, Refusals, Pcs, Loaded
<1>4. CASE LoadMember(r)
  <2>1. txn[r].pc = "loadM" /\ UNCHANGED rows
    BY <1>4 DEF LoadMember
  <2> DEFINE row == members[Seat(r)]
             set == IF row.specialties # txn[r].skills THEN {"specialties"} ELSE {}
             x == [txn[r] EXCEPT !.pc = "flushM", !.loaded = row, !.setM = set]
  <2>2. [[[txn[r] EXCEPT !.pc = "flushM"] EXCEPT !.loaded = row] EXCEPT !.setM = set] \in Txns
    <3>1. [txn[r] EXCEPT !.pc = "flushM"] \in Txns
      BY <1>0, SetOne DEF Pcs, Loaded
    <3>2. row \in Members \cup {NoMember}
      BY <1>a, <1>b, <2>1
    <3>3. [[txn[r] EXCEPT !.pc = "flushM"] EXCEPT !.loaded = row] \in Txns
      BY <3>1, <3>2, SetOne
    <3>4. set \in SUBSET {"role", "status", "specialties"}
      OBVIOUS
    <3> HIDE DEF set, row
    <3>5. QED
      BY <3>3, <3>4, SetOne
  <2>3. /\ x = [[[txn[r] EXCEPT !.pc = "flushM"] EXCEPT !.loaded = row] EXCEPT !.setM = set]
        /\ txn' = [txn EXCEPT ![r] = x] /\ set \subseteq {"specialties"}
    BY <1>4 DEF LoadMember, Inv
  <2> HIDE DEF set
  <2>4. /\ x \in Txns /\ x.pc = "flushM" /\ x.who = txn[r].who /\ x.op = txn[r].op
        /\ x.by = txn[r].by /\ x.salon = txn[r].salon /\ x.needs = txn[r].needs
        /\ x.role = txn[r].role /\ x.phone = txn[r].phone /\ x.skills = txn[r].skills
        /\ x.setM = set
    BY <1>0, <2>2, <2>3 DEF Txns
  <2> HIDE DEF x
  <2>5. Shape(x)
    BY <1>0, <1>b, <2>1, <2>3, <2>4 DEF Shape, Creating, Managing, Setting
  <2>6. Placed(x)
    BY <1>0, <1>b, <2>1, <2>4 DEF Placed, Creating, Managing, Loaded
  <2>7. QED
    BY <1>b, <2>1, <2>3, <2>4, <2>5, <2>6, WriteInv DEF Entering, Creating
<1>5. CASE FlushMember(r)
  BY <1>5, GotoInv DEF FlushMember, Pcs, Loaded
<1>6. QED
  BY <1>1, <1>2, <1>3, <1>4, <1>5

LEMMA StatusInv ==
  ASSUME Inv, NEW r \in Requests, LoadStatus(r) \/ SuspendAccount(r)
  PROVE  Inv'
<1>0. /\ txn[r] \in Txns /\ Shape(txn[r]) /\ Placed(txn[r])
      /\ members \in [Salons \X Users -> Members \cup {NoMember}]
  BY DEF Inv, Fits, Rows
<1>a. txn[r].pc \in {"load", "account"} =>
        /\ txn[r].op \in Setting /\ txn[r].who \in Users /\ txn[r].salon \in Salons
        /\ Seat(r) \in Salons \X Users
  BY <1>0 DEF Shape, Managing, Setting, Seat
<1>1. CASE LoadStatus(r)
  <2>1. txn[r].pc = "load" /\ UNCHANGED rows
    BY <1>1 DEF LoadStatus
  <2> DEFINE row == members[Seat(r)]
             p == IF txn[r].op = "revoke" THEN "account" ELSE "flushM"
             set == IF row.status # Target(r) THEN {"status"} ELSE {}
             x == [txn[r] EXCEPT !.pc = p, !.loaded = row, !.setM = set]
  <2>2. CASE \E a \in {"TerminalDeviceNotFound", "EmployeeNotFound"} : Answer(r, a)
    BY <2>1, <2>2, AnswerInv DEF Refusals
  <2>3. CASE /\ row # NoMember
             /\ txn' = [txn EXCEPT ![r].pc = p, ![r].loaded = row, ![r].setM = set]
    <3>1. [[[txn[r] EXCEPT !.pc = p] EXCEPT !.loaded = row] EXCEPT !.setM = set] \in Txns
      <4>1. [txn[r] EXCEPT !.pc = p] \in Txns
        BY <1>0, SetOne DEF Pcs, Loaded
      <4>2. row \in Members \cup {NoMember}
        BY <1>0, <1>a, <2>1
      <4>3. [[txn[r] EXCEPT !.pc = p] EXCEPT !.loaded = row] \in Txns
        BY <4>1, <4>2, SetOne
      <4>4. set \in SUBSET {"role", "status", "specialties"}
        OBVIOUS
      <4> HIDE DEF set, row, p
      <4>5. QED
        BY <4>3, <4>4, SetOne
    <3>2. /\ x = [[[txn[r] EXCEPT !.pc = p] EXCEPT !.loaded = row] EXCEPT !.setM = set]
          /\ txn' = [txn EXCEPT ![r] = x]
      BY <2>3 DEF Inv
    <3>3. /\ p \in {"account", "flushM"} /\ set \subseteq {"status"}
          /\ set = {} <=> row.status = Aim(txn[r].op)
      BY DEF Target, Aim
    <3> HIDE DEF set, p, row
    <3>4. /\ x \in Txns /\ x.pc = p /\ x.who = txn[r].who /\ x.op = txn[r].op
          /\ x.by = txn[r].by /\ x.salon = txn[r].salon /\ x.needs = txn[r].needs
          /\ x.role = txn[r].role /\ x.phone = txn[r].phone /\ x.skills = txn[r].skills
          /\ x.loaded = row /\ x.setM = set
      BY <1>0, <3>1, <3>2 DEF Txns
    <3> HIDE DEF x
    <3>5. Shape(x)
      BY <1>0, <1>a, <2>1, <3>3, <3>4 DEF Shape, Creating, Managing, Setting
    <3>6. Placed(x)
      BY <1>a, <2>1, <2>3, <3>4 DEF Placed, Creating, Setting, Seat, row
    <3>7. QED
      BY <1>a, <2>1, <3>2, <3>4, <3>5, <3>6, WriteInv DEF Entering, Creating, Setting
  <2>4. QED
    BY <1>1, <2>2, <2>3 DEF LoadStatus
<1>2. CASE SuspendAccount(r)
  <2>1. txn[r].pc = "account" /\ UNCHANGED rows
    BY <1>2 DEF SuspendAccount
  <2> DEFINE set == IF users[txn[r].who].status = "SUSPENDED" THEN {} ELSE {"status"}
             x == [txn[r] EXCEPT !.pc = "flushM", !.setU = set]
  <2>2. [[txn[r] EXCEPT !.pc = "flushM"] EXCEPT !.setU = set] \in Txns
    <3>1. [txn[r] EXCEPT !.pc = "flushM"] \in Txns
      BY <1>0, SetOne DEF Pcs, Loaded
    <3>2. set \in SUBSET {"role", "status", "phone"}
      OBVIOUS
    <3> HIDE DEF set
    <3>3. QED
      BY <3>1, <3>2, SetOne
  <2>3. /\ x = [[txn[r] EXCEPT !.pc = "flushM"] EXCEPT !.setU = set]
        /\ txn' = [txn EXCEPT ![r] = x]
    BY <1>2 DEF SuspendAccount, Inv
  <2> HIDE DEF set
  <2>4. /\ x \in Txns /\ x.pc = "flushM" /\ x.who = txn[r].who /\ x.op = txn[r].op
        /\ x.by = txn[r].by /\ x.salon = txn[r].salon /\ x.needs = txn[r].needs
        /\ x.role = txn[r].role /\ x.phone = txn[r].phone /\ x.skills = txn[r].skills
        /\ x.loaded = txn[r].loaded /\ x.setM = txn[r].setM
    BY <1>0, <2>2, <2>3 DEF Txns
  <2> HIDE DEF x
  <2>5. Shape(x)
    BY <1>0, <1>a, <2>1, <2>4 DEF Shape, Creating, Managing, Setting
  <2>6. Placed(x)
    BY <1>0, <1>a, <2>1, <2>4 DEF Placed, Creating, Managing, Setting, Loaded
  <2>7. QED
    BY <1>a, <2>1, <2>3, <2>4, <2>5, <2>6, WriteInv DEF Entering, Creating, Setting
<1>3. QED
  BY <1>1, <1>2

-----------------------------------------------------------------------------
(* The commits.                                                            *)

(* A request is answered and the rows change: what exists stays, with its  *)
(* role, and the account that another request is creating is left alone.   *)
LEMMA RowsInv ==
  ASSUME Inv, NEW r \in Requests, txn[r].pc # "new", Answer(r, "ok"),
         Rows',
         \A u \in Users : users[u] # NoUser => users'[u] # NoUser /\ users'[u].role = users[u].role,
         \A m \in Salons \X Users : members[m] # NoMember => members'[m] # NoMember,
         \A q \in Requests \ {r} : txn[q].op \in Creating /\ txn[q].pc \in {"member", "flushed"}
           => users'[txn[q].who] = users[txn[q].who]
  PROVE  Inv'
<1> DEFINE x == Answered(txn[r], "ok")
<1>1. txn' = [txn EXCEPT ![r] = x] /\ txn[r] \in Txns /\ Shape(txn[r])
  BY DEF Answer, Answered, Inv, Fits
<1>2. x \in Txns /\ Shape(x) /\ x.pc = "done" /\ x.who = None
  BY <1>1, AnsweredFits
<1> HIDE DEF x
<1>3. \A q \in Requests : txn'[q] = IF q = r THEN x ELSE txn[q]
  BY <1>1 DEF Inv
<1>4. txn' \in [Requests -> Txns]
  BY <1>1, <1>2 DEF Inv
<1>5. \A q \in Requests : Fits(txn[q])'
  <2>1. ASSUME NEW q \in Requests, NEW y, y = txn'[q] PROVE Fits(y)'
    <3>1. CASE q = r
      <4>1. y = x
        BY <1>3, <2>1, <3>1
      <4>2. Entitled(y)' /\ Placed(y)'
        BY <1>2, <4>1 DEF Entitled, Placed, Entering, Loaded
      <4>3. QED
        BY <1>2, <4>1, <4>2 DEF Fits
    <3>2. CASE q # r
      <4>1. y = txn[q] /\ y \in Txns /\ Shape(y) /\ Entitled(y) /\ Placed(y)
        BY <1>3, <2>1, <3>2 DEF Inv, Fits
      <4>2. Entitled(y)'
        <5>1. y.op \notin {"none", "register"} => y.by \in Users
          BY <4>1 DEF Shape
        <5>2. QED
          BY <4>1, <5>1 DEF Entitled
      <4>3. Placed(y)'
        <5>1. y.op \in Managing /\ y.pc \in Loaded => <<y.salon, y.who>> \in Salons \X Users
          BY <4>1 DEF Shape, Managing, Setting, Loaded
        <5>2. QED
          BY <3>2, <4>1, <5>1 DEF Placed
      <4>4. QED
        BY <4>1, <4>2, <4>3 DEF Fits
    <3>3. QED
      BY <3>1, <3>2
  <2>2. QED
    BY <2>1 DEF Fits, Entitled, Placed
<1>6. OwnAccount'
  <2>1. ASSUME NEW p \in Requests, NEW q \in Requests, p # q, txn'[p].op \in Creating,
               txn'[q].op \in Creating, txn'[q].who # None
        PROVE  txn'[p].who # txn'[q].who
    BY <1>2, <1>3, <2>1 DEF Inv, OwnAccount
  <2>2. QED
    BY <2>1 DEF OwnAccount
<1>7. QED
  BY <1>4, <1>5, <1>6 DEF Inv

(* An account is created.                                                  *)
LEMMA CreatedInv ==
  ASSUME Inv, NEW r \in Requests,
         CommitRegistration(r) \/ CommitEmployee(r)
  PROVE  Inv'
<1> DEFINE w == txn[r].who
           p == txn[r].phone
<1>0. txn[r] \in Txns /\ Shape(txn[r]) /\ Placed(txn[r]) /\ Rows /\ OneSalon /\ Attached
  BY DEF Inv, Fits, Rows
<1>1. /\ txn[r].pc = "flushed" /\ txn[r].op \in Creating /\ w \in Users /\ users[w] = NoUser
      /\ p \in Phones /\ Answer(r, "ok")
  BY <1>0 DEF CommitRegistration, CommitEmployee, Shape, Placed, Creating
<1>2. PICK role \in {"CLIENT", "HAIRDRESSER"} :
        users' = [users EXCEPT ![w] = [role |-> role, status |-> "ACTIVE", phone |-> p]]
  BY DEF CommitRegistration, CommitEmployee
<1> DEFINE a == [role |-> role, status |-> "ACTIVE", phone |-> p]
<1>3. a \in Accounts /\ a # NoUser
  BY <1>1, Distinct, StaffAssumption DEF Accounts, Roles, Telephones
<1> HIDE DEF a
<1>4. /\ users' \in [Users -> Accounts \cup {NoUser}]
      /\ \A u \in Users : users'[u] = IF u = w THEN a ELSE users[u]
  BY <1>0, <1>1, <1>2, <1>3 DEF Rows, a
<1>5. \A u \in Users : users[u] # NoUser => users'[u] # NoUser /\ users'[u].role = users[u].role
  BY <1>1, <1>4
<1>6. \A q \in Requests \ {r} : txn[q].op \in Creating /\ txn[q].pc \in {"member", "flushed"}
        => users'[txn[q].who] = users[txn[q].who]
  <2>1. ASSUME NEW q \in Requests \ {r}, txn[q].op \in Creating, txn[q].pc \in {"member", "flushed"}
        PROVE  users'[txn[q].who] = users[txn[q].who]
    <3>1. txn[q].who \in Users
      BY <2>1 DEF Inv, Fits, Shape
    <3>2. txn[q].who # w
      BY <1>1, <2>1, Distinct, StaffAssumption DEF Inv, OwnAccount
    <3>3. QED
      BY <1>4, <3>1, <3>2
  <2>2. QED
    BY <2>1
<1>7. CASE CommitRegistration(r)
  <2>1. members' = members
    BY <1>7 DEF CommitRegistration
  <2>2. Rows'
    BY <1>0, <1>4, <1>5, <2>1 DEF Rows, OneSalon, Attached
  <2>3. QED
    BY <1>1, <1>5, <1>6, <2>1, <2>2, RowsInv
<1>8. CASE CommitEmployee(r)
  <2> DEFINE row == [role |-> "HAIRDRESSER", status |-> "ACTIVE", specialties |-> txn[r].skills]
  <2>1. /\ Seat(r) \in Salons \X Users /\ Seat(r)[2] = w
        /\ members' = [members EXCEPT ![Seat(r)] = row]
    BY <1>0, <1>8 DEF CommitEmployee, Shape, Seat
  <2>2. row \in Members
    BY <1>0, <1>8 DEF CommitEmployee, Shape, Members, Specialties
  <2> HIDE DEF row
  <2>3. /\ members' \in [Salons \X Users -> Members \cup {NoMember}]
        /\ \A m \in Salons \X Users : members'[m] = IF m = Seat(r) THEN row ELSE members[m]
    BY <1>0, <2>1, <2>2 DEF Rows
  <2>4. \A m \in Salons \X Users : members[m] # NoMember => m[2] # w
    BY <1>0, <1>1 DEF Attached
  <2>5. OneSalon'
    BY <1>0, <2>1, <2>3, <2>4 DEF OneSalon
  <2>6. Attached'
    BY <1>0, <1>1, <1>3, <1>4, <2>1, <2>3 DEF Attached
  <2>7. Rows'
    BY <1>4, <2>3, <2>5, <2>6 DEF Rows
  <2>8. \A m \in Salons \X Users : members[m] # NoMember => members'[m] # NoMember
    BY <2>2, <2>3, Distinct, StaffAssumption
  <2>9. QED
    BY <1>1, <1>5, <1>6, <2>7, <2>8, RowsInv
<1>9. QED
  BY <1>7, <1>8

(* What an edit or a change of status does to the rows, given that the     *)
(* member is there: two columns at most, of that member and its account.   *)
LEMMA ChangedRows ==
  ASSUME Inv, NEW r \in Requests, CommitProfile(r) \/ CommitStatus(r)
  PROVE  /\ txn[r].pc = "flushed" /\ txn[r].op \in Managing /\ Answer(r, "ok")
         /\ txn[r].who \in Users /\ Seat(r) \in Salons \X Users /\ Seat(r)[2] = txn[r].who
         /\ members[Seat(r)] \in Members /\ users[txn[r].who] \in Accounts
         /\ \E a \in Accounts :
              /\ a.role = users[txn[r].who].role
              /\ users' = [users EXCEPT ![txn[r].who] = a]
         /\ \E b \in Members : members' = [members EXCEPT ![Seat(r)] = b]
<1> DEFINE w == txn[r].who
           seat == Seat(r)
<1>0. txn[r] \in Txns /\ Shape(txn[r]) /\ Placed(txn[r]) /\ Rows /\ Attached
  BY DEF Inv, Fits, Rows
<1>1. txn[r].pc = "flushed" /\ txn[r].op \in Managing /\ Answer(r, "ok")
  BY DEF CommitProfile, CommitStatus, Managing, Setting
<1>2. w \in Users /\ seat = <<txn[r].salon, w>> /\ seat \in Salons \X Users /\ seat[2] = w
  BY <1>0, <1>1 DEF Shape, Managing, Setting, Seat
<1>3. members[seat] \in Members
  BY <1>0, <1>1, <1>2 DEF Placed, Loaded, Rows
<1>4. users[w] \in Accounts
  BY <1>0, <1>2, <1>3, Distinct, StaffAssumption DEF Attached, Rows
<1>5. CASE CommitProfile(r)
  <2> DEFINE a == [users[w] EXCEPT !.phone = IF "phone" \in txn[r].setU THEN txn[r].phone ELSE @]
             b == [members[seat] EXCEPT
                     !.specialties = IF "specialties" \in txn[r].setM THEN txn[r].skills ELSE @]
  <2>1. txn[r].op = "update" /\ txn[r].phone \in Phones /\ txn[r].skills \in Skills
        /\ "status" \notin txn[r].setM
    BY <1>0, <1>5 DEF CommitProfile, Shape
  <2>2. a \in Accounts /\ a.role = users[w].role
    BY <1>4, <2>1 DEF Accounts, Telephones
  <2>3. b \in Members
    BY <1>3, <2>1 DEF Members, Specialties
  <2>4. users' = [users EXCEPT ![w] = a]
    BY <1>5 DEF CommitProfile
  <2>5. members' = [members EXCEPT ![seat] = b]
    <3>1. members' = [members EXCEPT ![seat] = [b EXCEPT !.status = @]]
      BY <1>0, <1>2, <1>5, <2>1 DEF CommitProfile, Rows
    <3>2. [b EXCEPT !.status = @] = b
      BY <2>3 DEF Members
    <3>3. QED
      BY <3>1, <3>2
  <2> HIDE DEF a, b
  <2>6. QED
    BY <1>1, <1>2, <1>3, <1>4, <2>2, <2>3, <2>4, <2>5
<1>6. CASE CommitStatus(r)
  <2> DEFINE a == [users[w] EXCEPT !.status = IF txn[r].setU # {} THEN "SUSPENDED" ELSE @]
             b == [members[seat] EXCEPT !.status = IF txn[r].setM # {} THEN Target(r) ELSE @]
  <2>1. a \in Accounts /\ a.role = users[w].role
    BY <1>4 DEF Accounts
  <2>2. b \in Members
    BY <1>3 DEF Members, Target
  <2>3. users' = [users EXCEPT ![w] = a] /\ members' = [members EXCEPT ![seat] = b]
    BY <1>6 DEF CommitStatus
  <2> HIDE DEF a, b
  <2>4. QED
    BY <1>1, <1>2, <1>3, <1>4, <2>1, <2>2, <2>3
<1>7. QED
  BY <1>5, <1>6

LEMMA ChangedInv ==
  ASSUME Inv, NEW r \in Requests, CommitProfile(r) \/ CommitStatus(r)
  PROVE  Inv'
<1> DEFINE w == txn[r].who
<1>0. Rows /\ OneSalon /\ Attached
  BY DEF Inv, Rows
<1>1. /\ txn[r].pc = "flushed" /\ Answer(r, "ok")
      /\ w \in Users /\ Seat(r) \in Salons \X Users /\ Seat(r)[2] = w
      /\ members[Seat(r)] \in Members /\ users[w] \in Accounts
  BY ChangedRows
<1>2. PICK a \in Accounts : a.role = users[w].role /\ users' = [users EXCEPT ![w] = a]
  BY ChangedRows
<1>3. PICK b \in Members : members' = [members EXCEPT ![Seat(r)] = b]
  BY ChangedRows
<1>4. /\ users' \in [Users -> Accounts \cup {NoUser}]
      /\ \A u \in Users : users'[u] = IF u = w THEN a ELSE users[u]
  BY <1>0, <1>1, <1>2 DEF Rows
<1>5. /\ members' \in [Salons \X Users -> Members \cup {NoMember}]
      /\ \A m \in Salons \X Users : members'[m] = IF m = Seat(r) THEN b ELSE members[m]
  BY <1>0, <1>1, <1>3 DEF Rows
<1>6. \A u \in Users : users[u] # NoUser => users'[u] # NoUser /\ users'[u].role = users[u].role
  BY <1>2, <1>4, Distinct, StaffAssumption
<1>7. \A m \in Salons \X Users : members[m] # NoMember <=> members'[m] # NoMember
  BY <1>1, <1>5, Distinct, StaffAssumption
<1>8. Rows'
  BY <1>0, <1>4, <1>5, <1>6, <1>7 DEF Rows, OneSalon, Attached
<1>9. \A q \in Requests \ {r} : txn[q].op \in Creating /\ txn[q].pc \in {"member", "flushed"}
        => users'[txn[q].who] = users[txn[q].who]
  <2>1. ASSUME NEW q \in Requests, txn[q].op \in Creating, txn[q].pc \in {"member", "flushed"}
        PROVE  txn[q].who \in Users /\ txn[q].who # w
    <3>1. txn[q].who \in Users /\ users[txn[q].who] = NoUser
      BY <2>1 DEF Inv, Fits, Shape, Placed
    <3>2. users[w] # NoUser
      BY <1>1, Distinct, StaffAssumption
    <3>3. QED
      BY <3>1, <3>2
  <2>2. QED
    BY <1>4, <2>1
<1>10. QED
  BY <1>1, <1>6, <1>7, <1>8, <1>9, RowsInv

LEMMA StepInv ==
  ASSUME Inv, NEW r \in Requests,
         Receive(r) \/ Guard(r) \/ Write(r) \/ Finish(r) \/ Abort(r)
  PROVE  Inv'
<1>1. CASE Get(r) \/ Use(r) \/ Abort(r)
  BY <1>1, AnswerInv DEF Get, Use, Abort, Refusals
<1>2. QED
  BY <1>1, ReceiveInv, GuardInv, InsertInv, EditInv, StatusInv, CreatedInv, ChangedInv
     DEF Write, Finish

LEMMA NextInv == ASSUME Inv, [Next]_vars PROVE Inv'
<1>1. CASE UNCHANGED vars
  <2>1. /\ txn' = txn /\ users' = users /\ members' = members
    BY <1>1 DEF vars
  <2>2. Rows' /\ OwnAccount'
    BY <2>1 DEF Inv, Rows, OneSalon, Attached, OwnAccount
  <2>3. \A q \in Requests : Fits(txn[q])'
    BY <2>1 DEF Inv, Fits, Entitled, Placed
  <2>4. QED
    BY <2>1, <2>2, <2>3 DEF Inv
<1>2. QED
  BY <1>1, StepInv DEF Next

LEMMA InvAlways == Spec => []Inv
<1>1. Init => Inv
  BY InitInv
<1>2. Inv /\ [Next]_vars => Inv'
  BY NextInv
<1>3. QED
  BY <1>1, <1>2, PTL DEF Spec

-----------------------------------------------------------------------------
(* What was granted.                                                       *)

(* How a request advances: it begins or is refused, its account is read    *)
(* and is active, its scope is checked and holds, or it was past both.     *)
Began(r)   == txn'[r].op = "register" \/ (txn'[r].pc \in Entering /\ txn'[r].answer # "ok")
SameCall(r) == txn'[r].op = txn[r].op /\ txn'[r].by = txn[r].by
Read(r)    == /\ SameCall(r) /\ txn'[r].pc = "scope" /\ txn'[r].answer = txn[r].answer
              /\ UNCHANGED rows /\ AccountIsActive(r)
Checked(r) == /\ SameCall(r) /\ txn[r].pc = "scope" /\ UNCHANGED rows /\ SalonIsOpenTo(r)
              /\ txn'[r].salon = txn[r].salon /\ txn'[r].needs = txn[r].needs
Past(r)    == SameCall(r) /\ txn[r].pc \notin Entering \cup {"scope"}

LEMMA Advance ==
  ASSUME Inv, NEW r \in Requests,
         Receive(r) \/ Guard(r) \/ Write(r) \/ Finish(r) \/ Abort(r)
  PROVE  /\ \A q \in Requests \ {r} : txn'[q] = txn[q]
         /\ Began(r) \/ Read(r) \/ Checked(r) \/ Past(r)
<1>0. /\ txn \in [Requests -> Txns] /\ txn[r] \in Txns /\ Shape(txn[r]) /\ Entitled(txn[r])
      /\ None # "ok"
  BY StaffAssumption DEF Inv, Fits
<1>1. ASSUME NEW a, Answer(r, a)
      PROVE  /\ \A q \in Requests \ {r} : txn'[q] = txn[q]
             /\ SameCall(r) /\ txn'[r].pc = "done" /\ txn'[r].answer = a
  BY <1>0, <1>1 DEF Answer, SameCall, New
<1>2. ASSUME NEW op, NEW u, NEW s, NEW local, local.answer = None, Enter(r, op, u, s, local),
             local \in Txns
      PROVE  (\A q \in Requests \ {r} : txn'[q] = txn[q]) /\ Began(r)
  BY <1>0, <1>2 DEF Enter, Began, Entering, Txns
<1>3. CASE Receive(r)
  <2>1. Callers \subseteq Users /\ Subjects \subseteq Users
    BY StaffAssumption
  <2>2. CASE \E p \in Phones : Register(r, p)
    BY <1>0, <2>2 DEF Register, Began, New
  <2>3. ASSUME NEW u \in Callers, NEW s \in Salons, NEW p \in Phones, NEW k \in Skills,
               NEW who \in Subjects, UpdateEmployee(r, u, s, who, p, k)
        PROVE  (\A q \in Requests \ {r} : txn'[q] = txn[q]) /\ Began(r)
    <3>1. Edit(who, p, k) \in Txns /\ Edit(who, p, k).answer = None
      BY <2>1, EditFacts DEF Edit, Manage, New
    <3>2. QED
      BY <1>2, <2>3, <3>1 DEF UpdateEmployee, Edit
  <2>4. ASSUME NEW u \in Callers, NEW s \in Salons, NEW p \in Phones, NEW k \in Skills,
               CreateEmployee(r, u, s, p, k)
        PROVE  (\A q \in Requests \ {r} : txn'[q] = txn[q]) /\ Began(r)
    <3>1. Edit(None, p, k) \in Txns /\ Edit(None, p, k).answer = None
      BY EditFacts DEF Edit, Manage, New
    <3>2. QED
      BY <1>2, <2>4, <3>1 DEF CreateEmployee, Edit
  <2>5. ASSUME NEW u \in Callers, NEW s \in Salons, NEW who \in Subjects,
               \/ DeactivateEmployee(r, u, s, who) \/ ReactivateEmployee(r, u, s, who)
               \/ GetEmployee(r, u, s, who)
        PROVE  (\A q \in Requests \ {r} : txn'[q] = txn[q]) /\ Began(r)
    <3>1. Manage(who) \in Txns /\ Manage(who).answer = None
      BY <2>1, ManageFacts DEF Manage, New
    <3>2. QED
      BY <1>2, <2>5, <3>1 DEF DeactivateEmployee, ReactivateEmployee, GetEmployee
  <2>6. ASSUME NEW u \in Callers, NEW s \in Salons, NEW who \in Subjects,
               RevokeTerminal(r, u, s, who)
        PROVE  (\A q \in Requests \ {r} : txn'[q] = txn[q]) /\ Began(r)
    <3> DEFINE local == [New EXCEPT !.needs = "TERMINAL_PROVISION", !.who = who]
    <3>1. local \in Txns /\ local.answer = None
      BY <2>1, NeedFacts DEF Needs, New
    <3>2. Enter(r, "revoke", u, s, local)
      BY <2>6 DEF RevokeTerminal
    <3> HIDE DEF local
    <3>3. QED
      BY <1>2, <3>1, <3>2
  <2>7. ASSUME NEW u \in DOMAIN User0, NEW s \in Salons, NEW p \in Uses, UseRoute(r, u, s, p)
        PROVE  (\A q \in Requests \ {r} : txn'[q] = txn[q]) /\ Began(r)
    <3> DEFINE local == [New EXCEPT !.needs = p]
    <3>1. local \in Txns /\ local.answer = None
      BY NeedFacts DEF Needs, New
    <3>2. Enter(r, "use", u, s, local)
      BY <2>7 DEF UseRoute
    <3> HIDE DEF local
    <3>3. QED
      BY <1>2, <3>1, <3>2
  <2>8. QED
    BY <1>3, <2>2, <2>3, <2>4, <2>5, <2>6, <2>7 DEF Receive
<1>4. ASSUME NEW a \in Refusals \cup {"error"}, Answer(r, a)
      PROVE  (\A q \in Requests \ {r} : txn'[q] = txn[q]) /\ Began(r)
  BY <1>1, <1>4 DEF Began, Entering, Refusals
<1>5. CASE ReadPrincipal(r)
  <2>1. CASE \E a \in {"NotAuthenticated", "AccountDisabled"} : Answer(r, a)
    BY <1>4, <2>1 DEF Refusals
  <2>2. CASE /\ users[txn[r].by].status = "ACTIVE"
             /\ txn' = [txn EXCEPT ![r].pc = "scope", ![r].role = users[txn[r].by].role]
    BY <1>0, <1>5, <2>2 DEF Read, SameCall, AccountIsActive, ReadPrincipal, Txns
  <2>3. QED
    BY <1>5, <2>1, <2>2 DEF ReadPrincipal
<1>6. ASSUME NEW p, Goto(r, p)
      PROVE  /\ \A q \in Requests \ {r} : txn'[q] = txn[q]
             /\ SameCall(r) /\ txn'[r].salon = txn[r].salon /\ txn'[r].needs = txn[r].needs
  BY <1>0, <1>6 DEF Goto, SameCall, Txns
<1>7. CASE CheckScope(r)
  <2>1. CASE Answer(r, "PermissionDenied")
    BY <1>4, <2>1 DEF Refusals
  <2>2. CASE /\ CanAccessSalon(txn[r].by, txn[r].role, txn[r].salon)
             /\ txn[r].needs \in RolePermissions(txn[r].role)
             /\ Goto(r, First(txn[r].op))
    <3>1. txn[r].pc = "scope" /\ UNCHANGED rows
      BY <1>7 DEF CheckScope
    <3>2. txn[r].role = users[txn[r].by].role
      BY <1>0, <3>1 DEF Entitled, Entering, Shape
    <3>3. SalonIsOpenTo(r)
      BY <2>2, <3>2 DEF SalonIsOpenTo
    <3>4. QED
      BY <1>6, <2>2, <3>1, <3>3 DEF Checked
  <2>3. QED
    BY <1>7, <2>1, <2>2 DEF CheckScope
<1>8. CASE Write(r) \/ Finish(r) \/ Abort(r)
  <2>1. txn[r].pc \notin Entering \cup {"scope"}
    BY <1>8 DEF Write, Finish, Abort, Entering, PhoneExists, InsertUser, AddMember, Find, LoadUser,
       FlushUser, LoadMember, FlushMember, LoadStatus, SuspendAccount, CommitRegistration,
       CommitEmployee, CommitProfile, CommitStatus, Get, Use
  <2>2. (\A q \in Requests \ {r} : txn'[q] = txn[q]) /\ SameCall(r)
    <3>1. CASE (\E a : Answer(r, a)) \/ (\E p : Goto(r, p))
      BY <1>1, <1>6, <3>1
    <3>2. CASE InsertUser(r)
      <4> DEFINE c == CHOOSE u \in Fresh : TRUE
                 p == IF txn[r].op = "create" THEN "member" ELSE "flushed"
      <4>1. \/ Answer(r, "PhoneAlreadyInUse")
            \/ txn' = [txn EXCEPT ![r].who = c, ![r].pc = p,
                                  ![r].setU = {"role", "status", "phone"}]
        BY <3>2 DEF InsertUser
      <4> HIDE DEF c, p
      <4>2. CASE txn' = [txn EXCEPT ![r].who = c, ![r].pc = p,
                                    ![r].setU = {"role", "status", "phone"}]
        BY <1>0, <4>2 DEF SameCall, Txns
      <4>3. QED
        BY <1>1, <4>1, <4>2
    <3>3. CASE AddMember(r)
      BY <1>0, <3>3 DEF AddMember, SameCall, Txns
    <3>4. CASE Find(r)
      BY <1>0, <1>1, <3>4 DEF Find, SameCall, Txns
    <3>5. CASE LoadUser(r)
      BY <1>0, <3>5 DEF LoadUser, SameCall, Txns
    <3>6. CASE LoadMember(r)
      BY <1>0, <3>6 DEF LoadMember, SameCall, Txns
    <3>7. CASE LoadStatus(r)
      BY <1>0, <1>1, <3>7 DEF LoadStatus, SameCall, Txns
    <3>8. CASE SuspendAccount(r)
      BY <1>0, <3>8 DEF SuspendAccount, SameCall, Txns
    <3>9. QED
      BY <1>8, <3>1, <3>2, <3>3, <3>4, <3>5, <3>6, <3>7, <3>8
         DEF Write, Finish, Abort, PhoneExists, FlushUser, FlushMember, CommitRegistration,
             CommitEmployee, CommitProfile, CommitStatus, Get, Use
  <2>3. QED
    BY <2>1, <2>2 DEF Past
<1>9. QED
  BY <1>3, <1>5, <1>7, <1>8 DEF Guard

LEMMA GrantStep ==
  ASSUME Inv, Inv', GrantInv, [Next]_vars
  PROVE  GrantInv'
<1>1. CASE UNCHANGED vars
  BY <1>1 DEF vars, rows, GrantInv, Grants, AccountIsActive, SalonIsOpenTo, CanAccessSalon, ScopeOf,
     SalonIdsFor, Passed
<1>2. ASSUME NEW r \in Requests, Receive(r) \/ Guard(r) \/ Write(r) \/ Finish(r) \/ Abort(r), Grant
      PROVE  GrantInv'
  <2> DEFINE Acc(x) == /\ x.op \notin {"none", "register"}
                       /\ x.answer = "ok" \/ x.pc \notin Entering
             Sal(x) == /\ x.op \notin {"none", "register"}
                       /\ x.answer = "ok" \/ x.pc \notin {"new", "principal", "scope", "done"}
             at(q)  == Grants(q)'
  <2>1. \A q \in Requests :
          granted'[q] = IF txn'[q].by = None THEN {} ELSE granted[q] \cup at(q)
    BY <1>2 DEF Grant
  <2>2. \A q \in Requests : at(q) \subseteq {"account", "salon"}
    BY DEF Grants
  <2>3. \A q \in Requests : /\ AccountIsActive(q)' => "account" \in at(q)
                            /\ SalonIsOpenTo(q)' => "salon" \in at(q)
    BY DEF Grants
  <2>4. \A q \in Requests : txn'[q].op \notin {"none", "register"} => txn'[q].by # None
    BY Distinct, StaffAssumption DEF Inv, Fits, Shape
  <2>5. \A q \in Requests : /\ granted[q] \subseteq {"account", "salon"}
                            /\ Acc(txn[q]) => "account" \in granted[q]
                            /\ Sal(txn[q]) => "salon" \in granted[q]
    BY DEF GrantInv, Passed
  <2>6. /\ \A q \in Requests \ {r} : txn'[q] = txn[q]
        /\ Began(r) \/ Read(r) \/ Checked(r) \/ Past(r)
    BY <1>2, Advance
  <2>7. Acc(txn'[r]) => Acc(txn[r]) \/ AccountIsActive(r)'
    BY <2>6 DEF Began, Read, Checked, Past, SameCall, Entering, AccountIsActive, rows
  <2>8. Sal(txn'[r]) => Sal(txn[r]) \/ SalonIsOpenTo(r)'
    <3>1. Checked(r) => SalonIsOpenTo(r)'
      BY DEF Checked, SameCall, SalonIsOpenTo, CanAccessSalon, ScopeOf, SalonIdsFor, rows
    <3>2. QED
      BY <2>6, <3>1 DEF Began, Read, Past, SameCall, Entering
  <2> HIDE DEF at
  <2>9. \A q \in Requests : /\ granted'[q] \subseteq {"account", "salon"}
                            /\ txn'[q].by # None => at(q) \subseteq granted'[q]
                            /\ Acc(txn'[q]) => "account" \in granted'[q]
                            /\ Sal(txn'[q]) => "salon" \in granted'[q]
    <3>1. ASSUME NEW q \in Requests
          PROVE  /\ Acc(txn'[q]) => "account" \in granted[q] \cup at(q)
                 /\ Sal(txn'[q]) => "salon" \in granted[q] \cup at(q)
      BY <2>3, <2>5, <2>6, <2>7, <2>8
    <3>2. QED
      BY <2>1, <2>2, <2>4, <2>5, <3>1
  <2>10. QED
    BY <2>9 DEF GrantInv, Passed, at
<1>3. QED
  BY <1>1, <1>2 DEF Next

LEMMA GrantAlways == Spec => []GrantInv
<1>1. Init => GrantInv
  <2> SUFFICES ASSUME Init PROVE GrantInv
    OBVIOUS
  <2>1. \A r \in Requests : granted[r] = {} /\ txn[r].by = None /\ txn[r].op = "none"
    BY DEF Init, New
  <2>2. QED
    BY <2>1 DEF GrantInv, Passed
<1>2. Inv /\ Inv' /\ GrantInv /\ [Next]_vars => GrantInv'
  BY GrantStep
<1>3. Spec => []Inv
  BY InvAlways
<1>4. QED
  BY <1>1, <1>2, <1>3, PTL DEF Spec

-----------------------------------------------------------------------------
(* The theorems.                                                           *)

(* The rows of users and salon_members are complete or absent, whatever    *)
(* the requests interleave, and a request is answered one of its outcomes. *)
THEOREM StaffTypeOK == Spec => []TypeOK
<1>1. Inv => TypeOK
  BY DEF Inv, Fits, Txns, Rows, TypeOK, Answers
<1>2. Spec => []Inv
  BY InvAlways
<1>3. QED
  BY <1>1, <1>2, PTL

(* A right that is withdrawn is withdrawn at once (get_current_principal,  *)
(* require_salon_scope and require_permission read the rows, not the       *)
(* token): whatever passed the guards ran while its account was active and *)
(* while the salon was open to it.                                         *)
THEOREM WithdrawalHolds == Spec => []WithdrawalIsImmediate
<1>1. GrantInv => WithdrawalIsImmediate
  BY DEF GrantInv, WithdrawalIsImmediate, Passed, Entering
<1>2. Spec => []GrantInv
  BY GrantAlways
<1>3. QED
  BY <1>1, <1>2, PTL

(* An account that is attached to a salon, and its attachment, are changed *)
(* by the owner of that salon only (update_identity writes an account that *)
(* the request found attached to the salon of its scope).                  *)
THEOREM SalonsStayIsolated == Spec => SalonsAreIsolated
<1>1. ASSUME Inv, NEW r \in Requests,
             Receive(r) \/ Guard(r) \/ Write(r) \/ Finish(r) \/ Abort(r),
             NEW m \in DOMAIN members, members[m] # NoMember,
             members'[m] # members[m] \/ users'[m[2]] # users[m[2]]
      PROVE  Finishing(r) /\ Seat(r) = m /\ txn[r].by = Owner[m[1]]
  <2>1. Rows /\ m \in Salons \X Users /\ m[2] \in Users /\ users[m[2]] # NoUser
    BY <1>1 DEF Inv, Rows, Attached
  <2>2. ~UNCHANGED rows
    BY <1>1 DEF rows
  <2>3. \/ CommitRegistration(r) \/ CommitEmployee(r) \/ CommitProfile(r) \/ CommitStatus(r)
    BY <1>1, <2>2 DEF Receive, Register, CreateEmployee, UpdateEmployee, DeactivateEmployee,
       ReactivateEmployee, GetEmployee, RevokeTerminal, UseRoute, Enter, Guard, ReadPrincipal,
       CheckScope, Write, PhoneExists, InsertUser, AddMember, Find, LoadUser, FlushUser,
       LoadMember, FlushMember, LoadStatus, SuspendAccount, Finish, Get, Use, Abort
  <2>4. CASE CommitRegistration(r) \/ CommitEmployee(r)
    <3>1. /\ txn[r].who \in Users /\ users[txn[r].who] = NoUser
          /\ Seat(r) = <<txn[r].salon, txn[r].who>>
      BY <1>1, <2>4 DEF CommitRegistration, CommitEmployee, Inv, Fits, Shape, Placed, Creating, Seat
    <3>2. m[2] # txn[r].who /\ m # Seat(r)
      BY <2>1, <3>1
    <3>3. users'[m[2]] = users[m[2]] /\ members'[m] = members[m]
      BY <2>1, <2>4, <3>2 DEF CommitRegistration, CommitEmployee, Rows
    <3>4. QED
      BY <1>1, <3>3
  <2>5. CASE CommitProfile(r) \/ CommitStatus(r)
    <3>1. /\ txn[r].pc = "flushed" /\ txn[r].op \in Managing /\ Answer(r, "ok")
          /\ txn[r].who \in Users /\ Seat(r) \in Salons \X Users /\ Seat(r)[2] = txn[r].who
          /\ members[Seat(r)] \in Members
      BY <1>1, <2>5, ChangedRows
    <3>2. m[2] = txn[r].who \/ m = Seat(r)
      <4>1. /\ \E a : users' = [users EXCEPT ![txn[r].who] = a]
            /\ \E b : members' = [members EXCEPT ![Seat(r)] = b]
        BY <1>1, <2>5, ChangedRows
      <4>2. QED
        BY <1>1, <2>1, <3>1, <4>1 DEF Rows
    <3>3. m = Seat(r)
      BY <1>1, <2>1, <3>1, <3>2, Distinct, StaffAssumption DEF Rows, OneSalon
    <3>4. txn[r].by = Owner[m[1]]
      BY <1>1, <3>1, <3>3 DEF Inv, Fits, Entitled, Entering, Seat
    <3>5. Finishing(r)
      BY <1>1, <3>1 DEF Finishing, Answer, New, Inv
    <3>6. QED
      BY <3>3, <3>4, <3>5
  <2>6. QED
    BY <2>3, <2>4, <2>5
<1> DEFINE A == \A m \in DOMAIN members :
                  members[m] # NoMember /\ (members'[m] # members[m] \/ users'[m[2]] # users[m[2]])
                  => \E r \in Requests : Finishing(r) /\ Seat(r) = m /\ txn[r].by = Owner[m[1]]
<1>2. Inv /\ [Next]_vars => [A]_vars
  BY <1>1 DEF Next
<1>3. Spec => []Inv
  BY InvAlways
<1>4. QED
  BY <1>2, <1>3, PTL DEF Spec, SalonsAreIsolated

(* The log is a sequence of lines about members.                           *)
Lines == [action : Ops, who : Salons \X Users, changed : SUBSET {"phone", "specialties"}]

(* What a step says in the log: nothing, and then no member changes, or    *)
(* the line of the request that commits.                                   *)
LEMMA StepTells ==
  ASSUME Inv, NEW r \in Requests, Receive(r) \/ Guard(r) \/ Write(r) \/ Finish(r) \/ Abort(r)
  PROVE  \/ trail' = trail /\ members' = members
         \/ \E c \in SUBSET {"phone", "specialties"} :
              /\ trail' = Append(trail, [action |-> txn[r].op, who |-> Seat(r), changed |-> c])
              /\ CommitEmployee(r) \/ CommitProfile(r) \/ CommitStatus(r)
<1>1. CASE CommitEmployee(r) \/ CommitProfile(r) \/ CommitStatus(r)
  <2>1. {} \in SUBSET {"phone", "specialties"} /\ Changed(r) \in SUBSET {"phone", "specialties"}
    BY DEF Changed
  <2>2. Line(r, {}) \/ Line(r, Changed(r))
    BY <1>1 DEF CommitEmployee, CommitProfile, CommitStatus
  <2>3. PICK c \in SUBSET {"phone", "specialties"} : Line(r, c)
    BY <2>1, <2>2
  <2>4. QED
    BY <1>1, <2>3 DEF Line
<1>2. CASE CommitRegistration(r)
  BY <1>2 DEF CommitRegistration
<1>3. QED
  BY <1>1, <1>2 DEF Receive, Register, CreateEmployee, UpdateEmployee, DeactivateEmployee,
     ReactivateEmployee, GetEmployee, RevokeTerminal, UseRoute, Enter, Guard, ReadPrincipal,
     CheckScope, Write, PhoneExists, InsertUser, AddMember, Find, LoadUser, FlushUser,
     LoadMember, FlushMember, LoadStatus, SuspendAccount, Finish, Get, Use, Abort, rows

LEMMA TrailStep ==
  ASSUME Inv, trail \in Seq(Lines), [Next]_vars
  PROVE  trail' \in Seq(Lines)
<1>1. ASSUME NEW r \in Requests, NEW c \in SUBSET {"phone", "specialties"},
             trail' = Append(trail, [action |-> txn[r].op, who |-> Seat(r), changed |-> c]),
             CommitEmployee(r) \/ CommitProfile(r) \/ CommitStatus(r)
      PROVE  trail' \in Seq(Lines)
  <2>1. txn[r].op \in Ops /\ Seat(r) \in Salons \X Users
    BY <1>1 DEF Inv, Fits, Txns, Shape, CommitEmployee, CommitProfile, CommitStatus, Seat,
       Creating, Managing, Setting
  <2>2. [action |-> txn[r].op, who |-> Seat(r), changed |-> c] \in Lines
    BY <2>1 DEF Lines
  <2>3. QED
    BY <1>1, <2>2
<1>2. CASE UNCHANGED vars
  BY <1>2 DEF vars
<1>3. QED
  BY <1>1, <1>2, StepTells DEF Next

LEMMA TrailAlways == Spec => [](trail \in Seq(Lines))
<1>1. Init => trail \in Seq(Lines)
  BY DEF Init
<1>2. Inv /\ trail \in Seq(Lines) /\ [Next]_vars => (trail \in Seq(Lines))'
  BY TrailStep
<1>3. Spec => []Inv
  BY InvAlways
<1>4. QED
  BY <1>1, <1>2, <1>3, PTL DEF Spec

(* The status of a member changes with a line that says it, in the same    *)
(* commit, and a line that says a status is followed by it unless the row  *)
(* changed after it was loaded (set_status writes what differs from the    *)
(* row it loaded; the log is written whether or not it does).              *)
THEOREM AuditIsTrue == Spec => AuditTellsAvailability
<1> DEFINE told == IF trail' = trail THEN [who |-> None, action |-> "none"] ELSE trail'[Len(trail')]
           A == /\ \A m \in DOMAIN members : members'[m].status # members[m].status =>
                     told.who = m /\ Says(told) = members'[m].status
                /\ Says(told) # None /\ members'[told.who].status # Says(told) =>
                     \E r \in Requests : Finishing(r) /\ Seat(r) = told.who
                                         /\ txn[r].loaded # members[told.who]
<1>1. ASSUME Inv, trail' = trail, members' = members PROVE A
  BY <1>1 DEF Says
<1>2. ASSUME Inv, trail \in Seq(Lines), NEW r \in Requests, NEW c,
             trail' = Append(trail, [action |-> txn[r].op, who |-> Seat(r), changed |-> c]),
             CommitEmployee(r) \/ CommitProfile(r) \/ CommitStatus(r)
      PROVE  A
  <2> DEFINE line == [action |-> txn[r].op, who |-> Seat(r), changed |-> c]
  <2>1. trail' # trail /\ trail'[Len(trail')] = line
    <3>1. Len(trail') = Len(trail) + 1 /\ trail'[Len(trail) + 1] = line /\ Len(trail) \in Nat
      BY <1>2
    <3>2. QED
      BY <3>1
  <2>2. told = line
    BY <2>1
  <2>3. line.who = Seat(r) /\ line.action = txn[r].op
    OBVIOUS
  <2> HIDE DEF told, line
  <2>4. txn[r] \in Txns /\ Shape(txn[r]) /\ members \in [Salons \X Users -> Members \cup {NoMember}]
    BY <1>2 DEF Inv, Fits, Rows
  <2>5. Finishing(r)
    BY <1>2 DEF Inv, Finishing, Answer, New, CommitEmployee, CommitProfile, CommitStatus
  <2>6. CASE CommitEmployee(r)
    <3>1. /\ txn[r].op = "create"
          /\ \A m \in DOMAIN members : members'[m] # members[m] => m = Seat(r)
          /\ Seat(r) \in DOMAIN members /\ members'[Seat(r)].status = "ACTIVE"
      BY <2>4, <2>6 DEF CommitEmployee, Shape, Creating, Seat
    <3>2. Says(told) = "ACTIVE"
      BY <2>2, <2>3, <3>1 DEF Says
    <3>3. QED
      BY <2>2, <2>3, <3>1, <3>2
  <2>7. CASE CommitProfile(r)
    <3>1. /\ txn[r].op = "update" /\ "status" \notin txn[r].setM
          /\ Seat(r) \in DOMAIN members
      BY <2>4, <2>7 DEF CommitProfile, Shape, Managing, Setting, Seat
    <3>2. \A m \in DOMAIN members : members'[m].status = members[m].status
      BY <2>4, <2>7, <3>1 DEF CommitProfile
    <3>3. Says(told) = None
      BY <2>2, <2>3, <3>1 DEF Says
    <3>4. QED
      BY <3>2, <3>3
  <2>8. CASE CommitStatus(r)
    <3>1. /\ txn[r].op \in Setting /\ Seat(r) \in DOMAIN members
          /\ txn[r].setM = {} <=> txn[r].loaded.status = Aim(txn[r].op)
      BY <2>4, <2>8 DEF CommitStatus, Shape, Managing, Setting, Seat
    <3>2. members[Seat(r)] \in Members
      BY <1>2, <2>8, <2>4, <3>1 DEF CommitStatus, Inv, Fits, Placed, Loaded, Managing, Seat
    <3>3. Says(told) = Aim(txn[r].op) /\ Target(r) = Aim(txn[r].op)
      BY <2>2, <2>3, <3>1 DEF Says, Setting, Aim, Target
    <3>4. \A m \in DOMAIN members : m # Seat(r) => members'[m] = members[m]
      BY <2>8 DEF CommitStatus
    <3>5. members'[Seat(r)].status
            = IF txn[r].setM # {} THEN Aim(txn[r].op) ELSE members[Seat(r)].status
      BY <2>8, <3>1, <3>2, <3>3 DEF CommitStatus, Members
    <3>6. \A m \in DOMAIN members : members'[m].status # members[m].status =>
            told.who = m /\ Says(told) = members'[m].status
      BY <2>2, <2>3, <3>3, <3>4, <3>5
    <3>7. members'[told.who].status # Says(told) => txn[r].loaded # members[told.who]
      BY <2>2, <2>3, <3>1, <3>3, <3>5
    <3>8. QED
      BY <2>2, <2>3, <2>5, <3>6, <3>7
  <2>9. QED
    BY <1>2, <2>6, <2>7, <2>8
<1>3. Inv /\ trail \in Seq(Lines) /\ [Next]_vars => [A]_vars
  BY <1>1, <1>2, StepTells DEF Next
<1>4. Spec => []Inv
  BY InvAlways
<1>5. Spec => [](trail \in Seq(Lines))
  BY TrailAlways
<1>6. QED
  BY <1>3, <1>4, <1>5, PTL DEF Spec, AuditTellsAvailability

-----------------------------------------------------------------------------
(* The customers (SalonCustomers).                                         *)

CardPcs == {"exists", "insert", "find", "load", "flush", "flushed"}
CardTxns ==
  [pc : CardPcs \cup {"new", "count", "emit", "done"},
   op : {"none", "create", "update", "note", "lookup", "get", "list", "campaigns", "campaign"},
   salon : Salons \cup {None}, id : Customers \cup {None}, want : Cards!Card, seen : Cards!Card,
   set : SUBSET Cards!Columns, changed : SUBSET Cards!Columns, page : Nat, total : Nat, since : Nat,
   answer : Cards!Refusals \cup {None, "ok", "error"}]

CampaignRows ==
  [salon : Salons \cup {None}, segment : Cards!Genders0, recipients : Nat, status : {"PENDING"}]

CardLines == [action : {"create", "update", "note", "campaign"}, id : Customers \cup {None},
              changed : SUBSET Cards!Columns]

LogsTyped == campaigns \in Seq(CampaignRows) /\ customerTrail \in Seq(CardLines)

(* What the local values of a request hold, by program counter.  The last  *)
(* conjunct is the lock of a telephone: what Find saw was none, or the     *)
(* telephone that will be written.                                         *)
CardShape(x) ==
  /\ x.pc \in CardPcs => x.salon \in Salons /\ x.op \in {"create", "update", "note"}
  /\ x.pc = "find" => x.op = "update"
  /\ x.pc = "insert" => x.op = "create"
  /\ x.pc \in {"load", "flush"} => x.op # "create"
  /\ x.pc \in CardPcs /\ x.op = "create" => x.set = Cards!Columns /\ x.want.salon = x.salon
  /\ (x.pc \in {"exists", "insert"} /\ x.op = "create") \/ x.pc = "count" => x.id = None
  /\ x.pc \in CardPcs /\ x.op \in {"update", "note"} => x.id \in DOMAIN Card0
  /\ x.pc \in {"flush", "flushed"} /\ x.op = "note" => x.set \subseteq {"notes"}
  /\ x.pc \in {"flush", "flushed"} /\ x.op = "update" => x.set \subseteq Cards!Identity
  /\ x.pc \in {"exists", "load", "flush", "flushed"} /\ x.op = "update"
     => x.seen.phone \in {None, x.want.phone}

CardTypes ==
  /\ customers \in [Customers -> Cards!Card]
  /\ LogsTyped
  /\ customerTxn \in [Requests -> CardTxns]
  /\ \A r \in Requests : CardShape(customerTxn[r])

(* The cards there were at first stay in their salon, and a request that   *)
(* has loaded one is of that salon.                                        *)
CardsAtHome ==
  /\ \A c \in DOMAIN Card0 : customers[c].salon = Card0[c].salon
  /\ \A r \in Requests :
       customerTxn[r].pc \in {"flush", "flushed"} /\ customerTxn[r].op \in {"update", "note"}
         => customers[customerTxn[r].id].salon = customerTxn[r].salon

(* A card that is inserted is nobody else's.                               *)
CardInHand ==
  \A r \in Requests : customerTxn[r].pc = "flushed" /\ customerTxn[r].op = "create" =>
    /\ customerTxn[r].id \in Customers /\ customers[customerTxn[r].id] = Cards!NoCard
    /\ \A q \in Requests \ {r} : customerTxn[q].id # customerTxn[r].id

(* An entry of the index that is written and not committed is nobody's.    *)
EntryFree(r) ==
  customerTxn[r].pc = "flushed" /\ "phone" \in customerTxn[r].set
    /\ customerTxn[r].want.phone # None =>
    /\ \A c \in Customers \ {customerTxn[r].id} :
         ~(customers[c].salon = customerTxn[r].salon
           /\ customers[c].phone = customerTxn[r].want.phone)
    /\ \A q \in Requests \ {r} :
         ~(/\ customerTxn[q].pc = "flushed" /\ "phone" \in customerTxn[q].set
           /\ customerTxn[q].salon = customerTxn[r].salon
           /\ customerTxn[q].want.phone = customerTxn[r].want.phone)

UniqueInv == CardsAtHome /\ CardInHand /\ (\A r \in Requests : EntryFree(r)) /\ Cards!PhonesUnique
CardInv == CardTypes /\ UniqueInv

-----------------------------------------------------------------------------
(* Types.                                                                  *)

LEMMA CardFacts ==
  ASSUME Cards!CardsAssumption
  PROVE  /\ Cards!NoCard \in Cards!Card /\ Cards!New \in CardTxns /\ CardShape(Cards!New)
  BY DEF Cards!NoCard, Cards!Card, Cards!New, CardTxns, CardShape, CardPcs, Cards!Columns,
     Cards!Identity, Cards!Genders0, Cards!Notes0, Cards!CardsAssumption

LEMMA CardCounts ==
  ASSUME Cards!CardsAssumption, CardTypes, NEW s, NEW g, NEW q
  PROVE  /\ Cardinality(Cards!Matching(s, g, q)) \in Nat
         /\ Cardinality(Cards!Reachable(s, g, q)) \in Nat
         /\ Cardinality(Cards!CampaignsOf(s)) \in Nat
<1>1. Cards!Matching(s, g, q) \subseteq Customers /\ Cards!Reachable(s, g, q) \subseteq Customers
  BY DEF Cards!Matching, Cards!Reachable, Cards!In
<1>2. Cards!CampaignsOf(s) \subseteq 1 .. Len(campaigns) /\ Len(campaigns) \in Nat
  BY DEF Cards!CampaignsOf, CardTypes, LogsTyped
<1>3. IsFiniteSet(1 .. Len(campaigns))
  BY <1>2, FS_Interval
<1>4. QED
  BY <1>1, <1>2, <1>3, FS_Subset, FS_CardinalityType, CustomerSizes DEF Cards!CardsAssumption

LEMMA CardInit == ASSUME Cards!CardsAssumption PROVE Cards!Init => CardInv
<1> SUFFICES ASSUME Cards!Init PROVE CardInv
  OBVIOUS
<1>1. customers \in [Customers -> Cards!Card]
  BY CardFacts DEF Cards!Init, Cards!CardsAssumption
<1>2. CardTypes
  BY <1>1, CardFacts DEF Cards!Init, CardTypes, LogsTyped
<1>3. CardsAtHome /\ CardInHand /\ \A r \in Requests : EntryFree(r)
  BY DEF Cards!Init, CardsAtHome, CardInHand, EntryFree, Cards!New, Cards!CardsAssumption
<1>4. Cards!PhonesUnique
  BY DEF Cards!Init, Cards!PhonesUnique, Cards!NoCard, Cards!CardsAssumption
<1>5. QED
  BY <1>2, <1>3, <1>4 DEF CardInv, UniqueInv

-----------------------------------------------------------------------------
(* Steps of a request that commit nothing.                                 *)

(* A request moves to x, and what it takes in hand is free.                *)
LEMMA CardMove ==
  ASSUME Cards!CardsAssumption, CardInv, NEW r \in Requests, NEW x \in CardTxns, CardShape(x),
         customerTxn' = [customerTxn EXCEPT ![r] = x], UNCHANGED customers,
         LogsTyped',
         x.pc \in {"flush", "flushed"} /\ x.op \in {"update", "note"}
           => customers[x.id].salon = x.salon,
         x.pc = "flushed" /\ x.op = "create"
           => x.id \in Customers /\ customers[x.id] = Cards!NoCard
              /\ \A q \in Requests \ {r} : customerTxn[q].id # x.id,
         (x.pc = "flushed" /\ x.op = "create") \/ x.id \in DOMAIN Card0 \cup {None},
         x.pc = "flushed" /\ "phone" \in x.set /\ x.want.phone # None =>
           /\ \A c \in Customers \ {x.id} :
                ~(customers[c].salon = x.salon /\ customers[c].phone = x.want.phone)
           /\ \A q \in Requests \ {r} :
                ~(/\ customerTxn[q].pc = "flushed" /\ "phone" \in customerTxn[q].set
                  /\ customerTxn[q].salon = x.salon /\ customerTxn[q].want.phone = x.want.phone)
  PROVE  CardInv'
<1>1. \A q \in Requests : customerTxn'[q] = IF q = r THEN x ELSE customerTxn[q]
  BY DEF CardInv, CardTypes
<1>2. CardTypes'
  BY <1>1 DEF CardInv, CardTypes
<1>3. CardsAtHome'
  BY <1>1 DEF CardInv, UniqueInv, CardsAtHome
<1>4. ASSUME NEW q \in Requests \ {r}, customerTxn[q].pc = "flushed", customerTxn[q].op = "create"
      PROVE  customerTxn[q].id # x.id
  <2>1. customers[customerTxn[q].id].salon = None /\ customerTxn[q].id # None
    BY <1>4 DEF CardInv, UniqueInv, CardInHand, Cards!NoCard, Cards!CardsAssumption
  <2>2. \A c \in DOMAIN Card0 : customers[c].salon # None
    BY DEF CardInv, UniqueInv, CardsAtHome, Cards!CardsAssumption
  <2>3. QED
    BY <1>4, <2>1, <2>2
<1>5. CardInHand'
  BY <1>1, <1>4 DEF CardInv, UniqueInv, CardInHand
<1>6. \A q \in Requests : EntryFree(q)'
  <2>1. EntryFree(r)'
    BY <1>1 DEF EntryFree
  <2>2. ASSUME NEW q \in Requests, q # r PROVE EntryFree(q)'
    BY <1>1, <2>2 DEF EntryFree, CardInv, UniqueInv
  <2>3. QED
    BY <2>1, <2>2
<1>7. Cards!PhonesUnique'
  BY DEF Cards!PhonesUnique, CardInv, UniqueInv
<1>8. QED
  BY <1>2, <1>3, <1>5, <1>6, <1>7 DEF CardInv, UniqueInv

(* A request that is answered has nothing in hand any more.                *)
LEMMA CardAnswerIs ==
  ASSUME Cards!CardsAssumption, CardInv, NEW r \in Requests,
         NEW a \in Cards!Refusals \cup {"ok", "error"},
         Cards!Answer(r, a)
  PROVE  \E x \in CardTxns : customerTxn' = [customerTxn EXCEPT ![r] = x] /\ CardShape(x)
           /\ x.pc = "done" /\ x.id = None
<1> DEFINE x == [Cards!New EXCEPT !.pc = "done", !.op = customerTxn[r].op,
                 !.salon = customerTxn[r].salon,
                            !.want.phone = customerTxn[r].want.phone, !.page = customerTxn[r].page,
                            !.total = customerTxn[r].total, !.answer = a]
           w == [Cards!NoCard EXCEPT !.phone = customerTxn[r].want.phone]
<1>1. customerTxn[r] \in CardTxns /\ Cards!New \in CardTxns
  BY CardFacts DEF CardInv, CardTypes
<1>2. w \in Cards!Card
  BY <1>1, CardFacts DEF CardTxns, Cards!Card
<1>3. x = [Cards!New EXCEPT !.pc = "done", !.op = customerTxn[r].op, !.salon = customerTxn[r].salon,
                      !.want = w, !.page = customerTxn[r].page, !.total = customerTxn[r].total,
                        !.answer = a]
  BY DEF Cards!New
<1>4. x \in CardTxns
  <2> HIDE DEF w
  <2>1. QED
    BY ZenonT(40), <1>1, <1>2, <1>3 DEF CardTxns
<1>5. x.pc = "done" /\ x.id = None
  BY <1>1 DEF Cards!New
<1>6. CardShape(x)
  BY <1>5 DEF CardShape, CardPcs
<1>7. customerTxn' = [customerTxn EXCEPT ![r] = x]
  BY DEF Cards!Answer
<1>8. QED
  BY <1>4, <1>5, <1>6, <1>7

LEMMA CardAnswerInv ==
  ASSUME Cards!CardsAssumption, CardInv, NEW r \in Requests,
         NEW a \in Cards!Refusals \cup {"ok", "error"},
         Cards!Answer(r, a), UNCHANGED customers, LogsTyped'
  PROVE  CardInv'
<1>1. PICK x \in CardTxns : customerTxn' = [customerTxn EXCEPT ![r] = x] /\ CardShape(x)
             /\ x.pc = "done" /\ x.id = None
  BY CardAnswerIs
<1>2. QED
  BY <1>1, CardMove

(* Nothing moves but the campaigns.                                        *)
LEMMA CardRest ==
  ASSUME Cards!CardsAssumption, CardInv, UNCHANGED <<customers, customerTxn>>, LogsTyped'
  PROVE  CardInv'
  BY DEF CardInv, CardTypes, UniqueInv, CardsAtHome, CardInHand, EntryFree, Cards!PhonesUnique

LEMMA CardGoto ==
  ASSUME Cards!CardsAssumption, CardInv, NEW r \in Requests, NEW pc \in {"insert", "load"},
         Cards!Goto(r, pc),
         customerTxn[r].pc = "exists", pc = "insert" <=> customerTxn[r].op = "create",
         UNCHANGED <<customers, campaigns, customerTrail>>
  PROVE  CardInv'
<1> DEFINE x == [customerTxn[r] EXCEPT !.pc = pc]
<1>1. customerTxn[r] \in CardTxns /\ CardShape(customerTxn[r])
  BY DEF CardInv, CardTypes
<1>2. x \in CardTxns /\ x.pc = pc /\ x.id = customerTxn[r].id
  BY <1>1 DEF CardTxns, CardPcs
<1>3. CardShape(x)
  BY <1>1 DEF CardShape, CardTxns, CardPcs
<1>4. x.id \in DOMAIN Card0 \cup {None}
  BY <1>1, <1>2 DEF CardShape, CardPcs
<1>5. customerTxn' = [customerTxn EXCEPT ![r] = x] /\ LogsTyped'
  BY DEF Cards!Goto, CardInv, CardTypes, LogsTyped
<1>6. QED
  BY <1>2, <1>3, <1>4, <1>5, CardMove

-----------------------------------------------------------------------------
(* The statements that begin a request.                                    *)

LEMMA CardReceive ==
  ASSUME Cards!CardsAssumption, CardInv, NEW r \in Requests, Cards!Receive(r)
  PROVE  CardInv'
<1>0. /\ Cards!New \in CardTxns /\ Cards!NoCard \in Cards!Card /\ Cards!New.id = None
      /\ None \in Cards!Genders0 /\ None \in Cards!Notes0
      /\ (UNCHANGED <<campaigns, customerTrail>> => LogsTyped') /\ Len(customerTrail) \in Nat
  BY CardFacts DEF Cards!New, Cards!Genders0, Cards!Notes0, CardInv, CardTypes, LogsTyped
<1>1. ASSUME NEW s \in Salons, NEW p \in CardPhones \cup {None}, NEW g \in Cards!Genders0,
             NEW n \in FullNames, NEW note \in Cards!Notes0,
             Cards!CreateCustomer(r, s, n, p, g, note)
      PROVE  CardInv'
  <2> DEFINE w == [salon |-> s, full_name |-> n, phone |-> p, gender |-> g, notes |-> note]
             x == [Cards!New EXCEPT !.pc = IF p = None THEN "insert" ELSE "exists", !.op = "create",
                              !.salon = s, !.set = Cards!Columns, !.want = w]
  <2>1. w \in Cards!Card
    BY DEF Cards!Card
  <2>2. x \in CardTxns /\ x.pc \in {"insert", "exists"} /\ x.id = None
    BY <1>0, <2>1 DEF CardTxns, CardPcs, Cards!New
  <2>3. CardShape(x)
    BY <1>0, <2>1 DEF CardShape, Cards!New, CardPcs
  <2>4. QED
    BY <1>0, <1>1, <2>2, <2>3, CardMove DEF Cards!CreateCustomer
<1>2. ASSUME NEW s \in Salons, NEW n \in FullNames, NEW p \in CardPhones, NEW g \in Cards!Genders0,
             Cards!CreateWalkInCustomer(r, s, n, p, g)
      PROVE  CardInv'
  BY <1>0, <1>1, <1>2 DEF Cards!CreateWalkInCustomer
<1>3. ASSUME NEW s \in Salons, NEW p \in CardPhones, Cards!Lookup(r, s, p) PROVE CardInv'
  <2>1. PICK a \in {"TooManyLoginAttempts", Cards!Identify(s, p)} :
          customerTxn' = [customerTxn EXCEPT ![r] =
                          [Cards!New EXCEPT !.pc = "done", !.op = "lookup", !.salon = s,
                                                !.want.phone = p, !.answer = a]]
    BY <1>3 DEF Cards!Lookup
  <2> DEFINE w == [Cards!NoCard EXCEPT !.phone = p]
             x == [Cards!New EXCEPT !.pc = "done", !.op = "lookup", !.salon = s, !.want = w,
                   !.answer = a]
  <2>2. w \in Cards!Card /\ a \in Cards!Refusals \cup {"ok"}
    BY <1>0 DEF Cards!Card, Cards!Identify, Cards!Refusals
  <2>3. customerTxn' = [customerTxn EXCEPT ![r] = x]
    BY <2>1 DEF Cards!New
  <2>4. x \in CardTxns /\ x.pc = "done" /\ x.id = None
    <3> HIDE DEF w
    <3>1. QED
      BY <1>0, <2>2 DEF CardTxns, CardPcs, Cards!New
  <2>5. CardShape(x)
    BY <2>4 DEF CardShape, CardPcs
  <2>6. QED
    BY <1>0, <1>3, <2>3, <2>4, <2>5, CardMove DEF Cards!Lookup
<1>4. ASSUME NEW s \in Salons, NEW c \in DOMAIN Card0, Cards!GetCustomer(r, s, c) PROVE CardInv'
  <2> DEFINE x == [Cards!New EXCEPT !.pc = "done", !.op = "get", !.salon = s,
                     !.answer = IF customers[c].salon = s THEN "ok" ELSE "CustomerNotFound"]
  <2>1. x \in CardTxns /\ x.pc = "done" /\ x.id = None
    BY <1>0 DEF CardTxns, CardPcs, Cards!New, Cards!Refusals
  <2>2. CardShape(x)
    BY <2>1 DEF CardShape, CardPcs
  <2>3. QED
    BY <1>0, <1>4, <2>1, <2>2, CardMove DEF Cards!GetCustomer
<1>5. ASSUME NEW op \in {"list", "campaigns"}, NEW s \in Salons, NEW g \in Cards!Genders0,
             NEW q \in FullNames \cup {None}, NEW n \in Nat,
             Cards!List(r, op, s, g, q, n)
      PROVE  CardInv'
  <2> DEFINE w == [Cards!NoCard EXCEPT !.gender = g, !.full_name = q]
             k == Cards!AtMost(n, CardsPage)
             x == [Cards!New EXCEPT !.pc = "count", !.op = op, !.salon = s, !.want = w, !.page = k,
                                    !.since = Len(customerTrail)]
  <2>1. w \in Cards!Card /\ k \in Nat
    BY <1>0 DEF Cards!Card, Cards!AtMost, Cards!CardsAssumption
  <2>2. customerTxn' = [customerTxn EXCEPT ![r] = x]
    BY <1>5 DEF Cards!List, Cards!New
  <2>3. x \in CardTxns /\ x.pc = "count" /\ x.id = None
    <3> HIDE DEF w, k
    <3>1. QED
      BY <1>0, <2>1 DEF CardTxns, CardPcs, Cards!New
  <2>4. CardShape(x)
    BY <2>3 DEF CardShape, CardPcs
  <2>5. QED
    BY <1>0, <1>5, <2>2, <2>3, <2>4, CardMove DEF Cards!List
<1>6. ASSUME NEW s \in Salons, NEW g \in Cards!Genders0, NEW q \in FullNames \cup {None},
             Cards!ListSalonCustomers(r, s, g, q)
      PROVE  CardInv'
  BY <1>5, <1>6, CardCounts, CustomerSizes DEF Cards!ListSalonCustomers, CardInv
<1>7. ASSUME NEW s \in Salons, Cards!ListSalonCampaigns(r, s) PROVE CardInv'
  BY <1>0, <1>5, <1>7, CardCounts, CustomerSizes DEF Cards!ListSalonCampaigns, CardInv
<1>8. ASSUME NEW s \in Salons, NEW c \in DOMAIN Card0, NEW p \in CardPhones \cup {None},
             NEW g \in Cards!Genders0, NEW n \in FullNames, Cards!UpdateCustomer(r, s, c, n, p, g)
      PROVE  CardInv'
  <2> DEFINE w == [Cards!NoCard EXCEPT !.full_name = n, !.phone = p, !.gender = g]
             x == [Cards!New EXCEPT !.pc = "find", !.op = "update", !.salon = s, !.id = c,
                   !.want = w]
  <2>1. w \in Cards!Card /\ c \in Customers
    BY <1>0 DEF Cards!Card, Cards!CardsAssumption
  <2>2. x \in CardTxns /\ x.pc = "find" /\ x.op = "update" /\ x.id = c /\ x.salon = s
    <3> HIDE DEF w
    <3>1. QED
      BY <1>0, <2>1 DEF CardTxns, CardPcs, Cards!New
  <2>3. CardShape(x)
    BY <2>2 DEF CardShape, CardPcs
  <2>4. QED
    BY <1>0, <1>8, <2>2, <2>3, CardMove DEF Cards!UpdateCustomer
<1>9. ASSUME NEW s \in Salons, NEW c \in DOMAIN Card0, NEW n \in Cards!Notes0,
             Cards!UpdateCustomerNote(r, s, c, n)
      PROVE  CardInv'
  <2> DEFINE w == [Cards!NoCard EXCEPT !.notes = n]
             x == [Cards!New EXCEPT !.pc = "load", !.op = "note", !.salon = s, !.id = c, !.want = w]
  <2>1. w \in Cards!Card /\ c \in Customers
    BY <1>0 DEF Cards!Card, Cards!CardsAssumption
  <2>2. x \in CardTxns /\ x.pc = "load" /\ x.op = "note" /\ x.id = c /\ x.salon = s
    <3> HIDE DEF w
    <3>1. QED
      BY <1>0, <2>1 DEF CardTxns, CardPcs, Cards!New
  <2>3. CardShape(x)
    BY <2>2 DEF CardShape, CardPcs
  <2>4. QED
    BY <1>0, <1>9, <2>2, <2>3, CardMove DEF Cards!UpdateCustomerNote
<1>10. ASSUME NEW s \in Salons, NEW g \in Cards!Genders0, Cards!CreateCampaign(r, s, g)
       PROVE  CardInv'
  <2> DEFINE w == [Cards!NoCard EXCEPT !.gender = g]
             k == Cardinality(Cards!Reachable(s, g, None))
             x == [Cards!New EXCEPT !.pc = "emit", !.op = "campaign", !.salon = s, !.want = w,
                   !.total = k]
  <2>1. w \in Cards!Card /\ k \in Nat
    BY <1>0, CardCounts DEF Cards!Card, CardInv
  <2>2. customerTxn' = [customerTxn EXCEPT ![r] = x]
    BY <1>10, CustomerSizes DEF Cards!CreateCampaign, Cards!New
  <2>3. x \in CardTxns /\ x.pc = "emit" /\ x.id = None
    <3> HIDE DEF w, k
    <3>1. QED
      BY <1>0, <2>1 DEF CardTxns, CardPcs, Cards!New
  <2>4. CardShape(x)
    BY <2>3 DEF CardShape, CardPcs
  <2>5. QED
    BY <1>0, <1>10, <2>2, <2>3, <2>4, CardMove DEF Cards!CreateCampaign
<1>11. QED
  BY <1>1, <1>2, <1>3, <1>4, <1>6, <1>7, <1>8, <1>9, <1>10
     DEF Cards!Receive, Cards!WalkIn, Cards!CreateOrList, Cards!GetOrEdit, Cards!Campaign

-----------------------------------------------------------------------------
(* The statements of a request that is served.                             *)

(* What a writing statement leaves behind, by the waits of the index.      *)
LEMMA IndexFree ==
  ASSUME Cards!CardsAssumption, NEW r \in Requests, ~Cards!Undecided(r), ~Cards!Duplicate(r),
         customerTxn[r].want.phone # None,
         NEW d, d = customerTxn[r].id \/ customerTxn[r].id = None
  PROVE  /\ \A c \in Customers \ {d} :
              ~(customers[c].salon = customerTxn[r].salon
                /\ customers[c].phone = customerTxn[r].want.phone)
         /\ \A q \in Requests \ {r} :
              ~(/\ customerTxn[q].pc = "flushed" /\ "phone" \in customerTxn[q].set
                /\ customerTxn[q].salon = customerTxn[r].salon
                /\ customerTxn[q].want.phone = customerTxn[r].want.phone)
<1>1. Cards!Carrier(customerTxn[r].salon, customerTxn[r].want.phone) \subseteq {customerTxn[r].id}
  BY DEF Cards!Duplicate
<1>2. Cards!EntryHolders(customerTxn[r].salon, customerTxn[r].want.phone) \subseteq {r}
  BY DEF Cards!Undecided
<1>3. \A c \in Customers \ {d} : c # customerTxn[r].id
  BY DEF Cards!CardsAssumption
<1>4. QED
  BY <1>1, <1>2, <1>3 DEF Cards!Carrier, Cards!In, Cards!EntryHolders, Cards!Flushed

LEMMA CardLook ==
  ASSUME Cards!CardsAssumption, CardInv, NEW r \in Requests,
         Cards!PhoneExists(r) \/ Cards!Find(r) \/ Cards!Load(r)
  PROVE  CardInv'
<1>0. /\ customerTxn[r] \in CardTxns /\ CardShape(customerTxn[r])
      /\ LogsTyped' /\ UNCHANGED customers
      /\ Cards!Refusals \subseteq Cards!Refusals \cup {"ok", "error"}
  BY DEF CardInv, CardTypes, LogsTyped, Cards!PhoneExists, Cards!Find, Cards!Load
<1>1. CASE Cards!PhoneExists(r)
  <2>1. CASE Cards!Answer(r, "CustomerAlreadyExists")
    BY <1>0, <2>1, CardAnswerInv DEF Cards!Refusals
  <2>2. CASE Cards!Goto(r, IF customerTxn[r].op = "create" THEN "insert" ELSE "load")
    BY <1>0, <1>1, <2>2, CardGoto DEF Cards!PhoneExists
  <2>3. QED
    BY <1>1, <2>1, <2>2 DEF Cards!PhoneExists
<1>2. CASE Cards!Find(r)
  <2> DEFINE card == customers[customerTxn[r].id]
             pc == IF customerTxn[r].want.phone \in {None, card.phone} THEN "load" ELSE "exists"
             ch == {k \in Cards!Identity : card[k] # customerTxn[r].want[k]}
             x == [customerTxn[r] EXCEPT !.pc = pc, !.seen = card, !.changed = ch]
  <2>1. CASE Cards!Answer(r, "CustomerNotFound") \/ Cards!Answer(r, "CustomerPhoneLocked")
    BY <1>0, <2>1, CardAnswerInv DEF Cards!Refusals
  <2>2. CASE ~(Cards!Answer(r, "CustomerNotFound") \/ Cards!Answer(r, "CustomerPhoneLocked"))
    <3>1. /\ customerTxn' = [customerTxn EXCEPT ![r].pc = pc, ![r].seen = card, ![r].changed = ch]
          /\ card.phone \in {None, customerTxn[r].want.phone} /\ customerTxn[r].pc = "find"
      BY <1>2, <2>2 DEF Cards!Find
    <3>2. /\ customerTxn[r].op = "update" /\ customerTxn[r].id \in DOMAIN Card0
          /\ card \in Cards!Card /\ ch \subseteq Cards!Columns
      BY <1>0, <3>1 DEF CardShape, CardPcs, CardInv, CardTypes, Cards!CardsAssumption, Cards!Columns
    <3>3. customerTxn' = [customerTxn EXCEPT ![r] = x] /\ pc \in {"load", "exists"}
      BY <3>1
    <3>4. /\ x \in CardTxns /\ x.pc = pc /\ x.id = customerTxn[r].id /\ x.seen = card
          /\ x.op = "update"
          /\ x.want = customerTxn[r].want /\ x.salon = customerTxn[r].salon
      <4> HIDE DEF card, pc, ch
      <4>1. QED
        BY <1>0, <3>2, <3>3 DEF CardTxns, CardPcs
    <3>5. CardShape(x)
      <4> HIDE DEF x, pc, card
      <4>1. QED
        BY <1>0, <3>1, <3>2, <3>3, <3>4 DEF CardShape, CardPcs
    <3>6. QED
      <4> HIDE DEF x, pc, card
      <4>1. QED
        BY <1>0, <3>2, <3>3, <3>4, <3>5, CardMove
  <2>3. QED
    BY <2>1, <2>2
<1>3. CASE Cards!Load(r)
  <2> DEFINE st == {k \in Cards!Form(r) : customers[customerTxn[r].id][k] # customerTxn[r].want[k]}
             x == [customerTxn[r] EXCEPT !.pc = "flush", !.set = st]
  <2>1. CASE Cards!Answer(r, "CustomerNotFound")
    BY <1>0, <2>1, CardAnswerInv DEF Cards!Refusals
  <2>2. CASE ~Cards!Answer(r, "CustomerNotFound")
    <3>1. /\ customerTxn' = [customerTxn EXCEPT ![r].pc = "flush", ![r].set = st]
          /\ customerTxn[r].pc = "load"
          /\ customers[customerTxn[r].id].salon = customerTxn[r].salon
      BY <1>3, <2>2 DEF Cards!Load
    <3>2. customerTxn' = [customerTxn EXCEPT ![r] = x]
      BY <3>1
    <3>3. st \subseteq Cards!Form(r) /\ st \subseteq Cards!Columns
      BY DEF Cards!Form, Cards!Columns
    <3>4. /\ x \in CardTxns /\ x.pc = "flush" /\ x.id = customerTxn[r].id /\ x.set = st
          /\ x.op = customerTxn[r].op
          /\ x.want = customerTxn[r].want /\ x.salon = customerTxn[r].salon
          /\ x.seen = customerTxn[r].seen
      <4> HIDE DEF st
      <4>1. QED
        BY <1>0, <3>3 DEF CardTxns, CardPcs
    <3>5. CardShape(x)
      <4> HIDE DEF x, st
      <4>1. QED
        BY <1>0, <3>1, <3>3, <3>4 DEF CardShape, CardPcs, Cards!Form
    <3>6. QED
      <4> HIDE DEF x, st
      <4>1. x.id \in DOMAIN Card0
        BY <1>0, <3>1, <3>4 DEF CardShape, CardPcs
      <4>2. QED
        BY <1>0, <3>1, <3>2, <3>4, <3>5, <4>1, CardMove
  <2>3. QED
    BY <2>1, <2>2
<1>4. QED
  BY <1>1, <1>2, <1>3

LEMMA CardWrite ==
  ASSUME Cards!CardsAssumption, CardInv, NEW r \in Requests, Cards!Insert(r) \/ Cards!Flush(r)
  PROVE  CardInv'
<1>0. /\ customerTxn[r] \in CardTxns /\ CardShape(customerTxn[r])
      /\ LogsTyped' /\ UNCHANGED customers
  BY DEF CardInv, CardTypes, LogsTyped, Cards!Insert, Cards!Flush
<1>1. CASE Cards!Answer(r, "CustomerAlreadyExists")
  BY <1>0, <1>1, CardAnswerInv DEF Cards!Refusals
<1>2. CASE Cards!Insert(r) /\ ~Cards!Answer(r, "CustomerAlreadyExists")
  <2> DEFINE d == CHOOSE c \in Cards!Fresh : TRUE
             x == [customerTxn[r] EXCEPT !.pc = "flushed", !.id = d]
  <2>1. /\ customerTxn[r].pc = "insert" /\ ~Cards!Undecided(r) /\ ~Cards!Duplicate(r)
        /\ d \in Cards!Fresh
        /\ customerTxn' = [customerTxn EXCEPT ![r].pc = "flushed", ![r].id = d]
    BY <1>2 DEF Cards!Insert
  <2>2. customerTxn' = [customerTxn EXCEPT ![r] = x]
    BY <2>1
  <2>3. d \in Customers /\ customers[d] = Cards!NoCard /\ \A q \in Requests : customerTxn[q].id # d
    BY <2>1 DEF Cards!Fresh
  <2> HIDE DEF d
  <2>4. /\ x \in CardTxns /\ x.pc = "flushed" /\ x.id = d /\ x.set = customerTxn[r].set
        /\ x.op = customerTxn[r].op
        /\ x.want = customerTxn[r].want /\ x.salon = customerTxn[r].salon
        /\ x.seen = customerTxn[r].seen
    BY <1>0, <2>3 DEF CardTxns, CardPcs
  <2> HIDE DEF x
  <2>5. customerTxn[r].op = "create" /\ customerTxn[r].id = None
    BY <1>0, <2>1 DEF CardShape
  <2>6. CardShape(x)
    BY <1>0, <2>1, <2>4, <2>5 DEF CardShape, CardPcs
  <2>7. x.want.phone # None =>
          /\ \A c \in Customers \ {x.id} :
               ~(customers[c].salon = x.salon /\ customers[c].phone = x.want.phone)
          /\ \A q \in Requests \ {r} :
               ~(/\ customerTxn[q].pc = "flushed" /\ "phone" \in customerTxn[q].set
                 /\ customerTxn[q].salon = x.salon /\ customerTxn[q].want.phone = x.want.phone)
    <3>1. SUFFICES ASSUME customerTxn[r].want.phone # None
                   PROVE  /\ \A c \in Customers \ {d} :
                               ~(customers[c].salon = customerTxn[r].salon
                                 /\ customers[c].phone = customerTxn[r].want.phone)
                          /\ \A q \in Requests \ {r} :
                               ~(/\ customerTxn[q].pc = "flushed" /\ "phone" \in customerTxn[q].set
                                 /\ customerTxn[q].salon = customerTxn[r].salon
                                 /\ customerTxn[q].want.phone = customerTxn[r].want.phone)
      BY <2>4
    <3>2. QED
      BY <2>1, <2>5, <3>1, IndexFree
  <2>8. QED
    BY <1>0, <2>2, <2>3, <2>4, <2>5, <2>6, <2>7, CardMove
<1>3. CASE Cards!Flush(r) /\ ~Cards!Answer(r, "CustomerAlreadyExists")
  <2> DEFINE x == [customerTxn[r] EXCEPT !.pc = "flushed"]
  <2>1. /\ customerTxn[r].pc = "flush" /\ "phone" \in customerTxn[r].set =>
             ~Cards!Undecided(r) /\ ~Cards!Duplicate(r)
        /\ customerTxn' = [customerTxn EXCEPT ![r] = x]
    BY <1>3 DEF Cards!Flush, Cards!Goto
  <2>2. customerTxn[r].pc = "flush"
    BY <1>3 DEF Cards!Flush
  <2>4. /\ x \in CardTxns /\ x.pc = "flushed" /\ x.id = customerTxn[r].id
        /\ x.set = customerTxn[r].set
        /\ x.op = customerTxn[r].op /\ x.want = customerTxn[r].want
        /\ x.salon = customerTxn[r].salon
        /\ x.seen = customerTxn[r].seen
    BY <1>0 DEF CardTxns, CardPcs
  <2> HIDE DEF x
  <2>5. x.op \in {"update", "note"} /\ x.id \in DOMAIN Card0
    BY <1>0, <2>2, <2>4 DEF CardShape, CardPcs
  <2>6. CardShape(x)
    BY <1>0, <2>2, <2>4, <2>5 DEF CardShape, CardPcs
  <2>7. "phone" \in x.set /\ x.want.phone # None =>
          /\ \A c \in Customers \ {x.id} :
               ~(customers[c].salon = x.salon /\ customers[c].phone = x.want.phone)
          /\ \A q \in Requests \ {r} :
               ~(/\ customerTxn[q].pc = "flushed" /\ "phone" \in customerTxn[q].set
                 /\ customerTxn[q].salon = x.salon /\ customerTxn[q].want.phone = x.want.phone)
    BY <2>1, <2>2, <2>4, IndexFree
  <2>8. customers[x.id].salon = x.salon
    BY <2>2, <2>4, <2>5 DEF CardInv, UniqueInv, CardsAtHome
  <2>9. QED
    BY <1>0, <2>1, <2>2, <2>4, <2>5, <2>6, <2>7, <2>8, CardMove
<1>4. QED
  BY <1>1, <1>2, <1>3

-----------------------------------------------------------------------------
(* The commit.                                                             *)

LEMMA CardWritten ==
  ASSUME Cards!CardsAssumption, CardInv, NEW r \in Requests, Cards!Commit(r)
  PROVE  LET d == customerTxn[r].id  row == Cards!Written(r)
         IN /\ d \in Customers /\ row \in Cards!Card /\ row.salon = customerTxn[r].salon
            /\ row.salon \in Salons
            /\ customerTxn[r].op = "create" \/ row.salon = customers[d].salon
            /\ row.phone = IF "phone" \in customerTxn[r].set THEN customerTxn[r].want.phone
                 ELSE customers[d].phone
            /\ customerTxn[r].op = "note" => /\ row.gender = customers[d].gender
                                             /\ row.full_name = customers[d].full_name
            /\ customerTxn[r].op = "create" => d \notin DOMAIN Card0
            /\ customerTxn[r].op # "create" => d \in DOMAIN Card0
            /\ \A c \in Customers : customers'[c] = IF c = d THEN row ELSE customers[c]
<1>1. /\ customerTxn[r] \in CardTxns /\ CardShape(customerTxn[r]) /\ customerTxn[r].pc = "flushed"
      /\ customers' = [customers EXCEPT ![customerTxn[r].id] = Cards!Written(r)]
      /\ customers \in [Customers -> Cards!Card]
  BY DEF Cards!Commit, Cards!Flushed, CardInv, CardTypes
<1> DEFINE d == customerTxn[r].id
           card == IF customerTxn[r].op = "create" THEN customerTxn[r].want ELSE customers[d]
           st == customerTxn[r].set
           want == customerTxn[r].want
           w == [salon |-> IF "salon" \in st THEN want.salon ELSE card.salon,
                 full_name |-> IF "full_name" \in st THEN want.full_name ELSE card.full_name,
                 phone |-> IF "phone" \in st THEN want.phone ELSE card.phone,
                 gender |-> IF "gender" \in st THEN want.gender ELSE card.gender,
                 notes |-> IF "notes" \in st THEN want.notes ELSE card.notes]
<1>2. d \in Customers
  BY <1>1 DEF CardShape, CardPcs, CardInv, UniqueInv, CardInHand, Cards!CardsAssumption
<1>3. card \in Cards!Card /\ want \in Cards!Card /\ st \subseteq Cards!Columns
  BY <1>1, <1>2 DEF CardTxns
<1>4. w \in Cards!Card
  <2> HIDE DEF card, st, want
  <2>1. QED
    BY <1>3 DEF Cards!Card
<1>5. Cards!Written(r) = w
  <2>1. Cards!Written(r) = [k \in {"salon", "full_name", "phone", "gender", "notes"} |->
                              IF k \in st THEN want[k] ELSE card[k]]
    BY DEF Cards!Written, Cards!NoCard
  <2> HIDE DEF card, st, want
  <2>2. QED
    BY <2>1
<1>6. customerTxn[r].op = "create" => st = Cards!Columns /\ want.salon = customerTxn[r].salon
        /\ d \notin DOMAIN Card0
  <2>1. customerTxn[r].op = "create" => customers[d].salon = None
    BY <1>1 DEF CardInv, UniqueInv, CardInHand, Cards!NoCard
  <2>2. QED
    BY <1>1, <2>1 DEF CardShape, CardPcs, CardInv, UniqueInv, CardsAtHome, Cards!CardsAssumption
<1>7. customerTxn[r].op # "create" => /\ "salon" \notin st
                                      /\ customers[d].salon = customerTxn[r].salon
                                      /\ d \in DOMAIN Card0
  BY <1>1 DEF CardShape, CardPcs, CardInv, UniqueInv, CardsAtHome, Cards!Identity
<1>8. w.salon = customerTxn[r].salon /\ customerTxn[r].salon \in Salons
  BY <1>1, <1>6, <1>7 DEF Cards!Columns, CardShape, CardPcs
<1>9. w.phone = IF "phone" \in st THEN want.phone ELSE customers[d].phone
  BY <1>6 DEF Cards!Columns, Cards!Identity
<1>10. customerTxn[r].op = "note" => /\ w.gender = customers[d].gender
                                     /\ w.full_name = customers[d].full_name
  BY <1>1 DEF CardShape, CardPcs
<1>11. \A c \in Customers : customers'[c] = IF c = d THEN Cards!Written(r) ELSE customers[c]
  BY <1>1
<1>12. QED
  <2> HIDE DEF w
  <2>1. QED
    BY <1>2, <1>4, <1>5, <1>6, <1>7, <1>8, <1>9, <1>10, <1>11

LEMMA CardCommit ==
  ASSUME Cards!CardsAssumption, CardInv, NEW r \in Requests, Cards!Commit(r)
  PROVE  CardInv'
<1> DEFINE d == customerTxn[r].id
           row == Cards!Written(r)
<1>1. /\ d \in Customers /\ row \in Cards!Card /\ row.salon = customerTxn[r].salon
      /\ row.salon \in Salons
      /\ customerTxn[r].op = "create" \/ row.salon = customers[d].salon
      /\ row.phone = IF "phone" \in customerTxn[r].set THEN customerTxn[r].want.phone
           ELSE customers[d].phone
      /\ customerTxn[r].op = "create" => d \notin DOMAIN Card0
      /\ customerTxn[r].op # "create" => d \in DOMAIN Card0
      /\ \A c \in Customers : customers'[c] = IF c = d THEN row ELSE customers[c]
  BY CardWritten
<1>2. CardShape(customerTxn[r]) /\ customerTxn[r].pc = "flushed"
  BY DEF Cards!Commit, Cards!Flushed, CardInv, CardTypes
<1> HIDE DEF row
<1>3. PICK x \in CardTxns : /\ customerTxn' = [customerTxn EXCEPT ![r] = x] /\ CardShape(x)
                            /\ x.pc = "done" /\ x.id = None
  BY CardAnswerIs DEF Cards!Commit, Cards!Refusals
<1>4. \A q \in Requests : customerTxn'[q] = IF q = r THEN x ELSE customerTxn[q]
  BY <1>3 DEF CardInv, CardTypes
<1>5. CardTypes'
  <2>1. /\ customers' = [customers EXCEPT ![d] = row] /\ campaigns' = campaigns
        /\ customerTrail' = Append(customerTrail, [action |-> customerTxn[r].op, id |-> d,
                                                   changed |-> customerTxn[r].changed])
    BY DEF Cards!Commit, row
  <2>2. customerTxn[r].op \in {"create", "update", "note"} /\ customerTxn[r] \in CardTxns
    BY <1>2 DEF CardShape, CardPcs, CardInv, CardTypes
  <2>3. [action |-> customerTxn[r].op, id |-> d, changed |-> customerTxn[r].changed] \in CardLines
    BY <1>1, <2>2 DEF CardLines, CardTxns
  <2>4. LogsTyped'
    BY <2>1, <2>3 DEF CardInv, CardTypes, LogsTyped
  <2>5. QED
    BY <1>1, <1>3, <1>4, <2>1, <2>4 DEF CardInv, CardTypes
<1>6. ASSUME NEW q \in Requests \ {r}, customerTxn[q].pc = "flushed", customerTxn[q].op = "create"
      PROVE  customerTxn[q].id \in Customers /\ customerTxn[q].id # d
  BY <1>6 DEF CardInv, UniqueInv, CardInHand
<1>7. CardsAtHome'
  <2>1. ASSUME NEW c \in DOMAIN Card0 PROVE customers'[c].salon = customers[c].salon
    BY <1>1 DEF Cards!CardsAssumption
  <2>2. ASSUME NEW q \in Requests \ {r}, customerTxn[q].pc \in {"flush", "flushed"},
               customerTxn[q].op \in {"update", "note"}
        PROVE  customerTxn[q].id \in DOMAIN Card0
    BY <2>2 DEF CardInv, CardTypes, CardShape, CardPcs
  <2>3. QED
    BY <1>3, <1>4, <2>1, <2>2 DEF CardInv, UniqueInv, CardsAtHome
<1>8. CardInHand'
  BY <1>1, <1>3, <1>4, <1>6 DEF CardInv, UniqueInv, CardInHand, Cards!CardsAssumption
<1>9. ASSUME NEW q \in Requests PROVE EntryFree(q)'
  <2>1. CASE q = r
    BY <1>3, <1>4, <2>1 DEF EntryFree
  <2>2. CASE q # r
    <3>1. SUFFICES ASSUME customerTxn[q].pc = "flushed", "phone" \in customerTxn[q].set,
                            customerTxn[q].want.phone # None
                   PROVE  /\ \A c \in Customers \ {customerTxn[q].id} :
                               ~(/\ customers'[c].salon = customerTxn[q].salon
                                 /\ customers'[c].phone = customerTxn[q].want.phone)
                          /\ \A p \in Requests \ {q} :
                               ~(/\ customerTxn'[p].pc = "flushed"
                                 /\ "phone" \in customerTxn'[p].set
                                 /\ customerTxn'[p].salon = customerTxn[q].salon
                                 /\ customerTxn'[p].want.phone = customerTxn[q].want.phone)
      BY <1>4, <2>2 DEF EntryFree
    <3>2. EntryFree(q) /\ EntryFree(r)
      BY DEF CardInv, UniqueInv
    <3>3. ASSUME d # customerTxn[q].id
          PROVE  ~(row.salon = customerTxn[q].salon /\ row.phone = customerTxn[q].want.phone)
      <4>1. CASE "phone" \in customerTxn[r].set
        BY <1>1, <1>2, <2>2, <3>1, <3>2, <4>1 DEF EntryFree
      <4>2. CASE "phone" \notin customerTxn[r].set
        <5>1. customerTxn[r].op # "create"
          BY <1>2, <4>2 DEF CardShape, CardPcs, Cards!Columns, Cards!Identity
        <5>2. QED
          BY <1>1, <3>1, <3>2, <3>3, <4>2, <5>1 DEF EntryFree
      <4>3. QED
        BY <4>1, <4>2
    <3>4. QED
      BY <1>1, <1>3, <1>4, <3>1, <3>2, <3>3 DEF EntryFree
  <2>3. QED
    BY <2>1, <2>2
<1>10. Cards!PhonesUnique'
  <2>1. ASSUME NEW c \in Customers \ {d}, row.phone # None, customers[c].phone = row.phone,
               customers[c].salon = row.salon
        PROVE  FALSE
    <3>1. CASE "phone" \in customerTxn[r].set
      BY <1>1, <1>2, <2>1, <3>1 DEF CardInv, UniqueInv, EntryFree
    <3>2. CASE "phone" \notin customerTxn[r].set
      <4>1. customerTxn[r].op # "create"
        BY <1>2, <3>2 DEF CardShape, CardPcs, Cards!Columns, Cards!Identity
      <4>2. QED
        BY <1>1, <2>1, <3>2, <4>1 DEF CardInv, UniqueInv, Cards!PhonesUnique
    <3>3. QED
      BY <3>1, <3>2
  <2>2. QED
    BY <1>1, <2>1 DEF CardInv, UniqueInv, Cards!PhonesUnique
<1>11. QED
  BY <1>5, <1>7, <1>8, <1>9, <1>10 DEF CardInv, UniqueInv

-----------------------------------------------------------------------------
(* The other statements, and every step.                                   *)

LEMMA CardCount ==
  ASSUME Cards!CardsAssumption, CardInv, NEW r \in Requests,
         Cards!CountAll(r) \/ Cards!CountCampaigns(r)
  PROVE  CardInv'
<1>1. ASSUME NEW op, NEW n \in Nat, Cards!Count(r, op, n) PROVE CardInv'
  <2> DEFINE x == [customerTxn[r] EXCEPT !.pc = "done", !.answer = "ok", !.total = n]
  <2>1. /\ customerTxn[r] \in CardTxns /\ CardShape(customerTxn[r]) /\ customerTxn[r].pc = "count"
        /\ LogsTyped'
        /\ customerTxn' = [customerTxn EXCEPT ![r] = x]
    BY <1>1 DEF CardInv, CardTypes, LogsTyped, Cards!Count
  <2>2. x \in CardTxns /\ x.pc = "done" /\ x.id = None
    BY <2>1 DEF CardTxns, CardShape
  <2>3. CardShape(x)
    BY <2>2 DEF CardShape, CardPcs
  <2>4. QED
    BY <1>1, <2>1, <2>2, <2>3, CardMove DEF Cards!Count
<1>2. QED
  BY <1>1, CardCounts, CustomerSizes DEF Cards!CountAll, Cards!CountCampaigns, CardInv

LEMMA CardEmit ==
  ASSUME Cards!CardsAssumption, CardInv, NEW r \in Requests, Cards!Emit(r)
  PROVE  CardInv'
<1>1. customerTxn[r] \in CardTxns /\ LogsTyped
  BY DEF CardInv, CardTypes
<1> DEFINE row == [salon |-> customerTxn[r].salon, segment |-> customerTxn[r].want.gender,
                   recipients |-> customerTxn[r].total, status |-> "PENDING"]
<1>2. row \in CampaignRows
  BY <1>1 DEF CampaignRows, CardTxns, Cards!Card
<1>3. LogsTyped'
  <2> HIDE DEF row
  <2>1. QED
    BY <1>1, <1>2 DEF Cards!Emit, row, LogsTyped, CardLines
<1>4. QED
  BY <1>3, CardAnswerInv DEF Cards!Emit

LEMMA CardStep == ASSUME Cards!CardsAssumption, CardInv, [Cards!Next]_Cards!vars PROVE CardInv'
<1>1. LogsTyped
  BY DEF CardInv, CardTypes
<1>2. CASE UNCHANGED Cards!vars
  BY <1>1, <1>2, CardRest DEF Cards!vars, LogsTyped
<1>3. ASSUME NEW r \in Requests, Cards!Receive(r) PROVE CardInv'
  BY <1>3, CardReceive
<1>4. ASSUME NEW r \in Requests, Cards!Serve(r) PROVE CardInv'
  BY <1>4, CardLook, CardWrite, CardCommit, CardCount, CardEmit DEF Cards!Serve
<1>5. ASSUME NEW r \in Requests, Cards!Abort(r) PROVE CardInv'
  BY <1>1, <1>5, CardAnswerInv DEF Cards!Abort, LogsTyped
<1>6. QED
  BY <1>2, <1>3, <1>4, <1>5 DEF Cards!Next

LEMMA CardAlways == ASSUME Cards!CardsAssumption PROVE Cards!Spec => []CardInv
<1>1. Cards!Init => CardInv
  BY CardInit
<1>2. CardInv /\ [Cards!Next]_Cards!vars => CardInv'
  BY CardStep
<1>3. QED
  BY <1>1, <1>2, PTL DEF Cards!Spec

-----------------------------------------------------------------------------
(* No two cards of a salon ever carry one telephone, however the creations *)
(* of the kiosk and of the back office and the first telephones of old     *)
(* cards cross: phone_exists alone would not do, the entry that the index  *)
(* holds until the commit does.                                            *)
THEOREM CustomersPhonesUnique ==
  ASSUME Cards!CardsAssumption
  PROVE  Cards!Spec => []Cards!PhonesUnique
<1>1. CardInv => Cards!PhonesUnique
  BY DEF CardInv, UniqueInv
<1>2. QED
  BY <1>1, CardAlways, PTL

(* The statement that begins a request commits nothing and refuses no      *)
(* telephone.                                                              *)
LEMMA CardReceiveReads ==
  ASSUME NEW r \in Requests, Cards!Receive(r)
  PROVE  /\ UNCHANGED <<customers, campaigns, customerTrail>>
         /\ \E x : /\ customerTxn' = [customerTxn EXCEPT ![r] = x]
                   /\ x.answer \in {None, "ok", "CustomerNotFound", "TooManyLoginAttempts"}
                   /\ x.pc = "emit" => \E s, g : x.total = Cardinality(Cards!Reachable(s, g, None))
<1> DEFINE Reads == /\ UNCHANGED <<customers, campaigns, customerTrail>>
                    /\ \E x : /\ customerTxn' = [customerTxn EXCEPT ![r] = x]
                              /\ x.answer \in {None, "ok", "CustomerNotFound",
                                               "TooManyLoginAttempts"}
                              /\ x.pc = "emit" =>
                                   \E s, g : x.total = Cardinality(Cards!Reachable(s, g, None))
<1>1. ASSUME NEW s, NEW n, NEW p, NEW g, NEW note, Cards!CreateCustomer(r, s, n, p, g, note)
      PROVE  Reads
  <2> DEFINE x == [Cards!New EXCEPT !.pc = IF p = None THEN "insert" ELSE "exists", !.op = "create",
                              !.salon = s, !.set = Cards!Columns,
                              !.want = [salon |-> s, full_name |-> n, phone |-> p, gender |-> g,
                                        notes |-> note]]
  <2>1. x.answer = None /\ x.pc # "emit"
    BY DEF Cards!New
  <2>2. QED
    BY <1>1, <2>1 DEF Cards!CreateCustomer
<1>2. ASSUME NEW s, NEW n, NEW p, NEW g, Cards!CreateWalkInCustomer(r, s, n, p, g) PROVE Reads
  BY <1>1, <1>2 DEF Cards!CreateWalkInCustomer
<1>3. ASSUME NEW s, NEW p, Cards!Lookup(r, s, p) PROVE Reads
  <2>1. PICK a \in {"TooManyLoginAttempts", Cards!Identify(s, p)} :
          customerTxn' = [customerTxn EXCEPT ![r] =
                          [Cards!New EXCEPT !.pc = "done", !.op = "lookup", !.salon = s,
                                                !.want.phone = p, !.answer = a]]
    BY <1>3 DEF Cards!Lookup
  <2> DEFINE x == [Cards!New EXCEPT !.pc = "done", !.op = "lookup", !.salon = s,
                              !.want.phone = p, !.answer = a]
  <2>2. a \in {None, "ok", "CustomerNotFound", "TooManyLoginAttempts"}
    BY DEF Cards!Identify
  <2>3. x.answer = a /\ x.pc # "emit"
    BY DEF Cards!New
  <2>4. QED
    BY <1>3, <2>1, <2>2, <2>3 DEF Cards!Lookup
<1>4. ASSUME NEW s, NEW c, Cards!GetCustomer(r, s, c) PROVE Reads
  <2> DEFINE x == [Cards!New EXCEPT !.pc = "done", !.op = "get", !.salon = s,
                    !.answer = IF customers[c].salon = s THEN "ok" ELSE "CustomerNotFound"]
  <2>1. x.answer \in {"ok", "CustomerNotFound"} /\ x.pc # "emit"
    BY DEF Cards!New
  <2>2. QED
    BY <1>4, <2>1 DEF Cards!GetCustomer
<1>5. ASSUME NEW op, NEW s, NEW g, NEW q, NEW n, Cards!List(r, op, s, g, q, n) PROVE Reads
  <2> DEFINE x == [Cards!New EXCEPT !.pc = "count", !.op = op, !.salon = s,
                              !.want = [Cards!NoCard EXCEPT !.gender = g, !.full_name = q],
                              !.page = Cards!AtMost(n, CardsPage), !.since = Len(customerTrail)]
  <2>1. x.answer = None /\ x.pc # "emit"
    BY DEF Cards!New
  <2>2. QED
    BY <1>5, <2>1 DEF Cards!List
<1>6. ASSUME NEW s, NEW c, NEW n, NEW p, NEW g, Cards!UpdateCustomer(r, s, c, n, p, g)
      PROVE  Reads
  <2> DEFINE x == [Cards!New EXCEPT !.pc = "find", !.op = "update", !.salon = s, !.id = c,
                              !.want = [Cards!NoCard EXCEPT !.full_name = n, !.phone = p,
                                                            !.gender = g]]
  <2>1. x.answer = None /\ x.pc # "emit"
    BY DEF Cards!New
  <2>2. QED
    BY <1>6, <2>1 DEF Cards!UpdateCustomer
<1>7. ASSUME NEW s, NEW c, NEW n, Cards!UpdateCustomerNote(r, s, c, n) PROVE Reads
  <2> DEFINE x == [Cards!New EXCEPT !.pc = "load", !.op = "note", !.salon = s, !.id = c,
                              !.want = [Cards!NoCard EXCEPT !.notes = n]]
  <2>1. x.answer = None /\ x.pc # "emit"
    BY DEF Cards!New
  <2>2. QED
    BY <1>7, <2>1 DEF Cards!UpdateCustomerNote
<1>8. ASSUME NEW s, NEW g, Cards!CreateCampaign(r, s, g) PROVE Reads
  <2> DEFINE k == Cardinality(Cards!Reachable(s, g, None))
             x == [Cards!New EXCEPT !.pc = "emit", !.op = "campaign", !.salon = s,
                   !.want.gender = g,
                              !.total = k]
  <2>1. x.answer = None /\ x.total = k
    <3> HIDE DEF k
    <3>1. QED
      BY DEF Cards!New
  <2>2. /\ customerTxn' = [customerTxn EXCEPT ![r] = x]
        /\ UNCHANGED <<customers, campaigns, customerTrail>>
    BY <1>8, CustomerSizes DEF Cards!CreateCampaign
  <2> HIDE DEF x
  <2>3. QED
    BY <2>1, <2>2
<1>9. QED
  <2> HIDE DEF Reads
  <2>1. Reads
    BY <1>1, <1>2, <1>3, <1>4, <1>5, <1>6, <1>7, <1>8
       DEF Cards!Receive, Cards!WalkIn, Cards!CreateOrList, Cards!GetOrEdit, Cards!Campaign,
          Cards!ListSalonCustomers, Cards!ListSalonCampaigns
  <2>2. QED
    BY <2>1 DEF Reads

(* A telephone that is set is replaced by an edit only if it was not there *)
(* when the edit checked the lock: a note edits no telephone, an insertion *)
(* writes a fresh row, and an edit that passed the lock writes the         *)
(* telephone it saw.                                                       *)
THEOREM CustomersPhoneKept == ASSUME Cards!CardsAssumption PROVE Cards!Spec => Cards!PhoneKept
<1>1. ASSUME CardInv, [Cards!Next]_Cards!vars, NEW c \in Customers, customers[c].phone # None,
             customers'[c].phone # customers[c].phone
      PROVE  \E r \in Requests : /\ customerTxn[r].id = c /\ customerTxn[r].pc # customerTxn'[r].pc
                                 /\ customerTxn[r].seen.phone # customers[c].phone
  <2>1. PICK r \in Requests : Cards!Commit(r)
    <3>1. UNCHANGED Cards!vars \/ (\E r \in Requests : Cards!Receive(r) \/ Cards!Abort(r)) =>
            customers' = customers
      BY CardReceiveReads DEF Cards!vars, Cards!Abort
    <3>2. PICK r \in Requests : Cards!Serve(r)
      BY <1>1, <3>1 DEF Cards!Next
    <3>3. ~Cards!Commit(r) => customers' = customers
      BY <3>2 DEF Cards!Serve, Cards!PhoneExists, Cards!Insert, Cards!Find, Cards!Load, Cards!Flush,
         Cards!CountAll, Cards!CountCampaigns, Cards!Count, Cards!Emit
    <3>4. QED
      BY <1>1, <3>2, <3>3
  <2>2. /\ customerTxn[r].op = "create" => customers[customerTxn[r].id].phone = None
        /\ CardShape(customerTxn[r]) /\ customerTxn[r].pc = "flushed"
    BY <1>1, <2>1 DEF Cards!Commit, Cards!Flushed, CardInv, CardTypes, UniqueInv, CardInHand,
       Cards!NoCard
  <2>3. /\ c = customerTxn[r].id /\ "phone" \in customerTxn[r].set
        /\ customerTxn[r].want.phone # customers[c].phone
    BY <1>1, <2>1, CardWritten
  <2>4. customerTxn[r].seen.phone \in {None, customerTxn[r].want.phone}
    BY <1>1, <2>2, <2>3 DEF CardShape, CardPcs
  <2>5. customerTxn'[r].pc = "done"
    BY <1>1, <2>1, CardAnswerIs DEF Cards!Commit, CardInv, CardTypes
  <2>6. QED
    BY <1>1, <2>2, <2>3, <2>4, <2>5
<1>2. CardInv /\ [Cards!Next]_Cards!vars =>
        [\A c \in Customers :
               customers[c].phone # None /\ customers'[c].phone # customers[c].phone =>
                 \E r \in Requests :
                   /\ customerTxn[r].id = c /\ customerTxn[r].pc # customerTxn'[r].pc
                   /\ customerTxn[r].seen.phone # customers[c].phone]_Cards!vars
  BY <1>1
<1>3. QED
  BY <1>2, CardAlways, PTL DEF Cards!Spec, Cards!PhoneKept

(* What a step answers, and that it answers one request.                   *)
LEMMA CardAnswered ==
  ASSUME CardInv, NEW r \in Requests, NEW a, Cards!Answer(r, a)
  PROVE  customerTxn'[r].answer = a /\ \A q \in Requests \ {r} : customerTxn'[q] = customerTxn[q]
  BY DEF Cards!Answer, Cards!New, CardInv, CardTypes

LEMMA CardConflicts ==
  ASSUME CardInv, NEW r \in Requests, Cards!Receive(r) \/ Cards!Serve(r) \/ Cards!Abort(r),
         NEW q \in Requests, customerTxn'[q].answer = "CustomerAlreadyExists",
         customerTxn[q].answer = None, Cards!CardsAssumption
  PROVE  Cards!Carrier(customerTxn[q].salon, customerTxn[q].want.phone) # {}
<1>1. /\ customerTxn \in [Requests -> CardTxns] /\ "CustomerAlreadyExists" # None
  BY DEF CardInv, CardTypes, Cards!Refusals, Cards!CardsAssumption
<1>2. CASE Cards!Receive(r)
  BY <1>1, <1>2, CardReceiveReads
<1>3. CASE Cards!PhoneExists(r)
  <2>1. CASE Cards!Carrier(customerTxn[r].salon, customerTxn[r].want.phone) # {}
    BY <1>1, <1>3, <2>1, CardAnswered DEF Cards!PhoneExists
  <2>2. CASE Cards!Carrier(customerTxn[r].salon, customerTxn[r].want.phone) = {}
    <3>1. \E pc \in {"insert", "load"} : Cards!Goto(r, pc)
      BY <1>3, <2>2 DEF Cards!PhoneExists
    <3>2. QED
      BY <1>1, <3>1 DEF Cards!Goto, CardTxns
  <2>3. QED
    BY <2>1, <2>2
<1>4. CASE Cards!Insert(r)
  <2>1. CASE Cards!Duplicate(r) /\ Cards!Answer(r, "CustomerAlreadyExists")
    BY <1>1, <2>1, CardAnswered DEF Cards!Duplicate
  <2>2. CASE ~Cards!Duplicate(r)
    BY <1>1, <1>4, <2>2 DEF Cards!Insert, CardTxns
  <2>3. QED
    BY <1>4, <2>1, <2>2 DEF Cards!Insert
<1>5. CASE Cards!Flush(r)
  <2>1. CASE Cards!Duplicate(r) /\ Cards!Answer(r, "CustomerAlreadyExists")
    BY <1>1, <2>1, CardAnswered DEF Cards!Duplicate
  <2>2. CASE Cards!Goto(r, "flushed")
    BY <1>1, <2>2 DEF Cards!Goto, CardTxns
  <2>3. QED
    BY <1>5, <2>1, <2>2 DEF Cards!Flush
<1>6. CASE Cards!Find(r)
  <2>1. CASE \E a \in {"CustomerNotFound", "CustomerPhoneLocked"} : Cards!Answer(r, a)
    BY <1>1, <2>1, CardAnswered
  <2>2. CASE ~ \E a \in {"CustomerNotFound", "CustomerPhoneLocked"} : Cards!Answer(r, a)
    BY <1>1, <1>6, <2>2 DEF Cards!Find, CardTxns
  <2>3. QED
    BY <2>1, <2>2
<1>7. CASE Cards!Load(r)
  <2>1. CASE Cards!Answer(r, "CustomerNotFound")
    BY <1>1, <2>1, CardAnswered
  <2>2. CASE ~Cards!Answer(r, "CustomerNotFound")
    BY <1>1, <1>7, <2>2 DEF Cards!Load, CardTxns
  <2>3. QED
    BY <2>1, <2>2
<1>8. CASE Cards!Commit(r) \/ Cards!Emit(r) \/ Cards!Abort(r)
  BY <1>1, <1>8, CardAnswered DEF Cards!Commit, Cards!Emit, Cards!Abort
<1>9. CASE Cards!CountAll(r) \/ Cards!CountCampaigns(r)
  BY <1>1, <1>9 DEF Cards!CountAll, Cards!CountCampaigns, Cards!Count, CardTxns
<1>10. QED
  BY <1>2, <1>3, <1>4, <1>5, <1>6, <1>7, <1>8, <1>9 DEF Cards!Serve

(* A request that is refused for its telephone is refused because of a     *)
(* committed card of its salon: the kiosk that looks it up next finds it.  *)
(* The insertion waits for a card that is written and not committed, and   *)
(* fails only if that card is there to stay.                               *)
THEOREM CustomersConflictMeansFound ==
  ASSUME Cards!CardsAssumption
  PROVE  Cards!Spec => Cards!ConflictMeansFound
<1>1. CardInv /\ [Cards!Next]_Cards!vars =>
        [\A r \in Requests :
               customerTxn'[r].answer = "CustomerAlreadyExists" /\ customerTxn[r].answer = None =>
                 Cards!Carrier(customerTxn[r].salon, customerTxn[r].want.phone) # {}]_Cards!vars
  BY CardConflicts DEF Cards!Next
<1>2. QED
  BY <1>1, CardAlways, PTL DEF Cards!Spec, Cards!ConflictMeansFound

(* The three together, which are what a kiosk needs to find one card and   *)
(* the right one (lookup_walk_in_customer after a refused creation).       *)
THEOREM CustomersPhonesHold == ASSUME Cards!CardsAssumption PROVE Cards!Spec => Cards!PhonesHold
<1>1. /\ Cards!Spec => []Cards!PhonesUnique
      /\ Cards!Spec => Cards!PhoneKept
      /\ Cards!Spec => Cards!ConflictMeansFound
  BY CustomersPhonesUnique, CustomersPhoneKept, CustomersConflictMeansFound
<1>2. QED
  BY <1>1 DEF Cards!PhonesHold

-----------------------------------------------------------------------------
(* The total that goes with a page.                                        *)

Listing    == {"list", "campaigns"}
SizeNow(x) ==
  IF x.op = "list" THEN Cardinality(Cards!Matching(x.salon, x.want.gender, x.want.full_name))
  ELSE Cardinality(Cards!CampaignsOf(x.salon))

(* What may take a card off a page of x before it is counted.              *)
Renamed(x) == /\ x.op = "list" /\ (x.want.gender # None \/ x.want.full_name # None)
              /\ Cards!EditedSince(x.since)

(* A page holds no more than there is, while its total is to come and      *)
(* after, unless an edit came in between; whoever emits a campaign lists   *)
(* nothing.                                                                *)
Covered(r) ==
  LET x == customerTxn[r]
  IN /\ x.pc = "emit" => x.op = "campaign"
     /\ x.pc \in {"count", "done"} /\ x.op \in Listing => x.salon \in Salons
     /\ x.op \in Listing =>
          /\ x.since <= Len(customerTrail)
          /\ x.pc = "count" => x.page <= SizeNow(x) \/ Renamed(x)
          /\ x.pc = "done" => x.page <= x.total \/ Renamed(x)

CoverInv == \A r \in Requests : Covered(r)

(* What each statement writes.                                             *)
LEMMA CardWriters ==
  ASSUME [Cards!Next]_Cards!vars
  PROVE  /\ customers' = customers \/ \E r \in Requests : Cards!Commit(r)
         /\ campaigns' = campaigns \/ \E r \in Requests : Cards!Emit(r)
         /\ customerTrail' = customerTrail
            \/ \E r \in Requests : Cards!Commit(r) \/ Cards!Emit(r)
<1>1. ASSUME NEW r \in Requests, Cards!Receive(r)
      PROVE  UNCHANGED <<customers, campaigns, customerTrail>>
  BY <1>1 DEF Cards!Receive, Cards!WalkIn, Cards!CreateOrList, Cards!GetOrEdit, Cards!Campaign,
     Cards!CreateCustomer,
     Cards!CreateWalkInCustomer, Cards!Lookup, Cards!GetCustomer, Cards!List,
       Cards!ListSalonCustomers, Cards!ListSalonCampaigns,
     Cards!UpdateCustomer, Cards!UpdateCustomerNote, Cards!CreateCampaign
<1>2. ASSUME NEW r \in Requests, Cards!Serve(r), ~Cards!Commit(r), ~Cards!Emit(r)
      PROVE  UNCHANGED <<customers, campaigns, customerTrail>>
  BY <1>2 DEF Cards!Serve, Cards!PhoneExists, Cards!Insert, Cards!Find, Cards!Load, Cards!Flush,
     Cards!CountAll, Cards!CountCampaigns, Cards!Count
<1>3. ASSUME NEW r \in Requests, Cards!Abort(r)
      PROVE  UNCHANGED <<customers, campaigns, customerTrail>>
  BY <1>3 DEF Cards!Abort
<1>4. ASSUME NEW r \in Requests, Cards!Commit(r) PROVE UNCHANGED campaigns
  BY <1>4 DEF Cards!Commit
<1>5. ASSUME NEW r \in Requests, Cards!Emit(r) PROVE UNCHANGED customers
  BY <1>5 DEF Cards!Emit
<1>6. QED
  BY <1>1, <1>2, <1>3, <1>4, <1>5 DEF Cards!Next, Cards!vars

(* The log only grows, and an edit is told at its end.                     *)
LEMMA LogGrows ==
  ASSUME CardInv, [Cards!Next]_Cards!vars
  PROVE  /\ Len(customerTrail) \in Nat /\ Len(customerTrail') \in Nat
         /\ Len(customerTrail) <= Len(customerTrail')
         /\ \A k \in Nat : Cards!EditedSince(k) => Cards!EditedSince(k)'
         /\ \A r \in Requests : Cards!Commit(r) /\ customerTxn[r].op = "update" =>
              \A k \in Nat : k <= Len(customerTrail) => Cards!EditedSince(k)'
<1>1. customerTrail \in Seq(CardLines)
  BY DEF CardInv, CardTypes, LogsTyped
<1>2. ASSUME NEW line, customerTrail' = Append(customerTrail, line)
      PROVE  /\ Len(customerTrail') \in Nat /\ Len(customerTrail) <= Len(customerTrail')
             /\ \A k \in Nat : Cards!EditedSince(k) => Cards!EditedSince(k)'
             /\ line.action = "update" =>
                  \A k \in Nat : k <= Len(customerTrail) => Cards!EditedSince(k)'
  <2>1. /\ Len(customerTrail') = Len(customerTrail) + 1
        /\ \A i \in DOMAIN customerTrail : customerTrail'[i] = customerTrail[i]
        /\ customerTrail'[Len(customerTrail) + 1] = line
        /\ DOMAIN customerTrail' = 1 .. Len(customerTrail) + 1
        /\ DOMAIN customerTrail = 1 .. Len(customerTrail) /\ Len(customerTrail) \in Nat
    BY <1>1, <1>2
  <2>2. QED
    BY <2>1 DEF Cards!EditedSince
<1>3. ASSUME NEW r \in Requests, Cards!Commit(r)
      PROVE  \E line : /\ customerTrail' = Append(customerTrail, line)
                       /\ line.action = customerTxn[r].op
  <2> DEFINE line == [action |-> customerTxn[r].op, id |-> customerTxn[r].id,
                      changed |-> customerTxn[r].changed]
  <2>1. customerTrail' = Append(customerTrail, line) /\ line.action = customerTxn[r].op
    BY <1>3 DEF Cards!Commit
  <2>2. QED
    BY <2>1
<1>4. ASSUME NEW r \in Requests, Cards!Emit(r)
      PROVE  \E line : customerTrail' = Append(customerTrail, line)
  BY <1>4 DEF Cards!Emit
<1>5. CASE customerTrail' = customerTrail
  <2>1. ~ \E r \in Requests : Cards!Commit(r)
    BY <1>1, <1>3, <1>5
  <2>2. QED
    BY <1>1, <1>5, <2>1 DEF Cards!EditedSince
<1>6. ASSUME NEW r \in Requests, Cards!Commit(r) \/ Cards!Emit(r)
      PROVE  \E line : customerTrail' = Append(customerTrail, line)
  BY <1>3, <1>4, <1>6
<1>7. ASSUME NEW r \in Requests, Cards!Commit(r), customerTxn[r].op = "update"
      PROVE  \A k \in Nat : k <= Len(customerTrail) => Cards!EditedSince(k)'
  BY <1>2, <1>3, <1>7
<1>8. CASE \E r \in Requests : Cards!Commit(r) \/ Cards!Emit(r)
  BY <1>1, <1>2, <1>6, <1>7, <1>8
<1>9. QED
  BY <1>5, <1>8, CardWriters

(* No card leaves its salon or a filter, but for one that an edit commits, *)
(* and no campaign goes.                                                   *)
LEMMA NothingLeaves ==
  ASSUME Cards!CardsAssumption, CardInv, [Cards!Next]_Cards!vars, NEW s \in Salons, NEW g, NEW n,
         (g = None /\ n = None)
           \/ ~ \E r \in Requests : Cards!Commit(r) /\ customerTxn[r].op = "update"
  PROVE  /\ Cardinality(Cards!Matching(s, g, n)) <= Cardinality(Cards!Matching(s, g, n)')
         /\ Cardinality(Cards!CampaignsOf(s)) <= Cardinality(Cards!CampaignsOf(s)')
         /\ Cardinality(Cards!Matching(s, g, n)') \in Nat
         /\ Cardinality(Cards!CampaignsOf(s)') \in Nat
<1>1. Cards!Matching(s, g, n) \subseteq Cards!Matching(s, g, n)'
  <2>1. CASE customers' = customers
    BY <2>1 DEF Cards!Matching, Cards!In
  <2>2. ASSUME NEW r \in Requests, Cards!Commit(r)
        PROVE  Cards!Matching(s, g, n) \subseteq Cards!Matching(s, g, n)'
    <3>1. /\ customerTxn[r].op = "create" => customers[customerTxn[r].id].salon = None
          /\ customerTxn[r].op \in {"create", "update", "note"}
      BY <2>2 DEF Cards!Commit, Cards!Flushed, CardInv, CardTypes, CardShape, CardPcs, UniqueInv,
         CardInHand, Cards!NoCard
    <3>2. \A c \in Customers : customers[c].salon = s =>
            /\ customers'[c].salon = s
            /\ customerTxn[r].op # "update" => /\ customers'[c].gender = customers[c].gender
                                               /\ customers'[c].full_name = customers[c].full_name
      BY <2>2, <3>1, CardWritten DEF Cards!CardsAssumption
    <3>3. QED
      BY <2>2, <3>2 DEF Cards!Matching, Cards!In
  <2>3. QED
    BY <2>1, <2>2, CardWriters
<1>2. Cards!CampaignsOf(s) \subseteq Cards!CampaignsOf(s)'
  <2>1. CASE campaigns' = campaigns
    BY <2>1 DEF Cards!CampaignsOf
  <2>2. ASSUME NEW r \in Requests, Cards!Emit(r)
        PROVE  Cards!CampaignsOf(s) \subseteq Cards!CampaignsOf(s)'
    <3>1. PICK row : campaigns' = Append(campaigns, row)
      BY <2>2 DEF Cards!Emit
    <3>2. campaigns \in Seq(CampaignRows)
      BY DEF CardInv, CardTypes, LogsTyped
    <3>3. QED
      BY <3>1, <3>2 DEF Cards!CampaignsOf
  <2>3. QED
    BY <2>1, <2>2, CardWriters
<1>3. CardInv'
  BY CardStep
<1>4. IsFiniteSet(Cards!Matching(s, g, n)')
  BY FS_Subset, CustomerSizes DEF Cards!Matching, Cards!In, Cards!CardsAssumption
<1>5. IsFiniteSet(Cards!CampaignsOf(s)')
  <2>1. Len(campaigns') \in Nat /\ Cards!CampaignsOf(s)' \subseteq 1 .. Len(campaigns')
    BY <1>3 DEF CardInv, CardTypes, LogsTyped, Cards!CampaignsOf
  <2>2. IsFiniteSet(1 .. Len(campaigns'))
    BY <2>1, FS_Interval
  <2>3. QED
    BY <2>1, <2>2, FS_Subset
<1>6. QED
  BY <1>1, <1>2, <1>4, <1>5, FS_Subset, FS_CardinalityType

LEMMA CardMovesAlone ==
  ASSUME Cards!CardsAssumption, CardInv, NEW r \in Requests,
         Cards!Receive(r) \/ Cards!Serve(r) \/ Cards!Abort(r), NEW q \in Requests \ {r}
  PROVE  customerTxn'[q] = customerTxn[q]
<1>1. CASE Cards!Receive(r)
  BY <1>1, CardReceiveReads DEF CardInv, CardTypes
<1>2. CASE \E a : Cards!Answer(r, a)
  BY <1>2, CardAnswered
<1>3. CASE ~(\E a : Cards!Answer(r, a)) /\ (Cards!Serve(r) \/ Cards!Abort(r))
  BY <1>3 DEF Cards!Serve, Cards!Abort, Cards!PhoneExists, Cards!Insert, Cards!Find, Cards!Load,
     Cards!Flush, Cards!Commit, Cards!CountAll, Cards!CountCampaigns,
     Cards!Count, Cards!Emit, Cards!Goto, CardInv, CardTypes
<1>4. QED
  BY <1>1, <1>2, <1>3

(* The statement that begins a request: the page comes before the total.   *)
LEMMA ReceiveCovers ==
  ASSUME Cards!CardsAssumption, CardInv, NEW r \in Requests, Cards!Receive(r)
  PROVE  Covered(r)'
<1> DEFINE Goal == Covered(r)'
<1>1. ASSUME NEW x, customerTxn' = [customerTxn EXCEPT ![r] = x], x.op \notin Listing,
             x.pc = "emit" => x.op = "campaign"
      PROVE  Goal
  BY <1>1 DEF Covered, CardInv, CardTypes
<1>2. ASSUME NEW s, NEW n, NEW p, NEW g, NEW note, Cards!CreateCustomer(r, s, n, p, g, note)
      PROVE  Goal
  <2> DEFINE x == [Cards!New EXCEPT !.pc = IF p = None THEN "insert" ELSE "exists", !.op = "create",
                    !.salon = s, !.set = Cards!Columns,
                    !.want = [salon |-> s, full_name |-> n, phone |-> p, gender |-> g,
                              notes |-> note]]
  <2>1. x.op = "create" /\ x.pc # "emit"
    BY DEF Cards!New
  <2>2. customerTxn' = [customerTxn EXCEPT ![r] = x]
    BY <1>2 DEF Cards!CreateCustomer
  <2> HIDE DEF x, Goal
  <2>3. QED
    BY <1>1, <2>1, <2>2 DEF Listing
<1>3. ASSUME NEW s, NEW n, NEW p, NEW g, Cards!CreateWalkInCustomer(r, s, n, p, g) PROVE Goal
  BY <1>2, <1>3 DEF Cards!CreateWalkInCustomer
<1>4. ASSUME NEW s, NEW p, Cards!Lookup(r, s, p) PROVE Goal
  <2>1. PICK a \in {"TooManyLoginAttempts", Cards!Identify(s, p)} :
          customerTxn' = [customerTxn EXCEPT ![r] =
                          [Cards!New EXCEPT !.pc = "done", !.op = "lookup", !.salon = s,
                                                !.want.phone = p, !.answer = a]]
    BY <1>4 DEF Cards!Lookup
  <2> DEFINE x == [Cards!New EXCEPT !.pc = "done", !.op = "lookup", !.salon = s,
                              !.want.phone = p, !.answer = a]
  <2>2. x.op = "lookup" /\ x.pc # "emit"
    BY DEF Cards!New
  <2>3. QED
    BY <1>1, <2>1, <2>2 DEF Listing
<1>5. ASSUME NEW s, NEW c, Cards!GetCustomer(r, s, c) PROVE Goal
  <2> DEFINE x == [Cards!New EXCEPT !.pc = "done", !.op = "get", !.salon = s,
                    !.answer = IF customers[c].salon = s THEN "ok" ELSE "CustomerNotFound"]
  <2>1. x.op = "get" /\ x.pc # "emit" /\ customerTxn' = [customerTxn EXCEPT ![r] = x]
    BY <1>5 DEF Cards!New, Cards!GetCustomer
  <2> HIDE DEF x
  <2>2. QED
    BY <1>1, <2>1 DEF Listing
<1>6. ASSUME NEW op \in Listing, NEW s \in Salons, NEW g, NEW q, NEW n \in Nat,
             Cards!List(r, op, s, g, q, n),
             n = IF op = "list" THEN Cardinality(Cards!Matching(s, g, q))
               ELSE Cardinality(Cards!CampaignsOf(s))
      PROVE  Goal
  <2> DEFINE x == [Cards!New EXCEPT !.pc = "count", !.op = op, !.salon = s,
                              !.want = [Cards!NoCard EXCEPT !.gender = g, !.full_name = q],
                              !.page = Cards!AtMost(n, CardsPage), !.since = Len(customerTrail)]
  <2>1. /\ x.op = op /\ x.pc = "count" /\ x.salon = s /\ x.want.gender = g /\ x.want.full_name = q
        /\ x.page = Cards!AtMost(n, CardsPage) /\ x.since = Len(customerTrail)
    BY DEF Cards!New, Cards!NoCard
  <2>2. /\ customerTxn' = [customerTxn EXCEPT ![r] = x]
        /\ UNCHANGED <<customers, campaigns, customerTrail>>
    BY <1>6 DEF Cards!List
  <2> HIDE DEF x
  <2>3. customerTxn'[r] = x
    BY <2>2 DEF CardInv, CardTypes
  <2>4. Cards!AtMost(n, CardsPage) <= n
    BY DEF Cards!AtMost, Cards!CardsAssumption
  <2>5. n = SizeNow(x)
    BY <1>6, <2>1 DEF SizeNow
  <2>6. SizeNow(customerTxn[r])' = SizeNow(x)
    BY <2>2, <2>3 DEF SizeNow, Cards!Matching, Cards!In, Cards!CampaignsOf
  <2>7. x.since <= Len(customerTrail')
    BY <2>1, <2>2 DEF CardInv, CardTypes, LogsTyped
  <2>8. QED
    BY <2>1, <2>3, <2>4, <2>5, <2>6, <2>7 DEF Covered
<1>7. ASSUME NEW s, NEW c, NEW n, NEW p, NEW g, Cards!UpdateCustomer(r, s, c, n, p, g)
      PROVE  Goal
  <2> DEFINE x == [Cards!New EXCEPT !.pc = "find", !.op = "update", !.salon = s, !.id = c,
                    !.want = [Cards!NoCard EXCEPT !.full_name = n, !.phone = p, !.gender = g]]
  <2>1. x.op = "update" /\ x.pc # "emit" /\ customerTxn' = [customerTxn EXCEPT ![r] = x]
    BY <1>7 DEF Cards!New, Cards!UpdateCustomer
  <2> HIDE DEF x
  <2>2. QED
    BY <1>1, <2>1 DEF Listing
<1>8. ASSUME NEW s, NEW c, NEW n, Cards!UpdateCustomerNote(r, s, c, n) PROVE Goal
  <2> DEFINE x == [Cards!New EXCEPT !.pc = "load", !.op = "note", !.salon = s, !.id = c,
                    !.want = [Cards!NoCard EXCEPT !.notes = n]]
  <2>1. x.op = "note" /\ x.pc # "emit" /\ customerTxn' = [customerTxn EXCEPT ![r] = x]
    BY <1>8 DEF Cards!New, Cards!UpdateCustomerNote
  <2> HIDE DEF x
  <2>2. QED
    BY <1>1, <2>1 DEF Listing
<1>9. ASSUME NEW s, NEW g, Cards!CreateCampaign(r, s, g) PROVE Goal
  <2> DEFINE x == [Cards!New EXCEPT !.pc = "emit", !.op = "campaign", !.salon = s,
                   !.want.gender = g,
                    !.total = Cardinality(Cards!Reachable(s, g, None))]
  <2>1. x.op = "campaign" /\ customerTxn' = [customerTxn EXCEPT ![r] = x]
    BY <1>9, CustomerSizes DEF Cards!New, Cards!CreateCampaign
  <2> HIDE DEF x
  <2>2. QED
    BY <1>1, <2>1 DEF Listing
<1>10. ASSUME NEW s \in Salons, NEW g, NEW q, Cards!ListSalonCustomers(r, s, g, q) PROVE Goal
  BY <1>6, <1>10, CardCounts, CustomerSizes DEF Cards!ListSalonCustomers, Listing, CardInv
<1>11. ASSUME NEW s \in Salons, Cards!ListSalonCampaigns(r, s) PROVE Goal
  BY <1>6, <1>11, CardCounts, CustomerSizes DEF Cards!ListSalonCampaigns, Listing, CardInv
<1>12. QED
  <2> HIDE DEF Goal
  <2>1. Goal
    BY <1>2, <1>3, <1>4, <1>5, <1>7, <1>8, <1>9, <1>10, <1>11
       DEF Cards!Receive, Cards!WalkIn, Cards!CreateOrList, Cards!GetOrEdit, Cards!Campaign
  <2>2. QED
    BY <2>1 DEF Goal

(* The statements after it: a total is counted at its commit, and what     *)
(* answers without counting lists nothing.                                 *)
LEMMA ServeCovers ==
  ASSUME Cards!CardsAssumption, CardInv, CoverInv, NEW r \in Requests,
         Cards!Serve(r) \/ Cards!Abort(r)
  PROVE  Covered(r)'
<1>1. /\ customerTxn[r] \in CardTxns /\ CardShape(customerTxn[r]) /\ Covered(r)
      /\ customerTxn \in [Requests -> CardTxns]
  BY DEF CardInv, CardTypes, CoverInv
<1>2. ASSUME NEW op, NEW n, Cards!Count(r, op, n), customerTxn[r].salon \in Salons,
             n = SizeNow(customerTxn[r]), customerTrail' = customerTrail
      PROVE  Covered(r)'
  <2> DEFINE x == [customerTxn[r] EXCEPT !.pc = "done", !.answer = "ok", !.total = n]
  <2>1. /\ x.op = customerTxn[r].op /\ x.pc = "done" /\ x.salon = customerTxn[r].salon
        /\ x.want = customerTxn[r].want
        /\ x.page = customerTxn[r].page /\ x.total = n /\ x.since = customerTxn[r].since
    BY <1>1 DEF CardTxns
  <2>2. customerTxn'[r] = x /\ customerTxn[r].pc = "count"
    BY <1>1, <1>2 DEF Cards!Count
  <2> HIDE DEF x
  <2>3. Renamed(customerTxn[r]) <=> Renamed(customerTxn[r])'
    BY <1>2, <2>1, <2>2 DEF Renamed, Cards!EditedSince
  <2>4. QED
    BY <1>1, <1>2, <2>1, <2>2, <2>3 DEF Covered
<1>3. CASE Cards!CountAll(r) \/ Cards!CountCampaigns(r)
  <2>1. customerTxn[r].pc = "count" /\ customerTxn[r].op \in Listing
    BY <1>3 DEF Cards!CountAll, Cards!CountCampaigns, Cards!Count, Listing
  <2>2. customerTxn[r].salon \in Salons
    BY <1>1, <2>1 DEF Covered
  <2>3. CASE Cards!CountAll(r)
    <3>1. customerTxn[r].op = "list"
      BY <2>3 DEF Cards!CountAll, Cards!Count
    <3>2. QED
      BY <1>2, <2>2, <2>3, <3>1, CustomerSizes DEF Cards!CountAll, Cards!Count, SizeNow
  <2>4. CASE Cards!CountCampaigns(r)
    <3>1. customerTxn[r].op = "campaigns"
      BY <2>4 DEF Cards!CountCampaigns, Cards!Count
    <3>2. QED
      BY <1>2, <2>2, <2>4, <3>1, CustomerSizes DEF Cards!CountCampaigns, Cards!Count, SizeNow
  <2>5. QED
    BY <1>3, <2>3, <2>4
<1>4. ASSUME customerTxn[r].op \notin Listing, customerTxn'[r].op = customerTxn[r].op,
             customerTxn'[r].pc # "emit"
      PROVE  Covered(r)'
  BY <1>4 DEF Covered
<1>5. ASSUME NEW a, Cards!Answer(r, a)
      PROVE  customerTxn'[r].op = customerTxn[r].op /\ customerTxn'[r].pc = "done"
  BY <1>1, <1>5 DEF Cards!Answer, Cards!New
<1>6. ASSUME NEW pc, Cards!Goto(r, pc)
      PROVE  customerTxn'[r].op = customerTxn[r].op /\ customerTxn'[r].pc = pc
  BY <1>1, <1>6 DEF Cards!Goto, CardTxns
<1>7. CASE Cards!Emit(r)
  BY <1>1, <1>4, <1>5, <1>7 DEF Cards!Emit, Covered, Listing
<1>8. CASE Cards!Abort(r)
  BY <1>1, <1>4, <1>5, <1>8 DEF Cards!Abort, Covered, Listing, CardShape, CardPcs
<1>9. CASE Cards!Commit(r)
  BY <1>1, <1>4, <1>5, <1>9 DEF Cards!Commit, Cards!Flushed, Listing, CardShape, CardPcs
<1>10. CASE Cards!PhoneExists(r) \/ Cards!Flush(r)
  BY <1>1, <1>4, <1>5, <1>6, <1>10 DEF Cards!PhoneExists, Cards!Flush, Listing, CardShape, CardPcs
<1>11. CASE Cards!Insert(r) \/ Cards!Find(r) \/ Cards!Load(r)
  <2>1. customerTxn[r].pc \in CardPcs
    BY <1>11 DEF Cards!Insert, Cards!Find, Cards!Load, CardPcs
  <2>2. customerTxn[r].op \notin Listing
    BY <1>1, <2>1 DEF CardShape, Listing
  <2>3. customerTxn'[r].op = customerTxn[r].op /\ customerTxn'[r].pc # "emit"
    <3>1. CASE \E a : Cards!Answer(r, a)
      BY <1>5, <3>1
    <3>2. CASE ~\E a : Cards!Answer(r, a)
      BY SMTT(30), <1>1, <1>11, <3>2 DEF Cards!Insert, Cards!Find, Cards!Load, CardTxns
    <3>3. QED
      BY <3>1, <3>2
  <2>4. QED
    BY <1>4, <2>2, <2>3
<1>12. QED
  BY <1>3, <1>7, <1>8, <1>9, <1>10, <1>11 DEF Cards!Serve

LEMMA CoverStep ==
  ASSUME Cards!CardsAssumption, CardInv, CoverInv, [Cards!Next]_Cards!vars
  PROVE  CoverInv'
<1> SUFFICES ASSUME NEW q \in Requests PROVE Covered(q)'
  BY DEF CoverInv
<1>1. customerTxn[q] \in CardTxns /\ Covered(q) /\ customerTxn \in [Requests -> CardTxns]
  BY DEF CardInv, CardTypes, CoverInv
<1>2. CASE customerTxn'[q] = customerTxn[q]
  <2> DEFINE x == customerTxn[q]
  <2>1. x.since \in Nat /\ x.page \in Nat /\ SizeNow(x) \in Nat
    BY <1>1, CardCounts DEF SizeNow, CardInv, CardTxns
  <2>2. Renamed(x) => Renamed(x)'
    BY <1>2, <2>1, LogGrows DEF Renamed
  <2>3. x.op \in Listing => x.since <= Len(customerTrail')
    BY <1>1, <2>1, LogGrows DEF Covered
  <2>4. ASSUME x.op \in Listing, x.pc = "count", x.page <= SizeNow(x)
        PROVE  x.page <= SizeNow(x)' \/ Renamed(x)'
    <3>1. x.salon \in Salons /\ x.since <= Len(customerTrail)
      BY <1>1, <2>4 DEF Covered
    <3>2. CASE \/ x.op = "campaigns" \/ (x.want.gender = None /\ x.want.full_name = None)
               \/ ~ \E r \in Requests : Cards!Commit(r) /\ customerTxn[r].op = "update"
      <4>1. SizeNow(x)' \in Nat /\ SizeNow(x) <= SizeNow(x)'
        <5>1. CASE x.op = "campaigns"
          BY <1>2, <3>1, <5>1, NothingLeaves DEF SizeNow
        <5>2. CASE x.op # "campaigns"
          BY <1>2, <2>4, <3>1, <3>2, <5>2, NothingLeaves DEF SizeNow, Listing
        <5>3. QED
          BY <5>1, <5>2
      <4>2. QED
        BY <2>1, <2>4, <4>1
    <3>3. CASE /\ x.op = "list" /\ (x.want.gender # None \/ x.want.full_name # None)
               /\ \E r \in Requests : Cards!Commit(r) /\ customerTxn[r].op = "update"
      BY <1>2, <2>1, <3>1, <3>3, LogGrows DEF Renamed
    <3>4. QED
      BY <2>4, <3>2, <3>3 DEF Listing
  <2>5. QED
    BY <1>1, <1>2, <2>2, <2>3, <2>4 DEF Covered
<1>3. CASE customerTxn'[q] # customerTxn[q]
  <2>1. PICK r \in Requests : Cards!Receive(r) \/ Cards!Serve(r) \/ Cards!Abort(r)
    BY <1>3 DEF Cards!Next, Cards!vars
  <2>2. q = r
    BY <1>3, <2>1, CardMovesAlone
  <2>3. QED
    BY <2>1, <2>2, ReceiveCovers, ServeCovers
<1>4. QED
  BY <1>2, <1>3

(* The total shown with a page of cards or of campaigns is at least what   *)
(* the page holds, unless the page is filtered on the gender or the name   *)
(* and an edit was committed between the two statements.                   *)
THEOREM CustomersTotalCoversPage ==
  ASSUME Cards!CardsAssumption
  PROVE  Cards!Spec => []Cards!TotalCoversPage
<1>1. Cards!Init => CoverInv
  BY DEF Cards!Init, CoverInv, Covered, Cards!New, Listing
<1>2. CardInv /\ CoverInv /\ [Cards!Next]_Cards!vars => CoverInv'
  BY CoverStep
<1>3. CoverInv => Cards!TotalCoversPage
  BY DEF CoverInv, Covered, Cards!TotalCoversPage, Listing, Renamed, Cards!Filtered
<1>4. QED
  BY <1>1, <1>2, <1>3, CardAlways, PTL DEF Cards!Spec

-----------------------------------------------------------------------------
(* Types.                                                                  *)

(* A campaign counts cards there are.                                      *)
NamesCards ==
  /\ \A r \in Requests : customerTxn[r].pc = "emit" =>
       customerTxn[r].total <= Cardinality(Customers)
  /\ \A i \in DOMAIN campaigns : campaigns[i].recipients \in 0 .. Cardinality(Customers)

LEMMA ReachableAreCards ==
  ASSUME Cards!CardsAssumption, NEW s, NEW g
  PROVE  Cardinality(Cards!Reachable(s, g, None)) <= Cardinality(Customers)
<1>1. Cards!Reachable(s, g, None) \subseteq Customers
  BY DEF Cards!Reachable, Cards!Matching, Cards!In
<1>2. QED
  BY <1>1, FS_Subset, CustomerSizes DEF Cards!CardsAssumption

LEMMA NamesCardsStep ==
  ASSUME Cards!CardsAssumption, CardInv, NamesCards, [Cards!Next]_Cards!vars
  PROVE  NamesCards'
<1>1. /\ customerTxn \in [Requests -> CardTxns] /\ (\A r \in Requests : CardShape(customerTxn[r]))
      /\ LogsTyped
  BY DEF CardInv, CardTypes
<1>2. CASE UNCHANGED Cards!vars
  BY <1>2 DEF NamesCards, Cards!vars
<1>3. ASSUME NEW r \in Requests, Cards!Receive(r) \/ Cards!Serve(r) \/ Cards!Abort(r)
      PROVE  NamesCards'
  <2>1. \A q \in Requests : customerTxn'[q].pc = "emit" =>
          customerTxn'[q].total <= Cardinality(Customers)
    <3>1. CASE Cards!Receive(r)
      <4>1. PICK x : /\ customerTxn' = [customerTxn EXCEPT ![r] = x]
                     /\ x.pc = "emit" =>
                          \E s, g : x.total = Cardinality(Cards!Reachable(s, g, None))
        BY <3>1, CardReceiveReads
      <4>2. x.pc = "emit" => x.total <= Cardinality(Customers)
        BY <4>1, ReachableAreCards
      <4>3. QED
        BY <1>1, <4>1, <4>2 DEF NamesCards
    <3>2. CASE Cards!Serve(r) \/ Cards!Abort(r)
      <4>1. customerTxn'[r].pc # "emit"
        <5>1. CASE \E a : Cards!Answer(r, a)
          <6>1. PICK a : Cards!Answer(r, a)
            BY <5>1
          <6> DEFINE x == [Cards!New EXCEPT !.pc = "done", !.op = customerTxn[r].op,
                           !.salon = customerTxn[r].salon,
                             !.want.phone = customerTxn[r].want.phone, !.page = customerTxn[r].page,
                             !.total = customerTxn[r].total, !.answer = a]
          <6>2. x.pc = "done"
            BY DEF Cards!New
          <6>3. customerTxn' = [customerTxn EXCEPT ![r] = x]
            BY <6>1 DEF Cards!Answer
          <6> HIDE DEF x
          <6>4. QED
            BY <1>1, <6>2, <6>3
        <5>2. CASE ~\E a : Cards!Answer(r, a)
          <6>1. CASE Cards!Abort(r) \/ Cards!Commit(r) \/ Cards!Emit(r)
            BY <5>2, <6>1 DEF Cards!Abort, Cards!Commit, Cards!Emit
          <6>2. CASE Cards!PhoneExists(r)
            BY <1>1, <5>2, <6>2 DEF Cards!PhoneExists, Cards!Goto, CardTxns
          <6>3. CASE Cards!Insert(r)
            BY <1>1, <5>2, <6>3 DEF Cards!Insert, CardTxns
          <6>4. CASE Cards!Find(r)
            BY <1>1, <5>2, <6>4 DEF Cards!Find, CardTxns
          <6>5. CASE Cards!Load(r)
            BY <1>1, <5>2, <6>5 DEF Cards!Load, CardTxns
          <6>6. CASE Cards!Flush(r)
            BY <1>1, <5>2, <6>6 DEF Cards!Flush, Cards!Goto, CardTxns
          <6>7. CASE Cards!CountAll(r) \/ Cards!CountCampaigns(r)
            <7>1. PICK op, n : Cards!Count(r, op, n)
              BY <6>7 DEF Cards!CountAll, Cards!CountCampaigns
            <7>2. QED
              BY <1>1, <7>1 DEF Cards!Count, CardTxns
          <6>8. QED
            BY <3>2, <6>1, <6>2, <6>3, <6>4, <6>5, <6>6, <6>7 DEF Cards!Serve
        <5>3. QED
          BY <5>1, <5>2
      <4>2. QED
        BY <1>3, <4>1, CardMovesAlone DEF NamesCards
    <3>3. QED
      BY <1>3, <3>1, <3>2
  <2>2. \A i \in DOMAIN campaigns' : campaigns'[i].recipients \in 0 .. Cardinality(Customers)
    <3>1. CASE campaigns' = campaigns
      BY <3>1 DEF NamesCards
    <3>2. ASSUME NEW q \in Requests, Cards!Emit(q)
          PROVE  \A i \in DOMAIN campaigns' : campaigns'[i].recipients
                   \in 0 .. Cardinality(Customers)
      <4> DEFINE row == [salon |-> customerTxn[q].salon, segment |-> customerTxn[q].want.gender,
                         recipients |-> customerTxn[q].total, status |-> "PENDING"]
      <4>1. campaigns' = Append(campaigns, row) /\ customerTxn[q].pc = "emit"
        BY <3>2 DEF Cards!Emit
      <4>2. row.recipients \in 0 .. Cardinality(Customers)
        BY <1>1, <4>1, FS_CardinalityType DEF NamesCards, CardTxns, Cards!CardsAssumption
      <4> HIDE DEF row
      <4>3. QED
        BY <1>1, <4>1, <4>2 DEF NamesCards, LogsTyped
    <3>3. QED
      BY <3>1, <3>2, CardWriters
  <2>3. QED
    BY <2>1, <2>2 DEF NamesCards
<1>4. QED
  BY <1>2, <1>3 DEF Cards!Next

(* The cards, the requests, the campaigns and the lines of the log are of  *)
(* their types: a campaign counts no more recipients than there are cards, *)
(* and a line names a card or none.                                        *)
THEOREM CustomersTyped == ASSUME Cards!CardsAssumption PROVE Cards!Spec => []Cards!TypeOK
<1>1. Cards!Init => NamesCards
  BY DEF Cards!Init, NamesCards, Cards!New
<1>2. CardInv /\ NamesCards /\ [Cards!Next]_Cards!vars => NamesCards'
  BY NamesCardsStep
<1>3. CardInv /\ NamesCards => Cards!TypeOK
  <2> SUFFICES ASSUME CardInv, NamesCards PROVE Cards!TypeOK
    OBVIOUS
  <2>1. \A i \in DOMAIN customerTrail : customerTrail[i].id \in Customers \cup {None}
    <3>1. \A i \in DOMAIN customerTrail : customerTrail[i] \in CardLines
      BY DEF CardInv, CardTypes, LogsTyped
    <3>2. QED
      BY <3>1 DEF CardLines
  <2>2. \A r \in Requests : /\ customerTxn[r].want \in Cards!Card
                            /\ customerTxn[r].set \subseteq Cards!Columns
                            /\ customerTxn[r].answer \in Cards!Refusals \cup {None, "ok", "error"}
    BY DEF CardInv, CardTypes, CardTxns
  <2>3. QED
    BY <2>1, <2>2, CustomerSizes DEF CardInv, CardTypes, NamesCards, Cards!TypeOK
<1>4. QED
  BY <1>1, <1>2, <1>3, CardAlways, PTL DEF Cards!Spec

-----------------------------------------------------------------------------
(* The office.  What a step of it does at a desk is a step of that desk    *)
(* and leaves the others as they are, so that a behaviour of the office is *)
(* one of each of them.                                                    *)

LEMMA OfficeSteps ==
  ASSUME [OfficeNext]_officeVars
  PROVE  /\ [Cards!Next]_Cards!vars
         /\ [Media!Next]_Media!vars
         /\ [Opening!Next]_Opening!vars
         /\ [Catalogue!Next]_Catalogue!vars
         /\ [Next]_vars
<1>1. ASSUME UNCHANGED customerVars PROVE UNCHANGED Cards!vars
  BY <1>1 DEF Cards!vars, customerVars
<1>2. ASSUME UNCHANGED mediaVars PROVE UNCHANGED Media!vars
  BY <1>2 DEF Media!vars, mediaVars
<1>3. ASSUME UNCHANGED hoursVars PROVE UNCHANGED Opening!vars
  BY <1>3 DEF Opening!vars, hoursVars
<1>4. ASSUME UNCHANGED catalogueVars PROVE UNCHANGED Catalogue!vars
  BY <1>4 DEF Catalogue!vars, catalogueVars
<1>5. CASE OfficeNext
  <2>1. \/ Cards!Next /\ UNCHANGED <<mediaVars, hoursVars, catalogueVars, vars>>
        \/ Media!Next /\ UNCHANGED <<customerVars, hoursVars, catalogueVars, vars>>
        \/ Opening!Next /\ UNCHANGED <<customerVars, mediaVars, catalogueVars, vars>>
        \/ Catalogue!Next /\ UNCHANGED <<customerVars, mediaVars, hoursVars, vars>>
        \/ Next /\ UNCHANGED <<customerVars, mediaVars, hoursVars, catalogueVars>>
    BY <1>5 DEF OfficeNext, Rest
  <2>2. QED
    BY <1>1, <1>2, <1>3, <1>4, <2>1
<1>6. CASE UNCHANGED officeVars
  BY <1>1, <1>2, <1>3, <1>4, <1>6 DEF officeVars
<1>7. QED
  BY <1>5, <1>6

(* What a customer, the media, the hours, the catalogue and the staff of a *)
(* salon can do does not depend on the other desks: the office implements  *)
(* each of the five specifications.                                        *)
THEOREM OfficeIsItsDesks ==
  OfficeSpec =>
    Cards!Spec /\ Media!Spec /\ Opening!Spec /\ Catalogue!Spec /\ Spec
<1>1. OfficeInit => /\ Cards!Init /\ Media!Init /\ Opening!Init
                    /\ Catalogue!Init /\ Init
  BY DEF OfficeInit
<1>2. QED
  BY <1>1, OfficeSteps, PTL
     DEF OfficeSpec, Cards!Spec, Media!Spec, Opening!Spec, Catalogue!Spec, Spec

(* Whatever commits at a desk, the rows it holds are of their types: a     *)
(* salon and a service are what the forms accept, a picture has a key of   *)
(* its gallery's kind and a position below the maximum, a campaign counts  *)
(* cards there are.                                                        *)
THEOREM OfficeTyped == OfficeSpec => []TypesOK
<1>1. Cards!TypeOK /\ MediaSafe /\ CatalogueInv /\ TypeOK => TypesOK
  BY OfficeAssumption, MediaTyped, CatalogueTyped DEF TypesOK
<1>2. QED
  BY <1>1, OfficeIsItsDesks, OfficeAssumption, CustomersTyped, MediaAlways, CatalogueAlways,
     StaffTypeOK, PTL

(* A telephone that is set is not replaced behind the check of an edit, a  *)
(* refusal for a telephone names a card the kiosk will find, and no two    *)
(* cards of a salon carry one telephone.  A page of cards or of campaigns  *)
(* is shown with a total below its size only if an edit of a card came     *)
(* between the two statements that read them, and the page is filtered on  *)
(* what it may change (ListSalonCustomers, ListCampaigns).                 *)
THEOREM OfficeCardsHold == OfficeSpec => CardsHold
<1>1. OfficeSpec => Cards!PhonesHold
  BY OfficeIsItsDesks, OfficeAssumption, CustomersPhonesHold
<1>2. OfficeSpec => Cards!TotalsCoverPages
  BY OfficeIsItsDesks, OfficeAssumption, CustomersTotalCoversPage, PTL DEF Cards!TotalsCoverPages
<1>3. QED
  BY <1>1, <1>2 DEF CardsHold, Cards!CardsHold

(* Every picture that a row or a request refers to is an object of the     *)
(* bucket, unless a request has let it go and not committed yet: the       *)
(* clean-up that runs before the commit deletes nothing that stays.        *)
THEOREM OfficeObjectsExist == OfficeSpec => []ReferencedObjectsExist
<1>1. MediaSafe => ReferencedObjectsExist
  BY OfficeAssumption, MediaExists DEF ReferencedObjectsExist
<1>2. QED
  BY <1>1, OfficeIsItsDesks, OfficeAssumption, MediaAlways, PTL

(* A gallery outgrows its maximum only by an addition that counted it      *)
(* before another one committed.                                           *)
THEOREM OfficePhotosLimited == OfficeSpec => PhotosWithinLimit
  BY OfficeIsItsDesks, OfficeAssumption, MediaLimited DEF PhotosWithinLimit

(* The hours that are kept say what the body that was accepted said, and   *)
(* disagree with no body that was refused; the slots that are offered are  *)
(* open, free and to come, and none is missing.                            *)
THEOREM OfficeHoursHonoured == OfficeSpec => []HoursAreHonoured
<1>1. HoursInv => HoursAreHonoured
  BY OfficeAssumption, HoursSay, SlotsFree DEF HoursAreHonoured
<1>2. QED
  BY <1>1, OfficeIsItsDesks, HoursAlways, PTL

(* An edit of a salon or of a service writes what its form asked and       *)
(* nothing else, and its line of the log names every column it changed.    *)
THEOREM OfficeEditsTakeEffect == OfficeSpec => EditsTakeEffect
  BY OfficeIsItsDesks, OfficeAssumption, CatalogueTakesEffect, CatalogueLogs DEF EditsTakeEffect

(* The guards of the staff hold in the office: an account whose access was *)
(* withdrawn gets nothing, a salon's people are changed by its owner only, *)
(* and the log says who may be booked.                                     *)
THEOREM OfficeStaffGuarded ==
  OfficeSpec => []WithdrawalIsImmediate /\ SalonsAreIsolated /\ AuditTellsAvailability
  BY OfficeIsItsDesks, WithdrawalHolds, SalonsStayIsolated, AuditIsTrue
=============================================================================
