---------------------------- MODULE SalonCatalogue ----------------------------
(***************************************************************************)
(* The salons and their services: CreateSalon, UpdateSalon and             *)
(* SetOpeningHours (application/salons.py), CreateService, UpdateService,  *)
(* DeactivateService and ReactivateService (application/services.py) and   *)
(* the public search (SearchSalons, application/catalog.py), over          *)
(* salon_repository.py, service_repository.py, salon_catalog_repository.py.*)
(*                                                                         *)
(* A request is one transaction at READ COMMITTED, one action one of its   *)
(* statements or the commit; salons and services hold committed rows.      *)
(* SQLAlchemy writes the columns that differ from the row it loaded last.  *)
(* A salon has its name, a city (the rest of its address goes through the  *)
(* same statements) and its hours; a service its name (with description    *)
(* and category), its price and its duration.  See SalonMedia for the      *)
(* logo, OpeningHours for the hours and SalonStaff for the guards.         *)
(***************************************************************************)
EXTENDS Integers, Sequences, FiniteSets

CONSTANTS
  Requests,          \* bound: the requests of a behaviour
  Salons, Services,  \* bound: rows, those at first and one for each creation
  Salon0, Service0,  \* row -> its columns at first
  Names, Blank,      \* names that are accepted, and one that is not
  Cities, Hours,
  Prices, Durations, \* bound: values asked for
  PriceMax, DurationMax, \* _PRICE_MAX, _DURATION_MAX_MINUTES
  PageSize,          \* limit of a page of the search
  None

VARIABLES
  salons,    \* salons: id -> row
  services,  \* services: id -> row
  trail,     \* audit_logs: the lines about salons and services, in order
  txn        \* request -> program counter and local values

vars == <<salons, services, trail, txn>>

SalonForm   == {"name", "city"}
ServiceForm == {"name", "price", "duration"}

NoSalon   == [name |-> None, city |-> None, status |-> None, opening_hours |-> None]
NoService == [salon |-> None, name |-> None, price |-> 0, duration |-> 0, is_active |-> FALSE]

New == [pc |-> "new", op |-> "none", kind |-> "none", salon |-> None, id |-> None,
        want |-> NoService, form |-> {}, seen |-> NoService, loaded |-> NoService,
        set |-> {}, changed |-> {}, page |-> 0, total |-> 0, answer |-> None]

Init ==
  /\ salons = [s \in Salons |-> IF s \in DOMAIN Salon0 THEN Salon0[s] ELSE NoSalon]
  /\ services = [s \in Services |-> IF s \in DOMAIN Service0 THEN Service0[s] ELSE NoService]
  /\ trail = <<>>
  /\ txn = [r \in Requests |-> New]

rows == <<salons, services>>

Row(r) == IF txn[r].kind = "salon" THEN salons[txn[r].id] ELSE services[txn[r].id]

(* The answer of a request, kept when everything else of it is gone.       *)
Answer(r, a) == txn' = [txn EXCEPT ![r] = [New EXCEPT !.pc = "done", !.answer = a]]

Refuse(r, a) == /\ txn[r].pc = "new"
                /\ Answer(r, a)
                /\ UNCHANGED <<rows, trail>>

Begin(r, local) == /\ txn[r].pc = "new"
                   /\ txn' = [txn EXCEPT ![r] = local]
                   /\ UNCHANGED <<rows, trail>>

(* What a request can be refused with.                                     *)
Refusals == {"InvalidSalonName", "SalonNotFound", "InvalidServiceName",
             "InvalidServicePrice", "InvalidServiceDuration", "ServiceNotFound"}

-----------------------------------------------------------------------------
ValidName(n)     == n # Blank
ValidPrice(p)    == p >= 0 /\ p <= PriceMax
ValidDuration(d) == d > 0 /\ d <= DurationMax

FaultUnpriced(n, p, d) ==                                           \* mutant
  IF ~ValidName(n) THEN "InvalidServiceName"
  ELSE IF ~ValidDuration(d) THEN "InvalidServiceDuration" ELSE None

(* _validate: nothing is read or written for a form that is not valid.     *)
Fault(n, p, d) ==
  IF ~ValidName(n) THEN "InvalidServiceName"
  ELSE IF ~ValidPrice(p) THEN "InvalidServicePrice"
  ELSE IF ~ValidDuration(d) THEN "InvalidServiceDuration" ELSE None

(* POST salons: active, without hours.                                     *)
CreateSalon(r, n, c) ==
  IF ~ValidName(n) THEN Refuse(r, "InvalidSalonName")
  ELSE Begin(r, [New EXCEPT !.pc = "insert", !.op = "create", !.kind = "salon",
                   !.want = [name |-> n, city |-> c, status |-> "ACTIVE",
                             opening_hours |-> None]])

(* PUT salons                                                              *)
UpdateSalon(r, s, n, c) ==
  IF ~ValidName(n) THEN Refuse(r, "InvalidSalonName")
  ELSE Begin(r, [New EXCEPT !.pc = "find", !.op = "update", !.kind = "salon", !.salon = s,
                   !.id = s, !.form = SalonForm,
                   !.want = [NoSalon EXCEPT !.name = n, !.city = c]])

(* PUT opening-hours, of hours that are valid.                             *)
SetOpeningHours(r, s, h) ==
  Begin(r, [New EXCEPT !.pc = "find", !.op = "hours", !.kind = "salon", !.salon = s,
              !.id = s, !.form = {"opening_hours"},
              !.want = [NoSalon EXCEPT !.opening_hours = h]])

(* POST services                                                           *)
CreateService(r, s, n, p, d) ==
  IF Fault(n, p, d) # None THEN Refuse(r, Fault(n, p, d))
  ELSE Begin(r, [New EXCEPT !.pc = "insert", !.op = "create", !.kind = "service", !.salon = s,
                   !.want = [salon |-> s, name |-> n, price |-> p, duration |-> d,
                             is_active |-> TRUE]])

(* PUT services                                                            *)
UpdateService(r, s, id, n, p, d) ==
  IF Fault(n, p, d) # None THEN Refuse(r, Fault(n, p, d))
  ELSE Begin(r, [New EXCEPT !.pc = "find", !.op = "update", !.kind = "service", !.salon = s,
                   !.id = id, !.form = ServiceForm,
                   !.want = [NoService EXCEPT !.name = n, !.price = p, !.duration = d]])

(* DELETE services, and POST services/reactivate                           *)
SetActive(r, op, s, id, active) ==
  Begin(r, [New EXCEPT !.pc = "find", !.op = op, !.kind = "service", !.salon = s,
              !.id = id, !.form = {"is_active"}, !.want = [NoService EXCEPT !.is_active = active]])

DeactivateService(r, s, id) == SetActive(r, "deactivate", s, id, FALSE)
ReactivateService(r, s, id) == SetActive(r, "reactivate", s, id, TRUE)

-----------------------------------------------------------------------------
Absent(r) == IF txn[r].kind = "salon" THEN Row(r) = NoSalon
             ELSE Row(r).salon # txn[r].salon
NotFound(r) == IF txn[r].kind = "salon" THEN "SalonNotFound" ELSE "ServiceNotFound"

Differing(r, row) == {k \in txn[r].form : row[k] # txn[r].want[k]}

FindForgetful(r) ==                                                 \* mutant
  /\ txn[r].pc = "find"
  /\ IF Absent(r) THEN Answer(r, NotFound(r))
     ELSE txn' = [txn EXCEPT ![r].pc = "load", ![r].seen = Row(r),
                    ![r].changed = IF txn[r].op = "update"
                                   THEN Differing(r, Row(r)) \ {"price"} ELSE {}]
  /\ UNCHANGED <<rows, trail>>

(* find_by_id, and the names of the columns that will have changed, for    *)
(* the line of the log (_changed_fields).                                  *)
Find(r) ==
  /\ txn[r].pc = "find"
  /\ IF Absent(r) THEN Answer(r, NotFound(r))
     ELSE txn' = [txn EXCEPT ![r].pc = "load", ![r].seen = Row(r),
                    ![r].changed = IF txn[r].op = "update" THEN Differing(r, Row(r)) ELSE {}]
  /\ UNCHANGED <<rows, trail>>

LoadSeen(r) ==                                                      \* mutant
  /\ txn[r].pc = "load"
  /\ txn' = [txn EXCEPT ![r].pc = "flush", ![r].loaded = Row(r),
                        ![r].set = Differing(r, txn[r].seen)]
  /\ UNCHANGED <<rows, trail>>

(* The SELECT of update, set_active and set_opening_hours: the columns of  *)
(* the form that differ from the row will be written.                      *)
Load(r) ==
  /\ txn[r].pc = "load"
  /\ txn' = [txn EXCEPT ![r].pc = "flush", ![r].loaded = Row(r),
                        ![r].set = Differing(r, Row(r))]
  /\ UNCHANGED <<rows, trail>>

(* The UPDATE, if a column changes: it waits for another one of the row.   *)
Holders(r) == {q \in Requests : /\ txn[q].pc = "flushed" /\ txn[q].set # {}
                                /\ txn[q].kind = txn[r].kind /\ txn[q].id = txn[r].id}

Flush(r) ==
  /\ txn[r].pc = "flush"
  /\ txn[r].set # {} => Holders(r) = {}
  /\ txn' = [txn EXCEPT ![r].pc = "flushed"]
  /\ UNCHANGED <<rows, trail>>

FreshSalon   == {s \in Salons : salons[s] = NoSalon /\ \A q \in Requests : txn[q].id # s}
FreshService == {s \in Services : services[s] = NoService /\ \A q \in Requests : txn[q].id # s}

Insert(r) ==
  LET fresh == IF txn[r].kind = "salon" THEN FreshSalon ELSE FreshService
  IN /\ txn[r].pc = "insert" /\ fresh # {}
     /\ txn' = [txn EXCEPT ![r].pc = "flushed", ![r].id = CHOOSE s \in fresh : TRUE]
     /\ UNCHANGED <<rows, trail>>

(* The line of the log (a salon that is created and hours have none) and   *)
(* the commit.                                                             *)
Logged(r) == txn[r].kind = "service" \/ txn[r].op = "update"

Written(r) == IF txn[r].op = "create" THEN txn[r].want
              ELSE [k \in DOMAIN Row(r) |-> IF k \in txn[r].set THEN txn[r].want[k] ELSE Row(r)[k]]

Commit(r) ==
  /\ txn[r].pc = "flushed"
  /\ IF txn[r].kind = "salon"
     THEN salons' = [salons EXCEPT ![txn[r].id] = Written(r)] /\ UNCHANGED services
     ELSE services' = [services EXCEPT ![txn[r].id] = Written(r)] /\ UNCHANGED salons
  /\ trail' = IF Logged(r)
              THEN Append(trail, [action |-> txn[r].op, id |-> txn[r].id,
                                  changed |-> txn[r].changed])
              ELSE trail
  /\ Answer(r, "ok")

Abort(r) ==
  /\ txn[r].pc \in {"insert", "flush", "flushed"}
  /\ Answer(r, "error")
  /\ UNCHANGED <<rows, trail>>

-----------------------------------------------------------------------------
(* GET catalog/salons: a page of the active salons of a city, then how     *)
(* many they are.  One may be booked once it has hours (is_bookable).      *)
Active(c)     == {s \in Salons : salons[s].status = "ACTIVE" /\ (c = None \/ salons[s].city = c)}
IsBookable(s) == salons[s].status = "ACTIVE" /\ salons[s].opening_hours # None
AtMost(n, k)  == IF n <= k THEN n ELSE k

SearchSalons(r, c) ==
  Begin(r, [New EXCEPT !.pc = "count", !.op = "search", !.want = [NoSalon EXCEPT !.city = c],
                       !.page = AtMost(Cardinality(Active(c)), PageSize)])

CountActive(r) ==
  /\ txn[r].pc = "count"
  /\ txn' = [txn EXCEPT ![r].pc = "done", ![r].answer = "ok",
                        ![r].total = Cardinality(Active(txn[r].want.city))]
  /\ UNCHANGED <<rows, trail>>

(* GET services: of the salon, with those that are not active or without.  *)
ListSalonServices(s, all) ==
  {id \in Services : services[id].salon = s /\ (all \/ services[id].is_active)}

ListServices(r, s, all) ==
  Begin(r, [New EXCEPT !.pc = "done", !.op = "list", !.answer = "ok",
                       !.total = Cardinality(ListSalonServices(s, all))])

GetService(r, s, id) ==
  Begin(r, [New EXCEPT !.pc = "done", !.op = "get",
              !.answer = IF services[id].salon = s THEN "ok" ELSE "ServiceNotFound"])

-----------------------------------------------------------------------------
OnSalon(r) ==
  \/ \E n \in Names \cup {Blank}, c \in Cities :
       CreateSalon(r, n, c) \/ \E s \in DOMAIN Salon0 : UpdateSalon(r, s, n, c)
  \/ \E s \in DOMAIN Salon0, h \in Hours : SetOpeningHours(r, s, h)
  \/ \E c \in Cities \cup {None} : SearchSalons(r, c)

OnService(r) ==
  \E s \in DOMAIN Salon0 :
    \/ \E n \in Names \cup {Blank}, p \in Prices, d \in Durations :
         \/ CreateService(r, s, n, p, d)
         \/ \E id \in DOMAIN Service0 : UpdateService(r, s, id, n, p, d)
    \/ \E id \in DOMAIN Service0 :
         DeactivateService(r, s, id) \/ ReactivateService(r, s, id) \/ GetService(r, s, id)
    \/ \E all \in BOOLEAN : ListServices(r, s, all)

Serve(r) == Find(r) \/ Load(r) \/ Flush(r) \/ Insert(r) \/ Commit(r) \/ CountActive(r)

Next == \E r \in Requests : OnSalon(r) \/ OnService(r) \/ Serve(r) \/ Abort(r)

Spec == Init /\ [][Next]_vars

-----------------------------------------------------------------------------
SalonFits(row) ==
  /\ DOMAIN row = DOMAIN NoSalon /\ row.status # None
  /\ row.name \in Names /\ row.city \in Cities

ServiceFits(row) ==
  /\ DOMAIN row = DOMAIN NoService /\ row.salon \in Salons
  /\ ValidPrice(row.price) /\ ValidDuration(row.duration)

(* What the proofs take of the constants.                                  *)
CatalogueAssumption ==
  /\ DOMAIN Salon0 \subseteq Salons /\ DOMAIN Service0 \subseteq Services
  /\ \A s \in DOMAIN Salon0 : SalonFits(Salon0[s])
  /\ \A id \in DOMAIN Service0 : ServiceFits(Service0[id])
  /\ None \notin Salons \cup Refusals \cup {"ok", "error", "ACTIVE"}

TypeOK ==
  /\ \A s \in Salons : salons[s] = NoSalon \/ SalonFits(salons[s])
  /\ \A id \in Services : services[id] = NoService \/ ServiceFits(services[id])
  /\ \A r \in Requests : txn[r].answer \in Refusals \cup {None, "ok", "error"}

Commits(r) == txn[r].pc = "flushed" /\ txn'[r].answer = "ok" /\ txn[r].op # "create"
After(r)   == IF txn[r].kind = "salon" THEN salons'[txn[r].id] ELSE services'[txn[r].id]

(* An edit that is answered has taken effect: the row holds what its form  *)
(* asked for, and nothing else of it changed, unless another edit of the   *)
(* row committed between the SELECT and the commit of this one.  An edit   *)
(* writes less than its form ("replace"), and the hours, the activation    *)
(* and the identity of a row are written by requests that cross.           *)
EditsTakeEffect ==
  [][\A r \in Requests : Commits(r) =>
       /\ txn[r].loaded = Row(r) => \A k \in txn[r].form : After(r)[k] = txn[r].want[k]
       /\ \A k \in DOMAIN Row(r) \ txn[r].form : After(r)[k] = Row(r)[k]]_vars

(* A column of a service or a salon that an edit changes is named by the   *)
(* line it leaves in the log (services.py, "modification journalisee"),    *)
(* unless another edit committed after the SELECT the line was made from.  *)
ChangesAreLogged ==
  [][\A r \in Requests :
       Commits(r) /\ txn[r].op = "update" /\ txn[r].seen = Row(r) =>
         {k \in DOMAIN Row(r) : After(r)[k] # Row(r)[k]} \subseteq trail'[Len(trail')].changed]_vars
=============================================================================
