---------------------------- MODULE SalonCustomers ----------------------------
(***************************************************************************)
(* The customer cards of the salons: CreateCustomer, UpdateCustomer,       *)
(* UpdateCustomerNote and the reads of application/customers.py, the kiosk *)
(* that looks a card up and creates one (application/terminal_customers.py)*)
(* and the campaigns that count them (application/campaigns.py), over      *)
(* customer_repository.py and campaign_repository.py.                      *)
(*                                                                         *)
(* A request is one transaction at READ COMMITTED.  One action is one      *)
(* statement or the commit; customers and campaigns hold committed rows    *)
(* only.  SQLAlchemy writes the columns that differ from the row it loaded *)
(* last, and no others.  What a card says of the person is the name, the   *)
(* telephone, the gender and the note.                                     *)
(* The guards of the routes are modelled in SalonStaff.                    *)
(***************************************************************************)
EXTENDS Integers, Sequences, FiniteSets

CONSTANTS
  Requests,   \* bound: the requests of a behaviour
  Salons,
  Customers,  \* bound: cards, at least those at first and one for each request
  FullNames, Phones, Genders, Notes,
  Card0,      \* card -> its row at first
  PageSize,   \* limit of a page of the list
  None

VARIABLES
  customers,  \* customer_profiles: card -> row
  campaigns,  \* campaigns: their rows, in order
  trail,      \* audit_logs: the lines about cards and campaigns, in order
  txn         \* request -> program counter and local values

vars == <<customers, campaigns, trail, txn>>

Identity == {"full_name", "phone", "gender"}
Columns  == Identity \cup {"notes"}
NoCard   == [salon |-> None, full_name |-> None, phone |-> None, gender |-> None, notes |-> None]
New      == [pc |-> "new", op |-> "none", salon |-> None, id |-> None, want |-> NoCard,
             seen |-> NoCard, set |-> {}, changed |-> {}, page |-> 0, total |-> 0,
             since |-> 0, answer |-> None]

Init ==
  /\ customers = [c \in Customers |-> IF c \in DOMAIN Card0 THEN Card0[c] ELSE NoCard]
  /\ campaigns = <<>> /\ trail = <<>>
  /\ txn = [r \in Requests |-> New]

Goto(r, pc) == txn' = [txn EXCEPT ![r].pc = pc]

(* The answer of a request, kept when everything else of it is gone.       *)
Answer(r, a) == txn' = [txn EXCEPT ![r] =
                  [New EXCEPT !.pc = "done", !.op = txn[r].op, !.salon = txn[r].salon,
                              !.want.phone = txn[r].want.phone, !.page = txn[r].page,
                              !.total = txn[r].total, !.answer = a]]

(* What a request can be refused with.                                     *)
Refusals == {"CustomerNotFound", "CustomerAlreadyExists", "CustomerPhoneLocked",
             "TooManyLoginAttempts"}

In(s)         == {c \in Customers : customers[c].salon = s}
Carrier(s, p) == {c \in In(s) : customers[c].phone = p}

(* The filter of the list: what is given of a gender g and of a pattern of *)
(* names, which is here the one name q that it matches.  A card is created *)
(* once, so that the dates of creation are left out of the filter.         *)
Matching(s, g, q) == {c \in In(s) : /\ g = None \/ customers[c].gender = g
                                    /\ q = None \/ customers[c].full_name = q}
Reachable(s, g, q) == {c \in Matching(s, g, q) : customers[c].phone # None}

-----------------------------------------------------------------------------
(* Locks of rows and of entries of the unique index (salon_id, phone):     *)
(* held from the statement that writes to the end of the transaction.      *)
Flushed(r)      == txn[r].pc = "flushed"
RowHolders(c)   == {q \in Requests : Flushed(q) /\ txn[q].id = c /\ txn[q].set # {}}
EntryHolders(s, p) == {q \in Requests : /\ Flushed(q) /\ "phone" \in txn[q].set
                                        /\ txn[q].salon = s /\ txn[q].want.phone = p}

(* A statement that writes the telephone p waits for an uncommitted one    *)
(* that does, and fails if a committed card of the salon carries p.        *)
Undecided(r) == txn[r].want.phone # None
                /\ EntryHolders(txn[r].salon, txn[r].want.phone) \ {r} # {}
Duplicate(r) == txn[r].want.phone # None
                /\ Carrier(txn[r].salon, txn[r].want.phone) \ {txn[r].id} # {}

-----------------------------------------------------------------------------
(* POST customers                                                          *)
CreateCustomer(r, s, n, p, g, x) ==
  /\ txn[r].pc = "new"
  /\ txn' = [txn EXCEPT ![r] =
       [New EXCEPT !.pc = IF p = None THEN "insert" ELSE "exists", !.op = "create",
                   !.salon = s, !.set = Columns,
                   !.want = [salon |-> s, full_name |-> n, phone |-> p, gender |-> g,
                             notes |-> x]]]
  /\ UNCHANGED <<customers, campaigns, trail>>

(* POST terminal/customers: the telephone is required, no note is taken.   *)
CreateWalkInCustomer(r, s, n, p, g) == CreateCustomer(r, s, n, p, g, None)

(* phone_exists, for a creation or a first telephone.                      *)
PhoneExists(r) ==
  /\ txn[r].pc = "exists"
  /\ IF Carrier(txn[r].salon, txn[r].want.phone) # {}
     THEN Answer(r, "CustomerAlreadyExists")
     ELSE Goto(r, IF txn[r].op = "create" THEN "insert" ELSE "load")
  /\ UNCHANGED <<customers, campaigns, trail>>

Fresh == {c \in Customers : /\ customers[c] = NoCard
                            /\ \A q \in Requests : txn[q].id # c}

InsertImpatient(r) ==                                               \* mutant
  /\ txn[r].pc = "insert" /\ Fresh # {}
  /\ IF Duplicate(r) \/ Undecided(r) THEN Answer(r, "CustomerAlreadyExists")
     ELSE txn' = [txn EXCEPT ![r].pc = "flushed", ![r].id = CHOOSE c \in Fresh : TRUE]
  /\ UNCHANGED <<customers, campaigns, trail>>

(* SqlCustomerRepository.create                                            *)
Insert(r) ==
  /\ txn[r].pc = "insert" /\ ~Undecided(r) /\ Fresh # {}             \* bound
  /\ IF Duplicate(r) THEN Answer(r, "CustomerAlreadyExists")
     ELSE txn' = [txn EXCEPT ![r].pc = "flushed", ![r].id = CHOOSE c \in Fresh : TRUE]
  /\ UNCHANGED <<customers, campaigns, trail>>

-----------------------------------------------------------------------------
(* PATCH customers: the form holds every column of the identity.           *)
UpdateCustomer(r, s, c, n, p, g) ==
  /\ txn[r].pc = "new"
  /\ txn' = [txn EXCEPT ![r] =
       [New EXCEPT !.pc = "find", !.op = "update", !.salon = s, !.id = c,
                   !.want = [NoCard EXCEPT !.full_name = n, !.phone = p, !.gender = g]]]
  /\ UNCHANGED <<customers, campaigns, trail>>

FindUnlocked(r) ==                                                  \* mutant
  LET card == customers[txn[r].id]  want == txn[r].want
  IN /\ txn[r].pc = "find"
     /\ IF card.salon # txn[r].salon THEN Answer(r, "CustomerNotFound")
        ELSE txn' = [txn EXCEPT
               ![r].pc = IF want.phone \in {None, card.phone} THEN "load" ELSE "exists",
               ![r].seen = card,
               ![r].changed = {k \in Identity : card[k] # want[k]}]
     /\ UNCHANGED <<customers, campaigns, trail>>

(* find_by_id in the salon, the lock of a telephone that is set, and the   *)
(* names of the columns that will have changed.                            *)
Find(r) ==
  LET card == customers[txn[r].id]  want == txn[r].want
  IN /\ txn[r].pc = "find"
     /\ IF card.salon # txn[r].salon THEN Answer(r, "CustomerNotFound")
        ELSE IF card.phone \notin {None, want.phone} THEN Answer(r, "CustomerPhoneLocked")
        ELSE txn' = [txn EXCEPT
               ![r].pc = IF want.phone \in {None, card.phone} THEN "load" ELSE "exists",
               ![r].seen = card,
               ![r].changed = {k \in Identity : card[k] # want[k]}]
     /\ UNCHANGED <<customers, campaigns, trail>>

(* PUT customers/notes                                                     *)
UpdateCustomerNote(r, s, c, x) ==
  /\ txn[r].pc = "new"
  /\ txn' = [txn EXCEPT ![r] =
       [New EXCEPT !.pc = "load", !.op = "note", !.salon = s, !.id = c,
                   !.want = [NoCard EXCEPT !.notes = x]]]
  /\ UNCHANGED <<customers, campaigns, trail>>

(* The SELECT of update and update_notes: the columns of the form that     *)
(* differ from the row it loads will be written.                           *)
Form(r) == IF txn[r].op = "note" THEN {"notes"} ELSE Identity

Load(r) ==
  LET card == customers[txn[r].id]
  IN /\ txn[r].pc = "load"
     /\ IF card.salon # txn[r].salon THEN Answer(r, "CustomerNotFound")
        ELSE txn' = [txn EXCEPT ![r].pc = "flush",
                       ![r].set = {k \in Form(r) : card[k] # txn[r].want[k]}]
     /\ UNCHANGED <<customers, campaigns, trail>>

(* The UPDATE, if a column changes.                                        *)
Flush(r) ==
  /\ txn[r].pc = "flush"
  /\ txn[r].set # {} => RowHolders(txn[r].id) = {}
  /\ "phone" \in txn[r].set => ~Undecided(r)
  /\ IF "phone" \in txn[r].set /\ Duplicate(r) THEN Answer(r, "CustomerAlreadyExists")
     ELSE Goto(r, "flushed")
  /\ UNCHANGED <<customers, campaigns, trail>>

(* The line of the audit log and the commit.                               *)
Written(r) ==
  LET card == IF txn[r].op = "create" THEN txn[r].want ELSE customers[txn[r].id]
  IN [k \in DOMAIN NoCard |-> IF k \in txn[r].set THEN txn[r].want[k] ELSE card[k]]

Commit(r) ==
  /\ Flushed(r)
  /\ customers' = [customers EXCEPT ![txn[r].id] = Written(r)]
  /\ trail' = Append(trail, [action |-> txn[r].op, id |-> txn[r].id,
                             changed |-> txn[r].changed])
  /\ Answer(r, "ok")
  /\ UNCHANGED campaigns

-----------------------------------------------------------------------------
(* POST terminal/customers/lookup: one SELECT.  The limiter of the kiosk   *)
(* (see SignIn) may refuse it.                                             *)
Identify(s, p) == IF Carrier(s, p) = {} THEN "CustomerNotFound" ELSE "ok"

Lookup(r, s, p) ==
  /\ txn[r].pc = "new"
  /\ \E a \in {"TooManyLoginAttempts", Identify(s, p)} :
       txn' = [txn EXCEPT ![r] = [New EXCEPT !.pc = "done", !.op = "lookup", !.salon = s,
                                             !.want.phone = p, !.answer = a]]
  /\ UNCHANGED <<customers, campaigns, trail>>

(* GET customers, of one card and of a page of them ...                    *)
GetCustomer(r, s, c) ==
  /\ txn[r].pc = "new"
  /\ txn' = [txn EXCEPT ![r] =
       [New EXCEPT !.pc = "done", !.op = "get", !.salon = s,
                   !.answer = IF customers[c].salon = s THEN "ok" ELSE "CustomerNotFound"]]
  /\ UNCHANGED <<customers, campaigns, trail>>

AtMost(n, k) == IF n <= k THEN n ELSE k

List(r, op, s, g, q, n) ==
  /\ txn[r].pc = "new"
  /\ txn' = [txn EXCEPT ![r] = [New EXCEPT !.pc = "count", !.op = op, !.salon = s,
                                           !.want = [NoCard EXCEPT !.gender = g, !.full_name = q],
                                           !.page = AtMost(n, PageSize),
                                           !.since = Len(trail)]]     \* history
  /\ UNCHANGED <<customers, campaigns, trail>>

ListSalonCustomers(r, s, g, q) == List(r, "list", s, g, q, Cardinality(Matching(s, g, q)))

(* ... and then the total of the same filter.                              *)
Count(r, op, n) ==
  /\ txn[r].pc = "count" /\ txn[r].op = op
  /\ txn' = [txn EXCEPT ![r].pc = "done", ![r].answer = "ok", ![r].total = n]
  /\ UNCHANGED <<customers, campaigns, trail>>

CountReachable(r) ==                                                \* mutant
  Count(r, "list",
        Cardinality(Reachable(txn[r].salon, txn[r].want.gender, txn[r].want.full_name)))
CountAll(r) ==
  Count(r, "list",
        Cardinality(Matching(txn[r].salon, txn[r].want.gender, txn[r].want.full_name)))

-----------------------------------------------------------------------------
(* POST campaigns: the cards of the segment that have a telephone are      *)
(* counted ...                                                             *)
CreateCampaign(r, s, g) ==
  /\ txn[r].pc = "new"
  /\ txn' = [txn EXCEPT ![r] = [New EXCEPT !.pc = "emit", !.op = "campaign", !.salon = s,
                                           !.want.gender = g,
                                           !.total = Cardinality(Reachable(s, g, None))]]
  /\ UNCHANGED <<customers, campaigns, trail>>

(* ... and the campaign is inserted, PENDING, with that number.            *)
Emit(r) ==
  /\ txn[r].pc = "emit"
  /\ campaigns' = Append(campaigns, [salon |-> txn[r].salon, segment |-> txn[r].want.gender,
                                     recipients |-> txn[r].total, status |-> "PENDING"])
  /\ trail' = Append(trail, [action |-> "campaign", id |-> None, changed |-> {}])
  /\ Answer(r, "ok")
  /\ UNCHANGED customers

(* GET campaigns: a page, then the total.                                  *)
CampaignsOf(s) == {i \in DOMAIN campaigns : campaigns[i].salon = s}
ListSalonCampaigns(r, s) == List(r, "campaigns", s, None, None, Cardinality(CampaignsOf(s)))
CountCampaigns(r)        == Count(r, "campaigns", Cardinality(CampaignsOf(txn[r].salon)))

-----------------------------------------------------------------------------
(* A statement or the commit fails: nothing of the request remains.        *)
Abort(r) ==
  /\ txn[r].pc \in {"insert", "flush", "flushed", "emit"}
  /\ Answer(r, "error")
  /\ UNCHANGED <<customers, campaigns, trail>>

Genders0 == Genders \cup {None}
Notes0   == Notes \cup {None}

(* The routes: of the kiosk, of the cards and of the campaigns.            *)
WalkIn(r) ==
  \E s \in Salons, p \in Phones :
    \/ Lookup(r, s, p)
    \/ \E n \in FullNames, g \in Genders0 : CreateWalkInCustomer(r, s, n, p, g)

CreateOrList(r) ==
  \E s \in Salons, g \in Genders0 :
    \/ \E n \in FullNames, p \in Phones \cup {None}, x \in Notes0 :
         CreateCustomer(r, s, n, p, g, x)
    \/ \E q \in FullNames \cup {None} : ListSalonCustomers(r, s, g, q)

GetOrEdit(r) ==
  \E s \in Salons, c \in DOMAIN Card0 :
    \/ GetCustomer(r, s, c)
    \/ \E n \in FullNames, p \in Phones \cup {None}, g \in Genders0 :
         UpdateCustomer(r, s, c, n, p, g)
    \/ \E x \in Notes0 : UpdateCustomerNote(r, s, c, x)

Campaign(r) ==
  \E s \in Salons : \/ \E g \in Genders0 : CreateCampaign(r, s, g)
                    \/ ListSalonCampaigns(r, s)

Receive(r) == WalkIn(r) \/ CreateOrList(r) \/ GetOrEdit(r) \/ Campaign(r)

Serve(r) == PhoneExists(r) \/ Insert(r) \/ Find(r) \/ Load(r) \/ Flush(r) \/ Commit(r)
            \/ CountAll(r) \/ Emit(r) \/ CountCampaigns(r)

Next == \E r \in Requests : Receive(r) \/ Serve(r) \/ Abort(r)

Spec == Init /\ [][Next]_vars

-----------------------------------------------------------------------------
Card == [salon : Salons \cup {None}, full_name : FullNames \cup {None},
         phone : Phones \cup {None}, gender : Genders0, notes : Notes0]

(* What the proofs ask of the constants: the cards at first are of salons, *)
(* and no two of them in a salon carry one telephone.                      *)
CardsAssumption ==
  /\ None \notin Salons \cup Customers \cup Phones \cup Refusals
  /\ IsFiniteSet(Customers) /\ PageSize \in Nat
  /\ DOMAIN Card0 \subseteq Customers
  /\ \A c \in DOMAIN Card0 : Card0[c] \in Card /\ Card0[c].salon \in Salons
  /\ \A c, d \in DOMAIN Card0 :
       /\ Card0[c].phone # None /\ Card0[c].phone = Card0[d].phone
       /\ Card0[c].salon = Card0[d].salon
       => c = d

TypeOK ==
  /\ customers \in [Customers -> Card]
  /\ \A i \in DOMAIN campaigns : campaigns[i].recipients \in 0 .. Cardinality(Customers)
  /\ \A i \in DOMAIN trail : trail[i].id \in Customers \cup {None}
  /\ \A r \in Requests : /\ txn[r].want \in Card /\ txn[r].set \subseteq Columns
                         /\ txn[r].answer \in Refusals \cup {None, "ok", "error"}

(* No two cards of a salon carry one telephone: the promise of the unique  *)
(* index (salon_id, phone), which a kiosk relies on to find one card, kept *)
(* by waiting for the transaction that holds the entry.                    *)
PhonesUnique ==
  \A c, d \in Customers :
    /\ customers[c].phone # None /\ customers[c].phone = customers[d].phone
    /\ customers[c].salon = customers[d].salon
    => c = d

(* A telephone that is set stays, whoever edits the card (customers.py,    *)
(* "verrouille des qu'enregistre"): the only edit that replaces or erases  *)
(* it is one whose check ran on another telephone than it overwrites.      *)
PhoneKept ==
  [][\A c \in Customers :
       customers[c].phone # None /\ customers'[c].phone # customers[c].phone =>
         \E r \in Requests : /\ txn[r].id = c /\ txn[r].pc # txn'[r].pc
                             /\ txn[r].seen.phone # customers[c].phone]_vars

(* The kiosk that is told that a card exists looks it up next              *)
(* (terminal_customers.py): when a creation or an edit is refused for its  *)
(* telephone, a committed card of the salon carries it, even if the card   *)
(* that stood in the way was not committed when the request began.         *)
ConflictMeansFound ==
  [][\A r \in Requests :
       txn'[r].answer = "CustomerAlreadyExists" /\ txn[r].answer = None =>
         Carrier(txn[r].salon, txn[r].want.phone) # {}]_vars

(* What the counter and the kiosk count on: a card answers for one         *)
(* telephone, a telephone for one card, and a refusal names a card.        *)
PhonesHold == PhoneKept /\ ConflictMeansFound /\ []PhonesUnique

(* The total that is shown with a page of cards or of campaigns is at      *)
(* least what the page holds, whatever commits between the two statements, *)
(* but for an edit of a card: it may change the gender or the name that    *)
(* the page was filtered on, and a card of the page is then not counted.   *)
(* The clauses that the two statements share "pour que le total corresponde*)
(* exactement a la page" (customer_repository.py) are not one snapshot.    *)
Filtered(r) == txn[r].want.gender # None \/ txn[r].want.full_name # None
EditedSince(k) == \E i \in DOMAIN trail : i > k /\ trail[i].action = "update"

TotalCoversPage ==
  \A r \in Requests :
    txn[r].op \in {"list", "campaigns"} /\ txn[r].pc = "done" =>
      \/ txn[r].page <= txn[r].total
      \/ Filtered(r) /\ EditedSince(txn[r].since)

(* So it is after every step, whichever request takes it.                  *)
TotalsCoverPages == [][TotalCoversPage']_vars

(* The customers' desk keeps all of it.                                    *)
CardsHold == PhonesHold /\ TotalsCoverPages
=============================================================================
