# CoifLink: TLA+ models, checks and proofs

CoifLink runs the walk-in business of hair salons: customers take a ticket at a
kiosk, hairdressers serve the queue from a web dashboard, cashiers record what
is paid, managers keep the salon's records and read its figures.  This directory
models the parts where requests, crashes and clocks interleave, checks them with
TLC and proves what matters most with TLAPS.  Every definition is a translation
of the code; `PROJECT.json` names the lines (`map`), the runs, the mutants that
show that each property can fail, the hazards at their lines, and the theorems.

## 1. Inventory

| Component | State it keeps | Operations | What is hard | What makes it correct |
|---|---|---|---|---|
| Walk-in queue (`application/queue_ticket.py`) | rows of `queue_tickets`, audit log | join, start, complete, cancel, listings | each request is a transaction at READ COMMITTED; conditional SELECT, then UPDATE by primary key | numbers 1..n per salon and day, a hairdresser on one ticket, status, audit and hairdresser agree |
| Correction of services (same file) | rows of `queue_ticket_services` | replace the list of a waiting ticket | DELETE + INSERT of two transactions cross | a ticket keeps a service; the list is replaced |
| Till (`application/payments.py`, `cash_journal.py`) | `payments`, `cash_journal`, prices | record, adjust, list, receipts | checks before the lock; live prices; three writes | journal = payments, receipts without hole, amount was due |
| Kiosk credential (`application/terminal_devices.py`, `terminal_device_activation.py`) | account row; challenge in process memory | provision, activate, revoke, log in | memory and database change at different moments, the answer before or after the COMMIT; restarts | a kiosk is locked out only by a failure or by an activation that overtakes the COMMIT of its account; revocation lasts |
| Login, limiter (`application/authentication.py`, `login_rate_limiter_memory.py`) | failures and locks in memory | log in, refresh | threads copy, change and write back without a lock | the limit holds for requests that do not overlap |
| Password reset (`application/password_reset.py`) | challenge in memory, hash in the database | request, confirm | a confirmation races a newer request | the last code sent works, once |
| Employees, registration (`application/employees.py`, `registration.py`) | users, members | create, edit, deactivate, reactivate, register | rows read by one statement and written by a later one | the log tells who is available; salons do not touch each other |
| Customers, kiosk identification (`application/customers.py`, `terminal_customers.py`) | `customer_profiles` | create, edit, note, look up, list | the telephone is checked on a row that another request changes | one card per telephone and salon; a telephone stays |
| Services and salons (`application/services.py`, `salons.py`) | rows, hours | create, edit, activate, hours | crossing edits of one row | an edit takes effect and touches nothing else; the log names it |
| Photos and logos (same files, `s3_media_storage.py`) | rows, objects of a bucket | upload, attach, remove | the object goes before the row commits; a maximum that is counted first | a row names an object that exists |
| Opening hours and slots (`domain/opening_hours.py`, `availability.py`) | a document of the salon | validate, resolve a date, offer slots | boundaries of intervals, order, exceptions | open exactly the minutes that were asked |
| Campaigns (`application/campaigns.py`) | rows | create, list | nothing sends them | the number of cards that can be reached |
| Authorisation, audit log (`adapters/inbound/security.py`, `application/authorization.py`) | scopes, `audit_logs` | guards before every handler | a right withdrawn between two of its statements | withdrawn at once |
| Statistics, dashboards, listings, receipts | none | read | several statements while the rows move; joins and filters that differ | figures agree with each other |
| Public catalogue (`application/catalog.py`) | none | search, public page | pictures removed meanwhile | pages show what is there |
| Delivery pipeline (`adw_sdlc`) | `state.json`, working tree, GitHub | launch, resume, phases, finalize, merge | dies anywhere; agents may do anything; CI is slow, late and run again | merges once, never what was seen red and not run again; ends |
| Kiosk application (Flutter, `app-mobile`) | screens, timers, session | identify, choose, confirm, print | timers race answers and prints | nobody inherits the previous customer's screen |
| Web dashboard (Next.js, `web-dashboard`) | screens | board actions, payment form | stale screens, several actions in flight | an answer is shown on the ticket it is about |
| Agent runners, command line, migrations, deployment, load tests | - | - | - | - |

How they interact.  The kiosk and the dashboard call the API over HTTP; each
request runs in a thread of the server with a session of its own
(`persistence/session.py`): it commits when the handler returns and rolls back
when it raises.  What requests share is PostgreSQL (rows, locks, unique
indexes), the memory of the process (challenges, limiter) and the bucket.  The
pipeline is a separate program that talks to git, GitHub and agents.

## 2. Modules

| Module | Models | Extends / used by |
|---|---|---|
| `QueueTickets` | join, start, complete, cancel of many tickets in several salons | |
| `TicketLifecycle` | abstract: the closed table of transitions of `domain/queue_ticket.py` | instantiated in `QueueTickets` |
| `WalkInQueue` | abstract: what the board of a salon promises | instantiated in `QueueTickets` (`ImplementsBoard`) |
| `MCQueueTickets` | instance and the history variable `alone` | extends `QueueTickets` |
| `MCQueueScenes` | two instances for liveness: salons that share a hairdresser, and a rush of starts | extends `QueueTickets` |
| `QueueTicketsProofs` | theorems | extends `MCQueueTickets`, TLAPS |
| `TicketServices` | correction of the services of one ticket | |
| `MCTicketServices` | history variable `crossed` | extends `TicketServices` |
| `TicketServicesProofs` | theorems | extends `MCTicketServices`, TLAPS |
| `Payments` | recording and adjusting payments | |
| `CashBook` | abstract: the cash book of a salon | instantiated in `Payments` (`ImplementsBook`) |
| `MCPayments` | instances and history variables | extends `Payments` |
| `PaymentsProofs` | theorems | extends `Payments`, TLAPS |
| `TerminalActivation` | a kiosk's credential in database and memory | |
| `MCTerminalActivation` | history variable `rivals` | extends `TerminalActivation` |
| `TerminalActivationProofs` | theorems | extends `MCTerminalActivation`, TLAPS |
| `SignIn` | logging in, the limiters, resetting a password | |
| `MCSignIn` | instance, history variables, the choice of a desk | extends `SignIn` |
| `SignInProofs` | theorems | extends `MCSignIn`, TLAPS |
| `SalonCustomers` | customer cards at the desk and at the kiosk, campaigns | instantiated in `BackOffice` |
| `SalonMedia` | logo, photos, bucket, public page | instantiated in `BackOffice` |
| `OpeningHours` | hours and slots: the algorithms against definitions minute by minute | instantiated in `BackOffice` |
| `SalonCatalogue` | salons, services, public search | instantiated in `BackOffice` |
| `SalonStaff` | guards, employees, registration, revocation of a kiosk | extended by `BackOffice` |
| `BackOffice` | the five modules above side by side | extends `SalonStaff`, instantiates the other four |
| `MCBackOffice` | instance; the office or the reports | extends `BackOffice`, instantiates `SalonReports` |
| `DeskProofs` | pictures, catalogue and hours: invariants and lemmas | extends `BackOffice`, TLAPS |
| `BackOfficeProofs` | staff and customers; the theorems of the office | extends `DeskProofs` |
| `SalonReports` | every report as a list of SELECTs, and what it computes from them | instantiated in `MCBackOffice` |
| `DeliveryRun` | the pipeline over its launches, crashes and resumes | |
| `MCDeliveryRun` | instance | extends `DeliveryRun` |
| `DeliveryRunProofs` | theorems | extends `DeliveryRun`, TLAPS |

`BackOffice` is a choice between five *desks*.  No statement of one of these
modules reads what another of them writes in the model, so a behaviour follows
one desk: what TLC explores is the sum of five state spaces, not their product,
and nothing is lost by it.  `SalonReports` has writers of its own; `MCBackOffice`
checks it in the same run, as behaviours in which the office rests (`reading`).
Every behaviour of `MCBackOffice` is thus one of `OfficeSpec`, which the theorems
are about.

### How code becomes actions

*A request is a record* `txn[r]` with a program counter and the local values
that the code keeps between statements.  One action is one SQL statement (or a
group of them that no other request can tell apart), so every interleaving of
statements is explored.  *Rows are the committed ones*; what a transaction has
written stays in its record until `Commit`.  *Locks are not stored*: a row is
locked by the request whose counter lies between its UPDATE and its end
(`Writers`, `RowHolders`), the advisory lock of a salon by the one between
`pg_advisory_xact_lock` and its end (`Allocators`).  `Abort` is any exception;
a checked refusal is a disjunct of the statement that finds it.  An UPDATE that
waited overwrites what was committed meanwhile, since the ORM writes by primary
key, without the condition of its SELECT, and only the columns that differ from
the row it loaded last (`set`): that is the source of most races here.  A unique
index is a wait for the transaction that holds the key, then an error.  A start
holds its ticket's row, with the index entry that row had, while it waits for an
entry of another one: such waits can close a circle, which PostgreSQL breaks by
an error in one of its transactions (`WaitsFor`, `BreakDeadlock`).

`TicketServices` follows PostgreSQL's rules for two DELETEs of the same rows:
the later one waits, finds them gone, and does not see rows inserted since its
snapshot.  INSERTs go row by row; a circle of waiting transactions is broken by
PostgreSQL (`BreakDeadlock`).

`TerminalActivation` keeps the account in `rows` (committed) and the challenge
object apart from its presence in the repository (`challenges`, `stored`):
Python requests hold the same object, so a mutation is seen by all at once.
`get_session` commits after its `yield`, and which of COMMIT and answer comes
first depends on the release of FastAPI, which `pyproject.toml` does not pin: a
request may answer and then commit (`Respond`, then `Commit`), or the other way
round, and its COMMIT may fail on either side of the answer.  `Abort`,
`LoseAnswer` and `Restart` strike between memory and database.  Two variables are
for the properties only: `lost` has the devices whose challenge or secret a
failure took, `missed` those whose activation found no committed account.

`SignIn` is about memory that threads share without a lock.  One action is what
a thread does between two accesses to that memory: `dict.get`, the copy of the
list of failures, the assignment that writes it back, `pop`, and the fields of a
challenge.  The hash of the password is a row, committed at the end.  A list of
failures is only filtered, lengthened and counted, so it is a set of times here,
with a number that tells equal times apart.

`SalonStaff` puts the guards in front of each route as steps of the request:
the token, the SELECT of the account, the SELECT of the scope, the permission;
another request may suspend or deactivate between any two of them.  Its
history variable `granted` says what a request has been granted so far, by the
account as it was read and by the salon as it was checked; `Fresh` bounds the
accounts that are created.
`SalonMedia` deletes the object *before* the commit, as the code does, and the
commit may then fail.

`SalonReports` turns the question around: the transaction that matters is the
report.  It is a list of statements, each of which sees the rows committed by
then, and the queue, the till, the catalogue and the calendar move between
them.  Those writers are modelled by what they leave; the modules above say how
they get there.  The names that a search matches are a row too (`named`, `Rename`), as
an edit of a card may change them between the page and its total.  Periods, series, rankings and variations are operators, and
each property computes a figure in two ways that share no query.

`DeliveryRun` is sequential: the interleaving is with agents that edit at any
moment, with GitHub's CI, and with a death of the process at every label.  A
content of the tree is the set of edits in it.  GitHub shows on the pull request
the checks of some content (`hub.shown`), for a while still those of the push
before (`HubCatchesUp`); a run may pend, succeed or fail, and be started again by
anybody (`CiRuns`, `CiRunsAgain`).

## 3. Runs, bounds and what they show

| Run | Instance | Distinct states | Shows |
|---|---|---|---|
| `queue_races` | 3 requests, 2 tickets, 1 salon, 1 hairdresser (symmetric) | ~970,000 | audit tells the status; nothing served that was not started; numbers dense and growing; the announced number ahead is an upper bound; off the table of transitions only when two requests met on the ticket |
| `queue_live` | 2 requests, 2 tickets, 2 salons, 1 hairdresser; and 3 requests that start 2 tickets of one salon with 2 hairdressers | ~124,000 | one hairdresser, one ticket, across salons; the rows implement `WalkInQueue`; every request returns, also from a circle of starts that wait for each other's index entry |
| `queue_overlap` | 2 requests, 1 ticket | - | **finding**: a started ticket is cancelled by an overlapping request |
| `services_races` | 2 corrections, 2 services | ~110,000 | never empty; the first choice does not come back; replaced exactly unless crossed; deadlocks of INSERTs end |
| `payments_races` | 2 requests, 3 payments, 1 ticket, 2 salons, 2 prices (symmetric) | ~658,000 | receipts dense; journal, rows and audit agree and implement `CashBook`; the amount was due; double payment and double correction only by requests that ran together (`RivalsOnly`) |
| `payments_double_pay` | 2 requests, 1 ticket | - | **finding**: a ticket is paid twice |
| `activation_races` | 2 requests, 2 kiosks, 3 secrets, lifetime 2 | ~1,130,000 | a kiosk is stranded only by a failure of its own or by an activation before the COMMIT of its account; a code serves twice only requests that compared it together; revocation lasts |
| `activation_stranded` | 2 requests, 1 kiosk | - | **finding**: without any failure, an activation between the answer and the COMMIT of the provisioning loses the code |
| `signin_races` | 2 requests, 1 identifier, 1 account, 2 challenges, 2 failures, 1 guess, clock up to 3 | ~888,000 | the limiter keeps its word where requests do not overlap; the last code sent works; a code serves once unless compared twice at once |
| `office_races` | 2 requests at one of five desks (symmetric), or 1 report | ~331,000 | types of every desk; telephones unique and kept; a total below its page only after an edit of what is filtered; objects referred to exist; galleries within their maximum; hours and slots; edits take effect and are logged; rights withdrawn at once; salons isolated; reports agree |
| `delivery_races` | 5 phases, 2 launches, 2 edits, 2 blockers, failing saves | ~604,000 | merged once; what was seen red is merged only if its checks ran again; findings survive a crash; an operator's work is taken only after a refused launch; launches end |
| `delivery_blocker` | 1 launch, no failing saves | - | **finding**: a blocker is merged when the patch attempts run out |

Type invariants are proved wherever a module has proofs.  Only those of the
office are checked as well (`TypesOK`), because they say which values the forms
let through; the other runs spend their properties on what relates rows,
requests and time.

*Why the bounds are enough.*  A race of this code is between two transactions,
and a third one matters only where a waiter can be overtaken: `queue_races` has
three.  Two tickets, payments or kiosks are needed for anything that relates
two rows; three payments let a ticket be paid by two rivals and then again by a
later request.  One hairdresser is the contended case for what is committed.  It
is not for waiting: with one, a start waits for a committed or a held entry and
never in a circle.  A circle needs two hairdressers, two tickets and a third
request, which moves each ticket to the hairdresser that the other two have not
loaded; the second scene of `queue_live` (`rush`) is that instance, and every
interleaving of three starts of its tickets, with its two tickets let in one after
the other.  Two launches of the pipeline give every crash a resume; more
attempts of a loop repeat the same transitions.  `MaxEdits` caps what agents do,
not the loops, which the code bounds itself.

`SignIn` has two failures before a lock and one guess, so that a counter can be
below, at and above its limit, and a clock that lets a window, a lock and a code
expire and a second lock begin.  The desks of the office serve two crossing
requests, each once.  Customers: two cards, one without a telephone, in two
salons, a row for each creation, and two names to search by.  Media: galleries of one photo and two
uploads, so that two additions cross at the maximum.  Hours: a day of three
minutes with up to two intervals in any order (and three, which is too many), 8
kinds of exceptions; all of them against all questions.  Catalogue: values
inside, at and beyond their limits.  Staff: two salons, a hairdresser, a kiosk
and a revoked kiosk.  Reports: three tickets, two commits between the statements
of a report, a calendar of three days in weeks of two, pages of one row.

*Deadlock* is checked everywhere but for the pipeline, which really stops when
its launches are used up or its issue is closed, for the office, where every
request is served once and a question or a report ends a behaviour, and for
`queue_live`, whose rush ends when both tickets are started; that nothing is left
waiting there is what `RequestsReturn` says.

*Fairness.*  `SF_vars(Serve(r))` for a request of the queue or a correction of
services: its thread is not stopped, and what may disable its next statement
is only a lock, or a circle of them that the detector of PostgreSQL breaks, which
is part of `Serve`.  PostgreSQL queues the waiters of a row or advisory lock, so a
waiter whose lock is free again and again gets it: strong, not weak, fairness.  The till has no liveness
property: a record takes only the advisory lock and a correction only its row, so
that no wait there depends on a second one.
No fairness is assumed of a client (starting a request), of a failure or of a
restart.  `WF_vars(Run)` for the pipeline: calls of agents, git and gh return or
are stopped (the per-call timeout of the runner has a default of 0, none:
`RunEnds` is about a pipeline whose calls return).  No
fairness is assumed of CI, of an operator or of crashes: checks may pend for ever,
be shown late, and be run again with any result.

## 4. Proofs

*`QueueTicketsProofs`* proves, for any number of requests, tickets, salons and
hairdressers, from `NoneAssumption` and the finiteness of `TicketIds`:
`QueueTypeOK`, `QueueNumbersDense` and `QueueHairdresserExclusive`.

- `TypeInv` = `TypeOK` and `TxnShape` (which local values a request has at each
  label).  It needs `NumbersDense`: a request in hand of `MAX + 1` must have a
  number.
- `NumbersInv`: at most one request is between the advisory lock and its commit
  in a salon (`OneAllocator`); its number is the count of issued tickets plus
  one and its id is nobody else's (`NumberInHand`); the other operations act on
  issued tickets, which keep their salon.  `NumbersDense` alone is not
  inductive: a commit adds the number in hand.  The lemma `NextNumberCounts`
  turns MAX + 1 into a cardinality.
- `ExclusiveInv`: one writer per ticket row, one uncommitted holder of an index
  entry, and no committed row with an entry in hand; `HairdresserExclusive`
  needs all three when a start commits.

Its second half is about what the committed rows tell: rows and log change by
`JoinCommit` and `Commit` only (`StepRows`), so each proof has these two cases
and the requests.

- `QueueNumbersGrow` follows from `NumberInHand`: a join commits the number of
  tickets issued so far plus one.
- `QueueAuditTellsStatus`: the invariant adds that a ticket which is not issued
  yet has no line (`AuditInv`); a commit writes the status and its line at once.
- `QueueServedWasStarted`: a completion may overwrite what somebody else wrote
  meanwhile, so `ServedInv` says that the ticket of a completion *was* handled
  at some time, which its log keeps, and not that it still is.
- `QueueAheadIsUpperBound`: `AheadInv` counts from the insert on, before the
  commit; the tickets before a number only become fewer (`EarlierShrinks`),
  since a number in hand is greater than all that are committed.
- `QueueImplementsBoard`: the refinement of `WalkInQueue`.  A commit of a join
  is `Issue`, a commit of the other three is the board's step for it, allowed by
  the free index entry (`EntryFree`) and by `ServedInv`.
- `QueueFollowsLifecycleAlone`: the UPDATE does not repeat the condition of the
  check, so `AloneInv` carries it from the check to the commit for a request that
  meets nobody on its ticket.  `queue_overlap` is what happens to the others.

*`TicketServicesProofs`* proves `ServicesTypeOK`, `ServicesNeverEmpty` and
`ServicesOnlyAsked` for any number of corrections and services.  The invariant
adds: a correction past its check wants something (`WantedOK`), and until the
first commit every DELETE in flight works on the kiosk's choice
(`FirstChoice`), without which a survivor of that choice could not be excluded.
`ServicesReplaced` is about the history `crossed`: what the DELETE of a
correction does not see are services of corrections that overlap it
(`CrossInv`), also when it waited and its snapshot was trimmed.

*`PaymentsProofs`* proves, for any number of requests, payments, salons,
tickets, services and prices, from `NoneAssumption` and `DataAssumption`:
`PaymentsTypeOK`, `PaymentsReceiptsDense`, `PaymentsJournalTells` and the
refinement `PaymentsImplementBook`.

- `ReceiptsInv` has the form of `NumbersInv`: one request of a salon between the
  advisory lock and its commit (`OneAllocator`), which holds the count of the
  committed payments plus one and a payment id of nobody else
  (`ReceiptInHand`); a correction acts on a recorded payment.
- `JournalTellsPayments` is inductive relative to it: a new payment finds an
  empty journal because its id is not recorded, a correction finds at least the
  PAYMENT line.  Two corrections that race both add a line: that is in the model
  and does not break it.
- Under both invariants a commit of `RecordPayment` is `CashBook!Pay`, a commit
  of `AdjustPayment` is `CashBook!Correct`, and every other step leaves slips and
  lines alone, whatever prices and services do meanwhile.

- `PaymentsRivalsOnly` is a count.  `TicketRivals` says that the payments of a
  ticket, together with the requests that are recording one for it, are no more
  than the server runs at once; `PaymentRivals` says the same of the lines of a
  payment and its corrections.  A request enters the contention only when its
  check finds nothing committed (`EnterRivals`), a commit moves it from one side
  of the sum to the other, and nothing else raises the sum.
- `OneServiceWasDue` needs no hypothesis: a payment of one service records a
  price that the service had while the request ran.  `TallyInv` says it of the
  local sum from the SELECT of the price to the commit.  For several services it
  is false, since each price is read by a SELECT of its own; hence
  `PaymentsAmountWasDue` has the hypothesis that every ticket has one service,
  which is what the run checks, and `payments.py:221` stays a hazard.

*`TerminalActivationProofs`* proves, for any number of requests, kiosks and
secrets, from `NoneAssumption`: `ActivationTypeOK`, `KiosksAreNotStranded`,
`RevocationIsFinal` and `SecretsAreShared`.

- `KiosksAreNotStranded` says who can strand a kiosk: a failure that struck its
  own challenge or secret (`lost`), or an activation that found no committed
  account (`missed`).  The second needs no failure (`activation_stranded`), so it
  cannot be left out.  It rests on three invariants.  `OwnDevice`: a kiosk that is
  being provisioned is nobody else's and has no account yet.  `ToldFirst`: a
  challenge is consumed, and a secret drawn, only after somebody was told the
  code.  `Reachable`: but for those two a challenge leaves the repository only
  when it is consumed, and a consumed one has an activation that will end it or
  has produced the secret of the account.  The last is what a crash breaks, and an
  answer that precedes its COMMIT.
- `RevocationIsFinal`: an activation that commits after the revocation writes the
  secret and leaves the status, and by `OwnDevice` a provisioning that commits
  late finds no account it could make active.
- `SecretsAreShared`: where no two requests held the code compared at once, one
  request at most is between the comparison and the mark, and one secret at most
  is drawn (`OneSecret`).

*`SignInProofs`* proves `CodesServeOnce`, `LastCodeIsGood` and
`FailuresAreBounded`, for any number of threads, identifiers, accounts and
challenges and all settings, from `SettingsAssumption`.  An action of a thread is
first reduced to one of 13 views of it (`Step`, lemma `StepView`), which say what
it does to the challenges and forget the limiter, and then again to what it does
to the limiter (`LimiterStep`, lemma `LimiterView`), which forgets the
challenges; each half of the proof has only its views.

- `CodeInv` is a balance: failed comparisons plus guesses left are what a
  challenge was given, but for the one confirmation that has missed and not
  subtracted yet; it holds the value it will subtract from.  It is lost when two
  hold the code compared at once (`rivals`), where both write the same value.  A
  challenge that nothing refers to any more, after a restart, keeps its tally.
- `LastInv` says which challenge is in the store at each moment of a request for
  a code, and that a confirmation holds the challenge that was sent last, which
  is spent once it goes on to write the password.  That is why the confirmation
  may delete or put back under the key without looking.
- `LimitInv` relates the list of a key to the failures that a reader of the log
  would count (`tried`).  From the moment a request passes the check, the list
  covers them: at any later time no fewer of it are in the window (`Covers`), but
  for the one that has failed and is not recorded yet.  A key with a lock may
  have any list, since its failures are older than the lock by `Lockout`
  (`Before`) and so have left the window when the lock is taken for expired;
  that needs `Lockout >= Window`, which the settings have.  The lemmas about
  lists (`WindowCounts`, `FailingCounts`, `TimePasses`) say what a filter and an
  addition do to every such count.

*`BackOfficeProofs`* and *`DeskProofs`* prove, for any number of requests and
all values of the constants, every property that `office_races` checks, each
stated of `OfficeSpec`: `OfficeTyped`, `OfficeObjectsExist`,
`OfficeHoursHonoured`, `OfficeCardsHold`, `OfficePhotosLimited`,
`OfficeEditsTakeEffect` and `OfficeStaffGuarded`.
`OfficeIsItsDesks` shows that a behaviour of the office is one of the
specification of each desk, so that what is proved of a desk, by an invariant of
its own, holds in the office.  They rest on `StaffAssumption` and
`OfficeAssumption` (what is in the tables at first; the bounds are numbers; the
documents and questions about hours have the shape the parser gives them), which
`office_races` evaluates.  A module that is instantiated has names of its own for
`Cardinality` and `IsFiniteSet`; `MediaSizes` and the lemmas after it say that
they are the usual ones.

Pictures (`MediaSafe`).  `ReferencedObjectsExist` is far from inductive: a row
refers to an object, but who deletes it is a request, and it deletes before its
own commit.

- `MediaPut` says where a key comes from: every key that a row refers to, or a
  request is about to replace or remove, was attached there by a request that was
  answered.
- `MediaPlaced` says that what is referred to is in the bucket or was let go by
  a request, also for the keys that a page has already read.
- `MediaLetGo` says what the clean-up relies on: a key that one request attached
  and no other did (`Sole`) is not referred to again once a request that was
  answered has let it go; before that, a logo that was replaced under an edit
  does not come back.
- `PhotosWithinLimit` is about one commit: an addition inserts only below the
  maximum that it counted (`MediaValues`), so that a gallery beyond it has grown
  since.

Catalogue (`CatalogueInv`).  A row is absent or acceptable to its form
(`RowsFit`), and a request holds a form whose fields passed (`RequestFits`), so
that whatever part of it is written keeps the row acceptable.  `EditsTakeEffect`
is then about one commit, which writes the columns of its form that differ from
the row it loaded.

Hours (`HoursInv`).  Nothing is interleaved here: what is stored is the
canonical form of a body that was accepted.  The work is in the algorithms.

- The sort by key is given by ranks instead of recursion, and `SortedShuffles`
  and `StartSorted` prove it a permutation in order.
- `AcceptedCoherent` and `CoherentAccepted` prove that the code's test of
  neighbours accepts a list of intervals exactly if no two of them overlap and
  each ends after its start.
- `StoredExceptions` and `StoredIntervals` prove that the minutes that are open
  afterwards are those that the body asked for, date by date and weekday by
  weekday, and `FreeByTheMinute` and `CandidatesOnGrid` that the slots offered
  are exactly those of the grid that fit, are free and are to come.

The proof of the acceptance found an error of the model that no instance had
shown: the two conditions on an exceptional day (`domain/opening_hours.py:198`)
were grouped as one equivalence, by their layout, so that a day that is open on
overlapping intervals passed.

Customers (`CardInv`, `CoverInv`): `CustomersPhonesUnique`,
`CustomersPhoneKept` and `CustomersConflictMeansFound`, together
`CustomersPhonesHold`; `CustomersTotalCoversPage`.

- `PhonesUnique` alone is not inductive: a commit writes what a request has had
  in hand for several statements.  `EntryFree` says that the entry of the index
  it holds is carried by no committed card and held by no other request; it is
  established by the statement that writes, which waits (`~Undecided`) and
  checks (`~Duplicate`), not by `phone_exists`, which any commit may outdate.
- `CardInHand`: a card that is inserted is nobody else's, and `CardsAtHome`: a
  card stays in its salon, so that an entry of the index keeps its meaning.
- `CardShape` carries the lock of a telephone: what `Find` saw was none, or is
  the telephone that will be written.  `PhoneKept` follows at the commit.
- `CustomersTotalCoversPage`: the total of a listing is counted by a second
  statement.  It is below the page that the first one read only if the listing
  filters on the gender or searches a name (`Filtered`), which an edit rewrites,
  and an edit of a card committed since (`EditedSince`).  `CoverInv` follows the
  page from one statement to the next: a card leaves the cards that match by such
  a commit alone (`NothingLeaves`), which has its line in the log (`Renamed`), and
  the log only grows (`LogGrows`).
- `NamesCards`: a campaign counts no more recipients than there are cards.

Staff (`Inv`, `GrantInv`): `StaffTypeOK`, `WithdrawalHolds`,
`SalonsStayIsolated` and `AuditIsTrue`.

- `Inv` says of a request which local values it has at each label (`Shape`),
  that its account exists and owns the salon it manages (`Entitled`), that the
  member it loaded is there (`Placed`), and of the rows that an account is in
  one salon (`OneSalon`) and a member has an account (`Attached`).
  `SalonsStayIsolated` needs `OneSalon`: a change of a member also writes the
  account, by its id alone.  `OwnAccount`: two requests create two accounts.
- `WithdrawalHolds` follows from `GrantInv`: what a request passed is what it was
  granted by statements that ran before, in their order, and nothing is granted
  by a row that had withdrawn it.
- `AuditIsTrue` is about single steps: the status of a member changes with its
  line, and a line is followed by the row it tells of unless the row was changed
  after it was loaded, which the code allows.

*`DeliveryRunProofs`* proves, for any list of phases, any number of launches and
edits and all bounds of the loops, that the types hold (`DeliveryTypeOK`) and:

- `IssueIsMergedOnce`: `MergeLast` says that the merge comes after every phase,
  `MergeKnown` that a merge is in the memory of the process, in `state.json`, or
  was followed by a stop or a failed save before its record.  The guard of the
  resume reads just these two.
- `OperatorsWorkIsAside`: the invariant `ForeignWorkAside` separates the edits
  that were in the tree before the launch from the run's own until a launch has
  refused the dirty tree.
- `RedIsNeverMerged`: a content that a poll saw failing is merged only if GitHub
  ran its checks again since, in that launch or a later one.  `ciFixLoop` keeps no
  memory of red, so the reason is in the contents: `RedBehind` says that such a
  content either is less than what is pushed, or is the one that is shown, with
  checks that fail; and that what is shown is never more than what is pushed, so
  that the green of an older push is not one of the red content.
- `PatchWorksOnFindings` has the hypothesis `ReviewFirst`, that the review comes
  before the patch in the list of phases; it is so in `DEFAULT_PHASES`, and
  `--phases` may change it.  `ReviewKept` carries the findings over a stop.

Only model-checked, and why:

- liveness (`RequestsReturn`, `RunEnds` and the like): TLAPS has no rules for
  fairness here;
- the figures of `SalonReports` (`ReportsAgree`), which are sums and counts over
  whole tables: that two ways of summing agree is an induction over the table.

Every other invariant and action property of a passing run is stated by a
theorem.

## 5. Findings and disagreements

Four disagreements have a run (above, and `findings` in `PROJECT.json`).  Seven
more are in `findings` without one: they are about what a row or a figure means,
or about what the properties allow for, which the source alone shows:

- a page and its total are two SELECTs that search names: a renaming between them
  leaves more rows than the total says (`transactions.py:50`; `ReportsAgree` and
  `CardsHold` say exactly when);
- a poll of CI just after the push of a fix may read the checks of the content
  before it, or settle on none, and the fix is merged without a check of its own
  (`orchestrator.ts:424`; `RedNeverMerged` holds all the same);
- the position of a new photo is the number of photos, which after a removal is
  a position that is taken (`service_repository.py:141`);
- an error of the bucket while an old logo is deleted undoes the replacement,
  though the deletion is said never to block (`salons.py:416`);
- the lines of a receipt are today's services at today's price and need not add
  up to the amount (`receipt_repository.py:175`);
- the figures of the platform are said to be consolidated and come from seven
  SELECTs that see seven moments (`platform_kpi_repository.py:79`);
- the revenue of a hairdresser counts tickets of any status, where the domain
  says done (`cash_journal_repository.py:185`).

Others were met while modelling; the models let them happen, and the properties
say exactly what remains true:

- two corrections of one payment may both succeed (`payment_repository.py:115`;
  `RivalsOnly`);
- a ticket of several services may be paid at a sum its services never cost
  together (`payments.py:221`; `AmountWasDue` holds for one service and fails
  for two);
- two crossing corrections of a ticket may add up (`queue_ticket_repository.py:389`;
  `ReplacedUnlessCrossed`), and a correction may land after the start that
  freezes the services (`:384`);
- an activation code may serve two overlapping requests (`domain/otp.py:88`;
  `SharedByRivalsOnly`), and a revoked kiosk may be told a secret that does not
  log in (`terminal_device_activation.py:149`);
- a start may replace the hairdresser of another start; a done ticket may expire
  when three requests cross (`FollowsLifecycle`, `LifecycleWhenAlone`);
- threads of one key may fail more often than the limit says
  (`login_rate_limiter_memory.py:71`; `FailuresBounded`), and a confirmation may
  drop a code that was just sent (`password_reset.py:239`; `LastCodeWorks`);
- a gallery may exceed its maximum by crossing additions
  (`PhotosWithinLimit`), and a telephone may be erased by an edit that read the
  card before it was set (`PhoneKept`);
- a refused launch lets the next `--resume` commit the operator's edits
  (`orchestrator.ts:860`; `ForeignWorkOnlyAfterRefusal`).

## 6. Not modelled, and why

- The kiosk application and the web dashboard: their requests are the ones the
  modules take at any moment; their screens and timers are the next step.
- Agent runners, command line, migrations, deployment, load tests: parsing,
  configuration and history, without state that outlives a call.
- The day of the queue is fixed in `QueueTickets`: the counter of another day is
  the counter of another salon.  What midnight does to a ticket in progress is a
  hazard without a property.
- The estimate in minutes is a computation over the number ahead, which is
  modelled.
- Signatures, hashes, the refresh of a token (it reads nothing but the token),
  formatting and validation of single fields, prompts and costs.
- Wrong activation codes and their limiter: `SignIn` has the same code for the
  password.
- The filter of the transactions on the payment method, which nothing changes.
  The filters on names, dates and genders are modelled.
- The match of the text in the public search; `created_at` as an order among
  photos of one position.

See the components in `PROJECT.json` for each part.

## 7. Plan

1. Kiosk application: screens, inactivity timer, suspension for prints and
   dialogs, one request to the queue in flight, token renewed on a 401.
   Properties: no screen of a customer outlives the timeout; one confirmed
   ticket per confirmation that was answered; a suspended timer runs again.
2. The day of the queue: a ticket left in progress at midnight.
3. Proofs: when a page may exceed its total in the reports, as it is proved for
   the customers.
