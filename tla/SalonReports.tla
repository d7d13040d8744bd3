----------------------------- MODULE SalonReports -----------------------------
(***************************************************************************)
(* What the managers and the administrator read: the dashboard, the        *)
(* revenue, the demand for services, the performance of the hairdressers,  *)
(* the discrepancies of the till, the transactions, the journal, the       *)
(* history of a customer, the receipts, the audit log and the figures of   *)
(* the platform (adapters/inbound/stats.py, admin.py, payments.py,         *)
(* customers.py, receipts.py, audit_logs.py and their use cases).          *)
(*                                                                         *)
(* A report is a list of SELECTs in one transaction at READ COMMITTED:     *)
(* each sees the rows committed by then, and what the other requests write *)
(* commits between them.  Those writes are modelled by what they leave     *)
(* (QueueTickets, TicketServices, Payments and SalonCatalogue say how).    *)
(* A time is its day in Abidjan, which is UTC.                             *)
(***************************************************************************)
EXTENDS Integers, Sequences, FiniteSets, FiniteSetsExt, SequencesExt, Functions

CONSTANTS
  Salons, Services, \* services are numbers; their order stands for the names'
  Home,          \* service -> its salon
  Hairdressers, Customers, Clients,
  Tickets,       \* bound: tickets, some of which may be taken only later
  Row0,          \* ticket -> its row at first
  Payment0, Log0, \* payments and lines of the log at first
  Price0, Prices, \* prices at first, and bound: those set later
  Salon0,        \* salon -> its status at first
  Corrections,   \* bound: amounts of adjustments
  MaxDay, MaxCommits, \* bounds; a midnight and a long wait count as commits
  WeekLength, Month, \* days of a week, and day -> its month
  PageSize,      \* limit of a page
  None

VARIABLES
  status,   \* salons.status, None for a salon that does not exist yet
  tickets,  \* queue_tickets and queue_ticket_services
  payments, \* payments: rows in the order of created_at
  journal,  \* cash_journal: lines in the order of created_at
  price,    \* services.price
  audit,    \* audit_logs: lines in the order of created_at
  named,    \* clients and cards whose full_name matches what a search asks
  today,
  commits,  \* how much happened to them
  report    \* the request that reads: statements left, figures it has, and
            \* whether a name stopped matching in its middle (for properties)

world == <<status, tickets, payments, journal, price, audit, named>>
vars  == <<world, today, commits, report>>

NoTicket == [salon |-> None, day |-> 0, status |-> None, hairdresser |-> None,
             card |-> None, services |-> {}, late |-> FALSE]
NoReport == [kind |-> None, todo |-> <<>>, figures |-> <<>>, shown |-> None, renamed |-> FALSE]

Init ==
  /\ status = Salon0
  /\ tickets = [t \in Tickets |-> IF t \in DOMAIN Row0 THEN Row0[t] ELSE NoTicket]
  /\ payments = Payment0
  /\ journal = [i \in DOMAIN Payment0 |->
       [salon |-> Payment0[i].salon, payment |-> i, operation |-> "PAYMENT",
        amount |-> Payment0[i].amount, day |-> Payment0[i].day]]
  /\ audit = Log0
  /\ price = Price0
  /\ named = Clients \cup Customers
  /\ today = 2 /\ commits = 0
  /\ report = NoReport

Days    == 0 .. MaxDay
Sum(f(_), S) == MapThenSumSet(f, S)
AtMost(n, k) == IF n <= k THEN n ELSE k

-----------------------------------------------------------------------------
(* What the other requests leave when they commit.                         *)
Happens == commits < MaxCommits /\ commits' = commits + 1
Write   == Happens /\ UNCHANGED <<named, today, report>>

Log(s, action) == audit' = Append(audit, [salon |-> s, action |-> action, day |-> today])

TakeTicket(t, s, c, ss) ==
  /\ Write
  /\ tickets[t] = NoTicket /\ status[s] # None
  /\ tickets' = [tickets EXCEPT ![t] =
       [salon |-> s, day |-> today, status |-> "waiting", hairdresser |-> None,
        card |-> c, services |-> ss, late |-> FALSE]]
  /\ UNCHANGED <<status, payments, journal, price, audit>>

Becomes(t, row, action) ==
  /\ Write
  /\ tickets' = [tickets EXCEPT ![t] = row]
  /\ Log(row.salon, action)
  /\ UNCHANGED <<status, payments, journal, price>>

InProgress(h) == \E t \in Tickets : tickets[t].status = "in_progress" /\ tickets[t].hairdresser = h

StartTicket(t, h) ==
  /\ tickets[t].status = "waiting" /\ ~InProgress(h)
  /\ Becomes(t, [tickets[t] EXCEPT !.status = "in_progress", !.hairdresser = h],
             "QUEUE_TICKET_STARTED")

CompleteTicket(t) ==
  /\ tickets[t].status = "in_progress"
  /\ Becomes(t, [tickets[t] EXCEPT !.status = "done"], "QUEUE_TICKET_COMPLETED")

(* A cancellation that crosses a completion expires a ticket that is done. *)
CancelTicket(t) ==
  /\ tickets[t].status \in {"waiting", "in_progress", "done"}
  /\ Becomes(t, [tickets[t] EXCEPT !.status = "expired"], "QUEUE_TICKET_CANCELLED")

Due(ss) == Sum(LAMBDA s : price[s], ss)

(* Of a ticket, whatever its status, or of a service alone.                *)
RecordPayment(s, t, ss, client) ==
  /\ Write
  /\ status[s] # None
  /\ payments' = Append(payments, [salon |-> s, ticket |-> t, services |-> ss,
                                   amount |-> Due(ss), status |-> "VALIDATED",
                                   client |-> client, day |-> today])
  /\ journal' = Append(journal, [salon |-> s, payment |-> Len(payments) + 1,
                                 operation |-> "PAYMENT", amount |-> Due(ss), day |-> today])
  /\ Log(s, "PAYMENT_RECORDED")
  /\ UNCHANGED <<status, tickets, price>>

AdjustPayment(p, delta) ==
  /\ Write
  /\ payments[p].status = "VALIDATED"
  /\ payments' = [payments EXCEPT ![p].status = "ADJUSTED"]
  /\ journal' = Append(journal, [salon |-> payments[p].salon, payment |-> p,
                                 operation |-> "ADJUSTMENT", amount |-> delta, day |-> today])
  /\ Log(payments[p].salon, "CASH_ADJUSTED")
  /\ UNCHANGED <<status, tickets, price>>

UpdatePrice(s, amount) ==
  /\ Write
  /\ price' = [price EXCEPT ![s] = amount]
  /\ Log(Home[s], "SERVICE_UPDATED")
  /\ UNCHANGED <<status, tickets, payments, journal>>

OpenSalon(s) ==
  /\ Write
  /\ status[s] = None
  /\ status' = [status EXCEPT ![s] = "ACTIVE"]
  /\ UNCHANGED <<tickets, payments, journal, price, audit>>

(* UpdateCustomer, or UpdateEmployee for one who is a client too.          *)
Rename(x) ==
  /\ Happens
  /\ named' = IF x \in named THEN named \ {x} ELSE named \cup {x}
  /\ report' = [report EXCEPT !.renamed = @ \/ (Len(report.figures) = 1 /\ x \in named)]
  /\ UNCHANGED <<status, tickets, payments, journal, price, audit, today>>

(* A ticket waits longer than it was told; the day ends.                   *)
Wait(t) ==
  /\ Write
  /\ tickets[t].status = "waiting" /\ ~tickets[t].late
  /\ tickets' = [tickets EXCEPT ![t].late = TRUE]
  /\ UNCHANGED <<status, payments, journal, price, audit>>

Midnight ==
  /\ Happens
  /\ today < MaxDay
  /\ today' = today + 1
  /\ UNCHANGED <<world, report>>

-----------------------------------------------------------------------------
(* Periods (domain/revenue.py, domain/dashboard.py): their first and last  *)
(* day, None for one that is open.                                         *)
DayBounds(d)  == <<d, d>>
WeekBounds(d) == LET monday == d - (d % WeekLength) IN <<monday, monday + WeekLength - 1>>
MonthBounds(d) == LET days == {e \in DOMAIN Month : Month[e] = Month[d]}
                  IN <<Min(days), Max(days)>>

ResolvePeriod(kind, d, custom) ==
  CASE kind = "today" -> DayBounds(d)
    [] kind = "week"  -> WeekBounds(d)
    [] kind = "month" -> MonthBounds(d)
    [] kind = "custom" -> custom

InvalidPeriod(kind, custom) ==
  \/ kind \notin {"today", "week", "month", "custom"}
  \/ kind = "custom" /\ (None \in {custom[1], custom[2]} \/ custom[2] < custom[1])

PreviousPeriod(p) == LET length == p[2] - p[1] + 1 IN <<p[1] - length, p[1] - 1>>

Within(d, p) == (p[1] = None \/ p[1] <= d) /\ (p[2] = None \/ d <= p[2])

AuditCategories == {"prestations", "paiements_caisse", "file_attente"}

(* The filters of the lists want their bounds in order.                    *)
ValidRange(p)             == None \in {p[1], p[2]} \/ p[1] <= p[2]
ValidTransactionFilter(f) == ValidRange(f.days) /\ ValidRange(f.amounts)
ValidDiscrepancyFilter(p) == ValidRange(p)
ValidSummaryFilter(p)     == ValidRange(p)
ValidAuditLogFilter(f)    == ValidRange(f.days) /\ f.category \in AuditCategories \cup {None}

-----------------------------------------------------------------------------
(* The SELECTs on the tickets (queue_ticket_repository.py)                 *)
Of(s, statuses, p) == {t \in Tickets : /\ tickets[t].salon = s /\ tickets[t].status \in statuses
                                       /\ Within(tickets[t].day, p)}
Always == <<None, None>>
Statuses == {"waiting", "in_progress", "done", "expired"}

CountByStatus(s, statuses, p) == Cardinality(Of(s, statuses, p))
CountDistinctCompletedClients(s, p) ==
  Cardinality({tickets[t].card : t \in Of(s, {"done"}, p)} \ {None})
AttendanceSeries(s, p) ==
  [d \in {tickets[t].day : t \in Of(s, Statuses, p)} |-> Cardinality(Of(s, Statuses, DayBounds(d)))]
CountInProgress(s) == Cardinality(Of(s, {"in_progress"}, Always))
CountWaitingBeyondEstimate(s) == Cardinality({t \in Of(s, {"waiting"}, Always) : tickets[t].late})
InProgressDetails(s) == Of(s, {"in_progress"}, Always)

(* Of each service: how many tickets that are done hold it, and what they  *)
(* come to at its price of now.                                            *)
DemandByService(s, statuses, p) ==
  LET volume(x) == Cardinality({t \in Of(s, statuses, p) : x \in tickets[t].services})
  IN [x \in UNION {tickets[t].services : t \in Of(s, statuses, p)} |->
        [volume |-> volume(x), revenue |-> volume(x) * price[x]]]

(* performance_by_hairdresser: the services that are done, of each ...     *)
ServicesByHairdresser(s, p) ==
  [h \in Hairdressers |-> Sum(LAMBDA t : Cardinality(tickets[t].services),
     {t \in Of(s, {"done"}, p) : tickets[t].hairdresser = h})]

(* ... and the tickets, those that expired too.                            *)
CountsByHairdresser(s, p) ==
  LET had(h, statuses) == {t \in Of(s, statuses, p) : tickets[t].hairdresser = h}
  IN [h \in {h \in Hairdressers : had(h, Statuses) # {}} |->
        [total |-> Cardinality(had(h, Statuses)), cancelled |-> Cardinality(had(h, {"expired"}))]]

-----------------------------------------------------------------------------
(* The SELECTs on the journal (cash_journal_repository.py)                 *)
Lines(s, p) == {i \in DOMAIN journal : journal[i].salon = s /\ Within(journal[i].day, p)}
Revenue     == {"PAYMENT", "ADJUSTMENT"}
Net(lines)  == Sum(LAMBDA i : journal[i].amount, lines)

NetRevenueBetween(s, p) == Net({i \in Lines(s, p) : journal[i].operation \in Revenue})

NetRevenueSeriesPayments(s, p) ==                                   \* mutant
  LET on(d) == {i \in Lines(s, p) : journal[i].day = d /\ journal[i].operation = "PAYMENT"}
  IN [d \in {journal[i].day : i \in Lines(s, p)} |-> Net(on(d))]

NetRevenueSeries(s, p) ==
  LET on(d) == {i \in Lines(s, p) : journal[i].day = d /\ journal[i].operation \in Revenue}
  IN [d \in {journal[i].day : i \in Lines(s, p)} |-> Net(on(d))]

(* By the ticket of the payment, in the days of the ticket.                *)
TicketOf(i) == payments[journal[i].payment].ticket

NetRevenueByHairdresser(s, p) ==
  LET of(h) == {i \in Lines(s, Always) : /\ TicketOf(i) # None
                                         /\ tickets[TicketOf(i)].hairdresser = h
                                         /\ Within(tickets[TicketOf(i)].day, p)}
  IN [h \in {h \in Hairdressers : of(h) # {}} |-> Net(of(h))]

JournalLines(s) == Lines(s, Always)

-----------------------------------------------------------------------------
(* The SELECTs on the payments (payment_repository.py,                     *)
(* receipt_repository.py)                                                  *)
(* A search by name looks at the account and at the card of the ticket.    *)
Named(i) == \/ payments[i].client \in named
            \/ payments[i].ticket # None /\ tickets[payments[i].ticket].card \in named

(* The filter on payment_method, which no request changes, is left out.    *)
Transactions(s, f) ==
  {i \in DOMAIN payments : /\ payments[i].salon = s
                           /\ Within(payments[i].day, f.days)
                           /\ Within(payments[i].amount, f.amounts)
                           /\ f.client \in {None, payments[i].client}
                           /\ f.q => Named(i)}

PaidStatuses == {"VALIDATED", "ADJUSTED"}
Covered(t)   == \E i \in DOMAIN payments : payments[i].ticket = t /\ payments[i].status \in PaidStatuses
CompletedWithoutPayment(s, p) == {t \in Of(s, {"done"}, p) : ~Covered(t)}

Receipts(client) == {i \in DOMAIN payments : payments[i].client = client}

(* The lines of a receipt, at the prices of now.                           *)
ReceiptLines(i) ==
  [x \in IF payments[i].ticket = None THEN payments[i].services
         ELSE tickets[payments[i].ticket].services |-> price[x]]

Receipt(i) == [amount |-> payments[i].amount, lines |-> ReceiptLines(i)]

(* The SELECTs on the customers and the audit log                          *)
Visits(s, c) ==
  LET done == {t \in Of(s, {"done"}, Always) : tickets[t].card = c}
  IN [t \in done |-> [x \in tickets[t].services |-> price[x]]]
PaymentsOf(s, c) == {i \in DOMAIN payments : /\ payments[i].salon = s /\ payments[i].ticket # None
                                             /\ tickets[payments[i].ticket].card = c}

CategoryOf(action) ==
  CASE action = "SERVICE_UPDATED" -> "prestations"
    [] action \in {"PAYMENT_RECORDED", "CASH_ADJUSTED"} -> "paiements_caisse"
    [] action \in {"QUEUE_TICKET_STARTED", "QUEUE_TICKET_COMPLETED",
                   "QUEUE_TICKET_CANCELLED"} -> "file_attente"

AuditLogs(s, f) == {i \in DOMAIN audit : /\ audit[i].salon = s /\ Within(audit[i].day, f.days)
                                         /\ f.category \in {None, CategoryOf(audit[i].action)}}

(* The SELECTs of the administrator (platform_transaction_repository.py)   *)
OfPeriod(p) == {i \in DOMAIN journal : Within(journal[i].day, p)}
SummaryBySalon(p) ==
  LET of(s, operations) == {i \in OfPeriod(p) : journal[i].salon = s
                                                /\ journal[i].operation \in operations}
  IN [s \in {journal[i].salon : i \in OfPeriod(p)} |->
        [payments |-> Cardinality(of(s, {"PAYMENT"})),
         adjustments |-> Cardinality(of(s, {"ADJUSTMENT"})), total |-> Net(of(s, Revenue))]]
CountSalons(p) == Cardinality({journal[i].salon : i \in OfPeriod(p)})

(* Those of compute_snapshot, but the number of clients.                   *)
PlatformFigure(what, p) ==
  CASE what = "salons"  -> Cardinality({s \in Salons : status[s] # None})
    [] what = "active"  -> Cardinality({s \in Salons : status[s] = "ACTIVE"})
    [] what = "tickets" -> Cardinality({t \in Tickets : /\ tickets[t] # NoTicket
                                                        /\ Within(tickets[t].day, p)})
    [] what = "takings" -> Net(OfPeriod(p))

-----------------------------------------------------------------------------
(* One statement of a report, on the rows committed now.                   *)
Page(S) == AtMost(Cardinality(S), PageSize)

Select(q) ==
  LET s == q.salon  p == q.period
  IN CASE q.what = "waiting"     -> CountByStatus(s, {"waiting"}, p)
       [] q.what = "revenue"     -> NetRevenueBetween(s, p)
       [] q.what = "clients"     -> CountDistinctCompletedClients(s, p)
       [] q.what = "attendance"  -> AttendanceSeries(s, p)
       [] q.what = "in_progress" -> CountInProgress(s)
       [] q.what = "prolonged"   -> CountWaitingBeyondEstimate(s)
       [] q.what = "anomaly"     -> Cardinality(CompletedWithoutPayment(s, p))
       [] q.what = "series"      -> NetRevenueSeries(s, p)
       [] q.what = "details"     -> Cardinality(InProgressDetails(s))
       [] q.what = "demand"      -> DemandByService(s, {"done"}, p)
       [] q.what = "services"    -> ServicesByHairdresser(s, p)
       [] q.what = "counts"      -> CountsByHairdresser(s, p)
       [] q.what = "attributed"  -> NetRevenueByHairdresser(s, p)
       [] q.what = "discrepancies" -> Page(CompletedWithoutPayment(s, p))
       [] q.what = "transactions"  -> Page(Transactions(s, q.filter))
       [] q.what = "transactions_total" -> Cardinality(Transactions(s, q.filter))
       [] q.what = "journal"       -> Page(JournalLines(s))
       [] q.what = "journal_total" -> Cardinality(JournalLines(s))
       [] q.what = "audit"         -> Page(AuditLogs(s, q.filter))
       [] q.what = "audit_total"   -> Cardinality(AuditLogs(s, q.filter))
       [] q.what = "receipts"       -> Page(Receipts(q.filter))
       [] q.what = "receipts_total" -> Cardinality(Receipts(q.filter))
       [] q.what = "receipt"     -> Receipt(q.filter)
       [] q.what = "visits"      -> Visits(s, q.filter)
       [] q.what = "payments"    -> Cardinality(PaymentsOf(s, q.filter))
       [] q.what = "summary"     -> Page(DOMAIN SummaryBySalon(p))
       [] q.what = "summary_total" -> CountSalons(p)
       [] OTHER                  -> PlatformFigure(q.what, p)

Ask(what, s, p)       == [what |-> what, salon |-> s, period |-> p, filter |-> None]
Find(what, s, filter) == [what |-> what, salon |-> s, period |-> Always, filter |-> filter]

Request(kind, todo) ==
  /\ report = NoReport
  /\ report' = [NoReport EXCEPT !.kind = kind, !.todo = todo]
  /\ UNCHANGED <<world, today, commits>>

Refuse == report = NoReport /\ report' = [NoReport EXCEPT !.kind = "refused"]
          /\ UNCHANGED <<world, today, commits>>

-----------------------------------------------------------------------------
(* The use cases: the statements of each, in their order.                  *)
EveryTransaction == [days |-> Always, amounts |-> Always, client |-> None, q |-> FALSE]

SummarizeDashboardKpis(s, p) ==
  LET week == WeekBounds(today)
  IN << Ask("waiting", s, p), Ask("waiting", s, PreviousPeriod(p)),
        Ask("revenue", s, p), Ask("revenue", s, PreviousPeriod(p)),
        Ask("clients", s, p), Ask("clients", s, PreviousPeriod(p)),
        Ask("attendance", s, DayBounds(today)), Ask("attendance", s, DayBounds(today - 1)),
        Ask("revenue", s, week), Ask("revenue", s, PreviousPeriod(week)),
        Ask("in_progress", s, Always) >>

SummarizeRevenueSeries(s, p)    == <<Ask("series", s, p)>>
SummarizeAttendanceSeries(s, p) == <<Ask("attendance", s, p)>>
ListInProgressServices(s)       == <<Ask("details", s, Always)>>
ListRecentActivity(s)           == <<Find("transactions", s, EveryTransaction)>>
ListDashboardAlerts(s)          == <<Ask("prolonged", s, Always), Ask("anomaly", s, Always)>>

SummarizeRevenue(s, d) ==
  << Ask("revenue", s, DayBounds(d)), Ask("revenue", s, WeekBounds(d)),
     Ask("revenue", s, MonthBounds(d)) >>

SummarizeServiceDemand(s, p) == <<Ask("demand", s, p)>>
SummarizeHairdresserPerformance(s, p) ==
  <<Ask("services", s, p), Ask("counts", s, p), Ask("attributed", s, p)>>

ListTransactionsCountFirst(s, f) ==                                 \* mutant
  <<Find("transactions_total", s, f), Find("transactions", s, f)>>

ListTransactions(s, f)      == <<Find("transactions", s, f), Find("transactions_total", s, f)>>
ListCashDiscrepancies(s, p) == <<Ask("discrepancies", s, p), Ask("anomaly", s, p)>>
ListCashJournal(s)          == <<Ask("journal", s, Always), Ask("journal_total", s, Always)>>
ListAuditLogs(s, f)         == <<Find("audit", s, f), Find("audit_total", s, f)>>
ListMyReceipts(client)      == <<Find("receipts", None, client), Find("receipts_total", None, client)>>
ReceiptOf(i)                == <<Find("receipt", None, i)>>
VisitHistory(s, c)          == <<Find("visits", s, c)>>
PaymentHistory(s, c)        == <<Find("payments", s, c)>>

SummarizeSalonTransactions(p) == <<Ask("summary", None, p), Ask("summary_total", None, p)>>
ComputePlatformKpis ==
  LET month == MonthBounds(today)
  IN << Ask("salons", None, Always), Ask("active", None, Always),
        Ask("tickets", None, Always), Ask("tickets", None, month),
        Ask("takings", None, Always), Ask("takings", None, month) >>

-----------------------------------------------------------------------------
(* The routes: a period or a filter that is not valid is refused, and so   *)
(* is a receipt of another salon or client.                                *)
If(valid, kind, todo) == IF valid THEN Request(kind, todo) ELSE Refuse

(* GET dashboard/kpis, revenue-series, attendance-series, in-progress,     *)
(* activity and alerts                                                     *)
GetDashboardKpis(s, p)    == Request("kpis", SummarizeDashboardKpis(s, p))
GetRevenueSeries(s, p)    == Request("series", SummarizeRevenueSeries(s, p))
GetAttendanceSeries(s, p) == Request("attendance", SummarizeAttendanceSeries(s, p))
GetInProgress(s)          == Request("details", ListInProgressServices(s))
GetActivity(s)            == Request("activity", ListRecentActivity(s))
GetAlerts(s)              == Request("alerts", ListDashboardAlerts(s))

ResolveDashboardPeriod(s, kind, custom) ==
  LET p == ResolvePeriod(kind, today, custom)
  IN IF InvalidPeriod(kind, custom) THEN Refuse
     ELSE GetDashboardKpis(s, p) \/ GetRevenueSeries(s, p) \/ GetAttendanceSeries(s, p)

(* GET revenue/summary, service-demand and hairdresser-performance; one    *)
(* bound alone is the whole month for the last.                            *)
GetRevenueSummary(s, d) == Request("summary", SummarizeRevenue(s, d))
GetServiceDemand(s, p)  == If(ValidRange(p), "demand", SummarizeServiceDemand(s, p))

GetHairdresserPerformance(s, p) ==
  LET q == IF None \in {p[1], p[2]} THEN MonthBounds(today) ELSE p
  IN If(ValidRange(p), "performance", SummarizeHairdresserPerformance(s, q))

(* GET payments, discrepancies, cash-journal and payments/receipt          *)
GetTransactions(s, f)      ==
  If(ValidTransactionFilter(f), IF f.q THEN "search" ELSE "page", ListTransactions(s, f))
GetCashDiscrepancies(s, p) ==
  If(ValidDiscrepancyFilter(p), "discrepancies", ListCashDiscrepancies(s, p))
GetCashJournal(s)          == Request("page", ListCashJournal(s))
GetPaymentReceipt(s, i)    == If(payments[i].salon = s, "receipt", ReceiptOf(i))

(* GET audit-logs, me/receipts and one of them                             *)
GetAuditLogs(s, f)      == If(ValidAuditLogFilter(f), "page", ListAuditLogs(s, f))
GetMyReceipts(client)   == Request("page", ListMyReceipts(client))
GetMyReceipt(client, i) == If(payments[i].client = client, "receipt", ReceiptOf(i))

(* GET customers/history, stats and payments                               *)
GetCustomerHistory(s, c)  == Request("history", VisitHistory(s, c))
GetCustomerStats(s, c)    == Request("favourites", VisitHistory(s, c))
GetCustomerPayments(s, c) == Request("payments", PaymentHistory(s, c))

(* GET admin/transactions/summary and admin/kpis                           *)
GetSalonTransactions(p) == If(ValidSummaryFilter(p), "page", SummarizeSalonTransactions(p))
GetPlatformKpis         == Request("platform", ComputePlatformKpis)

(* The next statement of the report.                                       *)
Statement ==
  /\ report.todo # <<>>
  /\ report' = [report EXCEPT !.todo = Tail(@),
                              !.figures = Append(@, Select(Head(report.todo)))]
  /\ UNCHANGED <<world, today, commits>>

-----------------------------------------------------------------------------
(* What is shown of the figures (domain/)                                  *)
ComputeEvolution(current, previous) ==
  [current |-> current, previous |-> previous, delta |-> current - previous,
   direction |-> IF current > previous THEN "up" ELSE IF current < previous THEN "down" ELSE "flat"]

(* A bucket for each day of the period, zero without a value.              *)
BuildSeries(values, p) ==
  [d \in p[1] .. p[2] |-> IF d \in DOMAIN values THEN values[d] ELSE 0]

Total(f) == Sum(LAMBDA x : f[x], DOMAIN f)

DashboardKpis(f) ==
  [waiting_clients   |-> ComputeEvolution(f[1], f[2]),
   revenue           |-> ComputeEvolution(f[3], f[4]),
   clients_count     |-> ComputeEvolution(f[5], f[6]),
   attendance_today  |-> ComputeEvolution(Total(f[7]), Total(f[8])),
   revenue_this_week |-> ComputeEvolution(f[9], f[10]),
   in_progress       |-> f[11]]

(* Only the alerts that have something to say, the anomalies first.        *)
Alerts(f) == SelectSeq(<< [kind |-> "payment_anomaly", severity |-> "warning", count |-> f[2]],
                          [kind |-> "prolonged_wait", severity |-> "info", count |-> f[1]] >>,
                       LAMBDA alert : alert.count > 0)

(* Decreasing by the first key, then the second, then by the name.         *)
Ranked(S, first(_), second(_)) ==
  SetToSortSeq(S, LAMBDA x, y : \/ first(x) > first(y)
                                \/ first(x) = first(y) /\ second(x) > second(y)
                                \/ first(x) = first(y) /\ second(x) = second(y) /\ x < y)

RankServiceDemand(rows) ==
  LET volume(x) == rows[x].volume  revenue(x) == rows[x].revenue
  IN [by_volume |-> Ranked(DOMAIN rows, volume, revenue),
      by_revenue |-> Ranked(DOMAIN rows, revenue, volume)]

(* Per ten thousand; a hairdresser without tickets has no rate.            *)
CancellationRate(cancelled, total) ==
  IF total <= 0 THEN 0 ELSE (cancelled * 10000) \div total

RankHairdresserPerformance(services, counts, net) ==
  LET revenue(h) == IF h \in DOMAIN net THEN net[h] ELSE 0
      done(h)    == services[h]
  IN [i \in 1 .. Cardinality(DOMAIN counts) |->
        LET h == Ranked(DOMAIN counts, revenue, done)[i]
        IN [hairdresser |-> h, services |-> services[h], revenue |-> revenue(h),
            rate |-> CancellationRate(counts[h].cancelled, counts[h].total)]]

(* The visits of a customer at the prices of now, and what she asks for.   *)
VisitTotal(visit) == Total(visit)

BuildHistory(visits) ==
  [total_visits |-> Cardinality(DOMAIN visits),
   total_amount |-> Sum(LAMBDA t : VisitTotal(visits[t]), DOMAIN visits)]

FavouriteServices(visits) ==
  LET held(x) == {t \in DOMAIN visits : x \in DOMAIN visits[t]}
  IN [x \in UNION {DOMAIN visits[t] : t \in DOMAIN visits} |->
        [count |-> Cardinality(held(x)), total |-> Sum(LAMBDA t : visits[t][x], held(x))]]

Shown(kind, f) ==
  CASE kind = "kpis"        -> DashboardKpis(f)
    [] kind = "alerts"      -> Alerts(f)
    [] kind = "demand"      -> RankServiceDemand(f[1])
    [] kind = "performance" -> RankHairdresserPerformance(f[1], f[2], f[3])
    [] kind = "history"     -> BuildHistory(f[1])
    [] kind = "favourites"  -> FavouriteServices(f[1])
    [] OTHER                -> f

Respond ==
  /\ report.kind # None /\ report.shown = None /\ report.todo = <<>>
  /\ report' = [report EXCEPT !.shown = Shown(report.kind, report.figures)]
  /\ UNCHANGED <<world, today, commits>>

-----------------------------------------------------------------------------
Periods == {p \in (0 .. MaxDay + 1) \X (0 .. MaxDay + 1) : p[1] <= p[2]}
Asked   == {<<0, 2>>, <<2, 1>>, <<None, 1>>}
Filters == {[EveryTransaction EXCEPT !.days = p, !.client = c, !.q = q] :
              p \in Asked, c \in Clients, q \in BOOLEAN}

Others ==
  \/ \E t \in Tickets, s \in Salons, c \in Customers \cup {None} :
       \E ss \in SUBSET {x \in Services : Home[x] = s} \ {{}} : TakeTicket(t, s, c, ss)
  \/ \E t \in Tickets : \/ \E h \in Hairdressers : StartTicket(t, h)
                        \/ CompleteTicket(t) \/ CancelTicket(t) \/ Wait(t)
  \/ \E client \in Clients \cup {None} :
       \/ \E t \in Tickets : /\ tickets[t] # NoTicket
                             /\ RecordPayment(tickets[t].salon, t, tickets[t].services, client)
       \/ \E x \in Services : RecordPayment(Home[x], None, {x}, client)
  \/ \E i \in DOMAIN payments, delta \in Corrections : AdjustPayment(i, delta)
  \/ \E x \in Services, amount \in Prices : UpdatePrice(x, amount)
  \/ \E s \in Salons : OpenSalon(s)
  \/ \E x \in Clients \cup Customers : Rename(x)
  \/ Midnight

OfSalon(s) ==
  \/ \E kind \in {"today", "week", "month", "custom", "year"}, p \in Asked :
       ResolveDashboardPeriod(s, kind, p)
  \/ GetInProgress(s) \/ GetActivity(s) \/ GetAlerts(s) \/ GetCashJournal(s)
  \/ \E d \in 0 .. today : GetRevenueSummary(s, d)
  \/ \E p \in Asked : \/ GetServiceDemand(s, p) \/ GetHairdresserPerformance(s, p)
                      \/ GetCashDiscrepancies(s, p)
  \/ \E f \in Filters : GetTransactions(s, f)
  \/ \E i \in DOMAIN payments : GetPaymentReceipt(s, i)
  \/ \E p \in Asked, k \in AuditCategories \cup {None, "inconnue"} :
       GetAuditLogs(s, [days |-> p, category |-> k])
  \/ \E c \in Customers : \/ GetCustomerHistory(s, c) \/ GetCustomerStats(s, c)
                      \/ GetCustomerPayments(s, c)

OfPlatform ==
  \/ GetPlatformKpis
  \/ \E p \in Asked : GetSalonTransactions(p)
  \/ \E client \in Clients : \/ GetMyReceipts(client)
                             \/ \E i \in DOMAIN payments : GetMyReceipt(client, i)

Next == \/ Others
        \/ \E s \in Salons : status[s] # None /\ OfSalon(s)
        \/ OfPlatform
        \/ Statement \/ Respond

Spec == Init /\ [][Next]_vars

-----------------------------------------------------------------------------
(* The same money and the same tickets are counted by queries that share   *)
(* nothing: by day, by hairdresser, by service, by customer, by salon, on  *)
(* the journal, on the payments and on the tickets.  They agree in every   *)
(* state, whatever was adjusted, paid without a ticket, paid twice,        *)
(* expired or priced anew ("coherents avec la file d'attente et la         *)
(* caisse", hairdresser_performance.py).                                   *)
Unattributed(s) == {i \in Lines(s, Always) :
                      TicketOf(i) = None \/ tickets[TicketOf(i)].hairdresser = None}
Adjustments(s)  == {i \in Lines(s, Always) : journal[i].operation = "ADJUSTMENT"}

FiguresAgree ==
  report = NoReport =>
  /\ \A s \in Salons :
       LET demand(p) == DemandByService(s, {"done"}, p)
       IN /\ \A p \in Periods :
               /\ Total(BuildSeries(NetRevenueSeries(s, p), p)) = NetRevenueBetween(s, p)
               /\ Total(BuildSeries(AttendanceSeries(s, p), p))
                    = Sum(LAMBDA x : CountByStatus(s, {x}, p), Statuses)
               /\ Sum(LAMBDA x : demand(p)[x].volume, DOMAIN demand(p))
                    = Total(ServicesByHairdresser(s, p))
          /\ Total(NetRevenueByHairdresser(s, Always)) + Net(Unattributed(s))
               = NetRevenueBetween(s, Always)
          /\ Sum(LAMBDA i : payments[i].amount, Transactions(s, EveryTransaction))
               + Net(Adjustments(s)) = NetRevenueBetween(s, Always)
          /\ Sum(LAMBDA c : BuildHistory(Visits(s, c)).total_amount, Customers \cup {None})
               = Sum(LAMBDA x : demand(Always)[x].revenue, DOMAIN demand(Always))
  /\ Sum(LAMBDA s : SummaryBySalon(Always)[s].total, DOMAIN SummaryBySalon(Always))
       = Sum(LAMBDA s : NetRevenueBetween(s, Always), Salons)

(* The total of a list is counted after its page was read: whatever        *)
(* commits between the two, a page never shows more than the total, in a   *)
(* list of transactions, of journal lines, of receipts, of audit lines or  *)
(* of salons.  A search by name is the exception, and only when somebody   *)
(* whose name matched was renamed between the two.                         *)
TotalsCoverPages ==
  /\ report.kind \in {"page", "search"} /\ report.todo = <<>>
  /\ report.kind = "search" => ~report.renamed
  => report.figures[1] <= report.figures[2]
=============================================================================
