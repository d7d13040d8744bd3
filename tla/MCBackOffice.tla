----------------------------- MODULE MCBackOffice -----------------------------
(* An instance of BackOffice for TLC, or of SalonReports: a behaviour is   *)
(* one of the desks of the office, or a reader of its figures.  The        *)
(* reports have writers of their own, and the office reads none of them.   *)
EXTENDS BackOffice, TLC

CONSTANTS
  s1, s2,               \* salons
  v1,                   \* a service
  c1, c2,               \* customer cards
  m1, m2, h1, t1, t2,   \* managers, a hairdresser, kiosks
  p1, p2, p3, p4, p6,   \* telephones
  f1,                   \* a name on a card
  k1, n1, abidjan

VARIABLES
  reading,   \* whether this behaviour is about the reports
  status, tickets, payments, journal, price, audit, named, today, commits, report

reportVars ==
  <<status, tickets, payments, journal, price, audit, named, today, commits, report>>
mcvars     == <<reading, officeVars, reportVars>>

(* Two salons and their managers; the first has a hairdresser, a kiosk and *)
(* a kiosk that was revoked and then activated as if it were an employee.  *)
Account(role, is, p) == [role |-> role, status |-> is, phone |-> p]
Seated(role)         == [role |-> role, status |-> "ACTIVE", specialties |-> k1]

UsersAtFirst ==
  m1 :> Account("MANAGER", "ACTIVE", p1) @@ m2 :> Account("MANAGER", "ACTIVE", p2)
  @@ h1 :> Account("HAIRDRESSER", "ACTIVE", p3) @@ t1 :> Account("TERMINAL", "ACTIVE", p4)
  @@ t2 :> Account("TERMINAL", "SUSPENDED", p6)
Managers == s1 :> m1 @@ s2 :> m2
MembersAtFirst ==
  <<s1, h1>> :> Seated("HAIRDRESSER") @@ <<s1, t1>> :> Seated("TERMINAL")
  @@ <<s1, t2>> :> Seated("TERMINAL")

(* The first salon has a card without a telephone and one with p1.         *)
Card(s, p) == [salon |-> s, full_name |-> f1, phone |-> p, gender |-> None, notes |-> None]

CardsAtFirst == c1 :> Card(s1, None) @@ c2 :> Card(s1, p1)

(* Bodies with up to three intervals in any order, valid or not, and with  *)
(* the exceptions that the rules tell apart; one day of the week and one   *)
(* that no rule of the week mentions.                                      *)
I(a, b)       == [start |-> a, end |-> b]
Intervals     == [start : 0 .. 2, end : 1 .. 3]
Ordinary      == {<<>>} \cup {<<a>> : a \in Intervals} \cup {<<a, b>> : a, b \in Intervals}
Crowded       == {<<I(2, 3), I(0, 1), I(1, 2)>>}
On(d, closed, intervals) == [date |-> d, closed |-> closed, intervals |-> intervals]
Exceptions    == {<<>>, <<On(1, TRUE, <<>>)>>, <<On(1, TRUE, <<I(1, 3)>>)>>, <<On(2, FALSE, <<>>)>>,
                  <<On(2, FALSE, <<I(1, 3), I(0, 2)>>)>>,
                  <<On(2, FALSE, <<I(2, 3), I(0, 1)>>), On(1, TRUE, <<>>)>>,
                  <<On(1, TRUE, <<>>), On(1, FALSE, <<I(1, 3)>>)>>,
                  <<On(1, TRUE, <<>>), On(2, TRUE, <<>>), On(3, TRUE, <<>>)>>}
Bodies        == {[weekly |-> [d \in {"mon"} |-> w], exceptions |-> e] :
                    w \in Ordinary \cup Crowded, e \in Exceptions}
Questions     == [date : {1, 2}, duration : 0 .. 2, step : {1, 2},
                  booked : {{}, {I(1, 2)}}, now : {None} \cup [date : 0 .. 2, minute : {1}]]

Week          == <<"mon", "tue", "mon">>

SalonsAtFirst ==
  s1 :> [name |-> n1, city |-> abidjan, status |-> "ACTIVE", opening_hours |-> None]
ServicesAtFirst ==
  v1 :> [salon |-> s1, name |-> n1, price |-> 1, duration |-> 1, is_active |-> TRUE]

(* Two salons, of which one is suspended and one opens later; a ticket     *)
(* that is done and paid, one that waits and one that may be taken; two    *)
(* services of the first salon and one of the second.                      *)
Ticket(d, is, h, c, ss) == [salon |-> "s1", day |-> d, status |-> is, hairdresser |-> h,
                            card |-> c, services |-> ss, late |-> FALSE]
Logged(action)          == [salon |-> "s1", action |-> action, day |-> 1]

Reports == INSTANCE SalonReports WITH
  Salons <- {"s1", "s2"}, Services <- 1 .. 3, Home <- <<"s1", "s1", "s2">>,
  Hairdressers <- 1 .. 2, Customers <- {"c1"}, Clients <- {"u"}, Tickets <- {"t1", "t2", "t3"},
  Row0 <- "t1" :> Ticket(1, "done", 1, "c1", {1, 2})
          @@ "t2" :> Ticket(2, "waiting", None, None, {1}),
  Payment0 <- <<[salon |-> "s1", ticket |-> "t1", services |-> {}, amount |-> 8,
                 status |-> "VALIDATED", client |-> "u", day |-> 1]>>,
  Log0 <- <<Logged("QUEUE_TICKET_STARTED"), Logged("QUEUE_TICKET_COMPLETED"),
            Logged("PAYMENT_RECORDED")>>,
  Price0 <- <<3, 5, 2>>, Prices <- {4}, Corrections <- {-1},
  Salon0 <- "s1" :> "SUSPENDED" @@ "s2" :> None,
  MaxDay <- 3, MaxCommits <- 2, WeekLength <- 2, Month <- [d \in 0 .. 5 |-> d \div 2],
  PageSize <- 1

(* Requests are interchangeable.                                           *)
Symmetry == Permutations(Requests)

-----------------------------------------------------------------------------
MCInit == /\ OfficeInit /\ Reports!Init
          /\ reading \in BOOLEAN /\ (reading => desk = "staff")

MCNext == \/ ~reading /\ OfficeNext /\ UNCHANGED <<reading, reportVars>>
          \/ reading /\ Reports!Next /\ UNCHANGED <<reading, officeVars>>

MCSpec == MCInit /\ [][MCNext]_mcvars

(* What two reports say of the same money and the same tickets agrees, and *)
(* no page holds more than the total that goes with it (SalonReports).     *)
ReportsAgree == reading => Reports!FiguresAgree /\ Reports!TotalsCoverPages
=============================================================================
