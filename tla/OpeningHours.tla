----------------------------- MODULE OpeningHours -----------------------------
(***************************************************************************)
(* The opening hours of a salon: SetOpeningHours (application/salons.py)   *)
(* with the validation of domain/opening_hours.py, and what may be booked  *)
(* within them (domain/availability.py).                                   *)
(*                                                                         *)
(* A time is a minute of the day.  Interval bounds that are not times and  *)
(* unknown days and fields are refused before this model begins.  The      *)
(* algorithms are translated as they are written; the properties define    *)
(* anew, minute by minute, what they should compute.  Reading changes      *)
(* nothing: a behaviour ends with its first question or refusal.           *)
(***************************************************************************)
EXTENDS Integers, Sequences, FiniteSets

CONSTANTS
  DayEnd,        \* minutes of a day
  MaxIntervals,  \* MAX_INTERVALS_PER_DAY
  MaxExceptions, \* MAX_EXCEPTIONS
  Dates, Weekday, \* dates, numbered, and the day of the week of each
  Payloads,      \* bound: bodies of PUT opening-hours
  Queries,       \* bound: [date, duration, step, booked, now] asked of the hours
  None

VARIABLES
  hours,  \* salons.opening_hours
  saved,  \* the body it was made from
  offer   \* a query and its answer

vars == <<hours, saved, offer>>

NoOffer == [query |-> None, slots |-> {}]

Init == hours = None /\ saved = None /\ offer = NoOffer

-----------------------------------------------------------------------------
(* domain/opening_hours.py                                                 *)
(* list.sort with a key: by rank, and equal keys in the order they had.    *)
Rank(key, i)     == Cardinality({j \in DOMAIN key : \/ key[j] < key[i]
                                                    \/ key[j] = key[i] /\ j <= i})
Sorted(key, seq) == [k \in DOMAIN seq |-> seq[CHOOSE i \in DOMAIN seq : Rank(key, i) = k]]
ByStart(raw)     == Sorted([i \in DOMAIN raw |-> raw[i].start], raw)
ByDate(raw)      == Sorted([i \in DOMAIN raw |-> raw[i].date], raw)

AcceptIntervalsUnsorted(raw) ==                                     \* mutant
  /\ Len(raw) <= MaxIntervals
  /\ \A i \in DOMAIN raw : /\ raw[i].start < raw[i].end
                           /\ i > 1 => raw[i].start # raw[i - 1].start

(* _parse_intervals: each ends after it starts, and in the order of their  *)
(* starts none begins before the one before it ends.                       *)
AcceptIntervals(raw) ==
  LET sorted == ByStart(raw)
  IN /\ Len(raw) <= MaxIntervals
     /\ \A i \in DOMAIN raw : raw[i].start < raw[i].end
     /\ \A i \in DOMAIN raw : i > 1 => sorted[i].start >= sorted[i - 1].end

(* _parse_exceptions: dates differ, and a date is closed if and only if it *)
(* has no interval.                                                        *)
AcceptExceptions(raw) ==
  /\ Len(raw) <= MaxExceptions
  /\ \A i, j \in DOMAIN raw : i # j => raw[i].date # raw[j].date
  /\ \A i \in DOMAIN raw : /\ AcceptIntervals(raw[i].intervals)
                           /\ raw[i].closed <=> raw[i].intervals = <<>>

(* parse_opening_hours, which also wants an interval somewhere.            *)
Accept(p) ==
  /\ \A d \in DOMAIN p.weekly : AcceptIntervals(p.weekly[d])
  /\ AcceptExceptions(p.exceptions)
  /\ \/ \E d \in DOMAIN p.weekly : p.weekly[d] # <<>>
     \/ \E i \in DOMAIN p.exceptions : ~p.exceptions[i].closed

(* The form that is stored: sorted, with only the days that open.          *)
Canonical(p) ==
  [weekly |-> [d \in {d \in DOMAIN p.weekly : p.weekly[d] # <<>>} |->
                 ByStart(p.weekly[d])],
   exceptions |-> ByDate([i \in DOMAIN p.exceptions |->
                    [p.exceptions[i] EXCEPT !.intervals = ByStart(@)]])]

(* PUT opening-hours: replaces what is there, if it is valid.              *)
SetOpeningHours(p) ==
  /\ offer = NoOffer /\ Accept(p)
  /\ hours' = Canonical(p) /\ saved' = p
  /\ UNCHANGED offer

RefuseOpeningHours(p) ==
  /\ offer = NoOffer /\ ~Accept(p)
  /\ offer' = [query |-> p, slots |-> {}]
  /\ UNCHANGED <<hours, saved>>

-----------------------------------------------------------------------------
(* domain/availability.py                                                  *)
OverlapsClosed(a, b) == a.start <= b.end /\ b.start <= a.end        \* mutant
Overlaps(a, b)       == a.start < b.end /\ b.start < a.end

(* An exception takes precedence over the week.                            *)
IntervalsForDate(h, date) ==
  LET on == {i \in DOMAIN h.exceptions : h.exceptions[i].date = date}
  IN IF on # {} THEN h.exceptions[CHOOSE i \in on : TRUE].intervals
     ELSE IF Weekday[date] \in DOMAIN h.weekly THEN h.weekly[Weekday[date]]
     ELSE <<>>

(* The grid of an interval, step by step from its start.                   *)
Candidates(interval, duration, step) ==
  {m \in {interval.start + k * step : k \in 0 .. DayEnd} : m + duration <= interval.end}

(* The minute of the date before which a slot is past; dates are days.     *)
Past(q) == IF q.now = None THEN 0 ELSE q.now.minute - (q.date - q.now.date) * DayEnd

FreeSlots(h, q) ==
  IF q.duration <= 0 \/ q.step <= 0 THEN {}
  ELSE LET intervals == IntervalsForDate(h, q.date)
           slots == {[start |-> m, end |-> m + q.duration] :
                       m \in UNION {Candidates(intervals[i], q.duration, q.step) :
                                      i \in DOMAIN intervals}}
       IN {s \in slots : /\ q.now = None \/ s.start >= Past(q)
                         /\ \A b \in q.booked : ~Overlaps(s, b)}

Ask(q) ==
  /\ offer = NoOffer /\ hours # None
  /\ offer' = [query |-> q, slots |-> FreeSlots(hours, q)]
  /\ UNCHANGED <<hours, saved>>

IsOffered(h, slot, q) == slot.end - slot.start = q.duration /\ slot \in FreeSlots(h, q)

Next == \/ \E p \in Payloads : SetOpeningHours(p) \/ RefuseOpeningHours(p)
        \/ \E q \in Queries : Ask(q)

Spec == Init /\ [][Next]_vars

-----------------------------------------------------------------------------
(* What the proofs take of the constants: a body is made of intervals of   *)
(* times and of exceptions, and what is booked takes time.                 *)
Times == [start : 0 .. DayEnd, end : 0 .. DayEnd]

HoursAssumption ==
  /\ DayEnd \in Nat /\ MaxIntervals \in Nat /\ MaxExceptions \in Nat
  /\ None \notin Payloads \cup Queries /\ Payloads \cap Queries = {}
  /\ \A p \in Payloads :
       /\ \A d \in DOMAIN p.weekly : p.weekly[d] \in Seq(Times)
       /\ p.exceptions \in Seq([date : Dates, closed : BOOLEAN, intervals : Seq(Times)])
  /\ Dates \subseteq Int
  /\ \A q \in Queries :
       /\ q.date \in Int /\ q.duration \in Int /\ q.step \in Int
       /\ \A b \in q.booked : b.start \in Int /\ b.end \in Int /\ b.start < b.end
       /\ q.now # None => q.now.date \in Int /\ q.now.minute \in 0 .. DayEnd

Minutes(interval)  == interval.start .. interval.end - 1
OpenIn(intervals)  == UNION {Minutes(intervals[i]) : i \in DOMAIN intervals}
Asked(intervals)   == Cardinality(OpenIn(intervals))

(* What a body says of a date, without any order: it is coherent if it     *)
(* gives no minute twice and no interval without a minute.                 *)
Coherent(raw) ==
  /\ \A i \in DOMAIN raw : Minutes(raw[i]) # {}
  /\ \A i, j \in DOMAIN raw : i # j => Minutes(raw[i]) \cap Minutes(raw[j]) = {}

Dated(p, date) == {i \in DOMAIN p.exceptions : p.exceptions[i].date = date}

Said(p, date) ==
  IF Dated(p, date) # {} THEN UNION {OpenIn(p.exceptions[i].intervals) : i \in Dated(p, date)}
  ELSE IF Weekday[date] \in DOMAIN p.weekly THEN OpenIn(p.weekly[Weekday[date]]) ELSE {}

(* The hours that are stored open each date for the minutes that the body  *)
(* gave it, whatever the order of its intervals, and a minute lies in one  *)
(* interval only (opening_hours.py, "valide, ordonne et verifie la         *)
(* non-chevauchance"); a body that was refused gave a minute twice, an     *)
(* empty interval, a date twice, a contradiction, too much or nothing.     *)
HoursSayWhatWasAsked ==
  /\ hours # None => \A date \in Dates :
       LET intervals == IntervalsForDate(hours, date)
       IN OpenIn(intervals) = Said(saved, date) /\ Coherent(intervals)
  /\ offer.query \in Payloads =>
       LET p == offer.query
       IN \/ \E d \in DOMAIN p.weekly : ~Coherent(p.weekly[d]) \/ Len(p.weekly[d]) > MaxIntervals
          \/ Len(p.exceptions) > MaxExceptions
          \/ \E date \in Dates : Cardinality(Dated(p, date)) > 1
          \/ \E i \in DOMAIN p.exceptions :
               LET e == p.exceptions[i]
               IN \/ ~Coherent(e.intervals) \/ Len(e.intervals) > MaxIntervals
                  \/ e.closed <=> OpenIn(e.intervals) # {}
          \/ \A d \in DOMAIN p.weekly : p.weekly[d] = <<>>

(* A slot is offered if and only if it lies on the grid of an interval, is *)
(* open and free in each of its minutes and not past (availability.py).    *)
Free(q, m) == /\ \A n \in m .. m + q.duration - 1 : \A b \in q.booked : n \notin Minutes(b)
              /\ q.now # None => q.date > q.now.date \/ (q.date = q.now.date /\ m >= q.now.minute)

OnGrid(q, intervals, m) ==
  \E i \in DOMAIN intervals : /\ (m .. m + q.duration - 1) \subseteq Minutes(intervals[i])
                              /\ (m - intervals[i].start) % q.step = 0

SlotsAreFree ==
  hours # None /\ offer.query \in Queries =>
    LET q == offer.query
        slot(m) == [start |-> m, end |-> m + q.duration]
        free == {m \in 0 .. DayEnd : /\ q.duration > 0 /\ q.step > 0 /\ Free(q, m)
                                     /\ OnGrid(q, IntervalsForDate(hours, q.date), m)}
    IN /\ offer.slots = {slot(m) : m \in free}
       /\ \A m \in 0 .. DayEnd : IsOffered(hours, slot(m), q) <=> m \in free
=============================================================================
