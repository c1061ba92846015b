------------------------------ MODULE Calendar ------------------------------
(***************************************************************************)
(* When a kitchen or a zone is open, and when its screens say it opens     *)
(* again.  Weekly slots may cross midnight; dated exceptions close it, and *)
(* open it if it is a zone.  Staff change them while time passes.          *)
(*                                                                         *)
(* Time is counted in hours of the country; a day has DayHours of them and *)
(* a week WeekDays days.  The code looks WeekDays + 1 days ahead.          *)
(***************************************************************************)
EXTENDS Naturals, FiniteSets, FiniteSetsExt

CONSTANTS
  DayHours, WeekDays,
  Timetables,        \* the weeks staff may enter: sets of slots
  Spans,             \* and the dated intervals, [from, to]
  FirstHour, LastHour

Slot == [weekday : 0..(WeekDays - 1), opens : 0..(DayHours - 1), closes : 0..(DayHours - 1)]

ASSUME CalendarAssumption ==
  /\ DayHours \in Nat \ {0} /\ WeekDays \in Nat \ {0}
  /\ \A week \in Timetables :
       /\ week \subseteq Slot
       /\ \A s, u \in week : s.weekday = u.weekday /\ s.opens = u.opens => s = u
       /\ \A s \in week : s.opens # s.closes
  /\ \A e \in Spans : e.from \in Nat /\ e.to \in Nat /\ e.from < e.to
  /\ FirstHour \in Nat /\ LastHour \in Nat /\ FirstHour >= WeekDays * DayHours
  /\ FirstHour <= LastHour

VARIABLES
  whose,        \* "zone" or "kitchen": the code has one reader for each
  week,         \* ZoneOpeningHours or OpeningHours
  exceptions,   \* ZoneScheduleException, or KitchenClosure
  hour

calendarVars == <<whose, week, exceptions, hour>>

Exception == [kind : {"closed", "open"}, span : Spans]

CalendarInit ==
  /\ whose \in {"zone", "kitchen"} /\ week = {} /\ exceptions = {}
  /\ hour = FirstHour

-----------------------------------------------------------------------------
(* Staff.  A zone is given its whole week, a kitchen one slot at a time.   *)

replace_zone_hours(w) ==
  /\ whose = "zone"
  /\ week' = w
  /\ UNCHANGED <<whose, exceptions, hour>>

ChangeOneSlot(w) ==
  /\ whose = "kitchen"
  /\ Cardinality(w \ week) + Cardinality(week \ w) = 1
  /\ week' = w
  /\ UNCHANGED <<whose, exceptions, hour>>

(* Only a zone has exceptional openings, and refuses what is already over. *)
AddException(e) ==
  /\ e \notin exceptions
  /\ whose = "zone" => e.span.to > hour
  /\ whose = "kitchen" => e.kind = "closed"
  /\ exceptions' = exceptions \cup {e}
  /\ UNCHANGED <<whose, week, hour>>

RemoveException(e) ==
  /\ e \in exceptions
  /\ exceptions' = exceptions \ {e}
  /\ UNCHANGED <<whose, week, hour>>

HourPasses ==
  /\ hour < LastHour
  /\ hour' = hour + 1
  /\ UNCHANGED <<whose, week, exceptions>>

CalendarNext ==
  \/ \E w \in Timetables : replace_zone_hours(w) \/ ChangeOneSlot(w)
  \/ \E e \in Exception : AddException(e) \/ RemoveException(e)
  \/ HourPasses

CalendarSpec == CalendarInit /\ [][CalendarNext]_calendarVars

-----------------------------------------------------------------------------
(* slots_cover: today's slots, and yesterday's that cross midnight.        *)
Weekday(t) == (t \div DayHours) % WeekDays
Yesterday(t) == (Weekday(t) + WeekDays - 1) % WeekDays
CrossesMidnight(s) == s.closes < s.opens

TodayCovers(s, t) ==
  /\ s.weekday = Weekday(t) /\ s.opens <= t % DayHours
  /\ CrossesMidnight(s) \/ t % DayHours < s.closes
slots_cover_today(slots, t) == \E s \in slots : TodayCovers(s, t)   \* mutant
slots_cover(slots, t) ==
  \E s \in slots :
    \/ TodayCovers(s, t)
    \/ s.weekday = Yesterday(t) /\ CrossesMidnight(s) /\ t % DayHours < s.closes

Covers(e, t) == e.span.from <= t /\ t < e.span.to
UnderWay(kind, t) == \E e \in exceptions : e.kind = kind /\ Covers(e, t)

(* A zone without slots follows its kitchen; a kitchen without is closed.  *)
ZoneIsOpen(t) ==
  /\ ~UnderWay("closed", t)
  /\ UnderWay("open", t) \/ week = {} \/ slots_cover(week, t)
KitchenIsOpen(t) == slots_cover(week, t) /\ ~UnderWay("closed", t)
IsOpen(t) == IF whose = "zone" THEN ZoneIsOpen(t) ELSE KitchenIsOpen(t)

-----------------------------------------------------------------------------
(* _prochaine_ouverture and next_opening: the instants worth trying, in    *)
(* order.  Never is the None of the code.                                  *)
Never == {}
Earliest(instants) == IF instants = {} THEN Never ELSE {Min(instants)}

Today == hour \div DayHours
Starts(days) ==
  {p[1] * DayHours + p[2].opens : p \in {q \in days \X week : q[1] % WeekDays = q[2].weekday}}
Unfinished == {e \in exceptions : e.span.to > hour}

ZoneBounds ==
  {t \in {e.span.from : e \in Unfinished} \cup {e.span.to : e \in Unfinished}
         \cup Starts(Today..(Today + WeekDays)) : t > hour}
ZoneReopens == Earliest({t \in ZoneBounds : ZoneIsOpen(t)})

Limit == hour + (WeekDays + 1) * DayHours
KitchenBounds ==
  {t \in {hour} \cup {e.span.to : e \in Unfinished}
         \cup Starts((Today - 1)..(Today + WeekDays + 1)) : hour <= t /\ t <= Limit}
KitchenReopens == Earliest({t \in KitchenBounds : KitchenIsOpen(t)})

Reopens == IF whose = "zone" THEN ZoneReopens ELSE KitchenReopens

-----------------------------------------------------------------------------
CalendarTypeOK ==
  /\ whose \in {"zone", "kitchen"} /\ week \in Timetables \cup {{}}
  /\ exceptions \subseteq Exception /\ hour \in FirstHour..LastHour

(* What the calendar says, slot by slot on the line of time.               *)
SlotHolds(s, t) ==
  \E d \in 0..(t \div DayHours) :
    LET from == d * DayHours + s.opens
        to   == d * DayHours + s.closes + (IF s.closes < s.opens THEN DayHours ELSE 0)
    IN  d % WeekDays = s.weekday /\ from <= t /\ t < to
OpenByTheClock(t) ==
  /\ ~UnderWay("closed", t)
  /\ \/ whose = "zone" /\ (UnderWay("open", t) \/ week = {})
     \/ \E s \in week : SlotHolds(s, t)

(* schedule.py, availability.py: "les essayer dans l'ordre donne la reponse*)
(* exacte".  A place that is closed is said to open again at the first     *)
(* hour it does, midnight, closures and exceptional openings included, and *)
(* never at another: within the week the code looks ahead, as long as no   *)
(* exception of a zone goes further.                                       *)
EndOfSearch == IF whose = "zone" THEN (Today + WeekDays + 1) * DayHours ELSE Limit + 1
ReopensWhenTold ==
  /\ IsOpen(hour) <=> OpenByTheClock(hour)
  /\ ~IsOpen(hour) /\ (whose = "zone" => \A e \in exceptions : e.span.to < EndOfSearch) =>
       Reopens = Earliest({t \in hour..(EndOfSearch - 1) : OpenByTheClock(t)})
=============================================================================
