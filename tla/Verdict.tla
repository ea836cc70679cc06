------------------------------- MODULE Verdict -------------------------------
(***************************************************************************)
(* The decision itself: what evaluate (engine.rs) says of a policy, the    *)
(* usage so far and an instant.  A pure function; Access asks it while the *)
(* world moves on.                                                         *)
(*                                                                         *)
(* Time is counted in units ("hours") since the Monday on which date 0     *)
(* begins.  A day has HoursPerDay of them and a week WeekDays days, so     *)
(* that a model can have short ones.  Clocks are those of the policy's     *)
(* time zone, which keeps its distance to UTC: clock changes are not       *)
(* modelled.  The words of a refusal mix in a date of the daemon's own     *)
(* zone (Facts).  next_warning and limited_by only decorate an allowance   *)
(* and are left to Announcements.                                          *)
(***************************************************************************)
EXTENDS Integers, FiniteSets, FiniteSetsExt

CONSTANTS
  None,         \* an Option without a value; an unlimited quota
  HoursPerDay,  \* 24 hours
  DayStart,     \* policy.day_start
  WeekDays,     \* 7, Monday first
  Lookahead     \* days searched for the next window, 9

ASSUME CalendarAssumption ==
  /\ HoursPerDay \in Nat \ {0}
  /\ DayStart \in 0 .. HoursPerDay - 1
  /\ WeekDays \in Nat \ {0}
  /\ Lookahead \in Nat \ (0 .. WeekDays)
  /\ None \notin Int

Clock == 0 .. HoursPerDay - 1
Day == 0 .. WeekDays - 1

-----------------------------------------------------------------------------
(* The calendar (schedule.rs). *)

At(date, clock) == date * HoursPerDay + clock
DateOf(t) == t \div HoursPerDay
ClockOf(t) == t % HoursPerDay

PolicyDay(t) == IF ClockOf(t) < DayStart THEN DateOf(t) - 1 ELSE DateOf(t)

Weekday(date) == date % WeekDays

PolicyDayEnd(date) == At(date + 1, DayStart)

WeekStart(date) == date - Weekday(date)

\* A week schedule: a default and the days that override it.
Get(schedule, date) ==
  LET day == Weekday(date)
  IN IF day \in DOMAIN schedule.overrides THEN schedule.overrides[day]
     ELSE schedule.default

-----------------------------------------------------------------------------
(* Policies, as far as evaluate reads them, and the check they pass before *)
(* anybody is held to them.                                                *)

IsSchedule(s, S) ==
  /\ s.default \in S
  /\ DOMAIN s.overrides \subseteq Day
  /\ \A day \in DOMAIN s.overrides : s.overrides[day] \in S

Windows(p, date) == Get(p.windows, date)

Valid(p) ==
  /\ \A date \in Day :
       /\ \A w \in Windows(p, date) : w.start # w.end
       /\ Windows(p, date) # {} => Get(p.daily, date) # 0
  /\ p.weekly # None /\ (\A date \in Day : Get(p.daily, date) # None)
       => p.weekly <= MapThenSumSet(LAMBDA date : Get(p.daily, date), Day)

-----------------------------------------------------------------------------
(* Windows as intervals of time. *)

\* A clock time before the start of the day belongs to its second half.
Resolve(date, clock) == At(IF clock >= DayStart THEN date ELSE date + 1, clock)

Pinned(date, w) ==
  LET start == Resolve(date, w.start)
      end == Resolve(date, w.end)
  IN [start |-> start,
      end |-> IF end <= start THEN end + HoursPerDay ELSE end]

\* What becomes of overlapping and touching intervals: one for each start that
\* no earlier interval reaches, lasting until no interval runs.
Runs(i, t) == i.start <= t /\ t < i.end

Reaches(i, j) == i.start < j.start /\ j.start <= i.end

Merged(I) ==
  {[start |-> i.start,
    end |-> Min({k.end : k \in {j \in I : /\ j.end > i.start
                                          /\ \A l \in I : ~Runs(l, j.end)}})] :
     i \in {j \in I : \A k \in I : ~Reaches(k, j)}}

\* Mutant: windows that touch stay two.
WindowsUnmerged(p, date) == {Pinned(date, w) : w \in Windows(p, date)}

ConcreteWindows(p, date) ==
  Merged({Pinned(date, w) : w \in Windows(p, date)})

\* Mutant: the rest of today is forgotten.
WindowsFromTomorrow(p, from) ==
  UNION {ConcreteWindows(p, from + offset) : offset \in 1 .. Lookahead}

UpcomingWindows(p, from) ==
  UNION {ConcreteWindows(p, from + offset) : offset \in 0 .. Lookahead - 1}

-----------------------------------------------------------------------------
(* The verdict.  A usage snapshot u has the time used in this policy day   *)
(* and in this policy week, and the bonus granted for this day.            *)

Minus(a, b) == IF a > b THEN a - b ELSE 0

Least(S) == IF S \ {None} = {} THEN None ELSE Min(S \ {None})

DailyRemaining(p, u, t) ==
  LET limit == Get(p.daily, PolicyDay(t))
  IN IF limit = None THEN None ELSE Minus(limit + u.bonus, u.day)

WeeklyRemaining(p, u) ==
  IF p.weekly = None THEN None ELSE Minus(p.weekly, u.week)

\* The windows open at t: at most one after merging.
Current(p, t) == {i \in ConcreteWindows(p, PolicyDay(t)) : Runs(i, t)}

WindowRemaining(p, t) == Least({i.end - t : i \in Current(p, t)})

Reason(p, u, t) ==
  IF ~p.enforcement THEN "none"
  ELSE IF Windows(p, PolicyDay(t)) # {} /\ Current(p, t) = {} THEN "window"
  ELSE IF DailyRemaining(p, u, t) = 0 THEN "daily"
  ELSE IF WeeklyRemaining(p, u) = 0 THEN "weekly"
  ELSE "none"

RetryAt(p, t, reason) ==
  CASE reason = "window" ->
         Least({i.start : i \in {j \in UpcomingWindows(p, PolicyDay(t)) :
                                   j.start > t}})
    [] reason = "daily" -> PolicyDayEnd(PolicyDay(t))
    [] reason = "weekly" -> At(WeekStart(PolicyDay(t)) + WeekDays, DayStart)
    [] reason = "none" -> None

\* reason "none" is an allowance.
Evaluate(p, u, t) ==
  LET reason == Reason(p, u, t)
  IN [reason |-> reason,
      remaining |->
        IF reason # "none" THEN 0
        ELSE IF ~p.enforcement THEN None
        ELSE Least({DailyRemaining(p, u, t), WeeklyRemaining(p, u),
                    WindowRemaining(p, t)}),
      retry |-> RetryAt(p, t, reason)]

\* Mutant: usage since the first day on record.
LaterWithoutNewDay(u, t, t2) ==
  [u EXCEPT !.week = IF WeekStart(PolicyDay(t2)) = WeekStart(PolicyDay(t))
                     THEN @ ELSE 0]

\* The snapshot taken at t2 of a store whose snapshot at t was u, if nobody
\* used the machine in between.
Later(u, t, t2) ==
  LET sameDay == PolicyDay(t2) = PolicyDay(t)
  IN [day |-> IF sameDay THEN u.day ELSE 0,
      week |-> IF WeekStart(PolicyDay(t2)) = WeekStart(PolicyDay(t))
               THEN u.week ELSE 0,
      bonus |-> IF sameDay THEN u.bonus ELSE 0]

\* The snapshot after n more hours of use on the same day.
Used(u, n) ==
  [day |-> u.day + n, week |-> u.week + n, bonus |-> u.bonus]

-----------------------------------------------------------------------------
(* How the time of a refusal is put into words and read from them: the     *)
(* retry is a reading of the policy's clock, "here" one of the machine's,  *)
(* Zoned::now() in the zone of its system, whose date is subtracted.       *)

\* Mutant: two days ahead is still "tomorrow".
FactsLoosely(retry, here) ==
  LET daysAhead == DateOf(retry) - DateOf(here)
  IN [clock |-> ClockOf(retry), notToday |-> daysAhead # 0,
      weekday |-> IF daysAhead > 2 THEN Weekday(DateOf(retry)) ELSE None]

Facts(retry, here) ==
  LET daysAhead == DateOf(retry) - DateOf(here)
  IN [clock |-> ClockOf(retry),
      notToday |-> daysAhead # 0,
      weekday |-> IF daysAhead > 1 THEN Weekday(DateOf(retry)) ELSE None]

\* "Tuesday at" is the first one after tomorrow, "tomorrow at", "at": as read
\* by somebody who has the date from the machine and takes the time to be one
\* of the policy's clock.
Meant(facts, here) ==
  LET today == DateOf(here)
      date == IF facts.weekday # None
              THEN Min({d \in today + 2 .. today + WeekDays + 1 :
                          Weekday(d) = facts.weekday})
              ELSE IF facts.notToday THEN today + 1 ELSE today
  IN At(date, facts.clock)
=============================================================================
