------------------------------ MODULE TimeWindow ------------------------------
(***************************************************************************)
(* The recurring time windows of internal/scheduler/schedule.go.  An       *)
(* instant is a minute of the week; the week begins on Sunday, as          *)
(* time.Weekday does.                                                      *)
(***************************************************************************)
EXTENDS Naturals

CONSTANT DayMinutes  \* minutes of a day, 24 * 60 in the code

ASSUME DayAssumption == DayMinutes \in Nat \ {0}

Weekdays == 0 .. 6
Sunday   == 0
Monday   == 1
Friday   == 5
Saturday == 6

MinutesOfDay  == 0 .. DayMinutes - 1
MinutesOfWeek == 0 .. 7 * DayMinutes - 1

Weekday(now)     == now \div DayMinutes
MinuteOfDay(now) == now % DayMinutes

(* What ParseTimeWindow returns for an expression it accepts: hour and     *)
(* minute of each end as the minute of the day.                            *)
Windows ==
  [start : MinutesOfDay, end : MinutesOfDay,
   days : {"everyday", "weekdays", "weekends"}]

(* A fault, see Clock: the end of a window belongs to it.                  *)
Inclusive(tw, now) ==
  MinuteOfDay(now) >= tw.start /\ MinuteOfDay(now) <= tw.end

matchesDay(tw, day) ==
  \/ tw.days = "everyday"
  \/ tw.days = "weekdays" /\ day >= Monday /\ day <= Friday
  \/ tw.days = "weekends" /\ (day = Saturday \/ day = Sunday)

Normal(tw) == tw.start <= tw.end

NormalRange(tw, now) ==
  MinuteOfDay(now) >= tw.start /\ MinuteOfDay(now) < tw.end

PastMidnight(tw, now) ==
  MinuteOfDay(now) >= tw.start \/ MinuteOfDay(now) < tw.end

IsActive(tw, now) ==
  /\ matchesDay(tw, Weekday(now))
  /\ IF Normal(tw) THEN NormalRange(tw, now) ELSE PastMidnight(tw, now)

-----------------------------------------------------------------------------
(***************************************************************************)
(* The reference: on each of its days a window opens at its start and      *)
(* stays open until the clock next shows its end.                          *)
(***************************************************************************)
Duration(tw) == (tw.end + DayMinutes - tw.start) % DayMinutes

Since(day, tw, now) ==
  (now + 7 * DayMinutes - (day * DayMinutes + tw.start)) % (7 * DayMinutes)

Covers(tw, now) ==
  \E day \in Weekdays : matchesDay(tw, day) /\ Since(day, tw, now) < Duration(tw)

(* A window that wraps past midnight and is not for every day is active on *)
(* the days of the instant, not of its opening: weekdays 22:00-06:00 is    *)
(* active on Monday at 03:00 and not on Saturday at 03:00.                 *)
WrapsIntoOtherDays(tw) == ~Normal(tw) /\ tw.days # "everyday"

(* Open on the days of the instant: today is one of its days, and were it  *)
(* for every day, it would have opened and not have closed since.          *)
CoversToday(tw, now) ==
  matchesDay(tw, Weekday(now)) /\ Covers([tw EXCEPT !.days = "everyday"], now)

=============================================================================
