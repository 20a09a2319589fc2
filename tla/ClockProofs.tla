----------------------------- MODULE ClockProofs -----------------------------
(***************************************************************************)
(* What holds of the windows and of the screen for days of any length, any *)
(* timetable and any pair of times, and however often commands fail.       *)
(***************************************************************************)
EXTENDS Clock, Integers, TLAPS

-----------------------------------------------------------------------------
(***************************************************************************)
(* Arithmetic of the week.                                                 *)
(***************************************************************************)
LEMMA Remainder ==
  ASSUME NEW m \in Nat \ {0}, NEW x \in Nat
  PROVE  /\ x < m => x % m = x
         /\ m <= x /\ x < 2 * m => x % m = x - m
<1>1. x = m * (x \div m) + (x % m) /\ x \div m \in Nat /\ x % m \in 0 .. m - 1
  OBVIOUS
<1>2. CASE x < m
  <2>1. x \div m = 0
    BY <1>1, <1>2
  <2> QED BY <1>1, <1>2, <2>1
<1>3. CASE m <= x /\ x < 2 * m
  <2>1. x \div m = 1
    BY <1>1, <1>3
  <2> QED BY <1>1, <1>3, <2>1
<1> QED BY <1>2, <1>3

(* An instant is a day of the week and a minute of that day.               *)
LEMMA DayAndMinute ==
  ASSUME NEW t \in MinutesOfWeek
  PROVE  /\ Weekday(t) \in Weekdays /\ MinuteOfDay(t) \in MinutesOfDay
         /\ t = Weekday(t) * DayMinutes + MinuteOfDay(t)
<1> USE DayAssumption DEF MinutesOfWeek, Weekdays, MinutesOfDay, Weekday, MinuteOfDay
<1>1. t \in Nat /\ t < 7 * DayMinutes
  OBVIOUS
<1>2. /\ t \div DayMinutes \in Nat /\ t % DayMinutes \in 0 .. DayMinutes - 1
      /\ t = DayMinutes * (t \div DayMinutes) + (t % DayMinutes)
  OBVIOUS
<1>3. t \div DayMinutes < 7
  BY <1>1, <1>2
<1>4. t \div DayMinutes >= 0
  BY <1>1, <1>2
<1> QED BY <1>2, <1>3, <1>4

(* The window of day d that opens at minute s, seen at minute m of day q.  *)
LEMMA SinceIs ==
  ASSUME NEW q \in Weekdays, NEW d \in Weekdays,
         NEW m \in MinutesOfDay, NEW s \in MinutesOfDay
  PROVE  (q * DayMinutes + m + 7 * DayMinutes - (d * DayMinutes + s))
           % (7 * DayMinutes)
         = IF d < q \/ (d = q /\ m >= s) THEN (q - d) * DayMinutes + m - s
           ELSE (q - d + 7) * DayMinutes + m - s
<1> USE DayAssumption DEF Weekdays, MinutesOfDay
<1> DEFINE x == q * DayMinutes + m + 7 * DayMinutes - (d * DayMinutes + s)
<1>1. x = (q - d + 7) * DayMinutes + m - s
  OBVIOUS
<1>2. x \in Nat /\ 7 * DayMinutes \in Nat \ {0}
  OBVIOUS
<1>3. CASE d < q \/ (d = q /\ m >= s)
  <2>1. x >= 7 * DayMinutes /\ x < 2 * (7 * DayMinutes)
    BY <1>3
  <2>2. x % (7 * DayMinutes) = x - 7 * DayMinutes
    <3> HIDE DEF x
    <3> QED BY <1>2, <2>1, Remainder
  <2> QED BY <1>1, <1>3, <2>2
<1>4. CASE ~(d < q \/ (d = q /\ m >= s))
  <2>1. x < 7 * DayMinutes
    BY <1>4
  <2>2. x % (7 * DayMinutes) = x
    <3> HIDE DEF x
    <3> QED BY <1>2, <2>1, Remainder
  <2> QED BY <1>1, <1>4, <2>2
<1> QED BY <1>3, <1>4

LEMMA DurationIs ==
  ASSUME NEW tw \in Windows
  PROVE  Duration(tw) = IF Normal(tw) THEN tw.end - tw.start
                        ELSE tw.end + DayMinutes - tw.start
<1> DEFINE x == tw.end + DayMinutes - tw.start
<1>1. /\ tw.start \in Nat /\ tw.start < DayMinutes
      /\ tw.end \in Nat /\ tw.end < DayMinutes /\ DayMinutes \in Nat \ {0}
  BY DayAssumption DEF Windows, MinutesOfDay
<1>2. /\ x \in Nat
      /\ Normal(tw) => DayMinutes <= x /\ x < 2 * DayMinutes
      /\ ~Normal(tw) => x < DayMinutes
  BY <1>1 DEF Normal
<1>3. x % DayMinutes = IF Normal(tw) THEN x - DayMinutes ELSE x
  <2> HIDE DEF x
  <2> QED BY <1>1, <1>2, Remainder
<1> QED BY <1>1, <1>3 DEF Duration

(* The window that opened on day d is still open on that day, or on the    *)
(* next one if it wraps past midnight, and on no other.                    *)
LEMMA OpenSince ==
  ASSUME NEW tw \in Windows, NEW t \in MinutesOfWeek, NEW d \in Weekdays
  PROVE  Since(d, tw, t) < Duration(tw) <=>
           \/ /\ d = Weekday(t) /\ MinuteOfDay(t) >= tw.start
              /\ Normal(tw) => MinuteOfDay(t) < tw.end
           \/ /\ Weekday(t) = IF d = 6 THEN 0 ELSE d + 1
              /\ ~Normal(tw) /\ MinuteOfDay(t) < tw.end
<1> DEFINE q == Weekday(t)
           m == MinuteOfDay(t)
<1>1. /\ tw.start \in MinutesOfDay /\ tw.end \in MinutesOfDay
      /\ q \in Weekdays /\ m \in MinutesOfDay
      /\ t = q * DayMinutes + m
  BY DayAndMinute DEF Windows
<1> HIDE DEF q, m
<1>2. Since(d, tw, t) = IF d < q \/ (d = q /\ m >= tw.start)
                          THEN (q - d) * DayMinutes + m - tw.start
                          ELSE (q - d + 7) * DayMinutes + m - tw.start
  BY <1>1, SinceIs DEF Since
<1>3. /\ tw.start \in Nat /\ tw.start < DayMinutes /\ m \in Nat /\ m < DayMinutes
      /\ tw.end \in Nat /\ tw.end < DayMinutes
      /\ q \in 0 .. 6 /\ d \in 0 .. 6 /\ DayMinutes \in Nat \ {0}
  BY <1>1, DayAssumption DEF MinutesOfDay, Weekdays
<1>4. CASE d = q /\ m >= tw.start
  <2>1. Since(d, tw, t) = m - tw.start
    BY <1>2, <1>3, <1>4
  <2> QED BY <2>1, <1>3, <1>4, DurationIs DEF Normal, q, m
<1>5. CASE q = IF d = 6 THEN 0 ELSE d + 1
  <2>1. Since(d, tw, t) = DayMinutes + m - tw.start
    BY <1>2, <1>3, <1>5
  <2> QED BY <2>1, <1>3, <1>5, DurationIs DEF Normal, q, m
<1>6. CASE ~(d = q /\ m >= tw.start) /\ q # IF d = 6 THEN 0 ELSE d + 1
  <2>1. Since(d, tw, t) >= DayMinutes
    BY <1>2, <1>3, <1>6
  <2>2. Duration(tw) < DayMinutes
    BY <1>3, DurationIs DEF Normal
  <2>3. Since(d, tw, t) \in Int /\ Duration(tw) \in Int
    BY <1>2, <1>3, DurationIs
  <2> QED BY <2>1, <2>2, <2>3, <1>3, <1>6 DEF q, m
<1> QED BY <1>4, <1>5, <1>6

LEMMA WindowIsRight ==
  ASSUME NEW tw \in Windows, NEW t \in MinutesOfWeek, ~WrapsIntoOtherDays(tw)
  PROVE  IsActive(tw, t) <=> Covers(tw, t)
<1>1. /\ Weekday(t) \in Weekdays /\ MinuteOfDay(t) \in Nat
      /\ tw.start \in Nat /\ tw.end \in Nat
  BY DayAndMinute DEF Windows, MinutesOfDay
<1>2. CASE Normal(tw)
  BY <1>1, <1>2, OpenSince
     DEF Covers, IsActive, NormalRange
<1>3. CASE ~Normal(tw)
  <2>1. \A d \in Weekdays : matchesDay(tw, d)
    BY <1>3 DEF WrapsIntoOtherDays, matchesDay
  <2>2. \E d \in Weekdays : Weekday(t) = IF d = 6 THEN 0 ELSE d + 1
    BY <1>1 DEF Weekdays
  <2> QED BY <1>1, <1>3, <2>1, <2>2, OpenSince DEF Covers, IsActive, PastMidnight
<1> QED BY <1>2, <1>3

(* A window is open on the days of the instant, whichever they are.        *)
LEMMA WindowIsRightToday ==
  ASSUME NEW tw \in Windows, NEW t \in MinutesOfWeek
  PROVE  IsActive(tw, t) <=> CoversToday(tw, t)
<1> DEFINE daily == [tw EXCEPT !.days = "everyday"]
<1>1. /\ daily \in Windows
      /\ daily.start = tw.start /\ daily.end = tw.end /\ daily.days = "everyday"
  BY DEF Windows
<1>2. ~WrapsIntoOtherDays(daily) /\ matchesDay(daily, Weekday(t))
  BY <1>1 DEF WrapsIntoOtherDays, matchesDay
<1>3. IsActive(daily, t) <=> Covers(daily, t)
  BY <1>1, <1>2, WindowIsRight
<1>4. IsActive(tw, t) <=> matchesDay(tw, Weekday(t)) /\ IsActive(daily, t)
  BY <1>1, <1>2 DEF IsActive, Normal, NormalRange, PastMidnight
<1> QED BY <1>3, <1>4 DEF CoversToday

-----------------------------------------------------------------------------
(***************************************************************************)
(* Type correctness.                                                       *)
(***************************************************************************)
LEMMA ShouldBeOffTyped == ShouldBeOff \in BOOLEAN
BY Zenon DEF ShouldBeOff

LEMMA TypeInit == Init => TypeOK
<1> SUFFICES ASSUME Init PROVE TypeOK
  OBVIOUS
<1>1. /\ chosen \in BOOLEAN /\ unread \in BOOLEAN /\ evaluated \in BOOLEAN
      /\ screenOff \in BOOLEAN /\ panelOff \in BOOLEAN
      /\ failed \in BOOLEAN /\ lost \in BOOLEAN
  BY Zenon DEF Init, BelievedAtStart
<1>2. schedules \subseteq ScheduleRow
  BY ClockAssumption DEF Init
<1> QED BY <1>1, <1>2 DEF Init, TypeOK

LEMMA TypeNext == TypeOK /\ [Next]_vars => TypeOK'
<1> SUFFICES ASSUME TypeOK, [Next]_vars PROVE TypeOK'
  OBVIOUS
<1>1. CASE Tick
  <2>1. now' \in MinutesOfWeek
    <3>1. now \in Nat /\ 7 * DayMinutes \in Nat \ {0} /\ DayMinutes \in Nat
      BY DayAssumption DEF TypeOK, MinutesOfWeek
    <3>2. (now + 1) % (7 * DayMinutes) \in 0 .. 7 * DayMinutes - 1
      BY <3>1
    <3> QED BY <1>1, <3>2 DEF Tick, Wrapped, MinutesOfWeek
  <2>2. chosen' \in BOOLEAN /\ unread' \in BOOLEAN /\ evaluated' \in BOOLEAN
    BY <1>1, Zenon DEF Tick
  <2> QED BY <1>1, <2>1, <2>2 DEF Tick, TypeOK, commandVars
<1>2. CASE EvaluateSchedules
  <2>1. chosen' \in BOOLEAN /\ unread' \in BOOLEAN
    BY <1>2, Zenon DEF EvaluateSchedules
  <2>2. active' \in Playlists \cup {NoPlaylist}
    BY <1>2 DEF EvaluateSchedules, Active, TypeOK, ScheduleRow
  <2> QED BY <1>2, <2>1, <2>2
          DEF EvaluateSchedules, TypeOK, screenVars, commandVars
<1>3. CASE Evaluate
  <2>1. evaluated' \in BOOLEAN
    BY <1>3, Zenon DEF Evaluate
  <2>2. screenOff' \in BOOLEAN
    BY <1>3, ShouldBeOffTyped, Zenon DEF Evaluate, Recorded, TypeOK
  <2>3. panelOff' \in BOOLEAN
    BY <1>3, ShouldBeOffTyped, Zenon
       DEF Evaluate, SetScreenPower, TypeOK, commandVars
  <2>4. failed' \in BOOLEAN /\ lost' \in BOOLEAN
    BY <1>3, Zenon DEF Evaluate, SetScreenPower, TypeOK, commandVars
  <2> QED BY <1>3, <2>1, <2>2, <2>3, <2>4 DEF Evaluate, TypeOK, scheduleVars
<1>4. CASE Restart
  <2>1. /\ chosen' \in BOOLEAN /\ unread' \in BOOLEAN /\ evaluated' \in BOOLEAN
        /\ screenOff' \in BOOLEAN /\ lost' \in BOOLEAN
    BY <1>4, Zenon DEF Restart, BelievedAtStart
  <2> QED BY <1>4, <2>1 DEF Restart, TypeOK
<1>5. CASE UNCHANGED vars
  BY <1>5 DEF vars, scheduleVars, screenVars, commandVars, TypeOK
<1> QED BY <1>1, <1>2, <1>3, <1>4, <1>5 DEF Next

(* Every variable keeps its type: the minute of the week wraps, and what   *)
(* is chosen is a playlist of the timetable's or none.                     *)
THEOREM TypeCorrect == Spec => []TypeOK
BY TypeInit, TypeNext, PTL DEF Spec

-----------------------------------------------------------------------------
(***************************************************************************)
(* The timetable.                                                          *)
(***************************************************************************)

(* At every minute a window is active exactly when it has opened on one of *)
(* its days and has not closed since, whatever its ends are and however    *)
(* long a day is; if it wraps past midnight into days not its own, exactly *)
(* when it is open and the instant is on one of its days.                  *)
THEOREM WindowsOpenAndClose == Spec => []WindowsAreRight
<1>1. TypeOK => WindowsAreRight
  BY WindowIsRight, WindowIsRightToday DEF TypeOK, WindowsAreRight
<1> QED BY <1>1, TypeCorrect, PTL

LEMMA FollowsNext == TypeOK /\ FollowsTimetable /\ [Next]_vars => FollowsTimetable'
<1> SUFFICES ASSUME TypeOK, FollowsTimetable, [Next]_vars, chosen'
             PROVE  IF unread' \/ \A s \in schedules' : ~Open(s)'
                    THEN active' = NoPlaylist
                    ELSE \E s \in schedules' :
                           /\ Open(s)' /\ active' = s.playlist
                           /\ \A r \in schedules' : Open(r)' => r.priority <= s.priority
  BY DEF FollowsTimetable
<1>1. CASE EvaluateSchedules
  <2>1. UNCHANGED <<now, schedules>>
    BY <1>1 DEF EvaluateSchedules
  <2>2. \A s \in schedules :
          s.window # Unparsable => (IsActive(s.window, now) <=> Open(s))
    BY <2>1, WindowIsRightToday DEF TypeOK, ScheduleRow, Open
  <2>3. Active = {s \in schedules : Open(s)}
    BY <2>2 DEF Active, Open
  <2>4. CASE unread'
    BY <1>1, <2>4 DEF EvaluateSchedules
  <2>5. CASE ~unread' /\ Active = {}
    BY <1>1, <2>1, <2>3, <2>5 DEF EvaluateSchedules, Open
  <2>6. CASE ~unread' /\ Active # {}
    <3>1. PICK s \in Active : /\ \A r \in Active : r.priority <= s.priority
                             /\ active' = s.playlist
      BY <1>1, <2>6 DEF EvaluateSchedules, ComesFirst
    <3> QED BY <2>1, <2>3, <2>6, <3>1 DEF Open
  <2> QED BY <2>4, <2>5, <2>6
<1>2. CASE UNCHANGED <<now, schedules, active, chosen, unread>>
  BY <1>2 DEF FollowsTimetable, Open
<1>3. ~EvaluateSchedules => UNCHANGED <<now, schedules, active, chosen, unread>>
  BY DEF Next, Tick, Evaluate, Restart, vars, scheduleVars
<1> QED BY <1>1, <1>2, <1>3

(* Whatever the rows, some of which may not parse, once they have been     *)
(* evaluated in a minute the playlist is one of an open window of the      *)
(* highest priority, and there is none only when no window is open or the  *)
(* query has failed.                                                       *)
THEOREM PlaylistFollowsTimetable == Spec => []FollowsTimetable
<1>1. Init => FollowsTimetable
  BY DEF Init, FollowsTimetable
<1> QED BY <1>1, TypeCorrect, FollowsNext, PTL DEF Spec

-----------------------------------------------------------------------------
(***************************************************************************)
(* The panel.                                                              *)
(***************************************************************************)

(* What the controller believes is what it wants once it has evaluated,    *)
(* and what the panel is unless a command failed or a restart forgot it.   *)
(* A panel believed to be off may be on only after a failure.              *)
BeliefIsRight ==
  /\ evaluated => (screenOff <=> ShouldBeOff)
  /\ screenOff => panelOff \/ failed
  /\ ~failed /\ ~lost => (panelOff <=> screenOff)

LEMMA BeliefNext == TypeOK /\ BeliefIsRight /\ [Next]_vars => BeliefIsRight'
<1> SUFFICES ASSUME TypeOK, BeliefIsRight, [Next]_vars PROVE BeliefIsRight'
  OBVIOUS
<1>1. CASE Tick
  BY <1>1, Zenon DEF Tick, BeliefIsRight, commandVars
<1>2. CASE EvaluateSchedules \/ UNCHANGED vars
  <2>1. UNCHANGED <<now, times, screenOff, panelOff, evaluated, failed, lost>>
    BY <1>2 DEF EvaluateSchedules, vars, screenVars, commandVars
  <2>2. ShouldBeOff' <=> ShouldBeOff
    BY <2>1 DEF ShouldBeOff
  <2> QED BY <2>1, <2>2 DEF BeliefIsRight
<1>3. CASE Evaluate
  <2>1. ShouldBeOff' <=> ShouldBeOff
    BY <1>3 DEF Evaluate, ShouldBeOff
  <2>2. screenOff' <=> ShouldBeOff
    <3>1. CASE screenOff' = ShouldBeOff
      BY <3>1, Zenon
    <3>2. CASE ShouldBeOff = screenOff /\ screenOff' = screenOff
      BY <3>2, Zenon
    <3> QED BY <1>3, <3>1, <3>2 DEF Evaluate, Recorded
  <2>3. CASE ShouldBeOff = screenOff
    <3>1. UNCHANGED <<screenOff, panelOff, failed, lost>>
      BY <1>3, <2>3 DEF Evaluate, commandVars
    <3> QED BY <2>1, <2>2, <3>1 DEF BeliefIsRight
  <2>4. CASE ShouldBeOff # screenOff
    <3>1. CASE failed'
      BY <2>1, <2>2, <3>1 DEF BeliefIsRight
    <3>2. CASE panelOff' = ShouldBeOff
      BY <2>1, <2>2, <3>2, Zenon DEF BeliefIsRight
    <3> QED BY <1>3, <2>4, <3>1, <3>2, Zenon DEF Evaluate, SetScreenPower
  <2> QED BY <2>3, <2>4
<1>4. CASE Restart
  <2>1. ~screenOff' /\ ~evaluated'
    BY <1>4, Zenon DEF Restart, BelievedAtStart
  <2>2. ~lost' => ~panelOff'
    BY <1>4, Zenon DEF Restart
  <2> QED BY <2>1, <2>2, Zenon DEF BeliefIsRight
<1> QED BY <1>1, <1>2, <1>3, <1>4 DEF Next

LEMMA Belief == Spec => []BeliefIsRight
<1>1. Init => BeliefIsRight
  BY Zenon DEF Init, BeliefIsRight, BelievedAtStart
<1> QED BY <1>1, TypeCorrect, BeliefNext, PTL DEF Spec

(* While the controller wants the panel off it is off, unless the last     *)
(* command failed, also after any number of restarts.                      *)
THEOREM PanelStaysOff == Spec => []OffIsKept
<1>1. BeliefIsRight => OffIsKept
  BY Zenon DEF BeliefIsRight, OffIsKept
<1> QED BY <1>1, Belief, PTL

(* The panel is what the controller wants in this minute, unless a command *)
(* failed or a restart has forgotten that the panel is off.                *)
THEOREM PanelIsAsWanted == Spec => []PanelFollowsEvaluate
<1>1. BeliefIsRight => PanelFollowsEvaluate
  BY Zenon DEF BeliefIsRight, PanelFollowsEvaluate
<1> QED BY <1>1, Belief, PTL

=============================================================================
