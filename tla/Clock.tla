-------------------------------- MODULE Clock --------------------------------
(***************************************************************************)
(* What the player does by the clock: evaluateSchedules                    *)
(* (internal/scheduler/scheduler.go) chooses a playlist among the          *)
(* schedules, and ScreenController (internal/display/screen.go) turns the  *)
(* panel off and on.  Both look at the clock in every minute; the tickers  *)
(* are not aligned with it or with each other.                             *)
(***************************************************************************)
EXTENDS TimeWindow

CONSTANTS
  Playlists, NoPlaylist,
  Unparsable,       \* a row that does not scan, or whose cron_expr does not parse
  Timetables,       \* the sets of schedule rows a database may hold
  ScreenTimes,      \* the pairs of screen_off_time and screen_on_time
  NoTime            \* a time that is not configured

ScheduleRow ==
  [playlist : Playlists, window : Windows \cup {Unparsable}, priority : Nat]

ASSUME ClockAssumption ==
  /\ NoPlaylist \notin Playlists
  /\ Unparsable \notin Windows
  /\ NoTime \notin Nat
  /\ \A t \in Timetables : t \subseteq ScheduleRow
  /\ \A c \in ScreenTimes : {c.off, c.on} \subseteq MinutesOfDay \cup {NoTime}
  /\ \A c \in ScreenTimes : {c.off, c.on} # {NoTime}

VARIABLES
  now,        \* the minute of the week
  schedules,  \* the rows
  active,     \* the playlist id evaluateSchedules returned last
  chosen,     \* whether it has in this minute
  unread,     \* history: and could not read the rows to the end
  times,      \* the configured times
  screenOff,  \* sc.screenOff: what the controller believes
  panelOff,   \* what the panel is
  evaluated,  \* whether evaluate has run in this minute
  failed,     \* history: the last command that was run has failed
  lost        \* history: no command has succeeded since a restart that
              \* forgot that the panel is off

scheduleVars == <<schedules, active, chosen, unread>>
commandVars  == <<panelOff, failed, lost>>
screenVars   == <<times, screenOff, evaluated, commandVars>>
vars         == <<now, scheduleVars, screenVars>>

-----------------------------------------------------------------------------
(***************************************************************************)
(* Faults: plausible slips in the operations below.                        *)
(***************************************************************************)

(* ORDER BY priority without DESC.                                         *)
Ascending(r, s) == r.priority >= s.priority

(* evaluate forgets to record that it has turned the panel off.            *)
NeverRecorded(off) == FALSE

(* The minutes of the week are counted on past its end.                    *)
NoWrap(minute) == minute

(* NewScreenController takes the panel to be off already.                  *)
BelievedOffAtStart == TRUE

-----------------------------------------------------------------------------
BelievedAtStart == FALSE

Init ==
  /\ now \in MinutesOfWeek
  /\ schedules \in Timetables
  /\ active = NoPlaylist /\ chosen = FALSE /\ unread = FALSE
  /\ times \in ScreenTimes
  /\ screenOff = BelievedAtStart
  /\ panelOff = FALSE
  /\ evaluated = FALSE
  /\ failed = FALSE /\ lost = FALSE

(* After Saturday comes Sunday: time.Weekday, and the clock of the day.    *)
Wrapped(minute) == minute % (7 * DayMinutes)

(* The next minute.  Both tickers fire at least once in each.              *)
Tick ==
  /\ chosen /\ evaluated
  /\ now' = Wrapped(now + 1)
  /\ chosen' = FALSE /\ unread' = FALSE /\ evaluated' = FALSE
  /\ UNCHANGED <<schedules, active, times, screenOff, commandVars>>

-----------------------------------------------------------------------------
(***************************************************************************)
(* evaluateSchedules.                                                      *)
(***************************************************************************)

(* ORDER BY priority DESC; rows of one priority come in any order.         *)
ComesFirst(r, s) == r.priority <= s.priority

(* A row that does not scan or parse is skipped.                           *)
Active ==
  {s \in schedules : s.window # Unparsable /\ IsActive(s.window, now)}

(* The query fails, or the rows break off before an active one: both are   *)
(* taken for no schedule being active.                                     *)
EvaluateSchedules ==
  /\ \/ \E s \in Active :
          /\ \A r \in Active : ComesFirst(r, s)
          /\ active' = s.playlist
          /\ unread' = FALSE
     \/ Active = {} /\ active' = NoPlaylist /\ unread' = FALSE
     \/ active' = NoPlaylist /\ unread' = TRUE
  /\ chosen' = TRUE
  /\ UNCHANGED <<now, schedules, screenVars>>

-----------------------------------------------------------------------------
(***************************************************************************)
(* ScreenController.                                                       *)
(***************************************************************************)

ShouldBeOff ==
  LET nowMins == MinuteOfDay(now)
      hasOff  == times.off # NoTime
      hasOn   == times.on # NoTime
  IN  \/ /\ hasOff /\ hasOn /\ times.off < times.on
         /\ nowMins >= times.off \/ nowMins < times.on
      \/ /\ hasOff /\ hasOn /\ times.off >= times.on
         /\ nowMins >= times.off /\ nowMins < times.on
      \/ hasOff /\ ~hasOn /\ nowMins >= times.off
      \/ hasOn /\ ~hasOff /\ nowMins < times.on

(* setScreenPower tries two commands; that both failed is only logged.     *)
SetScreenPower(off) ==
  \/ panelOff' = off /\ failed' = FALSE /\ lost' = FALSE
  \/ failed' = TRUE /\ UNCHANGED <<panelOff, lost>>

Recorded(off) == off

Evaluate ==
  /\ \/ /\ ShouldBeOff # screenOff
        /\ SetScreenPower(ShouldBeOff)
        /\ screenOff' = Recorded(ShouldBeOff)
     \/ /\ ShouldBeOff = screenOff
        /\ UNCHANGED <<screenOff, commandVars>>
  /\ evaluated' = TRUE
  /\ UNCHANGED <<now, scheduleVars, times>>

(* The program is started again; the panel stays as it is.                 *)
Restart ==
  /\ screenOff' = BelievedAtStart
  /\ lost' = (lost \/ panelOff)
  /\ active' = NoPlaylist /\ chosen' = FALSE /\ unread' = FALSE
  /\ evaluated' = FALSE
  /\ UNCHANGED <<now, schedules, times, panelOff, failed>>

Next == Tick \/ EvaluateSchedules \/ Evaluate \/ Restart

Spec == Init /\ [][Next]_vars

-----------------------------------------------------------------------------
TypeOK ==
  /\ now \in MinutesOfWeek
  /\ schedules \subseteq ScheduleRow
  /\ active \in Playlists \cup {NoPlaylist}
  /\ times \in ScreenTimes
  /\ chosen \in BOOLEAN /\ unread \in BOOLEAN /\ evaluated \in BOOLEAN
  /\ screenOff \in BOOLEAN /\ panelOff \in BOOLEAN
  /\ failed \in BOOLEAN /\ lost \in BOOLEAN

(* At every minute of the week a window is active exactly when it has      *)
(* opened on one of its days and has not closed since, for every window    *)
(* IsActive can be given but those that wrap into days they are not for.   *)
(* Those are open on the days of the instant, so that the hours after      *)
(* midnight belong to the next day; no window is open in any other way.    *)
WindowsAreRight ==
  \A tw \in Windows :
    /\ ~WrapsIntoOtherDays(tw) => (IsActive(tw, now) <=> Covers(tw, now))
    /\ IsActive(tw, now) <=> CoversToday(tw, now)

Open(s) == s.window # Unparsable /\ CoversToday(s.window, now)

(* Once the schedules have been evaluated in a minute, the playlist is one *)
(* of an open window that no open window of a higher priority overrides,   *)
(* and none only if no window is open or the rows could not be read: also  *)
(* right after midnight, where one window closes and another opens, after  *)
(* a restart, after an evaluation that failed, and among rows that do not  *)
(* parse.                                                                  *)
FollowsTimetable ==
  chosen =>
    IF unread \/ \A s \in schedules : ~Open(s) THEN active = NoPlaylist
    ELSE \E s \in schedules :
           /\ Open(s) /\ active = s.playlist
           /\ \A r \in schedules : Open(r) => r.priority <= s.priority

(* While evaluate wants the panel off it is off, unless the last command   *)
(* failed: a restart, which makes the controller forget, turns it off      *)
(* again.                                                                  *)
OffIsKept == evaluated /\ ShouldBeOff => panelOff \/ failed

(* The panel is what evaluate wants in this minute unless a command failed *)
(* or a restart forgot that the panel is off; in both cases it may stay    *)
(* wrong until evaluate changes its mind, since nothing is retried.        *)
PanelFollowsEvaluate ==
  evaluated /\ ~failed /\ ~lost => (panelOff <=> ShouldBeOff)

(* The screen is off from screen_off_time until screen_on_time, "off at    *)
(* night, on in the morning".                                              *)
OffPeriod ==
  (MinuteOfDay(now) + DayMinutes - times.off) % DayMinutes
    < (times.on + DayMinutes - times.off) % DayMinutes

OffAtNight ==
  evaluated /\ NoTime \notin {times.off, times.on} /\ ~failed /\ ~lost =>
    (panelOff <=> OffPeriod)

=============================================================================
