------------------------------- MODULE MCClock -------------------------------
(* Days of a few minutes, so that every pair of times is tried.            *)
EXTENDS Clock

CONSTANTS a, b, c  \* playlists

MCPlaylists == {a, b, c}

Row(p, start, end, days, priority) ==
  [playlist |-> p, priority |-> priority,
   window |-> [start |-> start, end |-> end, days |-> days]]

(* A row whose text is no window.                                          *)
Garbled(p, priority) == [playlist |-> p, priority |-> priority, window |-> Unparsable]

(* A night that wraps, for some days and for all, a working day inside a   *)
(* weekend pass, two rows of one priority, one that is never open, and one *)
(* that does not parse above the others.                                   *)
MCTimetables ==
  {{},
   {Row(a, 4, 1, "everyday", 1), Row(b, 0, 3, "weekdays", 2)},
   {Row(a, 4, 2, "weekdays", 2), Row(b, 1, 5, "everyday", 1), Garbled(c, 3)},
   {Row(a, 1, 4, "weekends", 1), Row(b, 2, 5, "everyday", 1), Row(c, 3, 3, "everyday", 5)}}

OneTime ==
  {[off |-> t, on |-> NoTime] : t \in MinutesOfDay}
    \cup {[off |-> NoTime, on |-> t] : t \in MinutesOfDay}

BothTimes == [off : MinutesOfDay, on : MinutesOfDay]

AllTimes == OneTime \cup BothTimes

(* screen_off_time = "22:00", screen_on_time = "07:00".                    *)
Night == {[off |-> 5, on |-> 2]}

NoSchedules == {{}}

=============================================================================
