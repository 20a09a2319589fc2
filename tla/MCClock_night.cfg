SPECIFICATION Spec
CONSTANTS
  a = a
  b = b
  c = c
  NoPlaylist = NoPlaylist
  NoTime = NoTime
  Unparsable = Unparsable
  DayMinutes = 6
  Playlists <- MCPlaylists
  Timetables <- NoSchedules
  ScreenTimes <- Night
INVARIANTS
  OffAtNight
