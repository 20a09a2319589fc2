SPECIFICATION Spec
CONSTANTS
  editor = editor
  editor2 = editor2
  viewer = viewer
  viewer2 = viewer2
  loop = loop
  p = p
  q = q
  x = x
  y = y
  z = z
  t1 = t1
  t2 = t2
  NoPlaylist = NoPlaylist
  NoItem = NoItem
  NoTimer = NoTimer
  Loop = loop
  Playlists <- MCPlaylists
  Items <- MCItems
  TimerIds <- MCTimerIds
  Databases <- FullDatabases
  Editors <- OneEditor
  Advancers <- TwoViewers
  QueriesMayFail = TRUE
SYMMETRY ViewersAlike
CHECK_DEADLOCK FALSE
INVARIANTS
  TypeOK
  CurrentInRange
  NoLostReload
  ChangeIsAnnounced
  TimerLostOnlyToNil
PROPERTIES
  KeepsQueueFresh
