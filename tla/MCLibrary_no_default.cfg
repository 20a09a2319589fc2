SPECIFICATION Spec
CONSTANTS
  h1 = h1
  h2 = h2
  d = d
  p = p
  c = c
  k = k
  l = l
  n = n
  w = w
  s = s
  cs = cs
  NoPlaylist = NoPlaylist
  NoRequest = NoRequest
  NoRow = NoRow
  NoFile = NoFile
  Partial = Partial
  NoPriority = NoPriority
  NoURL = NoURL
  NoChecksum = NoChecksum
  Elsewhere = Elsewhere
  Versions = {1, 2}
  MaxArrivals = 3
  DriverEnforces = {TRUE, FALSE}
  Handlers <- MCHandlers
  Playlists <- MCPlaylists
  Contents <- MCContents
  Media <- MCMedia
  Schedules <- MCSchedules
  Requests <- RacingRequests
  InitialTables <- SmallTables
  PlaylistManifests <- NoManifests
  ScheduleManifests <- NoManifests
  ContentManifests <- NoManifests
PROPERTIES
  DefaultNotDeleted
