SPECIFICATION FairSpec
CONSTANTS
  x = x
  loop = loop
  viewer = viewer
  logger = logger
  runner = runner
  Logger = logger
  Runner = runner
  NoItem = NoItem
  NoConn = NoConn
  BatchSize = 1
  TicksPerSecond = 2
  MaxTicks = 4
  MaxMoves = 3
  MaxDials = 2
  MaxRestarts = 1
  Items <- MCItems
  Callers <- MCCallers
INVARIANTS
  TypeOK
  MarkedWereSent
  SpansDisjoint
PROPERTIES
  Drains
CHECK_DEADLOCK FALSE
