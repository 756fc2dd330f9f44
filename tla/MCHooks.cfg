SPECIFICATION Spec
CONSTANTS
  Capacity = 2
  OSize = 3
  ISize = 5
  Share = 20
  Megabytes = 20
  Worlds <- MCWorlds
INVARIANTS
  HooksAsDocumented
  AbortStops
  NothingLost
  RoomLeft
PROPERTY HooksEnd
