SPECIFICATION Spec
CONSTANTS
  Pkgs = {"a", "b"}
  Dbs = {"core"}
  Urls = {"u"}
  Order <- PkgOrder
  Hosts = {"mirror", "main"}
  Good = {"main"}
  CacheServers <- CacheList
  Servers <- ServerList
  server_error_limit = 1
  Size <- Sizes
  Parallel = 2
  SigOptional = FALSE
  Modes <- AllModes
  Faults = {"open", "long", "http", "resolve", "curl", "nolength", "truncated", "multi", "kill", "move"}
  MaxOps = 2
  MaxFaults = 2
  MaxVer = 1
  MaxEvents = 3
  Leftovers <- Leftover
INVARIANTS
  WholeFiles
  ResultIsTruthful
  RefreshHeals
PROPERTIES
  PartsSurvive
  OperationsEnd
CHECK_DEADLOCK FALSE
