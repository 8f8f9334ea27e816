CONSTANTS
  Configs <- MCConfigs
  Origins <- MCOrigins
  Methods = {"GET", "POST", "OPTIONS"}
  Paths <- MCPaths
  Absent = Absent
CHECK_DEADLOCK FALSE
SPECIFICATION Spec
INVARIANTS OriginsAsListed RedirectReachesCallback RelayGoesToAppHost
