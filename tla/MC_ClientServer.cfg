SPECIFICATION Spec
CONSTANTS
  Configs <- MCConfigs
  Windows = {"editor", "browser"}
  VirtualKeys = {"Virtual1"}
  ContextCount <- MCContextCount
  Matching <- MCMatching
  HasToggleActive <- MCHasToggleActive
  Grabs <- MCGrabs
  MaxMessages = 2
  MaxDrops = 1
INVARIANTS
  TypeOK
  ContextsFit
  NoDownIsLost
  ContextsAgree
  InactiveMeansNoMappings
PROPERTIES
  WindowIsFollowed
