SPECIFICATION ControlSpec
CONSTANTS
  Configs <- MCConfigs
  Windows = {"editor"}
  VirtualKeys = {"Virtual1", "Virtual2"}
  ContextCount <- MCContextCount
  Matching <- MCMatching
  HasToggleActive <- MCHasToggleActive
  Grabs <- MCGrabs
  MaxMessages = 1
  MaxDrops = 0
  Processes = {"p1", "p2"}
  Names = {"Virtual1", "Virtual2", "layer", "mode", "A", "Any"}
  Denotes <- MCDenotes
  OtherKeys = {"A"}
  Toggles <- MCToggles
  InstanceIds = {"x"}
  CommandLines <- MCCommandLines
  MaxLines = 2
  MaxUnread = 0
PROPERTIES
  WaitsUntilReleased
CHECK_DEADLOCK FALSE
