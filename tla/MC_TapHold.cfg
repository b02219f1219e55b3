SPECIFICATION Spec
CONSTANTS
  KeyboardKeys <- MCKeyboard
  MouseKeys = {}
  WheelKeys = {}
  CommonModifiers = {}
  VirtualKeys = {}
  ActionKeys = {}
  Contexts <- MCContexts
  Keys <- MCKeys
  MaxPressed <- MCMaxPressed
  MaxSequence = 4
  MaxHistory = 4
  MaxBuffer = 1
  Elapsed = {0, 249, 250}
  Configurations <- MCConfigurations
  ToggleDisabled = FALSE
  DeviceNames <- MCDevices
  InitialContexts <- MCInitialContexts
  ContextChanges = {}
  SettableKeys = {}
  InjectedSequences = {}
  ClientAsksForKeys = FALSE
  Reconfigures = FALSE
  UnseenReleases = FALSE
  Reconnects = 0
INVARIANTS
  ClearWhenQuiet
  UnmappedPassesThrough
  HoldNeedsTimeout
  OnlyMightMatchIsHeldBack
  NeverHeldBack
  HistoryIsForgotten
PROPERTIES
  TapOrHold
  HoldIsOutput
