SPECIFICATION Spec
CONSTANTS
  KeyboardKeys <- MCKeyboard
  MouseKeys = {}
  WheelKeys = {}
  CommonModifiers = {"ShiftLeft"}
  VirtualKeys = {}
  ActionKeys = {}
  Contexts <- MCContexts
  Keys <- MCKeys
  MaxPressed <- MCMaxPressed
  MaxSequence = 6
  MaxHistory = 0
  MaxBuffer = 1
  Elapsed = {0}
  Configurations <- MCConfigurations
  ToggleDisabled = FALSE
  DeviceNames <- MCDevices
  InitialContexts <- MCInitialContexts
  ContextChanges = {}
  SettableKeys = {}
  InjectedSequences = {}
  ClientAsksForKeys = FALSE
  Reconfigures = FALSE
  UnseenReleases = FALSE
  Reconnects = 0
INVARIANTS
  NothingStuck
  ExitReleasesAll
PROPERTIES
  ShiftIsRestored
  ReleasesOnlyDown
CHECK_DEADLOCK FALSE
