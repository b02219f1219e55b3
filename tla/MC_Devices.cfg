SPECIFICATION Spec
CONSTANTS
  KeyboardKeys <- MCKeyboard
  MouseKeys = {}
  WheelKeys = {}
  CommonModifiers = {}
  VirtualKeys = {}
  ActionKeys = {}
  Contexts <- MCContexts
  Keys <- MCKeys
  MaxPressed <- MCMaxPressed
  MaxSequence = 3
  MaxHistory = 0
  MaxBuffer = 1
  Elapsed = {0}
  Configurations <- MCConfigurations
  ToggleDisabled = FALSE
  DeviceNames <- MCDevices
  InitialContexts <- MCInitialContexts
  ContextChanges = {}
  SettableKeys = {}
  InjectedSequences = {}
  ClientAsksForKeys = FALSE
  Reconfigures = FALSE
  UnseenReleases = TRUE
  Reconnects = 0
INVARIANTS
  SystemAgrees
PROPERTIES
  FilteredByDevice
