SPECIFICATION Spec
CONSTANTS
  KeyboardKeys <- MCKeyboard
  MouseKeys <- MCMouse
  WheelKeys <- MCMouse
  CommonModifiers = {}
  VirtualKeys = {"Virtual1"}
  ActionKeys = {"Action0"}
  Contexts <- MCContexts
  Keys <- MCKeys
  MaxPressed <- MCMaxPressed
  MaxSequence = 4
  MaxHistory = 0
  MaxBuffer = 1
  Elapsed = {0, 500}
  Configurations <- MCConfigurations
  ToggleDisabled = TRUE
  DeviceNames <- MCDevices
  InitialContexts <- MCInitialContexts
  ContextChanges = {}
  SettableKeys = {}
  InjectedSequences = {}
  ClientAsksForKeys = TRUE
  Reconfigures = TRUE
  UnseenReleases = FALSE
  Reconnects = 1
INVARIANTS
  TypeOK
PROPERTIES
  AskedKeysAreNotOutput
  ClientIsTold
  Settles
