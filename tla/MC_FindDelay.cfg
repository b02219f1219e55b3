SPECIFICATION Spec
CONSTANTS
  KeyboardKeys <- MCKeyboard
  MouseKeys = {}
  WheelKeys = {}
  CommonModifiers = {}
  VirtualKeys = {}
  ActionKeys = {}
  Contexts <- MCContexts
  Keys <- MCKeys
  MaxPressed <- MCMaxPressed
  MaxSequence = 4
  MaxHistory = 0
  MaxBuffer = 1
  Elapsed = {0, 500}
  Configurations <- MCConfigurations
  ToggleDisabled = FALSE
  DeviceNames <- MCDevices
  InitialContexts <- MCInitialContexts
  ContextChanges = {}
  SettableKeys = {}
  InjectedSequences = {}
  ClientAsksForKeys = FALSE
  Reconfigures = FALSE
  UnseenReleases = FALSE
  Reconnects = 0
PROPERTIES
  OutputIsDelayed
