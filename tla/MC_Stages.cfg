SPECIFICATION Spec
CONSTANTS
  KeyboardKeys <- MCKeyboard
  MouseKeys = {}
  WheelKeys = {}
  CommonModifiers = {}
  VirtualKeys = {"Virtual1"}
  ActionKeys = {}
  Contexts <- MCContexts
  Keys <- MCKeys
  MaxPressed <- MCMaxPressed
  MaxSequence = 3
  MaxHistory = 0
  MaxBuffer = 0
  Elapsed = {0}
  Configurations <- MCConfigurations
  ToggleDisabled = FALSE
  DeviceNames <- MCDevices
  InitialContexts <- MCInitialContexts
  ContextChanges <- MCContextChanges
  SettableKeys = {"Virtual1"}
  InjectedSequences <- MCInjected
  ClientAsksForKeys = FALSE
  Reconfigures = FALSE
  UnseenReleases = FALSE
  Reconnects = 0
INVARIANTS
  StagesKnowVirtualKeys
  OutputIsHeld
