SPECIFICATION Spec
CONSTANTS
  KeyboardKeys <- MCKeyboard
  MouseKeys = {}
  CommonModifiers = {}
  VirtualKeys = {}
  ActionKeys = {"Action0"}
  Vocabularies <- MCVocabularies
  CommonLogicalKeys <- MCCommon
  LogicalKeys <- MCLogicalKeys
  ToggleActive = "Action0"
INVARIANTS
  ContextsAreWhole
  MeansAsWritten
  ForwardedAreSuppressed
CHECK_DEADLOCK FALSE
