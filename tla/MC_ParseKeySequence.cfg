SPECIFICATION Spec
CONSTANTS
  KeyboardKeys <- MCKeyboard
  MouseKeys = {}
  CommonModifiers = {}
  VirtualKeys <- MCVirtual
  ActionKeys <- MCActions
  LogicalKeys <- MCLogical
  Vocabularies <- MCVocabularies
  CommandKey = "Action0"
  MaxParses = 2
INVARIANTS
  TypeOK
  StrokesAsWritten
  PressesArePaired
CHECK_DEADLOCK FALSE
