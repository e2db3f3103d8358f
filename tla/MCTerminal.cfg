SPECIFICATION Spec
CONSTANTS
  Modes <- Settings
  Inherited <- IgnoredSignals
  MaxSignals = 2
INVARIANTS
  TerminalGivenBack
  ReadyAtTheKey
PROPERTIES
  CaughtIsResent
CHECK_DEADLOCK FALSE
