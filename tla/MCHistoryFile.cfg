SPECIFICATION Spec
CONSTANTS
  history = history
  absent = absent
  Shell <- MCShell
  HistFile = history
  NoFile = absent
  Char <- MCChar
  Line <- MCLine
  Found <- MCFound
  Started <- MCStarted
  MaxEntered = 2
  MaxCalls = 3
  MaxKills = 1
CHECK_DEADLOCK FALSE
PROPERTY ImplementsAtomicFile
