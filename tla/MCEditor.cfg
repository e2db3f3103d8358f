SPECIFICATION Spec
CONSTANTS
  MergeLimit = 2
  MaxKills = 2
  ScreenWidth = 2
  TEXT_COUNT_MAX = 2
  Names <- CommandNames
  Printable <- Keys
  Inputrc <- MyInputrc
  Tree <- Files
  Homes <- HomeDirectories
  ScreenHeight = 2
  Sessions <- EditingSessions
CHECK_DEADLOCK FALSE
INVARIANTS NoFreedUndo KillsComeBack
PROPERTIES UndoGivesBack MenuGivesBack LineComesBack AbortRestores
