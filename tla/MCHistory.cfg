SPECIFICATION Spec
CONSTANTS
  s1 = s1
  s2 = s2
  default = default
  other = other
  ls = ls
  none = none
  absent = absent
  Shell = {s1, s2}
  Path = {default, other}
  DEFAULT_HISTFILE = default
  Program = {ls}
  Offset <- MCOffset
  Line <- MCLine
  Found <- MCFound
  NoFile = absent
  NoCommand = none
  MaxEntered = 3
INVARIANTS OnlyNewestUnsaved LastCmdIsNewest
PROPERTIES SavedUnlessAsked
SYMMETRY Shells
CHECK_DEADLOCK FALSE
