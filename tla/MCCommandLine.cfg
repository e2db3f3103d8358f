SPECIFICATION Spec
CONSTANTS
  MAX_REDIRECTS = 2
  Session <- MCSession
CHECK_DEADLOCK FALSE
INVARIANTS AcceptsGrammar CommandsOfTheLine LinesAsWritten FreedIsUnused
PROPERTIES SegmentEnds
