SPECIFICATION FairSpec
CONSTANTS
  Line <- MCLine
  Table <- MCTable
  MaxLength = 8
INVARIANT LongestMatch
PROPERTIES ExpandedStays ReplacingEnds
