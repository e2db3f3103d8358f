SPECIFICATION FairSpec
CONSTANTS
  OPEN_MAX = 9
  Capacity = 1
  Redirects <- MCRedirects
  Writes = {0, 2}
  MaxStages = 3
  MaxForks = 4
CHECK_DEADLOCK FALSE
INVARIANTS PipesBelongToTheirStages DescriptorsComeBack
PROPERTIES ErrorsAreShown PipelineReturns
