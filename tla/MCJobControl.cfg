SPECIFICATION Spec
CONSTANTS
  p1 = p1
  p2 = p2
  p3 = p3
  Pid <- MCPid
  WaitStatus <- MCWaitStatus
  ExitCode <- MCExitCode
  ShellGroup = ShellGroup
  MaxCommands = 3
  MaxStages = 2
INVARIANTS
  WaitedChildIsOurs
  EntriesFollowChildren
CHECK_DEADLOCK FALSE
PROPERTIES
  DoneNamesItsJob
  InterruptSparesJobs
  ShellReturns
  EndedJobIsReported
