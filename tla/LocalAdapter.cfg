SPECIFICATION FairSpec
CONSTANTS
  HelperSteps <- MCHelperSteps
  Results <- MCResults
  Directories <- MCDirectories
  MaxStaged = 2
  StagedTtl = 1
  MaxCalls = 3
  MaxTime = 3
INVARIANTS
  InTurn
  DoneIsSo
PROPERTIES
  CallsAnswered
CHECK_DEADLOCK FALSE
