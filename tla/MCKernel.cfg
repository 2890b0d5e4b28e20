CONSTANTS
  MaxTasks = 7
  MaxProcess = 4
  MaxSteps = 1
SPECIFICATION Spec
INVARIANTS
  RunsOnOwnPages
  ListIsExact
  KeyboardTargetAlive
  TableIsExact
  ContextPreserved
  StarterResumes
  KeysReachReader
  ExitFindsTask
