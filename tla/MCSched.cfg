CONSTANTS
  t0 = t0
  t1 = t1
  t2 = t2
  init = t0
  Tasks <- MCTasks
  Priorities <- MCPriorities
  MaxSleep = 1

SPECIFICATION Spec

INVARIANTS
  TypeOK
  RingMatchesQueue
  InterruptsAreOnStacks

PROPERTIES
  FreedNeverResumed
  SleepersNotResumed
  RunnableRuns
  SleepEnds
  DiskIrqEnds
