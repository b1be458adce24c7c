CONSTANTS
  MaxTasks = 4
  MaxPid = 4
  Slots = 3
  ScheduleTicks = 2
  SleepTimes = {0, 1, 2}
SPECIFICATION FairSpec
INVARIANTS
  TypeOK
  OnlyCurrentRuns
  IdleAvailable
  ParentAlive
  NoLostSleeper
  PanicOnlyQueueFull
PROPERTIES
  RemovedNeverResumes
  IdleOnlyIfNothingElse
  RunnableRuns
  SleeperWakes
  SignalHandled
