CONSTANTS
  MaxTasks = 3
  MaxPid = 3
  Slots = 2
  ScheduleTicks = 2
  SleepTimes = {1}
SPECIFICATION Spec
INVARIANT ExitedNeverRuns
