SPECIFICATION Spec
CONSTANTS
  Timeslice = 2
  MinimumRemainingTimeslice = 1
  Events = {0}
  SleepTimes = {1}
  MaxPid = 2
INVARIANT DeadlockMeansAllWaiting
