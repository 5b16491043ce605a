SPECIFICATION Spec
CONSTANTS
  Timeslice = 2
  MinimumRemainingTimeslice = 0
  Events = {0}
  SleepTimes = {0, 1}
  MaxPid = 2
INVARIANT NeverAborts
