SPECIFICATION Spec
CONSTANTS
  CpuTime = 5
  MinimumRemainingTimeslice = 0
  Events = {0}
  SleepTimes = {1}
  MaxPid = 2
  MaxVruntime = 9
INVARIANT NeverAborts
