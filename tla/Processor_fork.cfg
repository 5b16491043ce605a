SPECIFICATION Spec
CONSTANTS
  Times = {1, 2}
  Events = {0}
  SleepTimes = {1}
  MaxPid = 2
  Overlooks = TRUE
  Usize = 4
  MaxSpurious = 0
INVARIANT ForkReturnsPid
