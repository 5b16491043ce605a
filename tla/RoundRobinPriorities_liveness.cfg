SPECIFICATION FairSpec
CONSTANTS
  Timeslice = 2
  MinimumRemainingTimeslice = 1
  Events = {0}
  SleepTimes = {3}
  Priorities = {0, 2, 6}
  MaxPid = 3
PROPERTIES
  ComputingCannotStarve
  SleepsEnd
