SPECIFICATION FairSpec
CONSTANTS
  Timeslice = 3
  MinimumRemainingTimeslice = 2
  Events = {0}
  SleepTimes = {2, 4}
  MaxPid = 3
PROPERTIES
  ReadyEventuallyRuns
  SleeperEventuallyRuns
