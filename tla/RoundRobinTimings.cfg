SPECIFICATION TimedSpec
CONSTANTS
  Timeslice = 3
  MinimumRemainingTimeslice = 1
  Events = {0}
  SleepTimes = {1, 3}
  MaxPid = 3
  MaxClock = 8
INVARIANTS
  TotalsAreExact
  TimesAddUp
