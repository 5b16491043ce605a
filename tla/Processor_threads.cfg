SPECIFICATION FairSpec
CONSTANTS
  Times = {1, 3}
  Events = {0}
  SleepTimes = {2}
  MaxPid = 3
  Overlooks = TRUE
  Usize = 4
  MaxSpurious = 2
INVARIANTS
  TypeOK
  OneThreadRuns
  RemainingAgrees
  NobodySleepsThroughItsTurn
  LogsAreComplete
PROPERTIES
  CallsTakeTime
  EveryStopIsLogged
  AllThreadsEnd
