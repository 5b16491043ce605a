SPECIFICATION Spec
CONSTANTS
  CpuTime = 5
  MinimumRemainingTimeslice = 2
  Events = {0}
  SleepTimes = {1, 4}
  MaxPid = 3
  MaxVruntime = 10
INVARIANTS
  TypeOK
  StateMatchesPlace
  EachProcessOnce
  NeverAborts
PROPERTIES
  ImplementsScheduler
  LeastVruntimeFirst
  LeastNeverFalls
  FairShare
  CallsCostTime
