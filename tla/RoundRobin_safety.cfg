SPECIFICATION Spec
CONSTANTS
  Timeslice = 3
  MinimumRemainingTimeslice = 1
  Events = {0, 1}
  SleepTimes = {1, 4}
  MaxPid = 4
INVARIANTS
  TypeOK
  StateMatchesPlace
  EachProcessOnce
  DecisionMatchesState
  NeverAborts
PROPERTIES
  ImplementsScheduler
  ServedInOrder
  RunsAfterSleep
