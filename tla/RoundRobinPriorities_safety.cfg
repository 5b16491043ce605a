SPECIFICATION Spec
CONSTANTS
  Timeslice = 2
  MinimumRemainingTimeslice = 1
  Events = {0}
  SleepTimes = {1, 3}
  Priorities = {0, 2, 5}
  MaxPid = 3
INVARIANTS
  TypeOK
  QueueMatchesPriority
  EachProcessOnce
  NeverAborts
PROPERTIES
  ImplementsScheduler
  HighestPriorityFirst
  ServedInOrder
  OnlyExpiryDemotes
