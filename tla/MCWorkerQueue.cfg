SPECIFICATION Spec
CONSTANTS
  k1 = k1
  NoKey = NoKey
  MaxJobs = 3
  Keys = {k1}
  Priorities = {1, 2}
  Limit = 2
  MaxRetries = 1
  MaxRequeues = 1
  MaxRestarts = 1
CHECK_DEADLOCK FALSE
INVARIANTS TypeOK SlotsMatchJobs NoIdleWorker KeyCompletedOnce
PROPERTIES ServedInOrder KeepsPromise
