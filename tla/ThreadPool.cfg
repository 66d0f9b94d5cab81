\* One thread submits tasks, waits and destroys the pool; tasks submit tasks.
SPECIFICATION FairSpec
CONSTANTS
  Workers = {w1, w2}
  Clients = {c1}
  TaskIds = {k1, k2, k3}
  MaxSpurious = 1
  NoThread = NoThread
  NoTask = NoTask
INVARIANTS NoLostWakeup WaitCoversEarlierTasks DestructorDrains
PROPERTIES WaitReturns EveryTaskRuns DestructorReturns
