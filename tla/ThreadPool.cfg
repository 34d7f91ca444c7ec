\* Two workers, three tasks: a worker asleep while the other runs, and a task queued.
CONSTANTS
  Workers = {w1, w2}
  Tasks = {x1, x2, x3}
  Waiter = waiter
  None = None
SPECIFICATION FairSpec
INVARIANTS
  PendingNotUnderstated
  DestructorDrains
PROPERTIES
  WaitAllIsBarrier
  AcceptedTasksRun
  DestructorReturns
  WaitAllWakes
CHECK_DEADLOCK FALSE
