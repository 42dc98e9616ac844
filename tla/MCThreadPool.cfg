SPECIFICATION FairSpec
CONSTANTS
  ThreadNum = 2
  Tasks = {t1, t2, t3}
  None = None
INVARIANTS
  TypeOK
  TaskInOnePlace
  NoLostWakeup
  IdleCount
PROPERTIES
  ImplementsTaskPool
  TasksComplete
\* The process ends when the pool is joined.
CHECK_DEADLOCK FALSE
