SPECIFICATION FairSpec
CONSTANTS
  ThreadNum = 1
  Tasks = {t1}
  None = None
PROPERTIES
  ShutdownCompletes
\* A worker that missed the notification keeps the destructor waiting.
CHECK_DEADLOCK FALSE
