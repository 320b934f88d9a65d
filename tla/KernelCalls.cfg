SPECIFICATION Spec
CONSTANTS
  NULL = NULL
  t1 = t1
  t2 = t2
  t3 = t3
  Idle = Idle
  User <- Triple
  WaitQueue <- NoWaitQueue
  QueueType <- NoQueueType
  WIDTH = 2
  BYTES = 2
  WORD = 16
  MaxTick = 1
  IrqPoints = {"user", "idle", "create", "schedule", "requeue", "sleep", "change_priority", "suspend", "resume"}
  ResumeAtElr = FALSE
  ExtraLabel = {}
  Ops = {"change_priority", "suspend", "resume", "create"}
  SleepTicks = {}
  Periods = {}
  CreatePriority <- Equal
  NewPriority = {0, 1}
INVARIANTS
  TypeOK
  ReadyQueuesMatch
  HighestPriorityRuns
  ContextsBelong
  
