SPECIFICATION Spec
CONSTANTS
  NULL = NULL
  t1 = t1
  t2 = t2
  t3 = t3
  Idle = Idle
  User <- Twins
  WaitQueue <- NoWaitQueue
  QueueType <- NoQueueType
  WIDTH = 2
  BYTES = 2
  WORD = 16
  MaxTick = 4
  IrqPoints = {"user", "idle", "requeue", "sleep"}
  ResumeAtElr = FALSE
  ExtraLabel = {}
  Ops = {"sleep", "suspend", "resume", "lock"}
  SleepTicks = {0}
  Periods = {1, 2}
  CreatePriority <- HighOrNext
  NewPriority = {}
INVARIANTS
  NoTaskIsLost
  AlarmsOnTime
  PeriodicOnTime
  HighestPriorityRuns
