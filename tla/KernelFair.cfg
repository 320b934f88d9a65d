SPECIFICATION FairSpec
CONSTANTS
  NULL = NULL
  t1 = t1
  t2 = t2
  t3 = t3
  Idle = Idle
  User <- Twins
  WaitQueue <- NoWaitQueue
  QueueType <- NoQueueType
  WIDTH = 2
  BYTES = 2
  WORD = 4
  MaxTick = 4
  IrqPoints = {"user", "idle"}
  ResumeAtElr = FALSE
  ExtraLabel = {}
  Ops = {"sleep", "suspend", "resume"}
  SleepTicks = {2}
  Periods = {}
  CreatePriority <- Equal
  NewPriority = {}
PROPERTIES
  SleepEnds
  EqualsTakeTurns
