SPECIFICATION SemSpec
CONSTANTS
  NULL = NULL
  t1 = t1
  t2 = t2
  t3 = t3
  Idle = Idle
  sem = sem
  User <- Twins
  WaitQueue <- OneSemaphore
  QueueType <- Fifo
  WIDTH = 2
  BYTES = 2
  WORD = 16
  MaxTick = 4
  IrqPoints = {"user", "idle"}
  ResumeAtElr = FALSE
  ExtraLabel = {"acquire", "acq_try", "acq_chk", "acq_re", "release", "rel_chk"}
  Ops = {"acquire", "release"}
  SleepTicks = {}
  Periods = {}
  CreatePriority <- Staggered
  NewPriority = {}
  Mutex <- NoMutex
  Condition = {}
  InitialCount <- NoToken
  MaxCount = 1
  HALF = 4
  Timeouts <- Timed
INVARIANTS
  AlarmWakesWaiter
