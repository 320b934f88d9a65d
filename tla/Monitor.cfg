SPECIFICATION CondSpec
CONSTANTS
  NULL = NULL
  t1 = t1
  t2 = t2
  t3 = t3
  Idle = Idle
  mutex = mutex
  cond = cond
  User <- Triple
  WaitQueue <- MutexAndCondition
  QueueType <- ByPriority
  WIDTH = 2
  BYTES = 2
  WORD = 16
  MaxTick = 1
  IrqPoints = {"user", "idle", "schedule", "requeue", "wakeup",
               "acquire", "acq_try", "acq_chk", "acq_re", "release", "rel_chk",
               "cond_wait", "cond_acq", "cond_ret"}
  ResumeAtElr = FALSE
  ExtraLabel = {"acquire", "acq_try", "acq_chk", "acq_re", "release", "rel_chk",
                "cond_wait", "cond_acq", "cond_ret"}
  Ops = {"create", "suspend", "resume", "acquire", "release", "wait", "notify"}
  SleepTicks = {}
  Periods = {}
  CreatePriority <- Staggered
  NewPriority = {}
  Mutex <- OneMutex
  Condition <- OneCondition
  InitialCount <- TokenForMutex
  MaxCount = 1
  HALF = 4
  Timeouts <- Untimed
  MutexOf <- TheMutex
  Waiters <- FirstTwo
INVARIANTS
  SemTypeOK
  NoLostWakeup
  NeverOversold
  WaitQueuesSound
  NoTaskIsLost
  WaitReturnsHolding
  HighestIsNotified
