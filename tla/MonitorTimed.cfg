SPECIFICATION CondSpec
CONSTANTS
  NULL = NULL
  t1 = t1
  t2 = t2
  t3 = t3
  Idle = Idle
  mutex = mutex
  cond = cond
  User <- Triple
  WaitQueue <- MutexAndCondition
  QueueType <- ByPriority
  WIDTH = 2
  BYTES = 2
  WORD = 16
  MaxTick = 4
  IrqPoints = {"user", "idle", "acquire", "release", "rel_chk", "wakeup", "cond_wait"}
  ResumeAtElr = FALSE
  ExtraLabel = {"acquire", "acq_try", "acq_chk", "acq_re", "release", "rel_chk",
                "cond_wait", "cond_acq", "cond_ret"}
  Ops = {"create", "acquire", "release", "wait", "notify"}
  SleepTicks = {}
  Periods = {}
  CreatePriority <- OneAbove
  NewPriority = {}
  Mutex <- OneMutex
  Condition <- OneCondition
  InitialCount <- TokenForMutex
  MaxCount = 1
  HALF = 4
  Timeouts <- HighestTimed
  MutexOf <- TheMutex
  Waiters <- First
INVARIANTS
  TimeoutByAlarm
  AlarmWakesWaiter
  NoLostWakeup
PROPERTY
  OnlyNotifyWakes
