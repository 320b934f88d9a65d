SPECIFICATION MqSpec
CONSTANTS
  NULL = NULL
  t1 = t1
  t2 = t2
  t3 = t3
  Idle = Idle
  box = box
  Mq <- OneBox
  QueueSize <- Two
  Msg = {1, 2}
  User <- Triple
  WaitQueue <- PutAndGet
  QueueType <- Fifo
  WIDTH = 2
  BYTES = 2
  WORD = 16
  MaxTick = 1
  IrqPoints = {"user", "idle", "acq_chk", "send_idx", "send_copy", "send_rel",
               "recv_idx", "recv_copy"}
  ResumeAtElr = FALSE
  ExtraLabel = {"acquire", "acq_try", "acq_chk", "acq_re", "release", "rel_chk",
                "send_got", "send_idx", "send_copy", "send_rel",
                "recv_got", "recv_idx", "recv_copy", "recv_rel"}
  Ops = {"send", "receive"}
  SleepTicks = {}
  Periods = {}
  CreatePriority <- Staggered
  NewPriority = {}
  Mutex <- NoMutex
  Condition = {}
  InitialCount <- Zero
  MaxCount = 2
  HALF = 4
  Timeouts <- SomeTry
INVARIANTS
  TokensConserved
  NoLostWakeup
  HighestPriorityRuns
PROPERTY
  ImplementsChannel
