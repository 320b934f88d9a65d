SPECIFICATION FairSpec
CONSTANTS
  NULL = NULL
  t1 = t1
  Idle = Idle
  sys = sys
  own = own
  a1 = a1
  a2 = a2
  a3 = a3
  User <- One
  Counter <- SysAndOwn
  Alarm <- ThreeAlarms
  CounterOf <- TwoOnSys
  WORD = 16
  InitTick <- FromZero
  SysTimer = sys
  Own = own
  Device = {31, 32, 160}
  IRQ_MAX = 32
  RELOAD = 1
  Timeouts <- Varied
  MaxTick = 2
  MaxNest = 2
  MaxOwn = 1
  SwitchAt = {"task"}
  Spurious = FALSE
  AnyX0 = FALSE
INVARIANTS
  IntTypeOK
  MaskedWhereItMust
  HandlerIsFound
  SpinNeverWaits
  OneTickPerExpiry
PROPERTIES
  TicksGoOn
  DeviceIsServed
  ImplementsAlarms
