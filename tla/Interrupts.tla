----------------------------- MODULE Interrupts -----------------------------
(***************************************************************************)
(* How the tick gets from the timer device to the alarms: the generic      *)
(* timer and the GIC as hal/aarch64/timer.c and interrupt.c program them,  *)
(* the CPU's interrupt mask, the IRQ path of entry.S and core/interrupt.c, *)
(* the counters, and the boot that sets it all up, with the application    *)
(* and the scheduler reduced to what they do to masks and contexts.        *)
(*                                                                         *)
(* As in Kernel, cpu is a stack of frames.  PSTATE.I and SPSR_EL1 are kept *)
(* apart from it, and a context holds the SPSR_EL1 that an eret to it      *)
(* loads.  An interrupt is taken at any label at which PSTATE.I is clear.  *)
(*                                                                         *)
(* The device is real hardware for this module: a line is level-triggered  *)
(* and pending as long as its device asserts it; all priorities are equal, *)
(* so that none is signalled while another is active.                      *)
(***************************************************************************)
EXTENDS Counters, Sequences

CONSTANTS
  User, Idle,    \* the tasks of the application, the idle task
  SysTimer,      \* system_timer
  Own,           \* the counter that the application's device handler triggers
  Device,        \* the application's interrupts, by their numbers
  IRQ_MAX,       \* 32 in the code
  RELOAD,        \* _reload, in steps of the model's time
  Timeouts,      \* the timeouts the application sets each alarm to
  MaxTick,       \* bound of the model: the timer expires so many times
  MaxOwn,        \* bound of the model: the application's counter ticks so often
  MaxNest,       \* bound of the model: masked sections in each other
  SwitchAt,      \* the labels of the application that call eos_schedule
  Spurious,      \* the GIC signals what it then does not name
  AnyX0          \* whether the IRQ path restores whatever x0 points to

IRQ_CNTP == 30
Irq == Device \cup {IRQ_CNTP}
Task == User \cup {Idle}

\* What the interrupt mask must protect, from the reset to the eret.
BootLabel == {"gic_init", "init_hal", "init_icb", "init_timer", "create_idle",
              "user_main", "start"}
IrqLabel == {"get_irq", "ack_irq", "dispatch", "device", "rearm", "trigger",
             "loop", "callback", "resched", "eret"}
LockLabel == {"section", "spin", "locked", "unlocked"}
PathLabel == IrqLabel \ {"callback"}   \* the IRQ path's own code
Label == BootLabel \cup IrqLabel \cup LockLabel \cup {"first", "task", "idle", "lost"}

\* Where the application's own code runs.
AppLabel == {"user_main", "task", "callback", "device", "section"}

ASSUME InterruptAssumption ==
  /\ Idle \notin User /\ NULL \notin Task /\ NULL \notin {"timer", "device"}
  /\ SysTimer \in Counter /\ Own \in Counter \ {SysTimer} /\ InitTick[SysTimer] = 0
  /\ Device \subseteq Nat \ {IRQ_CNTP} /\ IRQ_MAX \in Nat /\ IRQ_CNTP < IRQ_MAX
  /\ RELOAD \in Nat \ {0} /\ Timeouts \in [Alarm -> SUBSET Nat]
  /\ MaxTick \in Nat /\ MaxOwn \in Nat /\ MaxNest \in Nat
  /\ SwitchAt \subseteq {"task", "callback", "device"}
  /\ Spurious \in BOOLEAN /\ AnyX0 \in BOOLEAN

VARIABLES
  cpu, current,   \* what the CPU executes, _os_current_task
  mask, spsr,     \* PSTATE.I, and the I bit of SPSR_EL1
  ctx,            \* the context of each task: [stack, spsr]
  handler,        \* _os_icb_table[].handler
  gic,            \* both parts of the GIC are enabled
  enabled,        \* GICD_ISENABLER
  active,         \* the interrupts acknowledged and not ended
  asserted,       \* the lines the application's devices raise
  left,           \* CNTP_TVAL_EL0: the condition holds at 0
  counting,       \* CNTP_CTL_EL0.ENABLE
  spinlock,       \* _os_ready_queue_lock
  expiries        \* how often the timer has reached 0

machine == <<cpu, current, mask, spsr, ctx>>
lines == <<gic, enabled, active, asserted>>
timer == <<left, counting, expiries>>
vars == <<machine, handler, lines, timer, spinlock, counters>>

-----------------------------------------------------------------------------
Frame(l) == [pc |-> l, irq |-> NULL, counter |-> NULL, flag |-> FALSE]
Top == cpu[1]
At(l) == Top.pc = l
Step(f) == cpu' = <<f>> \o Tail(cpu)
Goto(l) == Step([Top EXCEPT !.pc = l])
Push(f) == cpu' = <<f>> \o cpu
Return == cpu' = Tail(cpu)

(* The reset masks everything (entry.S:10, hal_disable_interrupt); what    *)
(* SPSR_EL1 holds is unknown.                                              *)
Init ==
  /\ cpu = <<Frame("gic_init")>> /\ current = NULL
  /\ mask = TRUE /\ spsr \in BOOLEAN
  /\ ctx = [t \in Task |-> NULL]
  /\ handler = [i \in 0 .. IRQ_MAX - 1 |-> NULL]
  /\ gic = FALSE /\ enabled = {} /\ active = {} /\ asserted = {}
  /\ left = 0 /\ counting = FALSE /\ expiries = 0
  /\ spinlock = FALSE
  /\ CountersInit

-----------------------------------------------------------------------------
(* The mask: hal_disable_interrupt returns what it was, and                *)
(* hal_restore_interrupt takes that back.                                  *)

(* Mutant: the end of a section always enables interrupts. *)
RestoreAlways(flag) == mask' = FALSE

HalEnable == mask' = FALSE
HalDisable == mask' = TRUE
HalRestore(flag) == mask' = flag

(* eos_set_interrupt_handler; whether it succeeds is InTable(n).  Its      *)
(* parameter is an int8s_t.                                                *)
AsInt8(n) == ((n + 128) % 256) - 128

(* Mutant: the last index that is let through is one too high. *)
InTableAndOne(n) == n >= 0 /\ n <= IRQ_MAX

InTable(n) == n >= 0 /\ n < IRQ_MAX

SetHandler(n, h) ==
  handler' = IF InTable(n) THEN [handler EXCEPT ![n] = h] ELSE handler

(* Mutant: interrupts are masked in a new context. *)
NewContextMasked(t) ==
  [stack |-> <<Frame(IF t = Idle THEN "idle" ELSE "task")>>, spsr |-> TRUE]

(* _os_create_context: interrupts are enabled in it.                       *)
NewContext(t) ==
  [stack |-> <<Frame(IF t = Idle THEN "idle" ELSE "task")>>, spsr |-> FALSE]

InIrq == \E i \in DOMAIN cpu : cpu[i].pc \in PathLabel

(* Mutant: the frame of the task itself is not stored.                     *)
ResumesAbove ==
  IF InIrq THEN SubSeq(cpu, 1 + CHOOSE i \in DOMAIN cpu : cpu[i].pc \in PathLabel, Len(cpu))
  ELSE Tail(cpu)

(* Where a stored context resumes.  In the IRQ path it is ELR_EL1, the     *)
(* address that was interrupted (context_asm.S:35-36): what is left of the *)
(* path is never run.  Elsewhere it is, by the contract of                 *)
(* _os_save_context, where it was stored (ResumeAtElr in Kernel has what   *)
(* the code stores).                                                       *)
ResumesAt ==
  IF InIrq THEN SubSeq(cpu, 1 + CHOOSE i \in DOMAIN cpu : cpu[i].pc \in PathLabel, Len(cpu))
  ELSE cpu

(* eos_schedule with another task as its result; the eret to that task     *)
(* loads PSTATE from the SPSR_EL1 stored with it.                          *)
SwitchTo(t) ==
  /\ ctx[t] # NULL /\ t # current
  /\ ctx' = IF current = NULL THEN ctx
            ELSE [ctx EXCEPT ![current] = [stack |-> ResumesAt, spsr |-> spsr]]
  /\ cpu' = ctx[t].stack
  /\ mask' = ctx[t].spsr /\ spsr' = ctx[t].spsr
  /\ current' = t

-----------------------------------------------------------------------------
(* Start-up: init.c:21-53. *)

GicInit ==
  /\ At("gic_init")
  /\ gic' = TRUE
  /\ Goto("init_hal")
  /\ UNCHANGED <<current, mask, spsr, ctx, handler, enabled, active, asserted,
                 timer, spinlock, counters>>

(* The timer counts, and its line is open, long before anything can take   *)
(* its interrupt.                                                          *)
InitHal ==
  /\ At("init_hal")
  /\ left' = RELOAD /\ counting' = TRUE
  /\ enabled' = enabled \cup {IRQ_CNTP}
  /\ Goto("init_icb")
  /\ UNCHANGED <<current, mask, spsr, ctx, handler, gic, active, asserted,
                 expiries, spinlock, counters>>

InitIcbTable ==
  /\ At("init_icb")
  /\ handler' = [i \in 0 .. IRQ_MAX - 1 |-> NULL]
  /\ Goto("init_timer")
  /\ UNCHANGED <<current, mask, spsr, ctx, lines, timer, spinlock, counters>>

InitTimer ==
  /\ At("init_timer")
  /\ InitCounter(SysTimer)
  /\ SetHandler(IRQ_CNTP, "timer")
  /\ Goto("create_idle")
  /\ UNCHANGED <<current, mask, spsr, ctx, lines, timer, spinlock>>

CreateIdle ==
  /\ At("create_idle")
  /\ ctx' = [ctx EXCEPT ![Idle] = NewContext(Idle)]
  /\ Goto("user_main")
  /\ UNCHANGED <<current, mask, spsr, handler, lines, timer, spinlock, counters>>

UserMainEnds ==
  /\ At("user_main")
  /\ Goto("start")
  /\ UNCHANGED <<current, mask, spsr, ctx, handler, lines, timer, spinlock, counters>>

Start ==
  /\ At("start")
  /\ HalEnable
  /\ Goto("first")
  /\ UNCHANGED <<current, spsr, ctx, handler, lines, timer, spinlock, counters>>

(* The eos_schedule that never returns. *)
FirstSchedule ==
  /\ At("first")
  /\ \E t \in Task : SwitchTo(t)
  /\ UNCHANGED <<handler, lines, timer, spinlock, counters>>

Boot ==
  \/ GicInit \/ InitHal \/ InitIcbTable \/ InitTimer \/ CreateIdle
  \/ Start \/ FirstSchedule

-----------------------------------------------------------------------------
(* The hardware. *)

TimePasses ==
  /\ counting /\ left > 0
  /\ left = 1 => expiries < MaxTick
  /\ left' = left - 1
  /\ expiries' = IF left = 1 THEN expiries + 1 ELSE expiries
  /\ UNCHANGED <<machine, handler, lines, counting, spinlock, counters>>

(* A device that was started wants attention. *)
Raise ==
  /\ \E d \in Device \cap enabled :
       d \notin asserted /\ asserted' = asserted \cup {d}
  /\ UNCHANGED <<machine, handler, gic, enabled, active, timer, spinlock, counters>>

Pending ==
  enabled \cap (asserted \cup IF counting /\ left = 0 THEN {IRQ_CNTP} ELSE {})

Signal == gic /\ active = {} /\ (Pending # {} \/ Spurious)

(* The exception: el1_irq_spx_handler. *)
TakeInterrupt ==
  /\ Signal /\ ~mask
  /\ mask' = TRUE /\ spsr' = mask
  /\ Push(Frame("get_irq"))
  /\ UNCHANGED <<current, ctx, handler, lines, timer, spinlock, counters>>

-----------------------------------------------------------------------------
(* The IRQ path. *)

(* The load from GICC_IAR (entry.S:160-161); 1023 names no interrupt.      *)
GetIrq ==
  /\ At("get_irq")
  /\ LET irq == IF Pending = {} THEN 1023
                ELSE CHOOSE i \in Pending : \A j \in Pending : i <= j
     IN  /\ Step([Top EXCEPT !.pc = "ack_irq", !.irq = irq])
         /\ active' = active \cup (Pending \cap {irq})
  /\ UNCHANGED <<current, mask, spsr, ctx, handler, gic, enabled, asserted,
                 timer, spinlock, counters>>

(* Mutant: the interrupt is not ended. *)
AckIrqForgotten ==
  /\ At("ack_irq")
  /\ Goto("dispatch")
  /\ UNCHANGED <<current, mask, spsr, ctx, handler, lines, timer, spinlock, counters>>

(* hal_ack_irq ends the interrupt, before its handler runs. *)
AckIrq ==
  /\ At("ack_irq")
  /\ active' = active \ {Top.irq}
  /\ Goto("dispatch")
  /\ UNCHANGED <<current, mask, spsr, ctx, handler, gic, enabled, asserted,
                 timer, spinlock, counters>>

(* The rest of _os_common_interrupt_handler: the table has IRQ_MAX entries *)
(* (an index beyond it is not defined).                                    *)
Dispatch ==
  /\ At("dispatch") /\ Top.irq \in DOMAIN handler
  /\ Goto(CASE handler[Top.irq] = "timer"  -> "rearm"
            [] handler[Top.irq] = "device" -> "device"
            [] OTHER                       -> "eret")
  /\ UNCHANGED <<current, mask, spsr, ctx, handler, lines, timer, spinlock, counters>>

(* _timer_rearm *)
TimerRearm == left' = RELOAD

(* Mutant: the timer is not reloaded. *)
RearmForgotten ==
  /\ At("rearm")
  /\ Step([Top EXCEPT !.pc = "trigger", !.counter = SysTimer])
  /\ UNCHANGED <<current, mask, spsr, ctx, handler, lines, timer, spinlock, counters>>

(* timer_interrupt_handler: _timer_rearm, then the system timer.           *)
Rearm ==
  /\ At("rearm")
  /\ TimerRearm
  /\ Step([Top EXCEPT !.pc = "trigger", !.counter = SysTimer])
  /\ UNCHANGED <<current, mask, spsr, ctx, handler, lines, counting, expiries,
                 spinlock, counters>>

TriggerCounter ==
  /\ At("trigger")
  /\ Advance(Top.counter)
  /\ Goto("loop")
  /\ UNCHANGED <<current, mask, spsr, ctx, handler, lines, timer, spinlock>>

FireAlarm ==
  /\ At("loop")
  /\ Fire(Top.counter)
  /\ Push(Frame("callback"))
  /\ UNCHANGED <<current, mask, spsr, ctx, handler, lines, timer, spinlock>>

LoopEnds ==
  /\ At("loop") /\ ~AlarmDue(Top.counter)
  /\ Goto("resched")
  /\ UNCHANGED <<current, mask, spsr, ctx, handler, lines, timer, spinlock, counters>>

(* The eos_schedule at the end of eos_trigger_counter returns, if there is *)
(* a current task, or switches.                                            *)
RescheduleStays ==
  /\ At("resched") /\ current # NULL
  /\ Goto("eret")
  /\ UNCHANGED <<current, mask, spsr, ctx, handler, lines, timer, spinlock, counters>>

RescheduleSwitches ==
  /\ At("resched")
  /\ \E t \in Task : SwitchTo(t)
  /\ UNCHANGED <<handler, lines, timer, spinlock, counters>>

(* _os_restore_and_eret takes the context from x0, where                   *)
(* _os_save_context left it (entry.S:156, 165).  With AnyX0 the C function *)
(* called between may have put anything there, as the ABI allows it to.    *)
Interrupted == [stack |-> Tail(cpu), spsr |-> spsr]
Anything == [stack : {<<Frame("lost")>>}, spsr : BOOLEAN]

Eret ==
  /\ At("eret")
  /\ \E c \in {Interrupted} \cup IF AnyX0 THEN Anything ELSE {} :
       cpu' = c.stack /\ mask' = c.spsr /\ spsr' = c.spsr
  /\ UNCHANGED <<current, ctx, handler, lines, timer, spinlock, counters>>

IrqPath ==
  \/ GetIrq \/ AckIrq \/ Dispatch \/ Rearm \/ TriggerCounter \/ FireAlarm
  \/ LoopEnds \/ RescheduleStays \/ RescheduleSwitches \/ Eret

-----------------------------------------------------------------------------
(* The application and the kernel functions it calls, in eos_user_main, in *)
(* a task, in an alarm's handler and in a device's.                        *)

InApp == Top.pc \in AppLabel

Compute == Top.pc \in {"task", "idle"} /\ UNCHANGED vars

(* The handler of an alarm, and that of a device, return. *)
CallbackEnds ==
  /\ At("callback")
  /\ Return
  /\ UNCHANGED <<current, mask, spsr, ctx, handler, lines, timer, spinlock, counters>>

(* A device's handler has it release its line; it may trigger a counter of *)
(* the application's own, and with it alarms.                              *)
DeviceEnds ==
  /\ At("device")
  /\ asserted' = asserted \ {Top.irq}
  /\ \/ Goto("eret")
     \/ /\ tick[Own] # (InitTick[Own] + MaxOwn) % WORD
        /\ Step([Top EXCEPT !.pc = "trigger", !.counter = Own])
  /\ UNCHANGED <<current, mask, spsr, ctx, handler, gic, enabled, active,
                 timer, spinlock, counters>>

(* eos_set_alarm is not atomic: on a counter that a handler triggers it is *)
(* called with interrupts masked.                                          *)
AppSetAlarm ==
  /\ InApp /\ mask
  /\ \E a \in Alarm : \E c \in CounterOf[a], n \in Timeouts[a] : SetAlarm(c, a, n)
  /\ UNCHANGED <<machine, handler, lines, timer, spinlock>>

CreateTask ==
  /\ InApp /\ ~At("section")
  /\ \E t \in User :
       ctx[t] = NULL /\ t # current /\ ctx' = [ctx EXCEPT ![t] = NewContext(t)]
  /\ UNCHANGED <<cpu, current, mask, spsr, handler, lines, timer, spinlock, counters>>

(* hal_disable_interrupt and hal_restore_interrupt around a few lines, as  *)
(* in eos_schedule, _os_lock_scheduler and the semaphores.                 *)
Nested == Cardinality({i \in DOMAIN cpu : cpu[i].pc = "section"})

EnterSection ==
  /\ InApp /\ Nested < MaxNest
  /\ Push([Frame("section") EXCEPT !.flag = mask])
  /\ HalDisable
  /\ UNCHANGED <<current, spsr, ctx, handler, lines, timer, spinlock, counters>>

LeaveSection ==
  /\ At("section")
  /\ HalRestore(Top.flag)
  /\ Return
  /\ UNCHANGED <<current, spsr, ctx, handler, lines, timer, spinlock, counters>>

(* _os_lock_sync, as eos_create_task calls it: mask, then spin.            *)
LockSync ==
  /\ InApp
  /\ Push([Frame("spin") EXCEPT !.flag = mask])
  /\ HalDisable
  /\ UNCHANGED <<current, spsr, ctx, handler, lines, timer, spinlock, counters>>

(* _os_spin_lock: the last turn of its loop. *)
SpinLock ==
  /\ At("spin") /\ ~spinlock
  /\ spinlock' = TRUE
  /\ Goto("locked")
  /\ UNCHANGED <<current, mask, spsr, ctx, handler, lines, timer, counters>>

(* _os_spin_unlock *)
SpinUnlock == spinlock' = FALSE

(* Mutant: interrupts are restored before the lock is free. *)
UnlockSyncLate ==
  /\ \/ At("locked") /\ HalRestore(Top.flag) /\ Goto("unlocked") /\ UNCHANGED spinlock
     \/ At("unlocked") /\ SpinUnlock /\ Return /\ UNCHANGED mask
  /\ UNCHANGED <<current, spsr, ctx, handler, lines, timer, counters>>

(* _os_unlock_sync: _os_spin_unlock, then hal_restore_interrupt.           *)
UnlockSync ==
  /\ \/ At("locked") /\ SpinUnlock /\ Goto("unlocked") /\ UNCHANGED mask
     \/ At("unlocked") /\ HalRestore(Top.flag) /\ Return /\ UNCHANGED spinlock
  /\ UNCHANGED <<current, spsr, ctx, handler, lines, timer, counters>>

(* A call that switches to another task.                                   *)
AppSwitches ==
  /\ InApp /\ Top.pc \in SwitchAt
  /\ \E t \in Task : SwitchTo(t)
  /\ UNCHANGED <<handler, lines, timer, spinlock, counters>>

(* The application registers a handler and, if that succeeds, opens the    *)
(* line; it closes the line before it takes the handler back.  No          *)
(* interrupt sees what is between the two calls: the line is closed then.  *)
StartDevice ==
  /\ Top.pc \in {"user_main", "task"}
  /\ \E d \in Device :
       /\ SetHandler(AsInt8(d), "device")
       /\ enabled' = IF InTable(AsInt8(d)) THEN enabled \cup {d} ELSE enabled
  /\ UNCHANGED <<machine, gic, active, asserted, timer, spinlock, counters>>

StopDevice ==
  /\ At("task")
  /\ \E d \in Device \cap enabled :
       /\ enabled' = enabled \ {d}
       /\ SetHandler(AsInt8(d), NULL)
  /\ UNCHANGED <<machine, gic, active, asserted, timer, spinlock, counters>>

AppReturns == UserMainEnds \/ CallbackEnds \/ DeviceEnds

App ==
  \/ Compute \/ AppReturns
  \/ AppSetAlarm \/ CreateTask \/ AppSwitches \/ StartDevice \/ StopDevice
  \/ EnterSection \/ LeaveSection \/ LockSync \/ SpinLock \/ UnlockSync

Next == Boot \/ TimePasses \/ Raise \/ TakeInterrupt \/ IrqPath \/ App

(* The CPU executes, the timer counts, and an interrupt that is signalled  *)
(* again and again while interrupts are enabled is taken.  Of the          *)
(* application it is assumed that eos_user_main, its handlers and its      *)
(* masked sections end, however often they call something first.           *)
Fairness ==
  /\ WF_vars(Boot \/ IrqPath \/ SpinLock \/ UnlockSync)
  /\ WF_vars(TimePasses) /\ SF_vars(TakeInterrupt)
  /\ SF_vars(AppReturns) /\ \A k \in 1 .. MaxNest : SF_vars(LeaveSection /\ Nested = k)

Spec == Init /\ [][Next]_vars
FairSpec == Spec /\ Fairness

-----------------------------------------------------------------------------
(* Properties. *)

FrameType ==
  [pc : Label, irq : Irq \cup {1023, NULL}, counter : Counter \cup {NULL}, flag : BOOLEAN]
Context == [stack : Seq(FrameType), spsr : BOOLEAN]

IntTypeOK ==
  /\ cpu \in Seq(FrameType) /\ cpu # <<>>
  /\ current \in Task \cup {NULL} /\ mask \in BOOLEAN /\ spsr \in BOOLEAN
  /\ \A t \in Task : ctx[t] # NULL => ctx[t] \in Context /\ ctx[t].stack # <<>>
  /\ handler \in [0 .. IRQ_MAX - 1 -> {NULL, "timer", "device"}]
  /\ gic \in BOOLEAN /\ enabled \subseteq Irq /\ active \subseteq Irq
  /\ asserted \subseteq Device
  /\ left \in 0 .. RELOAD /\ counting \in BOOLEAN /\ expiries \in 0 .. MaxTick
  /\ spinlock \in BOOLEAN
  /\ CountersOK

(* What runs in an alarm's or device's handler, in a masked section or     *)
(* with a spinlock is not interrupted, however these nest; neither is the  *)
(* boot; and no task is switched out of such code, to come back to it      *)
(* unmasked (interrupt.c:50-69 of the HAL, scheduler.c:69-80).             *)
Guarded == BootLabel \cup IrqLabel \cup LockLabel
Protected(s) == \E i \in DOMAIN s : s[i].pc \in Guarded

MaskedWhereItMust ==
  /\ Protected(cpu) => mask
  /\ \A t \in Task \ {current} : ctx[t] # NULL => ~Protected(ctx[t].stack)

(* "Registers interrupt handler with given irq number" (eos.h:80-81): an   *)
(* interrupt finds the handler registered for its number in the table.     *)
HandlerIsFound ==
  At("dispatch") =>
    /\ Top.irq \in DOMAIN handler
    /\ handler[Top.irq] = IF Top.irq = IRQ_CNTP THEN "timer" ELSE "device"

(* The spinlock is only taken with interrupts masked and freed before they *)
(* are enabled: on one CPU nobody ever waits for it, which would be for    *)
(* ever (scheduler.c:69-80, lock.c:3-19).                                  *)
SpinNeverWaits == At("spin") => ~spinlock

(* Each expiry of the timer makes one tick of the system timer: none is    *)
(* counted twice and none is lost to the mask, to another interrupt or to  *)
(* a switch of tasks (hal/timer.c:46-50, core/timer.c:96-101).             *)
Ticking(i) == cpu[i].pc = "trigger" /\ cpu[i].counter = SysTimer

OneTickPerExpiry ==
  LET pending == IF counting /\ left = 0 THEN 1 ELSE 0
      owed == Cardinality({i \in DOMAIN cpu : Ticking(i)})
  IN  tick[SysTimer] + owed + pending = expiries

(* The clock goes on: whatever the tasks and handlers do between, each     *)
(* tick is followed by the next (interrupt.c:86-97, entry.S:154-165).      *)
TicksGoOn ==
  \A n \in 0 .. MaxTick - 1 : tick[SysTimer] = n ~> tick[SysTimer] = n + 1

(* A device that was started and raises its line is served, or stopped     *)
(* (interrupt.c:86-115).                                                   *)
DeviceIsServed ==
  \A d \in Device : d \in asserted \cap enabled ~> d \notin asserted \cap enabled

(* The counters keep what AlarmService promises: each alarm fires at the   *)
(* tick it was last set for, once (timer.c:28-92).                         *)
Armed ==
  UNION {{[alarm |-> a, on |-> c, at |-> timeout[a]] : a \in Members(Queue(c))} :
         c \in Counter}

Service == INSTANCE AlarmService
             WITH now <- tick, armed <- Armed,
                  Delay <- (UNION {Timeouts[a] : a \in Alarm}) \ {0}

ImplementsAlarms == Service!Spec
=============================================================================
