------------------------------- MODULE Kernel -------------------------------
(***************************************************************************)
(* Tasks, the scheduler and the system timer of eOS: core/task.c,          *)
(* core/scheduler.c, the system-timer part of core/timer.c and the start   *)
(* of core/init.c, on one CPU with a timer interrupt.                      *)
(*                                                                         *)
(* The CPU executes the stack of frames cpu; cpu[1] is the innermost call. *)
(* A frame has a program label and the call's locals.  A switch of tasks   *)
(* stores that stack in ctx and loads another.  The timer interrupt pushes *)
(* the tick handler on whatever the CPU executes, at any of the labels in  *)
(* IrqPoints, unless interrupts are masked; the handler's own steps are    *)
(* interleaved with nothing.  Between two labels the code calls at most    *)
(* one list operation, with the test that guards it and the bitmap update  *)
(* that follows it; such a step is atomic.                                 *)
(*                                                                         *)
(* A task's queue_node is named by the task, and so is its alarm.  The     *)
(* node's order_val always equals the task's priority and is not kept.     *)
(***************************************************************************)
EXTENDS NodeList, ReadyBits, Sequences

CONSTANTS
  User, Idle,        \* the tasks of the application, the idle task
  WaitQueue,         \* the wait queues: semaphores and condition variables
  QueueType,         \* their queue_type: [WaitQueue -> {"FIFO", "PRIORITY"}]
  WORD,              \* the modulus of int32u_t (2^32 in the code)
  MaxTick,           \* bound of the model: no tick beyond this one
  IrqPoints,         \* the labels at which the tick may interrupt
  ResumeAtElr,       \* what a saved context resumes at, see SaveContext
  ExtraLabel,        \* the labels of the modules on top of this one
  \* What the application does: the calls, and their arguments.
  Ops, SleepTicks, Periods, CreatePriority, NewPriority

Task == User \cup {Idle}

KernelLabel ==
  {"boot", "user_main", "boot_end", "user", "idle", "create", "created",
   "schedule", "requeue", "mark_ready", "save", "pick", "unqueue", "run",
   "restore", "trigger", "irq_return", "sleep", "sleep_diff", "arm", "doze",
   "change_priority", "reinsert", "set_priority", "suspend", "suspended",
   "resume", "resumed", "wait", "waiting", "wakeup", "make_ready", "woken"}
Label == KernelLabel \cup ExtraLabel

ASSUME KernelAssumption ==
  /\ Idle \notin User /\ NULL \notin Task /\ NULL \notin WaitQueue
  /\ QueueType \in [WaitQueue -> {"FIFO", "PRIORITY"}]
  /\ WORD \in Nat \ {0} /\ MaxTick \in Nat
  /\ IrqPoints \subseteq Label /\ ResumeAtElr \in BOOLEAN
  /\ SleepTicks \subseteq Nat /\ Periods \subseteq Nat
  /\ CreatePriority \in [User -> SUBSET Priority] /\ NewPriority \subseteq Priority

VARIABLES
  status, priority, owner,   \* eos_tcb_t.status, .priority, .wait_queue_owner
  period, wakeup,            \* eos_tcb_t.period, .wakeup_time
  links,                     \* the links of every queue_node: [prev, next]
  ready, waitq,              \* the heads of the ready queues and wait queues
  bits,                      \* _os_ready_group and _os_ready_table
  current, lock,             \* _os_current_task, _os_scheduler_lock
  tick,                      \* system_timer.tick
  alarms, timeout,           \* system_timer.alarm_queue, eos_alarm_t.timeout
  cpu,                       \* what the CPU executes
  ctx,                       \* the context each tcb's sp points to
  elr                        \* ELR_EL1, kept when ResumeAtElr

tcb == <<status, priority, owner>>
periods == <<period, wakeup>>
queues == <<links, ready, waitq, bits>>
timer == <<tick, alarms, timeout>>
sched == <<current, lock>>
contexts == <<ctx, elr>>
kernel == <<tcb, periods, queues, timer, sched, contexts>>
vars == <<kernel, cpu>>

-----------------------------------------------------------------------------
(* The machine. *)

TaskFrame(l, t, n) == [pc |-> l, task |-> t, queue |-> NULL, num |-> n, abs |-> 0]
Frame(l) == TaskFrame(l, NULL, 0)

Top == cpu[1]
At(l) == Top.pc = l

Step(f) == cpu' = <<f>> \o Tail(cpu)
Goto(l) == Step([Top EXCEPT !.pc = l])
Call(f, l) == cpu' = <<f, [Top EXCEPT !.pc = l]>> \o Tail(cpu)
Return == cpu' = Tail(cpu)
ScheduleNever == Return               \* mutant: the call is left out
Schedule == Step(Frame("schedule"))   \* eos_schedule() as the last call

(* PSTATE.I: set while the tick handler runs (until the eret that leaves   *)
(* it) and during _os_init.                                                *)
Masked ==
  \/ \E i \in DOMAIN cpu : cpu[i].pc \in {"trigger", "irq_return"}
  \/ cpu[Len(cpu)].pc \in {"boot", "user_main"}

(* _os_init, _os_init_task, _os_init_scheduler, eos_init_counter: the tcbs *)
(* are static and zero, and the scheduler is locked.                       *)
Init ==
  /\ status = [t \in Task |-> "NEW"]
  /\ priority = [t \in Task |-> 0]
  /\ owner = [t \in Task |-> NULL]
  /\ period = [t \in Task |-> 0] /\ wakeup = [t \in Task |-> 0]
  /\ links = [prev |-> [t \in Task |-> NULL], next |-> [t \in Task |-> NULL]]
  /\ ready = [p \in Priority |-> NULL] /\ waitq = [q \in WaitQueue |-> NULL]
  /\ bits = NoneReady
  /\ current = NULL /\ lock = "LOCKED"
  /\ tick = 0 /\ timeout = [t \in Task |-> 0]
  /\ alarms = [prev |-> [t \in Task |-> NULL], next |-> [t \in Task |-> NULL],
               head |-> NULL]
  /\ cpu = <<Frame("boot")>>
  /\ ctx = [t \in Task |-> <<>>] /\ elr = <<>>

-----------------------------------------------------------------------------
(* The ready queues with their bitmap. *)

List(h) == [prev |-> links.prev, next |-> links.next, head |-> h]
Links(l) == [prev |-> l.prev, next |-> l.next]

(* Mutant: the task goes to the head of its queue. *)
EnqueueAtHead(l, t, p) ==
  /\ links' = Links(AddNodeTail([l EXCEPT !.head = ready[p]], t))
  /\ ready' = [ready EXCEPT ![p] = t]
  /\ bits' = SetReady(bits, p)

(* _os_add_node_tail on the ready queue of p, then _os_set_ready(p); the   *)
(* links are those of l.                                                   *)
Enqueue(l, t, p) ==
  LET new == AddNodeTail([l EXCEPT !.head = ready[p]], t)
  IN  /\ links' = Links(new)
      /\ ready' = [ready EXCEPT ![p] = new.head]
      /\ bits' = SetReady(bits, p)

EnqueueReady(t) == Enqueue(List(NULL), t, priority[t]) /\ UNCHANGED waitq

(* _os_remove_node on the ready queue of t's priority, then                *)
(* _os_unset_ready if that queue has become empty.                         *)
DequeueReady(t) ==
  LET new == RemoveNode(List(ready[priority[t]]), t)
  IN  /\ links' = Links(new)
      /\ ready' = [ready EXCEPT ![priority[t]] = new.head]
      /\ bits' = IF new.head = NULL THEN UnsetReady(bits, priority[t]) ELSE bits
      /\ UNCHANGED waitq

SetStatus(t, s) ==
  status' = [status EXCEPT ![t] = s] /\ UNCHANGED <<priority, owner>>

-----------------------------------------------------------------------------
(* Start-up: _os_init creates the idle task, runs eos_user_main and enters *)
(* the scheduler for good.                                                 *)

BootIdle ==
  /\ At("boot")
  /\ Call(TaskFrame("create", Idle, LOWEST_PRIORITY), "user_main")
  /\ UNCHANGED kernel

(* The application creates each task once. *)
Creating(t) ==
  \E s \in {cpu} \cup {ctx[u] : u \in Task} : \E i \in DOMAIN s :
    s[i].pc = "create" /\ s[i].task = t

CallCreate(l) ==
  \E t \in User : \E p \in CreatePriority[t] :
    /\ ctx[t] = <<>> /\ ~Creating(t)
    /\ Call(TaskFrame("create", t, p), l)

UserMain == At("user_main") /\ CallCreate("user_main") /\ UNCHANGED kernel

StartMultitasking ==
  /\ At("user_main")
  /\ lock' = "UNLOCKED"
  /\ Call(Frame("schedule"), "boot_end")
  /\ UNCHANGED <<tcb, periods, queues, timer, current, contexts>>

(* eos_create_task up to the unlock of the ready queue (task.c:55-73). *)
Create ==
  /\ At("create")
  /\ LET t == Top.task IN
       /\ priority' = [priority EXCEPT ![t] = Top.num]
       /\ period' = [period EXCEPT ![t] = 0]
       /\ wakeup' = [wakeup EXCEPT ![t] = 0]
       /\ ctx' = [ctx EXCEPT ![t] =
                 <<TaskFrame(IF t = Idle THEN "idle" ELSE "user", t, 0)>>]
       /\ Enqueue(List(NULL), t, Top.num)
  /\ Goto("created")
  /\ UNCHANGED <<status, owner, waitq, timer, sched, elr>>

(* status = READY, then eos_schedule: the end of eos_create_task, of       *)
(* eos_resume_task and of _os_wakeup_from_queue.                           *)
BecomeReady ==
  /\ Top.pc \in {"created", "resumed", "woken"}
  /\ SetStatus(Top.task, "READY")
  /\ Schedule
  /\ UNCHANGED <<periods, queues, timer, sched, contexts>>

-----------------------------------------------------------------------------
(* eos_schedule *)

ScheduleEntry ==
  /\ At("schedule")
  /\ \/ lock = "LOCKED" /\ Return
     \/ lock = "UNLOCKED" /\ current = NULL /\ Goto("pick")
     \/ /\ lock = "UNLOCKED" /\ current # NULL
        /\ Goto(IF status[current] = "RUNNING" THEN "requeue" ELSE "save")
  /\ UNCHANGED kernel

Requeue ==
  /\ At("requeue")
  /\ EnqueueReady(current)
  /\ Goto("mark_ready")
  /\ UNCHANGED <<tcb, periods, timer, sched, contexts>>

MarkReady ==
  /\ At("mark_ready")
  /\ SetStatus(current, "READY")
  /\ Goto("save")
  /\ UNCHANGED <<periods, queues, timer, sched, contexts>>

(* _os_save_context.  Its contract (eos_internal.h:143-150, and the test   *)
(* of its result in task.c:110-113) is to return a second time, when the   *)
(* context is restored, so that eos_schedule returns to its caller.  The   *)
(* code of context_asm.S:9-42 stores the current ELR_EL1 as the address to *)
(* resume at: where this CPU was last sent by an eret, or interrupted.     *)
SaveContext ==
  /\ At("save")
  /\ ctx' = [ctx EXCEPT ![current] = IF ResumeAtElr THEN elr ELSE Tail(cpu)]
  /\ Goto("pick")
  /\ UNCHANGED <<tcb, periods, queues, timer, sched, elr>>

(* The highest-priority node; a NULL head would be dereferenced. *)
Pick ==
  /\ At("pick")
  /\ ready[HighestPriority(bits)] # NULL
  /\ Step(TaskFrame("unqueue", ready[HighestPriority(bits)], 0))
  /\ UNCHANGED kernel

Unqueue ==
  /\ At("unqueue")
  /\ DequeueReady(Top.task)
  /\ Goto("run")
  /\ UNCHANGED <<tcb, periods, timer, sched, contexts>>

(* Mutant: _os_current_task is not set. *)
RunForgetsCurrent ==
  /\ At("run")
  /\ SetStatus(Top.task, "RUNNING")
  /\ Goto("restore")
  /\ UNCHANGED <<periods, queues, timer, sched, contexts>>

Run ==
  /\ At("run")
  /\ SetStatus(Top.task, "RUNNING")
  /\ current' = Top.task
  /\ Goto("restore")
  /\ UNCHANGED <<periods, queues, timer, lock, contexts>>

(* _os_restore_and_eret(next_task->sp) *)
RestoreContext ==
  /\ At("restore")
  /\ cpu' = ctx[Top.task]
  /\ elr' = IF ResumeAtElr THEN ctx[Top.task] ELSE elr
  /\ UNCHANGED <<tcb, periods, queues, timer, sched, ctx>>

-----------------------------------------------------------------------------
(* The timer interrupt: el1_irq_spx_handler, _os_common_interrupt_handler  *)
(* with save_current_task_sp, timer_interrupt_handler, and                 *)
(* eos_trigger_counter on the system timer.                                *)

Interrupt ==
  /\ Top.pc \in IrqPoints
  /\ ~Masked
  /\ tick < MaxTick
  /\ tick' = (tick + 1) % WORD
  /\ cpu' = <<Frame("trigger")>> \o cpu
  /\ ctx' = IF current = NULL THEN ctx ELSE [ctx EXCEPT ![current] = cpu]
  /\ elr' = IF ResumeAtElr THEN cpu ELSE elr
  /\ UNCHANGED <<tcb, periods, queues, alarms, timeout, sched>>

(* Mutant: an alarm is due the tick after. *)
AlarmDueLate == alarms.head # NULL /\ timeout[alarms.head] < tick

AlarmDue == alarms.head # NULL /\ timeout[alarms.head] <= tick

(* One turn of the loop: the head alarm is removed and its handler,        *)
(* _os_wakeup_from_alarm_queue, readies the task whatever it was doing.    *)
FireAlarm ==
  /\ At("trigger") /\ AlarmDue
  /\ LET t == alarms.head
         q == owner[t]
         l == IF q = NULL THEN List(NULL) ELSE RemoveNode(List(waitq[q]), t)
     IN  /\ alarms' = RemoveNode(alarms, t)
         /\ waitq' = IF q = NULL THEN waitq ELSE [waitq EXCEPT ![q] = l.head]
         /\ owner' = [owner EXCEPT ![t] = NULL]
         /\ Enqueue(l, t, priority[t])
         /\ status' = [status EXCEPT ![t] = "READY"]
  /\ UNCHANGED <<priority, periods, tick, timeout, sched, contexts, cpu>>

(* No alarm is due any more: eos_schedule, then back to the handler. *)
AlarmsDone ==
  /\ At("trigger") /\ ~AlarmDue
  /\ Call(Frame("schedule"), "irq_return")
  /\ UNCHANGED kernel

(* The eret that resumes what the interrupt had stopped. *)
IrqReturn == At("irq_return") /\ Return /\ UNCHANGED kernel

-----------------------------------------------------------------------------
(* eos_sleep: task.c:226-256 *)

Sleep ==
  /\ At("sleep")
  /\ LET periodic == Top.num = 0 /\ period[current] # 0
         release == (wakeup[current] + period[current]) % WORD
     IN  \/ lock = "LOCKED" /\ Return /\ UNCHANGED wakeup
         \/ lock = "UNLOCKED" /\ ~periodic /\ Goto("arm") /\ UNCHANGED wakeup
         \/ /\ lock = "UNLOCKED" /\ periodic
            /\ wakeup' = [wakeup EXCEPT ![current] = release]
            /\ IF release <= tick THEN Return ELSE Goto("sleep_diff")
  /\ UNCHANGED <<tcb, period, queues, timer, sched, contexts>>

(* Mutant: the task sleeps a whole period from now. *)
SleepWholePeriod ==
  /\ At("sleep_diff")
  /\ Step([Top EXCEPT !.pc = "arm", !.num = period[current]])
  /\ UNCHANGED kernel

SleepDiff ==
  /\ At("sleep_diff")
  /\ Step([Top EXCEPT !.pc = "arm", !.num = (wakeup[current] - tick) % WORD])
  /\ UNCHANGED kernel

(* Mutants: a set alarm is not taken back; the timeout does not wrap.      *)
SetAlarmKeeps(t, n) ==
  /\ timeout' = IF n = 0 THEN timeout ELSE [timeout EXCEPT ![t] = (tick + n) % WORD]
  /\ alarms' = IF n = 0 THEN alarms
               ELSE AddNodeOrdered(RemoveNode(alarms, t), t, timeout')
  /\ UNCHANGED tick

SetAlarmUnwrapped(t, n) ==
  LET off == RemoveNode(alarms, t)
  IN  /\ timeout' = IF n = 0 THEN timeout ELSE [timeout EXCEPT ![t] = tick + n]
      /\ alarms' = IF n = 0 THEN off ELSE AddNodeOrdered(off, t, timeout')
      /\ UNCHANGED tick

(* eos_set_alarm on the alarm of t; the entry is NULL only when n = 0. *)
SetAlarm(t, n) ==
  LET off == RemoveNode(alarms, t)
  IN  /\ timeout' = IF n = 0 THEN timeout
                    ELSE [timeout EXCEPT ![t] = (tick + n) % WORD]
      /\ alarms' = IF n = 0 THEN off ELSE AddNodeOrdered(off, t, timeout')
      /\ UNCHANGED tick

Arm ==
  /\ At("arm")
  /\ SetAlarm(current, Top.num)
  /\ Goto("doze")
  /\ UNCHANGED <<tcb, periods, queues, sched, contexts>>

Doze ==
  /\ At("doze")
  /\ SetStatus(current, "WAITING")
  /\ Schedule
  /\ UNCHANGED <<periods, queues, timer, sched, contexts>>

-----------------------------------------------------------------------------
(* eos_change_priority, eos_suspend_task, eos_resume_task: task.c:148-223 *)

(* A READY task leaves its queue; any other is only relabelled. *)
ChangePriority ==
  /\ At("change_priority")
  /\ IF status[Top.task] = "READY"
     THEN DequeueReady(Top.task) /\ Goto("reinsert")
     ELSE UNCHANGED queues /\ Goto("set_priority")
  /\ UNCHANGED <<tcb, periods, timer, sched, contexts>>

Reinsert ==
  /\ At("reinsert")
  /\ Enqueue(List(NULL), Top.task, Top.num)
  /\ Goto("set_priority")
  /\ UNCHANGED <<tcb, periods, waitq, timer, sched, contexts>>

SetPriority ==
  /\ At("set_priority")
  /\ priority' = [priority EXCEPT ![Top.task] = Top.num]
  /\ Schedule
  /\ UNCHANGED <<status, owner, periods, queues, timer, sched, contexts>>

Suspend ==
  /\ At("suspend")
  /\ IF status[Top.task] = "READY"
     THEN DequeueReady(Top.task) /\ Goto("suspended")
     ELSE UNCHANGED queues /\ Return
  /\ UNCHANGED <<tcb, periods, timer, sched, contexts>>

Suspended ==
  /\ At("suspended")
  /\ SetStatus(Top.task, "SUSPENDED")
  /\ Return
  /\ UNCHANGED <<periods, queues, timer, sched, contexts>>

Resume ==
  /\ At("resume")
  /\ IF status[Top.task] = "SUSPENDED"
     THEN EnqueueReady(Top.task) /\ Goto("resumed")
     ELSE UNCHANGED queues /\ Return
  /\ UNCHANGED <<tcb, periods, timer, sched, contexts>>

-----------------------------------------------------------------------------
(* _os_wait_in_queue and _os_wakeup_from_queue: task.c:273-316.  Only the  *)
(* modules on top of this one call them: these are steps of theirs.        *)

WaitInQueue ==
  /\ At("wait")
  /\ LET l == List(waitq[Top.queue])
         new == IF QueueType[Top.queue] = "FIFO" THEN AddNodeTail(l, current)
                ELSE AddNodeOrdered(l, current, priority)
     IN  /\ links' = Links(new)
         /\ waitq' = [waitq EXCEPT ![Top.queue] = new.head]
  /\ Goto("waiting")
  /\ UNCHANGED <<tcb, periods, ready, bits, timer, sched, contexts>>

Waiting ==
  /\ At("waiting")
  /\ owner' = [owner EXCEPT ![current] = Top.queue]
  /\ status' = [status EXCEPT ![current] = "WAITING"]
  /\ Schedule
  /\ UNCHANGED <<priority, periods, queues, timer, sched, contexts>>

Wakeup ==
  /\ At("wakeup")
  /\ LET t == waitq[Top.queue]
     IN  IF t = NULL THEN UNCHANGED queues /\ Return
         ELSE LET new == RemoveNode(List(t), t) IN
              /\ links' = Links(new)
              /\ waitq' = [waitq EXCEPT ![Top.queue] = new.head]
              /\ Step([Top EXCEPT !.pc = "make_ready", !.task = t])
              /\ UNCHANGED <<ready, bits>>
  /\ UNCHANGED <<tcb, periods, timer, sched, contexts>>

MakeReady ==
  /\ At("make_ready")
  /\ EnqueueReady(Top.task)
  /\ Goto("woken")
  /\ UNCHANGED <<tcb, periods, timer, sched, contexts>>

-----------------------------------------------------------------------------
(* The application: in a task, at "user", it computes or makes one of the  *)
(* calls in Ops.                                                           *)

Created(t) == status[t] # "NEW"

(* A call that changes no kernel state before its first label. *)
UserCall(op, f) == At("user") /\ op \in Ops /\ Call(f, "user") /\ UNCHANGED kernel

Compute == Top.pc \in {"user", "idle"} /\ UNCHANGED vars

(* eos_sleep(0) is for periodic tasks: for another it never ends. *)
UserSleep ==
  \E n \in SleepTicks :
    /\ (At("user") /\ n = 0) => period[current] # 0
    /\ UserCall("sleep", TaskFrame("sleep", NULL, n))

UserChangePriority ==
  \E t \in User, p \in NewPriority :
    /\ Created(t)
    /\ UserCall("change_priority", TaskFrame("change_priority", t, p))

UserSuspend ==
  \E t \in User : Created(t) /\ UserCall("suspend", TaskFrame("suspend", t, 0))

UserResume ==
  \E t \in User : Created(t) /\ UserCall("resume", TaskFrame("resume", t, 0))

UserCreate ==
  At("user") /\ "create" \in Ops /\ CallCreate("user") /\ UNCHANGED kernel

(* eos_set_period: task.c:179-184 *)
SetPeriod ==
  /\ At("user_main") \/ (At("user") /\ "set_period" \in Ops)
  /\ \E t \in User, n \in Periods :
       /\ Created(t)
       /\ period' = [period EXCEPT ![t] = n]
       /\ wakeup' = [wakeup EXCEPT ![t] = tick]
  /\ UNCHANGED <<tcb, queues, timer, sched, contexts, cpu>>

(* eos_lock_scheduler, and eos_restore_scheduler with what it returned *)
LockScheduler ==
  /\ At("user") /\ "lock" \in Ops /\ lock = "UNLOCKED"
  /\ lock' = "LOCKED"
  /\ UNCHANGED <<tcb, periods, queues, timer, current, contexts, cpu>>

RestoreScheduler ==
  /\ At("user") /\ "lock" \in Ops /\ lock = "LOCKED"
  /\ lock' = "UNLOCKED"
  /\ Call(Frame("schedule"), "user")
  /\ UNCHANGED <<tcb, periods, queues, timer, current, contexts>>

-----------------------------------------------------------------------------

Boot == BootIdle \/ UserMain \/ StartMultitasking

KernelStep ==
  \/ Create \/ BecomeReady
  \/ ScheduleEntry \/ Requeue \/ MarkReady \/ SaveContext
  \/ Pick \/ Unqueue \/ Run \/ RestoreContext
  \/ FireAlarm \/ AlarmsDone \/ IrqReturn
  \/ Sleep \/ SleepDiff \/ Arm \/ Doze
  \/ ChangePriority \/ Reinsert \/ SetPriority
  \/ Suspend \/ Suspended \/ Resume

UserStep ==
  \/ Compute \/ UserSleep \/ SetPeriod \/ UserChangePriority
  \/ UserSuspend \/ UserResume \/ UserCreate
  \/ LockScheduler \/ RestoreScheduler

Next == Boot \/ KernelStep \/ UserStep \/ Interrupt

Spec == Init /\ [][Next]_vars

-----------------------------------------------------------------------------
(* Properties.  Most are about the moments at which no kernel code runs.   *)

InTask == Top.pc \in {"user", "idle"}

Statuses == {"NEW", "READY", "RUNNING", "WAITING", "SUSPENDED"}

FrameType ==
  [pc : Label, task : Task \cup {NULL}, queue : WaitQueue \cup {NULL},
   num : Int, abs : Int]

TypeOK ==
  /\ status \in [Task -> Statuses]
  /\ priority \in [Task -> Priority]
  /\ owner \in [Task -> WaitQueue \cup {NULL}]
  /\ period \in [Task -> Nat] /\ wakeup \in [Task -> 0 .. WORD - 1]
  /\ links \in [prev : [Task -> Task \cup {NULL}], next : [Task -> Task \cup {NULL}]]
  /\ ready \in [Priority -> Task \cup {NULL}]
  /\ waitq \in [WaitQueue -> Task \cup {NULL}]
  /\ bits \in Bitmap
  /\ current \in Task \cup {NULL} /\ lock \in {"LOCKED", "UNLOCKED"}
  /\ tick \in 0 .. WORD - 1 /\ timeout \in [Task -> 0 .. WORD - 1]
  /\ alarms \in [prev : [Task -> Task \cup {NULL}], next : [Task -> Task \cup {NULL}],
                 head : Task \cup {NULL}]
  /\ cpu \in Seq(FrameType) /\ cpu # <<>>
  /\ ctx \in [Task -> Seq(FrameType)] /\ elr \in Seq(FrameType)

TasksThat(s) == {t \in Task : status[t] = s}

(* The ready queues are sound rings, the queue of each priority holds just *)
(* the READY tasks of that priority, and the bitmap has a bit exactly for  *)
(* each queue that is not empty (task.c:19-23, scheduler.c:12-14).         *)
ReadyQueuesMatch ==
  InTask =>
    \A p \in Priority :
      /\ WellFormed(List(ready[p]))
      /\ Members(List(ready[p])) = {t \in TasksThat("READY") : priority[t] = p}
      /\ p \in ReadyPriorities(bits) <=> ready[p] # NULL

(* The code that runs is the current task's, and the context of every      *)
(* other task is its own: no switch or tick stores one task's registers as *)
(* another's (task.c:109-136, interrupt.c:68-83).                          *)
ContextsBelong ==
  InTask =>
    /\ Top.task = current
    /\ \A t \in Task \ {current} :
         Created(t) => ctx[t] # <<>> /\ ctx[t][Len(ctx[t])].task = t

(* Preemption: unless the scheduler is locked, no READY task has a higher  *)
(* priority (a smaller number) than the task that runs, and that task is   *)
(* the only RUNNING one (eos_schedule, task.c:88-139).                     *)
HighestPriorityRuns ==
  InTask =>
    /\ TasksThat("RUNNING") = {current}
    /\ lock = "UNLOCKED" =>
         \A t \in TasksThat("READY") : priority[current] <= priority[t]

Armed == Members(alarms)

(* A task that waits can still be woken: its alarm is in the alarm queue,  *)
(* or it is in the wait queue it names as its owner; and a task that runs  *)
(* or is suspended is in no queue at all (task.c:249-255, 283-313).        *)
NoTaskIsLost ==
  InTask =>
    \A t \in Task :
      /\ status[t] = "WAITING" =>
           \/ t \in Armed
           \/ owner[t] # NULL /\ t \in Members(List(waitq[owner[t]]))
      /\ status[t] \in {"RUNNING", "SUSPENDED"} => links.next[t] = NULL

(* A task that sleeps until its next period has its alarm set for exactly  *)
(* its release time (task.c:237-249); for runs where tasks only sleep so.  *)
PeriodicOnTime ==
  InTask =>
    \A t \in TasksThat("WAITING") : t \in Armed /\ timeout[t] = wakeup[t]

(* The alarm queue is a sound ring in the order of the timeouts, and once  *)
(* the tick handler is done no armed alarm is due: none is passed over     *)
(* because of the order it was inserted in (timer.c:75-89).                *)
AlarmsOnTime ==
  InTask =>
    LET ring == Ring(alarms) IN
    /\ WellFormed(alarms)
    /\ \A i \in DOMAIN ring : timeout[ring[i]] > tick
    /\ \A i, j \in DOMAIN ring : i < j => timeout[ring[i]] <= timeout[ring[j]]

(* The bitmap is consistent at every step, in the middle of the kernel     *)
(* code as well (scheduler.c:111-129).                                     *)
BitmapConsistent == GroupSummarises(bits)

(* The CPU goes on executing, and the timer raises its interrupt again and *)
(* again; one that is pending is taken once interrupts are not masked.     *)
(* Nothing is assumed of what the application calls.                       *)
Fairness == WF_vars(Boot \/ KernelStep) /\ SF_vars(Interrupt)
FairSpec == Spec /\ Fairness

(* Every sleep ends, also when the tick counter wraps around between the   *)
(* setting of the alarm and its timeout (timer.c:43-50, 75-89).            *)
SleepEnds ==
  \A t \in User : status[t] = "WAITING" ~> status[t] # "WAITING"

(* Tasks of equal priority take turns: where all have the same, a READY    *)
(* task is not passed over for ever, whatever the others call              *)
(* (task.c:99-106 requeues the running task at the tail).                  *)
EqualsTakeTurns ==
  \A t \in User : status[t] = "READY" ~> status[t] # "READY"

-----------------------------------------------------------------------------
(* What comments of the code say and a tick at an unprotected point, or    *)
(* the HAL, breaks.                                                        *)

(* "Pointer to TCB of the running task" (task.c:27-30).                    *)
CurrentIsRunning == InTask => TasksThat("RUNNING") = {current}

(* "Runqueue of ready tasks" (task.c:19-23): each READY task is in the     *)
(* queue of its priority.                                                  *)
RunqueueOfReadyTasks ==
  InTask =>
    \A t \in TasksThat("READY") : t \in Members(List(ready[priority[t]]))

(* A sleep without a wait queue ends: its alarm is set (task.c:237, 249-252).  *)
SleepersHaveAlarm ==
  InTask => \A t \in TasksThat("WAITING") : owner[t] = NULL => t \in Armed

(* An alarm that fires has expired (timer.c:78-81): its timeout is not     *)
(* ahead of the tick on the circle of int32u_t values.                     *)
FiredIsExpired ==
  At("trigger") /\ AlarmDue => (tick - timeout[alarms.head]) % WORD < WORD \div 2

(* The context that is saved resumes at the point where eos_schedule saved *)
(* it (eos_internal.h:143-150, task.c:110-113).                            *)
SavedWhereItIs == At("pick") /\ current # NULL => ctx[current] = Tail(cpu)
=============================================================================
