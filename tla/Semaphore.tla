----------------------------- MODULE Semaphore ------------------------------
(***************************************************************************)
(* The counting semaphores of core/sync.c on top of the kernel.  The wait  *)
(* queue of a semaphore is named by the semaphore, so WaitQueue is the set *)
(* of the semaphores, with the condition variables, which have a wait      *)
(* queue and no count (it stays as it is).  Each step is one section of    *)
(* sync.c that runs with interrupts disabled, or one list operation; the   *)
(* tick may come between them at the labels in IrqPoints.                  *)
(*                                                                         *)
(* The semaphores in Mutex are used as locks: only a task that holds one   *)
(* releases it.  Any task may release the others (as a signal, or as the   *)
(* message queues of core/comm.c do).                                      *)
(***************************************************************************)
EXTENDS Kernel, FiniteSetsExt

CONSTANTS
  InitialCount,   \* eos_init_semaphore: [WaitQueue -> -HALF .. HALF - 1]
  HALF,           \* int8s_t holds -HALF .. HALF - 1 (128 in the code)
  Mutex,          \* the semaphores only their holder releases
  Condition,      \* the condition variables of the module CondVar
  MaxCount,       \* bound of the model: no task releases beyond this count
  Timeouts        \* the timeouts each task passes: [Task -> SUBSET Int]

SemLabel == {"acquire", "acq_try", "acq_chk", "acq_re", "release", "rel_chk"}

ASSUME SemaphoreAssumption ==
  /\ HALF \in Nat \ {0} /\ MaxCount \in Nat
  /\ InitialCount \in [WaitQueue -> -HALF .. HALF - 1]
  /\ Mutex \subseteq WaitQueue \ Condition
  /\ Condition \subseteq WaitQueue /\ Timeouts \in [Task -> SUBSET Int]
  /\ SemLabel \subseteq ExtraLabel

VARIABLES
  count,   \* eos_semaphore_t.count
  held     \* how many times each task holds each semaphore of Mutex

svars == <<vars, count, held>>

AsInt8(n) == ((n + HALF) % (2 * HALF)) - HALF

SemInit ==
  /\ Init
  /\ count = InitialCount
  /\ held = [t \in Task |-> [q \in Mutex |-> 0]]

Granted(q) ==
  /\ count' = [count EXCEPT ![q] = AsInt8(@ - 1)]
  /\ held' = IF q \in Mutex THEN [held EXCEPT ![current][q] = @ + 1] ELSE held

-----------------------------------------------------------------------------
(* eos_acquire_semaphore returns 1 (the token is taken) or 0.  The result  *)
(* goes to the frame of the caller, if that is a module on top of this     *)
(* one; the application does not look at it.                               *)

ReturnResult(r) ==
  cpu' = IF cpu[2].pc \in KernelLabel THEN Tail(cpu)
         ELSE <<[cpu[2] EXCEPT !.num = r]>> \o Tail(Tail(cpu))

(* sync.c:33-40: it fails while the scheduler is locked. *)
Acquire ==
  /\ At("acquire")
  /\ IF lock = "LOCKED" THEN ReturnResult(0)
     ELSE Step([Top EXCEPT !.pc = "acq_try", !.abs = (tick + Top.num) % WORD])
  /\ UNCHANGED <<kernel, count, held>>

WaitOn(q) == Call([Frame("wait") EXCEPT !.queue = q], "acq_chk")

(* sync.c:42-55, 70-73: take a token, or fail at once (timeout < 0), or    *)
(* set the alarm (timeout = 0 sets none) and wait.                         *)
AcquireTry ==
  /\ At("acq_try")
  /\ \/ /\ count[Top.queue] > 0
        /\ Granted(Top.queue) /\ ReturnResult(1)
        /\ UNCHANGED timer
     \/ /\ count[Top.queue] <= 0 /\ Top.num < 0
        /\ ReturnResult(0)
        /\ UNCHANGED <<timer, count, held>>
     \/ /\ count[Top.queue] <= 0 /\ Top.num >= 0
        /\ SetAlarm(current, Top.num)
        /\ WaitOn(Top.queue)
        /\ UNCHANGED <<count, held>>
  /\ UNCHANGED <<tcb, periods, queues, sched, contexts>>

(* Mutant: a tick early. *)
TimedOutEarly == Top.num # 0 /\ Top.abs <= tick + 1

TimedOut == Top.num # 0 /\ Top.abs <= tick

(* sync.c:57-60 *)
AcquireCheck ==
  /\ At("acq_chk")
  /\ IF TimedOut THEN ReturnResult(0) ELSE Goto("acq_re")
  /\ UNCHANGED <<kernel, count, held>>

(* Mutant: the count is not read again. *)
AcquireRetryOnce ==
  /\ At("acq_re")
  /\ SetAlarm(current, 0)
  /\ Granted(Top.queue) /\ ReturnResult(1)
  /\ UNCHANGED <<tcb, periods, queues, sched, contexts>>

(* sync.c:62-73: wait again while there is no token, else cancel the alarm *)
(* and take one.                                                           *)
AcquireRetry ==
  /\ At("acq_re")
  /\ \/ /\ count[Top.queue] <= 0
        /\ WaitOn(Top.queue)
        /\ UNCHANGED <<timer, count, held>>
     \/ /\ count[Top.queue] > 0
        /\ SetAlarm(current, 0)
        /\ Granted(Top.queue) /\ ReturnResult(1)
  /\ UNCHANGED <<tcb, periods, queues, sched, contexts>>

-----------------------------------------------------------------------------
(* eos_release_semaphore *)

Release ==
  /\ At("release")
  /\ count' = [count EXCEPT ![Top.queue] = AsInt8(@ + 1)]
  /\ held' = IF Top.queue \in Mutex
             THEN [held EXCEPT ![current][Top.queue] = @ - 1] ELSE held
  /\ Goto("rel_chk")
  /\ UNCHANGED kernel

(* Mutant: a waiter is woken only if the count was negative. *)
ReleaseCheckNegative ==
  /\ At("rel_chk")
  /\ IF waitq[Top.queue] = NULL \/ count[Top.queue] > 0 THEN Return
     ELSE Goto("wakeup")
  /\ UNCHANGED <<kernel, count, held>>

ReleaseCheck ==
  /\ At("rel_chk")
  /\ IF waitq[Top.queue] = NULL THEN Return ELSE Goto("wakeup")
  /\ UNCHANGED <<kernel, count, held>>

-----------------------------------------------------------------------------
(* The application. *)

UserAcquire ==
  /\ At("user")
  /\ \E q \in WaitQueue \ Condition, n \in Timeouts[current] :
       UserCall("acquire", [TaskFrame("acquire", NULL, n) EXCEPT !.queue = q])
  /\ UNCHANGED <<count, held>>

UserRelease ==
  /\ At("user")
  /\ \E q \in WaitQueue \ Condition :
       /\ IF q \in Mutex THEN held[current][q] > 0 ELSE count[q] < MaxCount
       /\ UserCall("release", [Frame("release") EXCEPT !.queue = q])
  /\ UNCHANGED <<count, held>>

SemStep ==
  \/ Acquire \/ AcquireTry \/ AcquireCheck \/ AcquireRetry
  \/ Release \/ ReleaseCheck \/ UserAcquire \/ UserRelease

(* The steps of _os_wait_in_queue and _os_wakeup_from_queue. *)
WaitStep ==
  \/ WaitInQueue /\ UNCHANGED <<count, held>>
  \/ Waiting /\ UNCHANGED <<count, held>>
  \/ Wakeup /\ UNCHANGED <<count, held>>
  \/ MakeReady /\ UNCHANGED <<count, held>>

SemNext == SemStep \/ WaitStep \/ (Next /\ UNCHANGED <<count, held>>)

SemSpec == SemInit /\ [][SemNext]_svars

-----------------------------------------------------------------------------

SemTypeOK ==
  /\ TypeOK
  /\ count \in [WaitQueue -> -HALF .. HALF - 1]
  /\ held \in [Task -> [Mutex -> Int]]

StackOf(t) == IF t = current THEN cpu ELSE ctx[t]

(* t is on its way to look at the count of q again, or to wake a waiter.   *)
Pending(t, q) ==
  /\ status[t] # "WAITING"
  /\ \E i \in DOMAIN StackOf(t) :
       /\ StackOf(t)[i].queue = q
       /\ StackOf(t)[i].pc \in {"acq_chk", "acq_re", "rel_chk", "wakeup",
                                "make_ready", "woken"}

(* No wakeup is lost: while tasks wait for a semaphore, there is for each  *)
(* of its tokens a task that was woken to take it or is about to wake one  *)
(* (sync.c:43-63, 86-92).                                                  *)
NoLostWakeup ==
  InTask =>
    \A q \in WaitQueue :
      waitq[q] # NULL => Cardinality({t \in Task : Pending(t, q)}) >= count[q]

(* The tokens of q that tasks hold, numbered for each task.                *)
HeldTokens(q) == UNION {{t} \X (1 .. held[t][q]) : t \in Task}

(* A semaphore used as a lock is held at most as many times as it was      *)
(* initialised to: with a count of 1, by one task (sync.c:43, 63, 70).     *)
NeverOversold ==
  \A q \in Mutex : count[q] >= 0 /\ Cardinality(HeldTokens(q)) <= InitialCount[q]

(* Each wait queue is a sound ring of tasks that wait on it and name it as *)
(* their owner, and a PRIORITY queue is in the order of the priorities, so *)
(* that its head, which is woken first, has the highest (eos.h:136-153,    *)
(* task.c:284-292).                                                        *)
WaitQueuesSound ==
  InTask =>
    \A q \in WaitQueue :
      LET ring == Ring(List(waitq[q])) IN
      /\ WellFormed(List(waitq[q]))
      /\ \A i \in DOMAIN ring : status[ring[i]] = "WAITING" /\ owner[ring[i]] = q
      /\ QueueType[q] = "PRIORITY" =>
           \A i, j \in DOMAIN ring : i < j => priority[ring[i]] <= priority[ring[j]]

-----------------------------------------------------------------------------
(* What comments of the code say of waiting, and the code breaks or only   *)
(* some uses of it keep.                                                   *)

(* "the wait queue that the task is currently waiting on, NULL if the task *)
(* is not waiting on any queue" (eos.h:251-252).                           *)
OwnerIsWaitedOn ==
  InTask => \A t \in Task : status[t] # "WAITING" => owner[t] = NULL

(* The task a PRIORITY queue wakes first is of the highest priority of     *)
(* those that wait (eos.h:151-153).                                        *)
HighestIsWokenFirst ==
  InTask =>
    \A q \in WaitQueue : QueueType[q] = "PRIORITY" =>
      \A t \in Members(List(waitq[q])) : priority[waitq[q]] <= priority[t]

(* "This task is waken up by alarm" (sync.c:58): the alarm's handler has   *)
(* taken the task off its queue, where eos_release_semaphore leaves the    *)
(* owner as it was.                                                        *)
TimeoutByAlarm == At("acq_chk") /\ TimedOut => owner[current] = NULL

(* The alarm's handler takes the task from "its wait queue that it was     *)
(* waiting on" (task.c:332): it is not called for one that was woken.      *)
AlarmWakesWaiter == At("trigger") /\ AlarmDue => status[alarms.head] = "WAITING"
=============================================================================
