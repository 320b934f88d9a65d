-------------------------- MODULE SemaphoreProofs ---------------------------
(***************************************************************************)
(* Type correctness of the semaphores together with the kernel below them, *)
(* for any tasks, semaphores, counts and timeouts, wherever the tick       *)
(* interrupts them.  Here the wait queues of the kernel are in use.        *)
(***************************************************************************)
EXTENDS Semaphore, KernelProofs

(* The labels of eos_acquire_semaphore. *)
AcquireLabel == {"acquire", "acq_try", "acq_chk", "acq_re"}

Counts ==
  /\ count \in [WaitQueue -> -HALF .. HALF - 1]
  /\ held \in [Task -> [Mutex -> Int]]

SemIInv == IInv /\ Counts

(* A count stays within an int8s_t, whatever is added to it.               *)
LEMMA AsInt8Type == \A n \in Int : AsInt8(n) \in -HALF .. HALF - 1
  <1> SUFFICES ASSUME NEW n \in Int PROVE AsInt8(n) \in -HALF .. HALF - 1
    OBVIOUS
  <1> DEFINE w == 2 * HALF
             k == n + HALF
  <1>1. HALF \in Nat \ {0}
    BY SemaphoreAssumption
  <1>2. w \in Nat \ {0} /\ k \in Int
    BY <1>1
  <1> HIDE DEF k
  <1>3. k % w \in 0 .. w - 1
    BY <1>2
  <1> QED BY <1>1, <1>3 DEF AsInt8, k

(* No wrap below the maximum of an int8s_t.                                *)
LEMMA AsInt8Same == \A n \in 0 .. HALF - 1 : AsInt8(n) = n
  <1> SUFFICES ASSUME NEW n \in 0 .. HALF - 1 PROVE AsInt8(n) = n
    OBVIOUS
  <1> DEFINE w == 2 * HALF
             k == n + HALF
  <1>1. HALF \in Nat \ {0}
    BY SemaphoreAssumption
  <1>2. w \in Nat \ {0} /\ k \in 0 .. w - 1 /\ k - HALF = n
    BY <1>1
  <1> HIDE DEF k, w
  <1>3. k % w = k
    BY <1>2
  <1> QED BY <1>2, <1>3 DEF AsInt8, k, w

(* At a label of this module there is a current task, and the frame names  *)
(* the semaphore.                                                          *)
LEMMA SemFrame ==
  ASSUME IInv, Top.pc \in SemLabel
  PROVE  /\ Top.queue \in WaitQueue /\ current \in Task /\ Labels = Label
         /\ Top.pc \notin BottomLabel /\ Top.pc \notin EarlyLabel /\ Top.pc # "restore"
         /\ Top \in FrameType /\ SemLabel \subseteq Label
  <1>1. Top.pc \notin EarlyLabel /\ Top.pc \notin BottomLabel /\ Top.pc # "restore"
    BY DEF SemLabel, EarlyLabel, BottomLabel
  <1>2. Top.queue \in WaitQueue
    BY TopFrame DEF FrameOK, SemLabel
  <1> QED BY <1>1, <1>2, TopFrame, InTaskCode, SemaphoreAssumption DEF Label

(* The caller's frame gets the result. *)
LEMMA ReturnResultOK ==
  ASSUME IInv, Top.pc \in SemLabel, NEW r \in {0, 1}, ReturnResult(r)
  PROVE  StackOK(cpu', HasContext, Labels)
  <1> DEFINE s == Tail(cpu)
             f == [s[1] EXCEPT !.num = r]
  <1>1. StackOK(s, HasContext, Labels)
    BY SemFrame, StackReturn DEF IInv, Executing, Top
  <1>2. cpu[2] = s[1]
    <2>1. cpu \in Seq(FrameType) /\ cpu # <<>>
      BY DEF IInv, Executing, StackOK
    <2>2. s # <<>>
      BY <1>1 DEF StackOK
    <2> QED BY <2>1, <2>2
  <1>3. CASE cpu[2].pc \in KernelLabel
    BY <1>1, <1>3 DEF ReturnResult
  <1>4. CASE cpu[2].pc \notin KernelLabel
    <2>1. cpu' = <<f>> \o Tail(s)
      BY <1>2, <1>4 DEF ReturnResult
    <2>2. FrameOK(s[1], HasContext, Labels) /\ s[1].pc \notin KernelLabel
      BY <1>1, <1>2, <1>4, StackTop
    <2> HIDE DEF s
    <2>3. /\ f.pc = s[1].pc /\ f.task = s[1].task /\ f.queue = s[1].queue
          /\ f \in FrameType
      BY <2>2 DEF FrameOK, FrameType
    <2>4. FrameOK(f, HasContext, Labels)
      BY <2>2, <2>3 DEF FrameOK, KernelLabel
    <2> QED BY <1>1, <2>1, <2>2, <2>3, <2>4, StackStep DEF BottomLabel, KernelLabel
  <1> QED BY <1>3, <1>4

(* A step within a call, which keeps the semaphore. *)
LEMMA SemStepOK ==
  ASSUME IInv, Top.pc \in SemLabel, NEW l \in SemLabel \cup {"wakeup"}, NEW n \in Int,
         Goto(l) \/ Step([Top EXCEPT !.pc = l, !.abs = n])
  PROVE  StackOK(cpu', HasContext, Labels)
  <1>1. l \in Label /\ l \notin {"create", "created", "unqueue", "run", "restore",
          "change_priority", "reinsert", "set_priority", "suspend", "suspended", "resume",
          "resumed", "make_ready", "woken"}
    BY SemFrame, Constants DEF SemLabel, KernelLabel
  <1> DEFINE f == [Top EXCEPT !.pc = l]
             g == [Top EXCEPT !.pc = l, !.abs = n]
  <1>2. f \in FrameType /\ f.pc = l /\ f.queue = Top.queue
    BY <1>1, SemFrame DEF FrameType
  <1>3. g \in FrameType /\ g.pc = l /\ g.queue = Top.queue
    BY <1>1, SemFrame DEF FrameType
  <1> HIDE DEF f, g
  <1>4. FrameOK(f, HasContext, Labels) /\ FrameOK(g, HasContext, Labels)
    BY <1>1, <1>2, <1>3, SemFrame DEF FrameOK
  <1>5. Step(f) \/ Step(g)
    BY DEF Goto, f, g
  <1> QED BY <1>4, <1>5, SemFrame, StepOK

LEMMA SemGotoOK ==
  ASSUME IInv, Top.pc \in SemLabel, NEW l \in SemLabel \cup {"wakeup"}, Goto(l)
  PROVE  StackOK(cpu', HasContext, Labels)
  <1>1. 0 \in Int
    OBVIOUS
  <1> QED BY <1>1, SemStepOK

(* A call of a function that takes a semaphore.                            *)
LEMMA QueueFrameOK ==
  ASSUME Labels = Label, NEW l \in Label, l \in {"wait", "wakeup", "acquire", "release"},
         NEW q \in WaitQueue, NEW n \in Int
  PROVE  FrameOK([TaskFrame(l, NULL, n) EXCEPT !.queue = q], HasContext, Labels)
  BY DEF FrameOK, FrameType, TaskFrame

LEMMA WaitOnOK ==
  ASSUME IInv, Top.pc \in SemLabel, WaitOn(Top.queue)
  PROVE  StackOK(cpu', HasContext, Labels)
  <1> DEFINE f == [Frame("wait") EXCEPT !.queue = Top.queue]
             g == [Top EXCEPT !.pc = "acq_chk"]
  <1>1. "wait" \in Label /\ "acq_chk" \in Label
    BY SemFrame, Constants DEF KernelLabel, SemLabel
  <1>2. FrameOK(f, HasContext, Labels)
    BY <1>1, SemFrame, QueueFrameOK DEF Frame
  <1>3. g \in FrameType /\ g.pc = "acq_chk" /\ g.queue = Top.queue
    BY <1>1, SemFrame DEF FrameType
  <1>4. FrameOK(g, HasContext, Labels)
    BY <1>1, <1>3, SemFrame DEF FrameOK
  <1> QED BY <1>2, <1>4, SemFrame, CallOK DEF WaitOn

LEMMA GrantedOK ==
  ASSUME Counts, current \in Task, NEW q \in WaitQueue, Granted(q)
  PROVE  Counts'
  <1>1. count' = [count EXCEPT ![q] = AsInt8(count[q] - 1)]
    BY DEF Granted
  <1>2. count[q] - 1 \in Int
    BY SemaphoreAssumption DEF Counts
  <1>3. AsInt8(count[q] - 1) \in -HALF .. HALF - 1
    BY <1>2, AsInt8Type
  <1>4. count' \in [WaitQueue -> -HALF .. HALF - 1]
    BY <1>1, <1>3 DEF Counts
  <1>5. held' \in [Task -> [Mutex -> Int]]
    BY DEF Granted, Counts
  <1> QED BY <1>4, <1>5 DEF Counts

LEMMA CountsKept == ASSUME Counts, UNCHANGED <<count, held>> PROVE Counts'
  BY DEF Counts

(* A step of a module on top of the kernel: it leaves the contexts alone,  *)
(* and may change what makes the stacks of the current task its own.       *)
LEMMA LocalMove ==
  ASSUME IInv, NEW QS, NEW RS, StacksIn(QS), CallClosed(RS), ~ResumeAtElr,
         UNCHANGED <<current, contexts>>, current \in Task, current # NULL,
         \A t \in Task \ {current} : QS[t] \subseteq RS[t],
         cpu' \in RS[current], ~InSwitch(cpu')
  PROVE  StacksIn(RS)'
  <1>1. HasContext' = HasContext /\ ctx' = ctx /\ elr' = elr /\ current' = current
    BY DEF HasContext, contexts
  <1>2. cpu' # <<>> /\ cpu' \in Seq(FrameType)
    BY DEF CallClosed
  <1>3. 1 \in 1 .. Len(cpu')
    BY <1>2
  <1>4. Top'.pc # "restore"
    BY <1>3 DEF CallClosed, NoTaskLabel, Top
  <1>5. \A t \in HasContext : t # current => ctx[t] \in RS[t]
    BY DEF StacksIn, HasContext
  <1> QED BY <1>1, <1>4, <1>5 DEF StacksIn, At

-----------------------------------------------------------------------------
(* The steps of sync.c. *)

LEMMA AcquireOK == ASSUME SemIInv, Acquire PROVE SemIInv'
  <1>1. IInv /\ Top.pc \in SemLabel
    BY DEF SemIInv, Acquire, At, SemLabel
  <1>2. StackOK(cpu', HasContext, Labels)
    <2>1. CASE ReturnResult(0)
      BY <1>1, <2>1, ReturnResultOK
    <2>2. CASE Step([Top EXCEPT !.pc = "acq_try", !.abs = (tick + Top.num) % WORD])
      <3>1. (tick + Top.num) % WORD \in Int
        BY <1>1, TopFrame, Constants DEF IInv, Values, FrameType
      <3> QED BY <1>1, <2>2, <3>1, SemStepOK DEF SemLabel
    <2> QED BY <2>1, <2>2 DEF Acquire
  <1>3. IInv'
    BY <1>1, <1>2, SemFrame, KernelKept DEF Acquire
  <1>4. Counts'
    BY CountsKept DEF SemIInv, Acquire
  <1> QED BY <1>3, <1>4 DEF SemIInv

LEMMA AcquireTryOK == ASSUME SemIInv, AcquireTry PROVE SemIInv'
  <1>1. /\ IInv /\ Counts /\ Top.pc \in SemLabel
        /\ UNCHANGED <<tcb, periods, queues, sched, contexts>>
    BY DEF SemIInv, AcquireTry, At, SemLabel
  <1>2. Top.queue \in WaitQueue /\ current \in Task /\ Top.num \in Int
    BY <1>1, SemFrame DEF FrameType
  <1>3. CASE Granted(Top.queue) /\ ReturnResult(1) /\ UNCHANGED timer
    <2>1. IInv'
      BY <1>1, <1>3, ReturnResultOK, SemFrame, KernelKept DEF kernel
    <2> QED BY <1>1, <1>2, <1>3, <2>1, GrantedOK DEF SemIInv
  <1>4. CASE ReturnResult(0) /\ UNCHANGED <<timer, count, held>>
    <2>1. IInv'
      BY <1>1, <1>4, ReturnResultOK, SemFrame, KernelKept DEF kernel
    <2> QED BY <1>1, <1>4, <2>1, CountsKept DEF SemIInv
  <1>5. CASE /\ SetAlarm(current, Top.num) /\ WaitOn(Top.queue)
             /\ UNCHANGED <<count, held>>
    <2>1. Values' /\ Pointers' /\ BitmapSound'
      BY <1>1, <1>2, <1>5, SemFrame, SetAlarmOK
    <2>2. IInv'
      BY <1>1, <1>5, <2>1, WaitOnOK, SemFrame, ContextsKept DEF sched
    <2> QED BY <1>1, <1>5, <2>2, CountsKept DEF SemIInv
  <1> QED BY <1>3, <1>4, <1>5 DEF AcquireTry

LEMMA AcquireCheckOK == ASSUME SemIInv, AcquireCheck PROVE SemIInv'
  <1>1. IInv /\ Top.pc \in SemLabel
    BY DEF SemIInv, AcquireCheck, At, SemLabel
  <1>2. ReturnResult(0) \/ Goto("acq_re")
    BY DEF AcquireCheck
  <1>3. StackOK(cpu', HasContext, Labels)
    BY <1>1, <1>2, ReturnResultOK, SemGotoOK DEF SemLabel
  <1>4. IInv'
    BY <1>1, <1>3, SemFrame, KernelKept DEF AcquireCheck
  <1> QED BY <1>4, CountsKept DEF SemIInv, AcquireCheck

LEMMA AcquireRetryOK == ASSUME SemIInv, AcquireRetry PROVE SemIInv'
  <1>1. /\ IInv /\ Counts /\ Top.pc \in SemLabel
        /\ UNCHANGED <<tcb, periods, queues, sched, contexts>>
    BY DEF SemIInv, AcquireRetry, At, SemLabel
  <1>2. CASE WaitOn(Top.queue) /\ UNCHANGED <<timer, count, held>>
    <2>1. IInv'
      BY <1>1, <1>2, WaitOnOK, SemFrame, KernelKept DEF kernel
    <2> QED BY <1>1, <1>2, <2>1, CountsKept DEF SemIInv
  <1>3. CASE SetAlarm(current, 0) /\ Granted(Top.queue) /\ ReturnResult(1)
    <2>1. Values' /\ Pointers' /\ BitmapSound'
      BY <1>1, <1>3, SemFrame, SetAlarmOK
    <2>2. IInv'
      BY <1>1, <1>3, <2>1, ReturnResultOK, SemFrame, ContextsKept DEF sched
    <2> QED BY <1>1, <1>3, <2>2, SemFrame, GrantedOK DEF SemIInv
  <1> QED BY <1>2, <1>3 DEF AcquireRetry

LEMMA ReleaseOK == ASSUME SemIInv, Release PROVE SemIInv'
  <1>1. IInv /\ Top.pc \in SemLabel
    BY DEF SemIInv, Release, At, SemLabel
  <1>2. Top.queue \in WaitQueue /\ current \in Task
    BY <1>1, SemFrame
  <1>3. IInv'
    BY <1>1, SemGotoOK, SemFrame, KernelKept DEF Release, SemLabel
  <1>4. AsInt8(count[Top.queue] + 1) \in -HALF .. HALF - 1
    <2>1. count[Top.queue] + 1 \in Int
      BY <1>2, SemaphoreAssumption DEF SemIInv, Counts
    <2> QED BY <2>1, AsInt8Type
  <1>5. count' \in [WaitQueue -> -HALF .. HALF - 1]
    BY <1>2, <1>4 DEF Release, SemIInv, Counts
  <1>6. held' \in [Task -> [Mutex -> Int]]
    BY <1>2 DEF Release, SemIInv, Counts
  <1> QED BY <1>3, <1>5, <1>6 DEF SemIInv, Counts

LEMMA ReleaseCheckOK == ASSUME SemIInv, ReleaseCheck PROVE SemIInv'
  <1>1. IInv /\ Top.pc \in SemLabel
    BY DEF SemIInv, ReleaseCheck, At, SemLabel
  <1>2. Return \/ Goto("wakeup")
    BY DEF ReleaseCheck
  <1>3. StackOK(cpu', HasContext, Labels)
    BY <1>1, <1>2, SemFrame, ReturnOK, SemGotoOK
  <1>4. IInv'
    BY <1>1, <1>3, SemFrame, KernelKept DEF ReleaseCheck
  <1> QED BY <1>4, CountsKept DEF SemIInv, ReleaseCheck

(* The application's calls. *)
LEMMA UserSemOK == ASSUME SemIInv, UserAcquire \/ UserRelease PROVE SemIInv'
  <1>1. IInv /\ Top.pc = "user" /\ Labels = Label
    BY InTaskCode DEF SemIInv, UserAcquire, UserRelease, At, EarlyLabel
  <1>2. "user" \in BottomLabel \cap Labels /\ {"acquire", "release"} \subseteq Label
        /\ current \in Task
    BY <1>1, InTaskCode, Constants, SemaphoreAssumption
       DEF BottomLabel, KernelLabel, Label, SemLabel, EarlyLabel
  <1>3. PICK l \in {"acquire", "release"}, q \in WaitQueue, n \in Int :
          UserCall(l, [TaskFrame(l, NULL, n) EXCEPT !.queue = q])
    <2>1. CASE UserAcquire
      <3>1. Timeouts[current] \subseteq Int
        BY <1>2, SemaphoreAssumption
      <3> QED BY <2>1, <3>1 DEF UserAcquire
    <2>2. CASE UserRelease
      BY <2>2 DEF UserRelease, Frame
    <2> QED BY <2>1, <2>2
  <1>4. FrameOK([TaskFrame(l, NULL, n) EXCEPT !.queue = q], HasContext, Labels)
    BY <1>1, <1>2, QueueFrameOK
  <1>5. StackOK(cpu', HasContext, Labels)
    BY <1>1, <1>2, <1>3, <1>4, BottomOK, CallOK DEF UserCall
  <1>6. IInv'
    BY <1>1, <1>3, <1>5, KernelKept DEF UserCall
  <1> QED BY <1>6, CountsKept DEF SemIInv, UserAcquire, UserRelease

-----------------------------------------------------------------------------
(* Every step, and the theorems. *)

LEMMA SemInitIInv == SemInit => SemIInv
  <1> SUFFICES ASSUME SemInit PROVE SemIInv
    OBVIOUS
  <1>1. IInv
    BY InitIInv DEF SemInit
  <1>2. Counts
    BY SemaphoreAssumption DEF SemInit, Counts
  <1> QED BY <1>1, <1>2 DEF SemIInv

LEMMA SemNextIInv == SemIInv /\ [SemNext]_svars => SemIInv'
  <1> SUFFICES ASSUME SemIInv, [SemNext]_svars PROVE SemIInv'
    OBVIOUS
  <1>1. CASE SemStep
    BY <1>1, AcquireOK, AcquireTryOK, AcquireCheckOK, AcquireRetryOK, ReleaseOK,
       ReleaseCheckOK, UserSemOK DEF SemStep
  <1>2. CASE WaitStep
    BY <1>2, WaitInQueueIInv, WaitingIInv, WakeupIInv, MakeReadyIInv, CountsKept
       DEF WaitStep, SemIInv
  <1>3. CASE Next /\ UNCHANGED <<count, held>>
    BY <1>3, NextIInv, CountsKept DEF SemIInv
  <1>4. CASE UNCHANGED svars
    BY <1>4, StutterIInv, CountsKept DEF svars, SemIInv
  <1> QED BY <1>1, <1>2, <1>3, <1>4 DEF SemNext

LEMMA SemInvariance == SemSpec => []SemIInv
  <1> QED BY SemInitIInv, SemNextIInv, PTL DEF SemSpec

(* Every variable of the kernel and of the semaphores has its type at      *)
(* every step: a count stays an int8s_t, and a task woken from a wait      *)
(* queue or by its alarm has a context to run in (sync.c:25-93,            *)
(* task.c:273-340).                                                        *)
THEOREM SemTypeCorrect == SemSpec => []SemTypeOK
  <1>1. SemIInv => SemTypeOK
    BY IInvImplies DEF SemIInv, SemTypeOK, Counts
  <1> QED BY <1>1, SemInvariance, PTL

(* The two levels of the bitmap agree also while tasks wait for and wake   *)
(* one another through semaphores (scheduler.c:111-129, task.c:294-316).   *)
THEOREM SemBitmapIsConsistent == SemSpec => []BitmapConsistent
  <1>1. SemIInv => BitmapConsistent
    BY IInvImplies DEF SemIInv
  <1> QED BY <1>1, SemInvariance, PTL
=============================================================================
