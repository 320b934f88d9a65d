---------------------------- MODULE KernelProofs ----------------------------
(***************************************************************************)
(* What holds of the kernel for any tasks, priorities and wait queues.     *)
(*                                                                         *)
(* Wherever the tick interrupts the kernel and whatever a saved context    *)
(* resumes at: type correctness, and the consistency of the bitmap (IInv). *)
(*                                                                         *)
(* If no tick interrupts the restoring of a context: each task keeps its   *)
(* own stack.                                                              *)
(*                                                                         *)
(* If a context resumes where it was saved, and no tick is taken at the    *)
(* points that a theorem names: the ready queues hold just the READY tasks *)
(* and the one that runs has the highest priority (Base), no sleeping task *)
(* is lost (SleepersLinked), no alarm is passed over (AlarmsAhead), and    *)
(* periodic tasks are released on time (ReleasesSet).                      *)
(***************************************************************************)
EXTENDS Kernel, StructureProofs

-----------------------------------------------------------------------------
(* Stacks of frames.  S is the set of tasks that have a context and L the  *)
(* set of labels that can be on the stack.                                 *)

(* A frame that stands at the bottom of a stack: it never returns.         *)
BottomLabel == {"boot", "user_main", "boot_end", "user", "idle"}

FrameOK(f, S, L) ==
  /\ f \in FrameType /\ f.pc \in L
  /\ f.pc \in {"created", "unqueue", "run", "restore", "change_priority", "reinsert",
               "set_priority", "suspend", "suspended", "resume", "resumed",
               "make_ready", "woken"} => f.task \in S
  /\ f.pc = "create" => f.task \in Task
  /\ f.pc \in {"create", "change_priority", "reinsert", "set_priority"}
       => f.num \in Priority
  /\ f.pc \in {"wait", "waiting", "wakeup", "acquire", "acq_try", "acq_chk", "acq_re",
               "release", "rel_chk"} => f.queue \in WaitQueue

StackOK(s, S, L) ==
  /\ s \in Seq(FrameType) /\ s # <<>>
  /\ \A i \in 1 .. Len(s) : FrameOK(s[i], S, L)
  /\ s[Len(s)].pc \in BottomLabel

LEMMA StackTop ==
  ASSUME NEW s, NEW S, NEW L, StackOK(s, S, L)
  PROVE  FrameOK(s[1], S, L)
  BY DEF StackOK

LEMMA StackReturn ==
  ASSUME NEW s, NEW S, NEW L, StackOK(s, S, L), s[1].pc \notin BottomLabel
  PROVE  StackOK(Tail(s), S, L)
  <1>1. Len(s) \in Nat /\ Len(s) > 1 /\ s \in Seq(FrameType)
    BY DEF StackOK
  <1>2. /\ Tail(s) \in Seq(FrameType) /\ Len(Tail(s)) = Len(s) - 1
        /\ \A i \in 1 .. Len(s) - 1 : Tail(s)[i] = s[i + 1]
    BY <1>1
  <1> DEFINE r == Tail(s)
  <1>3. /\ r \in Seq(FrameType) /\ Len(r) = Len(s) - 1
        /\ \A i \in 1 .. Len(r) : r[i] = s[i + 1]
    BY <1>1, <1>2
  <1> HIDE DEF r
  <1>4. r # <<>> /\ r[Len(r)] = s[Len(s)]
    BY <1>1, <1>3
  <1>5. \A i \in 1 .. Len(r) : FrameOK(r[i], S, L)
    BY <1>1, <1>3 DEF StackOK
  <1>6. StackOK(r, S, L)
    BY <1>3, <1>4, <1>5 DEF StackOK
  <1> QED BY <1>6 DEF r

LEMMA StackPush ==
  ASSUME NEW s, NEW S, NEW L, StackOK(s, S, L), NEW f, FrameOK(f, S, L)
  PROVE  StackOK(<<f>> \o s, S, L)
  <1>1. s \in Seq(FrameType) /\ Len(s) \in Nat /\ Len(s) > 0 /\ f \in FrameType
    BY DEF StackOK, FrameOK
  <1>2. /\ <<f>> \o s \in Seq(FrameType) /\ Len(<<f>> \o s) = Len(s) + 1
        /\ \A i \in 1 .. Len(s) + 1 : (<<f>> \o s)[i] = IF i = 1 THEN f ELSE s[i - 1]
    BY <1>1
  <1> QED BY <1>1, <1>2 DEF StackOK

(* The top frame may be replaced; if it is the only one it has to be       *)
(* replaced by one that can stand at the bottom.                           *)
LEMMA StackStep ==
  ASSUME NEW s, NEW S, NEW L, StackOK(s, S, L), NEW f, FrameOK(f, S, L),
         f.pc \in BottomLabel \/ s[1].pc \notin BottomLabel
  PROVE  StackOK(<<f>> \o Tail(s), S, L)
  <1>1. s \in Seq(FrameType) /\ Len(s) \in Nat /\ Len(s) > 0 /\ f \in FrameType
    BY DEF StackOK, FrameOK
  <1>2. /\ Tail(s) \in Seq(FrameType) /\ Len(Tail(s)) = Len(s) - 1
        /\ \A i \in 1 .. Len(s) - 1 : Tail(s)[i] = s[i + 1]
    BY <1>1
  <1>3. /\ <<f>> \o Tail(s) \in Seq(FrameType) /\ Len(<<f>> \o Tail(s)) = Len(s)
        /\ \A i \in 1 .. Len(s) : (<<f>> \o Tail(s))[i] = IF i = 1 THEN f ELSE s[i]
    BY <1>1, <1>2
  <1> QED BY <1>1, <1>3 DEF StackOK

LEMMA StackCall ==
  ASSUME NEW s, NEW S, NEW L, StackOK(s, S, L), NEW f, FrameOK(f, S, L),
         NEW g, FrameOK(g, S, L), g.pc \in BottomLabel \/ s[1].pc \notin BottomLabel
  PROVE  StackOK(<<f, g>> \o Tail(s), S, L)
  <1>1. StackOK(<<g>> \o Tail(s), S, L)
    BY StackStep
  <1>2. StackOK(<<f>> \o (<<g>> \o Tail(s)), S, L)
    BY <1>1, StackPush
  <1>3. <<f>> \o (<<g>> \o Tail(s)) = <<f, g>> \o Tail(s)
    <2>1. /\ f \in FrameType /\ g \in FrameType
          /\ Tail(s) \in Seq(FrameType)
      BY DEF StackOK, FrameOK
    <2> QED BY <2>1
  <1> QED BY <1>2, <1>3

LEMMA StackMore ==
  ASSUME NEW s, NEW S, NEW L, NEW R, NEW M, StackOK(s, S, L), S \subseteq R, L \subseteq M
  PROVE  StackOK(s, R, M)
  BY DEF StackOK, FrameOK

-----------------------------------------------------------------------------
(* The invariant. *)

(* The tasks whose sp points to a context: those that have been created.   *)
HasContext == {t \in Task : ctx[t] # <<>>}

(* The labels the CPU can be at before the first task runs. *)
EarlyLabel ==
  {"boot", "user_main", "boot_end", "create", "created", "schedule", "pick",
   "unqueue", "run", "trigger", "irq_return"}
Labels == IF current = NULL THEN EarlyLabel ELSE Label

Pointer(S) == S \cup {NULL}
LinksOver(S) == [prev : [Task -> Pointer(S)], next : [Task -> Pointer(S)]]

Values ==
  /\ status \in [Task -> Statuses] /\ priority \in [Task -> Priority]
  /\ owner \in [Task -> WaitQueue \cup {NULL}]
  /\ period \in [Task -> Nat] /\ wakeup \in [Task -> 0 .. WORD - 1]
  /\ lock \in {"LOCKED", "UNLOCKED"}
  /\ tick \in 0 .. WORD - 1 /\ timeout \in [Task -> 0 .. WORD - 1]

(* Only tasks that have a context are queued, current or past NEW.         *)
Pointers ==
  /\ links \in LinksOver(HasContext)
  /\ ready \in [Priority -> Pointer(HasContext)]
  /\ waitq \in [WaitQueue -> Pointer(HasContext)]
  /\ alarms \in ListOver(Task, HasContext)
  /\ current \in Pointer(HasContext)
  /\ \A t \in Task : status[t] # "NEW" => t \in HasContext

BitmapSound == bits \in Bitmap /\ GroupSummarises(bits)

Contexts ==
  /\ ctx \in [Task -> Seq(FrameType)] /\ elr \in Seq(FrameType)
  /\ \A t \in HasContext : StackOK(ctx[t], HasContext, Label)
  /\ elr # <<>> => StackOK(elr, HasContext, Label)
  /\ ResumeAtElr => elr # <<>> \/ current = NULL \/ At("restore")

Executing == StackOK(cpu, HasContext, Labels)

IInv == Values /\ Pointers /\ BitmapSound /\ Contexts /\ Executing

LEMMA Constants ==
  /\ NULL \notin Task /\ NULL \notin WaitQueue /\ User \subseteq Task /\ Idle \in Task
  /\ WORD \in Nat \ {0} /\ EarlyLabel \subseteq Label /\ KernelLabel \subseteq Label
  /\ LOWEST_PRIORITY \in Priority /\ 0 \in Priority
  <1>1. WIDTH * BYTES - 1 \in Nat
    BY BitmapAssumption
  <1>2. LOWEST_PRIORITY \in Priority /\ 0 \in Priority
    BY <1>1 DEF LOWEST_PRIORITY, Priority
  <1> QED BY <1>2, KernelAssumption DEF Task, EarlyLabel, KernelLabel, Label

LEMMA IInvImplies == IInv => TypeOK /\ BitmapConsistent
  <1> SUFFICES ASSUME IInv PROVE TypeOK /\ BitmapConsistent
    OBVIOUS
  <1>1. HasContext \subseteq Task
    BY DEF HasContext
  <1> QED BY <1>1 DEF IInv, Values, Pointers, BitmapSound, Contexts, Executing, StackOK,
             TypeOK, BitmapConsistent, LinksOver, ListOver, Pointer

(* Below a label of a task's code there is a current task.                 *)
LEMMA TopFrame ==
  ASSUME IInv
  PROVE  /\ FrameOK(Top, HasContext, Labels) /\ Top \in FrameType /\ Top.pc \in Label
         /\ Labels \subseteq Label
         /\ Top.pc \notin EarlyLabel => current \in HasContext
  BY StackTop, Constants DEF IInv, Executing, Top, FrameOK, Labels, Pointers, Pointer

-----------------------------------------------------------------------------
(* Steps that leave the contexts and the current task alone: all but those *)
(* of the context switch, of creation and of the interrupt.                *)

LEMMA ContextsKept ==
  ASSUME IInv, UNCHANGED <<current, contexts>>, Values', Pointers', BitmapSound',
         Top.pc # "restore", StackOK(cpu', HasContext, Labels)
  PROVE  IInv'
  <1>1. HasContext' = HasContext /\ Labels' = Labels
    BY DEF HasContext, Labels, contexts
  <1>2. Contexts'
    BY <1>1 DEF Contexts, contexts, IInv, At
  <1> QED BY <1>1, <1>2 DEF IInv, Executing

LEMMA KernelKept ==
  ASSUME IInv, UNCHANGED kernel, Top.pc # "restore", StackOK(cpu', HasContext, Labels)
  PROVE  IInv'
  <1>1. HasContext' = HasContext
    BY DEF HasContext, kernel, contexts
  <1>2. Values' /\ Pointers' /\ BitmapSound'
    BY <1>1 DEF IInv, Values, Pointers, BitmapSound, kernel, tcb, periods, queues, timer, sched
  <1> QED BY <1>2, ContextsKept DEF kernel, sched

(* What the top of the stack may become. *)
LEMMA StepOK ==
  ASSUME IInv, NEW f, Step(f), FrameOK(f, HasContext, Labels),
         f.pc \in BottomLabel \/ Top.pc \notin BottomLabel
  PROVE  StackOK(cpu', HasContext, Labels)
  BY StackStep DEF IInv, Executing, Step, Top

LEMMA CallOK ==
  ASSUME IInv, NEW f, NEW l, Call(f, l), FrameOK(f, HasContext, Labels),
         FrameOK([Top EXCEPT !.pc = l], HasContext, Labels),
         l \in BottomLabel \/ Top.pc \notin BottomLabel
  PROVE  StackOK(cpu', HasContext, Labels)
  <1>1. [Top EXCEPT !.pc = l].pc = l
    BY TopFrame DEF FrameType
  <1> QED BY <1>1, StackCall DEF IInv, Executing, Call, Top

LEMMA ReturnOK ==
  ASSUME IInv, Return, Top.pc \notin BottomLabel
  PROVE  StackOK(cpu', HasContext, Labels)
  BY StackReturn DEF IInv, Executing, Return, Top

(* A label reached by Goto, with no demand on the frame. *)
LEMMA GotoOK ==
  ASSUME IInv, NEW l \in {"user_main", "requeue", "mark_ready", "save", "pick", "arm", "doze",
                          "sleep_diff"},
         Goto(l), l \in Labels, Top.pc \notin BottomLabel
  PROVE  StackOK(cpu', HasContext, Labels)
  <1>1. FrameOK([Top EXCEPT !.pc = l], HasContext, Labels)
    BY TopFrame, Constants DEF FrameOK, FrameType
  <1> QED BY <1>1, StepOK DEF Goto

LEMMA NewFrameOK ==
  ASSUME NEW l \in Labels, l \in {"schedule", "trigger"}, Labels \subseteq Label
  PROVE  FrameOK(Frame(l), HasContext, Labels)
  BY DEF FrameOK, FrameType, Frame, TaskFrame

LEMMA ScheduleOK ==
  ASSUME IInv, Schedule, Top.pc \notin BottomLabel
  PROVE  StackOK(cpu', HasContext, Labels)
  <1>1. FrameOK(Frame("schedule"), HasContext, Labels) /\ Frame("schedule").pc = "schedule"
    BY NewFrameOK, TopFrame, Constants DEF Labels, EarlyLabel, Label, KernelLabel,
       Frame, TaskFrame
  <1> QED BY <1>1, StepOK DEF Schedule

-----------------------------------------------------------------------------
(* The queues with the bitmap. *)

(* The list operations on links that lead to tasks in S. *)
LEMMA ListOK ==
  ASSUME NEW S \in SUBSET Task, links \in LinksOver(S), NEW h \in Pointer(S)
  PROVE  List(h) \in ListOver(Task, S)
  BY DEF List, ListOver, LinksOver, Pointer

LEMMA LinksOK ==
  ASSUME NEW S \in SUBSET Task, NEW l \in ListOver(Task, S)
  PROVE  Links(l) \in LinksOver(S) /\ l.head \in Pointer(S)
  BY DEF Links, ListOver, LinksOver, Pointer

(* _os_add_node_tail and _os_set_ready (task.c:71-72, 102-104, ...)        *)
LEMMA EnqueueOK ==
  ASSUME NEW S \in SUBSET Task, NEW l \in ListOver(Task, S), BitmapSound,
         ready \in [Priority -> Pointer(S)],
         NEW t \in S, NEW p \in Priority, Enqueue(l, t, p)
  PROVE  /\ links' \in LinksOver(S) /\ ready' \in [Priority -> Pointer(S)]
         /\ BitmapSound'
  <1> DEFINE m == [l EXCEPT !.head = ready[p]]
             new == AddNodeTail(m, t)
  <1>1. m \in ListOver(Task, S)
    BY DEF ListOver, Pointer
  <1>2. new \in ListOver(Task, S)
    BY <1>1, AddNodeTailType
  <1>3. links' = Links(new) /\ ready' = [ready EXCEPT ![p] = new.head]
        /\ bits' = SetReady(bits, p)
    BY DEF Enqueue
  <1>4. BitmapSound'
    BY <1>3, SetReadyCorrect DEF BitmapSound
  <1> HIDE DEF new
  <1> QED BY <1>2, <1>3, <1>4, LinksOK

LEMMA EnqueueReadyOK ==
  ASSUME NEW S \in SUBSET Task, links \in LinksOver(S), BitmapSound,
         ready \in [Priority -> Pointer(S)], priority \in [Task -> Priority],
         NEW t \in S, EnqueueReady(t)
  PROVE  /\ links' \in LinksOver(S) /\ ready' \in [Priority -> Pointer(S)]
         /\ BitmapSound' /\ waitq' = waitq
  <1>1. List(NULL) \in ListOver(Task, S)
    BY ListOK DEF Pointer
  <1> QED BY <1>1, EnqueueOK DEF EnqueueReady

(* _os_remove_node and _os_unset_ready (task.c:128-130, 156-158, 201-203)  *)
LEMMA DequeueReadyOK ==
  ASSUME NEW S \in SUBSET Task, links \in LinksOver(S), BitmapSound,
         ready \in [Priority -> Pointer(S)], priority \in [Task -> Priority],
         NEW t \in Task, DequeueReady(t)
  PROVE  /\ links' \in LinksOver(S) /\ ready' \in [Priority -> Pointer(S)]
         /\ BitmapSound' /\ waitq' = waitq
  <1> DEFINE p == priority[t]
             new == RemoveNode(List(ready[p]), t)
  <1>1. new \in ListOver(Task, S) /\ p \in Priority
    BY ListOK, RemoveNodeType
  <1>2. /\ links' = Links(new) /\ ready' = [ready EXCEPT ![p] = new.head]
        /\ bits' = IF new.head = NULL THEN UnsetReady(bits, p) ELSE bits
        /\ waitq' = waitq
    BY DEF DequeueReady
  <1> HIDE DEF new, p
  <1>3. BitmapSound'
    BY <1>1, <1>2, UnsetReadyCorrect DEF BitmapSound
  <1> QED BY <1>1, <1>2, <1>3, LinksOK

(* What remains of Pointers after a step that changes the ready queues.    *)
LEMMA QueuesOK ==
  ASSUME IInv, UNCHANGED <<status, current, alarms, ctx>>,
         links' \in LinksOver(HasContext), ready' \in [Priority -> Pointer(HasContext)],
         waitq' \in [WaitQueue -> Pointer(HasContext)]
  PROVE  Pointers'
  BY DEF IInv, Pointers, HasContext

LEMMA QueuesKept ==
  ASSUME IInv, UNCHANGED <<queues, current, alarms, ctx>>,
         \A t \in Task : status'[t] # "NEW" => t \in HasContext
  PROVE  Pointers' /\ BitmapSound'
  BY DEF IInv, Pointers, HasContext, BitmapSound, queues

LEMMA StatusOK ==
  ASSUME IInv, NEW t \in HasContext, NEW s \in Statuses, SetStatus(t, s),
         UNCHANGED <<periods, queues, timer, lock, contexts, current>>
  PROVE  Values' /\ Pointers' /\ BitmapSound'
  <1>1. Values'
    BY DEF IInv, Values, SetStatus, HasContext, periods, timer
  <1>2. \A u \in Task : status'[u] # "NEW" => u \in HasContext
    BY DEF IInv, Pointers, Values, SetStatus
  <1> QED BY <1>1, <1>2, QueuesKept DEF timer, contexts

LEMMA ValuesKept ==
  ASSUME IInv, UNCHANGED <<tcb, periods, timer, lock>>
  PROVE  Values'
  BY DEF IInv, Values, tcb, periods, timer

-----------------------------------------------------------------------------
(* Start-up and creation. *)

LEMMA InitIInv == Init => IInv
  <1> SUFFICES ASSUME Init PROVE IInv
    OBVIOUS
  <1>1. HasContext = {} /\ Labels = EarlyLabel
    BY DEF Init, HasContext, Labels
  <1>2. 0 \in 0 .. WORD - 1
    BY Constants
  <1>3. Values
    BY <1>2, Constants DEF Init, Values, Statuses
  <1>4. Pointers
    BY <1>1 DEF Init, Pointers, LinksOver, ListOver, Pointer
  <1>5. BitmapSound
    BY DEF Init, BitmapSound, NoneReady, Bitmap, GroupSummarises
  <1>6. Contexts
    BY <1>1 DEF Init, Contexts
  <1>7. Frame("boot") \in FrameType /\ Frame("boot").pc = "boot"
    BY Constants DEF Frame, TaskFrame, FrameType, EarlyLabel
  <1>8. FrameOK(Frame("boot"), HasContext, Labels)
    BY <1>1, <1>7 DEF FrameOK, EarlyLabel
  <1> DEFINE s == <<Frame("boot")>>
  <1>9. s \in Seq(FrameType) /\ Len(s) = 1 /\ s[1] = Frame("boot")
    BY <1>7
  <1> HIDE DEF s
  <1>10. StackOK(s, HasContext, Labels)
    BY <1>7, <1>8, <1>9 DEF StackOK, BottomLabel
  <1> QED BY <1>3, <1>4, <1>5, <1>6, <1>10 DEF IInv, Executing, Init, s

(* The frame of a call of the application or of _os_init. *)
LEMMA CallFrameOK ==
  ASSUME Labels \subseteq Label, NEW l \in Labels, NEW t \in Task \cup {NULL}, NEW n \in Int,
         \/ l = "create" /\ t \in Task /\ n \in Priority
         \/ l = "sleep"
         \/ l = "change_priority" /\ t \in HasContext /\ n \in Priority
         \/ l \in {"suspend", "resume"} /\ t \in HasContext
  PROVE  FrameOK(TaskFrame(l, t, n), HasContext, Labels)
  BY DEF FrameOK, FrameType, TaskFrame

(* The frame that calls stands at the bottom and stays as it is. *)
LEMMA BottomOK ==
  ASSUME IInv, NEW l \in BottomLabel \cap Labels
  PROVE  FrameOK([Top EXCEPT !.pc = l], HasContext, Labels)
  BY TopFrame DEF FrameOK, FrameType, BottomLabel

LEMMA PriorityInt == Priority \subseteq Int
  BY BitmapAssumption DEF Priority

LEMMA BootIdleIInv == ASSUME IInv, BootIdle PROVE IInv'
  <1> DEFINE f == TaskFrame("create", Idle, LOWEST_PRIORITY)
  <1>1. "create" \in Labels /\ "user_main" \in BottomLabel \cap Labels /\ Labels \subseteq Label
    BY TopFrame, Constants DEF Labels, EarlyLabel, BottomLabel
  <1>2. FrameOK(f, HasContext, Labels)
    BY <1>1, CallFrameOK, Constants, PriorityInt
  <1>3. StackOK(cpu', HasContext, Labels)
    BY <1>1, <1>2, BottomOK, CallOK DEF BootIdle
  <1> QED BY <1>3, KernelKept DEF BootIdle, At

LEMMA CallCreateOK ==
  ASSUME IInv, NEW l \in {"user_main", "user"}, At(l), CallCreate(l), UNCHANGED kernel
  PROVE  IInv'
  <1>1. /\ "create" \in Labels /\ l \in BottomLabel \cap Labels /\ Labels \subseteq Label
    BY TopFrame, Constants DEF Labels, EarlyLabel, BottomLabel, At, FrameOK
  <1>2. \A t \in User : CreatePriority[t] \subseteq Priority
    BY KernelAssumption
  <1>3. PICK t \in User, p \in Priority : Call(TaskFrame("create", t, p), l)
    BY <1>2 DEF CallCreate
  <1>4. FrameOK(TaskFrame("create", t, p), HasContext, Labels)
    BY <1>1, <1>3, CallFrameOK, Constants, PriorityInt
  <1>5. StackOK(cpu', HasContext, Labels)
    BY <1>1, <1>3, <1>4, BottomOK, CallOK
  <1> QED BY <1>5, KernelKept DEF At

LEMMA StartIInv == ASSUME IInv, StartMultitasking PROVE IInv'
  <1>1. /\ "schedule" \in Labels /\ "boot_end" \in BottomLabel \cap Labels
        /\ Labels \subseteq Label
    BY TopFrame, Constants DEF Labels, EarlyLabel, BottomLabel
  <1>2. StackOK(cpu', HasContext, Labels)
    BY <1>1, NewFrameOK, BottomOK, CallOK DEF StartMultitasking
  <1>3. Values'
    BY DEF IInv, Values, StartMultitasking, tcb, periods, timer
  <1>4. Pointers' /\ BitmapSound'
    BY QueuesKept DEF StartMultitasking, timer, contexts, tcb, IInv, Pointers
  <1> QED BY <1>2, <1>3, <1>4, ContextsKept DEF StartMultitasking, At

LEMMA CreateIInv == ASSUME IInv, Create PROVE IInv'
  <1> DEFINE t == Top.task
             p == Top.num
             R == HasContext \cup {t}
             f == TaskFrame(IF t = Idle THEN "idle" ELSE "user", t, 0)
             s == <<f>>
  <1>1. t \in Task /\ p \in Priority /\ Labels \subseteq Label /\ Top \in FrameType
    BY TopFrame DEF Create, At, FrameOK
  <1>2. ctx' = [ctx EXCEPT ![t] = s]
    BY DEF Create
  <1>3. /\ f \in FrameType /\ f.pc \in {"idle", "user"}
    BY <1>1, Constants DEF TaskFrame, FrameType, KernelLabel
  <1>4. s \in Seq(FrameType) /\ Len(s) = 1 /\ s[1] = f /\ s # <<>>
    BY <1>3
  <1> HIDE DEF f, s
  <1>5. FrameOK(f, R, Label)
    BY <1>3 DEF FrameOK, FrameType
  <1>6. StackOK(s, R, Label)
    BY <1>3, <1>4, <1>5 DEF StackOK, BottomLabel
  <1>7. HasContext' = R
    BY <1>1, <1>2, <1>4 DEF HasContext, IInv, Contexts
  <1>8. Labels' = Labels
    BY DEF Labels, Create, sched
  <1>9. R \in SUBSET Task /\ HasContext \subseteq R
    BY <1>1 DEF HasContext
  <1>10. Values'
    <2>1. 0 \in 0 .. WORD - 1
      BY Constants
    <2> QED BY <1>1, <2>1 DEF Create, IInv, Values, timer, sched
  <1>11. /\ links \in LinksOver(R) /\ ready \in [Priority -> Pointer(R)]
         /\ waitq \in [WaitQueue -> Pointer(R)] /\ alarms \in ListOver(Task, R)
         /\ current \in Pointer(R)
    BY <1>9 DEF IInv, Pointers, LinksOver, ListOver, Pointer
  <1>12. List(NULL) \in ListOver(Task, R)
    BY <1>9, <1>11, ListOK DEF Pointer
  <1>13. /\ links' \in LinksOver(R) /\ ready' \in [Priority -> Pointer(R)]
         /\ BitmapSound'
    BY <1>1, <1>9, <1>11, <1>12, EnqueueOK DEF Create, IInv
  <1>14. Pointers'
    BY <1>7, <1>9, <1>11, <1>13 DEF Pointers, Create, timer, sched, IInv
  <1>15. Contexts'
    <2>1. ctx' \in [Task -> Seq(FrameType)]
      BY <1>1, <1>2, <1>4 DEF IInv, Contexts
    <2>2. \A u \in R : StackOK(ctx'[u], R, Label)
      BY <1>1, <1>2, <1>6, <1>9, StackMore DEF IInv, Contexts
    <2>3. elr # <<>> => StackOK(elr, R, Label)
      BY <1>9, StackMore DEF IInv, Contexts
    <2>4. ResumeAtElr => elr # <<>> \/ current = NULL
      BY DEF IInv, Contexts, Create, At
    <2> QED BY <1>7, <2>1, <2>2, <2>3, <2>4 DEF Contexts, Create, sched, IInv
  <1>16. StackOK(cpu, R, Labels)
    BY <1>9, StackMore DEF IInv, Executing
  <1>17. FrameOK([Top EXCEPT !.pc = "created"], R, Labels)
    BY <1>1, <1>8, Constants DEF FrameOK, FrameType, Labels, EarlyLabel, KernelLabel
  <1>18. StackOK(cpu', R, Labels)
    BY <1>16, <1>17, StackStep DEF Create, Goto, Step, Top, At, BottomLabel
  <1> QED BY <1>7, <1>8, <1>10, <1>13, <1>14, <1>15, <1>18 DEF IInv, Executing

LEMMA BecomeReadyIInv == ASSUME IInv, BecomeReady PROVE IInv'
  <1>1. Top.task \in HasContext
    BY TopFrame DEF BecomeReady, FrameOK
  <1>2. Values' /\ Pointers' /\ BitmapSound'
    BY <1>1, StatusOK DEF BecomeReady, Statuses, sched
  <1>3. StackOK(cpu', HasContext, Labels)
    BY ScheduleOK DEF BecomeReady, BottomLabel
  <1> QED BY <1>2, <1>3, ContextsKept DEF BecomeReady, sched

-----------------------------------------------------------------------------
(* The scheduler. *)

LEMMA ScheduleEntryIInv == ASSUME IInv, ScheduleEntry PROVE IInv'
  <1>1. Top.pc = "schedule"
    BY DEF ScheduleEntry, At
  <1>2. StackOK(cpu', HasContext, Labels)
    <2>1. CASE Return
      BY <1>1, <2>1, ReturnOK DEF BottomLabel
    <2>2. CASE current = NULL /\ Goto("pick")
      BY <1>1, <2>2, GotoOK DEF BottomLabel, Labels, EarlyLabel
    <2>3. CASE current # NULL /\ (Goto("requeue") \/ Goto("save"))
      BY <1>1, <2>3, GotoOK, Constants DEF BottomLabel, Labels, KernelLabel
    <2> QED BY <2>1, <2>2, <2>3 DEF ScheduleEntry
  <1> QED BY <1>1, <1>2, KernelKept DEF ScheduleEntry

LEMMA RequeueIInv == ASSUME IInv, Requeue PROVE IInv'
  <1>1. Top.pc = "requeue"
    BY DEF Requeue, At
  <1>2. current \in HasContext /\ HasContext \in SUBSET Task /\ Labels = Label
    BY <1>1, TopFrame, Constants DEF EarlyLabel, HasContext, Labels
  <1>3. /\ links' \in LinksOver(HasContext) /\ ready' \in [Priority -> Pointer(HasContext)]
        /\ BitmapSound' /\ waitq' = waitq
    BY <1>2, EnqueueReadyOK DEF Requeue, IInv, Pointers, Values
  <1>4. Values' /\ Pointers'
    BY <1>3, ValuesKept, QueuesOK DEF Requeue, sched, contexts, timer, tcb, IInv, Pointers
  <1>5. StackOK(cpu', HasContext, Labels)
    BY <1>1, <1>2, GotoOK, Constants DEF Requeue, BottomLabel, KernelLabel
  <1> QED BY <1>1, <1>3, <1>4, <1>5, ContextsKept DEF Requeue, sched

LEMMA MarkReadyIInv == ASSUME IInv, MarkReady PROVE IInv'
  <1>1. Top.pc = "mark_ready"
    BY DEF MarkReady, At
  <1>2. current \in HasContext /\ Labels = Label
    BY <1>1, TopFrame, Constants DEF EarlyLabel, HasContext, Labels
  <1>3. Values' /\ Pointers' /\ BitmapSound'
    BY <1>2, StatusOK DEF MarkReady, Statuses, sched
  <1>4. StackOK(cpu', HasContext, Labels)
    BY <1>1, <1>2, GotoOK, Constants DEF MarkReady, BottomLabel, KernelLabel
  <1> QED BY <1>1, <1>3, <1>4, ContextsKept DEF MarkReady, sched

LEMMA SaveContextIInv == ASSUME IInv, SaveContext PROVE IInv'
  <1> DEFINE s == IF ResumeAtElr THEN elr ELSE Tail(cpu)
  <1>1. Top.pc = "save"
    BY DEF SaveContext, At
  <1>2. current \in HasContext /\ current # NULL /\ HasContext \in SUBSET Task /\ Labels = Label
    BY <1>1, TopFrame, Constants DEF EarlyLabel, HasContext, Labels
  <1>3. StackOK(Tail(cpu), HasContext, Label)
    BY <1>1, <1>2, StackReturn DEF IInv, Executing, Top, BottomLabel
  <1>4. ResumeAtElr => StackOK(elr, HasContext, Label)
    BY <1>1, <1>2 DEF IInv, Contexts, At
  <1>5. StackOK(s, HasContext, Label)
    BY <1>3, <1>4
  <1>6. ctx' = [ctx EXCEPT ![current] = s]
    BY DEF SaveContext
  <1> HIDE DEF s
  <1>7. s # <<>> /\ s \in Seq(FrameType)
    BY <1>5 DEF StackOK
  <1>8. HasContext' = HasContext /\ Labels' = Labels
    <2>1. current' = current
      BY DEF SaveContext, sched
    <2> QED BY <1>2, <1>6, <1>7, <2>1 DEF HasContext, Labels, IInv, Contexts
  <1>9. Contexts'
    <2>1. ctx' \in [Task -> Seq(FrameType)]
      BY <1>2, <1>6, <1>7 DEF IInv, Contexts
    <2>2. \A t \in HasContext : StackOK(ctx'[t], HasContext, Label)
      BY <1>2, <1>5, <1>6 DEF IInv, Contexts
    <2>3. ResumeAtElr => elr # <<>>
      BY <1>1, <1>2 DEF IInv, Contexts, At
    <2> QED BY <1>8, <2>1, <2>2, <2>3 DEF Contexts, SaveContext, IInv
  <1>10. Values' /\ Pointers' /\ BitmapSound'
    BY <1>8 DEF SaveContext, IInv, Values, Pointers, BitmapSound, tcb, periods, queues, timer,
           sched
  <1>11. StackOK(cpu', HasContext, Labels)
    BY <1>1, <1>2, GotoOK, Constants DEF SaveContext, BottomLabel, EarlyLabel
  <1> QED BY <1>8, <1>9, <1>10, <1>11 DEF IInv, Executing

(* The lookup yields a priority, and the head of its queue has a context.  *)
LEMMA PickIInv == ASSUME IInv, Pick PROVE IInv'
  <1> DEFINE t == ready[HighestPriority(bits)]
             f == TaskFrame("unqueue", t, 0)
  <1>1. Top.pc = "pick" /\ t # NULL /\ Step(f)
    BY DEF Pick, At
  <1>2. HighestPriority(bits) \in Priority
    BY HighestPriorityType DEF IInv, BitmapSound
  <1>3. t \in HasContext /\ t \in Task
    BY <1>1, <1>2 DEF IInv, Pointers, Pointer, HasContext
  <1> HIDE DEF t
  <1>4. "unqueue" \in Labels /\ "unqueue" \in Label
    BY Constants DEF Labels, EarlyLabel
  <1>5. FrameOK(f, HasContext, Labels)
    BY <1>3, <1>4 DEF FrameOK, FrameType, TaskFrame
  <1>6. StackOK(cpu', HasContext, Labels)
    BY <1>1, <1>5, StepOK DEF BottomLabel
  <1> QED BY <1>1, <1>6, KernelKept DEF Pick

(* A label reached by Goto whose frame needs a task that has a context, as *)
(* the frame that is left did.                                             *)
LEMMA GotoTaskOK ==
  ASSUME IInv, NEW l \in {"run", "restore", "reinsert", "set_priority", "suspended",
                          "resumed", "woken"},
         Goto(l), l \in Labels, Top.pc \notin BottomLabel, Top.task \in HasContext,
         l \in {"reinsert", "set_priority"} => Top.num \in Priority
  PROVE  StackOK(cpu', HasContext, Labels)
  <1>1. FrameOK([Top EXCEPT !.pc = l], HasContext, Labels)
    BY TopFrame DEF FrameOK, FrameType
  <1> QED BY <1>1, StepOK, TopFrame DEF Goto

LEMMA UnqueueIInv == ASSUME IInv, Unqueue PROVE IInv'
  <1>1. Top.pc = "unqueue"
    BY DEF Unqueue, At
  <1>2. Top.task \in HasContext /\ HasContext \in SUBSET Task
    BY <1>1, TopFrame DEF FrameOK, HasContext
  <1>3. /\ links' \in LinksOver(HasContext) /\ ready' \in [Priority -> Pointer(HasContext)]
        /\ BitmapSound' /\ waitq' = waitq
    BY <1>2, DequeueReadyOK DEF Unqueue, IInv, Pointers, Values
  <1>4. Values' /\ Pointers'
    BY <1>3, ValuesKept, QueuesOK DEF Unqueue, sched, contexts, timer, tcb, IInv, Pointers
  <1>5. StackOK(cpu', HasContext, Labels)
    BY <1>1, <1>2, GotoTaskOK, Constants DEF Unqueue, BottomLabel, Labels, EarlyLabel,
       KernelLabel
  <1> QED BY <1>1, <1>3, <1>4, <1>5, ContextsKept DEF Unqueue, sched

(* The step that makes a task current: from here on every label may occur. *)
LEMMA RunIInv == ASSUME IInv, Run PROVE IInv'
  <1> DEFINE t == Top.task
             f == [Top EXCEPT !.pc = "restore"]
  <1>1. Top.pc = "run" /\ Labels \subseteq Label /\ Top \in FrameType
    BY TopFrame DEF Run, At
  <1>2. t \in HasContext /\ t \in Task /\ t # NULL
    BY <1>1, TopFrame, Constants DEF FrameOK, HasContext
  <1>3. current' = t /\ cpu' = <<f>> \o Tail(cpu)
    BY DEF Run, Goto, Step
  <1>4. HasContext' = HasContext /\ Labels' = Label
    BY <1>2, <1>3 DEF HasContext, Labels, Run, contexts
  <1>5. Values'
    BY <1>2 DEF Run, SetStatus, IInv, Values, Statuses, periods, timer
  <1>6. Pointers' /\ BitmapSound'
    BY <1>2, <1>3, <1>4 DEF Run, SetStatus, IInv, Pointers, Pointer, BitmapSound, Values,
       queues, timer
  <1>7. f \in FrameType /\ f.pc = "restore" /\ f.task = t
    BY <1>1, Constants DEF FrameType, KernelLabel
  <1>8. FrameOK(f, HasContext, Label)
    BY <1>2, <1>7 DEF FrameOK, FrameType
  <1>9. StackOK(cpu, HasContext, Label)
    BY <1>1, StackMore DEF IInv, Executing
  <1>10. StackOK(cpu', HasContext, Label)
    BY <1>1, <1>3, <1>8, <1>9, StackStep DEF Top, BottomLabel
  <1>11. At("restore")'
    <2>1. f \in FrameType /\ Tail(cpu) \in Seq(FrameType)
      BY <1>7, <1>9 DEF StackOK
    <2> HIDE DEF f
    <2>2. cpu'[1] = f
      BY <1>3, <2>1
    <2> QED BY <1>7, <2>2 DEF At, Top
  <1>12. Contexts'
    BY <1>4, <1>11 DEF IInv, Contexts, Run, contexts
  <1> QED BY <1>4, <1>5, <1>6, <1>10, <1>12 DEF IInv, Executing

LEMMA RestoreContextIInv == ASSUME IInv, RestoreContext PROVE IInv'
  <1> DEFINE s == ctx[Top.task]
  <1>1. Top.pc = "restore"
    BY DEF RestoreContext, At
  <1>2. Top.task \in HasContext /\ Labels = Label
    BY <1>1, TopFrame, Constants DEF FrameOK, EarlyLabel, Labels, HasContext
  <1>3. StackOK(s, HasContext, Label)
    BY <1>2 DEF IInv, Contexts
  <1>4. HasContext' = HasContext /\ Labels' = Labels
    BY DEF HasContext, Labels, RestoreContext, sched
  <1>5. Contexts'
    <2>1. elr' = IF ResumeAtElr THEN s ELSE elr
      BY DEF RestoreContext
    <2>2. s # <<>> /\ s \in Seq(FrameType)
      BY <1>3 DEF StackOK
    <2> HIDE DEF s
    <2> QED BY <1>3, <1>4, <2>1, <2>2 DEF IInv, Contexts, RestoreContext
  <1>6. Values' /\ Pointers' /\ BitmapSound'
    BY <1>4 DEF RestoreContext, IInv, Values, Pointers, BitmapSound, tcb, periods, queues,
           timer, sched
  <1> QED BY <1>2, <1>3, <1>4, <1>5, <1>6 DEF IInv, Executing, RestoreContext

-----------------------------------------------------------------------------
(* The timer interrupt. *)

LEMMA InterruptIInv == ASSUME IInv, Interrupt PROVE IInv'
  <1>1. StackOK(cpu, HasContext, Label) /\ cpu \in Seq(FrameType) /\ cpu # <<>>
    BY TopFrame, StackMore DEF IInv, Executing, StackOK
  <1>2. ctx' = IF current = NULL THEN ctx ELSE [ctx EXCEPT ![current] = cpu]
    BY DEF Interrupt
  <1>3. HasContext' = HasContext /\ Labels' = Labels
    <2>1. current \in Pointer(HasContext) /\ current' = current
      BY DEF IInv, Pointers, Interrupt, sched
    <2> QED BY <1>1, <1>2, <2>1 DEF HasContext, Labels, IInv, Contexts, Pointer
  <1>4. Values'
    <2>1. (tick + 1) % WORD \in 0 .. WORD - 1
      BY Constants DEF IInv, Values
    <2> QED BY <2>1 DEF Interrupt, IInv, Values, tcb, periods, sched
  <1>5. Pointers' /\ BitmapSound'
    BY <1>3 DEF Interrupt, IInv, Pointers, BitmapSound, tcb, queues, sched
  <1>6. Contexts'
    <2>1. ctx' \in [Task -> Seq(FrameType)]
      BY <1>1, <1>2 DEF IInv, Contexts
    <2>2. \A t \in HasContext : StackOK(ctx'[t], HasContext, Label)
      <3>1. current \in Pointer(HasContext) /\ HasContext \in SUBSET Task
        BY DEF IInv, Pointers, HasContext
      <3> QED BY <1>1, <1>2, <3>1 DEF IInv, Contexts, Pointer
    <2>3. elr' = IF ResumeAtElr THEN cpu ELSE elr
      BY DEF Interrupt
    <2> QED BY <1>1, <1>3, <2>1, <2>2, <2>3 DEF IInv, Contexts
  <1>7. StackOK(cpu', HasContext, Labels)
    <2>1. FrameOK(Frame("trigger"), HasContext, Labels)
      BY NewFrameOK, TopFrame, Constants DEF Labels, EarlyLabel, KernelLabel
    <2> QED BY <2>1, StackPush DEF Interrupt, IInv, Executing
  <1> QED BY <1>3, <1>4, <1>5, <1>6, <1>7 DEF IInv, Executing

(* An alarm fires: its task leaves the alarm queue, and the wait queue it  *)
(* may be in, and enters its ready queue.                                  *)
LEMMA FireAlarmIInv == ASSUME IInv, FireAlarm PROVE IInv'
  <1> DEFINE t == alarms.head
             q == owner[t]
             S == HasContext
             l == IF q = NULL THEN List(NULL) ELSE RemoveNode(List(waitq[q]), t)
             off == RemoveNode(alarms, t)
  <1>1. /\ links \in LinksOver(S) /\ ready \in [Priority -> Pointer(S)] /\ BitmapSound
        /\ waitq \in [WaitQueue -> Pointer(S)] /\ alarms \in ListOver(Task, S)
        /\ S \in SUBSET Task
    BY DEF IInv, Pointers, HasContext
  <1>2. t \in S /\ t \in Task
    BY <1>1 DEF FireAlarm, AlarmDue, ListOver, Pointer
  <1>3. priority[t] \in Priority /\ q \in WaitQueue \cup {NULL}
    BY <1>2 DEF IInv, Values
  <1>4. off \in ListOver(Task, S)
    BY <1>1, <1>2, RemoveNodeType
  <1>5. l \in ListOver(Task, S)
    <2>1. CASE q = NULL
      BY <1>1, <2>1, ListOK DEF Pointer
    <2>2. CASE q # NULL
      <3>1. List(waitq[q]) \in ListOver(Task, S)
        BY <1>1, <1>3, <2>2, ListOK
      <3>2. RemoveNode(List(waitq[q]), t) \in ListOver(Task, S)
        BY <1>1, <1>2, <3>1, RemoveNodeType
      <3> QED BY <2>2, <3>2
    <2> QED BY <2>1, <2>2
  <1>6. /\ alarms' = off
        /\ waitq' = IF q = NULL THEN waitq ELSE [waitq EXCEPT ![q] = l.head]
        /\ owner' = [owner EXCEPT ![t] = NULL]
        /\ Enqueue(l, t, priority[t])
        /\ status' = [status EXCEPT ![t] = "READY"]
        /\ UNCHANGED <<priority, periods, tick, timeout, sched, contexts, cpu>>
    BY DEF FireAlarm
  <1> HIDE DEF l, off
  <1>7. links' \in LinksOver(S) /\ ready' \in [Priority -> Pointer(S)] /\ BitmapSound'
    BY <1>1, <1>2, <1>3, <1>5, <1>6, EnqueueOK
  <1>8. l.head \in Pointer(S)
    BY <1>5 DEF ListOver, Pointer
  <1>9. waitq' \in [WaitQueue -> Pointer(S)]
    BY <1>1, <1>3, <1>6, <1>8
  <1>10. Values'
    BY <1>2, <1>6 DEF IInv, Values, Statuses, periods, sched
  <1>11. HasContext' = S
    BY <1>6 DEF HasContext, contexts
  <1>12. \A u \in Task : status'[u] # "NEW" => u \in S
    BY <1>2, <1>6 DEF IInv, Pointers, Values
  <1>13. Pointers'
    <2>1. current' = current
      BY <1>6 DEF sched
    <2> QED BY <1>4, <1>6, <1>7, <1>9, <1>11, <1>12, <2>1 DEF IInv, Pointers
  <1>14. StackOK(cpu', HasContext, Labels)
    BY <1>6 DEF IInv, Executing
  <1>15. Top.pc # "restore"
    BY DEF FireAlarm, At
  <1> QED BY <1>6, <1>7, <1>10, <1>13, <1>14, <1>15, ContextsKept DEF sched

LEMMA AlarmsDoneIInv == ASSUME IInv, AlarmsDone PROVE IInv'
  <1>1. Top.pc = "trigger"
    BY DEF AlarmsDone, At
  <1>2. "schedule" \in Labels /\ "irq_return" \in Labels /\ Labels \subseteq Label
    BY TopFrame, Constants DEF Labels, EarlyLabel
  <1>3. FrameOK([Top EXCEPT !.pc = "irq_return"], HasContext, Labels)
    BY <1>2, TopFrame DEF FrameOK, FrameType
  <1>4. FrameOK(Frame("schedule"), HasContext, Labels)
    BY <1>2, NewFrameOK
  <1>5. StackOK(cpu', HasContext, Labels)
    BY <1>1, <1>3, <1>4, CallOK DEF AlarmsDone, BottomLabel
  <1> QED BY <1>1, <1>5, KernelKept DEF AlarmsDone

LEMMA IrqReturnIInv == ASSUME IInv, IrqReturn PROVE IInv'
  BY ReturnOK, KernelKept DEF IrqReturn, At, BottomLabel

-----------------------------------------------------------------------------
(* eos_sleep and eos_set_alarm. *)

(* At a label that only a task's code reaches. *)
LEMMA InTaskCode ==
  ASSUME IInv, Top.pc \notin EarlyLabel
  PROVE  /\ current \in HasContext /\ current \in Task /\ current # NULL
         /\ HasContext \in SUBSET Task /\ Labels = Label
  BY TopFrame, Constants DEF HasContext, Labels

LEMMA SleepIInv == ASSUME IInv, Sleep PROVE IInv'
  <1> DEFINE release == (wakeup[current] + period[current]) % WORD
  <1>1. Top.pc = "sleep"
    BY DEF Sleep, At
  <1>2. current \in Task /\ Labels = Label
    BY <1>1, InTaskCode DEF EarlyLabel
  <1>3. wakeup' \in [Task -> 0 .. WORD - 1]
    <2>1. release \in 0 .. WORD - 1
      BY <1>2, Constants DEF IInv, Values
    <2>2. wakeup' = wakeup \/ wakeup' = [wakeup EXCEPT ![current] = release]
      BY DEF Sleep
    <2> HIDE DEF release
    <2> QED BY <1>2, <2>1, <2>2 DEF IInv, Values
  <1>4. Values'
    BY <1>3 DEF Sleep, IInv, Values, tcb, timer, sched
  <1>5. Pointers' /\ BitmapSound'
    BY QueuesKept DEF Sleep, IInv, Pointers, tcb, timer, sched, contexts
  <1>6. Return \/ Goto("arm") \/ Goto("sleep_diff")
    BY DEF Sleep
  <1>7. StackOK(cpu', HasContext, Labels)
    BY <1>1, <1>2, <1>6, ReturnOK, GotoOK, Constants DEF BottomLabel, KernelLabel
  <1> QED BY <1>1, <1>4, <1>5, <1>7, ContextsKept DEF Sleep, sched

LEMMA SleepDiffIInv == ASSUME IInv, SleepDiff PROVE IInv'
  <1> DEFINE n == (wakeup[current] - tick) % WORD
             f == [Top EXCEPT !.pc = "arm", !.num = n]
  <1>1. Top.pc = "sleep_diff" /\ Step(f)
    BY DEF SleepDiff, At
  <1>2. current \in Task /\ Labels = Label
    BY <1>1, InTaskCode DEF EarlyLabel
  <1>3. n \in Int
    BY <1>2, Constants DEF IInv, Values
  <1> HIDE DEF n
  <1>4. FrameOK(f, HasContext, Labels) /\ f.pc = "arm"
    BY <1>2, <1>3, TopFrame, Constants DEF FrameOK, FrameType, KernelLabel
  <1>5. StackOK(cpu', HasContext, Labels)
    BY <1>1, <1>4, StepOK DEF BottomLabel
  <1> QED BY <1>1, <1>5, KernelKept DEF SleepDiff

(* eos_set_alarm on the alarm of the current task (timer.c:28-52).         *)
LEMMA SetAlarmOK ==
  ASSUME IInv, Top.pc \notin EarlyLabel, NEW n \in Int, SetAlarm(current, n),
         UNCHANGED <<tcb, periods, queues, sched, contexts>>
  PROVE  Values' /\ Pointers' /\ BitmapSound'
  <1> DEFINE off == RemoveNode(alarms, current)
  <1>1. current \in HasContext /\ current \in Task /\ HasContext \in SUBSET Task
    BY InTaskCode
  <1>2. off \in ListOver(Task, HasContext)
    BY <1>1, RemoveNodeType DEF IInv, Pointers
  <1>3. timeout' \in [Task -> 0 .. WORD - 1]
    <2>1. (tick + n) % WORD \in 0 .. WORD - 1
      BY Constants DEF IInv, Values
    <2> QED BY <1>1, <2>1 DEF SetAlarm, IInv, Values
  <1>4. AddNodeOrdered(off, current, timeout') \in ListOver(Task, HasContext)
    BY <1>1, <1>2, AddNodeOrderedType
  <1>5. alarms' \in ListOver(Task, HasContext) /\ tick' = tick
    BY <1>2, <1>4 DEF SetAlarm
  <1>6. Values' /\ BitmapSound'
    BY <1>3, <1>5 DEF IInv, Values, BitmapSound, tcb, periods, queues, sched
  <1>7. Pointers'
    BY <1>5 DEF IInv, Pointers, HasContext, tcb, queues, sched, contexts
  <1> QED BY <1>6, <1>7

LEMMA ArmIInv == ASSUME IInv, Arm PROVE IInv'
  <1>1. Top.pc = "arm" /\ Top.num \in Int /\ Labels = Label
    BY TopFrame, InTaskCode DEF Arm, At, FrameType, EarlyLabel
  <1>2. Values' /\ Pointers' /\ BitmapSound'
    BY <1>1, SetAlarmOK DEF Arm, EarlyLabel
  <1>3. StackOK(cpu', HasContext, Labels)
    BY <1>1, GotoOK, Constants DEF Arm, BottomLabel, KernelLabel
  <1> QED BY <1>1, <1>2, <1>3, ContextsKept DEF Arm, sched

LEMMA DozeIInv == ASSUME IInv, Doze PROVE IInv'
  <1>1. Top.pc = "doze" /\ current \in HasContext
    BY InTaskCode DEF Doze, At, EarlyLabel
  <1>2. Values' /\ Pointers' /\ BitmapSound'
    BY <1>1, StatusOK DEF Doze, Statuses, sched
  <1>3. StackOK(cpu', HasContext, Labels)
    BY <1>1, ScheduleOK DEF Doze, BottomLabel
  <1> QED BY <1>1, <1>2, <1>3, ContextsKept DEF Doze, sched

-----------------------------------------------------------------------------
(* Priorities, suspension, wait queues. *)

(* A step that removes the task of the top frame from its ready queue.     *)
LEMMA RemovingOK ==
  ASSUME IInv, Top.task \in Task, DequeueReady(Top.task),
         UNCHANGED <<tcb, periods, timer, sched, contexts>>
  PROVE  Values' /\ Pointers' /\ BitmapSound'
  <1>1. HasContext \in SUBSET Task
    BY DEF HasContext
  <1>2. /\ links' \in LinksOver(HasContext) /\ ready' \in [Priority -> Pointer(HasContext)]
        /\ BitmapSound' /\ waitq' = waitq
    BY <1>1, DequeueReadyOK DEF IInv, Pointers, Values
  <1> QED BY <1>2, ValuesKept, QueuesOK DEF sched, contexts, timer, tcb, IInv, Pointers

(* A step that inserts the task of the top frame in a ready queue.         *)
LEMMA InsertingOK ==
  ASSUME IInv, Top.task \in HasContext, NEW p \in Priority,
         Enqueue(List(NULL), Top.task, p),
         UNCHANGED <<tcb, periods, waitq, timer, sched, contexts>>
  PROVE  Values' /\ Pointers' /\ BitmapSound'
  <1>1. HasContext \in SUBSET Task
    BY DEF HasContext
  <1>2. List(NULL) \in ListOver(Task, HasContext)
    BY <1>1, ListOK DEF IInv, Pointers, Pointer
  <1>3. /\ links' \in LinksOver(HasContext) /\ ready' \in [Priority -> Pointer(HasContext)]
        /\ BitmapSound'
    BY <1>1, <1>2, EnqueueOK DEF IInv, Pointers
  <1> QED BY <1>3, ValuesKept, QueuesOK DEF sched, contexts, timer, tcb, IInv, Pointers

(* A step that leaves the queues as they are. *)
LEMMA NothingOK ==
  ASSUME IInv, UNCHANGED <<tcb, periods, queues, timer, sched, contexts>>
  PROVE  Values' /\ Pointers' /\ BitmapSound'
  BY ValuesKept, QueuesKept DEF sched, contexts, timer, tcb, IInv, Pointers

LEMMA ChangePriorityIInv == ASSUME IInv, ChangePriority PROVE IInv'
  <1>1. Top.pc = "change_priority"
    BY DEF ChangePriority, At
  <1>2. /\ Top.task \in HasContext /\ Top.task \in Task /\ Top.num \in Priority
        /\ Labels = Label
    BY <1>1, TopFrame, InTaskCode DEF FrameOK, EarlyLabel
  <1>3. Values' /\ Pointers' /\ BitmapSound'
    BY <1>2, RemovingOK, NothingOK DEF ChangePriority
  <1>4. Goto("reinsert") \/ Goto("set_priority")
    BY DEF ChangePriority
  <1>5. StackOK(cpu', HasContext, Labels)
    BY <1>1, <1>2, <1>4, GotoTaskOK, Constants DEF BottomLabel, KernelLabel
  <1> QED BY <1>1, <1>3, <1>5, ContextsKept DEF ChangePriority, sched

LEMMA ReinsertIInv == ASSUME IInv, Reinsert PROVE IInv'
  <1>1. Top.pc = "reinsert"
    BY DEF Reinsert, At
  <1>2. Top.task \in HasContext /\ Top.num \in Priority /\ Labels = Label
    BY <1>1, TopFrame, InTaskCode DEF FrameOK, EarlyLabel
  <1>3. Values' /\ Pointers' /\ BitmapSound'
    BY <1>2, InsertingOK DEF Reinsert
  <1>4. StackOK(cpu', HasContext, Labels)
    BY <1>1, <1>2, GotoTaskOK, Constants DEF Reinsert, BottomLabel, KernelLabel
  <1> QED BY <1>1, <1>3, <1>4, ContextsKept DEF Reinsert, sched

LEMMA SetPriorityIInv == ASSUME IInv, SetPriority PROVE IInv'
  <1>1. Top.pc = "set_priority"
    BY DEF SetPriority, At
  <1>2. Top.num \in Priority
    BY <1>1, TopFrame DEF FrameOK
  <1>3. Values'
    BY <1>2 DEF SetPriority, IInv, Values, periods, timer, sched
  <1>4. Pointers' /\ BitmapSound'
    BY QueuesKept DEF SetPriority, IInv, Pointers, timer, sched, contexts
  <1>5. StackOK(cpu', HasContext, Labels)
    BY <1>1, ScheduleOK DEF SetPriority, BottomLabel
  <1> QED BY <1>1, <1>3, <1>4, <1>5, ContextsKept DEF SetPriority, sched

LEMMA SuspendIInv == ASSUME IInv, Suspend PROVE IInv'
  <1>1. Top.pc = "suspend"
    BY DEF Suspend, At
  <1>2. Top.task \in HasContext /\ Top.task \in Task /\ Labels = Label
    BY <1>1, TopFrame, InTaskCode DEF FrameOK, EarlyLabel
  <1>3. Values' /\ Pointers' /\ BitmapSound'
    BY <1>2, RemovingOK, NothingOK DEF Suspend
  <1>4. Goto("suspended") \/ Return
    BY DEF Suspend
  <1>5. StackOK(cpu', HasContext, Labels)
    BY <1>1, <1>2, <1>4, GotoTaskOK, ReturnOK, Constants DEF BottomLabel, KernelLabel
  <1> QED BY <1>1, <1>3, <1>5, ContextsKept DEF Suspend, sched

LEMMA SuspendedIInv == ASSUME IInv, Suspended PROVE IInv'
  <1>1. Top.pc = "suspended"
    BY DEF Suspended, At
  <1>2. Top.task \in HasContext
    BY <1>1, TopFrame DEF FrameOK
  <1>3. Values' /\ Pointers' /\ BitmapSound'
    BY <1>2, StatusOK DEF Suspended, Statuses, sched
  <1>4. StackOK(cpu', HasContext, Labels)
    BY <1>1, ReturnOK DEF Suspended, BottomLabel
  <1> QED BY <1>1, <1>3, <1>4, ContextsKept DEF Suspended, sched

LEMMA ResumeIInv == ASSUME IInv, Resume PROVE IInv'
  <1>1. Top.pc = "resume"
    BY DEF Resume, At
  <1>2. /\ Top.task \in HasContext /\ priority[Top.task] \in Priority /\ Labels = Label
    BY <1>1, TopFrame, InTaskCode DEF FrameOK, EarlyLabel, IInv, Values
  <1>3. Values' /\ Pointers' /\ BitmapSound'
    BY <1>2, InsertingOK, NothingOK DEF Resume, EnqueueReady
  <1>4. Goto("resumed") \/ Return
    BY DEF Resume
  <1>5. StackOK(cpu', HasContext, Labels)
    BY <1>1, <1>2, <1>4, GotoTaskOK, ReturnOK, Constants DEF BottomLabel, KernelLabel
  <1> QED BY <1>1, <1>3, <1>5, ContextsKept DEF Resume, sched

(* What remains after a step on a wait queue: the new list is l. *)
LEMMA WaitQueueOK ==
  ASSUME IInv, NEW q \in WaitQueue, NEW l \in ListOver(Task, HasContext),
         links' = Links(l), waitq' = [waitq EXCEPT ![q] = l.head],
         UNCHANGED <<tcb, periods, ready, bits, timer, sched, contexts>>
  PROVE  Values' /\ Pointers' /\ BitmapSound'
  <1>1. links' \in LinksOver(HasContext) /\ l.head \in Pointer(HasContext)
    BY LinksOK DEF HasContext
  <1>2. /\ waitq' \in [WaitQueue -> Pointer(HasContext)]
        /\ ready' \in [Priority -> Pointer(HasContext)]
    BY <1>1 DEF IInv, Pointers
  <1> QED BY <1>1, <1>2, ValuesKept, QueuesOK
          DEF sched, contexts, timer, tcb, IInv, Pointers, BitmapSound

LEMMA WaitInQueueIInv == ASSUME IInv, WaitInQueue PROVE IInv'
  <1> DEFINE q == Top.queue
             l == List(waitq[q])
             new == IF QueueType[q] = "FIFO" THEN AddNodeTail(l, current)
                    ELSE AddNodeOrdered(l, current, priority)
  <1>1. Top.pc = "wait"
    BY DEF WaitInQueue, At
  <1>2. q \in WaitQueue
    BY <1>1, TopFrame DEF FrameOK
  <1>3. /\ current \in HasContext /\ current \in Task /\ HasContext \in SUBSET Task
        /\ Labels = Label
    BY <1>1, InTaskCode DEF EarlyLabel
  <1>4. l \in ListOver(Task, HasContext)
    BY <1>2, <1>3, ListOK DEF IInv, Pointers
  <1>5. new \in ListOver(Task, HasContext)
    BY <1>3, <1>4, AddNodeTailType, AddNodeOrderedType
  <1>6. links' = Links(new) /\ waitq' = [waitq EXCEPT ![q] = new.head]
    BY DEF WaitInQueue
  <1> HIDE DEF new
  <1>7. Values' /\ Pointers' /\ BitmapSound'
    BY <1>2, <1>5, <1>6, WaitQueueOK DEF WaitInQueue
  <1>8. FrameOK([Top EXCEPT !.pc = "waiting"], HasContext, Labels)
    BY <1>2, <1>3, TopFrame, Constants DEF FrameOK, FrameType, KernelLabel
  <1>9. StackOK(cpu', HasContext, Labels)
    BY <1>1, <1>8, StepOK DEF WaitInQueue, Goto, BottomLabel
  <1> QED BY <1>1, <1>7, <1>9, ContextsKept DEF WaitInQueue, sched

LEMMA WaitingIInv == ASSUME IInv, Waiting PROVE IInv'
  <1>1. Top.pc = "waiting"
    BY DEF Waiting, At
  <1>2. Top.queue \in WaitQueue /\ current \in HasContext /\ current \in Task
    BY <1>1, TopFrame, InTaskCode DEF FrameOK, EarlyLabel
  <1>3. Values'
    BY <1>2 DEF Waiting, IInv, Values, Statuses, periods, timer, sched
  <1>4. \A t \in Task : status'[t] # "NEW" => t \in HasContext
    BY <1>2 DEF Waiting, IInv, Values, Pointers
  <1>5. Pointers' /\ BitmapSound'
    BY <1>4, QueuesKept DEF Waiting, timer, sched, contexts
  <1>6. StackOK(cpu', HasContext, Labels)
    BY <1>1, ScheduleOK DEF Waiting, BottomLabel
  <1> QED BY <1>1, <1>3, <1>5, <1>6, ContextsKept DEF Waiting, sched

LEMMA WakeupIInv == ASSUME IInv, Wakeup PROVE IInv'
  <1> DEFINE q == Top.queue
             t == waitq[q]
             new == RemoveNode(List(t), t)
             f == [Top EXCEPT !.pc = "make_ready", !.task = t]
  <1>1. Top.pc = "wakeup"
    BY DEF Wakeup, At
  <1>2. q \in WaitQueue /\ HasContext \in SUBSET Task /\ Labels = Label
    BY <1>1, TopFrame, InTaskCode DEF FrameOK, EarlyLabel
  <1>3. CASE t = NULL
    <2>1. Values' /\ Pointers' /\ BitmapSound'
      BY <1>3, NothingOK DEF Wakeup
    <2>2. StackOK(cpu', HasContext, Labels)
      BY <1>1, <1>3, ReturnOK DEF Wakeup, BottomLabel
    <2> QED BY <1>1, <2>1, <2>2, ContextsKept DEF Wakeup, sched
  <1>4. CASE t # NULL
    <2>1. t \in HasContext /\ t \in Task
      BY <1>2, <1>4 DEF IInv, Pointers, Pointer
    <2>2. new \in ListOver(Task, HasContext)
      BY <1>2, <2>1, ListOK, RemoveNodeType DEF IInv, Pointers, Pointer
    <2>3. /\ links' = Links(new) /\ waitq' = [waitq EXCEPT ![q] = new.head]
          /\ Step(f) /\ UNCHANGED <<ready, bits>>
      BY <1>4 DEF Wakeup
    <2> HIDE DEF t, new
    <2>4. Values' /\ Pointers' /\ BitmapSound'
      BY <1>2, <2>2, <2>3, WaitQueueOK DEF Wakeup
    <2>5. FrameOK(f, HasContext, Labels)
      BY <1>2, <2>1, TopFrame, Constants DEF FrameOK, FrameType, KernelLabel
    <2>6. StackOK(cpu', HasContext, Labels)
      BY <1>1, <2>3, <2>5, StepOK DEF BottomLabel
    <2> QED BY <1>1, <2>4, <2>6, ContextsKept DEF Wakeup, sched
  <1> QED BY <1>3, <1>4

LEMMA MakeReadyIInv == ASSUME IInv, MakeReady PROVE IInv'
  <1>1. Top.pc = "make_ready"
    BY DEF MakeReady, At
  <1>2. /\ Top.task \in HasContext /\ priority[Top.task] \in Priority /\ Labels = Label
    BY <1>1, TopFrame, InTaskCode DEF FrameOK, EarlyLabel, IInv, Values
  <1>3. Values' /\ Pointers' /\ BitmapSound'
    BY <1>2, InsertingOK DEF MakeReady, EnqueueReady
  <1>4. StackOK(cpu', HasContext, Labels)
    BY <1>1, <1>2, GotoTaskOK, Constants DEF MakeReady, BottomLabel, KernelLabel
  <1> QED BY <1>1, <1>3, <1>4, ContextsKept DEF MakeReady, sched

-----------------------------------------------------------------------------
(* The application. *)

LEMMA UserCallIInv ==
  ASSUME IInv, NEW l \in {"sleep", "change_priority", "suspend", "resume"},
         NEW t \in Task \cup {NULL}, NEW n \in Int, UserCall(l, TaskFrame(l, t, n)),
         l # "sleep" => t \in HasContext, l = "change_priority" => n \in Priority
  PROVE  IInv'
  <1>1. Top.pc = "user" /\ Labels = Label /\ "user" \in BottomLabel \cap Labels /\ l \in Labels
    BY InTaskCode, Constants DEF UserCall, At, EarlyLabel, BottomLabel, KernelLabel
  <1>2. FrameOK(TaskFrame(l, t, n), HasContext, Labels)
    BY <1>1, CallFrameOK DEF HasContext
  <1>3. StackOK(cpu', HasContext, Labels)
    BY <1>1, <1>2, BottomOK, CallOK DEF UserCall
  <1> QED BY <1>1, <1>3, KernelKept DEF UserCall

LEMMA UserSleepIInv == ASSUME IInv, UserSleep PROVE IInv'
  <1>1. SleepTicks \subseteq Int /\ NULL \in Task \cup {NULL}
    BY KernelAssumption
  <1> QED BY <1>1, UserCallIInv DEF UserSleep

(* Of a task that was created, the application has the tcb. *)
LEMMA CreatedOK ==
  ASSUME IInv, NEW t \in User, Created(t)
  PROVE  t \in Task /\ t \in HasContext
  BY Constants DEF Created, IInv, Pointers

LEMMA UserTaskCallsIInv ==
  ASSUME IInv, UserChangePriority \/ UserSuspend \/ UserResume
  PROVE  IInv'
  <1>1. CASE UserChangePriority
    <2>1. PICK t \in User, p \in NewPriority :
            Created(t) /\ UserCall("change_priority", TaskFrame("change_priority", t, p))
      BY <1>1 DEF UserChangePriority
    <2>2. p \in Priority /\ p \in Int
      BY KernelAssumption, PriorityInt
    <2> QED BY <2>1, <2>2, CreatedOK, UserCallIInv
  <1>2. CASE UserSuspend
    BY <1>2, CreatedOK, UserCallIInv DEF UserSuspend
  <1>3. CASE UserResume
    BY <1>3, CreatedOK, UserCallIInv DEF UserResume
  <1> QED BY <1>1, <1>2, <1>3

LEMMA SetPeriodIInv == ASSUME IInv, SetPeriod PROVE IInv'
  <1>1. Values'
    <2>1. PICK t \in User, n \in Nat : period' = [period EXCEPT ![t] = n]
                                       /\ wakeup' = [wakeup EXCEPT ![t] = tick]
      BY KernelAssumption DEF SetPeriod
    <2> QED BY <2>1, Constants DEF SetPeriod, IInv, Values, tcb, timer, sched
  <1>2. Pointers' /\ BitmapSound'
    BY QueuesKept DEF SetPeriod, IInv, Pointers, tcb, timer, sched, contexts
  <1>3. StackOK(cpu', HasContext, Labels) /\ Top.pc # "restore"
    BY DEF SetPeriod, IInv, Executing, At
  <1> QED BY <1>1, <1>2, <1>3, ContextsKept DEF SetPeriod, sched

LEMMA LockingIInv ==
  ASSUME IInv, LockScheduler \/ RestoreScheduler
  PROVE  IInv'
  <1>1. Top.pc = "user" /\ Labels = Label /\ "user" \in BottomLabel \cap Labels
        /\ "schedule" \in Labels
    BY InTaskCode, Constants
       DEF LockScheduler, RestoreScheduler, At, EarlyLabel, BottomLabel, KernelLabel
  <1>2. Values'
    BY DEF LockScheduler, RestoreScheduler, IInv, Values, tcb, periods, timer
  <1>3. Pointers' /\ BitmapSound'
    BY QueuesKept DEF LockScheduler, RestoreScheduler, IInv, Pointers, tcb, timer, contexts
  <1>4. StackOK(cpu', HasContext, Labels)
    <2>1. CASE LockScheduler
      BY <2>1 DEF LockScheduler, IInv, Executing
    <2>2. CASE RestoreScheduler
      BY <1>1, <2>2, NewFrameOK, BottomOK, CallOK DEF RestoreScheduler
    <2> QED BY <2>1, <2>2
  <1> QED BY <1>1, <1>2, <1>3, <1>4, ContextsKept DEF LockScheduler, RestoreScheduler

-----------------------------------------------------------------------------
(* Every step. *)

LEMMA StutterIInv == ASSUME IInv, UNCHANGED vars PROVE IInv'
  BY DEF vars, kernel, tcb, periods, queues, timer, sched, contexts, IInv, Values, Pointers,
         BitmapSound, Contexts, Executing, HasContext, Labels, At, Top

LEMMA NextIInv == IInv /\ [Next]_vars => IInv'
  <1> SUFFICES ASSUME IInv, [Next]_vars PROVE IInv'
    OBVIOUS
  <1>1. CASE Boot
    <2>1. CASE UserMain
      BY <2>1, CallCreateOK DEF UserMain
    <2> QED BY <1>1, <2>1, BootIdleIInv, StartIInv DEF Boot
  <1>2. CASE Create \/ BecomeReady
    BY <1>2, CreateIInv, BecomeReadyIInv
  <1>3. CASE ScheduleEntry \/ Requeue \/ MarkReady \/ SaveContext
    BY <1>3, ScheduleEntryIInv, RequeueIInv, MarkReadyIInv, SaveContextIInv
  <1>4. CASE Pick \/ Unqueue \/ Run \/ RestoreContext
    BY <1>4, PickIInv, UnqueueIInv, RunIInv, RestoreContextIInv
  <1>5. CASE FireAlarm \/ AlarmsDone \/ IrqReturn \/ Interrupt
    BY <1>5, FireAlarmIInv, AlarmsDoneIInv, IrqReturnIInv, InterruptIInv
  <1>6. CASE Sleep \/ SleepDiff \/ Arm \/ Doze
    BY <1>6, SleepIInv, SleepDiffIInv, ArmIInv, DozeIInv
  <1>7. CASE ChangePriority \/ Reinsert \/ SetPriority \/ Suspend \/ Suspended \/ Resume
    BY <1>7, ChangePriorityIInv, ReinsertIInv, SetPriorityIInv, SuspendIInv, SuspendedIInv,
       ResumeIInv
  <1>8. CASE UserStep
    <2>1. CASE Compute
      BY <2>1, StutterIInv DEF Compute
    <2>2. CASE UserCreate
      BY <2>2, CallCreateOK DEF UserCreate
    <2> QED BY <1>8, <2>1, <2>2, UserSleepIInv, UserTaskCallsIInv, SetPeriodIInv, LockingIInv
            DEF UserStep
  <1>9. CASE UNCHANGED vars
    BY <1>9, StutterIInv
  <1> QED BY <1>1, <1>2, <1>3, <1>4, <1>5, <1>6, <1>7, <1>8, <1>9
          DEF Next, KernelStep

LEMMA Invariance == Spec => []IInv
  <1> QED BY InitIInv, NextIInv, PTL DEF Spec

(* Every variable has its type at every step: in particular a priority,    *)
(* the only index the kernel computes with, stays inside the tables        *)
(* (task.c:55-225, scheduler.c:88-129), whatever a tick interrupts.        *)
THEOREM TypeCorrect == Spec => []TypeOK
  <1> QED BY Invariance, IInvImplies, PTL

(* The two levels of the bitmap agree at every step, in the middle of the  *)
(* kernel code as well, whatever a tick interrupts (scheduler.c:111-129).  *)
THEOREM BitmapIsConsistent == Spec => []BitmapConsistent
  <1> QED BY Invariance, IInvImplies, PTL

-----------------------------------------------------------------------------
(* Whose stacks they are.  QS maps each task to a set of stacks that are   *)
(* its own in some respect.                                                *)

CallLabel == KernelLabel \ (BottomLabel \cup {"restore"})
CallFrame == {f \in FrameType : f.pc \in CallLabel}

NewStack(t) == <<TaskFrame(IF t = Idle THEN "idle" ELSE "user", t, 0)>>

NoTaskLabel == {"restore", "boot", "user_main", "boot_end"}

(* Which the calls and returns do not change, but for eos_create_task.     *)
CallClosed(QS) ==
  /\ QS \in [Task -> SUBSET Seq(FrameType)]
  /\ \A t \in Task : \A s \in QS[t] :
       /\ s # <<>> /\ \A i \in 1 .. Len(s) : s[i].pc \notin NoTaskLabel
       /\ \A f \in CallFrame : f.pc # "create" => <<f>> \o s \in QS[t]
       /\ s[1].pc \in CallLabel \ {"create"} => Tail(s) \in QS[t]

CreateClosed(QS) ==
  \A t \in Task :
    /\ NewStack(t) \in QS[t]
    /\ \A s \in QS[t] :
         /\ \A f \in CallFrame : f.pc = "create" => <<f>> \o s \in QS[t]
         /\ s[1].pc = "create" => Tail(s) \in QS[t]

(* The part of eos_schedule after the context was saved: the current task  *)
(* is then still that of the saved context.                                *)
Switching == {"pick", "unqueue", "run"}
InSwitch(s) == \E i \in 1 .. Len(s) : s[i].pc \in Switching

StacksIn(QS) ==
  /\ \A t \in HasContext : t # current => ctx[t] \in QS[t]
  /\ current # NULL /\ At("restore") => Top.task = current /\ ctx[current] \in QS[current]
  /\ current # NULL /\ ~At("restore") =>
       /\ cpu \in QS[current]
       /\ InSwitch(cpu) => ctx[current] \in QS[current]
       /\ ResumeAtElr => elr \in QS[current]

LEMMA CpuStack ==
  ASSUME IInv
  PROVE  /\ cpu \in Seq(FrameType) /\ Len(cpu) \in Nat /\ Len(cpu) > 0
         /\ Tail(cpu) \in Seq(FrameType) /\ Len(Tail(cpu)) = Len(cpu) - 1
         /\ \A i \in 1 .. Len(cpu) - 1 : Tail(cpu)[i] = cpu[i + 1]
         /\ Top \in FrameType
  BY DEF IInv, Executing, StackOK, Top

LEMMA PushedStack ==
  ASSUME NEW s \in Seq(FrameType), NEW f \in FrameType, NEW r, r = <<f>> \o s
  PROVE  /\ r \in Seq(FrameType) /\ Len(r) = Len(s) + 1 /\ r[1] = f /\ Len(s) \in Nat
         /\ \A i \in 1 .. Len(r) : i # 1 => i - 1 \in 1 .. Len(s) /\ r[i] = s[i - 1]
  OBVIOUS

LEMMA PoppedStack ==
  ASSUME NEW s \in Seq(FrameType), s # <<>>, NEW r, r = Tail(s)
  PROVE  /\ r \in Seq(FrameType) /\ Len(s) = Len(r) + 1 /\ Len(r) \in Nat
         /\ \A i \in 1 .. Len(r) : i + 1 \in 1 .. Len(s) /\ r[i] = s[i + 1]
  OBVIOUS

(* Two frames on top of a stack. *)
LEMMA TwoPushed ==
  ASSUME NEW f \in FrameType, NEW g \in FrameType, NEW s \in Seq(FrameType)
  PROVE  <<f, g>> \o s = <<f>> \o (<<g>> \o s)
  <1> DEFINE a == <<g>> \o s
             b == <<f>> \o a
             c == <<f, g>> \o s
  <1>1. /\ a \in Seq(FrameType) /\ Len(a) = Len(s) + 1
        /\ \A i \in 1 .. Len(s) + 1 : a[i] = IF i = 1 THEN g ELSE s[i - 1]
    OBVIOUS
  <1>2. /\ c \in Seq(FrameType) /\ Len(c) = Len(s) + 2
        /\ \A i \in 1 .. Len(s) + 2 : c[i] = IF i = 1 THEN f ELSE IF i = 2 THEN g ELSE s[i - 2]
    OBVIOUS
  <1> HIDE DEF a, c
  <1>3. /\ b \in Seq(FrameType) /\ Len(b) = Len(a) + 1
        /\ \A i \in 1 .. Len(a) + 1 : b[i] = IF i = 1 THEN f ELSE a[i - 1]
    BY <1>1
  <1> HIDE DEF b
  <1>4. Len(b) = Len(c) /\ \A i \in 1 .. Len(b) : b[i] = c[i]
    <2>1. Len(s) \in Nat /\ Len(b) = Len(c)
      BY <1>1, <1>2, <1>3
    <2> SUFFICES ASSUME NEW i \in 1 .. Len(b) PROVE b[i] = c[i]
      BY <2>1
    <2>2. CASE i = 1
      BY <1>1, <1>2, <1>3, <2>1, <2>2
    <2>3. CASE i # 1
      <3>1. i - 1 \in 1 .. Len(s) + 1 /\ i \in 1 .. Len(s) + 2
        BY <1>1, <1>2, <1>3, <2>1, <2>3
      <3> QED BY <1>1, <1>2, <1>3, <2>1, <3>1, <2>3
    <2> QED BY <2>2, <2>3
  <1>5. b = c
    BY <1>2, <1>3, <1>4
  <1> QED BY <1>5 DEF a, b, c

LEMMA NewTop ==
  ASSUME IInv', NEW f, NEW s, cpu' = <<f>> \o s, s \in Seq(FrameType)
  PROVE  f \in FrameType /\ cpu'[1] = f
  <1>1. cpu' \in Seq(FrameType) /\ cpu' # <<>>
    BY DEF IInv, Executing, StackOK
  <1>2. cpu'[1] \in FrameType
    BY <1>1
  <1>3. cpu'[1] = f
    BY <1>1
  <1> QED BY <1>2, <1>3

LEMMA SwitchTail ==
  ASSUME IInv, InSwitch(Tail(cpu))
  PROVE  InSwitch(cpu)
  <1>1. PICK i \in 1 .. Len(cpu) - 1 : cpu[i + 1].pc \in Switching
    BY CpuStack DEF InSwitch
  <1>2. i + 1 \in 1 .. Len(cpu)
    BY <1>1, CpuStack
  <1> QED BY <1>1, <1>2 DEF InSwitch

LEMMA SwitchPush ==
  ASSUME NEW s \in Seq(FrameType), NEW f \in FrameType, InSwitch(<<f>> \o s)
  PROVE  f.pc \in Switching \/ InSwitch(s)
  <1> DEFINE r == <<f>> \o s
  <1>1. Len(r) = Len(s) + 1 /\ \A i \in 1 .. Len(s) + 1 : r[i] = IF i = 1 THEN f ELSE s[i - 1]
    OBVIOUS
  <1> HIDE DEF r
  <1>2. PICK i \in 1 .. Len(s) + 1 : r[i].pc \in Switching
    BY <1>1 DEF InSwitch, r
  <1>3. i # 1 => i - 1 \in 1 .. Len(s)
    OBVIOUS
  <1> QED BY <1>1, <1>2, <1>3 DEF InSwitch

(* A step that leaves the contexts and the current task alone.             *)
LEMMA OrdinaryMove ==
  ASSUME IInv, NEW QS, CallClosed(QS), StacksIn(QS), UNCHANGED <<current, contexts>>,
         current # NULL => /\ Top.pc # "restore" /\ cpu' \in QS[current]
                           /\ InSwitch(cpu') => InSwitch(cpu)
  PROVE  StacksIn(QS)'
  <1>1. HasContext' = HasContext /\ ctx' = ctx /\ elr' = elr /\ current' = current
    BY DEF HasContext, contexts
  <1>2. ASSUME current # NULL PROVE Top'.pc # "restore"
    <2>1. cpu' # <<>> /\ cpu' \in Seq(FrameType) /\ current \in Task
      BY <1>2 DEF CallClosed, IInv, Pointers, Pointer, HasContext
    <2>2. 1 \in 1 .. Len(cpu')
      BY <2>1
    <2> QED BY <1>2, <2>1, <2>2 DEF CallClosed, NoTaskLabel, Top
  <1> QED BY <1>1, <1>2 DEF StacksIn, At

LEMMA CurrentStack ==
  ASSUME IInv, NEW QS, CallClosed(QS), StacksIn(QS), current # NULL, Top.pc # "restore"
  PROVE  current \in Task /\ cpu \in QS[current] /\ Top.pc \notin NoTaskLabel
  <1>1. current \in Task /\ cpu \in QS[current]
    BY DEF StacksIn, At, IInv, Pointers, Pointer, HasContext
  <1>2. 1 \in 1 .. Len(cpu)
    BY CpuStack
  <1> QED BY <1>1, <1>2 DEF CallClosed, Top

LEMMA MoveNot ==
  ASSUME IInv, NEW QS, CallClosed(QS), StacksIn(QS), UNCHANGED <<current, contexts, cpu>>,
         Top.pc # "restore"
  PROVE  StacksIn(QS)'
  BY CurrentStack, OrdinaryMove

LEMMA MoveReturn ==
  ASSUME IInv, NEW QS, CallClosed(QS), StacksIn(QS), UNCHANGED <<current, contexts>>,
         Top.pc \in CallLabel \ {"create"}, Return
  PROVE  StacksIn(QS)'
  <1>1. Top.pc # "restore"
    BY DEF CallLabel
  <1>2. current # NULL => cpu' \in QS[current]
    BY <1>1, CurrentStack DEF CallClosed, Return, Top
  <1>3. InSwitch(cpu') => InSwitch(cpu)
    BY SwitchTail DEF Return
  <1> QED BY <1>1, <1>2, <1>3, OrdinaryMove

LEMMA MoveStep ==
  ASSUME IInv, IInv', NEW QS, CallClosed(QS), StacksIn(QS), UNCHANGED <<current, contexts>>,
         Top.pc \in CallLabel \ {"create"}, NEW f, Step(f), f.pc \in CallLabel \ {"create"},
         f.pc \in Switching => Top.pc \in Switching \/ current = NULL
  PROVE  StacksIn(QS)'
  <1>1. Top.pc # "restore"
    BY DEF CallLabel
  <1>2. f \in FrameType
    <2>1. Top' = f /\ Top' \in FrameType
      BY CpuStack DEF Step, Top, IInv, Executing, StackOK
    <2> QED BY <2>1
  <1>3. current # NULL => cpu' \in QS[current]
    BY <1>1, <1>2, CurrentStack DEF CallClosed, Step, Top, CallFrame
  <1>4. Top.pc \in Switching => InSwitch(cpu)
    BY CpuStack DEF InSwitch, Top
  <1>5. InSwitch(cpu') => f.pc \in Switching \/ InSwitch(cpu)
    BY <1>2, CpuStack, SwitchPush, SwitchTail DEF Step
  <1> QED BY <1>1, <1>3, <1>4, <1>5, OrdinaryMove

LEMMA MoveGoto ==
  ASSUME IInv, IInv', NEW QS, CallClosed(QS), StacksIn(QS), UNCHANGED <<current, contexts>>,
         Top.pc \in CallLabel \ {"create"}, NEW l \in CallLabel \ {"create"}, Goto(l),
         l \in Switching => Top.pc \in Switching \/ current = NULL
  PROVE  StacksIn(QS)'
  <1> DEFINE f == [Top EXCEPT !.pc = l]
  <1>1. Step(f) /\ f.pc = l
    BY CpuStack DEF Goto, FrameType
  <1> HIDE DEF f
  <1> QED BY <1>1, MoveStep

(* A call from a label of the kernel's code, and one of the application.   *)
LEMMA MovePush ==
  ASSUME IInv, IInv', NEW QS, CallClosed(QS), StacksIn(QS), UNCHANGED <<current, contexts>>,
         Top.pc # "restore", NEW f \in CallFrame, f.pc \notin Switching \cup {"create"}, cpu' = <<f>> \o cpu
  PROVE  StacksIn(QS)'
  <1>1. current # NULL => cpu' \in QS[current]
    BY CurrentStack DEF CallClosed
  <1>2. InSwitch(cpu') => InSwitch(cpu)
    BY CpuStack, SwitchPush DEF CallFrame
  <1> QED BY <1>1, <1>2, OrdinaryMove

LEMMA CallIsPush ==
  ASSUME IInv, IInv', NEW f, NEW l, Call(f, l)
  PROVE  /\ f \in FrameType /\ [Top EXCEPT !.pc = l] \in FrameType
         /\ cpu' = <<f>> \o (<<[Top EXCEPT !.pc = l]>> \o Tail(cpu))
         /\ l = Top.pc => cpu' = <<f>> \o cpu
  <1> DEFINE g == [Top EXCEPT !.pc = l]
             r == Tail(cpu)
  <1>0. l = Top.pc => g = Top
    BY CpuStack DEF FrameType
  <1>1. r \in Seq(FrameType) /\ cpu' = <<f, g>> \o r
    BY CpuStack DEF Call
  <1> HIDE DEF g, r
  <1>2. cpu' \in Seq(FrameType) /\ cpu'[1] = f /\ cpu'[2] = g /\ Len(cpu') = Len(r) + 2
    BY <1>1, CpuStack DEF IInv, Executing, StackOK
  <1>3. f \in FrameType /\ g \in FrameType
    BY <1>1, <1>2
  <1>4. cpu' = <<f>> \o (<<g>> \o r)
    BY <1>1, <1>3
  <1>5. <<Top>> \o r = cpu
    BY CpuStack DEF Top, r
  <1> QED BY <1>0, <1>3, <1>4, <1>5 DEF g, r

LEMMA MoveCall ==
  ASSUME IInv, IInv', NEW QS, CallClosed(QS), StacksIn(QS), UNCHANGED <<current, contexts>>,
         Top.pc \in CallLabel \ {"create"}, NEW l \in CallLabel \ (Switching \cup {"create"}), NEW f, Call(f, l),
         f.pc \in CallLabel \ (Switching \cup {"create"})
  PROVE  StacksIn(QS)'
  <1> DEFINE g == [Top EXCEPT !.pc = l]
             r == <<g>> \o Tail(cpu)
  <1>1. /\ f \in FrameType /\ g \in FrameType /\ cpu' = <<f>> \o r
        /\ Top.pc # "restore" /\ g.pc = l
    BY CallIsPush, CpuStack DEF CallLabel, FrameType
  <1> HIDE DEF g
  <1>2. current # NULL => r \in QS[current]
    BY <1>1, CurrentStack DEF CallClosed, Top, CallFrame
  <1>3. InSwitch(r) => InSwitch(cpu)
    BY <1>1, CpuStack, SwitchPush, SwitchTail
  <1>4. r \in Seq(FrameType)
    BY <1>1, CpuStack
  <1> HIDE DEF r
  <1>5. current # NULL => cpu' \in QS[current]
    BY <1>1, <1>2, CurrentStack DEF CallClosed, CallFrame
  <1>6. InSwitch(cpu') => InSwitch(cpu)
    BY <1>1, <1>3, <1>4, SwitchPush
  <1> QED BY <1>1, <1>5, <1>6, OrdinaryMove


-----------------------------------------------------------------------------
(* The kernel's steps and the application's keep the stacks.               *)

LEMMA MakesCalls ==
  ASSUME IInv, Top.pc \in EarlyLabel \ CallLabel, NEW QS, CallClosed(QS), StacksIn(QS)
  PROVE  current = NULL
  <1>1. Top.pc \in NoTaskLabel /\ Top.pc # "restore"
    BY DEF EarlyLabel, CallLabel, KernelLabel, BottomLabel, NoTaskLabel
  <1> QED BY <1>1, CurrentStack

LEMMA BootStacks ==
  ASSUME IInv, NEW QS, CallClosed(QS), StacksIn(QS), Boot
  PROVE  StacksIn(QS)'
  <1>1. Top.pc \in {"boot", "user_main"} /\ UNCHANGED <<current, contexts>>
    BY DEF Boot, BootIdle, UserMain, StartMultitasking, At, kernel, sched
  <1>2. current = NULL
    BY <1>1, MakesCalls DEF EarlyLabel, CallLabel, KernelLabel, BottomLabel
  <1> QED BY <1>1, <1>2, OrdinaryMove

(* eos_create_task: the new context is that of the task.                   *)
LEMMA CreateStacks ==
  ASSUME IInv, IInv', NEW QS, CallClosed(QS), CreateClosed(QS), StacksIn(QS), Create
  PROVE  StacksIn(QS)'
  <1> DEFINE t == Top.task
             f == [Top EXCEPT !.pc = "created"]
  <1>1. Top.pc = "create" /\ Top.pc \in CallLabel /\ t \in Task
    BY TopFrame DEF Create, At, CallLabel, KernelLabel, BottomLabel, FrameOK
  <1>2. ctx' = [ctx EXCEPT ![t] = NewStack(t)] /\ UNCHANGED <<current, elr>>
    BY DEF Create, NewStack, sched
  <1>3. NewStack(t) \in QS[t] /\ ctx \in [Task -> Seq(FrameType)]
    BY <1>1 DEF CreateClosed, IInv, Contexts
  <1>4. \A u \in HasContext' : u # current => ctx'[u] \in QS[u]
    BY <1>1, <1>2, <1>3 DEF StacksIn, HasContext
  <1>5. Step(f) /\ f.pc = "created" /\ f \in FrameType
    BY CpuStack, Constants DEF Create, Goto, FrameType, KernelLabel
  <1> HIDE DEF f
  <1>6. f \in CallFrame /\ Top' = f
    <2>1. Top' = f
      BY <1>5 DEF Step, Top
    <2> QED BY <1>5, <2>1 DEF CallFrame, CallLabel, KernelLabel, BottomLabel
  <1>7. ASSUME current # NULL
        PROVE  /\ cpu' \in QS[current]
               /\ InSwitch(cpu') => ctx'[current] \in QS[current]
               /\ ResumeAtElr => elr' \in QS[current]
    <2>1. current \in Task /\ cpu \in QS[current] /\ ~At("restore")
      BY <1>1, <1>7, CurrentStack DEF At
    <2>2. Tail(cpu) \in QS[current]
      BY <1>1, <2>1 DEF CreateClosed, Top
    <2>3. cpu' \in QS[current]
      BY <1>5, <1>6, <2>1, <2>2 DEF CallClosed, Step
    <2>4. InSwitch(cpu') => InSwitch(cpu)
      BY <1>5, <1>6, CpuStack, SwitchPush, SwitchTail DEF Step, Switching
    <2>5. InSwitch(cpu) => ctx[current] \in QS[current]
      BY <1>7, <2>1 DEF StacksIn
    <2> QED BY <1>2, <1>3, <1>7, <2>1, <2>3, <2>4, <2>5 DEF StacksIn
  <1>8. ~At("restore")'
    BY <1>5, <1>6 DEF At
  <1> QED BY <1>2, <1>4, <1>7, <1>8 DEF StacksIn

(* _os_save_context: what is saved is the current task's.                  *)
LEMMA SaveStacks ==
  ASSUME IInv, IInv', NEW QS, CallClosed(QS), StacksIn(QS), SaveContext
  PROVE  StacksIn(QS)'
  <1> DEFINE f == [Top EXCEPT !.pc = "pick"]
             c == IF ResumeAtElr THEN elr ELSE Tail(cpu)
  <1>1. Top.pc = "save" /\ Top.pc \in CallLabel /\ ~At("restore") /\ Top.pc # "restore"
    BY DEF SaveContext, At, CallLabel, KernelLabel, BottomLabel
  <1>2. current # NULL
    BY <1>1, TopFrame, Constants DEF EarlyLabel, HasContext
  <1>3. current \in Task /\ cpu \in QS[current] /\ Tail(cpu) \in QS[current]
    BY <1>1, <1>2, CurrentStack DEF CallClosed, Top
  <1>4. c \in QS[current]
    BY <1>1, <1>2, <1>3 DEF StacksIn
  <1>5. ctx' = [ctx EXCEPT ![current] = c] /\ UNCHANGED <<current, elr>>
    BY DEF SaveContext, sched
  <1> HIDE DEF c
  <1>6. Step(f) /\ f.pc = "pick" /\ f \in FrameType /\ Top' = f
    <2>1. f.pc = "pick" /\ f \in FrameType
      BY CpuStack, Constants DEF FrameType, KernelLabel
    <2>2. Step(f)
      BY DEF SaveContext, Goto
    <2> HIDE DEF f
    <2>3. Top' = f
      BY <2>2 DEF Step, Top
    <2> QED BY <2>1, <2>2, <2>3
  <1> HIDE DEF f
  <1>7. f \in CallFrame
    BY <1>6 DEF CallFrame, CallLabel, KernelLabel, BottomLabel
  <1>8. cpu' \in QS[current] /\ ~At("restore")'
    BY <1>3, <1>6, <1>7 DEF CallClosed, Step, At
  <1>9. ctx \in [Task -> Seq(FrameType)]
    BY DEF IInv, Contexts
  <1>10. \A u \in HasContext' : u # current => u \in HasContext /\ ctx'[u] = ctx[u]
    BY <1>5, <1>9 DEF HasContext
  <1>11. ctx'[current] \in QS[current]
    BY <1>3, <1>4, <1>5, <1>9
  <1> QED BY <1>1, <1>2, <1>5, <1>8, <1>10, <1>11 DEF StacksIn

(* From one current task to the next: the context of each is its own.      *)
LEMMA RunStacks ==
  ASSUME IInv, NEW QS, CallClosed(QS), StacksIn(QS), Run
  PROVE  StacksIn(QS)'
  <1> DEFINE f == [Top EXCEPT !.pc = "restore"]
  <1>1. Top.pc = "run" /\ Top.pc # "restore" /\ ~At("restore")
    BY DEF Run, At
  <1>2. Top.task \in HasContext
    BY <1>1, TopFrame DEF FrameOK
  <1>3. Top' = f /\ f.pc = "restore" /\ f.task = Top.task
    BY CpuStack DEF Run, Goto, Step, Top, FrameType
  <1>4. InSwitch(cpu)
    BY <1>1, CpuStack DEF InSwitch, Switching, Top
  <1>5. \A t \in HasContext : ctx[t] \in QS[t]
    BY <1>1, <1>4, Constants DEF StacksIn, HasContext
  <1>6. current' = Top.task /\ ctx' = ctx /\ HasContext' = HasContext
    BY DEF Run, contexts, HasContext
  <1> QED BY <1>2, <1>3, <1>5, <1>6 DEF StacksIn, At

LEMMA RestoreStacks ==
  ASSUME IInv, NEW QS, CallClosed(QS), StacksIn(QS), RestoreContext
  PROVE  StacksIn(QS)'
  <1>1. Top.pc = "restore" /\ At("restore")
    BY DEF RestoreContext, At
  <1>2. current # NULL /\ current \in Task
    BY <1>1, TopFrame, Constants DEF EarlyLabel, HasContext
  <1>3. Top.task = current /\ ctx[current] \in QS[current]
    BY <1>1, <1>2 DEF StacksIn
  <1>4. /\ cpu' = ctx[current] /\ current' = current /\ ctx' = ctx
        /\ HasContext' = HasContext /\ (ResumeAtElr => elr' = ctx[current])
    BY <1>3 DEF RestoreContext, sched, HasContext
  <1>5. cpu' \in QS[current] /\ ~At("restore")'
    <2>1. ctx[current] \in Seq(FrameType) /\ ctx[current] # <<>>
      BY <1>2, <1>3 DEF CallClosed
    <2>2. 1 \in 1 .. Len(ctx[current])
      BY <2>1
    <2> QED BY <1>2, <1>3, <1>4, <2>2 DEF CallClosed, At, Top, NoTaskLabel
  <1> QED BY <1>2, <1>3, <1>4, <1>5 DEF StacksIn

(* The tick stores what it interrupts as the current task's, and so it is, *)
(* unless it comes between the assignment of _os_current_task and the      *)
(* restoring of its context.                                               *)
LEMMA InterruptStacks ==
  ASSUME IInv, NEW QS, CallClosed(QS), StacksIn(QS), Interrupt, "restore" \notin IrqPoints
  PROVE  StacksIn(QS)'
  <1> DEFINE f == Frame("trigger")
  <1>1. Top.pc # "restore" /\ ~At("restore")
    BY DEF Interrupt, At
  <1>2. cpu' = <<f>> \o cpu /\ current' = current
    BY DEF Interrupt, sched
  <1>3. f \in CallFrame /\ f.pc = "trigger"
    BY Constants
    DEF CallFrame, CallLabel, KernelLabel, BottomLabel, Frame, TaskFrame, FrameType
  <1> HIDE DEF f
  <1>4. ~At("restore")'
    BY <1>2, <1>3 DEF At, Top
  <1>5. ctx \in [Task -> Seq(FrameType)]
    BY DEF IInv, Contexts
  <1>6. CASE current = NULL
    BY <1>2, <1>6 DEF Interrupt, StacksIn, HasContext
  <1>7. CASE current # NULL
    <2>1. current \in Task /\ cpu \in QS[current]
      BY <1>1, <1>7, CurrentStack
    <2>2. ctx' = [ctx EXCEPT ![current] = cpu] /\ elr' = IF ResumeAtElr THEN cpu ELSE elr
      BY <1>7 DEF Interrupt
    <2>3. cpu' \in QS[current]
      BY <1>2, <1>3, <2>1 DEF CallClosed
    <2>4. \A u \in HasContext' : u # current => u \in HasContext /\ ctx'[u] = ctx[u]
      BY <1>5, <2>2 DEF HasContext
    <2> QED BY <1>2, <1>4, <1>5, <1>7, <2>1, <2>2, <2>3, <2>4 DEF StacksIn
  <1> QED BY <1>6, <1>7

LEMMA ScheduleStacks ==
  ASSUME IInv, IInv', NEW QS, CallClosed(QS), StacksIn(QS),
         BecomeReady \/ ScheduleEntry \/ Requeue \/ MarkReady \/ Pick \/ Unqueue
  PROVE  StacksIn(QS)'
  <1> USE DEF At, CallLabel, KernelLabel, BottomLabel, Switching
  <1>1. CASE BecomeReady
    BY <1>1, MoveStep DEF BecomeReady, Schedule, Frame, TaskFrame, sched
  <1>2. CASE ScheduleEntry
    <2>1. Top.pc = "schedule" /\ UNCHANGED <<current, contexts>>
      BY <1>2 DEF ScheduleEntry, kernel, sched
    <2>2. Return \/ (current = NULL /\ Goto("pick")) \/ Goto("requeue") \/ Goto("save")
      BY <1>2 DEF ScheduleEntry
    <2>3. CASE Return
      BY <2>1, <2>3, MoveReturn
    <2>4. CASE ~Return
      BY <2>1, <2>2, <2>4, MoveGoto
    <2> QED BY <2>3, <2>4
  <1>3. CASE Requeue \/ MarkReady
    BY <1>3, MoveGoto DEF Requeue, MarkReady, sched
  <1>4. CASE Pick
    BY <1>4, MoveStep DEF Pick, TaskFrame, kernel, sched
  <1>5. CASE Unqueue
    BY <1>5, MoveGoto DEF Unqueue, sched
  <1> QED BY <1>1, <1>2, <1>3, <1>4, <1>5

LEMMA TickStacks ==
  ASSUME IInv, IInv', NEW QS, CallClosed(QS), StacksIn(QS), FireAlarm \/ AlarmsDone \/ IrqReturn
  PROVE  StacksIn(QS)'
  <1> USE DEF At, CallLabel, KernelLabel, BottomLabel, Switching
  <1>1. CASE FireAlarm
    BY <1>1, MoveNot DEF FireAlarm, sched
  <1>2. CASE AlarmsDone
    BY <1>2, MoveCall DEF AlarmsDone, Frame, TaskFrame, kernel, sched
  <1>3. CASE IrqReturn
    BY <1>3, MoveReturn DEF IrqReturn, kernel, sched
  <1> QED BY <1>1, <1>2, <1>3

LEMMA CallStacks ==
  ASSUME IInv, IInv', NEW QS, CallClosed(QS), StacksIn(QS),
         \/ Sleep \/ SleepDiff \/ Arm \/ Doze \/ ChangePriority \/ Reinsert \/ SetPriority
         \/ Suspend \/ Suspended \/ Resume
  PROVE  StacksIn(QS)'
  <1> USE DEF At, CallLabel, KernelLabel, BottomLabel, Switching
  <1>1. CASE Sleep
    <2>1. Top.pc = "sleep" /\ UNCHANGED <<current, contexts>>
      BY <1>1 DEF Sleep, sched
    <2>2. Return \/ Goto("arm") \/ Goto("sleep_diff")
      BY <1>1 DEF Sleep
    <2> QED BY <2>1, <2>2, MoveReturn, MoveGoto
  <1>2. CASE SleepDiff
    <2> DEFINE f == [Top EXCEPT !.pc = "arm", !.num = (wakeup[current] - tick) % WORD]
    <2>1. Step(f) /\ f.pc = "arm"
      BY <1>2, CpuStack DEF SleepDiff, FrameType
    <2> HIDE DEF f
    <2> QED BY <1>2, <2>1, MoveStep DEF SleepDiff, kernel, sched
  <1>3. CASE Arm
    BY <1>3, MoveGoto DEF Arm, sched
  <1>4. CASE Doze \/ SetPriority
    BY <1>4, MoveStep DEF Doze, SetPriority, Schedule, Frame, TaskFrame, sched
  <1>5. CASE ChangePriority
    <2>1. Goto("reinsert") \/ Goto("set_priority")
      BY <1>5 DEF ChangePriority
    <2> QED BY <1>5, <2>1, MoveGoto DEF ChangePriority, sched
  <1>6. CASE Reinsert
    BY <1>6, MoveGoto DEF Reinsert, sched
  <1>7. CASE Suspend
    <2>1. Goto("suspended") \/ Return
      BY <1>7 DEF Suspend
    <2> QED BY <1>7, <2>1, MoveGoto, MoveReturn DEF Suspend, sched
  <1>8. CASE Suspended
    BY <1>8, MoveReturn DEF Suspended, sched
  <1>9. CASE Resume
    <2>1. Goto("resumed") \/ Return
      BY <1>9 DEF Resume
    <2> QED BY <1>9, <2>1, MoveGoto, MoveReturn DEF Resume, sched
  <1> QED BY <1>1, <1>2, <1>3, <1>4, <1>5, <1>6, <1>7, <1>8, <1>9

LEMMA WaitStacks ==
  ASSUME IInv, IInv', NEW QS, CallClosed(QS), StacksIn(QS),
         WaitInQueue \/ Waiting \/ Wakeup \/ MakeReady
  PROVE  StacksIn(QS)'
  <1> USE DEF At, CallLabel, KernelLabel, BottomLabel, Switching
  <1>1. CASE WaitInQueue
    BY <1>1, MoveGoto DEF WaitInQueue, sched
  <1>2. CASE Waiting
    BY <1>2, MoveStep DEF Waiting, Schedule, Frame, TaskFrame, sched
  <1>3. CASE Wakeup
    <2> DEFINE f == [Top EXCEPT !.pc = "make_ready", !.task = waitq[Top.queue]]
    <2>1. Return \/ Step(f)
      BY <1>3 DEF Wakeup
    <2>2. f.pc = "make_ready"
      BY CpuStack DEF FrameType
    <2>3. UNCHANGED <<current, contexts>> /\ Top.pc = "wakeup"
      BY <1>3 DEF Wakeup, sched
    <2> HIDE DEF f
    <2> QED BY <2>1, <2>2, <2>3, MoveStep, MoveReturn
  <1>4. CASE MakeReady
    BY <1>4, MoveGoto DEF MakeReady, sched
  <1> QED BY <1>1, <1>2, <1>3, <1>4

(* The application calls eos_create_task. *)
LEMMA UserCreateStacks ==
  ASSUME IInv, IInv', NEW QS, CallClosed(QS), CreateClosed(QS), StacksIn(QS), UserCreate
  PROVE  StacksIn(QS)'
  <1>1. Top.pc = "user" /\ UNCHANGED <<current, contexts>>
    BY DEF UserCreate, At, kernel, sched
  <1>2. PICK t \in User : \E p \in CreatePriority[t] : Call(TaskFrame("create", t, p), "user")
    BY DEF UserCreate, CallCreate
  <1>3. PICK f \in CallFrame : f.pc = "create" /\ cpu' = <<f>> \o cpu
    <2>1. PICK p : Call(TaskFrame("create", t, p), "user")
      BY <1>2
    <2> DEFINE f == TaskFrame("create", t, p)
    <2>2. f \in FrameType /\ cpu' = <<f>> \o cpu
      BY <1>1, <2>1, CallIsPush
    <2> QED BY <2>2 DEF CallFrame, CallLabel, KernelLabel, BottomLabel, TaskFrame
  <1>4. current # NULL => cpu' \in QS[current]
    BY <1>1, <1>3, CurrentStack DEF CreateClosed
  <1>5. InSwitch(cpu') => InSwitch(cpu)
    BY <1>3, CpuStack, SwitchPush DEF CallFrame, Switching
  <1> QED BY <1>1, <1>4, <1>5, OrdinaryMove

(* Any other call of the application. *)
LEMMA AppCallStacks ==
  ASSUME IInv, IInv', NEW QS, CallClosed(QS), StacksIn(QS), UNCHANGED <<current, contexts>>,
         NEW f, At("user"), Call(f, "user"), f.pc \in CallLabel \ (Switching \cup {"create"})
  PROVE  StacksIn(QS)'
  <1>1. f \in FrameType /\ cpu' = <<f>> \o cpu
    BY CallIsPush DEF At
  <1> QED BY <1>1, MovePush DEF At, CallFrame

LEMMA UserStacks ==
  ASSUME IInv, IInv', NEW QS, CallClosed(QS), StacksIn(QS), UserStep, ~UserCreate
  PROVE  StacksIn(QS)'
  <1> USE DEF CallLabel, KernelLabel, BottomLabel, Switching
  <1>1. CASE Compute \/ LockScheduler \/ SetPeriod
    BY <1>1, MoveNot DEF Compute, LockScheduler, SetPeriod, At, vars, kernel, sched
  <1>2. CASE RestoreScheduler
    BY <1>2, AppCallStacks DEF RestoreScheduler, Frame, TaskFrame
  <1>4. ASSUME NEW l \in {"sleep", "change_priority", "suspend", "resume"}, NEW t, NEW n,
               UserCall(l, TaskFrame(l, t, n))
        PROVE  StacksIn(QS)'
    BY <1>4, AppCallStacks DEF UserCall, TaskFrame, kernel, sched
  <1>5. CASE UserSleep \/ UserChangePriority \/ UserSuspend \/ UserResume
    BY <1>4, <1>5 DEF UserSleep, UserChangePriority, UserSuspend, UserResume
  <1> QED BY <1>1, <1>2, <1>5 DEF UserStep

(* Every step of the kernel, and a stutter.                                *)
LEMMA KernelStacksBut ==
  ASSUME IInv, IInv', "restore" \notin IrqPoints, NEW QS, CallClosed(QS), StacksIn(QS),
         Next \/ WaitInQueue \/ Waiting \/ Wakeup \/ MakeReady \/ UNCHANGED vars,
         ~Create, ~UserCreate
  PROVE  StacksIn(QS)'
  <1>1. CASE UNCHANGED vars
    BY <1>1 DEF vars, kernel, sched, contexts, StacksIn, At, Top, HasContext
  <1>2. CASE Next
    BY <1>2, BootStacks, ScheduleStacks, SaveStacks, RunStacks, RestoreStacks,
       TickStacks, CallStacks, UserStacks, InterruptStacks DEF Next, KernelStep
  <1> QED BY <1>1, <1>2, WaitStacks

LEMMA KernelStacks ==
  ASSUME IInv, IInv', "restore" \notin IrqPoints, NEW QS, CallClosed(QS), CreateClosed(QS),
         StacksIn(QS), Next \/ WaitInQueue \/ Waiting \/ Wakeup \/ MakeReady \/ UNCHANGED vars
  PROVE  StacksIn(QS)'
  BY KernelStacksBut, CreateStacks, UserCreateStacks

-----------------------------------------------------------------------------
(* A stack that belongs to a task: at the bottom its code, which never     *)
(* returns, then calls of the modules on top of the kernel, then of the    *)
(* kernel's.                                                               *)

Belongs(t) ==
  {s \in Seq(FrameType) :
     /\ s # <<>> /\ s[Len(s)].pc \in {"user", "idle"} /\ s[Len(s)].task = t
     /\ \A i \in 1 .. Len(s) - 1 : s[i].pc \notin BottomLabel \cup {"restore"}
     /\ \A i, j \in 1 .. Len(s) : i < j /\ s[j].pc \in CallLabel => s[i].pc \in CallLabel}

OwnStacks == [t \in Task |-> Belongs(t)]

LEMMA PushBelongs ==
  ASSUME NEW t \in Task, NEW s \in Belongs(t), NEW f \in FrameType,
         f.pc \notin BottomLabel \cup {"restore"}, f.pc \in CallLabel \/ s[1].pc \notin CallLabel
  PROVE  <<f>> \o s \in Belongs(t)
  <1> DEFINE r == <<f>> \o s
  <1>1. s \in Seq(FrameType) /\ Len(s) \in Nat /\ Len(s) > 0
    BY DEF Belongs
  <1>2. /\ r \in Seq(FrameType) /\ Len(r) = Len(s) + 1 /\ r # <<>>
        /\ \A i \in 1 .. Len(s) + 1 : r[i] = IF i = 1 THEN f ELSE s[i - 1]
    BY <1>1
  <1> HIDE DEF r
  <1>3. r[Len(r)] = s[Len(s)]
    BY <1>1, <1>2
  <1>4. ASSUME NEW i \in 1 .. Len(r) - 1 PROVE r[i].pc \notin BottomLabel \cup {"restore"}
    BY <1>1, <1>2, <1>4 DEF Belongs
  <1>5. ASSUME NEW i \in 1 .. Len(r), NEW j \in 1 .. Len(r), i < j, r[j].pc \in CallLabel
        PROVE  r[i].pc \in CallLabel
    <2>1. j - 1 \in 1 .. Len(s) /\ s[j - 1].pc \in CallLabel
      BY <1>1, <1>2, <1>5
    <2>2. CASE i = 1
      <3>1. s[1].pc \in CallLabel
        BY <1>1, <2>1 DEF Belongs
      <3> QED BY <1>1, <1>2, <2>2, <3>1
    <2>3. CASE i # 1
      <3>1. i - 1 \in 1 .. Len(s) /\ i - 1 < j - 1 /\ r[i] = s[i - 1]
        BY <1>1, <1>2, <1>5, <2>3
      <3> QED BY <2>1, <3>1 DEF Belongs
    <2> QED BY <2>2, <2>3
  <1>6. r \in Belongs(t)
    BY <1>2, <1>3, <1>4, <1>5 DEF Belongs
  <1> QED BY <1>6 DEF r

LEMMA TailBelongs ==
  ASSUME NEW t \in Task, NEW s \in Belongs(t), s[1].pc \notin {"user", "idle"}
  PROVE  Tail(s) \in Belongs(t)
  <1> DEFINE r == Tail(s)
  <1>1. s \in Seq(FrameType) /\ Len(s) \in Nat /\ Len(s) > 1
    BY DEF Belongs
  <1>2. /\ r \in Seq(FrameType) /\ Len(r) = Len(s) - 1
        /\ \A i \in 1 .. Len(s) - 1 : r[i] = s[i + 1]
    BY <1>1
  <1> HIDE DEF r
  <1>3. r # <<>> /\ r[Len(r)] = s[Len(s)]
    BY <1>1, <1>2
  <1>4. \A i \in 1 .. Len(r) - 1 : r[i].pc \notin BottomLabel \cup {"restore"}
    BY <1>1, <1>2 DEF Belongs
  <1>5. ASSUME NEW i \in 1 .. Len(r), NEW j \in 1 .. Len(r), i < j, r[j].pc \in CallLabel
        PROVE  r[i].pc \in CallLabel
    <2>1. /\ i + 1 \in 1 .. Len(s) /\ j + 1 \in 1 .. Len(s) /\ i + 1 < j + 1
          /\ r[i] = s[i + 1] /\ r[j] = s[j + 1]
      BY <1>1, <1>2, <1>5
    <2> QED BY <1>5, <2>1 DEF Belongs
  <1>6. r \in Belongs(t)
    BY <1>2, <1>3, <1>4, <1>5 DEF Belongs
  <1> QED BY <1>6 DEF r

LEMMA NewBelongs ==
  ASSUME NEW t \in Task
  PROVE  NewStack(t) \in Belongs(t)
  <1> DEFINE f == TaskFrame(IF t = Idle THEN "idle" ELSE "user", t, 0)
  <1>1. f \in FrameType /\ f.pc \in {"user", "idle"} /\ f.task = t
    BY Constants DEF TaskFrame, FrameType, KernelLabel
  <1>2. NewStack(t) = <<f>>
    BY DEF NewStack
  <1> HIDE DEF f
  <1> DEFINE s == <<f>>
  <1>3. s \in Seq(FrameType) /\ Len(s) = 1 /\ s[1] = f /\ s # <<>>
    BY <1>1
  <1> HIDE DEF s
  <1>4. \A i, j \in 1 .. Len(s) : ~(i < j)
    BY <1>3
  <1>5. \A i \in 1 .. Len(s) - 1 : FALSE
    BY <1>3
  <1>6. s \in Belongs(t)
    BY <1>1, <1>3, <1>4, <1>5 DEF Belongs
  <1> QED BY <1>2, <1>6 DEF s

(* What else is known of a stack that belongs to a task.                   *)
LEMMA BelongsFacts ==
  ASSUME NEW t \in Task, NEW s \in Belongs(t)
  PROVE  /\ s \in Seq(FrameType) /\ Len(s) \in Nat /\ Len(s) > 0 /\ s # <<>>
         /\ \A i \in 1 .. Len(s) : s[i].pc \notin NoTaskLabel
         /\ s[1].pc \in BottomLabel => Len(s) = 1 /\ s[1].task = t
         /\ s[1].pc \notin CallLabel => ~InSwitch(s)
  <1>1. s \in Seq(FrameType) /\ Len(s) \in Nat /\ Len(s) > 0 /\ s # <<>>
    BY DEF Belongs
  <1>2. ASSUME NEW i \in 1 .. Len(s) PROVE s[i].pc \notin NoTaskLabel
    <2>1. CASE i = Len(s)
      BY <2>1 DEF Belongs, NoTaskLabel
    <2>2. CASE i # Len(s)
      <3>1. i \in 1 .. Len(s) - 1
        BY <1>1, <2>2
      <3> QED BY <3>1 DEF Belongs, NoTaskLabel, BottomLabel
    <2> QED BY <2>1, <2>2
  <1>3. ASSUME s[1].pc \in BottomLabel PROVE Len(s) = 1 /\ s[1].task = t
    <2>1. 1 \notin 1 .. Len(s) - 1
      BY <1>3 DEF Belongs
    <2>2. \A n \in Nat : n > 0 /\ 1 \notin 1 .. n - 1 => n = 1
      OBVIOUS
    <2>3. Len(s) = 1
      BY <1>1, <2>1, <2>2
    <2> QED BY <2>3 DEF Belongs
  <1>4. ASSUME InSwitch(s) PROVE s[1].pc \in CallLabel
    <2>1. PICK i \in 1 .. Len(s) : s[i].pc \in Switching
      BY <1>4 DEF InSwitch
    <2>2. s[i].pc \in CallLabel
      BY <2>1 DEF Switching, CallLabel, KernelLabel, BottomLabel
    <2> QED BY <1>1, <2>1, <2>2 DEF Belongs
  <1> QED BY <1>1, <1>2, <1>3, <1>4

LEMMA OwnClosed == CallClosed(OwnStacks) /\ CreateClosed(OwnStacks)
  <1>1. OwnStacks \in [Task -> SUBSET Seq(FrameType)]
    BY DEF OwnStacks, Belongs
  <1>2. ASSUME NEW t \in Task, NEW s \in OwnStacks[t]
        PROVE  /\ s # <<>> /\ \A i \in 1 .. Len(s) : s[i].pc \notin NoTaskLabel
               /\ \A f \in CallFrame : <<f>> \o s \in OwnStacks[t]
               /\ s[1].pc \in CallLabel => Tail(s) \in OwnStacks[t]
    <2>1. s \in Belongs(t) /\ OwnStacks[t] = Belongs(t)
      BY DEF OwnStacks
    <2>2. \A f \in CallFrame : <<f>> \o s \in Belongs(t)
      BY <2>1, PushBelongs DEF CallFrame, CallLabel
    <2>3. s[1].pc \in CallLabel => Tail(s) \in Belongs(t)
      BY <2>1, TailBelongs DEF CallLabel, BottomLabel
    <2> QED BY <2>1, <2>2, <2>3, BelongsFacts
  <1>3. \A t \in Task : NewStack(t) \in OwnStacks[t]
    BY NewBelongs DEF OwnStacks
  <1> QED BY <1>1, <1>2, <1>3 DEF CallClosed, CreateClosed, CallLabel, KernelLabel, BottomLabel

LEMMA InitStacks ==
  ASSUME Init, NEW QS
  PROVE  StacksIn(QS)
  BY DEF Init, StacksIn, HasContext

LEMMA StacksInvariance ==
  ASSUME "restore" \notin IrqPoints
  PROVE  Spec => [](IInv /\ StacksIn(OwnStacks))
  <1>1. Init => IInv /\ StacksIn(OwnStacks)
    BY InitIInv, InitStacks
  <1>2. IInv /\ StacksIn(OwnStacks) /\ [Next]_vars => (IInv /\ StacksIn(OwnStacks))'
    <2> SUFFICES ASSUME IInv, StacksIn(OwnStacks), [Next]_vars
                 PROVE  IInv' /\ StacksIn(OwnStacks)'
      OBVIOUS
    <2>1. IInv'
      BY NextIInv
    <2>2. PICK Q : Q = OwnStacks
      OBVIOUS
    <2>3. CallClosed(Q) /\ CreateClosed(Q) /\ StacksIn(Q)
      BY <2>2, OwnClosed
    <2>4. StacksIn(Q)'
      BY <2>1, <2>3, KernelStacks
    <2> QED BY <2>1, <2>2, <2>4
  <1> QED BY <1>1, <1>2, PTL DEF Spec

(* The code that runs is the current task's, and the saved context of      *)
(* every other is its own, wherever the tick interrupts the kernel but for *)
(* one instruction: between the assignment of _os_current_task and the     *)
(* restoring of its context (task.c:131-135) the tick handler would store  *)
(* the one task's stack as the other's.  It holds of the context that the  *)
(* HAL saves (context_asm.S:9-42) as of that which its contract says.      *)
THEOREM ContextsStayTheirs ==
  ASSUME "restore" \notin IrqPoints
  PROVE  Spec => []ContextsBelong
  <1>1. IInv /\ StacksIn(OwnStacks) => ContextsBelong
    <2> SUFFICES ASSUME IInv, StacksIn(OwnStacks), Top.pc \in {"user", "idle"}
                 PROVE  /\ Top.task = current
                        /\ \A t \in Task \ {current} :
                             Created(t) => ctx[t] # <<>> /\ ctx[t][Len(ctx[t])].task = t
      BY DEF ContextsBelong, InTask
    <2>1. current # NULL
      BY TopFrame, Constants DEF EarlyLabel, HasContext
    <2>2. current \in Task /\ cpu \in Belongs(current)
      BY <2>1, CurrentStack, OwnClosed DEF OwnStacks
    <2>3. Top.task = current
      BY <2>2, BelongsFacts DEF Top, BottomLabel
    <2>4. ASSUME NEW t \in Task \ {current}, Created(t)
          PROVE  ctx[t] # <<>> /\ ctx[t][Len(ctx[t])].task = t
      <3>1. t \in HasContext
        BY <2>4 DEF Created, IInv, Pointers
      <3>2. ctx[t] \in Belongs(t)
        BY <3>1 DEF StacksIn, OwnStacks
      <3> QED BY <3>2 DEF Belongs
    <2> QED BY <2>3, <2>4
  <1> QED BY <1>1, StacksInvariance, PTL

-----------------------------------------------------------------------------
(* The stacks, once more: which labels are on them besides the top.        *)

Holding(s, L) == \E i \in 1 .. Len(s) : s[i].pc \in L

LEMMA HoldingPush ==
  ASSUME NEW s \in Seq(FrameType), NEW f \in FrameType, NEW r, r = <<f>> \o s
  PROVE  /\ r \in Seq(FrameType) /\ r[1] = f /\ Tail(r) = s
         /\ \A L : Holding(r, L) <=> f.pc \in L \/ Holding(s, L)
  <1>1. /\ r \in Seq(FrameType) /\ Len(r) = Len(s) + 1 /\ r[1] = f /\ Len(s) \in Nat
        /\ \A i \in 1 .. Len(r) : i # 1 => i - 1 \in 1 .. Len(s) /\ r[i] = s[i - 1]
    BY PushedStack
  <1>2. 1 \in 1 .. Len(r)
    BY <1>1
  <1>3. ASSUME NEW j \in 1 .. Len(s) PROVE j + 1 \in 1 .. Len(r) /\ r[j + 1] = s[j]
    <2>1. j + 1 \in 1 .. Len(r) /\ j + 1 # 1 /\ j + 1 - 1 = j
      BY <1>1
    <2> QED BY <1>1, <2>1
  <1>4. \A L : Holding(r, L) <=> f.pc \in L \/ Holding(s, L)
    BY <1>1, <1>2, <1>3 DEF Holding
  <1>5. Tail(r) = s
    OBVIOUS
  <1> QED BY <1>1, <1>4, <1>5

LEMMA HoldingSplit ==
  ASSUME NEW s \in Seq(FrameType), s # <<>>
  PROVE  /\ Tail(s) \in Seq(FrameType) /\ s[1] \in FrameType /\ s = <<s[1]>> \o Tail(s)
         /\ \A L : Holding(s, L) <=> s[1].pc \in L \/ Holding(Tail(s), L)
  <1>1. PICK f, r : f = s[1] /\ r = Tail(s)
    OBVIOUS
  <1>2. s = <<f>> \o r /\ f \in FrameType /\ r \in Seq(FrameType)
    BY <1>1
  <1>3. \A L : Holding(s, L) <=> f.pc \in L \/ Holding(r, L)
    BY <1>2, HoldingPush
  <1> QED BY <1>1, <1>2, <1>3

LEMMA HoldingCpu ==
  ASSUME IInv
  PROVE  /\ Tail(cpu) \in Seq(FrameType) /\ Top \in FrameType /\ cpu = <<Top>> \o Tail(cpu)
         /\ \A L : Holding(cpu, L) <=> Top.pc \in L \/ Holding(Tail(cpu), L)
  BY HoldingSplit DEF IInv, Executing, StackOK, Top

(* The labels that a call goes on at. *)
ReturnLabel == {"user_main", "boot_end", "user", "irq_return"}

(* A step that calls and returns, with a frame at one of the labels N.     *)
Shift(N) ==
  \/ cpu' = cpu
  \/ Return
  \/ \E f : f.pc \in N /\ Step(f)
  \/ \E f, l : f.pc \in N /\ l \in ReturnLabel /\ Call(f, l)

(* The frames that remain below the top one. *)
LEMMA ShiftTop ==
  ASSUME IInv, IInv', NEW N, Shift(N)
  PROVE  /\ \A L : Holding(Tail(cpu), L) \/ L \cap ReturnLabel # {} \/ ~Holding(Tail(cpu)', L)
         /\ Top'.pc \in N \/ cpu' = cpu \/ \A L : Top'.pc \in L => Holding(Tail(cpu), L)
  <1>1. PICK r, s : r = Tail(cpu) /\ s = cpu'
    OBVIOUS
  <1>2. /\ r \in Seq(FrameType) /\ s \in Seq(FrameType) /\ Top \in FrameType
        /\ s = <<Top'>> \o Tail(s) /\ Top' \in FrameType /\ Tail(s) \in Seq(FrameType)
        /\ \A L : Holding(s, L) <=> Top'.pc \in L \/ Holding(Tail(s), L)
    <2>1. s \in Seq(FrameType) /\ s # <<>> /\ Top' = s[1]
      BY <1>1 DEF IInv, Executing, StackOK, Top
    <2> QED BY <1>1, <2>1, HoldingSplit, HoldingCpu
  <1>3. CASE cpu' = cpu
    BY <1>1, <1>3
  <1>4. CASE Return
    <2>1. s = r
      BY <1>1, <1>4 DEF Return
    <2> QED BY <1>1, <1>2, <2>1
  <1>5. ASSUME NEW f, f.pc \in N, Step(f)
        PROVE  Top'.pc \in N /\ Tail(s) = r
    <2>1. s = <<f>> \o r
      BY <1>1, <1>5 DEF Step
    <2>2. f \in FrameType
      BY <1>1, <1>2, <2>1, NewTop
    <2>3. s[1] = f /\ Tail(s) = r
      BY <1>2, <2>1, <2>2, HoldingPush
    <2> QED BY <1>1, <1>5, <2>3 DEF Top
  <1>6. ASSUME NEW f, NEW l \in ReturnLabel, f.pc \in N, Call(f, l)
        PROVE  /\ Top'.pc \in N
               /\ \A L : Holding(Tail(s), L) => l \in L \/ Holding(r, L)
    <2>1. PICK g : g = [Top EXCEPT !.pc = l]
      OBVIOUS
    <2>2. g.pc = l /\ g \in FrameType /\ f \in FrameType /\ s = <<f>> \o (<<g>> \o r)
      BY <1>1, <1>2, <1>6, <2>1, CallIsPush DEF FrameType
    <2>3. PICK u : u = <<g>> \o r
      OBVIOUS
    <2>4. u \in Seq(FrameType) /\ \A L : Holding(u, L) <=> g.pc \in L \/ Holding(r, L)
      BY <1>2, <2>2, <2>3, HoldingPush
    <2>5. s[1] = f /\ Tail(s) = u
      BY <2>2, <2>3, <2>4, HoldingPush
    <2> QED BY <1>1, <1>6, <2>2, <2>4, <2>5 DEF Top
  <1> QED BY <1>1, <1>3, <1>4, <1>5, <1>6 DEF Shift

(* Every step but those that take over or give up the CPU. *)
LEMMA GotoShift ==
  ASSUME IInv, NEW N, NEW l \in N, Goto(l)
  PROVE  Shift(N)
  <1>1. [Top EXCEPT !.pc = l].pc = l
    BY CpuStack DEF FrameType
  <1> QED BY <1>1 DEF Goto, Shift

CallLabels == KernelLabel \ BottomLabel

(* The labels of eos_sleep. *)
SleepLabel == {"sleep", "sleep_diff", "arm", "doze"}
SleepStep == UserSleep \/ Sleep \/ SleepDiff \/ Arm

LEMMA ShiftsBut ==
  ASSUME IInv, [Next]_vars, ~RestoreContext, ~Interrupt, ~BootIdle, ~UserMain, ~UserCreate,
         ~SleepStep
  PROVE  Shift(CallLabels \ (SleepLabel \cup {"create"}))
  <1> USE DEF CallLabels, KernelLabel, BottomLabel, SleepLabel
  <1>1. CASE Boot
    BY <1>1 DEF Boot, StartMultitasking, Shift, ReturnLabel, Frame, TaskFrame
  <1>2. CASE Create \/ BecomeReady
    BY <1>2, GotoShift DEF Create, BecomeReady, Schedule, Frame, TaskFrame, Shift
  <1>3. CASE ScheduleEntry
    <2>1. Return \/ Goto("pick") \/ Goto("requeue") \/ Goto("save")
      BY <1>3 DEF ScheduleEntry
    <2>2. CASE Return
      BY <2>2 DEF Shift
    <2> QED BY <2>1, <2>2, GotoShift
  <1>4. CASE Requeue \/ MarkReady \/ SaveContext \/ Unqueue \/ Run
    BY <1>4, GotoShift DEF Requeue, MarkReady, SaveContext, Unqueue, Run
  <1>5. CASE Pick
    BY <1>5 DEF Pick, TaskFrame, Shift
  <1>6. CASE FireAlarm \/ AlarmsDone \/ IrqReturn
    BY <1>6 DEF FireAlarm, AlarmsDone, IrqReturn, Frame, TaskFrame, Shift, ReturnLabel
  <1>7. CASE Doze
    BY <1>7, GotoShift DEF Doze, Schedule, Frame, TaskFrame, Shift
  <1>8. CASE ChangePriority
    <2>1. Goto("reinsert") \/ Goto("set_priority")
      BY <1>8 DEF ChangePriority
    <2> QED BY <2>1, GotoShift
  <1>9. CASE Reinsert \/ SetPriority
    BY <1>9, GotoShift DEF Reinsert, SetPriority, Schedule, Frame, TaskFrame, Shift
  <1>10. CASE Suspend \/ Suspended \/ Resume
    <2>1. Return \/ Goto("suspended") \/ Goto("resumed")
      BY <1>10 DEF Suspend, Suspended, Resume
    <2>2. CASE Return
      BY <2>2 DEF Shift
    <2> QED BY <2>1, <2>2, GotoShift
  <1>11. CASE UserStep
    BY <1>11 DEF SleepStep, UserStep, Compute, SetPeriod, UserChangePriority, UserSuspend,
       UserResume, UserCall, LockScheduler, RestoreScheduler, vars,
       Frame, TaskFrame, Shift, ReturnLabel
  <1>12. CASE UNCHANGED vars
    BY <1>12 DEF vars, Shift
  <1> QED BY <1>1, <1>2, <1>3, <1>4, <1>5, <1>6, <1>7, <1>8, <1>9, <1>10, <1>11,
             <1>12 DEF Next, KernelStep, SleepStep

LEMMA Shifts ==
  ASSUME IInv, [Next]_vars, ~RestoreContext, ~Interrupt, ~BootIdle, ~UserMain, ~UserCreate
  PROVE  Shift(CallLabels \ {"create"})
  <1> USE DEF CallLabels, KernelLabel, BottomLabel
  <1>1. CASE ~SleepStep
    BY <1>1, ShiftsBut DEF Shift
  <1>2. CASE Sleep
    <2>1. Return \/ Goto("arm") \/ Goto("sleep_diff")
      BY <1>2 DEF Sleep
    <2>2. CASE Return
      BY <2>2 DEF Shift
    <2> QED BY <2>1, <2>2, GotoShift
  <1>3. CASE SleepDiff
    <2> DEFINE f == [Top EXCEPT !.pc = "arm", !.num = (wakeup[current] - tick) % WORD]
    <2>1. Step(f) /\ f.pc = "arm"
      BY <1>3, CpuStack DEF SleepDiff, FrameType
    <2> HIDE DEF f
    <2> QED BY <2>1 DEF Shift
  <1>4. CASE Arm
    BY <1>4, GotoShift DEF Arm
  <1>5. CASE UserSleep
    BY <1>5 DEF UserSleep, UserCall, TaskFrame, Shift, ReturnLabel
  <1> QED BY <1>1, <1>2, <1>3, <1>4, <1>5 DEF SleepStep

LEMMA CreateCall ==
  ASSUME IInv, BootIdle \/ UserMain \/ UserCreate
  PROVE  \E f, l : f.pc = "create" /\ l \in ReturnLabel /\ Call(f, l)
  BY DEF BootIdle, UserMain, UserCreate, CallCreate, TaskFrame, ReturnLabel

LEMMA ShiftCall ==
  ASSUME IInv, [Next]_vars, ~RestoreContext, ~Interrupt
  PROVE  Shift(CallLabels)
  <1>1. CASE BootIdle \/ UserMain \/ UserCreate
    BY <1>1, CreateCall DEF Shift, CallLabels, KernelLabel, BottomLabel
  <1>2. CASE ~BootIdle /\ ~UserMain /\ ~UserCreate
    BY <1>2, Shifts DEF Shift
  <1> QED BY <1>1, <1>2

-----------------------------------------------------------------------------
(* Sections of the kernel in which a queue and a status do not agree yet:  *)
(* no tick may come between their steps.                                   *)
Fragile ==
  {"created", "resumed", "woken", "mark_ready", "save", "pick", "unqueue", "run",
   "restore", "suspended", "reinsert", "set_priority", "doze"}

(* Sections that are entered only while the scheduler is not locked. *)
OnlyUnlocked ==
  {"requeue", "mark_ready", "save", "pick", "unqueue", "run", "restore",
   "sleep_diff", "arm", "doze"}

(* What is left unfinished is left outside these sections. *)
CalmIn(L) == ~Holding(Tail(cpu), L) /\ \A t \in Task : ~Holding(ctx[t], L)
Calm == CalmIn(Fragile)

Interlock == lock = "LOCKED" => ~Holding(cpu, OnlyUnlocked)

LEMMA CalmInKept ==
  ASSUME IInv, IInv', ~ResumeAtElr, [Next]_vars, NEW L, CalmIn(L),
         L \cap (ReturnLabel \cup BottomLabel \cup IrqPoints) = {}
  PROVE  CalmIn(L)'
  <1>1. L \cap ReturnLabel = {} /\ L \cap BottomLabel = {} /\ L \cap IrqPoints = {}
    OBVIOUS
  <1>2. ctx \in [Task -> Seq(FrameType)] /\ cpu \in Seq(FrameType)
    BY CpuStack DEF IInv, Contexts
  <1>3. CASE ~RestoreContext /\ ~Interrupt
    <2>1. ~Holding(Tail(cpu)', L)
      BY <1>1, <1>3, ShiftCall, ShiftTop DEF CalmIn
    <2>2. CASE Create
      <3>1. Top.task \in Task /\ ctx' = [ctx EXCEPT ![Top.task] = NewStack(Top.task)]
        BY <2>2, TopFrame DEF Create, At, FrameOK, NewStack
      <3>2. ~Holding(NewStack(Top.task), L)
        <4>1. PICK t, s : t = Top.task /\ s = NewStack(t)
          OBVIOUS
        <4>2. s \in Belongs(t) /\ Len(s) = 1
          BY <3>1, <4>1, NewBelongs DEF NewStack
        <4>3. s[1].pc \notin L
          BY <1>1, <4>2 DEF Belongs, BottomLabel
        <4> QED BY <4>1, <4>2, <4>3 DEF Holding
      <3> QED BY <1>2, <2>1, <3>1, <3>2 DEF CalmIn
    <2>3. CASE SaveContext
      <3>1. current \in Task /\ ctx' = [ctx EXCEPT ![current] = Tail(cpu)]
        BY <2>3, InTaskCode DEF SaveContext, At, EarlyLabel
      <3> QED BY <1>2, <2>1, <3>1 DEF CalmIn
    <2>4. CASE ~Create /\ ~SaveContext
      <3>1. ctx' = ctx
        BY <1>3, <2>4 DEF Next, Boot, KernelStep, UserStep, BootIdle, UserMain,
          StartMultitasking, BecomeReady, ScheduleEntry, Requeue, MarkReady, Pick, Unqueue,
          Run, FireAlarm, AlarmsDone, IrqReturn, Sleep, SleepDiff, Arm, Doze,
          ChangePriority, Reinsert, SetPriority, Suspend, Suspended, Resume, Compute,
          UserSleep, SetPeriod, UserChangePriority, UserSuspend, UserResume, UserCreate,
          UserCall, LockScheduler, RestoreScheduler, vars, kernel, contexts
      <3> QED BY <2>1, <3>1 DEF CalmIn
    <2> QED BY <2>2, <2>3, <2>4
  <1>4. CASE RestoreContext
    <2>1. Top.task \in Task /\ cpu' = ctx[Top.task] /\ ctx' = ctx
      BY <1>4, TopFrame DEF RestoreContext, At, FrameOK, HasContext
    <2>2. Tail(cpu') \in Seq(FrameType) /\ \A M : Holding(Tail(cpu'), M) => Holding(cpu', M)
      <3>1. PICK s : s = cpu'
        OBVIOUS
      <3>2. s \in Seq(FrameType) /\ s # <<>>
        BY <3>1 DEF IInv, Executing, StackOK
      <3>3. PICK r : r = Tail(s)
        OBVIOUS
      <3>4. /\ r \in Seq(FrameType)
            /\ \A i \in 1 .. Len(r) : i + 1 \in 1 .. Len(s) /\ r[i] = s[i + 1]
        BY <3>2, <3>3, PoppedStack
      <3> QED BY <3>1, <3>3, <3>4 DEF Holding
    <2> QED BY <2>1, <2>2 DEF CalmIn
  <1>5. CASE Interrupt
    <2>1. Top.pc \notin L
      BY <1>5 DEF Interrupt
    <2>2. ~Holding(cpu, L)
      BY <2>1, HoldingCpu DEF CalmIn
    <2>3. Tail(cpu)' = cpu
      <3>1. PICK s, f, r : s = cpu /\ f = Frame("trigger") /\ r = cpu'
        OBVIOUS
      <3>2. r = <<f>> \o s /\ s \in Seq(FrameType)
        BY <1>2, <1>5, <3>1 DEF Interrupt
      <3>3. f \in FrameType
        BY <3>1, <3>2, NewTop
      <3> QED BY <3>1, <3>2, <3>3, HoldingPush
    <2>4. ctx' = IF current = NULL THEN ctx ELSE [ctx EXCEPT ![current] = cpu]
      BY <1>5 DEF Interrupt
    <2> QED BY <1>2, <2>2, <2>3, <2>4 DEF CalmIn
  <1> QED BY <1>3, <1>4, <1>5

LEMMA CalmKept ==
  ASSUME IInv, IInv', Calm, ~ResumeAtElr, IrqPoints \cap Fragile = {}, [Next]_vars
  PROVE  Calm'
  <1>1. Fragile \cap (ReturnLabel \cup BottomLabel \cup IrqPoints) = {}
    BY DEF Fragile, ReturnLabel, BottomLabel
  <1> QED BY <1>1, CalmInKept DEF Calm

(* While the scheduler is locked no step enters such a section.            *)
LEMMA LockedShifts ==
  ASSUME IInv, [Next]_vars, ~RestoreContext, ~Interrupt, lock = "LOCKED",
         Top.pc \notin OnlyUnlocked
  PROVE  Shift(CallLabels \ OnlyUnlocked)
  <1> USE DEF CallLabels, KernelLabel, BottomLabel, OnlyUnlocked
  <1>1. CASE Boot
    BY <1>1 DEF Boot, BootIdle, UserMain, CallCreate, StartMultitasking, Shift, ReturnLabel,
       Frame, TaskFrame
  <1>2. CASE Create \/ BecomeReady
    BY <1>2, GotoShift DEF Create, BecomeReady, Schedule, Frame, TaskFrame, Shift
  <1>3. CASE ScheduleEntry \/ Sleep
    BY <1>3 DEF ScheduleEntry, Sleep, Shift
  <1>4. CASE FireAlarm \/ AlarmsDone \/ IrqReturn
    BY <1>4 DEF FireAlarm, AlarmsDone, IrqReturn, Frame, TaskFrame, Shift, ReturnLabel
  <1>5. CASE ChangePriority
    <2>1. Goto("reinsert") \/ Goto("set_priority")
      BY <1>5 DEF ChangePriority
    <2> QED BY <2>1, GotoShift
  <1>6. CASE Reinsert \/ SetPriority
    BY <1>6, GotoShift DEF Reinsert, SetPriority, Schedule, Frame, TaskFrame, Shift
  <1>7. CASE Suspend \/ Suspended \/ Resume
    <2>1. Return \/ Goto("suspended") \/ Goto("resumed")
      BY <1>7 DEF Suspend, Suspended, Resume
    <2>2. CASE Return
      BY <2>2 DEF Shift
    <2> QED BY <2>1, <2>2, GotoShift
  <1>8. CASE UserStep
    BY <1>8 DEF UserStep, Compute, UserSleep, SetPeriod, UserChangePriority, UserSuspend,
       UserResume, UserCreate, CallCreate, UserCall, LockScheduler, RestoreScheduler, vars,
       Frame, TaskFrame, Shift, ReturnLabel
  <1>9. CASE UNCHANGED vars
    BY <1>9 DEF vars, Shift
  <1> QED BY <1>1, <1>2, <1>3, <1>4, <1>5, <1>6, <1>7, <1>8, <1>9
          DEF Next, KernelStep, Requeue, MarkReady, SaveContext, Pick, Unqueue, Run,
              SleepDiff, Arm, Doze, At

LEMMA InterlockKept ==
  ASSUME IInv, IInv', StacksIn(OwnStacks), Interlock, [Next]_vars
  PROVE  Interlock'
  <1>1. OnlyUnlocked \cap ReturnLabel = {} /\ OnlyUnlocked \cap BottomLabel = {}
    BY DEF OnlyUnlocked, ReturnLabel, BottomLabel
  <1>2. CASE LockScheduler
    <2>1. PICK s : s = cpu
      OBVIOUS
    <2>2. s[1].pc = "user" /\ cpu' = cpu
      BY <1>2, <2>1 DEF LockScheduler, At, Top
    <2>3. current \in Task /\ s \in Belongs(current)
      <3>1. PICK Q : Q = OwnStacks
        OBVIOUS
      <3>2. CallClosed(Q) /\ StacksIn(Q)
        BY <3>1, OwnClosed
      <3>3. current # NULL /\ Top.pc # "restore"
        BY <2>1, <2>2, InTaskCode DEF EarlyLabel, Top
      <3>4. current \in Task /\ cpu \in Q[current]
        BY <3>2, <3>3, CurrentStack
      <3> QED BY <2>1, <3>1, <3>4 DEF OwnStacks
    <2>4. Len(s) = 1
      BY <2>2, <2>3, BelongsFacts DEF BottomLabel
    <2>5. ~Holding(s, OnlyUnlocked)
      BY <2>2, <2>4 DEF Holding, OnlyUnlocked
    <2> QED BY <2>1, <2>2, <2>5 DEF Interlock
  <1>3. CASE ~LockScheduler /\ lock' = "LOCKED"
    <2>1. lock = "LOCKED"
      BY <1>3 DEF Next, Boot, KernelStep, UserStep, BootIdle, UserMain,
          StartMultitasking, Create, BecomeReady, ScheduleEntry, Requeue, MarkReady,
          SaveContext, Pick, Unqueue, Run, RestoreContext, Interrupt,
          FireAlarm, AlarmsDone, IrqReturn, Sleep, SleepDiff, Arm, Doze,
          ChangePriority, Reinsert, SetPriority, Suspend, Suspended, Resume, Compute,
          UserSleep, SetPeriod, UserChangePriority, UserSuspend, UserResume, UserCreate,
          UserCall, RestoreScheduler, vars, kernel, sched
    <2>2. Top.pc \notin OnlyUnlocked /\ ~Holding(Tail(cpu), OnlyUnlocked) /\ ~Holding(cpu, OnlyUnlocked)
      BY <2>1, HoldingCpu DEF Interlock
    <2>3. ~RestoreContext
      BY <2>2 DEF RestoreContext, At, OnlyUnlocked
    <2>4. CASE Interrupt
      <3>1. PICK s, f, r : s = cpu /\ f = Frame("trigger") /\ r = cpu'
        OBVIOUS
      <3>2. r = <<f>> \o s /\ s \in Seq(FrameType) /\ f.pc \notin OnlyUnlocked
        BY <2>4, <3>1, CpuStack DEF Interrupt, Frame, TaskFrame, OnlyUnlocked
      <3>3. f \in FrameType
        BY <3>1, <3>2, NewTop
      <3>4. ~Holding(r, OnlyUnlocked)
        BY <2>2, <3>1, <3>2, <3>3, HoldingPush
      <3> QED BY <3>1, <3>4 DEF Interlock
    <2>5. CASE ~Interrupt
      <3>1. Shift(CallLabels \ OnlyUnlocked)
        BY <2>1, <2>2, <2>3, <2>5, LockedShifts
      <3>2. /\ ~Holding(Tail(cpu)', OnlyUnlocked)
            /\ Top'.pc \in CallLabels \ OnlyUnlocked \/ cpu' = cpu \/ Top'.pc \notin OnlyUnlocked
        BY <1>1, <2>2, <3>1, ShiftTop
      <3>3. Top'.pc \notin OnlyUnlocked
        BY <2>2, <3>2 DEF Top
      <3>4. Holding(cpu', OnlyUnlocked) <=> Top'.pc \in OnlyUnlocked \/ Holding(Tail(cpu)', OnlyUnlocked)
        <4>1. PICK s : s = cpu'
          OBVIOUS
        <4>2. s \in Seq(FrameType) /\ s # <<>> /\ Top' = s[1]
          BY <4>1 DEF IInv, Executing, StackOK, Top
        <4>3. Holding(s, OnlyUnlocked) <=> s[1].pc \in OnlyUnlocked \/ Holding(Tail(s), OnlyUnlocked)
          BY <4>2, HoldingSplit
        <4> QED BY <4>1, <4>2, <4>3
      <3> QED BY <3>2, <3>3, <3>4 DEF Interlock
    <2> QED BY <2>4, <2>5
  <1> QED BY <1>2, <1>3 DEF Interlock

-----------------------------------------------------------------------------
(* Who is in eos_create_task, and for which task.                          *)

LEMMA ContextsStay ==
  ASSUME IInv, ~ResumeAtElr, ~Create,
         Next \/ WaitInQueue \/ Waiting \/ Wakeup \/ MakeReady \/ UNCHANGED vars
  PROVE  HasContext' = HasContext /\ (current # NULL => current' # NULL)
  <1>1. CASE UNCHANGED <<current, ctx>>
    BY <1>1 DEF HasContext
  <1>2. ctx \in [Task -> Seq(FrameType)] /\ HasContext \subseteq Task /\ cpu # <<>>
    BY DEF IInv, Contexts, HasContext, Executing, StackOK
  <1>3. CASE SaveContext
    <2>1. Top.pc = "save"
      BY <1>3 DEF SaveContext, At
    <2>2. current \in HasContext
      BY <2>1, TopFrame DEF EarlyLabel
    <2>3. Tail(cpu) # <<>>
      BY <2>1, StackReturn DEF IInv, Executing, Top, BottomLabel, StackOK
    <2>4. ctx' = [ctx EXCEPT ![current] = Tail(cpu)] /\ current' = current
      BY <1>3 DEF SaveContext, sched
    <2> QED BY <1>2, <2>2, <2>3, <2>4 DEF HasContext
  <1>4. CASE Run
    <2>1. Top.task \in HasContext
      BY <1>4, TopFrame DEF Run, At, FrameOK
    <2>2. Top.task # NULL
      BY <1>2, <2>1, Constants
    <2> QED BY <1>4, <2>2 DEF Run, contexts, HasContext
  <1>5. CASE Interrupt
    <2>1. current # NULL => current \in HasContext
      BY DEF IInv, Pointers, Pointer
    <2> QED BY <1>2, <1>5, <2>1 DEF Interrupt, sched, HasContext
  <1>6. CASE Next /\ ~SaveContext /\ ~Run /\ ~Interrupt
    <2>1. UNCHANGED <<current, ctx>>
      BY <1>6 DEF Next, Boot, KernelStep, UserStep, BootIdle, UserMain, StartMultitasking,
        BecomeReady, ScheduleEntry, Requeue, MarkReady, Pick, Unqueue, RestoreContext,
        FireAlarm, AlarmsDone, IrqReturn, Sleep, SleepDiff, Arm, Doze, ChangePriority,
        Reinsert, SetPriority, Suspend, Suspended, Resume, Compute, UserSleep, SetPeriod,
        UserChangePriority, UserSuspend, UserResume, UserCreate, UserCall, LockScheduler,
        RestoreScheduler, vars, kernel, sched, contexts
    <2> QED BY <1>1, <2>1
  <1>7. CASE WaitInQueue \/ Waiting \/ Wakeup \/ MakeReady \/ UNCHANGED vars
    <2>1. UNCHANGED <<current, ctx>>
      BY <1>7 DEF WaitInQueue, Waiting, Wakeup, MakeReady, vars, kernel, sched, contexts
    <2> QED BY <1>1, <2>1
  <1> QED BY <1>3, <1>4, <1>5, <1>6, <1>7

(* The stacks of t when t is creating the task x, NULL for none: the only  *)
(* thing that a task does meanwhile is to be interrupted.                  *)
MakerStack(t, x) ==
  {s \in Belongs(t) :
     \A i \in 1 .. Len(s) : s[i].pc = "create" => i = Len(s) - 1 /\ s[i].task = x}
MakerStacks(c) == [t \in Task |-> MakerStack(t, c[t])]

(* No two tasks create the same one, and it does not exist yet. *)
Promised(c) ==
  \A t \in Task : c[t] # NULL =>
    /\ current # NULL /\ t \in HasContext /\ c[t] \notin HasContext
    /\ \A u \in Task : u # t => c[u] # c[t]

Makers ==
  \E c \in [Task -> Task \cup {NULL}] : StacksIn(MakerStacks(c)) /\ Promised(c)

LEMMA MakerPush ==
  ASSUME NEW t \in Task, NEW x, NEW s \in MakerStack(t, x), NEW f \in CallFrame,
         f.pc # "create"
  PROVE  <<f>> \o s \in MakerStack(t, x)
  <1>1. PICK r : r = <<f>> \o s
    OBVIOUS
  <1>2. /\ s \in Belongs(t) /\ s \in Seq(FrameType) /\ Len(s) \in Nat /\ f \in FrameType
        /\ f.pc \in CallLabel
    BY BelongsFacts DEF MakerStack, CallFrame
  <1>3. r \in Belongs(t)
    BY <1>1, <1>2, PushBelongs DEF CallLabel
  <1>4. /\ Len(r) = Len(s) + 1 /\ r[1] = f
        /\ \A i \in 1 .. Len(r) : i # 1 => i - 1 \in 1 .. Len(s) /\ r[i] = s[i - 1]
    BY <1>1, <1>2, PushedStack
  <1>5. ASSUME NEW i \in 1 .. Len(r), r[i].pc = "create"
        PROVE  i = Len(r) - 1 /\ r[i].task = x
    <2>1. i # 1 /\ i - 1 \in 1 .. Len(s) /\ r[i] = s[i - 1]
      BY <1>4, <1>5
    <2>2. i - 1 = Len(s) - 1 /\ r[i].task = x
      BY <1>5, <2>1 DEF MakerStack
    <2> QED BY <1>2, <1>4, <2>2
  <1> QED BY <1>1, <1>3, <1>5 DEF MakerStack

LEMMA MakerTail ==
  ASSUME NEW t \in Task, NEW x, NEW s \in MakerStack(t, x), s[1].pc \notin {"user", "idle"}
  PROVE  Tail(s) \in MakerStack(t, x)
  <1>1. PICK r : r = Tail(s)
    OBVIOUS
  <1>2. s \in Belongs(t) /\ s \in Seq(FrameType) /\ Len(s) \in Nat /\ s # <<>>
    BY BelongsFacts DEF MakerStack
  <1>3. r \in Belongs(t)
    BY <1>1, <1>2, TailBelongs
  <1>4. /\ Len(s) = Len(r) + 1 /\ Len(r) \in Nat
        /\ \A i \in 1 .. Len(r) : i + 1 \in 1 .. Len(s) /\ r[i] = s[i + 1]
    BY <1>1, <1>2, PoppedStack
  <1>5. ASSUME NEW i \in 1 .. Len(r), r[i].pc = "create"
        PROVE  i = Len(r) - 1 /\ r[i].task = x
    <2>1. i + 1 \in 1 .. Len(s) /\ r[i] = s[i + 1]
      BY <1>4
    <2>2. i + 1 = Len(s) - 1 /\ r[i].task = x
      BY <1>5, <2>1 DEF MakerStack
    <2> QED BY <1>4, <2>2
  <1> QED BY <1>1, <1>3, <1>5 DEF MakerStack

LEMMA MakerClosed ==
  ASSUME NEW c
  PROVE  CallClosed(MakerStacks(c))
  <1>1. MakerStacks(c) \in [Task -> SUBSET Seq(FrameType)]
    BY DEF MakerStacks, MakerStack, Belongs
  <1>2. ASSUME NEW t \in Task, NEW s \in MakerStacks(c)[t]
        PROVE  /\ s # <<>> /\ \A i \in 1 .. Len(s) : s[i].pc \notin NoTaskLabel
               /\ \A f \in CallFrame : f.pc # "create" => <<f>> \o s \in MakerStacks(c)[t]
               /\ s[1].pc \in CallLabel \ {"create"} => Tail(s) \in MakerStacks(c)[t]
    <2>1. MakerStacks(c)[t] = MakerStack(t, c[t])
      BY DEF MakerStacks
    <2>2. s \in Belongs(t)
      BY <2>1 DEF MakerStack
    <2>3. s # <<>> /\ \A i \in 1 .. Len(s) : s[i].pc \notin NoTaskLabel
      BY <2>2, BelongsFacts
    <2>4. \A f \in CallFrame : f.pc # "create" => <<f>> \o s \in MakerStacks(c)[t]
      BY <2>1, MakerPush
    <2>5. s[1].pc \in CallLabel \ {"create"} => Tail(s) \in MakerStacks(c)[t]
      BY <2>1, MakerTail DEF CallLabel, BottomLabel
    <2> QED BY <2>3, <2>4, <2>5
  <1> QED BY <1>1, <1>2 DEF CallClosed

LEMMA MakersOwn ==
  ASSUME IInv, NEW c, StacksIn(MakerStacks(c))
  PROVE  StacksIn(OwnStacks)
  <1>1. \A t \in Task : MakerStacks(c)[t] \subseteq OwnStacks[t]
    BY DEF MakerStacks, MakerStack, OwnStacks
  <1>2. HasContext \subseteq Task /\ (current # NULL => current \in Task)
    BY DEF IInv, Pointers, Pointer, HasContext
  <1> QED BY <1>1, <1>2 DEF StacksIn

-----------------------------------------------------------------------------
(* Before the first switch the CPU executes the start-up code, and a call  *)
(* of eos_create_task is the innermost one there is.                       *)
DawnStack(s) ==
  /\ \A i \in 1 .. Len(s) : s[i].pc \in BottomLabel => i = Len(s)
  /\ ~Holding(Tail(s), {"create", "boot"})
  /\ s[1].pc = "create" => s[Len(s)].pc = "user_main"

Dawn ==
  current = NULL =>
    /\ DawnStack(cpu)
    /\ At("create") => Top.task \notin HasContext
    /\ At("boot") => HasContext = {}

LEMMA DawnPush ==
  ASSUME NEW s \in Seq(FrameType), s # <<>>, DawnStack(s), s[1].pc \notin {"create", "boot"},
         NEW f \in FrameType, f.pc \notin BottomLabel \cup {"create"}, NEW r, r = <<f>> \o s
  PROVE  r \in Seq(FrameType) /\ r # <<>> /\ DawnStack(r) /\ r[1].pc \notin {"create", "boot"}
  <1>1. /\ r \in Seq(FrameType) /\ r # <<>> /\ Len(r) = Len(s) + 1 /\ r[1] = f /\ Len(s) \in Nat
        /\ \A i \in 1 .. Len(r) : i # 1 => i - 1 \in 1 .. Len(s) /\ r[i] = s[i - 1]
    BY PushedStack
  <1>2. Tail(r) = s /\ ~Holding(s, {"create", "boot"})
    BY HoldingPush, HoldingSplit DEF DawnStack
  <1>3. ASSUME NEW i \in 1 .. Len(r), r[i].pc \in BottomLabel
        PROVE  i = Len(r)
    <2>1. i # 1 /\ i - 1 \in 1 .. Len(s) /\ r[i] = s[i - 1]
      BY <1>1, <1>3
    <2>2. i - 1 = Len(s)
      BY <1>3, <2>1 DEF DawnStack
    <2> QED BY <1>1, <2>2
  <1> QED BY <1>1, <1>2, <1>3 DEF DawnStack, BottomLabel

LEMMA DawnTail ==
  ASSUME NEW s \in Seq(FrameType), s # <<>>, DawnStack(s), NEW r, r = Tail(s), r # <<>>
  PROVE  r \in Seq(FrameType) /\ DawnStack(r) /\ r[1].pc \notin {"create", "boot"}
  <1>1. /\ r \in Seq(FrameType) /\ Len(s) = Len(r) + 1 /\ Len(r) \in Nat
        /\ \A i \in 1 .. Len(r) : i + 1 \in 1 .. Len(s) /\ r[i] = s[i + 1]
    BY PoppedStack
  <1>2. ~Holding(r, {"create", "boot"}) /\ ~Holding(Tail(r), {"create", "boot"})
        /\ r[1].pc \notin {"create", "boot"}
    BY <1>1, HoldingSplit DEF DawnStack
  <1>3. ASSUME NEW i \in 1 .. Len(r), r[i].pc \in BottomLabel
        PROVE  i = Len(r)
    <2>1. i + 1 \in 1 .. Len(s) /\ s[i + 1].pc \in BottomLabel
      BY <1>1, <1>3
    <2>2. i + 1 = Len(s)
      BY <2>1 DEF DawnStack
    <2>3. Len(s) = Len(r) + 1 /\ Len(r) \in Nat
      BY <1>1
    <2> QED BY <2>2, <2>3
  <1> QED BY <1>1, <1>2, <1>3 DEF DawnStack

(* A call of a start-up function returns to the function, and nothing is   *)
(* below it.                                                               *)
LEMMA DawnCall ==
  ASSUME NEW s \in Seq(FrameType), s # <<>>, DawnStack(s), s[1].pc \in BottomLabel,
         NEW f \in FrameType, NEW g \in FrameType, g.pc \in {"user_main", "boot_end"},
         f.pc \notin BottomLabel, f.pc = "create" => g.pc = "user_main",
         NEW u, u = <<g>> \o Tail(s), NEW r, r = <<f>> \o u
  PROVE  DawnStack(r) /\ r[1] = f
  <1>1. PICK q : q = Tail(s)
    OBVIOUS
  <1>2. q \in Seq(FrameType) /\ Len(q) = 0
    <2>1. 1 \in 1 .. Len(s) /\ Len(s) \in Nat /\ q \in Seq(FrameType) /\ Len(s) = Len(q) + 1
      BY <1>1, PoppedStack
    <2>2. Len(s) = 1
      BY <2>1 DEF DawnStack
    <2> QED BY <2>1, <2>2
  <1>3. u \in Seq(FrameType) /\ Len(u) = 1 /\ u[1] = g
    BY <1>1, <1>2, PushedStack
  <1>4. /\ Len(r) = 2 /\ r[1] = f
        /\ \A i \in 1 .. Len(r) : i # 1 => i - 1 \in 1 .. Len(u) /\ r[i] = u[i - 1]
    <2>1. /\ Len(r) = Len(u) + 1 /\ r[1] = f
          /\ \A i \in 1 .. Len(r) : i # 1 => i - 1 \in 1 .. Len(u) /\ r[i] = u[i - 1]
      BY <1>3, PushedStack
    <2>2. Len(r) = Len(u) + 1 /\ Len(u) = 1
      BY <1>3, <2>1
    <2>4. PICK n, m : n = Len(u) /\ m = Len(r)
      OBVIOUS
    <2>5. n = 1 /\ m = n + 1
      BY <2>2, <2>4
    <2>6. m = 2
      BY <2>5
    <2>3. Len(r) = 2
      BY <2>4, <2>6
    <2> QED BY <2>1, <2>3
  <1>5. Tail(r) = u /\ r[2] = g
    <2>1. Tail(r) = u
      BY <1>3, HoldingPush
    <2>2. 2 \in 1 .. Len(r) /\ 2 # 1 /\ 2 - 1 = 1
      BY <1>4
    <2> QED BY <1>3, <1>4, <2>1, <2>2
  <1>6. ~Holding(u, {"create", "boot"})
    <2>3. PICK n : n = Len(u)
      OBVIOUS
    <2>4. n = 1
      BY <1>3, <2>3
    <2>5. \A i \in 1 .. n : i = 1
      BY <2>4
    <2>1. \A i \in 1 .. Len(u) : i = 1
      BY <2>3, <2>5
    <2>2. \A i \in 1 .. Len(u) : u[i] = g
      BY <1>3, <2>1
    <2> QED BY <2>2 DEF Holding
  <1>7. \A i \in 1 .. Len(r) : r[i].pc \in BottomLabel => i = Len(r)
    <2>1. \A i \in 1 .. Len(r) : i = 1 \/ i = 2
      BY <1>4
    <2>2. r[1].pc \notin BottomLabel /\ Len(r) = 2
      BY <1>4
    <2> QED BY <2>1, <2>2
  <1>8. r[1].pc = "create" => r[Len(r)].pc = "user_main"
    BY <1>4, <1>5
  <1> QED BY <1>4, <1>5, <1>6, <1>7, <1>8 DEF DawnStack

LEMMA DawnMoves ==
  ASSUME IInv, current = NULL, [Next]_vars, ~BootIdle, ~UserMain, ~StartMultitasking,
         ~AlarmsDone, ~Interrupt
  PROVE  \/ cpu' = cpu /\ ctx' = ctx
         \/ Return
         \/ \E f : Step(f) /\ f.pc \in CallLabels \ {"create"} /\ Top.pc \notin BottomLabel
  <1> USE DEF CallLabels, KernelLabel, BottomLabel
  <1>1. Top.pc \in EarlyLabel
    BY TopFrame DEF FrameOK, Labels
  <1>2. CASE Create \/ BecomeReady
    <2>1. [Top EXCEPT !.pc = "created"].pc = "created"
      BY CpuStack DEF FrameType
    <2> QED BY <1>2, <2>1 DEF Create, BecomeReady, Schedule, Goto, Frame, TaskFrame, At
  <1>3. CASE ScheduleEntry
    <2>1. Return \/ Goto("pick")
      BY <1>3 DEF ScheduleEntry
    <2>2. [Top EXCEPT !.pc = "pick"].pc = "pick"
      BY CpuStack DEF FrameType
    <2> QED BY <1>3, <2>1, <2>2 DEF ScheduleEntry, Goto, At
  <1>4. CASE Unqueue \/ Run
    <2>1. \A l \in {"run", "restore"} : [Top EXCEPT !.pc = l].pc = l
      BY CpuStack DEF FrameType
    <2> QED BY <1>4, <2>1 DEF Unqueue, Run, Goto, At
  <1>5. CASE Pick
    BY <1>5 DEF Pick, TaskFrame, At
  <1>6. CASE FireAlarm \/ IrqReturn
    BY <1>6 DEF FireAlarm, IrqReturn, contexts
  <1>7. CASE UserStep
    BY <1>1, <1>7 DEF EarlyLabel, At, UserStep, Compute, UserSleep, SetPeriod,
       UserChangePriority, UserSuspend, UserResume, UserCreate, UserCall, LockScheduler,
       RestoreScheduler, vars, kernel, contexts
  <1>8. CASE UNCHANGED vars
    BY <1>8 DEF vars, kernel, contexts
  <1> QED BY <1>1, <1>2, <1>3, <1>4, <1>5, <1>6, <1>7, <1>8
          DEF Next, Boot, KernelStep, Requeue, MarkReady, SaveContext, RestoreContext,
              Sleep, SleepDiff, Arm, Doze, ChangePriority, Reinsert, SetPriority, Suspend,
              Suspended, Resume, At, EarlyLabel

LEMMA DawnKept ==
  ASSUME IInv, IInv', Dawn, ~ResumeAtElr, [Next]_vars
  PROVE  Dawn'
  <1> SUFFICES ASSUME current' = NULL
               PROVE  /\ DawnStack(cpu')
                      /\ Top'.pc = "create" => Top'.task \notin HasContext'
                      /\ Top'.pc = "boot" => HasContext' = {}
    BY DEF Dawn, At
  <1>1. current = NULL
    <2>1. CASE Create
      BY <2>1 DEF Create, sched
    <2>2. CASE ~Create
      BY <2>2, ContextsStay
    <2> QED BY <2>1, <2>2
  <1>2. /\ DawnStack(cpu) /\ (Top.pc = "create" => Top.task \notin HasContext)
        /\ (Top.pc = "boot" => HasContext = {})
    BY <1>1 DEF Dawn, At
  <1>3. PICK s, r : s = cpu /\ r = cpu'
    OBVIOUS
  <1>4. s \in Seq(FrameType) /\ s # <<>> /\ Top = s[1] /\ Top \in FrameType
        /\ r \in Seq(FrameType) /\ r # <<>> /\ Top' = r[1] /\ Tail(s) \in Seq(FrameType)
    BY <1>3, CpuStack DEF IInv, Executing, StackOK, Top
  <1>5. CASE BootIdle \/ UserMain
    <2>1. PICK f : /\ f.pc = "create" /\ f.task \notin HasContext /\ Call(f, "user_main")
                   /\ Top.pc \in BottomLabel
      BY <1>2, <1>5 DEF BootIdle, UserMain, CallCreate, TaskFrame, At, BottomLabel, HasContext
    <2>2. PICK g : g = [Top EXCEPT !.pc = "user_main"]
      OBVIOUS
    <2>3. r = <<f>> \o (<<g>> \o Tail(s)) /\ f \in FrameType /\ g \in FrameType
          /\ g.pc = "user_main"
      BY <1>3, <1>4, <2>1, <2>2, CallIsPush DEF FrameType
    <2>9. PICK u : u = <<g>> \o Tail(s)
      OBVIOUS
    <2>4. DawnStack(r) /\ r[1] = f
      <3>1. r = <<f>> \o u /\ s[1].pc \in BottomLabel /\ DawnStack(s) /\ f.pc = "create"
        BY <1>2, <1>3, <1>4, <2>1, <2>3, <2>9
      <3>2. /\ s \in Seq(FrameType) /\ s # <<>> /\ f \in FrameType /\ g \in FrameType
            /\ g.pc \in {"user_main", "boot_end"} /\ f.pc \notin BottomLabel
            /\ f.pc = "create" => g.pc = "user_main"
        BY <1>4, <2>3, <3>1 DEF BottomLabel
      <3> QED BY <2>9, <3>1, <3>2, DawnCall
    <2>5. HasContext' = HasContext
      BY <1>5 DEF BootIdle, UserMain, kernel, contexts, HasContext
    <2> QED BY <1>3, <1>4, <2>1, <2>4, <2>5
  <1>6. CASE StartMultitasking
    <2>1. PICK f, g : f = Frame("schedule") /\ g = [Top EXCEPT !.pc = "boot_end"]
      OBVIOUS
    <2>2. Call(f, "boot_end") /\ Top.pc \in BottomLabel /\ f.pc = "schedule"
      BY <1>6, <2>1 DEF StartMultitasking, At, BottomLabel, Frame, TaskFrame
    <2>3. r = <<f>> \o (<<g>> \o Tail(s)) /\ f \in FrameType /\ g \in FrameType
          /\ g.pc = "boot_end"
      BY <1>3, <1>4, <2>1, <2>2, CallIsPush DEF FrameType
    <2>9. PICK u : u = <<g>> \o Tail(s)
      OBVIOUS
    <2>4. DawnStack(r) /\ r[1] = f
      <3>1. r = <<f>> \o u /\ s[1].pc \in BottomLabel /\ DawnStack(s) /\ f.pc = "schedule"
        BY <1>2, <1>3, <1>4, <2>2, <2>3, <2>9
      <3>2. /\ s \in Seq(FrameType) /\ s # <<>> /\ f \in FrameType /\ g \in FrameType
            /\ g.pc \in {"user_main", "boot_end"} /\ f.pc \notin BottomLabel
            /\ f.pc = "create" => g.pc = "user_main"
        BY <1>4, <2>3, <3>1 DEF BottomLabel
      <3> QED BY <2>9, <3>1, <3>2, DawnCall
    <2> QED BY <1>3, <1>4, <2>2, <2>4
  <1>7. CASE AlarmsDone
    <2>1. PICK f, g, q : /\ f = Frame("schedule") /\ g = [Top EXCEPT !.pc = "irq_return"]
                         /\ q = Tail(s)
      OBVIOUS
    <2>2. Call(f, "irq_return") /\ Top.pc \notin BottomLabel /\ f.pc = "schedule"
      BY <1>7, <2>1 DEF AlarmsDone, At, BottomLabel, Frame, TaskFrame
    <2>3. r = <<f>> \o (<<g>> \o q) /\ f \in FrameType /\ g \in FrameType
          /\ g.pc = "irq_return"
      BY <1>3, <1>4, <2>1, <2>2, CallIsPush DEF FrameType
    <2>4. q # <<>>
      BY <1>3, <2>1, <2>2, StackReturn DEF IInv, Executing, Top, StackOK
    <2>5. q \in Seq(FrameType) /\ DawnStack(q) /\ q[1].pc \notin {"create", "boot"}
      BY <1>2, <1>3, <1>4, <2>1, <2>4, DawnTail
    <2>6. PICK u : u = <<g>> \o q
      OBVIOUS
    <2>7. u \in Seq(FrameType) /\ u # <<>> /\ DawnStack(u) /\ u[1].pc \notin {"create", "boot"}
      BY <2>3, <2>4, <2>5, <2>6, DawnPush DEF BottomLabel
    <2>8. DawnStack(r) /\ r[1].pc \notin {"create", "boot"}
      BY <2>2, <2>3, <2>6, <2>7, DawnPush DEF BottomLabel
    <2> QED BY <1>3, <1>4, <2>8
  <1>8. CASE Interrupt
    <2>1. PICK f : f = Frame("trigger")
      OBVIOUS
    <2>2. r = <<f>> \o s /\ f.pc = "trigger" /\ f \in FrameType
      <3>1. r = <<f>> \o s /\ f.pc = "trigger"
        BY <1>3, <1>8, <2>1 DEF Interrupt, Frame, TaskFrame
      <3> QED BY <1>3, <1>4, <3>1, NewTop
    <2>3. s[1].pc \notin {"create", "boot"}
      <3>1. s[Len(s)].pc \notin {"boot", "user_main"}
        BY <1>3, <1>8 DEF Interrupt, Masked
      <3>2. 1 \in 1 .. Len(s)
        BY <1>3, CpuStack
      <3>3. s[1].pc = "boot" => 1 = Len(s)
        BY <1>2, <1>3, <3>2 DEF DawnStack, BottomLabel
      <3>4. s[1].pc = "create" => s[Len(s)].pc = "user_main"
        BY <1>2, <1>3 DEF DawnStack
      <3> QED BY <3>1, <3>3, <3>4
    <2>4. DawnStack(r) /\ r[1].pc \notin {"create", "boot"}
      BY <1>2, <1>3, <1>4, <2>2, <2>3, DawnPush DEF BottomLabel
    <2> QED BY <1>3, <1>4, <2>4
  <1>9. CASE /\ ~BootIdle /\ ~UserMain /\ ~StartMultitasking /\ ~AlarmsDone /\ ~Interrupt
    <2>1. CASE cpu' = cpu /\ ctx' = ctx
      BY <1>2, <2>1 DEF HasContext, Top
    <2>2. CASE Return
      <3>1. r = Tail(s)
        BY <1>3, <2>2 DEF Return
      <3> QED BY <1>2, <1>3, <1>4, <3>1, DawnTail
    <2>3. ASSUME NEW f, Step(f), f.pc \in CallLabels \ {"create"}, Top.pc \notin BottomLabel
          PROVE  DawnStack(r) /\ r[1].pc \notin {"create", "boot"}
      <3>1. PICK q : q = Tail(s)
        OBVIOUS
      <3>2. r = <<f>> \o q /\ f \in FrameType
        BY <1>3, <1>4, <2>3, <3>1, NewTop DEF Step
      <3>3. q # <<>>
        BY <1>3, <2>3, <3>1, StackReturn DEF IInv, Executing, Top, StackOK
      <3>4. q \in Seq(FrameType) /\ DawnStack(q) /\ q[1].pc \notin {"create", "boot"}
        BY <1>2, <1>3, <1>4, <3>1, <3>3, DawnTail
      <3> QED BY <2>3, <3>2, <3>3, <3>4, DawnPush DEF CallLabels
    <2> QED BY <1>1, <1>3, <1>4, <1>9, <2>1, <2>2, <2>3, DawnMoves
  <1> QED BY <1>5, <1>6, <1>7, <1>8, <1>9

(* A stack without a call of eos_create_task may be any maker's. *)
LEMMA NoMaker ==
  ASSUME NEW t \in Task, NEW x, NEW s \in Belongs(t), ~Holding(s, {"create"})
  PROVE  s \in MakerStack(t, x)
  BY DEF MakerStack, Holding

LEMMA MakersNew ==
  ASSUME NEW t \in Task, NEW x
  PROVE  NewStack(t) \in MakerStack(t, x) /\ NewStack(t) # <<>>
  <1>1. PICK s : s = NewStack(t)
    OBVIOUS
  <1>2. s \in Belongs(t) /\ Len(s) = 1 /\ s[1].pc \in {"user", "idle"} /\ s # <<>>
    BY <1>1, NewBelongs, BelongsFacts DEF NewStack, TaskFrame
  <1>3. \A i \in 1 .. Len(s) : i = 1
    BY <1>2
  <1>4. ~Holding(s, {"create"})
    BY <1>2, <1>3 DEF Holding
  <1> QED BY <1>1, <1>2, <1>4, NoMaker

(* The stack of a task below its call of eos_create_task. *)
LEMMA MakerDone ==
  ASSUME NEW t \in Task, NEW x, NEW s \in MakerStack(t, x), s[1].pc = "create",
         NEW r \in Seq(FrameType), r # <<>>, r[1].pc = "created", Tail(r) = Tail(s)
  PROVE  /\ s[1].task = x /\ ~InSwitch(r)
         /\ \A y : r \in MakerStack(t, y)
  <1>1. PICK q, f : q = Tail(s) /\ f = r[1]
    OBVIOUS
  <1>2. /\ s \in Belongs(t) /\ s \in Seq(FrameType) /\ s # <<>>
        /\ 1 \in 1 .. Len(s) /\ Len(s) - 1 = 1 /\ s[1].task = x
    <2>1. s \in Belongs(t) /\ s \in Seq(FrameType) /\ s # <<>> /\ 1 \in 1 .. Len(s)
      BY BelongsFacts DEF MakerStack
    <2> QED BY <2>1 DEF MakerStack
  <1>3. q \in Belongs(t) /\ q \in Seq(FrameType) /\ Len(q) = 1
    <2>1. q \in Belongs(t)
      BY <1>1, <1>2, TailBelongs
    <2>2. Len(s) = Len(q) + 1 /\ Len(q) \in Nat
      BY <1>1, <1>2, PoppedStack
    <2>3. PICK n, m : n = Len(s) /\ m = Len(q)
      OBVIOUS
    <2>4. m = 1
      BY <1>2, <2>2, <2>3
    <2> QED BY <2>1, <2>3, <2>4, BelongsFacts
  <1>4. q[1].pc \in {"user", "idle"}
    BY <1>3 DEF Belongs
  <1>5. /\ f \in FrameType /\ f.pc = "created" /\ r = <<f>> \o q
        /\ \A L : Holding(r, L) <=> f.pc \in L \/ Holding(q, L)
    BY <1>1, HoldingSplit
  <1>6. \A L : Holding(q, L) => q[1].pc \in L
    <2>1. PICK n : n = Len(q)
      OBVIOUS
    <2>2. \A i \in 1 .. n : i = 1
      BY <1>3, <2>1
    <2> QED BY <2>1, <2>2 DEF Holding
  <1>7. r \in Belongs(t)
    BY <1>3, <1>5, PushBelongs DEF CallLabel, KernelLabel, BottomLabel
  <1>8. ~Holding(r, {"create"}) /\ ~Holding(r, Switching)
    BY <1>4, <1>5, <1>6 DEF Switching
  <1>9. ~InSwitch(r)
    BY <1>8 DEF InSwitch, Holding
  <1> QED BY <1>2, <1>5, <1>7, <1>8, <1>9, NoMaker

LEMMA MakersCreate ==
  ASSUME IInv, IInv', Makers, Dawn, ~ResumeAtElr, Create
  PROVE  Makers'
  <1>1. PICK c \in [Task -> Task \cup {NULL}] : StacksIn(MakerStacks(c)) /\ Promised(c)
    BY DEF Makers
  <1>2. PICK x, f, s, r : /\ x = Top.task /\ f = [Top EXCEPT !.pc = "created"]
                          /\ s = cpu /\ r = cpu'
    OBVIOUS
  <1>3. /\ Top.pc = "create" /\ x \in Task /\ current' = current
        /\ ctx' = [ctx EXCEPT ![x] = NewStack(x)] /\ ctx \in [Task -> Seq(FrameType)]
        /\ s[1] = Top /\ HasContext \subseteq Task /\ (current # NULL => current \in HasContext)
    BY <1>2, TopFrame DEF Create, At, FrameOK, NewStack, sched, IInv, Contexts, Top, Pointers,
       Pointer, HasContext
  <1>4. r = <<f>> \o Tail(s) /\ f \in FrameType /\ f.pc = "created" /\ r[1] = f
    <2>1. r = <<f>> \o Tail(s)
      BY <1>2 DEF Create, Goto, Step
    <2>2. f.pc = "created"
      BY <1>2, CpuStack DEF FrameType
    <2> QED BY <1>2, <2>1, <2>2, NewTop, CpuStack
  <1>5. /\ NewStack(x) # <<>> /\ \A y : NewStack(x) \in MakerStack(x, y)
        /\ HasContext' = HasContext \cup {x} /\ ctx'[x] = NewStack(x)
        /\ \A u \in Task : u # x => ctx'[u] = ctx[u]
    BY <1>3, MakersNew DEF HasContext
  <1>6. Top'.pc # "restore"
    BY <1>2, <1>4 DEF Top
  <1>7. CASE current = NULL
    <2>1. \A t \in Task : c[t] = NULL
      BY <1>1, <1>7 DEF Promised
    <2>2. \A t \in HasContext : ctx[t] \in MakerStacks(c)[t]
      BY <1>1, <1>3, <1>7, Constants DEF StacksIn
    <2>3. StacksIn(MakerStacks(c))'
      BY <1>3, <1>5, <1>7, <2>2 DEF StacksIn, MakerStacks
    <2>4. Promised(c)'
      BY <2>1 DEF Promised
    <2> QED BY <2>3, <2>4 DEF Makers
  <1>8. CASE current # NULL
    <2>1. PICK me : me = current
      OBVIOUS
    <2>2. me \in Task /\ s \in MakerStack(me, c[me])
      <3>1. PICK Q : Q = MakerStacks(c)
        OBVIOUS
      <3>2. me \in Task /\ cpu \in Q[me]
        BY <1>1, <1>3, <1>8, <2>1, <3>1, MakerClosed, CurrentStack
      <3> QED BY <1>2, <3>1, <3>2 DEF MakerStacks
    <2>3. /\ s[1].task = c[me] /\ c[me] = x /\ ~InSwitch(r)
          /\ \A y : r \in MakerStack(me, y)
      <3>1. /\ s[1].pc = "create" /\ s[1].task = x /\ r \in Seq(FrameType) /\ r # <<>>
            /\ r[1].pc = "created" /\ Tail(r) = Tail(s)
        BY <1>2, <1>3, <1>4, CpuStack, HoldingPush DEF IInv, Executing, StackOK
      <3> QED BY <2>2, <3>1, MakerDone
    <2>4. PICK d \in [Task -> Task \cup {NULL}] : d = [c EXCEPT ![me] = NULL]
      BY <1>1
    <2>5. d[me] = NULL /\ \A t \in Task : t # me => d[t] = c[t]
      BY <1>1, <2>2, <2>4
    <2>6. ASSUME NEW t \in HasContext', t # me
          PROVE  ctx'[t] \in MakerStacks(d)[t]
      <3>1. t \in Task /\ MakerStacks(d)[t] = MakerStack(t, c[t])
        BY <1>3, <1>5, <2>5, <2>6 DEF MakerStacks
      <3>2. CASE t = x
        BY <1>5, <3>1, <3>2
      <3>3. CASE t # x
        <4>1. t \in HasContext /\ ctx'[t] = ctx[t]
          BY <1>5, <3>1, <3>3
        <4>2. ctx[t] \in MakerStacks(c)[t]
          BY <1>1, <2>1, <2>6, <4>1 DEF StacksIn
        <4> QED BY <3>1, <4>1, <4>2 DEF MakerStacks
      <3> QED BY <3>2, <3>3
    <2>7. r \in MakerStacks(d)[me]
      BY <2>2, <2>3 DEF MakerStacks
    <2>8. StacksIn(MakerStacks(d))'
      BY <1>2, <1>3, <1>6, <2>1, <2>3, <2>6, <2>7 DEF StacksIn, At
    <2>9. Promised(d)'
      <3>1. ASSUME NEW t \in Task, d[t] # NULL
            PROVE  /\ t \in HasContext' /\ d[t] \notin HasContext'
                   /\ \A u \in Task : u # t => d[u] # d[t]
        <4>1. t # me /\ d[t] = c[t] /\ c[t] # NULL
          BY <2>5, <3>1
        <4>2. t \in HasContext /\ c[t] \notin HasContext /\ \A u \in Task : u # t => c[u] # c[t]
          BY <1>1, <4>1 DEF Promised
        <4>3. c[t] # x
          BY <2>2, <2>3, <4>1, <4>2
        <4> QED BY <1>5, <2>5, <4>1, <4>2, <4>3
      <3> QED BY <1>3, <1>8, <3>1 DEF Promised
    <2> QED BY <2>8, <2>9 DEF Makers
  <1> QED BY <1>7, <1>8

LEMMA MakersUser ==
  ASSUME IInv, IInv', Makers, ~ResumeAtElr, UserCreate
  PROVE  Makers'
  <1>1. PICK c \in [Task -> Task \cup {NULL}] : StacksIn(MakerStacks(c)) /\ Promised(c)
    BY DEF Makers
  <1>2. PICK t \in User : \E p : /\ ctx[t] = <<>> /\ ~Creating(t)
                                 /\ Call(TaskFrame("create", t, p), "user")
    BY DEF UserCreate, CallCreate
  <1>14. PICK p : Call(TaskFrame("create", t, p), "user")
    BY <1>2
  <1>3. PICK f, s, r, me : /\ f = TaskFrame("create", t, p) /\ s = cpu /\ r = cpu'
                           /\ me = current
    OBVIOUS
  <1>4. /\ Top.pc = "user" /\ UNCHANGED <<current, ctx, contexts>> /\ s[1] = Top
        /\ t \in Task /\ HasContext \subseteq Task /\ HasContext' = HasContext
        /\ ctx \in [Task -> Seq(FrameType)]
    BY <1>2, <1>3, Constants DEF UserCreate, At, kernel, contexts, sched, Top, HasContext, IInv,
       Contexts
  <1>5. r = <<f>> \o s /\ f \in FrameType /\ f.pc = "create" /\ f.task = t
    <2>1. Call(f, "user") /\ Top.pc = "user" /\ f.pc = "create" /\ f.task = t
      BY <1>14, <1>3, <1>4 DEF TaskFrame
    <2> QED BY <1>3, <2>1, CallIsPush
  <1>6. me \in Task /\ me \in HasContext /\ me # NULL /\ s \in MakerStack(me, c[me])
    <2>1. PICK Q : Q = MakerStacks(c)
      OBVIOUS
    <2>2. me \in Task /\ me \in HasContext /\ me # NULL
      BY <1>3, <1>4, InTaskCode DEF EarlyLabel
    <2>3. cpu \in Q[me]
      BY <1>1, <1>3, <1>4, <2>1, <2>2, MakerClosed, CurrentStack
    <2> QED BY <1>3, <2>1, <2>2, <2>3 DEF MakerStacks
  <1>7. s \in Belongs(me) /\ s \in Seq(FrameType) /\ Len(s) = 1
    BY <1>4, <1>6, BelongsFacts DEF MakerStack, BottomLabel
  <1>8. r \in MakerStack(me, t) /\ ~InSwitch(r) /\ r[1] = f
    <2>1. r \in Belongs(me)
      BY <1>5, <1>6, <1>7, PushBelongs DEF CallLabel, KernelLabel, BottomLabel
    <2>2. /\ Len(r) = Len(s) + 1 /\ r[1] = f
          /\ \A i \in 1 .. Len(r) : i # 1 => i - 1 \in 1 .. Len(s) /\ r[i] = s[i - 1]
      <3>1. s \in Seq(FrameType) /\ f \in FrameType /\ r = <<f>> \o s
        BY <1>5, <1>7
      <3> QED BY <3>1, PushedStack
    <2>3. PICK n, m : n = Len(s) /\ m = Len(r)
      OBVIOUS
    <2>4. n = 1 /\ m = n + 1
      BY <1>7, <2>2, <2>3
    <2>5. m - 1 = 1 /\ \A i \in 1 .. m : i = 1 \/ (i # 1 /\ i - 1 = 1)
      BY <2>4
    <2>6. \A i \in 1 .. Len(r) : r[i] = f \/ r[i] = s[1]
      BY <2>2, <2>3, <2>5
    <2>7. \A i \in 1 .. Len(r) : r[i].pc = "create" => i = Len(r) - 1 /\ r[i].task = t
      BY <1>4, <1>5, <2>2, <2>3, <2>5
    <2>8. ~InSwitch(r)
      BY <1>4, <1>5, <2>6 DEF InSwitch, Switching
    <2> QED BY <2>1, <2>2, <2>7, <2>8 DEF MakerStack
  <1>9. PICK d \in [Task -> Task \cup {NULL}] :
          d = [v \in Task |-> IF v = me THEN t ELSE IF c[v] = t THEN NULL ELSE c[v]]
    BY <1>1, <1>4
  <1>10. ASSUME NEW v \in HasContext, v # me
         PROVE  ctx[v] \in MakerStacks(d)[v]
    <2>1. v \in Task /\ ctx[v] \in MakerStacks(c)[v]
      BY <1>1, <1>3, <1>4, <1>10 DEF StacksIn
    <2>2. ctx[v] \in MakerStack(v, c[v])
      BY <2>1 DEF MakerStacks
    <2>3. CASE c[v] = t
      <3>1. ASSUME NEW i \in 1 .. Len(ctx[v]), ctx[v][i].pc = "create" PROVE FALSE
        <4>1. ctx[v][i].task = t
          BY <2>2, <2>3, <3>1 DEF MakerStack
        <4>2. i \in DOMAIN ctx[v]
          BY <1>4, <2>1
        <4> QED BY <1>2, <2>1, <3>1, <4>1, <4>2 DEF Creating
      <3>2. ~Holding(ctx[v], {"create"}) /\ ctx[v] \in Belongs(v)
        BY <2>2, <3>1 DEF Holding, MakerStack
      <3> QED BY <2>1, <3>2, NoMaker DEF MakerStacks
    <2>4. CASE c[v] # t
      BY <1>9, <1>10, <2>1, <2>2, <2>4 DEF MakerStacks
    <2> QED BY <2>3, <2>4
  <1>11. r \in MakerStacks(d)[me] /\ Top'.pc # "restore"
    <2>1. d[me] = t
      BY <1>6, <1>9
    <2> QED BY <1>3, <1>5, <1>6, <1>8, <2>1 DEF MakerStacks, Top
  <1>12. StacksIn(MakerStacks(d))'
    BY <1>3, <1>4, <1>6, <1>8, <1>10, <1>11 DEF StacksIn, At
  <1>13. Promised(d)'
    <2>1. t \notin HasContext
      BY <1>2 DEF HasContext
    <2>2. ASSUME NEW v \in Task, d[v] # NULL
          PROVE  /\ v \in HasContext' /\ d[v] \notin HasContext'
                 /\ \A u \in Task : u # v => d[u] # d[v]
      <3>1. NULL # t
        BY <1>4, Constants
      <3>2. CASE v = me
        BY <1>4, <1>6, <1>9, <2>1, <3>1, <3>2
      <3>3. CASE v # me
        <4>1. d[v] = c[v] /\ c[v] # t /\ c[v] # NULL
          BY <1>9, <2>2, <3>3
        <4>2. v \in HasContext /\ c[v] \notin HasContext /\ \A u \in Task : u # v => c[u] # c[v]
          BY <1>1, <4>1 DEF Promised
        <4> QED BY <1>4, <1>9, <4>1, <4>2
      <3> QED BY <3>2, <3>3
    <2> QED BY <1>3, <1>4, <1>6, <2>2 DEF Promised
  <1> QED BY <1>12, <1>13 DEF Makers

LEMMA MakersKept ==
  ASSUME IInv, IInv', Makers, Dawn, ~ResumeAtElr, "restore" \notin IrqPoints, [Next]_vars
  PROVE  Makers'
  <1>1. CASE ~Create /\ ~UserCreate
    <2>1. PICK c \in [Task -> Task \cup {NULL}] : StacksIn(MakerStacks(c)) /\ Promised(c)
      BY DEF Makers
    <2>2. PICK Q : Q = MakerStacks(c)
      OBVIOUS
    <2>3. StacksIn(Q)'
      BY <1>1, <2>1, <2>2, MakerClosed, KernelStacksBut
    <2>4. StacksIn(MakerStacks(c))'
      BY <2>2, <2>3
    <2>5. HasContext' = HasContext /\ (current # NULL => current' # NULL)
      BY <1>1, ContextsStay
    <2>6. Promised(c)'
      BY <2>1, <2>5 DEF Promised
    <2> QED BY <2>4, <2>6 DEF Makers
  <1> QED BY <1>1, MakersCreate, MakersUser

(* The task that eos_create_task is called for does not exist.             *)
LEMMA CreatesNew ==
  ASSUME IInv, Makers, Dawn, At("create")
  PROVE  Top.task \in Task /\ Top.task \notin HasContext
  <1>1. Top.task \in Task
    BY TopFrame DEF At, FrameOK
  <1>2. CASE current = NULL
    BY <1>1, <1>2 DEF Dawn
  <1>3. CASE current # NULL
    <2>1. PICK c \in [Task -> Task \cup {NULL}] : StacksIn(MakerStacks(c)) /\ Promised(c)
      BY DEF Makers
    <2>2. PICK Q : Q = MakerStacks(c)
      OBVIOUS
    <2>3. current \in Task /\ cpu \in Q[current]
      BY <1>3, <2>1, <2>2, MakerClosed, CurrentStack DEF At
    <2>4. cpu \in MakerStack(current, c[current]) /\ 1 \in 1 .. Len(cpu)
      BY <2>2, <2>3, CpuStack DEF MakerStacks
    <2>5. Top.task = c[current]
      BY <2>4 DEF MakerStack, At, Top
    <2> QED BY <1>1, <2>1, <2>3, <2>5, Constants DEF Promised
  <1> QED BY <1>2, <1>3

(* What the invariants below need to know of the stacks. *)
Frames == IInv /\ Calm /\ Interlock /\ Dawn /\ Makers

LEMMA FramesInit ==
  ASSUME Init
  PROVE  Frames
  <1>1. IInv
    BY InitIInv
  <1>2. cpu = <<Frame("boot")>> /\ current = NULL /\ ctx = [t \in Task |-> <<>>] /\ HasContext = {}
    BY DEF Init, HasContext
  <1>3. Tail(cpu) = <<>> /\ Len(cpu) = 1 /\ cpu[1].pc = "boot" /\ Len(<<>>) = 0
        /\ 1 .. 0 = {} /\ \A i \in 1 .. 1 : i = 1
    BY <1>2 DEF Frame, TaskFrame
  <1>4. Calm
    BY <1>2, <1>3 DEF Calm, CalmIn, Holding
  <1>5. Interlock
    BY <1>3 DEF Interlock, Holding, OnlyUnlocked
  <1>6. Dawn
    BY <1>2, <1>3 DEF Dawn, DawnStack, Holding, At, Top
  <1>7. Makers
    <2>1. PICK c \in [Task -> Task \cup {NULL}] : c = [t \in Task |-> NULL]
      OBVIOUS
    <2>2. StacksIn(MakerStacks(c)) /\ Promised(c)
      BY <2>1, InitStacks DEF Promised
    <2> QED BY <2>2 DEF Makers
  <1> QED BY <1>1, <1>4, <1>5, <1>6, <1>7 DEF Frames

LEMMA FramesNext ==
  ASSUME Frames, ~ResumeAtElr, IrqPoints \cap Fragile = {}, [Next]_vars
  PROVE  Frames'
  <1>1. IInv /\ IInv' /\ "restore" \notin IrqPoints
    BY NextIInv DEF Frames, Fragile
  <1>2. StacksIn(OwnStacks)
    BY <1>1, MakersOwn DEF Frames, Makers
  <1>3. Calm' /\ Interlock' /\ Dawn' /\ Makers'
    BY <1>1, <1>2, CalmKept, InterlockKept, DawnKept, MakersKept DEF Frames
  <1> QED BY <1>1, <1>3 DEF Frames

-----------------------------------------------------------------------------
(* The ready queues with their bitmap, for the tasks where h puts them.    *)
NoQueue == -1
Homes == [Task -> Priority \cup {NoQueue}]

Inmates(h, p) == {t \in Task : h[t] = p}

Placed(h) ==
  /\ \A p \in Priority : /\ RingOf(List(ready[p]), Inmates(h, p))
                         /\ p \in ReadyPriorities(bits) <=> ready[p] # NULL
  /\ \A t \in Task : h[t] = NoQueue => links.next[t] = NULL /\ links.prev[t] = NULL

LEMMA HomesOK ==
  ASSUME IInv
  PROVE  /\ NULL \notin Task /\ Priority \subseteq Int /\ NoQueue \notin Priority
         /\ links \in LinksOver(Task) /\ ready \in [Priority -> Pointer(Task)]
         /\ \A h \in Pointer(Task) : List(h) \in ListOver(Task, Task)
         /\ bits \in Bitmap /\ GroupSummarises(bits)
  <1>1. NoQueue \notin Priority
    BY DEF NoQueue, Priority
  <1>2. links \in LinksOver(Task) /\ ready \in [Priority -> Pointer(Task)]
    BY DEF IInv, Pointers, LinksOver, Pointer, HasContext
  <1>3. \A h \in Pointer(Task) : List(h) \in ListOver(Task, Task)
    BY <1>2, ListOK
  <1> QED BY <1>1, <1>2, <1>3, Constants, PriorityInt DEF IInv, BitmapSound

(* A call on the ready queue of p moves t in or out of it. *)
LEMMA Moved ==
  ASSUME IInv, IInv', NEW h \in Homes, NEW g \in Homes, Placed(h), NEW t \in Task,
         NEW p \in Priority, \A u \in Task : u # t => g[u] = h[u],
         {h[t], g[t]} = {p, NoQueue},
         RingOf(List(ready[p])', Inmates(g, p)),
         \A x \in Task \ (Inmates(h, p) \cup {t}) :
           links'.next[x] = links.next[x] /\ links'.prev[x] = links.prev[x],
         \A q \in Priority : q # p => ready'[q] = ready[q],
         \A q \in Priority : q \in ReadyPriorities(bits') <=> ready'[q] # NULL,
         g[t] = NoQueue => links'.next[t] = NULL /\ links'.prev[t] = NULL
  PROVE  Placed(g)'
  <1>1. p # NoQueue
    BY HomesOK
  <1>2. ASSUME NEW q \in Priority, q # p
        PROVE  RingOf(List(ready[q])', Inmates(g, q))
    <2>1. Inmates(g, q) = Inmates(h, q) /\ q # NoQueue
      BY <1>2, HomesOK DEF Inmates
    <2>2. RingOf(List(ready[q]), Inmates(h, q))
      BY DEF Placed
    <2>3. PICK m, l : m = List(ready[q])' /\ l = List(ready[q])
      OBVIOUS
    <2>4. m.head = l.head
      BY <1>2, <2>3 DEF List
    <2>5. \A x \in Inmates(h, q) : m.next[x] = l.next[x] /\ m.prev[x] = l.prev[x]
      BY <1>2, <2>1, <2>3 DEF List, Inmates
    <2> QED BY <2>1, <2>2, <2>3, <2>4, <2>5, RingKept
  <1>3. ASSUME NEW u \in Task, g[u] = NoQueue
        PROVE  links'.next[u] = NULL /\ links'.prev[u] = NULL
    <2>1. CASE u = t
      BY <1>3, <2>1
    <2>2. CASE u # t
      <3>1. h[u] = NoQueue /\ u \notin Inmates(h, p)
        BY <1>1, <1>3, <2>2 DEF Inmates
      <3> QED BY <2>2, <3>1 DEF Placed
    <2> QED BY <2>1, <2>2
  <1>4. \A q \in Priority : RingOf(List(ready[q])', Inmates(g, q))
    BY <1>2
  <1> QED BY <1>3, <1>4 DEF Placed

LEMMA EnqueuePlaced ==
  ASSUME IInv, IInv', NEW h \in Homes, NEW g \in Homes, Placed(h), NEW t \in Task,
         NEW p \in Priority, h[t] = NoQueue, g[t] = p, \A u \in Task : u # t => g[u] = h[u],
         Enqueue(List(NULL), t, p)
  PROVE  Placed(g)'
  <1>1. /\ NULL \notin Task /\ NoQueue \notin Priority /\ ready[p] \in Pointer(Task)
        /\ List(ready[p]) \in ListOver(Task, Task) /\ ready \in [Priority -> Pointer(Task)]
        /\ bits \in Bitmap /\ GroupSummarises(bits)
    BY HomesOK
  <1>2. PICK l, S, m : l = List(ready[p]) /\ S = Inmates(h, p) /\ m = AddNodeTail(l, t)
    OBVIOUS
  <1>3. l \in ListOver(Task, Task) /\ S \in SUBSET Task /\ t \notin S /\ RingOf(l, S)
    BY <1>1, <1>2 DEF Inmates, Placed
  <1>4. RingOf(m, S \cup {t}) /\ LinksKept(l, m, Task, S \cup {t}) /\ m.head # NULL
    BY <1>1, <1>2, <1>3, AddNodeTailRing
  <1>5. [List(NULL) EXCEPT !.head = ready[p]] = l
    BY <1>2 DEF List
  <1>6. links' = Links(m) /\ ready' = [ready EXCEPT ![p] = m.head] /\ bits' = SetReady(bits, p)
    BY <1>2, <1>5 DEF Enqueue
  <1>7. Inmates(g, p) = S \cup {t}
    BY <1>1, <1>2 DEF Inmates
  <1>8. RingOf(List(ready[p])', Inmates(g, p))
    <2>1. PICK r : r = List(ready[p])'
      OBVIOUS
    <2>2. r.head = m.head /\ r.next = m.next /\ r.prev = m.prev
      BY <1>1, <1>6, <2>1 DEF List, Links
    <2> QED BY <1>4, <1>7, <2>1, <2>2, RingKept
  <1>9. \A x \in Task \ (S \cup {t}) :
          links'.next[x] = links.next[x] /\ links'.prev[x] = links.prev[x]
    BY <1>2, <1>4, <1>6 DEF LinksKept, List, Links
  <1>10. \A q \in Priority : q # p => ready'[q] = ready[q]
    BY <1>1, <1>6
  <1>11. \A q \in Priority : q \in ReadyPriorities(bits') <=> ready'[q] # NULL
    <2>1. ReadyPriorities(bits') = ReadyPriorities(bits) \cup {p}
      BY <1>1, <1>6, SetReadyCorrect
    <2>2. ready'[p] # NULL
      BY <1>1, <1>4, <1>6
    <2> QED BY <1>10, <2>1, <2>2 DEF Placed
  <1>12. {h[t], g[t]} = {p, NoQueue} /\ g[t] # NoQueue
    BY <1>1
  <1> QED BY <1>2, <1>8, <1>9, <1>10, <1>11, <1>12, Moved

LEMMA DequeuePlaced ==
  ASSUME IInv, IInv', NEW h \in Homes, NEW g \in Homes, Placed(h), NEW t \in Task,
         h[t] = priority[t], g[t] = NoQueue, \A u \in Task : u # t => g[u] = h[u],
         DequeueReady(t)
  PROVE  Placed(g)'
  <1>0. PICK p \in Priority : p = priority[t]
    BY DEF IInv, Values
  <1>1. /\ NULL \notin Task /\ NoQueue \notin Priority /\ ready[p] \in Pointer(Task)
        /\ List(ready[p]) \in ListOver(Task, Task) /\ ready \in [Priority -> Pointer(Task)]
        /\ bits \in Bitmap /\ GroupSummarises(bits)
    BY HomesOK
  <1>2. PICK l, S, m : l = List(ready[p]) /\ S = Inmates(h, p) /\ m = RemoveNode(l, t)
    OBVIOUS
  <1>3. l \in ListOver(Task, Task) /\ S \in SUBSET Task /\ t \in S /\ RingOf(l, S)
    BY <1>0, <1>1, <1>2 DEF Inmates, Placed
  <1>4. RingOf(m, S \ {t}) /\ LinksKept(l, m, Task, S) /\ m.next[t] = NULL /\ m.prev[t] = NULL
    BY <1>1, <1>2, <1>3, RemoveNodeRing
  <1>6. /\ links' = Links(m) /\ ready' = [ready EXCEPT ![p] = m.head]
        /\ bits' = IF m.head = NULL THEN UnsetReady(bits, p) ELSE bits
    BY <1>0, <1>2 DEF DequeueReady
  <1>7. Inmates(g, p) = S \ {t}
    BY <1>1, <1>2 DEF Inmates
  <1>8. RingOf(List(ready[p])', Inmates(g, p))
    <2>1. PICK r : r = List(ready[p])'
      OBVIOUS
    <2>2. r.head = m.head /\ r.next = m.next /\ r.prev = m.prev
      BY <1>1, <1>6, <2>1 DEF List, Links
    <2> QED BY <1>4, <1>7, <2>1, <2>2, RingKept
  <1>9. \A x \in Task \ (S \cup {t}) :
          links'.next[x] = links.next[x] /\ links'.prev[x] = links.prev[x]
    BY <1>2, <1>4, <1>6 DEF LinksKept, List, Links
  <1>10. \A q \in Priority : q # p => ready'[q] = ready[q]
    BY <1>1, <1>6
  <1>11. \A q \in Priority : q \in ReadyPriorities(bits') <=> ready'[q] # NULL
    <2>1. ready'[p] = m.head /\ (p \in ReadyPriorities(bits) <=> ready[p] # NULL)
      BY <1>1, <1>6 DEF Placed
    <2>2. p \in ReadyPriorities(bits)
      BY <1>2, <1>3, <2>1 DEF RingOf, List
    <2>3. CASE m.head = NULL
      <3>1. ReadyPriorities(bits') = ReadyPriorities(bits) \ {p}
        BY <1>1, <1>6, <2>3, UnsetReadyCorrect
      <3> QED BY <1>10, <2>1, <2>3, <3>1 DEF Placed
    <2>4. CASE m.head # NULL
      BY <1>6, <1>10, <2>1, <2>2, <2>4 DEF Placed
    <2> QED BY <2>3, <2>4
  <1>12. {h[t], g[t]} = {p, NoQueue}
    BY <1>0
  <1>13. links'.next[t] = NULL /\ links'.prev[t] = NULL
    BY <1>4, <1>6 DEF Links
  <1> QED BY <1>2, <1>8, <1>9, <1>10, <1>11, <1>12, <1>13, Moved

-----------------------------------------------------------------------------
(* Where every task belongs.                                               *)

(* A task that is in its queue already, or no longer, while its status     *)
(* says otherwise.                                                         *)
Joining ==
  IF Top.pc \in {"created", "resumed", "woken"} THEN {Top.task}
  ELSE IF At("mark_ready") THEN {current} ELSE {}
Leaving == IF Top.pc \in {"run", "suspended", "reinsert"} THEN {Top.task} ELSE {}

Queued == (TasksThat("READY") \cup Joining) \ Leaving
PriorityOf(t) == IF At("set_priority") /\ t = Top.task THEN Top.num ELSE priority[t]

Home == [t \in Task |-> IF t \in Queued THEN PriorityOf(t) ELSE NoQueue]
Placing == Placed(Home)

(* The alarm queue is a ring, and only waiting tasks are in it. *)
Ticking ==
  /\ \E S \in SUBSET Task :
       /\ RingOf(alarms, S)
       /\ \A t \in Task \ S : alarms.next[t] = NULL /\ alarms.prev[t] = NULL
       /\ \A t \in S : status[t] = "WAITING" \/ (At("doze") /\ t = current)
  /\ \A t \in Task : owner[t] = NULL

(* The statuses, and what the kernel does with them. *)
SwitchLabel == {"save", "pick", "unqueue", "run"}
Roles ==
  /\ \A t \in Task : status[t] = "RUNNING" => t = current
  /\ current # NULL /\ status[current] # "RUNNING" =>
       Top.pc \in {"schedule", "trigger"} \cup SwitchLabel /\ lock = "UNLOCKED"
  /\ current # NULL /\ Top.pc \in SwitchLabel => status[current] # "RUNNING"
  /\ Top.pc \in {"created", "resumed", "woken"} => status[Top.task] \in {"NEW", "SUSPENDED"}
  /\ Top.pc \in {"unqueue", "run", "suspended", "reinsert"} => status[Top.task] = "READY"

(* Where eos_schedule has still to look for a task of higher priority. *)
Choosing == {"schedule", "trigger", "requeue", "mark_ready"} \cup SwitchLabel
NoneAbove(t) == \A u \in TasksThat("READY") : priority[t] <= priority[u]
Foremost ==
  /\ Top.pc \in {"unqueue", "run"} => NoneAbove(Top.task)
  /\ lock = "UNLOCKED" /\ current # NULL /\ Top.pc \notin Choosing => NoneAbove(current)

Order == Placing /\ Ticking /\ Roles /\ Foremost

(* A label at which the queues and the statuses agree. *)
Unsettled ==
  {"created", "resumed", "woken", "mark_ready", "run", "suspended", "reinsert", "set_priority"}

LEMMA HomeAt ==
  ASSUME IInv
  PROVE  /\ Home \in Homes
         /\ \A t \in Task : Home[t] = IF t \in Queued THEN PriorityOf(t) ELSE NoQueue
  <1>1. ASSUME NEW t \in Task PROVE PriorityOf(t) \in Priority
    BY TopFrame DEF PriorityOf, IInv, Values, At, FrameOK
  <1> QED BY <1>1 DEF Home, Homes

LEMMA SettledHome ==
  ASSUME IInv, Top.pc \notin Unsettled
  PROVE  \A t \in Task : Home[t] = IF status[t] = "READY" THEN priority[t] ELSE NoQueue
  BY HomeAt DEF Queued, Joining, Leaving, PriorityOf, Unsettled, TasksThat, At

(* The same of the next state. *)
LEMMA HomeNext ==
  ASSUME IInv'
  PROVE  /\ Home' \in Homes
         /\ \A t \in Task :
              Home'[t] = IF t \in Queued' THEN PriorityOf(t)' ELSE NoQueue
  <1>1. ASSUME NEW t \in Task PROVE PriorityOf(t)' \in Priority
    BY StackTop DEF PriorityOf, IInv, Values, At, FrameOK, Executing, Top
  <1> QED BY <1>1 DEF Home, Homes

LEMMA SettledNext ==
  ASSUME IInv', Top'.pc \notin Unsettled
  PROVE  \A t \in Task : Home'[t] = IF status'[t] = "READY" THEN priority'[t] ELSE NoQueue
  BY HomeNext DEF Queued, Joining, Leaving, PriorityOf, Unsettled, TasksThat, At

(* The queues and the homes are the same. *)
LEMMA SamePlaces ==
  ASSUME IInv, IInv', Placing, UNCHANGED <<links, ready, bits>>,
         \A t \in Task : Home'[t] = Home[t]
  PROVE  Placing'
  <1>1. PICK h, g : h = Home /\ g = Home'
    OBVIOUS
  <1>2. h \in Homes /\ g \in Homes
    BY <1>1, HomeAt, HomeNext
  <1>3. g = h
    BY <1>1, <1>2 DEF Homes
  <1>4. Placed(h)
    BY <1>1 DEF Placing
  <1>5. Placed(h)'
    BY <1>4 DEF Placed, List
  <1> QED BY <1>1, <1>3, <1>5 DEF Placing

LEMMA JoinPlaces ==
  ASSUME IInv, IInv', Placing, NEW t \in Task, NEW p \in Priority, Home[t] = NoQueue,
         Home'[t] = p, \A u \in Task : u # t => Home'[u] = Home[u], Enqueue(List(NULL), t, p)
  PROVE  Placing'
  <1>1. PICK h, g : h = Home /\ g = Home'
    OBVIOUS
  <1>2. h \in Homes /\ g \in Homes
    BY <1>1, HomeAt, HomeNext
  <1>3. Placed(h)
    BY <1>1 DEF Placing
  <1>4. Placed(g)'
    BY <1>1, <1>2, <1>3, EnqueuePlaced
  <1> QED BY <1>1, <1>4 DEF Placing

LEMMA LeavePlaces ==
  ASSUME IInv, IInv', Placing, NEW t \in Task, Home[t] = priority[t], Home'[t] = NoQueue,
         \A u \in Task : u # t => Home'[u] = Home[u], DequeueReady(t)
  PROVE  Placing'
  <1>1. PICK h, g : h = Home /\ g = Home'
    OBVIOUS
  <1>2. h \in Homes /\ g \in Homes
    BY <1>1, HomeAt, HomeNext
  <1>3. Placed(h)
    BY <1>1 DEF Placing
  <1>4. Placed(g)'
    BY <1>1, <1>2, <1>3, DequeuePlaced
  <1> QED BY <1>1, <1>4 DEF Placing

(* The alarms are left alone, and no task stops waiting. *)
LEMMA SameAlarms ==
  ASSUME Ticking, UNCHANGED <<alarms, owner>>, Top.pc # "doze",
         \A t \in Task : status[t] = "WAITING" => status'[t] = "WAITING"
  PROVE  Ticking'
  <1>1. PICK S \in SUBSET Task :
          /\ RingOf(alarms, S)
          /\ \A t \in Task \ S : alarms.next[t] = NULL /\ alarms.prev[t] = NULL
          /\ \A t \in S : status[t] = "WAITING" \/ (At("doze") /\ t = current)
    BY DEF Ticking
  <1>2. \A t \in S : status'[t] = "WAITING"
    BY <1>1 DEF At
  <1>3. RingOf(alarms, S)' /\ \A t \in Task \ S : alarms'.next[t] = NULL /\ alarms'.prev[t] = NULL
    BY <1>1 DEF RingOf
  <1>4. \A t \in Task : owner'[t] = NULL
    BY DEF Ticking
  <1> QED BY <1>2, <1>3, <1>4 DEF Ticking

(* A step that changes no status, priority or queue, and the label it goes *)
(* on at.                                                                  *)
Still == UNCHANGED <<status, priority, owner, links, ready, bits, alarms, current>>

LEMMA StillOrder ==
  ASSUME IInv, IInv', Order, Still, Top.pc \notin Unsettled \cup {"doze"},
         Top'.pc \notin Unsettled \cup {"unqueue"},
         current # NULL =>
           \/ /\ status[current] = "RUNNING" /\ Top'.pc \notin SwitchLabel
              /\ \/ lock' = "LOCKED" \/ Top'.pc \in Choosing
                 \/ lock = "UNLOCKED" /\ Top.pc \notin Choosing
           \/ /\ status[current] # "RUNNING" /\ lock' = "UNLOCKED"
              /\ Top'.pc \in {"schedule", "trigger", "save", "pick"}
  PROVE  Order'
  <1>1. Placing'
    BY SettledHome, SettledNext, SamePlaces DEF Still, Order
  <1>2. Ticking'
    BY SameAlarms DEF Still, Order
  <1>3. Roles'
    BY DEF Still, Order, Roles, SwitchLabel, Unsettled
  <1>4. Foremost'
    BY DEF Still, Order, Foremost, NoneAbove, TasksThat, SwitchLabel, Unsettled, Choosing
  <1> QED BY <1>1, <1>2, <1>3, <1>4 DEF Order

LEMMA StepTop ==
  ASSUME IInv, IInv', NEW f, Step(f)
  PROVE  Top' = f
  BY NewTop, CpuStack DEF Step, Top

LEMMA GotoTop ==
  ASSUME IInv, IInv', NEW l, Goto(l)
  PROVE  Top'.pc = l /\ Top'.task = Top.task /\ Top'.num = Top.num
  <1>1. PICK f : f = [Top EXCEPT !.pc = l]
    OBVIOUS
  <1>2. f.pc = l /\ f.task = Top.task /\ f.num = Top.num
    BY <1>1, CpuStack DEF FrameType
  <1>3. Top' = f
    BY <1>1, StepTop DEF Goto
  <1> QED BY <1>2, <1>3

LEMMA CallTop ==
  ASSUME IInv, IInv', NEW f, NEW l, Call(f, l)
  PROVE  Top' = f
  <1>1. PICK g : g = [Top EXCEPT !.pc = l]
    OBVIOUS
  <1>2. /\ f \in FrameType /\ cpu' = <<f>> \o (<<g>> \o Tail(cpu)) /\ g \in FrameType
        /\ Tail(cpu) \in Seq(FrameType)
    BY <1>1, CallIsPush, CpuStack
  <1>3. PICK s : s = <<g>> \o Tail(cpu)
    OBVIOUS
  <1>4. s \in Seq(FrameType)
    BY <1>2, <1>3
  <1> QED BY <1>2, <1>3, <1>4, NewTop DEF Top

(* What a return, or the loading of a context, goes on at.                 *)
LEMMA ReturnTopIn ==
  ASSUME IInv, IInv', NEW L, CalmIn(L), Return
  PROVE  Top'.pc \notin L
  <1>1. PICK s : s = cpu'
    OBVIOUS
  <1>2. s = Tail(cpu) /\ s \in Seq(FrameType) /\ s # <<>> /\ Top' = s[1]
    BY <1>1 DEF Return, IInv, Executing, StackOK, Top
  <1>3. \A M : Holding(s, M) <=> s[1].pc \in M \/ Holding(Tail(s), M)
    BY <1>2, HoldingSplit
  <1>4. ~Holding(s, L)
    BY <1>2 DEF CalmIn
  <1> QED BY <1>2, <1>3, <1>4

LEMMA RestoreTopIn ==
  ASSUME IInv, IInv', NEW L, CalmIn(L), RestoreContext
  PROVE  Top'.pc \notin L
  <1>1. PICK s : s = cpu'
    OBVIOUS
  <1>2. Top.task \in Task /\ s = ctx[Top.task]
    BY <1>1, TopFrame DEF RestoreContext, At, FrameOK, HasContext
  <1>3. s \in Seq(FrameType) /\ s # <<>> /\ Top' = s[1] /\ ~Holding(s, L)
    BY <1>1, <1>2 DEF IInv, Executing, StackOK, Top, CalmIn
  <1> QED BY <1>3, HoldingSplit

LEMMA ReturnTop ==
  ASSUME IInv, IInv', Calm, Return
  PROVE  Top'.pc \notin Fragile
  BY ReturnTopIn DEF Calm

Base == Frames /\ Order

LEMMA CalmStill ==
  ASSUME Base, IInv', Still, Top.pc \notin Choosing \cup Unsettled \cup {"doze"},
         Top'.pc \notin Unsettled \cup SwitchLabel,
         lock' = lock \/ lock' = "LOCKED" \/ Top'.pc \in Choosing
  PROVE  Order'
  <1>1. lock \in {"LOCKED", "UNLOCKED"}
    BY DEF Base, Frames, IInv, Values
  <1>2. current # NULL => status[current] = "RUNNING"
    BY DEF Base, Order, Roles, Choosing
  <1> QED BY <1>1, <1>2, StillOrder DEF Base, Frames, SwitchLabel

LEMMA BootOrder ==
  ASSUME Base, IInv', Boot
  PROVE  Order'
  <1>1. Still /\ Top.pc \in {"boot", "user_main"}
    BY DEF Boot, BootIdle, UserMain, StartMultitasking, At, Still, kernel, tcb, queues, timer,
       sched
  <1>2. CASE BootIdle \/ UserMain
    <2>1. PICK f, l : Call(f, l) /\ f.pc = "create"
      BY <1>2, CreateCall DEF Base, Frames
    <2>2. Top'.pc = "create" /\ lock' = lock
      BY <1>2, <2>1, CallTop DEF Base, Frames, BootIdle, UserMain, kernel, sched
    <2> QED BY <1>1, <2>2, CalmStill DEF Choosing, Unsettled, SwitchLabel
  <1>3. CASE StartMultitasking
    <2>1. PICK f, l : Call(f, l) /\ f.pc = "schedule"
      BY <1>3 DEF StartMultitasking, Frame, TaskFrame
    <2>2. Top'.pc = "schedule"
      BY <2>1, CallTop DEF Base, Frames
    <2> QED BY <1>1, <2>2, CalmStill DEF Choosing, Unsettled, SwitchLabel
  <1> QED BY <1>2, <1>3 DEF Boot

LEMMA UserOrder ==
  ASSUME Base, IInv', UserStep
  PROVE  Order'
  <1>1. Still /\ Top.pc \in {"user", "idle", "user_main"}
    BY DEF UserStep, Compute, UserSleep, SetPeriod, UserChangePriority, UserSuspend,
       UserResume, UserCreate, UserCall, LockScheduler, RestoreScheduler, vars, kernel,
       Still, tcb, queues, timer, sched, At
  <1>2. \/ Top' = Top /\ (lock' = lock \/ lock' = "LOCKED")
        \/ \E f, l : /\ Call(f, l) /\ f.pc \in {"sleep", "change_priority", "suspend", "resume",
                                                "create", "schedule"}
                     /\ lock' = lock \/ f.pc = "schedule"
    <2>1. CASE Compute \/ SetPeriod \/ LockScheduler
      BY <2>1 DEF Compute, SetPeriod, LockScheduler, vars, kernel, sched, Top
    <2>2. CASE UserSleep \/ UserChangePriority \/ UserSuspend \/ UserResume
      BY <2>2 DEF UserSleep, UserChangePriority, UserSuspend, UserResume, UserCall, kernel, sched,
         TaskFrame
    <2>3. CASE UserCreate
      BY <2>3 DEF UserCreate, CallCreate, kernel, sched, TaskFrame
    <2>4. CASE RestoreScheduler
      BY <2>4 DEF RestoreScheduler, Frame, TaskFrame
    <2> QED BY <2>1, <2>2, <2>3, <2>4 DEF UserStep
  <1>3. \/ Top' = Top /\ (lock' = lock \/ lock' = "LOCKED")
        \/ /\ Top'.pc \in {"sleep", "change_priority", "suspend", "resume", "create", "schedule"}
           /\ lock' = lock \/ Top'.pc = "schedule"
    BY <1>2, CallTop DEF Base, Frames
  <1> QED BY <1>1, <1>3, CalmStill DEF Choosing, Unsettled, SwitchLabel

LEMMA SleepOrder ==
  ASSUME Base, IInv', Sleep \/ SleepDiff \/ IrqReturn
  PROVE  Order'
  <1>1. Still /\ Top.pc \in {"sleep", "sleep_diff", "irq_return"} /\ lock' = lock
    BY DEF Sleep, SleepDiff, IrqReturn, kernel, Still, tcb, queues, timer, sched, At
  <1>2. Top'.pc \notin Fragile
    <2>1. Return \/ Goto("arm") \/ Goto("sleep_diff")
          \/ Step([Top EXCEPT !.pc = "arm", !.num = (wakeup[current] - tick) % WORD])
      BY DEF Sleep, SleepDiff, IrqReturn
    <2>2. CASE Return
      BY <2>2, ReturnTop DEF Base, Frames
    <2>3. CASE Goto("arm") \/ Goto("sleep_diff")
      BY <2>3, GotoTop DEF Base, Frames, Fragile
    <2>4. CASE Step([Top EXCEPT !.pc = "arm", !.num = (wakeup[current] - tick) % WORD])
      <3>1. PICK f : f = [Top EXCEPT !.pc = "arm", !.num = (wakeup[current] - tick) % WORD]
        OBVIOUS
      <3>2. f.pc = "arm"
        BY <3>1, CpuStack DEF FrameType, Base, Frames
      <3> QED BY <2>4, <3>1, <3>2, StepTop DEF Base, Frames, Fragile
    <2> QED BY <2>1, <2>2, <2>3, <2>4
  <1> QED BY <1>1, <1>2, CalmStill DEF Choosing, Unsettled, SwitchLabel, Fragile

LEMMA TickOrder ==
  ASSUME Base, IInv', Interrupt \/ AlarmsDone, IrqPoints \cap Fragile = {}
  PROVE  Order'
  <1>1. Still /\ Top.pc \notin Fragile /\ lock' = lock
    BY DEF Interrupt, AlarmsDone, kernel, Still, tcb, queues, timer, sched, At, Fragile
  <1>2. Top'.pc \in {"trigger", "schedule"}
    <2>1. CASE AlarmsDone
      BY <2>1, CallTop DEF AlarmsDone, Base, Frames, Frame, TaskFrame
    <2>2. CASE Interrupt
      BY <2>2, NewTop, CpuStack DEF Interrupt, Base, Frames, Frame, TaskFrame, Top
    <2> QED BY <2>1, <2>2
  <1>3. current # NULL /\ status[current] # "RUNNING" => lock = "UNLOCKED"
    BY DEF Base, Order, Roles
  <1> QED BY <1>1, <1>2, <1>3, StillOrder
          DEF Base, Frames, Choosing, Unsettled, SwitchLabel, Fragile

LEMMA EntryOrder ==
  ASSUME Base, IInv', ScheduleEntry
  PROVE  Order'
  <1>1. Still /\ Top.pc = "schedule" /\ lock' = lock
    BY DEF ScheduleEntry, kernel, Still, tcb, queues, timer, sched, At
  <1>2. CASE Return /\ lock = "LOCKED"
    <2>1. Top'.pc \notin Fragile
      BY <1>2, ReturnTop DEF Base, Frames
    <2>2. current # NULL => status[current] = "RUNNING"
      BY <1>2 DEF Base, Order, Roles
    <2> QED BY <1>1, <1>2, <2>1, <2>2, StillOrder DEF Base, Frames, Unsettled, SwitchLabel,
               Fragile
  <1>3. CASE current = NULL /\ Goto("pick")
    <2>1. Top'.pc = "pick"
      BY <1>3, GotoTop DEF Base, Frames
    <2> QED BY <1>1, <1>3, <2>1, StillOrder DEF Base, Frames, Unsettled
  <1>4. CASE current # NULL /\ lock = "UNLOCKED" /\ status[current] = "RUNNING" /\ Goto("requeue")
    <2>1. Top'.pc = "requeue"
      BY <1>4, GotoTop DEF Base, Frames
    <2> QED BY <1>1, <1>4, <2>1, StillOrder DEF Base, Frames, Unsettled, SwitchLabel, Choosing
  <1>5. CASE current # NULL /\ lock = "UNLOCKED" /\ status[current] # "RUNNING" /\ Goto("save")
    <2>1. Top'.pc = "save"
      BY <1>5, GotoTop DEF Base, Frames
    <2> QED BY <1>1, <1>5, <2>1, StillOrder DEF Base, Frames, Unsettled
  <1> QED BY <1>2, <1>3, <1>4, <1>5 DEF ScheduleEntry

LEMMA SaveOrder ==
  ASSUME Base, IInv', SaveContext
  PROVE  Order'
  <1>1. Still /\ Top.pc = "save" /\ lock' = lock
    BY DEF SaveContext, Still, tcb, queues, timer, sched, At
  <1>2. Top'.pc = "pick"
    BY GotoTop DEF SaveContext, Base, Frames
  <1>3. current # NULL => status[current] # "RUNNING" /\ lock = "UNLOCKED"
    BY <1>1 DEF Base, Order, Roles, SwitchLabel
  <1> QED BY <1>1, <1>2, <1>3, StillOrder DEF Base, Frames, Unsettled

LEMMA RestoreOrder ==
  ASSUME Base, IInv', RestoreContext
  PROVE  Order'
  <1>1. Still /\ Top.pc = "restore" /\ lock' = lock
    BY DEF RestoreContext, Still, tcb, queues, timer, sched, At
  <1>2. Top'.pc \notin Fragile
    BY RestoreTopIn DEF Base, Frames, Calm
  <1> QED BY <1>1, <1>2, CalmStill DEF Choosing, Unsettled, SwitchLabel, Fragile

LEMMA StutterOrder ==
  ASSUME Base, UNCHANGED vars
  PROVE  Order'
  <1>1. Home' = Home
    BY DEF vars, kernel, tcb, queues, timer, sched, Home, Queued, Joining, Leaving, PriorityOf,
       TasksThat, At, Top
  <1>2. Placing'
    <2>1. PICK h : h = Home
      OBVIOUS
    <2>2. Placed(h)'
      BY <2>1 DEF Base, Order, Placing, Placed, List, vars, kernel, queues
    <2> QED BY <1>1, <2>1, <2>2 DEF Placing
  <1>3. Ticking' /\ Roles' /\ Foremost'
    BY DEF Base, Order, vars, kernel, tcb, queues, timer, sched, Ticking, Roles, Foremost,
       RingOf, NoneAbove, TasksThat, At, Top
  <1> QED BY <1>2, <1>3 DEF Order

(* eos_create_task: the task is in its queue, and not READY yet.           *)
LEMMA CreateOrder ==
  ASSUME Base, IInv', Create
  PROVE  Order'
  <1>1. PICK t, p : t = Top.task /\ p = Top.num
    OBVIOUS
  <1>2. /\ IInv /\ Top.pc = "create" /\ t \in Task /\ t \notin HasContext /\ p \in Priority
        /\ status[t] = "NEW" /\ status \in [Task -> Statuses] /\ t # current
        /\ priority \in [Task -> Priority]
    <2>1. IInv /\ Top.pc = "create" /\ t \in Task /\ t \notin HasContext
      BY <1>1, CreatesNew DEF Base, Frames, Create, At
    <2>2. p \in Priority
      BY <1>1, <2>1, TopFrame DEF FrameOK
    <2>3. t # current
      BY <2>1, Constants DEF IInv, Pointers, Pointer
    <2> QED BY <2>1, <2>2, <2>3 DEF IInv, Pointers, Values
  <1>3. Top'.pc = "created" /\ Top'.task = t
    BY <1>1, <1>2, GotoTop DEF Create
  <1>4. /\ priority' = [priority EXCEPT ![t] = p] /\ Enqueue(List(NULL), t, p)
        /\ UNCHANGED <<status, owner, alarms, current, lock>>
    BY <1>1 DEF Create, timer, sched
  <1>5. /\ Home[t] = NoQueue
        /\ \A u \in Task : Home[u] = IF status[u] = "READY" THEN priority[u] ELSE NoQueue
    BY <1>2, SettledHome DEF Unsettled
  <1>6. Home'[t] = p /\ \A u \in Task : u # t => Home'[u] = Home[u]
    BY <1>2, <1>3, <1>4, <1>5, HomeNext DEF Queued, Joining, Leaving, PriorityOf, TasksThat, At
  <1>7. Placing'
    BY <1>2, <1>4, <1>5, <1>6, JoinPlaces DEF Base, Order
  <1>8. Ticking'
    BY <1>2, <1>4, SameAlarms DEF Base, Order
  <1>9. Roles'
    BY <1>2, <1>3, <1>4 DEF Base, Order, Roles, SwitchLabel
  <1>10. Foremost'
    <2>1. \A u \in Task : u # t => priority'[u] = priority[u]
      BY <1>2, <1>4
    <2>2. current # NULL => current \in Task
      BY <1>2 DEF IInv, Pointers, Pointer, HasContext
    <2> QED BY <1>2, <1>3, <1>4, <2>1, <2>2
            DEF Base, Order, Foremost, Choosing, SwitchLabel, NoneAbove, TasksThat
  <1> QED BY <1>7, <1>8, <1>9, <1>10 DEF Order

(* The new, resumed or woken task becomes READY. *)
LEMMA BecomeReadyOrder ==
  ASSUME Base, IInv', BecomeReady
  PROVE  Order'
  <1>1. PICK t : t = Top.task
    OBVIOUS
  <1>2. /\ IInv /\ Top.pc \in {"created", "resumed", "woken"} /\ t \in Task
        /\ status[t] \in {"NEW", "SUSPENDED"} /\ status \in [Task -> Statuses]
        /\ (current # NULL => status[current] = "RUNNING")
    BY <1>1, TopFrame DEF Base, Frames, BecomeReady, FrameOK, HasContext, Order, Roles, IInv,
       Values, SwitchLabel
  <1>3. Top'.pc = "schedule"
    BY <1>2, StepTop DEF BecomeReady, Schedule, Frame, TaskFrame
  <1>4. /\ status' = [status EXCEPT ![t] = "READY"]
        /\ UNCHANGED <<priority, owner, alarms, current, lock, links, ready, bits>>
    BY <1>1 DEF BecomeReady, timer, sched, SetStatus, queues
  <1>5. \A u \in Task : Home'[u] = Home[u]
    BY <1>1, <1>2, <1>3, <1>4, HomeAt, SettledNext
       DEF Queued, Joining, Leaving, PriorityOf, TasksThat, At, Unsettled
  <1>6. Placing'
    BY <1>2, <1>4, <1>5, SamePlaces DEF Base, Order
  <1>7. Ticking'
    BY <1>2, <1>4, SameAlarms DEF Base, Order
  <1>8. Roles' /\ Foremost'
    BY <1>2, <1>3, <1>4 DEF Base, Order, Roles, SwitchLabel, Foremost, Choosing
  <1> QED BY <1>6, <1>7, <1>8 DEF Order

(* The task that runs goes back to the queue of its priority. *)
LEMMA RequeueOrder ==
  ASSUME Base, IInv', Requeue
  PROVE  Order'
  <1>1. PICK t, p : t = current /\ p = priority[t]
    OBVIOUS
  <1>2. /\ IInv /\ Top.pc = "requeue" /\ t \in Task /\ t # NULL /\ status[t] = "RUNNING"
        /\ p \in Priority
    BY <1>1, InTaskCode DEF Base, Frames, Requeue, EarlyLabel, At, Order, Roles, SwitchLabel,
       IInv, Values
  <1>3. Top'.pc = "mark_ready"
    BY <1>2, GotoTop DEF Requeue
  <1>4. /\ Enqueue(List(NULL), t, p)
        /\ UNCHANGED <<status, priority, owner, alarms, current, lock>>
    BY <1>1 DEF Requeue, tcb, timer, sched, EnqueueReady
  <1>5. /\ Home[t] = NoQueue
        /\ \A u \in Task : Home[u] = IF status[u] = "READY" THEN priority[u] ELSE NoQueue
    BY <1>2, SettledHome DEF Unsettled
  <1>6. Home'[t] = p /\ \A u \in Task : u # t => Home'[u] = Home[u]
    BY <1>1, <1>2, <1>3, <1>4, <1>5, HomeNext
       DEF Queued, Joining, Leaving, PriorityOf, TasksThat, At
  <1>7. Placing'
    BY <1>2, <1>4, <1>5, <1>6, JoinPlaces DEF Base, Order
  <1>8. Ticking'
    BY <1>2, <1>4, SameAlarms DEF Base, Order
  <1>9. Roles' /\ Foremost'
    BY <1>1, <1>2, <1>3, <1>4 DEF Base, Order, Roles, SwitchLabel, Foremost, Choosing
  <1> QED BY <1>7, <1>8, <1>9 DEF Order

LEMMA UnlockedAt ==
  ASSUME Base, Top.pc \in OnlyUnlocked
  PROVE  lock = "UNLOCKED"
  BY HoldingCpu DEF Base, Frames, Interlock, IInv, Values

LEMMA MarkReadyOrder ==
  ASSUME Base, IInv', MarkReady
  PROVE  Order'
  <1>1. PICK t : t = current
    OBVIOUS
  <1>2. /\ IInv /\ Top.pc = "mark_ready" /\ t \in Task /\ t # NULL /\ status[t] = "RUNNING"
        /\ lock = "UNLOCKED" /\ status \in [Task -> Statuses]
    BY <1>1, InTaskCode, UnlockedAt DEF Base, Frames, MarkReady, EarlyLabel, At, Order, Roles,
       SwitchLabel, IInv, Values, OnlyUnlocked
  <1>3. Top'.pc = "save"
    BY <1>2, GotoTop DEF MarkReady
  <1>4. /\ status' = [status EXCEPT ![t] = "READY"]
        /\ UNCHANGED <<priority, owner, alarms, current, lock, links, ready, bits>>
    BY <1>1 DEF MarkReady, timer, sched, SetStatus, queues
  <1>5. \A u \in Task : Home'[u] = Home[u]
    BY <1>1, <1>2, <1>3, <1>4, HomeAt, SettledNext
       DEF Queued, Joining, Leaving, PriorityOf, TasksThat, At, Unsettled
  <1>6. Placing'
    BY <1>2, <1>4, <1>5, SamePlaces DEF Base, Order
  <1>7. Ticking'
    BY <1>2, <1>4, SameAlarms DEF Base, Order
  <1>8. Roles' /\ Foremost'
    BY <1>1, <1>2, <1>3, <1>4 DEF Base, Order, Roles, SwitchLabel, Foremost, Choosing
  <1> QED BY <1>6, <1>7, <1>8 DEF Order

(* The head of the highest queue is a READY task, and none is above it.    *)
LEMMA PickOrder ==
  ASSUME Base, IInv', Pick
  PROVE  Order'
  <1>1. PICK t, p : t = ready[p] /\ p = HighestPriority(bits)
    OBVIOUS
  <1>2. /\ IInv /\ Top.pc = "pick" /\ t # NULL /\ bits \in Bitmap /\ GroupSummarises(bits)
        /\ Still /\ lock' = lock /\ status \in [Task -> Statuses]
    BY <1>1 DEF Base, Frames, Pick, At, kernel, tcb, queues, timer, sched, Still, IInv,
       BitmapSound, Values
  <1>3. p \in Priority
    BY <1>1, <1>2, HighestPriorityType
  <1>4. \A u \in Task : Home[u] = IF status[u] = "READY" THEN priority[u] ELSE NoQueue
    BY <1>2, SettledHome DEF Unsettled
  <1>5. \A q \in Priority :
          /\ RingOf(List(ready[q]), Inmates(Home, q))
          /\ q \in ReadyPriorities(bits) <=> ready[q] # NULL
    BY DEF Base, Order, Placing, Placed
  <1>6. t \in Inmates(Home, p)
    BY <1>1, <1>2, <1>3, <1>5 DEF RingOf, List
  <1>7. t \in Task /\ status[t] = "READY" /\ priority[t] = p
    BY <1>2, <1>3, <1>4, <1>6, HomesOK DEF Inmates
  <1>8. ASSUME NEW u \in TasksThat("READY")
        PROVE  p <= priority[u]
    <2>1. PICK q \in Priority : q = priority[u]
      BY <1>2 DEF IInv, Values, TasksThat
    <2>2. u \in Inmates(Home, q)
      BY <1>4, <2>1 DEF Inmates, TasksThat
    <2>3. ready[q] # NULL
      BY <1>5, <2>2 DEF RingOf, List
    <2>4. q \in ReadyPriorities(bits)
      BY <1>5, <2>3
    <2> QED BY <1>1, <1>2, <2>1, <2>4, HighestPriorityCorrect
  <1>9. Top'.pc = "unqueue" /\ Top'.task = t
    BY <1>1, <1>2, StepTop DEF Pick, TaskFrame
  <1>10. Placing'
    BY <1>2, <1>4, <1>9, SettledNext, SamePlaces DEF Base, Order, Still, Unsettled
  <1>11. Ticking'
    BY <1>2, SameAlarms DEF Base, Order, Still
  <1>12. Roles'
    BY <1>2, <1>7, <1>9 DEF Base, Order, Roles, SwitchLabel, Still
  <1>13. Foremost'
    BY <1>2, <1>7, <1>8, <1>9 DEF Foremost, NoneAbove, Still, TasksThat, Choosing, SwitchLabel
  <1> QED BY <1>10, <1>11, <1>12, <1>13 DEF Order

LEMMA UnqueueOrder ==
  ASSUME Base, IInv', Unqueue
  PROVE  Order'
  <1>1. PICK t : t = Top.task
    OBVIOUS
  <1>2. /\ IInv /\ Top.pc = "unqueue" /\ t \in Task /\ status[t] = "READY"
    BY <1>1, TopFrame DEF Base, Frames, Unqueue, At, FrameOK, HasContext, Order, Roles
  <1>3. Top'.pc = "run" /\ Top'.task = t
    BY <1>1, <1>2, GotoTop DEF Unqueue
  <1>4. /\ DequeueReady(t) /\ UNCHANGED <<status, priority, owner, alarms, current, lock>>
    BY <1>1 DEF Unqueue, tcb, timer, sched
  <1>5. \A u \in Task : Home[u] = IF status[u] = "READY" THEN priority[u] ELSE NoQueue
    BY <1>2, SettledHome DEF Unsettled
  <1>6. Home'[t] = NoQueue /\ \A u \in Task : u # t => Home'[u] = Home[u]
    BY <1>2, <1>3, <1>4, <1>5, HomeNext DEF Queued, Joining, Leaving, PriorityOf, TasksThat, At
  <1>7. Placing'
    BY <1>2, <1>4, <1>5, <1>6, LeavePlaces DEF Base, Order
  <1>8. Ticking'
    BY <1>2, <1>4, SameAlarms DEF Base, Order
  <1>9. Roles' /\ Foremost'
    BY <1>1, <1>2, <1>3, <1>4
       DEF Base, Order, Roles, SwitchLabel, Foremost, Choosing, NoneAbove, TasksThat
  <1> QED BY <1>7, <1>8, <1>9 DEF Order

LEMMA RunOrder ==
  ASSUME Base, IInv', Run
  PROVE  Order'
  <1>1. PICK t : t = Top.task
    OBVIOUS
  <1>2. /\ IInv /\ Top.pc = "run" /\ t \in Task /\ status[t] = "READY" /\ t # NULL
        /\ status \in [Task -> Statuses] /\ (current # NULL => status[current] # "RUNNING")
    BY <1>1, TopFrame, Constants DEF Base, Frames, Run, At, FrameOK, HasContext, Order, Roles,
       SwitchLabel, IInv, Values
  <1>3. Top'.pc = "restore"
    BY <1>1, <1>2, GotoTop DEF Run
  <1>4. /\ status' = [status EXCEPT ![t] = "RUNNING"] /\ current' = t
        /\ UNCHANGED <<priority, owner, alarms, lock, links, ready, bits>>
    BY <1>1 DEF Run, SetStatus, timer, queues
  <1>5. \A u \in Task : Home'[u] = Home[u]
    BY <1>1, <1>2, <1>3, <1>4, HomeAt, SettledNext
       DEF Queued, Joining, Leaving, PriorityOf, TasksThat, At, Unsettled
  <1>6. Placing'
    BY <1>2, <1>4, <1>5, SamePlaces DEF Base, Order
  <1>7. Ticking'
    BY <1>2, <1>4, SameAlarms DEF Base, Order
  <1>8. \A u \in Task : status'[u] = "RUNNING" => u = t
    <2>1. NULL \notin Task
      BY Constants
    <2>2. \A u \in Task : status[u] = "RUNNING" => u = current
      BY DEF Base, Order, Roles
    <2> QED BY <1>2, <1>4, <2>1, <2>2
  <1>9. Roles'
    BY <1>2, <1>3, <1>4, <1>8 DEF Roles, SwitchLabel
  <1>10. Foremost'
    BY <1>1, <1>2, <1>3, <1>4 DEF Base, Order, Foremost, Choosing, NoneAbove, TasksThat, SwitchLabel
  <1> QED BY <1>6, <1>7, <1>9, <1>10 DEF Order

-----------------------------------------------------------------------------
(* Alarms. *)

LEMMA AlarmsOK ==
  ASSUME IInv
  PROVE  NULL \notin Task /\ alarms \in ListOver(Task, Task)
  BY Constants DEF IInv, Pointers, ListOver, HasContext

(* The alarm at the head goes off: its task is queued and READY.           *)
LEMMA FireOrder ==
  ASSUME Base, IInv', FireAlarm
  PROVE  Order'
  <1>1. PICK S \in SUBSET Task :
          /\ RingOf(alarms, S)
          /\ \A u \in Task \ S : alarms.next[u] = NULL /\ alarms.prev[u] = NULL
          /\ \A u \in S : status[u] = "WAITING" \/ (At("doze") /\ u = current)
    BY DEF Base, Order, Ticking
  <1>2. PICK t, p, m : t = alarms.head /\ p = priority[t] /\ m = RemoveNode(alarms, t)
    OBVIOUS
  <1>3. /\ IInv /\ Top.pc = "trigger" /\ t \in S /\ t \in Task /\ status[t] = "WAITING"
        /\ status \in [Task -> Statuses] /\ p \in Priority /\ owner[t] = NULL
        /\ owner \in [Task -> WaitQueue \cup {NULL}]
    <2>1. IInv /\ Top.pc = "trigger" /\ t # NULL
      BY <1>2 DEF Base, Frames, FireAlarm, At, AlarmDue
    <2>2. t \in S
      BY <1>1, <1>2, <2>1 DEF RingOf
    <2> QED BY <1>1, <1>2, <2>1, <2>2 DEF At, IInv, Values, Base, Order, Ticking
  <1>4. /\ Enqueue(List(NULL), t, p) /\ alarms' = m /\ status' = [status EXCEPT ![t] = "READY"]
        /\ owner' = [owner EXCEPT ![t] = NULL] /\ UNCHANGED <<priority, current, lock, cpu>>
    BY <1>2, <1>3 DEF FireAlarm, sched
  <1>5. Top' = Top
    BY <1>4 DEF Top
  <1>6. Home[t] = NoQueue /\ Home'[t] = p /\ \A u \in Task : u # t => Home'[u] = Home[u]
    BY <1>2, <1>3, <1>4, <1>5, SettledHome, SettledNext DEF Unsettled
  <1>7. Placing'
    BY <1>3, <1>4, <1>6, JoinPlaces DEF Base, Order
  <1>8. Ticking'
    <2>1. /\ RingOf(m, S \ {t}) /\ LinksKept(alarms, m, Task, S)
          /\ m.next[t] = NULL /\ m.prev[t] = NULL
      <3>1. PICK l : l = alarms
        OBVIOUS
      <3>2. NULL \notin Task /\ l \in ListOver(Task, Task) /\ RingOf(l, S) /\ m = RemoveNode(l, t)
        BY <1>1, <1>2, <1>3, <3>1, AlarmsOK
      <3> QED BY <1>3, <3>1, <3>2, RemoveNodeRing
    <2>2. \A u \in Task \ (S \ {t}) : m.next[u] = NULL /\ m.prev[u] = NULL
      BY <1>1, <2>1 DEF LinksKept
    <2>3. \A u \in S \ {t} : status'[u] = "WAITING"
      BY <1>1, <1>3, <1>4 DEF At
    <2>4. \A u \in Task : owner'[u] = NULL
      BY <1>3, <1>4 DEF Base, Order, Ticking
    <2>5. PICK R \in SUBSET Task : R = S \ {t}
      OBVIOUS
    <2>6. RingOf(alarms', R)
      BY <1>4, <2>1, <2>5
    <2> QED BY <1>4, <2>2, <2>3, <2>4, <2>5, <2>6 DEF Ticking
  <1>9. Roles' /\ Foremost'
    BY <1>3, <1>4, <1>5 DEF Base, Order, Roles, SwitchLabel, Foremost, Choosing
  <1> QED BY <1>7, <1>8, <1>9 DEF Order

(* eos_sleep sets the alarm of the task that runs, and none is set.        *)
LEMMA ArmOrder ==
  ASSUME Base, IInv', Arm
  PROVE  Order'
  <1>1. PICK S \in SUBSET Task :
          /\ RingOf(alarms, S)
          /\ \A u \in Task \ S : alarms.next[u] = NULL /\ alarms.prev[u] = NULL
          /\ \A u \in S : status[u] = "WAITING" \/ (At("doze") /\ u = current)
    BY DEF Base, Order, Ticking
  <1>2. PICK t : t = current
    OBVIOUS
  <1>3. /\ IInv /\ Top.pc = "arm" /\ t \in Task /\ t # NULL /\ status[t] = "RUNNING"
    BY <1>2, InTaskCode DEF Base, Frames, Arm, EarlyLabel, At, Order, Roles, SwitchLabel
  <1>4. t \notin S
    BY <1>1, <1>3 DEF At
  <1>5. RemoveNode(alarms, t) = alarms
    BY <1>1, <1>3, <1>4, RemoveNodeUnlinked
  <1>6. alarms' = alarms \/ alarms' = AddNodeOrdered(alarms, t, timeout')
    BY <1>2, <1>5 DEF Arm, SetAlarm
  <1>7. UNCHANGED <<status, priority, owner, links, ready, bits, current, lock>>
    BY DEF Arm, tcb, queues, sched
  <1>8. Top'.pc = "doze"
    BY <1>3, GotoTop DEF Arm
  <1>9. Placing'
    BY <1>3, <1>7, <1>8, SettledHome, SettledNext, SamePlaces DEF Base, Order, Unsettled
  <1>10. Ticking'
    <2>1. ASSUME NEW R \in SUBSET Task, RingOf(alarms', R), S \subseteq R, R \subseteq S \cup {t},
                 \A u \in Task \ R : alarms'.next[u] = NULL /\ alarms'.prev[u] = NULL
          PROVE  Ticking'
      <3>1. \A u \in R : status'[u] = "WAITING" \/ u = current'
        BY <1>1, <1>2, <1>3, <1>7, <2>1 DEF At
      <3>2. \A u \in Task : owner'[u] = NULL
        BY <1>7 DEF Base, Order, Ticking
      <3> QED BY <1>8, <2>1, <3>1, <3>2 DEF Ticking, At
    <2>2. CASE alarms' = alarms
      BY <1>1, <2>1, <2>2
    <2>3. CASE alarms' = AddNodeOrdered(alarms, t, timeout')
      <3>1. PICK m, o : m = AddNodeOrdered(alarms, t, o) /\ o = timeout'
        OBVIOUS
      <3>2. RingOf(m, S \cup {t}) /\ LinksKept(alarms, m, Task, S \cup {t})
        BY <1>1, <1>3, <1>4, <3>1, AlarmsOK, AddNodeOrderedRing
      <3>3. \A u \in Task \ (S \cup {t}) : m.next[u] = NULL /\ m.prev[u] = NULL
        BY <1>1, <3>2 DEF LinksKept
      <3>4. PICK R \in SUBSET Task : R = S \cup {t}
        BY <1>3
      <3> QED BY <2>1, <2>3, <3>1, <3>2, <3>3, <3>4
    <2> QED BY <1>6, <2>2, <2>3
  <1>11. Roles' /\ Foremost'
    BY <1>2, <1>3, <1>7, <1>8
       DEF Base, Order, Roles, SwitchLabel, Foremost, Choosing, NoneAbove, TasksThat
  <1> QED BY <1>9, <1>10, <1>11 DEF Order

LEMMA DozeOrder ==
  ASSUME Base, IInv', Doze
  PROVE  Order'
  <1>1. PICK S \in SUBSET Task :
          /\ RingOf(alarms, S)
          /\ \A u \in Task \ S : alarms.next[u] = NULL /\ alarms.prev[u] = NULL
          /\ \A u \in S : status[u] = "WAITING" \/ (At("doze") /\ u = current)
    BY DEF Base, Order, Ticking
  <1>2. PICK t : t = current
    OBVIOUS
  <1>3. /\ IInv /\ Top.pc = "doze" /\ t \in Task /\ t # NULL /\ status[t] = "RUNNING"
        /\ lock = "UNLOCKED" /\ status \in [Task -> Statuses]
    BY <1>2, InTaskCode, UnlockedAt DEF Base, Frames, Doze, EarlyLabel, At, Order, Roles,
       SwitchLabel, IInv, Values, OnlyUnlocked
  <1>4. Top'.pc = "schedule"
    BY <1>3, StepTop DEF Doze, Schedule, Frame, TaskFrame
  <1>5. /\ status' = [status EXCEPT ![t] = "WAITING"]
        /\ UNCHANGED <<priority, owner, alarms, current, lock, links, ready, bits>>
    BY <1>2 DEF Doze, timer, sched, SetStatus, queues
  <1>6. Placing'
    BY <1>3, <1>4, <1>5, SettledHome, SettledNext, SamePlaces DEF Base, Order, Unsettled
  <1>7. Ticking'
    <2>1. \A u \in S : status'[u] = "WAITING"
      BY <1>1, <1>2, <1>3, <1>5
    <2>2. RingOf(alarms', S) /\ \A u \in Task : owner'[u] = NULL
      BY <1>1, <1>5 DEF Base, Order, Ticking
    <2> QED BY <1>1, <1>5, <2>1, <2>2 DEF Ticking
  <1>8. Roles' /\ Foremost'
    BY <1>2, <1>3, <1>4, <1>5 DEF Base, Order, Roles, SwitchLabel, Foremost, Choosing
  <1> QED BY <1>6, <1>7, <1>8 DEF Order

-----------------------------------------------------------------------------
(* eos_change_priority, eos_suspend_task, eos_resume_task *)

LEMMA ChangePriorityOrder ==
  ASSUME Base, IInv', ChangePriority
  PROVE  Order'
  <1>1. PICK t : t = Top.task
    OBVIOUS
  <1>2. /\ IInv /\ Top.pc = "change_priority" /\ t \in Task
        /\ UNCHANGED <<status, priority, owner, alarms, current, lock>>
    BY <1>1, TopFrame DEF Base, Frames, ChangePriority, At, FrameOK, HasContext, tcb, timer, sched
  <1>3. Top'.pc \in {"reinsert", "set_priority"} /\ Top'.task = t
        /\ (Top'.pc = "reinsert" <=> status[t] = "READY")
    BY <1>1, <1>2, GotoTop DEF ChangePriority
  <1>4. \A u \in Task : Home[u] = IF status[u] = "READY" THEN priority[u] ELSE NoQueue
    BY <1>2, SettledHome DEF Unsettled
  <1>5. \A u \in Task : Home'[u] = IF status[u] = "READY" /\ u # t THEN priority[u] ELSE NoQueue
    BY <1>2, <1>3, HomeNext DEF Queued, Joining, Leaving, PriorityOf, TasksThat, At
  <1>6. Placing'
    <2>1. CASE status[t] = "READY"
      <3>1. DequeueReady(t)
        BY <1>1, <2>1 DEF ChangePriority
      <3> QED BY <1>2, <1>4, <1>5, <2>1, <3>1, LeavePlaces DEF Base, Order
    <2>2. CASE status[t] # "READY"
      <3>1. UNCHANGED <<links, ready, bits>>
        BY <1>1, <2>2 DEF ChangePriority, queues
      <3> QED BY <1>2, <1>4, <1>5, <2>2, <3>1, SamePlaces DEF Base, Order
    <2> QED BY <2>1, <2>2
  <1>7. Ticking'
    BY <1>2, SameAlarms DEF Base, Order
  <1>8. Roles' /\ Foremost'
    BY <1>1, <1>2, <1>3
       DEF Base, Order, Roles, SwitchLabel, Foremost, Choosing, NoneAbove, TasksThat
  <1> QED BY <1>6, <1>7, <1>8 DEF Order

LEMMA ReinsertOrder ==
  ASSUME Base, IInv', Reinsert
  PROVE  Order'
  <1>1. PICK t, p : t = Top.task /\ p = Top.num
    OBVIOUS
  <1>2. /\ IInv /\ Top.pc = "reinsert" /\ t \in Task /\ p \in Priority /\ status[t] = "READY"
        /\ Enqueue(List(NULL), t, p)
        /\ UNCHANGED <<status, priority, owner, alarms, current, lock>>
    BY <1>1, TopFrame DEF Base, Frames, Reinsert, At, FrameOK, HasContext, tcb, timer, sched,
       Order, Roles
  <1>3. Top'.pc = "set_priority" /\ Top'.task = t /\ Top'.num = p
    BY <1>1, <1>2, GotoTop DEF Reinsert
  <1>4. \A u \in Task : Home[u] = IF status[u] = "READY" /\ u # t THEN priority[u] ELSE NoQueue
    BY <1>1, <1>2, HomeAt DEF Queued, Joining, Leaving, PriorityOf, TasksThat, At
  <1>5. \A u \in Task : Home'[u] = IF u = t THEN p
                                   ELSE IF status[u] = "READY" THEN priority[u] ELSE NoQueue
    BY <1>2, <1>3, HomeNext DEF Queued, Joining, Leaving, PriorityOf, TasksThat, At
  <1>6. Placing'
    BY <1>2, <1>4, <1>5, JoinPlaces DEF Base, Order
  <1>7. Ticking'
    BY <1>2, SameAlarms DEF Base, Order
  <1>8. Roles' /\ Foremost'
    BY <1>1, <1>2, <1>3
       DEF Base, Order, Roles, SwitchLabel, Foremost, Choosing, NoneAbove, TasksThat
  <1> QED BY <1>6, <1>7, <1>8 DEF Order

LEMMA SetPriorityOrder ==
  ASSUME Base, IInv', SetPriority
  PROVE  Order'
  <1>1. PICK t, p : t = Top.task /\ p = Top.num
    OBVIOUS
  <1>2. /\ IInv /\ Top.pc = "set_priority" /\ t \in Task
        /\ priority' = [priority EXCEPT ![t] = p] /\ priority \in [Task -> Priority]
        /\ UNCHANGED <<status, owner, alarms, current, lock, links, ready, bits>>
    BY <1>1, TopFrame DEF Base, Frames, SetPriority, At, FrameOK, HasContext, timer, sched,
       queues, IInv, Values
  <1>3. Top'.pc = "schedule"
    BY <1>2, StepTop DEF SetPriority, Schedule, Frame, TaskFrame, Base, Frames
  <1>4. \A u \in Task : Home'[u] = Home[u]
    BY <1>1, <1>2, <1>3, HomeAt, SettledNext
       DEF Queued, Joining, Leaving, PriorityOf, TasksThat, At, Unsettled
  <1>5. Placing'
    BY <1>2, <1>4, SamePlaces DEF Base, Order
  <1>6. Ticking'
    BY <1>2, SameAlarms DEF Base, Order
  <1>7. Roles' /\ Foremost'
    BY <1>2, <1>3 DEF Base, Order, Roles, SwitchLabel, Foremost, Choosing
  <1> QED BY <1>5, <1>6, <1>7 DEF Order

LEMMA SuspendOrder ==
  ASSUME Base, IInv', Suspend
  PROVE  Order'
  <1>1. PICK t : t = Top.task
    OBVIOUS
  <1>2. /\ IInv /\ Top.pc = "suspend" /\ t \in Task
        /\ UNCHANGED <<status, priority, owner, alarms, current, lock>>
    BY <1>1, TopFrame DEF Base, Frames, Suspend, At, FrameOK, HasContext, tcb, timer, sched
  <1>3. CASE status[t] = "READY"
    <2>1. Top'.pc = "suspended" /\ Top'.task = t /\ DequeueReady(t)
      BY <1>1, <1>2, <1>3, GotoTop DEF Suspend
    <2>2. \A u \in Task : Home[u] = IF status[u] = "READY" THEN priority[u] ELSE NoQueue
      BY <1>2, SettledHome DEF Unsettled
    <2>3. Home'[t] = NoQueue /\ \A u \in Task : u # t => Home'[u] = Home[u]
      BY <1>2, <2>1, <2>2, HomeNext DEF Queued, Joining, Leaving, PriorityOf, TasksThat, At
    <2>4. Placing'
      BY <1>2, <1>3, <2>1, <2>2, <2>3, LeavePlaces DEF Base, Order
    <2>5. Ticking'
      BY <1>2, SameAlarms DEF Base, Order
    <2>6. Roles' /\ Foremost'
      BY <1>2, <1>3, <2>1
         DEF Base, Order, Roles, SwitchLabel, Foremost, Choosing, NoneAbove, TasksThat
    <2> QED BY <2>4, <2>5, <2>6 DEF Order
  <1>4. CASE status[t] # "READY"
    <2>1. Top'.pc \notin Fragile /\ Still
      BY <1>1, <1>2, <1>4, ReturnTop DEF Suspend, Base, Frames, Still, queues
    <2> QED BY <1>2, <2>1, CalmStill DEF Choosing, Unsettled, SwitchLabel, Fragile
  <1> QED BY <1>3, <1>4

LEMMA SuspendedOrder ==
  ASSUME Base, IInv', Suspended
  PROVE  Order'
  <1>1. PICK t : t = Top.task
    OBVIOUS
  <1>2. /\ IInv /\ Top.pc = "suspended" /\ t \in Task /\ status[t] = "READY"
        /\ status \in [Task -> Statuses]
        /\ (current # NULL => status[current] = "RUNNING")
    BY <1>1, TopFrame DEF Base, Frames, Suspended, At, FrameOK, HasContext, Order, Roles, IInv,
       Values, SwitchLabel
  <1>3. Top'.pc \notin Fragile
    BY <1>2, ReturnTop DEF Suspended, Base, Frames
  <1>4. /\ status' = [status EXCEPT ![t] = "SUSPENDED"]
        /\ UNCHANGED <<priority, owner, alarms, current, lock, links, ready, bits>>
    BY <1>1 DEF Suspended, timer, sched, SetStatus, queues
  <1>5. \A u \in Task : Home[u] = IF status[u] = "READY" /\ u # t THEN priority[u] ELSE NoQueue
    BY <1>1, <1>2, HomeAt DEF Queued, Joining, Leaving, PriorityOf, TasksThat, At
  <1>6. \A u \in Task : Home'[u] = Home[u]
    BY <1>2, <1>3, <1>4, <1>5, SettledNext DEF Unsettled, Fragile
  <1>7. Placing'
    BY <1>2, <1>4, <1>6, SamePlaces DEF Base, Order
  <1>8. Ticking'
    BY <1>2, <1>4, SameAlarms DEF Base, Order
  <1>9. Roles'
    BY <1>2, <1>3, <1>4 DEF Base, Order, Roles, SwitchLabel, Fragile
  <1>10. Foremost'
    <2>1. TasksThat("READY")' \subseteq TasksThat("READY")
      BY <1>2, <1>4 DEF TasksThat
    <2> QED BY <1>2, <1>3, <1>4, <2>1
            DEF Base, Order, Foremost, Choosing, NoneAbove, SwitchLabel, Fragile
  <1> QED BY <1>7, <1>8, <1>9, <1>10 DEF Order

LEMMA ResumeOrder ==
  ASSUME Base, IInv', Resume
  PROVE  Order'
  <1>1. PICK t, p : t = Top.task /\ p = priority[t]
    OBVIOUS
  <1>2. /\ IInv /\ Top.pc = "resume" /\ t \in Task /\ p \in Priority
        /\ UNCHANGED <<status, priority, owner, alarms, current, lock>>
    BY <1>1, TopFrame DEF Base, Frames, Resume, At, FrameOK, HasContext, tcb, timer, sched, IInv,
       Values
  <1>3. CASE status[t] = "SUSPENDED"
    <2>1. Top'.pc = "resumed" /\ Top'.task = t /\ Enqueue(List(NULL), t, p)
      BY <1>1, <1>2, <1>3, GotoTop DEF Resume, EnqueueReady
    <2>2. \A u \in Task : Home[u] = IF status[u] = "READY" THEN priority[u] ELSE NoQueue
      BY <1>2, SettledHome DEF Unsettled
    <2>3. Home'[t] = p /\ \A u \in Task : u # t => Home'[u] = Home[u]
      BY <1>1, <1>2, <2>1, <2>2, HomeNext DEF Queued, Joining, Leaving, PriorityOf, TasksThat, At
    <2>4. Placing'
      BY <1>2, <1>3, <2>1, <2>2, <2>3, JoinPlaces DEF Base, Order
    <2>5. Ticking'
      BY <1>2, SameAlarms DEF Base, Order
    <2>6. Roles' /\ Foremost'
      BY <1>2, <1>3, <2>1
         DEF Base, Order, Roles, SwitchLabel, Foremost, Choosing, NoneAbove, TasksThat
    <2> QED BY <2>4, <2>5, <2>6 DEF Order
  <1>4. CASE status[t] # "SUSPENDED"
    <2>1. Top'.pc \notin Fragile /\ Still
      BY <1>1, <1>2, <1>4, ReturnTop DEF Resume, Base, Frames, Still, queues
    <2> QED BY <1>2, <2>1, CalmStill DEF Choosing, Unsettled, SwitchLabel, Fragile
  <1> QED BY <1>3, <1>4

LEMMA OrderInit ==
  ASSUME Init
  PROVE  Order
  <1>1. /\ Top.pc = "boot" /\ current = NULL /\ IInv
        /\ \A t \in Task : status[t] = "NEW" /\ owner[t] = NULL /\ alarms.next[t] = NULL
                           /\ alarms.prev[t] = NULL /\ links.next[t] = NULL /\ links.prev[t] = NULL
        /\ \A p \in Priority : ready[p] = NULL
        /\ alarms.head = NULL /\ bits = NoneReady
    BY InitIInv DEF Init, Top, Frame, TaskFrame
  <1>2. \A t \in Task : Home[t] = NoQueue
    BY <1>1, SettledHome DEF Unsettled
  <1>3. ReadyPriorities(bits) = {}
    BY <1>1, RowColumn DEF ReadyPriorities, NoneReady
  <1>4. Placing
    <2>1. \A p \in Priority : Inmates(Home, p) = {}
      BY <1>1, <1>2, HomesOK DEF Inmates
    <2>2. \A p \in Priority : RingOf(List(ready[p]), {})
      BY <1>1 DEF RingOf, List
    <2> QED BY <1>1, <1>3, <2>1, <2>2 DEF Placing, Placed
  <1>5. Ticking
    <2>1. RingOf(alarms, {}) /\ {} \in SUBSET Task
      BY <1>1 DEF RingOf
    <2> QED BY <1>1, <2>1 DEF Ticking
  <1>6. Roles /\ Foremost
    BY <1>1 DEF Roles, Foremost, SwitchLabel
  <1> QED BY <1>4, <1>5, <1>6 DEF Order

LEMMA OrderNext ==
  ASSUME Base, ~ResumeAtElr, IrqPoints \cap Fragile = {}, [Next]_vars
  PROVE  Base'
  <1>1. Frames' /\ IInv'
    BY FramesNext DEF Base, Frames
  <1>2. CASE Boot \/ UserStep \/ Interrupt \/ UNCHANGED vars
    BY <1>1, <1>2, BootOrder, UserOrder, TickOrder, StutterOrder DEF Base
  <1>3. CASE Create \/ BecomeReady
    BY <1>1, <1>3, CreateOrder, BecomeReadyOrder DEF Base
  <1>4. CASE ScheduleEntry \/ Requeue \/ MarkReady \/ SaveContext
    BY <1>1, <1>4, EntryOrder, RequeueOrder, MarkReadyOrder, SaveOrder DEF Base
  <1>5. CASE Pick \/ Unqueue \/ Run \/ RestoreContext
    BY <1>1, <1>5, PickOrder, UnqueueOrder, RunOrder, RestoreOrder DEF Base
  <1>6. CASE FireAlarm \/ AlarmsDone \/ IrqReturn
    BY <1>1, <1>6, FireOrder, TickOrder, SleepOrder DEF Base
  <1>7. CASE Sleep \/ SleepDiff \/ Arm \/ Doze
    BY <1>1, <1>7, SleepOrder, ArmOrder, DozeOrder DEF Base
  <1>8. CASE ChangePriority \/ Reinsert \/ SetPriority
    BY <1>1, <1>8, ChangePriorityOrder, ReinsertOrder, SetPriorityOrder DEF Base
  <1>9. CASE Suspend \/ Suspended \/ Resume
    BY <1>1, <1>9, SuspendOrder, SuspendedOrder, ResumeOrder DEF Base
  <1> QED BY <1>2, <1>3, <1>4, <1>5, <1>6, <1>7, <1>8, <1>9 DEF Next, KernelStep

LEMMA OrderInvariance ==
  ASSUME ~ResumeAtElr, IrqPoints \cap Fragile = {}
  PROVE  Spec => []Base
  <1>1. Init => Base
    BY FramesInit, OrderInit DEF Base
  <1>2. Base /\ [Next]_vars => Base'
    BY OrderNext
  <1> QED BY <1>1, <1>2, PTL DEF Spec

(* The first invariant of the scheduler: whenever a task runs outside the  *)
(* kernel the queue of each priority is a sound ring of just the READY     *)
(* tasks of that priority, and the bitmap has a bit exactly for each queue *)
(* that is not empty (task.c:19-23, scheduler.c:111-129, common.c:29-128); *)
(* if a restored context is entered with interrupts off and no tick is     *)
(* taken at one of the fragile points of the switch and of a wake-up.      *)
THEOREM QueuesMatch ==
  ASSUME ~ResumeAtElr, IrqPoints \cap Fragile = {}
  PROVE  Spec => []ReadyQueuesMatch
  <1>1. Base => ReadyQueuesMatch
    <2> SUFFICES ASSUME Base, InTask, NEW p \in Priority
                 PROVE  /\ WellFormed(List(ready[p]))
                        /\ Members(List(ready[p])) = {t \in TasksThat("READY") : priority[t] = p}
                        /\ p \in ReadyPriorities(bits) <=> ready[p] # NULL
      BY DEF ReadyQueuesMatch
    <2>1. IInv /\ \A t \in Task : Home[t] = IF status[t] = "READY" THEN priority[t] ELSE NoQueue
      BY SettledHome DEF Base, Frames, InTask, Unsettled
    <2>2. Inmates(Home, p) = {t \in TasksThat("READY") : priority[t] = p}
      BY <2>1, HomesOK DEF Inmates, TasksThat
    <2>3. /\ RingOf(List(ready[p]), Inmates(Home, p)) /\ Inmates(Home, p) \subseteq Task
          /\ p \in ReadyPriorities(bits) <=> ready[p] # NULL
      BY DEF Base, Order, Placing, Placed, Inmates
    <2>4. List(ready[p]) \in ListOver(Task, Task) /\ NULL \notin Task
      BY <2>1, HomesOK
    <2>5. PICK l, S : l = List(ready[p]) /\ S = Inmates(Home, p)
      OBVIOUS
    <2>6. Members(l) = S /\ WellFormed(l)
      BY <2>3, <2>4, <2>5, RingMembers
    <2> QED BY <2>2, <2>3, <2>5, <2>6
  <1>2. []Base => []ReadyQueuesMatch
    BY <1>1, PTL
  <1> QED BY <1>2, OrderInvariance, PTL

(* Preemption: on the same conditions, the current task is the only        *)
(* RUNNING one and, unless the scheduler is locked, no READY task has a    *)
(* higher priority (eos_schedule, task.c:88-139, called wherever a task    *)
(* becomes ready or gives the CPU up).                                     *)
THEOREM HighestRuns ==
  ASSUME ~ResumeAtElr, IrqPoints \cap Fragile = {}
  PROVE  Spec => []HighestPriorityRuns
  <1>1. Base => HighestPriorityRuns
    <2> SUFFICES ASSUME Base, InTask
                 PROVE  /\ TasksThat("RUNNING") = {current}
                        /\ lock = "UNLOCKED" => NoneAbove(current)
      BY DEF HighestPriorityRuns, NoneAbove
    <2>1. current \in Task /\ current # NULL
      BY InTaskCode DEF Base, Frames, InTask, EarlyLabel
    <2>2. status[current] = "RUNNING" /\ \A t \in Task : status[t] = "RUNNING" => t = current
      BY <2>1 DEF Base, Order, Roles, InTask, SwitchLabel
    <2>3. lock = "UNLOCKED" => NoneAbove(current)
      BY <2>1 DEF Base, Order, Foremost, InTask, Choosing, SwitchLabel
    <2> QED BY <2>1, <2>2, <2>3 DEF TasksThat
  <1>2. []Base => []HighestPriorityRuns
    BY <1>1, PTL
  <1> QED BY <1>2, OrderInvariance, PTL

-----------------------------------------------------------------------------
(* eos_sleep.  First the stacks again: which frames are on them.           *)

Having(s, F) == \E i \in 1 .. Len(s) : s[i] \in F

LEMMA HavingPush ==
  ASSUME NEW s \in Seq(FrameType), NEW f \in FrameType, NEW r, r = <<f>> \o s
  PROVE  \A F : Having(r, F) <=> f \in F \/ Having(s, F)
  <1>1. /\ r \in Seq(FrameType) /\ Len(r) = Len(s) + 1 /\ r[1] = f /\ Len(s) \in Nat
        /\ \A i \in 1 .. Len(r) : i # 1 => i - 1 \in 1 .. Len(s) /\ r[i] = s[i - 1]
    BY PushedStack
  <1>2. 1 \in 1 .. Len(r)
    BY <1>1
  <1>3. ASSUME NEW j \in 1 .. Len(s) PROVE j + 1 \in 1 .. Len(r) /\ r[j + 1] = s[j]
    <2>1. j + 1 \in 1 .. Len(r) /\ j + 1 # 1 /\ j + 1 - 1 = j
      BY <1>1
    <2> QED BY <1>1, <2>1
  <1> QED BY <1>1, <1>2, <1>3 DEF Having

LEMMA HavingSplit ==
  ASSUME NEW s \in Seq(FrameType), s # <<>>
  PROVE  \A F : Having(s, F) <=> s[1] \in F \/ Having(Tail(s), F)
  <1>1. PICK f, r : f = s[1] /\ r = Tail(s)
    OBVIOUS
  <1>2. s = <<f>> \o r /\ f \in FrameType /\ r \in Seq(FrameType)
    BY <1>1
  <1>3. \A F : Having(s, F) <=> f \in F \/ Having(r, F)
    BY <1>2, HavingPush
  <1> QED BY <1>1, <1>3

LEMMA HavingTail ==
  ASSUME IInv
  PROVE  \A F : Having(cpu, F) <=> Top \in F \/ Having(Tail(cpu), F)
  BY HavingSplit DEF IInv, Executing, StackOK, Top

(* The frames after a step that changes the top one. *)
LEMMA HavingStep ==
  ASSUME IInv, IInv', NEW f, Step(f)
  PROVE  f \in FrameType /\ \A F : Having(cpu', F) => f \in F \/ Having(cpu, F)
  <1>1. PICK r, s : r = Tail(cpu) /\ s = cpu'
    OBVIOUS
  <1>2. r \in Seq(FrameType) /\ s = <<f>> \o r /\ f \in FrameType
    BY <1>1, CpuStack, NewTop DEF Step
  <1>3. \A F : Having(s, F) <=> f \in F \/ Having(r, F)
    BY <1>2, HavingPush
  <1> QED BY <1>1, <1>2, <1>3, HavingTail

(* ... and after one that calls and returns with frames at other labels.   *)
LEMMA HavingShift ==
  ASSUME IInv, IInv', NEW N, Shift(N), NEW F, \A f \in F : f.pc \notin N \cup ReturnLabel,
         Having(cpu', F)
  PROVE  Having(cpu, F)
  <1>1. CASE cpu' = cpu
    BY <1>1
  <1>2. CASE Return
    BY <1>2, HavingTail DEF Return
  <1>3. ASSUME NEW f, f.pc \in N, Step(f) PROVE Having(cpu, F)
    BY <1>3, HavingStep
  <1>4. ASSUME NEW f, NEW l \in ReturnLabel, f.pc \in N, Call(f, l)
        PROVE  Having(cpu, F)
    <2>1. PICK g, r, u, s : g = [Top EXCEPT !.pc = l] /\ r = Tail(cpu) /\ u = <<g>> \o r /\ s = cpu'
      OBVIOUS
    <2>2. /\ g.pc = l /\ g \in FrameType /\ f \in FrameType /\ s = <<f>> \o u
          /\ r \in Seq(FrameType)
      BY <1>4, <2>1, CallIsPush, CpuStack DEF FrameType
    <2>3. u \in Seq(FrameType)
      BY <2>1, <2>2, HoldingPush
    <2>6. \A G : Having(u, G) <=> g \in G \/ Having(r, G)
      BY <2>1, <2>2, HavingPush
    <2>4. \A G : Having(s, G) <=> f \in G \/ Having(u, G)
      BY <2>2, <2>3, HavingPush
    <2>5. f \notin F /\ g \notin F
      BY <1>4, <2>2
    <2> QED BY <2>1, <2>4, <2>5, <2>6, HavingTail
  <1> QED BY <1>1, <1>2, <1>3, <1>4 DEF Shift

(* The frame that a task is created with. *)
LEMMA HavingNew ==
  ASSUME NEW t \in Task, NEW F, Having(NewStack(t), F)
  PROVE  \E f \in F : f.pc \in {"user", "idle"}
  <1>1. PICK s, f : s = <<f>> /\ s = NewStack(t) /\ f.pc \in {"user", "idle"}
    BY DEF NewStack, TaskFrame
  <1>2. Len(s) = 1 /\ s[1] = f /\ \A i \in 1 .. 1 : i = 1
    BY <1>1
  <1> QED BY <1>1, <1>2 DEF Having

(* What the contexts are after a step. *)
LEMMA NextContexts ==
  ASSUME IInv, ~ResumeAtElr, [Next]_vars, NEW t \in Task
  PROVE  \/ ctx'[t] = ctx[t]
         \/ ctx'[t] = NewStack(t)
         \/ t = current /\ Interrupt /\ ctx'[t] = cpu
         \/ t = current /\ SaveContext /\ ctx'[t] = Tail(cpu)
  <1>1. ctx \in [Task -> Seq(FrameType)]
    BY DEF IInv, Contexts
  <1>2. CASE Create
    BY <1>1, <1>2 DEF Create, NewStack
  <1>3. CASE SaveContext
    BY <1>1, <1>3 DEF SaveContext
  <1>4. CASE Interrupt
    BY <1>1, <1>4 DEF Interrupt
  <1>5. CASE ~Create /\ ~SaveContext /\ ~Interrupt
    BY <1>5 DEF Next, Boot, KernelStep, UserStep, BootIdle, UserMain,
      StartMultitasking, BecomeReady, ScheduleEntry, Requeue, MarkReady, Pick, Unqueue,
      Run, RestoreContext, FireAlarm, AlarmsDone, IrqReturn, Sleep, SleepDiff, Arm, Doze,
      ChangePriority, Reinsert, SetPriority, Suspend, Suspended, Resume, Compute,
      UserSleep, SetPeriod, UserChangePriority, UserSuspend, UserResume, UserCreate,
      UserCall, LockScheduler, RestoreScheduler, vars, kernel, contexts
  <1> QED BY <1>2, <1>3, <1>4, <1>5

(* Inside eos_sleep, where no tick may come. *)
Inward == {"sleep_diff", "arm", "doze"}

(* A section of eos_sleep is entered by its own steps. *)
LEMMA SleepEntered ==
  ASSUME IInv, IInv', [Next]_vars, ~SleepStep, NEW L \in SUBSET Inward, CalmIn(L),
         L \cap IrqPoints = {}, Top'.pc \in L
  PROVE  UNCHANGED vars
  <1>1. ~RestoreContext
    BY RestoreTopIn DEF CalmIn
  <1>2. ~Interrupt
    <2>1. Top'.pc = "trigger" \/ ~Interrupt
      BY NewTop, CpuStack DEF Interrupt, Frame, TaskFrame, Top
    <2> QED BY <2>1 DEF Inward
  <1>3. ~BootIdle /\ ~UserMain /\ ~UserCreate
    <2>1. BootIdle \/ UserMain \/ UserCreate => Top'.pc = "create"
      BY CreateCall, CallTop
    <2> QED BY <2>1 DEF Inward
  <1>4. PICK N : N = CallLabels \ (SleepLabel \cup {"create"})
    OBVIOUS
  <1>5. Shift(N)
    BY <1>1, <1>2, <1>3, <1>4, ShiftsBut
  <1>6. Top'.pc \notin N
    BY <1>4 DEF SleepLabel, Inward
  <1>7. cpu' = cpu
    BY <1>5, <1>6, ShiftTop DEF CalmIn
  <1>8. Top.pc \in Inward
    BY <1>7 DEF Top
  <1>9. ~Doze
    <2>1. Doze => Top'.pc = "schedule"
      BY StepTop DEF Doze, Schedule, Frame, TaskFrame
    <2> QED BY <2>1 DEF Inward
  <1> QED BY <1>1, <1>2, <1>3, <1>8, <1>9
          DEF Inward, SleepStep, Next, Boot, KernelStep, UserStep, BootIdle, UserMain,
      StartMultitasking, Create, BecomeReady, ScheduleEntry, Requeue, MarkReady, SaveContext,
      Pick, Unqueue, Run, FireAlarm, AlarmsDone, IrqReturn,
      ChangePriority, Reinsert, SetPriority, Suspend, Suspended, Resume, Compute,
      SetPeriod, UserChangePriority, UserSuspend, UserResume,
      UserCall, LockScheduler, RestoreScheduler, At

-----------------------------------------------------------------------------
(* No task waits without an alarm.                                         *)

(* Calls of eos_sleep(0), and of the setting of an alarm for no time.      *)
ZeroSleep == {f \in FrameType : f.pc = "sleep" /\ f.num = 0}
ZeroArm == {f \in FrameType : f.pc = "arm" /\ f.num = 0}

(* eos_sleep(0) is called in tasks that have a period, and so the time     *)
(* that an alarm is set for is never 0.                                    *)
Napping ==
  /\ \A t \in Task : Having(ctx[t], ZeroSleep) => period[t] # 0
  /\ current # NULL /\ ~At("restore") /\ Having(cpu, ZeroSleep) => period[current] # 0
  /\ ~Having(cpu, ZeroArm) /\ \A t \in Task : ~Having(ctx[t], ZeroArm)
  /\ CalmIn({"sleep_diff"})
  /\ At("sleep_diff") => tick < wakeup[current]

(* A task that waits, or is about to, is linked into the alarm queue.      *)
SleepersLinked ==
  \A t \in Task :
    status[t] = "WAITING" \/ (At("doze") /\ t = current) => alarms.next[t] # NULL

LEMMA NapInit ==
  ASSUME Init
  PROVE  Napping /\ SleepersLinked
  <1>1. /\ cpu = <<Frame("boot")>> /\ Len(cpu) = 1 /\ Tail(cpu) = <<>> /\ Top.pc = "boot"
        /\ ctx = [t \in Task |-> <<>>] /\ Len(<<>>) = 0 /\ 1 .. 0 = {}
        /\ \A i \in 1 .. 1 : cpu[i].pc = "boot"
    BY DEF Init, Frame, TaskFrame, Top
  <1>2. \A F : ~Having(<<>>, F)
    BY <1>1 DEF Having
  <1>3. ~Having(cpu, ZeroSleep) /\ ~Having(cpu, ZeroArm)
    BY <1>1 DEF Having, ZeroSleep, ZeroArm
  <1>4. CalmIn({"sleep_diff"})
    BY <1>1 DEF CalmIn, Holding
  <1>5. Napping
    BY <1>1, <1>2, <1>3, <1>4 DEF Napping, At
  <1>6. SleepersLinked
    BY <1>1 DEF Init, SleepersLinked, At
  <1> QED BY <1>5, <1>6

(* The period of a task, once it is not 0, is never 0 again. *)
LEMMA PeriodStays ==
  ASSUME IInv, Makers, Dawn, [Next]_vars, 0 \notin Periods, NEW t \in HasContext, period[t] # 0
  PROVE  period'[t] # 0
  <1>1. t \in Task /\ period \in [Task -> Nat]
    BY DEF HasContext, IInv, Values
  <1>2. CASE Create
    <2>1. Top.task \in Task /\ Top.task \notin HasContext
      BY <1>2, CreatesNew DEF Create
    <2> QED BY <1>1, <1>2, <2>1 DEF Create
  <1>3. CASE SetPeriod
    BY <1>1, <1>3 DEF SetPeriod
  <1>4. CASE ~Create /\ ~SetPeriod
    BY <1>4 DEF Next, Boot, KernelStep, UserStep, BootIdle, UserMain,
      StartMultitasking, BecomeReady, ScheduleEntry, Requeue, MarkReady, SaveContext, Pick,
      Unqueue, Run, RestoreContext, Interrupt, FireAlarm, AlarmsDone, IrqReturn, Sleep,
      SleepDiff, Arm, Doze, ChangePriority, Reinsert, SetPriority, Suspend, Suspended, Resume,
      Compute, UserSleep, UserChangePriority, UserSuspend, UserResume, UserCreate,
      UserCall, LockScheduler, RestoreScheduler, vars, kernel, periods
  <1> QED BY <1>2, <1>3, <1>4

(* No step but the ones named here changes the stack of the CPU otherwise  *)
(* than by calls and returns with frames outside eos_sleep.                *)
LEMMA NapFrames ==
  ASSUME IInv, IInv', [Next]_vars, ~RestoreContext, ~SleepStep,
         NEW F, \A f \in F : f.pc \in {"sleep", "arm"}, Having(cpu', F)
  PROVE  Having(cpu, F)
  <1>1. CASE Interrupt
    <2>1. PICK f, r, s : f = Frame("trigger") /\ r = cpu /\ s = cpu'
      OBVIOUS
    <2>2. /\ r \in Seq(FrameType) /\ s = <<f>> \o r /\ f \in FrameType
          /\ f.pc = "trigger"
      BY <1>1, <2>1, CpuStack, NewTop DEF Interrupt, Frame, TaskFrame
    <2>3. \A G : Having(s, G) <=> f \in G \/ Having(r, G)
      BY <2>2, HavingPush
    <2>4. f \notin F
      BY <2>2
    <2> QED BY <2>1, <2>3, <2>4
  <1>2. CASE ~Interrupt
    <2>1. PICK N : N = CallLabels \ SleepLabel
      OBVIOUS
    <2>2. Shift(N)
      <3>1. CASE BootIdle \/ UserMain \/ UserCreate
        BY <2>1, <3>1, CreateCall DEF Shift, CallLabels, KernelLabel, BottomLabel, SleepLabel
      <3>2. CASE ~BootIdle /\ ~UserMain /\ ~UserCreate
        BY <1>2, <2>1, <3>2, ShiftsBut DEF Shift
      <3> QED BY <3>1, <3>2
    <2>3. \A f \in F : f.pc \notin N \cup ReturnLabel
      BY <2>1 DEF SleepLabel, ReturnLabel
    <2> QED BY <2>2, <2>3, HavingShift
  <1> QED BY <1>1, <1>2

(* The steps of eos_sleep. *)
LEMMA SleepFrames ==
  ASSUME Frames, IInv', Napping, SleepStep
  PROVE  /\ UNCHANGED <<current, ctx, status>> /\ current \in HasContext /\ current # NULL
         /\ Having(cpu', ZeroSleep) => period[current] # 0
         /\ ~Having(cpu', ZeroArm)
         /\ Top'.pc = "sleep_diff" => tick' < wakeup'[current]
         /\ Top.pc # "restore" /\ period' = period /\ (alarms' = alarms \/ Arm)
         /\ Arm => Top.num # 0
         /\ Top'.pc = "doze" => Arm
  <1>1. /\ IInv /\ current \in HasContext /\ current # NULL /\ Top.pc # "restore"
        /\ Top.pc \in {"user", "sleep", "sleep_diff", "arm"}
    BY InTaskCode DEF Frames, SleepStep, UserSleep, UserCall, Sleep, SleepDiff, Arm, At, EarlyLabel
  <1>2. UNCHANGED <<current, ctx, status, period>>
    BY DEF SleepStep, UserSleep, UserCall, Sleep, SleepDiff, Arm, kernel, tcb, periods, sched,
       contexts
  <1>3. /\ Having(cpu, ZeroSleep) => period[current] # 0
        /\ ~Having(cpu, ZeroArm)
    BY <1>1 DEF Napping, At
  <1>4. CASE UserSleep
    <2>1. PICK n : /\ n = 0 => period[current] # 0
                   /\ Top.pc = "user" /\ Call(TaskFrame("sleep", NULL, n), "user")
                   /\ UNCHANGED kernel
      BY <1>4 DEF UserSleep, UserCall, At
    <2>2. PICK f, r, s : f = TaskFrame("sleep", NULL, n) /\ r = cpu /\ s = cpu'
      OBVIOUS
    <2>3. /\ f.pc = "sleep" /\ f.num = n /\ s = <<f>> \o r /\ r \in Seq(FrameType)
          /\ f \in FrameType /\ Top' = f
      BY <1>1, <2>1, <2>2, CallIsPush, CallTop, CpuStack DEF TaskFrame
    <2>4. \A G : Having(s, G) <=> f \in G \/ Having(r, G)
      BY <2>3, HavingPush
    <2>5. f \notin ZeroArm /\ (f \in ZeroSleep => n = 0)
      BY <2>3 DEF ZeroArm, ZeroSleep
    <2>6. alarms' = alarms /\ ~Arm
      BY <2>1 DEF kernel, timer, Arm, At
    <2> QED BY <1>1, <1>2, <1>3, <2>1, <2>2, <2>3, <2>4, <2>5, <2>6
  <1>5. CASE Sleep
    <2>1. Top.pc = "sleep" /\ alarms' = alarms /\ tick' = tick /\ ~Arm
      BY <1>5 DEF Sleep, Arm, At, timer
    <2>2. CASE Return
      <3>1. \A F : Having(cpu', F) => Having(cpu, F)
        BY <1>1, <2>2, HavingTail DEF Return
      <3>2. Top'.pc # "sleep_diff" /\ Top'.pc # "doze"
        <4>1. CalmIn({"sleep_diff"}) /\ CalmIn(Fragile)
          BY DEF Napping, Frames, Calm
        <4> QED BY <1>1, <2>2, <4>1, ReturnTopIn DEF Fragile
      <3> QED BY <1>1, <1>2, <1>3, <2>1, <3>1, <3>2
    <2>3. CASE Goto("arm") /\ ~(Top.num = 0 /\ period[current] # 0)
      <3>1. PICK f : f = [Top EXCEPT !.pc = "arm"]
        OBVIOUS
      <3>2. f.pc = "arm" /\ f.num = Top.num /\ Step(f) /\ Top' = f /\ Top \in FrameType
        BY <1>1, <2>3, <3>1, CpuStack, StepTop DEF Goto, FrameType
      <3>3. \A F : Having(cpu', F) => f \in F \/ Having(cpu, F)
        BY <1>1, <3>2, HavingStep
      <3>4. Top \in ZeroSleep => period[current] # 0
        BY <1>1, <1>3, HavingTail
      <3>5. f \notin ZeroSleep /\ f \notin ZeroArm
        BY <2>1, <2>3, <3>2, <3>4 DEF ZeroSleep, ZeroArm
      <3> QED BY <1>1, <1>2, <1>3, <2>1, <3>2, <3>3, <3>5
    <2>4. CASE Goto("sleep_diff") /\ tick < wakeup'[current]
      <3>1. PICK f : f = [Top EXCEPT !.pc = "sleep_diff"]
        OBVIOUS
      <3>2. f.pc = "sleep_diff" /\ Step(f) /\ Top' = f
        BY <1>1, <2>4, <3>1, CpuStack, StepTop DEF Goto, FrameType
      <3>3. \A F : Having(cpu', F) => f \in F \/ Having(cpu, F)
        BY <1>1, <3>2, HavingStep
      <3>5. f \notin ZeroSleep /\ f \notin ZeroArm
        BY <3>2 DEF ZeroSleep, ZeroArm
      <3> QED BY <1>1, <1>2, <1>3, <2>1, <2>4, <3>2, <3>3, <3>5
    <2>5. Return \/ (Goto("arm") /\ ~(Top.num = 0 /\ period[current] # 0))
          \/ (Goto("sleep_diff") /\ tick < wakeup'[current])
      <3>1. PICK r : r = (wakeup[current] + period[current]) % WORD
        OBVIOUS
      <3>2. wakeup \in [Task -> 0 .. WORD - 1] /\ current \in Task /\ period \in [Task -> Nat]
            /\ WORD \in Nat \ {0} /\ tick \in Nat
        BY <1>1, Constants DEF IInv, Values, HasContext
      <3>3. r \in Nat
        BY <3>1, <3>2
      <3> QED BY <1>5, <3>1, <3>2, <3>3 DEF Sleep
    <2> QED BY <2>2, <2>3, <2>4, <2>5
  <1>6. CASE SleepDiff
    <2>1. PICK n : n = (wakeup[current] - tick) % WORD
      OBVIOUS
    <2>2. Top.pc = "sleep_diff" /\ Step([Top EXCEPT !.pc = "arm", !.num = n]) /\ UNCHANGED kernel
      BY <1>6, <2>1 DEF SleepDiff, At
    <2>3. n # 0
      <3>1. wakeup[current] \in 0 .. WORD - 1 /\ tick \in 0 .. WORD - 1 /\ WORD \in Nat \ {0}
        BY <1>1, Constants DEF IInv, Values, HasContext
      <3>2. tick < wakeup[current]
        BY <2>2 DEF Napping, At
      <3>3. wakeup[current] - tick \in 1 .. WORD - 1
        BY <3>1, <3>2
      <3> QED BY <2>1, <3>1, <3>3
    <2>4. PICK f : f = [Top EXCEPT !.pc = "arm", !.num = n]
      OBVIOUS
    <2>5. f.pc = "arm" /\ f.num = n /\ Step(f) /\ Top' = f
      BY <1>1, <2>2, <2>4, CpuStack, StepTop DEF FrameType
    <2>6. \A F : Having(cpu', F) => f \in F \/ Having(cpu, F)
      BY <1>1, <2>5, HavingStep
    <2>7. f \notin ZeroSleep /\ f \notin ZeroArm
      BY <2>3, <2>5 DEF ZeroSleep, ZeroArm
    <2>8. alarms' = alarms /\ ~Arm
      BY <2>2 DEF kernel, timer, Arm, At
    <2> QED BY <1>1, <1>2, <1>3, <2>5, <2>6, <2>7, <2>8
  <1>7. CASE Arm
    <2>1. PICK f : f = [Top EXCEPT !.pc = "doze"]
      OBVIOUS
    <2>2. f.pc = "doze" /\ Step(f) /\ Top' = f /\ Top \in FrameType
      BY <1>1, <1>7, <2>1, CpuStack, StepTop DEF Arm, Goto, FrameType
    <2>3. \A F : Having(cpu', F) => f \in F \/ Having(cpu, F)
      BY <1>1, <2>2, HavingStep
    <2>4. f \notin ZeroSleep /\ f \notin ZeroArm
      BY <2>2 DEF ZeroSleep, ZeroArm
    <2>5. Top.num # 0
      <3>1. Top \notin ZeroArm
        BY <1>1, <1>3, HavingTail
      <3> QED BY <1>7, <2>2, <3>1 DEF ZeroArm, Arm, At
    <2> QED BY <1>1, <1>2, <1>3, <1>7, <2>2, <2>3, <2>4, <2>5
  <1> QED BY <1>4, <1>5, <1>6, <1>7 DEF SleepStep

LEMMA NapKept ==
  ASSUME Frames, Frames', Napping, ~ResumeAtElr, 0 \notin Periods, [Next]_vars,
         IrqPoints \cap (Fragile \cup {"sleep_diff"}) = {}
  PROVE  Napping'
  <1>1. IInv /\ IInv' /\ Makers /\ Dawn /\ ctx \in [Task -> Seq(FrameType)]
    BY DEF Frames, IInv, Contexts
  <1>2. \A F : ~Having(<<>>, F)
    BY DEF Having
  <1>3. ASSUME NEW t \in Task, \E F : Having(ctx[t], F)
        PROVE  t \in HasContext
    BY <1>2, <1>3 DEF HasContext
  <1>4. \A t \in HasContext : period[t] # 0 => period'[t] # 0
    BY <1>1, PeriodStays
  <1>5. CalmIn({"sleep_diff"})'
    <2>1. CalmIn({"sleep_diff"}) /\ {"sleep_diff"} \cap (ReturnLabel \cup BottomLabel \cup IrqPoints) = {}
      BY DEF Napping, ReturnLabel, BottomLabel
    <2> QED BY <1>1, <2>1, CalmInKept
  <1>6. \A t \in Task : \A F : Having(NewStack(t), F) => \E f \in F : f.pc \in {"user", "idle"}
    BY HavingNew
  <1>7. ASSUME NEW t \in Task, NEW F, \A f \in F : f.pc \in {"sleep", "arm"}, Having(ctx'[t], F)
        PROVE  Having(ctx[t], F) \/ (t = current /\ ~At("restore") /\ Having(cpu, F))
    <2>1. ctx'[t] # NewStack(t)
      BY <1>6, <1>7
    <2>2. t = current /\ SaveContext /\ ctx'[t] = Tail(cpu) => ~At("restore") /\ Having(cpu, F)
      BY <1>1, <1>7, HavingTail DEF SaveContext, At
    <2>3. Interrupt => ~At("restore")
      BY DEF Interrupt, At, Fragile
    <2> QED BY <1>1, <1>7, <2>1, <2>2, <2>3, NextContexts
  <1>8. /\ \A f \in ZeroSleep : f.pc \in {"sleep", "arm"}
        /\ \A f \in ZeroArm : f.pc \in {"sleep", "arm"}
    BY DEF ZeroSleep, ZeroArm
  <1>9. current # NULL => current \in HasContext
    BY <1>1 DEF IInv, Pointers, Pointer
  <1>10. ASSUME NEW t \in Task, Having(ctx'[t], ZeroSleep) PROVE period'[t] # 0
    <2>1. Having(ctx[t], ZeroSleep) \/ (t = current /\ ~At("restore") /\ Having(cpu, ZeroSleep))
      BY <1>7, <1>8, <1>10
    <2>2. CASE Having(ctx[t], ZeroSleep)
      BY <1>3, <1>4, <2>2 DEF Napping
    <2>3. CASE t = current /\ ~At("restore") /\ Having(cpu, ZeroSleep)
      BY <1>1, <1>4, <1>9, <2>3, Constants DEF Napping
    <2> QED BY <2>1, <2>2, <2>3
  <1>11. ASSUME NEW t \in Task PROVE ~Having(ctx'[t], ZeroArm)
    BY <1>7, <1>8 DEF Napping
  <1>12. CASE SleepStep
    <2>1. /\ UNCHANGED <<current, ctx, status>> /\ current \in HasContext
          /\ Having(cpu', ZeroSleep) => period[current] # 0
          /\ ~Having(cpu', ZeroArm)
          /\ Top'.pc = "sleep_diff" => tick' < wakeup'[current]
      BY <1>1, <1>12, SleepFrames
    <2> QED BY <1>4, <1>5, <1>10, <1>11, <2>1 DEF Napping, At
  <1>13. CASE ~SleepStep
    <2>1. At("sleep_diff")' => tick' < wakeup'[current']
      <3>1. At("sleep_diff")' => UNCHANGED vars
        <4>1. {"sleep_diff"} \in SUBSET Inward /\ {"sleep_diff"} \cap IrqPoints = {}
              /\ CalmIn({"sleep_diff"})
          BY DEF Inward, Napping
        <4> QED BY <1>1, <1>13, <4>1, SleepEntered DEF At
      <3> QED BY <3>1 DEF Napping, vars, kernel, periods, timer, sched, At, Top
    <2>2. CASE RestoreContext
      <3>1. PICK c \in [Task -> Task \cup {NULL}] : StacksIn(MakerStacks(c))
        BY <1>1 DEF Makers
      <3>2. StacksIn(OwnStacks) /\ Top.pc = "restore"
        BY <1>1, <2>2, <3>1, MakersOwn DEF RestoreContext, At
      <3>3. current # NULL /\ current \in Task
        BY <1>1, <3>2, InTaskCode DEF EarlyLabel
      <3>4. Top.task = current /\ cpu' = ctx[current] /\ UNCHANGED <<current, period>>
        BY <2>2, <3>2, <3>3 DEF StacksIn, At, RestoreContext, sched, periods
      <3> QED BY <1>5, <1>10, <1>11, <2>1, <3>3, <3>4 DEF Napping
    <2>3. CASE ~RestoreContext
      <3>1. \A F : (\A f \in F : f.pc \in {"sleep", "arm"}) /\ Having(cpu', F) => Having(cpu, F)
        BY <1>1, <1>13, <2>3, NapFrames
      <3>2. ~Having(cpu', ZeroArm)
        BY <1>8, <3>1 DEF Napping
      <3>3. ASSUME current' # NULL, ~At("restore")', Having(cpu', ZeroSleep)
            PROVE  period'[current'] # 0
        <4>1. Having(cpu, ZeroSleep)
          BY <1>8, <3>1, <3>3
        <4>2. CASE Run
          BY <1>1, <3>3, <4>2, GotoTop DEF Run, At
        <4>3. CASE ~Run
          <5>1. current' = current
            BY <4>3 DEF Next, Boot, KernelStep, UserStep, BootIdle, UserMain,
              StartMultitasking, Create, BecomeReady, ScheduleEntry, Requeue, MarkReady,
              SaveContext, Pick, Unqueue, RestoreContext, Interrupt, FireAlarm, AlarmsDone,
              IrqReturn, Sleep, SleepDiff, Arm, Doze, ChangePriority, Reinsert, SetPriority,
              Suspend, Suspended, Resume, Compute, SetPeriod, UserSleep, UserChangePriority,
              UserSuspend, UserResume, UserCreate, UserCall, LockScheduler, RestoreScheduler,
              vars, kernel, sched
          <5>2. ~At("restore")
            <6>1. CASE At("restore")
              <7>1. UNCHANGED vars
                BY <2>3, <4>3, <6>1 DEF Fragile, Next, Boot, KernelStep, UserStep, BootIdle,
                  UserMain, StartMultitasking, Create, BecomeReady, ScheduleEntry, Requeue,
                  MarkReady, SaveContext, Pick, Unqueue, Interrupt, FireAlarm, AlarmsDone,
                  IrqReturn, Sleep, SleepDiff, Arm, Doze, ChangePriority, Reinsert,
                  SetPriority, Suspend, Suspended, Resume, Compute, SetPeriod, UserSleep,
                  UserChangePriority, UserSuspend, UserResume, UserCreate, UserCall,
                  LockScheduler, RestoreScheduler, At
              <7> QED BY <3>3, <6>1, <7>1 DEF vars, At, Top
            <6> QED BY <6>1
          <5> QED BY <1>4, <1>9, <3>3, <4>1, <5>1, <5>2 DEF Napping
        <4> QED BY <4>2, <4>3
      <3> QED BY <1>5, <1>10, <1>11, <2>1, <3>2, <3>3 DEF Napping
    <2> QED BY <2>2, <2>3
  <1> QED BY <1>12, <1>13

(* Only eos_sleep makes a task wait, and only after it has set the alarm.  *)
LEMMA WaitingStays ==
  ASSUME IInv, [Next]_vars, ~Doze
  PROVE  \A u \in Task : status'[u] = "WAITING" => status[u] = "WAITING"
  <1>1. status \in [Task -> Statuses]
    BY DEF IInv, Values
  <1>2. CASE Create \/ ScheduleEntry \/ Requeue \/ SaveContext \/ Pick \/ Unqueue \/ RestoreContext
             \/ AlarmsDone \/ IrqReturn \/ Sleep \/ SleepDiff \/ Arm \/ ChangePriority \/ Reinsert
             \/ SetPriority \/ Suspend \/ Resume \/ Interrupt
    BY <1>2 DEF Create, ScheduleEntry, Requeue, SaveContext, Pick, Unqueue, RestoreContext,
       AlarmsDone, IrqReturn, Sleep, SleepDiff, Arm, ChangePriority, Reinsert, SetPriority,
       Suspend, Resume, Interrupt, kernel, tcb
  <1>3. CASE BecomeReady \/ MarkReady \/ Run \/ Suspended
    BY <1>1, <1>3 DEF BecomeReady, MarkReady, Run, Suspended, SetStatus
  <1>4. CASE FireAlarm
    BY <1>1, <1>4 DEF FireAlarm
  <1>5. CASE Boot \/ UserStep \/ UNCHANGED vars
    BY <1>5 DEF Boot, UserStep, BootIdle, UserMain, StartMultitasking, Compute, SetPeriod,
       UserSleep, UserChangePriority, UserSuspend, UserResume, UserCreate, UserCall,
       LockScheduler, RestoreScheduler, vars, kernel, tcb
  <1> QED BY <1>2, <1>3, <1>4, <1>5 DEF Next, KernelStep

LEMMA DozeEntered ==
  ASSUME Frames, IInv', Napping, [Next]_vars, ~Arm, IrqPoints \cap Fragile = {}, At("doze")'
  PROVE  UNCHANGED vars
  <1>1. IInv
    BY DEF Frames
  <1>2. CASE SleepStep
    BY <1>2, SleepFrames DEF At
  <1>3. CASE ~SleepStep
    <2>1. /\ {"doze"} \in SUBSET Inward /\ {"doze"} \cap IrqPoints = {}
      BY DEF Inward, Fragile
    <2>2. CalmIn({"doze"})
      BY DEF Frames, Calm, CalmIn, Holding, Fragile
    <2> QED BY <1>1, <1>3, <2>1, <2>2, SleepEntered DEF At
  <1> QED BY <1>2, <1>3

(* A task that is linked into the alarm queue stays so while it waits. *)
LEMMA SleepersLinkedKept ==
  ASSUME Base, Base', Napping, SleepersLinked, ~ResumeAtElr, [Next]_vars,
         IrqPoints \cap Fragile = {}
  PROVE  SleepersLinked'
  <1>1. IInv /\ IInv' /\ Frames /\ NULL \notin Task
    BY Constants DEF Base, Frames
  <1>2. PICK S \in SUBSET Task :
          /\ RingOf(alarms, S)
          /\ \A u \in Task \ S : alarms.next[u] = NULL /\ alarms.prev[u] = NULL
          /\ \A u \in S : status[u] = "WAITING" \/ (At("doze") /\ u = current)
    BY DEF Base, Order, Ticking
  <1>3. PICK R \in SUBSET Task :
          /\ RingOf(alarms', R)
          /\ \A u \in R : status'[u] = "WAITING" \/ (At("doze") /\ u = current)'
    BY DEF Base, Order, Ticking
  <1>4. /\ \A u \in R : alarms'.next[u] # NULL
        /\ \A u \in Task : status[u] = "WAITING" => u \in S
    BY <1>1, <1>2, <1>3 DEF RingOf, SleepersLinked
  <1>5. CASE FireAlarm
    <2>1. PICK t, m : t = alarms.head /\ m = RemoveNode(alarms, t)
      OBVIOUS
    <2>2. /\ t \in S /\ t \in Task /\ alarms' = m /\ status' = [status EXCEPT ![t] = "READY"]
          /\ cpu' = cpu /\ Top.pc = "trigger"
      <3>1. t # NULL /\ Top.pc = "trigger"
        BY <1>5, <2>1 DEF FireAlarm, AlarmDue, At
      <3>2. t \in S
        BY <1>2, <2>1, <3>1 DEF RingOf
      <3> QED BY <1>5, <2>1, <3>1, <3>2 DEF FireAlarm
    <2>3. RingOf(m, S \ {t})
      <3>1. PICK l : l = alarms
        OBVIOUS
      <3>2. l \in ListOver(Task, Task) /\ RingOf(l, S) /\ m = RemoveNode(l, t)
        BY <1>1, <1>2, <2>1, <3>1, AlarmsOK
      <3> QED BY <1>1, <2>2, <3>2, RemoveNodeRing
    <2>4. status \in [Task -> Statuses]
      BY <1>1 DEF IInv, Values
    <2>5. \A u \in Task : status'[u] = "WAITING" => u \in S \ {t}
      BY <1>4, <2>2, <2>4
    <2>6. \A u \in S \ {t} : m.next[u] # NULL
      BY <1>1, <2>3 DEF RingOf
    <2>7. ~At("doze")'
      BY <2>2 DEF At, Top
    <2> QED BY <2>2, <2>5, <2>6, <2>7 DEF SleepersLinked
  <1>6. CASE Arm
    <2>1. PICK t, m, o : t = current /\ m = AddNodeOrdered(alarms, t, o) /\ o = timeout'
      OBVIOUS
    <2>2. /\ t \in Task /\ status[t] = "RUNNING" /\ Top.num # 0 /\ UNCHANGED <<status, current>>
      BY <1>1, <1>6, <2>1, SleepFrames, InTaskCode
         DEF Arm, At, EarlyLabel, Base, Order, Roles, SwitchLabel, HasContext, SleepStep
    <2>3. t \notin S
      BY <1>2, <1>6, <2>2 DEF Arm, At
    <2>4. alarms' = m
      <3>1. RemoveNode(alarms, t) = alarms
        BY <1>2, <2>2, <2>3, RemoveNodeUnlinked
      <3> QED BY <1>6, <2>1, <2>2, <3>1 DEF Arm, SetAlarm
    <2>5. RingOf(m, S \cup {t})
      BY <1>1, <1>2, <2>1, <2>2, <2>3, AlarmsOK, AddNodeOrderedRing
    <2>6. \A u \in S \cup {t} : m.next[u] # NULL
      BY <1>1, <2>2, <2>5 DEF RingOf
    <2> QED BY <1>4, <2>1, <2>2, <2>4, <2>6 DEF SleepersLinked
  <1>7. CASE Doze
    <2>1. /\ alarms' = alarms /\ status' = [status EXCEPT ![current] = "WAITING"]
          /\ current' = current /\ At("doze") /\ Top'.pc = "schedule"
      BY <1>1, <1>7, StepTop DEF Doze, timer, sched, SetStatus, Schedule, Frame, TaskFrame
    <2>2. status \in [Task -> Statuses]
      BY <1>1 DEF IInv, Values
    <2> QED BY <2>1, <2>2 DEF SleepersLinked, At
  <1>8. CASE ~FireAlarm /\ ~Arm /\ ~Doze
    <2>1. At("doze")' => UNCHANGED vars
      BY <1>1, <1>8, DozeEntered
    <2>2. alarms' = alarms /\ \A u \in Task : status'[u] = "WAITING" => status[u] = "WAITING"
      <3>1. alarms' = alarms
        BY <1>8 DEF Next, Boot, KernelStep, UserStep, BootIdle, UserMain, StartMultitasking,
          Create, BecomeReady, ScheduleEntry, Requeue, MarkReady, SaveContext, Pick, Unqueue,
          Run, RestoreContext, AlarmsDone, IrqReturn, Interrupt, Sleep, SleepDiff,
          ChangePriority, Reinsert, SetPriority, Suspend, Suspended, Resume,
          Compute, UserSleep, SetPeriod, UserChangePriority, UserSuspend, UserResume,
          UserCreate, UserCall, LockScheduler, RestoreScheduler, vars, kernel, timer
      <3> QED BY <1>1, <1>8, <3>1, WaitingStays
    <2>3. CASE At("doze")'
      BY <2>1, <2>3 DEF vars, kernel, tcb, timer, sched, SleepersLinked, At, Top
    <2>4. CASE ~At("doze")'
      BY <2>2, <2>4 DEF SleepersLinked
    <2> QED BY <2>3, <2>4
  <1> QED BY <1>5, <1>6, <1>7, <1>8

LEMMA NapInvariance ==
  ASSUME ~ResumeAtElr, IrqPoints \cap (Fragile \cup {"sleep_diff"}) = {}, 0 \notin Periods
  PROVE  Spec => [](Base /\ Napping /\ SleepersLinked)
  <1>1. Init => Base /\ Napping /\ SleepersLinked
    BY FramesInit, OrderInit, NapInit DEF Base
  <1>2. Base /\ Napping /\ SleepersLinked /\ [Next]_vars => (Base /\ Napping /\ SleepersLinked)'
    <2> SUFFICES ASSUME Base, Napping, SleepersLinked, [Next]_vars
                 PROVE  (Base /\ Napping /\ SleepersLinked)'
      OBVIOUS
    <2>1. Base'
      BY OrderNext
    <2>2. Frames /\ Frames'
      BY <2>1 DEF Base
    <2>3. Napping' /\ SleepersLinked'
      BY <2>1, <2>2, NapKept, SleepersLinkedKept
    <2> QED BY <2>1, <2>3
  <1> QED BY <1>1, <1>2, PTL DEF Spec

LEMMA SleepersArmed ==
  ASSUME Base, SleepersLinked, InTask, NEW t \in Task
  PROVE  /\ status[t] = "WAITING" => t \in Armed
         /\ status[t] \in {"RUNNING", "SUSPENDED"} => links.next[t] = NULL
  <1>1. IInv /\ Home[t] = IF status[t] = "READY" THEN priority[t] ELSE NoQueue
    BY SettledHome DEF Base, Frames, InTask, Unsettled
  <1>2. status[t] \in {"RUNNING", "SUSPENDED"} => links.next[t] = NULL
    BY <1>1 DEF Base, Order, Placing, Placed
  <1>3. PICK S \in SUBSET Task :
          RingOf(alarms, S) /\ \A u \in Task \ S : alarms.next[u] = NULL
    BY DEF Base, Order, Ticking
  <1>4. status[t] = "WAITING" => t \in S
    BY <1>3 DEF SleepersLinked
  <1>5. Members(alarms) = S
    BY <1>1, <1>3, AlarmsOK, RingMembers
  <1> QED BY <1>2, <1>4, <1>5 DEF Armed

(* A task that waits can be woken, since its alarm is in the alarm queue,  *)
(* and a task that runs or is suspended is in no queue (task.c:88-256).    *)
(* eos_sleep(0) is for tasks with a period that is not 0 (task.c:235-249), *)
(* and no tick may come between the test that the release is ahead and its *)
(* subtraction of the tick counter from it (task.c:241-245).               *)
THEOREM NoSleeperIsLost ==
  ASSUME ~ResumeAtElr, IrqPoints \cap (Fragile \cup {"sleep_diff"}) = {}, 0 \notin Periods
  PROVE  Spec => []NoTaskIsLost
  <1>1. Base /\ SleepersLinked => NoTaskIsLost
    BY SleepersArmed DEF NoTaskIsLost
  <1>2. [](Base /\ Napping /\ SleepersLinked) => []NoTaskIsLost
    BY <1>1, PTL
  <1> QED BY <1>2, NapInvariance, PTL

-----------------------------------------------------------------------------
(* The alarms go off in time.                                              *)

(* No alarm can be set for so long that its timeout wraps (timer.c:63).    *)
NoWrap == \A n \in SleepTicks : n = 0 \/ n + MaxTick < WORD

(* Calls of eos_sleep for a time the application does not use. *)
OddSleep == {f \in FrameType : f.pc = "sleep" /\ f.num \notin SleepTicks}

(* An alarm is set for a time that is not past and does not wrap: no tick  *)
(* comes between the computation of that time and the setting.             *)
Punctual ==
  /\ tick <= MaxTick
  /\ CalmIn({"sleep_diff", "arm"})
  /\ ~Having(cpu, OddSleep) /\ \A t \in Task : ~Having(ctx[t], OddSleep)
  /\ At("sleep_diff") => tick < wakeup[current]
  /\ At("arm") => Top.num \in Nat /\ tick + Top.num < WORD

(* The alarm queue is sorted and, but for the handler, has no due alarm.   *)
AlarmsAhead ==
  \E S \in SUBSET Task :
    /\ RingOf(alarms, S)
    /\ \A u \in Task \ S : alarms.next[u] = NULL
    /\ Ascending(alarms, S, timeout)
    /\ ~At("trigger") => \A u \in S : tick < timeout[u]

LEMMA AheadInit ==
  ASSUME Init
  PROVE  Punctual /\ AlarmsAhead
  <1>1. /\ cpu = <<Frame("boot")>> /\ Len(cpu) = 1 /\ Tail(cpu) = <<>> /\ Top.pc = "boot"
        /\ ctx = [t \in Task |-> <<>>] /\ Len(<<>>) = 0 /\ 1 .. 0 = {}
        /\ \A i \in 1 .. 1 : cpu[i].pc = "boot"
    BY DEF Init, Frame, TaskFrame, Top
  <1>2. \A F : ~Having(<<>>, F)
    BY <1>1 DEF Having
  <1>3. ~Having(cpu, OddSleep)
    BY <1>1 DEF Having, OddSleep
  <1>4. CalmIn({"sleep_diff", "arm"})
    BY <1>1 DEF CalmIn, Holding
  <1>5. tick <= MaxTick
    BY KernelAssumption DEF Init
  <1>6. Punctual
    BY <1>1, <1>2, <1>3, <1>4, <1>5 DEF Punctual, At
  <1>7. AlarmsAhead
    <2>1. alarms.head = NULL /\ \A u \in Task : alarms.next[u] = NULL
      BY DEF Init
    <2>2. RingOf(alarms, {})
      BY <2>1 DEF RingOf
    <2> QED BY <2>1, <2>2 DEF AlarmsAhead, Ascending
  <1> QED BY <1>6, <1>7

LEMMA SleepPunctual ==
  ASSUME IInv, IInv', Punctual, SleepStep, NoWrap
  PROVE  /\ UNCHANGED <<ctx, tick>>
         /\ ~Having(cpu', OddSleep)
         /\ Top'.pc = "sleep_diff" => tick' < wakeup'[current']
         /\ Top'.pc = "arm" => Top'.num \in Nat /\ tick' + Top'.num < WORD
  <1>1. /\ current \in Task /\ WORD \in Nat \ {0} /\ tick \in 0 .. WORD - 1
        /\ wakeup \in [Task -> 0 .. WORD - 1] /\ period \in [Task -> Nat]
        /\ UNCHANGED <<ctx, tick, current>>
    <2>1. current \in Task
      BY InTaskCode DEF SleepStep, UserSleep, UserCall, Sleep, SleepDiff, Arm, At, EarlyLabel
    <2>2. UNCHANGED <<ctx, tick, current>>
      BY DEF SleepStep, UserSleep, UserCall, Sleep, SleepDiff, Arm, kernel, timer, sched,
         contexts, SetAlarm
    <2> QED BY <2>1, <2>2, Constants DEF IInv, Values
  <1>2. ~Having(cpu, OddSleep)
    BY DEF Punctual
  <1>3. CASE UserSleep
    <2>1. PICK n \in SleepTicks : /\ Top.pc = "user" /\ Call(TaskFrame("sleep", NULL, n), "user")
      BY <1>3 DEF UserSleep, UserCall, At
    <2>2. PICK f, r, s : f = TaskFrame("sleep", NULL, n) /\ r = cpu /\ s = cpu'
      OBVIOUS
    <2>3. /\ f.pc = "sleep" /\ f.num = n /\ s = <<f>> \o r /\ r \in Seq(FrameType)
          /\ f \in FrameType /\ Top' = f
      BY <2>1, <2>2, CallIsPush, CallTop, CpuStack DEF TaskFrame
    <2>4. \A G : Having(s, G) <=> f \in G \/ Having(r, G)
      BY <2>3, HavingPush
    <2>5. f \notin OddSleep
      BY <2>3 DEF OddSleep
    <2> QED BY <1>1, <1>2, <2>2, <2>3, <2>4, <2>5
  <1>4. CASE Sleep
    <2>1. Top.pc = "sleep"
      BY <1>4 DEF Sleep, At
    <2>2. CASE Return
      <3>1. \A F : Having(cpu', F) => Having(cpu, F)
        BY <2>2, HavingTail DEF Return
      <3>2. Top'.pc \notin {"sleep_diff", "arm"}
        BY <2>2, ReturnTopIn DEF Punctual
      <3> QED BY <1>1, <1>2, <3>1, <3>2
    <2>3. CASE Goto("arm") /\ Top.num \in SleepTicks
      <3>1. PICK f : f = [Top EXCEPT !.pc = "arm"]
        OBVIOUS
      <3>2. f.pc = "arm" /\ f.num = Top.num /\ Step(f) /\ Top' = f
        BY <2>3, <3>1, CpuStack, StepTop DEF Goto, FrameType
      <3>3. \A F : Having(cpu', F) => f \in F \/ Having(cpu, F)
        BY <3>2, HavingStep
      <3>4. f \notin OddSleep
        BY <3>2 DEF OddSleep
      <3>5. f.num \in Nat /\ tick + f.num < WORD
        <4>1. /\ f.num \in Nat /\ (f.num = 0 \/ f.num + MaxTick < WORD)
              /\ tick <= MaxTick /\ MaxTick \in Nat
          BY <2>3, <3>2, KernelAssumption DEF NoWrap, Punctual
        <4> QED BY <1>1, <4>1
      <3> QED BY <1>1, <1>2, <3>2, <3>3, <3>4, <3>5
    <2>4. CASE Goto("sleep_diff") /\ tick < wakeup'[current]
      <3>1. PICK f : f = [Top EXCEPT !.pc = "sleep_diff"]
        OBVIOUS
      <3>2. f.pc = "sleep_diff" /\ Step(f) /\ Top' = f
        BY <2>4, <3>1, CpuStack, StepTop DEF Goto, FrameType
      <3>3. \A F : Having(cpu', F) => f \in F \/ Having(cpu, F)
        BY <3>2, HavingStep
      <3>4. f \notin OddSleep
        BY <3>2 DEF OddSleep
      <3> QED BY <1>1, <1>2, <2>4, <3>2, <3>3, <3>4
    <2>5. Return \/ Goto("arm") \/ (Goto("sleep_diff") /\ tick < wakeup'[current])
      <3>1. PICK r : r = (wakeup[current] + period[current]) % WORD
        OBVIOUS
      <3>2. r \in Nat /\ tick \in Nat
        <4>1. wakeup[current] \in Nat /\ period[current] \in Nat
          BY <1>1
        <4> QED BY <1>1, <3>1, <4>1
      <3>3. \/ Return \/ Goto("arm")
            \/ wakeup' = [wakeup EXCEPT ![current] = r] /\ ~(r <= tick) /\ Goto("sleep_diff")
        BY <1>4, <3>1 DEF Sleep
      <3> QED BY <1>1, <3>2, <3>3
    <2>6. Top.num \in SleepTicks
      <3>1. Top \notin OddSleep /\ Top \in FrameType
        BY <1>2, HavingTail, CpuStack
      <3> QED BY <2>1, <3>1 DEF OddSleep
    <2> QED BY <2>2, <2>3, <2>4, <2>5, <2>6
  <1>5. CASE SleepDiff
    <2>1. PICK n : n = (wakeup[current] - tick) % WORD
      OBVIOUS
    <2>2. Top.pc = "sleep_diff" /\ Step([Top EXCEPT !.pc = "arm", !.num = n])
      BY <1>5, <2>1 DEF SleepDiff, At
    <2>3. n \in Nat /\ tick + n < WORD
      <3>1. wakeup[current] \in 0 .. WORD - 1
        BY <1>1
      <3>2. tick < wakeup[current]
        BY <2>2 DEF Punctual, At
      <3>3. wakeup[current] - tick \in 1 .. WORD - 1
        BY <1>1, <3>1, <3>2
      <3>4. n = wakeup[current] - tick
        BY <1>1, <2>1, <3>3
      <3> QED BY <1>1, <3>1, <3>3, <3>4
    <2>4. PICK f : f = [Top EXCEPT !.pc = "arm", !.num = n]
      OBVIOUS
    <2>5. f.pc = "arm" /\ f.num = n /\ Step(f) /\ Top' = f
      BY <2>2, <2>4, CpuStack, StepTop DEF FrameType
    <2>6. \A F : Having(cpu', F) => f \in F \/ Having(cpu, F)
      BY <2>5, HavingStep
    <2>7. f \notin OddSleep
      BY <2>5 DEF OddSleep
    <2> QED BY <1>1, <1>2, <2>3, <2>5, <2>6, <2>7
  <1>6. CASE Arm
    <2>1. PICK f : f = [Top EXCEPT !.pc = "doze"]
      OBVIOUS
    <2>2. f.pc = "doze" /\ Step(f) /\ Top' = f
      BY <1>6, <2>1, CpuStack, StepTop DEF Arm, Goto, FrameType
    <2>3. \A F : Having(cpu', F) => f \in F \/ Having(cpu, F)
      BY <2>2, HavingStep
    <2>4. f \notin OddSleep
      BY <2>2 DEF OddSleep
    <2> QED BY <1>1, <1>2, <2>2, <2>3, <2>4
  <1> QED BY <1>3, <1>4, <1>5, <1>6 DEF SleepStep

LEMMA PunctualKept ==
  ASSUME IInv, IInv', Punctual, ~ResumeAtElr, NoWrap, [Next]_vars,
         IrqPoints \cap {"sleep_diff", "arm"} = {}
  PROVE  Punctual'
  <1> DEFINE L == {"sleep_diff", "arm"}
  <1>1. CalmIn(L)'
    <2>1. CalmIn(L) /\ L \cap (ReturnLabel \cup BottomLabel \cup IrqPoints) = {}
      BY DEF Punctual, ReturnLabel, BottomLabel
    <2> QED BY <2>1, CalmInKept
  <1>2. \A f \in OddSleep : f.pc \in {"sleep", "arm"}
    BY DEF OddSleep
  <1>3. ASSUME NEW t \in Task PROVE ~Having(ctx'[t], OddSleep)
    <2>1. ~Having(NewStack(t), OddSleep)
      BY HavingNew DEF OddSleep
    <2>2. ~Having(Tail(cpu), OddSleep)
      BY HavingTail DEF Punctual
    <2> QED BY <2>1, <2>2, NextContexts DEF Punctual
  <1>4. tick' <= MaxTick
    <2>1. CASE Interrupt
      <3>1. tick < MaxTick /\ tick' = (tick + 1) % WORD /\ tick \in Nat /\ MaxTick \in Nat
            /\ WORD \in Nat \ {0} /\ tick < WORD
        BY <2>1, KernelAssumption DEF Interrupt, IInv, Values
      <3>2. CASE tick + 1 = WORD
        BY <3>1, <3>2
      <3>3. CASE tick + 1 < WORD
        <4>1. tick' = tick + 1
          BY <3>1, <3>3
        <4> QED BY <3>1, <4>1
      <3> QED BY <3>1, <3>2, <3>3
    <2>2. CASE ~Interrupt
      <3>1. tick' = tick
        BY <2>2 DEF Next, Boot, KernelStep, UserStep, BootIdle, UserMain, StartMultitasking,
          Create, BecomeReady, ScheduleEntry, Requeue, MarkReady, SaveContext, Pick, Unqueue,
          Run, RestoreContext, FireAlarm, AlarmsDone, IrqReturn, Sleep, SleepDiff, Arm,
          SetAlarm, Doze, ChangePriority, Reinsert, SetPriority, Suspend, Suspended, Resume,
          Compute, UserSleep, SetPeriod, UserChangePriority, UserSuspend, UserResume,
          UserCreate, UserCall, LockScheduler, RestoreScheduler, vars, kernel, timer
      <3> QED BY <3>1 DEF Punctual
    <2> QED BY <2>1, <2>2
  <1>5. CASE SleepStep
    <2>1. /\ ~Having(cpu', OddSleep)
          /\ Top'.pc = "sleep_diff" => tick' < wakeup'[current']
          /\ Top'.pc = "arm" => Top'.num \in Nat /\ tick' + Top'.num < WORD
      BY <1>5, SleepPunctual
    <2> QED BY <1>1, <1>3, <1>4, <2>1 DEF Punctual, At
  <1>6. CASE ~SleepStep
    <2>1. Top'.pc \in L => UNCHANGED vars
      <3>1. L \in SUBSET Inward /\ CalmIn(L) /\ L \cap IrqPoints = {}
        BY DEF Inward, Punctual
      <3> QED BY <1>6, <3>1, SleepEntered
    <2>2. /\ At("sleep_diff")' => tick' < wakeup'[current']
          /\ At("arm")' => Top'.num \in Nat /\ tick' + Top'.num < WORD
      <3>1. CASE UNCHANGED vars
        BY <3>1 DEF Punctual, vars, kernel, periods, timer, sched, At, Top
      <3>2. CASE Top'.pc \notin L
        BY <3>2 DEF At
      <3> QED BY <2>1, <3>1, <3>2
    <2>3. ~Having(cpu', OddSleep)
      <3>1. CASE RestoreContext
        BY <3>1, TopFrame DEF RestoreContext, At, FrameOK, HasContext, Punctual
      <3>2. CASE ~RestoreContext
        BY <1>2, <1>6, <3>2, NapFrames DEF Punctual
      <3> QED BY <3>1, <3>2
    <2> QED BY <1>1, <1>3, <1>4, <2>2, <2>3 DEF Punctual
  <1> QED BY <1>5, <1>6

(* The handler takes the head alarm off. *)
LEMMA FireAhead ==
  ASSUME IInv, AlarmsAhead, FireAlarm
  PROVE  AlarmsAhead'
  <1>1. PICK S \in SUBSET Task :
          /\ RingOf(alarms, S) /\ Ascending(alarms, S, timeout)
          /\ \A u \in Task \ S : alarms.next[u] = NULL
    BY DEF AlarmsAhead
  <1>2. PICK l, t, m : l = alarms /\ t = l.head /\ m = RemoveNode(l, t)
    OBVIOUS
  <1>3. t # NULL /\ alarms' = m /\ timeout' = timeout /\ Top'.pc = "trigger"
    BY <1>2 DEF FireAlarm, AlarmDue, At, Top
  <1>4. t \in S /\ NULL \notin Task /\ l \in ListOver(Task, Task) /\ RingOf(l, S)
        /\ timeout \in [Task -> Nat] /\ Ascending(l, S, timeout)
    BY <1>1, <1>2, <1>3, AlarmsOK DEF RingOf, IInv, Values
  <1>5. RingOf(m, S \ {t}) /\ LinksKept(l, m, Task, S) /\ m.next[t] = NULL
    BY <1>2, <1>4, RemoveNodeRing
  <1>6. Ascending(m, S \ {t}, timeout)
    BY <1>2, <1>4, RemoveNodeAscending
  <1>7. \A u \in Task \ (S \ {t}) : m.next[u] = NULL
    BY <1>1, <1>2, <1>5 DEF LinksKept
  <1> QED BY <1>3, <1>5, <1>6, <1>7 DEF AlarmsAhead, At

(* eos_set_alarm takes the alarm off, and puts it where it belongs.        *)
LEMMA ArmAhead ==
  ASSUME IInv, IInv', Punctual, AlarmsAhead, Arm, IsFiniteSet(Task)
  PROVE  AlarmsAhead'
  <1>1. PICK S \in SUBSET Task :
          /\ RingOf(alarms, S) /\ Ascending(alarms, S, timeout)
          /\ \A u \in Task \ S : alarms.next[u] = NULL
          /\ ~At("trigger") => \A u \in S : tick < timeout[u]
    BY DEF AlarmsAhead
  <1>2. PICK l, t, n, off : l = alarms /\ t = current /\ n = Top.num /\ off = RemoveNode(l, t)
    OBVIOUS
  <1>3. /\ t \in Task /\ NULL \notin Task /\ l \in ListOver(Task, Task) /\ RingOf(l, S)
        /\ timeout \in [Task -> Nat] /\ timeout' \in [Task -> Nat] /\ Ascending(l, S, timeout)
        /\ tick \in Nat /\ n \in Nat /\ tick + n < WORD /\ WORD \in Nat \ {0}
        /\ \A u \in S : tick < timeout[u]
    BY <1>1, <1>2, AlarmsOK, InTaskCode, Constants
       DEF Arm, At, EarlyLabel, IInv, Values, Punctual
  <1>4. /\ tick' = tick
        /\ timeout' = IF n = 0 THEN timeout ELSE [timeout EXCEPT ![t] = (tick + n) % WORD]
        /\ alarms' = IF n = 0 THEN off ELSE AddNodeOrdered(off, t, timeout')
    BY <1>2 DEF Arm, SetAlarm
  <1>5. PICK R : R = S \ {t}
    OBVIOUS
  <1>6. /\ RingOf(off, R) /\ Ascending(off, R, timeout) /\ off \in ListOver(Task, Task)
        /\ \A u \in Task \ R : off.next[u] = NULL
    <2>1. CASE t \in S
      <3>1. RingOf(off, R) /\ LinksKept(l, off, Task, S) /\ off.next[t] = NULL
        BY <1>2, <1>3, <1>5, <2>1, RemoveNodeRing
      <3>2. Ascending(off, R, timeout)
        BY <1>2, <1>3, <1>5, <2>1, RemoveNodeAscending
      <3>3. off \in ListOver(Task, Task)
        BY <1>2, <1>3, RemoveNodeType
      <3> QED BY <1>1, <1>2, <1>5, <3>1, <3>2, <3>3 DEF LinksKept
    <2>2. CASE t \notin S
      <3>1. off = l /\ R = S
        BY <1>1, <1>2, <1>3, <1>5, <2>2, RemoveNodeUnlinked
      <3> QED BY <1>1, <1>2, <1>3, <3>1
    <2> QED BY <2>1, <2>2
  <1>7. CASE n = 0
    <2>1. alarms' = off /\ timeout' = timeout /\ \A u \in R : tick' < timeout'[u]
      BY <1>3, <1>4, <1>5, <1>7
    <2> QED BY <1>5, <1>6, <2>1 DEF AlarmsAhead
  <1>8. CASE n # 0
    <2>1. PICK o, m : o = timeout' /\ m = AddNodeOrdered(off, t, o)
      OBVIOUS
    <2>2. o[t] = tick + n /\ \A u \in R : o[u] = timeout[u]
      <3>1. tick + n \in 0 .. WORD - 1
        BY <1>3
      <3>2. (tick + n) % WORD = tick + n
        BY <1>3, <3>1
      <3>3. o = [timeout EXCEPT ![t] = tick + n]
        BY <1>4, <1>8, <2>1, <3>2
      <3> QED BY <1>3, <1>5, <3>3
    <2>3. Ascending(off, R, o)
      <3>1. \A u \in R : off.next[u] \in R
        BY <1>6 DEF RingOf
      <3> QED BY <1>6, <2>2, <3>1 DEF Ascending
    <2>4. t \in Task \ R /\ R \in SUBSET Task /\ o \in [Task -> Nat]
      BY <1>3, <1>5, <2>1
    <2>5. RingOf(m, R \cup {t}) /\ LinksKept(off, m, Task, R \cup {t})
      BY <1>3, <1>6, <2>1, <2>4, AddNodeOrderedRing
    <2>6. Ascending(m, R \cup {t}, o)
      BY <1>3, <1>6, <2>1, <2>3, <2>4, AddNodeOrderedAscending
    <2>7. \A u \in Task \ (R \cup {t}) : m.next[u] = NULL
      BY <1>6, <2>5 DEF LinksKept
    <2>8. \A u \in R \cup {t} : tick < o[u]
      <3>1. tick < o[t]
        BY <1>3, <1>8, <2>2
      <3> QED BY <1>3, <1>5, <2>2, <3>1
    <2>9. alarms' = m /\ timeout' = o /\ tick' = tick /\ R \cup {t} \in SUBSET Task
      BY <1>4, <1>8, <2>1, <2>4
    <2> QED BY <2>5, <2>6, <2>7, <2>8, <2>9 DEF AlarmsAhead
  <1> QED BY <1>7, <1>8

LEMMA AheadKept ==
  ASSUME IInv, IInv', Punctual, AlarmsAhead, IsFiniteSet(Task), [Next]_vars
  PROVE  AlarmsAhead'
  <1>1. CASE FireAlarm
    BY <1>1, FireAhead
  <1>2. CASE Arm
    BY <1>2, ArmAhead
  <1>3. CASE ~FireAlarm /\ ~Arm
    <2>1. PICK S \in SUBSET Task :
            /\ RingOf(alarms, S) /\ Ascending(alarms, S, timeout)
            /\ \A u \in Task \ S : alarms.next[u] = NULL
            /\ ~At("trigger") => \A u \in S : tick < timeout[u]
      BY DEF AlarmsAhead
    <2>2. UNCHANGED <<alarms, timeout>>
      BY <1>3 DEF Next, Boot, KernelStep, UserStep, BootIdle, UserMain, StartMultitasking,
          Create, BecomeReady, ScheduleEntry, Requeue, MarkReady, SaveContext, Pick, Unqueue,
          Run, RestoreContext, AlarmsDone, IrqReturn, Interrupt, Sleep, SleepDiff,
          Doze, ChangePriority, Reinsert, SetPriority, Suspend, Suspended, Resume,
          Compute, UserSleep, SetPeriod, UserChangePriority, UserSuspend, UserResume,
          UserCreate, UserCall, LockScheduler, RestoreScheduler, vars, kernel, timer
    <2>3. Top'.pc # "trigger" => \A u \in S : tick' < timeout'[u]
      <3>1. CASE Interrupt
        <4>1. Top'.pc = "trigger"
          BY <3>1, NewTop, CpuStack DEF Interrupt, Frame, TaskFrame, Top
        <4> QED BY <4>1
      <3>2. CASE AlarmsDone
        <4>1. tick' = tick /\ ~AlarmDue
          BY <3>2 DEF AlarmsDone, kernel, timer
        <4>2. PICK l : l = alarms
          OBVIOUS
        <4>3. tick \in Nat /\ \A u \in S : timeout[u] \in Nat
          BY DEF IInv, Values
        <4>4. \A u \in S : timeout[l.head] <= timeout[u] /\ l.head \in S /\ l.head # NULL
          <5>1. \A u \in S : timeout[l.head] <= timeout[u]
            BY <2>1, <4>2, <4>3, AscendingHeadLeast
          <5>2. S # {} => l.head \in S
            BY <2>1, <4>2 DEF RingOf
          <5> QED BY <5>1, <5>2, Constants
        <4>5. \A u \in S : ~(timeout[l.head] <= tick)
          BY <4>1, <4>2, <4>4 DEF AlarmDue
        <4>6. \A u \in S : tick < timeout[u]
          BY <4>3, <4>4, <4>5
        <4> QED BY <2>2, <4>1, <4>6
      <3>3. CASE At("trigger") /\ ~AlarmsDone /\ ~Interrupt
        <4>1. UNCHANGED vars
          BY <1>3, <3>3 DEF At, Next, Boot, KernelStep, UserStep, BootIdle, UserMain,
            StartMultitasking, Create, BecomeReady, ScheduleEntry, Requeue, MarkReady,
            SaveContext, Pick, Unqueue, Run, RestoreContext, IrqReturn, Sleep, SleepDiff,
            Doze, ChangePriority, Reinsert, SetPriority, Suspend, Suspended, Resume,
            Compute, UserSleep, SetPeriod, UserChangePriority, UserSuspend, UserResume,
            UserCreate, UserCall, LockScheduler, RestoreScheduler
        <4> QED BY <3>3, <4>1 DEF vars, At, Top
      <3>4. CASE ~At("trigger") /\ ~AlarmsDone /\ ~Interrupt
        <4>1. tick' = tick
          BY <1>3, <3>4 DEF Next, Boot, KernelStep, UserStep, BootIdle, UserMain,
            StartMultitasking, Create, BecomeReady, ScheduleEntry, Requeue, MarkReady,
            SaveContext, Pick, Unqueue, Run, RestoreContext, IrqReturn, Sleep, SleepDiff,
            Doze, ChangePriority, Reinsert, SetPriority, Suspend, Suspended, Resume,
            Compute, UserSleep, SetPeriod, UserChangePriority, UserSuspend, UserResume,
            UserCreate, UserCall, LockScheduler, RestoreScheduler, vars, kernel, timer
        <4> QED BY <2>1, <2>2, <3>4, <4>1
      <3> QED BY <3>1, <3>2, <3>3, <3>4
    <2> QED BY <2>1, <2>2, <2>3 DEF AlarmsAhead, At
  <1> QED BY <1>1, <1>2, <1>3

(* No alarm is passed over: whenever a task runs outside the kernel the    *)
(* alarm queue is a sound ring, sorted by timeout, and no alarm in it is   *)
(* due (eos_set_alarm, eos_trigger_counter: timer.c:54-89); if no tick     *)
(* comes between the computation of a time to sleep and the setting of the *)
(* alarm (task.c:241-249) and no timeout wraps.                            *)
THEOREM AlarmsInTime ==
  ASSUME ~ResumeAtElr, IrqPoints \cap {"sleep_diff", "arm"} = {}, NoWrap, IsFiniteSet(Task)
  PROVE  Spec => []AlarmsOnTime
  <1>1. Init => IInv /\ Punctual /\ AlarmsAhead
    BY InitIInv, AheadInit
  <1>2. IInv /\ Punctual /\ AlarmsAhead /\ [Next]_vars => (IInv /\ Punctual /\ AlarmsAhead)'
    BY NextIInv, PunctualKept, AheadKept
  <1>3. IInv /\ AlarmsAhead => AlarmsOnTime
    <2> SUFFICES ASSUME IInv, AlarmsAhead, InTask PROVE AlarmsOnTime
      BY DEF AlarmsOnTime
    <2>1. PICK S \in SUBSET Task :
            /\ RingOf(alarms, S) /\ Ascending(alarms, S, timeout)
            /\ \A u \in S : tick < timeout[u]
      BY DEF AlarmsAhead, InTask, At
    <2>2. PICK l, ring : l = alarms /\ ring = Ring(l)
      OBVIOUS
    <2>3. NULL \notin Task /\ l \in ListOver(Task, Task) /\ timeout \in [Task -> Nat] /\ tick \in Nat
      BY <2>2, AlarmsOK DEF IInv, Values
    <2>4. WellFormed(l)
      BY <2>1, <2>2, <2>3, RingMembers
    <2>5. /\ \A i \in DOMAIN ring : ring[i] \in S
          /\ \A i, j \in DOMAIN ring : i < j => timeout[ring[i]] <= timeout[ring[j]]
      BY <2>1, <2>2, <2>3, RingAscending
    <2>6. \A i \in DOMAIN ring : timeout[ring[i]] > tick
      BY <2>1, <2>3, <2>5
    <2> QED BY <2>2, <2>4, <2>5, <2>6 DEF AlarmsOnTime
  <1> QED BY <1>1, <1>2, <1>3, PTL DEF Spec

-----------------------------------------------------------------------------
(* Periodic tasks.                                                         *)

(* Tasks only sleep until their next period, and no task that may be       *)
(* asleep is given another period: the start-up code sets them.            *)
OnlyPeriodic == SleepTicks \subseteq {0} /\ "set_period" \notin Ops

(* A task that waits, or is about to, has its alarm set for its release    *)
(* time; before the first switch of tasks none waits.                      *)
ReleasesSet ==
  /\ At("arm") => tick + Top.num = wakeup[current]
  /\ \A t \in Task :
       status[t] = "WAITING" \/ (At("doze") /\ t = current) => timeout[t] = wakeup[t]
  /\ current = NULL => \A t \in Task : status[t] # "WAITING"

LEMMA ReleaseComputed ==
  ASSUME Frames, IInv', Napping, Punctual, OnlyPeriodic, [Next]_vars,
         ~(At("arm") /\ UNCHANGED vars), IrqPoints \cap {"sleep_diff", "arm"} = {},
         Top'.pc = "arm"
  PROVE  tick' + Top'.num = wakeup'[current']
  <1>1. IInv /\ CalmIn({"sleep_diff", "arm"})
    BY DEF Frames, Punctual
  <1>2. SleepStep
    <2> SUFFICES ASSUME ~SleepStep PROVE FALSE
      OBVIOUS
    <2>1. /\ {"sleep_diff", "arm"} \in SUBSET Inward
          /\ {"sleep_diff", "arm"} \cap IrqPoints = {}
      BY DEF Inward
    <2>2. UNCHANGED vars
      BY <1>1, <2>1, SleepEntered
    <2> QED BY <2>2 DEF vars, At, Top
  <1>3. current \in Task /\ current # NULL /\ Top.pc # "restore"
    BY <1>1, <1>2, InTaskCode
       DEF SleepStep, UserSleep, UserCall, Sleep, SleepDiff, Arm, At, EarlyLabel
  <1>4. ~UserSleep
    <2> SUFFICES ASSUME UserSleep PROVE FALSE
      OBVIOUS
    <2>1. PICK n : Call(TaskFrame("sleep", NULL, n), "user")
      BY DEF UserSleep, UserCall
    <2>2. Top'.pc = "sleep"
      BY <1>1, <2>1, CallTop DEF TaskFrame
    <2> QED BY <2>2
  <1>5. ~Arm
    BY <1>1, GotoTop DEF Arm
  <1>6. ~Sleep
    <2> SUFFICES ASSUME Sleep PROVE FALSE
      OBVIOUS
    <2>1. Top.pc = "sleep" /\ Top \in FrameType
      BY <1>1, CpuStack DEF Sleep, At
    <2>2. ~Return
      BY <1>1, ReturnTopIn
    <2>3. ~Goto("sleep_diff")
      BY <1>1, GotoTop
    <2>4. ~(Top.num = 0 /\ period[current] # 0)
      BY <2>2, <2>3 DEF Sleep
    <2>5. Top \notin OddSleep
      BY <1>1, HavingTail DEF Punctual
    <2>6. Top.num = 0
      BY <2>1, <2>5 DEF OddSleep, OnlyPeriodic
    <2>7. Top \in ZeroSleep
      BY <2>1, <2>6 DEF ZeroSleep
    <2>8. period[current] # 0
      BY <1>1, <1>3, <2>7, HavingTail DEF Napping, At
    <2> QED BY <2>4, <2>6, <2>8
  <1>7. SleepDiff
    BY <1>2, <1>4, <1>5, <1>6 DEF SleepStep
  <1>8. PICK n : n = (wakeup[current] - tick) % WORD
    OBVIOUS
  <1>9. Step([Top EXCEPT !.pc = "arm", !.num = n]) /\ tick < wakeup[current]
        /\ UNCHANGED <<tick, wakeup, current>>
    BY <1>7, <1>8 DEF SleepDiff, Punctual, kernel, periods, timer, sched
  <1>10. PICK f : f = [Top EXCEPT !.pc = "arm", !.num = n]
    OBVIOUS
  <1>11. f.num = n /\ Top' = f
    BY <1>1, <1>9, <1>10, CpuStack, StepTop DEF FrameType
  <1>12. tick + n = wakeup[current]
    <2>1. wakeup[current] \in 0 .. WORD - 1 /\ tick \in 0 .. WORD - 1 /\ WORD \in Nat \ {0}
      BY <1>1, <1>3, Constants DEF IInv, Values
    <2>2. wakeup[current] - tick \in 1 .. WORD - 1
      BY <1>9, <2>1
    <2>3. n = wakeup[current] - tick
      BY <1>8, <2>1, <2>2
    <2> QED BY <2>1, <2>2, <2>3
  <1> QED BY <1>9, <1>11, <1>12

(* The start-up code runs before the first switch of tasks. *)
LEMMA StartUp ==
  ASSUME Frames, At("user_main")
  PROVE  current = NULL
  <1> SUFFICES ASSUME current # NULL PROVE FALSE
    OBVIOUS
  <1>1. PICK c \in [Task -> Task \cup {NULL}] : StacksIn(MakerStacks(c))
    BY DEF Frames, Makers
  <1>2. PICK Q : Q = OwnStacks
    OBVIOUS
  <1>3. StacksIn(Q) /\ IInv /\ ~At("restore")
    BY <1>1, <1>2, MakersOwn DEF Frames, At
  <1>4. current \in Task
    BY <1>3 DEF IInv, Pointers, Pointer, HasContext
  <1>5. PICK s : s = cpu
    OBVIOUS
  <1>6. s \in Belongs(current) /\ s[1].pc = "user_main"
    BY <1>2, <1>3, <1>4, <1>5 DEF StacksIn, OwnStacks, At, Top
  <1>7. 1 \in 1 .. Len(s) /\ s[1].pc \notin NoTaskLabel
    BY <1>4, <1>6, BelongsFacts
  <1> QED BY <1>6, <1>7 DEF NoTaskLabel

(* The release time of a task that waits is not changed. *)
LEMMA ReleaseStays ==
  ASSUME Base, ReleasesSet, OnlyPeriodic, [Next]_vars, ~Arm,
         NEW t \in Task, status[t] = "WAITING"
  PROVE  wakeup'[t] = wakeup[t] /\ timeout'[t] = timeout[t]
  <1>1. IInv /\ Frames /\ wakeup \in [Task -> 0 .. WORD - 1]
    BY DEF Base, Frames, IInv, Values
  <1>2. timeout' = timeout
    BY DEF Next, Boot, KernelStep, UserStep, BootIdle, UserMain, StartMultitasking,
          Create, BecomeReady, ScheduleEntry, Requeue, MarkReady, SaveContext, Pick, Unqueue,
          Run, RestoreContext, FireAlarm, AlarmsDone, IrqReturn, Interrupt, Sleep, SleepDiff,
          Doze, ChangePriority, Reinsert, SetPriority, Suspend, Suspended, Resume,
          Compute, UserSleep, SetPeriod, UserChangePriority, UserSuspend, UserResume,
          UserCreate, UserCall, LockScheduler, RestoreScheduler, vars, kernel, timer
  <1>3. CASE Create
    <2>1. Top.task \in Task /\ Top.task \notin HasContext
      BY <1>1, <1>3, CreatesNew DEF Create, Frames
    <2>2. status[Top.task] = "NEW"
      BY <1>1, <2>1 DEF IInv, Pointers
    <2> QED BY <1>1, <1>2, <1>3, <2>2 DEF Create
  <1>4. CASE SetPeriod
    BY <1>1, <1>4, StartUp DEF SetPeriod, OnlyPeriodic, ReleasesSet
  <1>5. CASE Sleep
    <2>1. current # NULL /\ Top.pc = "sleep"
      BY <1>1, <1>5, InTaskCode DEF Sleep, At, EarlyLabel
    <2>2. status[current] = "RUNNING"
      BY <2>1 DEF Base, Order, Roles, SwitchLabel
    <2>3. PICK r : r = (wakeup[current] + period[current]) % WORD
      OBVIOUS
    <2>4. wakeup' = wakeup \/ wakeup' = [wakeup EXCEPT ![current] = r]
      BY <1>5, <2>3 DEF Sleep
    <2> QED BY <1>1, <1>2, <2>2, <2>4
  <1>6. CASE ~Create /\ ~SetPeriod /\ ~Sleep
    <2>1. wakeup' = wakeup
      BY <1>6 DEF Next, Boot, KernelStep, UserStep, BootIdle, UserMain, StartMultitasking,
          BecomeReady, ScheduleEntry, Requeue, MarkReady, SaveContext, Pick, Unqueue,
          Run, RestoreContext, FireAlarm, AlarmsDone, IrqReturn, Interrupt, SleepDiff,
          Doze, ChangePriority, Reinsert, SetPriority, Suspend, Suspended, Resume,
          Compute, UserSleep, UserChangePriority, UserSuspend, UserResume,
          UserCreate, UserCall, LockScheduler, RestoreScheduler, vars, kernel, periods
    <2> QED BY <1>2, <2>1
  <1> QED BY <1>3, <1>4, <1>5, <1>6

LEMMA ReleasesKept ==
  ASSUME Base, Base', Napping, Punctual, ReleasesSet, OnlyPeriodic, [Next]_vars,
         IrqPoints \cap (Fragile \cup {"sleep_diff", "arm"}) = {}
  PROVE  ReleasesSet'
  <1>1. Frames /\ IInv /\ IInv' /\ status \in [Task -> Statuses]
    BY DEF Base, Frames, IInv, Values
  <1>2. IrqPoints \cap Fragile = {} /\ IrqPoints \cap {"sleep_diff", "arm"} = {}
    OBVIOUS
  <1>3. At("arm")' => tick' + Top'.num = wakeup'[current']
    <2>1. CASE At("arm") /\ UNCHANGED vars
      BY <2>1 DEF ReleasesSet, vars, kernel, periods, timer, sched, At, Top
    <2>2. CASE ~(At("arm") /\ UNCHANGED vars)
      BY <1>1, <1>2, <2>2, ReleaseComputed DEF At
    <2> QED BY <2>1, <2>2
  <1>4. current' = NULL => \A t \in Task : status'[t] # "WAITING"
    <2> SUFFICES ASSUME current' = NULL PROVE \A t \in Task : status'[t] # "WAITING"
      OBVIOUS
    <2>1. ~Run
      BY <1>1, TopFrame, Constants DEF Run, At, FrameOK, HasContext
    <2>2. current' = current
      BY <2>1 DEF Next, Boot, KernelStep, UserStep, BootIdle, UserMain,
              StartMultitasking, Create, BecomeReady, ScheduleEntry, Requeue, MarkReady,
              SaveContext, Pick, Unqueue, RestoreContext, Interrupt, FireAlarm, AlarmsDone,
              IrqReturn, Sleep, SleepDiff, Arm, Doze, ChangePriority, Reinsert, SetPriority,
              Suspend, Suspended, Resume, Compute, SetPeriod, UserSleep, UserChangePriority,
              UserSuspend, UserResume, UserCreate, UserCall, LockScheduler, RestoreScheduler,
              vars, kernel, sched
    <2>3. ~Doze
      BY <1>1, <2>2, InTaskCode DEF Doze, At, EarlyLabel
    <2> QED BY <1>1, <2>2, <2>3, WaitingStays DEF ReleasesSet
  <1>5. ASSUME NEW t \in Task, status'[t] = "WAITING" \/ (At("doze")' /\ t = current')
        PROVE  timeout'[t] = wakeup'[t]
    <2>1. CASE Arm
      <3>1. /\ current \in Task /\ current # NULL /\ Top.num # 0 /\ Top.pc = "arm"
            /\ UNCHANGED <<current, status, wakeup, tick>>
        BY <1>1, <2>1, InTaskCode, SleepFrames
           DEF Arm, At, EarlyLabel, SleepStep, kernel, tcb, periods, sched, SetAlarm
      <3>2. timeout' = [timeout EXCEPT ![current] = (tick + Top.num) % WORD]
        BY <2>1, <3>1 DEF Arm, SetAlarm
      <3>3. tick + Top.num = wakeup[current] /\ wakeup[current] \in 0 .. WORD - 1
        BY <1>1, <3>1 DEF ReleasesSet, At, IInv, Values
      <3>4. timeout'[current] = wakeup[current]
        <4>1. WORD \in Nat \ {0} /\ timeout \in [Task -> 0 .. WORD - 1]
          BY <1>1, Constants DEF IInv, Values
        <4>2. PICK w : w = wakeup[current]
          OBVIOUS
        <4>3. w % WORD = w
          BY <3>3, <4>1, <4>2
        <4> QED BY <3>1, <3>2, <3>3, <4>1, <4>2, <4>3
      <3>5. CASE t = current
        BY <3>1, <3>4, <3>5
      <3>6. CASE t # current
        <4>1. status[t] = "WAITING" /\ timeout \in [Task -> 0 .. WORD - 1]
          BY <1>1, <1>5, <3>1, <3>6 DEF IInv, Values
        <4> QED BY <3>1, <3>2, <3>6, <4>1 DEF ReleasesSet
      <3> QED BY <3>5, <3>6
    <2>2. CASE Doze
      <3>1. /\ UNCHANGED <<timeout, wakeup>> /\ At("doze")
            /\ status' = [status EXCEPT ![current] = "WAITING"] /\ ~At("doze")'
        BY <1>1, <2>2, StepTop
           DEF Doze, timer, periods, SetStatus, Schedule, Frame, TaskFrame, At
      <3> QED BY <1>1, <1>5, <3>1 DEF ReleasesSet
    <2>3. CASE ~Arm /\ ~Doze
      <3>1. CASE At("doze")' /\ t = current'
        <4>1. UNCHANGED vars
          BY <1>1, <1>2, <2>3, <3>1, DozeEntered
        <4> QED BY <1>5, <4>1 DEF ReleasesSet, vars, kernel, tcb, periods, timer, sched, At, Top
      <3>2. CASE status'[t] = "WAITING"
        <4>1. status[t] = "WAITING"
          BY <1>1, <2>3, <3>2, WaitingStays
        <4> QED BY <2>3, <4>1, ReleaseStays DEF ReleasesSet
      <3> QED BY <1>5, <3>1, <3>2
    <2> QED BY <2>1, <2>2, <2>3
  <1> QED BY <1>3, <1>4, <1>5 DEF ReleasesSet

LEMMA ReleasesInit ==
  ASSUME Init
  PROVE  ReleasesSet
  <1>1. Top.pc = "boot" /\ status = [t \in Task |-> "NEW"]
    BY DEF Init, Frame, TaskFrame, Top
  <1> QED BY <1>1 DEF ReleasesSet, At

(* A periodic task is released on time: its alarm is in the alarm queue    *)
(* and set for just its release time, however late the task went to sleep  *)
(* and whatever woke others in between (eos_sleep, task.c:235-249); for    *)
(* tasks that have a period, given them before the start, and sleep only   *)
(* until the next one, if no tick comes between the computation of the     *)
(* time to sleep and the setting of the alarm.  The tick counter may wrap. *)
THEOREM ReleasesOnTime ==
  ASSUME ~ResumeAtElr, IrqPoints \cap (Fragile \cup {"sleep_diff", "arm"}) = {},
         0 \notin Periods, OnlyPeriodic
  PROVE  Spec => []PeriodicOnTime
  <1> DEFINE Inv == Base /\ Napping /\ SleepersLinked /\ Punctual /\ ReleasesSet
  <1>1. Init => Inv
    BY FramesInit, OrderInit, NapInit, AheadInit, ReleasesInit DEF Base
  <1>2. Inv /\ [Next]_vars => Inv'
    <2> SUFFICES ASSUME Inv, [Next]_vars PROVE Inv'
      OBVIOUS
    <2>1. /\ IrqPoints \cap Fragile = {} /\ IrqPoints \cap (Fragile \cup {"sleep_diff"}) = {}
          /\ IrqPoints \cap {"sleep_diff", "arm"} = {}
      OBVIOUS
    <2>2. Base'
      BY <2>1, OrderNext
    <2>3. Frames /\ Frames' /\ IInv /\ IInv'
      BY <2>2 DEF Base, Frames
    <2>4. Napping' /\ SleepersLinked'
      BY <2>1, <2>2, <2>3, NapKept, SleepersLinkedKept
    <2>5. NoWrap /\ Punctual'
      <3>1. NoWrap
        BY DEF NoWrap, OnlyPeriodic
      <3> QED BY <2>1, <2>3, <3>1, PunctualKept
    <2>6. ReleasesSet'
      BY <2>2, ReleasesKept
    <2> QED BY <2>2, <2>4, <2>5, <2>6
  <1>3. Inv => PeriodicOnTime
    <2> SUFFICES ASSUME Inv, InTask, NEW t \in Task, status[t] = "WAITING"
                 PROVE  t \in Armed /\ timeout[t] = wakeup[t]
      BY DEF PeriodicOnTime, TasksThat
    <2>1. t \in Armed
      BY SleepersArmed
    <2>2. timeout[t] = wakeup[t]
      BY DEF ReleasesSet
    <2> QED BY <2>1, <2>2
  <1> QED BY <1>1, <1>2, <1>3, PTL DEF Spec
=============================================================================
