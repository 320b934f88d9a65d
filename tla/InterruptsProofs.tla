-------------------------- MODULE InterruptsProofs --------------------------
(***************************************************************************)
(* Type correctness of the interrupt path, that nothing that must be       *)
(* masked is ever interrupted, that an interrupt finds its handler, that   *)
(* each expiry of the timer is one tick and that the counters implement    *)
(* AlarmService, for any tasks, devices, counters, timeouts and depth of   *)
(* nesting, and whatever the IRQ path restores.                            *)
(***************************************************************************)
EXTENDS Interrupts, StructureProofs, FiniteSetTheorems

-----------------------------------------------------------------------------
(* Stacks of frames. *)

(* A frame that stands at the bottom of a stack: it never returns.         *)
BottomLabel == BootLabel \cup {"first", "task", "idle", "lost"}

(* A frame that was put on the stack while nothing below it was guarded,   *)
(* and whose end brings that state back.                                   *)
SealLabel == BootLabel \cup PathLabel \cup {"first", "task"}
Seals(f) == f.pc \in SealLabel \/ (f.pc \in LockLabel /\ ~f.flag)

FrameOK(f) ==
  /\ f \in FrameType
  /\ f.pc \in {"trigger", "loop"} => f.counter \in Counter

StackOK(s) ==
  /\ s \in Seq(FrameType) /\ s # <<>>
  /\ \A i \in 1 .. Len(s) : FrameOK(s[i])
  /\ s[Len(s)].pc \in BottomLabel
  /\ \A i, j \in 1 .. Len(s) : i < j /\ Seals(s[i]) => s[j].pc \notin Guarded
  /\ \A i \in 1 .. Len(s) :
       s[i].pc = "callback" => \E j \in 1 .. Len(s) : i < j /\ s[j].pc \in PathLabel

LEMMA Labels ==
  /\ BootLabel \subseteq Label /\ IrqLabel \subseteq Label /\ LockLabel \subseteq Label
  /\ BootLabel \subseteq Guarded /\ IrqLabel \subseteq Guarded /\ LockLabel \subseteq Guarded
  /\ PathLabel \subseteq Guarded /\ PathLabel \cap BottomLabel = {}
  /\ "callback" \notin BottomLabel /\ "callback" \in Guarded
  BY DEF BootLabel, IrqLabel, LockLabel, PathLabel, Label, Guarded, BottomLabel

LEMMA ProtectedIs ==
  ASSUME NEW s \in Seq(FrameType)
  PROVE  Protected(s) <=> \E i \in 1 .. Len(s) : s[i].pc \in Guarded
  BY DEF Protected

LEMMA StackTop ==
  ASSUME NEW s, StackOK(s)
  PROVE  /\ FrameOK(s[1]) /\ s[1] \in FrameType
         /\ s[1].pc \in Guarded => Protected(s)
  <1>1. s \in Seq(FrameType) /\ 1 \in 1 .. Len(s)
    BY DEF StackOK
  <1> QED BY <1>1, ProtectedIs DEF StackOK, FrameOK

(* A stack of frames none of which is guarded. *)
LEMMA PlainStack ==
  ASSUME NEW s \in Seq(FrameType), s # <<>>, \A i \in 1 .. Len(s) : FrameOK(s[i]),
         s[Len(s)].pc \in BottomLabel, \A i \in 1 .. Len(s) : s[i].pc \notin Guarded
  PROVE  StackOK(s) /\ ~Protected(s)
  BY ProtectedIs, Labels DEF StackOK

LEMMA TailFacts ==
  ASSUME NEW s, StackOK(s)
  PROVE  /\ Len(s) \in Nat /\ Len(s) > 0 /\ Tail(s) \in Seq(FrameType)
         /\ Len(Tail(s)) = Len(s) - 1
         /\ \A i \in 1 .. Len(s) - 1 : Tail(s)[i] = s[i + 1]
  BY DEF StackOK

(* What is below a frame. *)
LEMMA BelowTop ==
  ASSUME NEW s, StackOK(s)
  PROVE  /\ Protected(Tail(s)) => Protected(s)
         /\ Seals(s[1]) => ~Protected(Tail(s))
         /\ Seals(s[1]) /\ s[1].pc \notin Guarded => ~Protected(s)
  <1>1. s \in Seq(FrameType)
    BY DEF StackOK
  <1>2. Protected(Tail(s)) => \E i \in 1 .. Len(s) - 1 : s[i + 1].pc \in Guarded
    BY TailFacts, ProtectedIs
  <1>3. Protected(Tail(s)) => Protected(s)
    BY <1>1, <1>2, TailFacts, ProtectedIs
  <1>4. Seals(s[1]) => ~Protected(Tail(s))
    BY <1>2, TailFacts DEF StackOK
  <1>5. Seals(s[1]) /\ s[1].pc \notin Guarded => ~Protected(s)
    BY <1>1, TailFacts, ProtectedIs DEF StackOK
  <1> QED BY <1>3, <1>4, <1>5

LEMMA StackReturn ==
  ASSUME NEW s, StackOK(s), s[1].pc \notin BottomLabel
  PROVE  StackOK(Tail(s))
  <1> DEFINE r == Tail(s)
  <1>1. /\ r \in Seq(FrameType) /\ Len(r) = Len(s) - 1 /\ Len(s) \in Nat
        /\ \A i \in 1 .. Len(r) : r[i] = s[i + 1]
    BY TailFacts
  <1>2. Len(s) > 1
    BY TailFacts DEF StackOK
  <1> HIDE DEF r
  <1>3. r # <<>> /\ r[Len(r)] = s[Len(s)]
    BY <1>1, <1>2
  <1>4. \A i \in 1 .. Len(r) : FrameOK(r[i])
    BY <1>1 DEF StackOK
  <1>5. \A i, j \in 1 .. Len(r) : i < j /\ Seals(r[i]) => r[j].pc \notin Guarded
    BY <1>1 DEF StackOK
  <1>6. ASSUME NEW i \in 1 .. Len(r), r[i].pc = "callback"
        PROVE  \E j \in 1 .. Len(r) : i < j /\ r[j].pc \in PathLabel
    <2>1. i + 1 \in 1 .. Len(s) /\ s[i + 1].pc = "callback"
      BY <1>1, <1>6
    <2>2. PICK k \in 1 .. Len(s) : i + 1 < k /\ s[k].pc \in PathLabel
      BY <2>1 DEF StackOK
    <2>3. k - 1 \in 1 .. Len(r) /\ i < k - 1 /\ r[k - 1] = s[k]
      BY <1>1, <2>2
    <2> QED BY <2>2, <2>3
  <1>7. StackOK(r)
    BY <1>1, <1>3, <1>4, <1>5, <1>6 DEF StackOK
  <1> QED BY <1>7 DEF r

LEMMA StackPush ==
  ASSUME NEW s, StackOK(s), NEW f, FrameOK(f), Seals(f) => ~Protected(s),
         f.pc = "callback" => s[1].pc \in PathLabel
  PROVE  StackOK(<<f>> \o s) /\ (Protected(<<f>> \o s) => f.pc \in Guarded \/ Protected(s))
  <1> DEFINE r == <<f>> \o s
  <1>1. s \in Seq(FrameType) /\ Len(s) \in Nat /\ Len(s) > 0 /\ f \in FrameType
    BY DEF StackOK, FrameOK
  <1>2. /\ r \in Seq(FrameType) /\ Len(r) = Len(s) + 1
        /\ \A i \in 1 .. Len(r) : r[i] = IF i = 1 THEN f ELSE s[i - 1]
    BY <1>1
  <1> HIDE DEF r
  <1>3. Protected(r) => f.pc \in Guarded \/ Protected(s)
    BY <1>1, <1>2, ProtectedIs
  <1>4. /\ r # <<>> /\ r[Len(r)].pc \in BottomLabel
        /\ \A i \in 1 .. Len(r) : FrameOK(r[i])
    <2>1. r # <<>>
      BY <1>1, <1>2
    <2>2. Len(r) \in 1 .. Len(r) /\ Len(r) # 1 /\ Len(r) - 1 = Len(s)
      BY <1>1, <1>2
    <2>3. r[Len(r)].pc \in BottomLabel
      BY <1>2, <2>2 DEF StackOK
    <2>4. \A i \in 1 .. Len(r) : i # 1 => i - 1 \in 1 .. Len(s)
      BY <1>1, <1>2
    <2>5. \A i \in 1 .. Len(r) : FrameOK(r[i])
      BY <1>2, <2>4 DEF StackOK
    <2> QED BY <2>1, <2>3, <2>5
  <1>5. ASSUME NEW i \in 1 .. Len(r), NEW j \in 1 .. Len(r), i < j, Seals(r[i])
        PROVE  r[j].pc \notin Guarded
    <2>1. r[j] = s[j - 1] /\ j - 1 \in 1 .. Len(s)
      BY <1>1, <1>2, <1>5
    <2>2. CASE i = 1
      BY <1>1, <1>2, <1>5, <2>1, <2>2, ProtectedIs
    <2>3. CASE i # 1
      BY <1>1, <1>2, <1>5, <2>1, <2>3 DEF StackOK
    <2> QED BY <2>2, <2>3
  <1>6. ASSUME NEW i \in 1 .. Len(r), r[i].pc = "callback"
        PROVE  \E j \in 1 .. Len(r) : i < j /\ r[j].pc \in PathLabel
    <2>1. CASE i = 1
      <3>1. 2 \in 1 .. Len(r) /\ r[2] = s[1] /\ r[1] = f
        BY <1>1, <1>2
      <3> QED BY <1>6, <2>1, <3>1
    <2>2. CASE i # 1
      <3>1. i - 1 \in 1 .. Len(s) /\ s[i - 1].pc = "callback"
        BY <1>1, <1>2, <1>6, <2>2
      <3>2. PICK k \in 1 .. Len(s) : i - 1 < k /\ s[k].pc \in PathLabel
        BY <3>1 DEF StackOK
      <3>3. k + 1 \in 1 .. Len(r) /\ i < k + 1 /\ r[k + 1] = s[k]
        BY <1>1, <1>2, <3>2
      <3> QED BY <3>2, <3>3
    <2> QED BY <2>1, <2>2
  <1>7. StackOK(r)
    BY <1>2, <1>4, <1>5, <1>6 DEF StackOK
  <1> QED BY <1>3, <1>7 DEF r

(* The top frame may be replaced by one that seals no more than it did.    *)
LEMMA StackStep ==
  ASSUME NEW s, StackOK(s), NEW f, FrameOK(f), Seals(f) => Seals(s[1]),
         f.pc # "callback", f.pc \in BottomLabel \/ s[1].pc \notin BottomLabel
  PROVE  /\ StackOK(<<f>> \o Tail(s))
         /\ Protected(<<f>> \o Tail(s)) => f.pc \in Guarded \/ Protected(Tail(s))
  <1> DEFINE r == <<f>> \o Tail(s)
  <1>1. s \in Seq(FrameType) /\ Len(s) \in Nat /\ Len(s) > 0 /\ f \in FrameType
    BY DEF StackOK, FrameOK
  <1>2. /\ r \in Seq(FrameType) /\ Len(r) = Len(s)
        /\ \A i \in 1 .. Len(r) : r[i] = IF i = 1 THEN f ELSE Tail(s)[i - 1]
    BY <1>1, TailFacts
  <1>3. \A i \in 1 .. Len(r) : r[i] = IF i = 1 THEN f ELSE s[i]
    BY <1>1, <1>2, TailFacts
  <1> HIDE DEF r
  <1>4. ASSUME Protected(r), f.pc \notin Guarded PROVE Protected(Tail(s))
    <2>1. PICK i \in 1 .. Len(r) : r[i].pc \in Guarded
      BY <1>2, <1>4, ProtectedIs
    <2>2. i - 1 \in 1 .. Len(Tail(s)) /\ Tail(s)[i - 1].pc \in Guarded
      BY <1>1, <1>2, <1>4, <2>1, TailFacts
    <2> QED BY <2>2, TailFacts, ProtectedIs
  <1>5. /\ r # <<>> /\ r[Len(r)].pc \in BottomLabel
        /\ \A i \in 1 .. Len(r) : FrameOK(r[i])
    BY <1>1, <1>2, <1>3 DEF StackOK
  <1>6. \A i, j \in 1 .. Len(r) : i < j /\ Seals(r[i]) => r[j].pc \notin Guarded
    BY <1>1, <1>2, <1>3 DEF StackOK
  <1>7. \A i \in 1 .. Len(r) : r[i].pc = "callback"
          => \E j \in 1 .. Len(r) : i < j /\ r[j].pc \in PathLabel
    BY <1>1, <1>2, <1>3 DEF StackOK
  <1>8. StackOK(r)
    BY <1>2, <1>5, <1>6, <1>7 DEF StackOK
  <1> QED BY <1>4, <1>8 DEF r

-----------------------------------------------------------------------------
(* The invariant. *)

Values ==
  /\ current \in Task \cup {NULL} /\ mask \in BOOLEAN /\ spsr \in BOOLEAN
  /\ handler \in [0 .. IRQ_MAX - 1 -> {NULL, "timer", "device"}]
  /\ gic \in BOOLEAN /\ enabled \subseteq Irq /\ active \subseteq Irq
  /\ asserted \subseteq Device
  /\ left \in 0 .. RELOAD /\ counting \in BOOLEAN /\ expiries \in 0 .. MaxTick
  /\ spinlock \in BOOLEAN
  /\ CountersOK

ContextOK(c) == c \in Context /\ StackOK(c.stack) /\ ~Protected(c.stack)

Contexts ==
  /\ DOMAIN ctx = Task
  /\ \A t \in Task : ctx[t] # NULL => ContextOK(ctx[t])

Executing ==
  /\ StackOK(cpu)
  /\ Protected(cpu) => mask
  /\ spinlock => Top.pc = "locked"

IInv == Values /\ Contexts /\ Executing

LEMMA IInvImplies == IInv => IntTypeOK /\ MaskedWhereItMust /\ SpinNeverWaits
  BY DEF IInv, Values, Contexts, ContextOK, Executing, StackOK, IntTypeOK,
         MaskedWhereItMust, SpinNeverWaits, At

LEMMA TopFrame ==
  ASSUME IInv
  PROVE  /\ FrameOK(Top) /\ Top \in FrameType
         /\ Top.pc \in Guarded => mask
         /\ Top.pc # "locked" => ~spinlock
  BY StackTop DEF IInv, Executing, Top

LEMMA FrameHas ==
  ASSUME NEW l \in Label \ {"trigger", "loop"}
  PROVE  FrameOK(Frame(l)) /\ Frame(l).pc = l /\ ~Frame(l).flag
  BY DEF Frame, FrameOK, FrameType

-----------------------------------------------------------------------------
(* How a step changes the CPU. *)

LEMMA CpuKept ==
  ASSUME IInv, UNCHANGED <<cpu, mask, spinlock>>
  PROVE  Executing'
  BY DEF IInv, Executing, Top

LEMMA StepKeeps ==
  ASSUME IInv, NEW f, Step(f), FrameOK(f), Seals(f) => Seals(Top), f.pc # "callback",
         f.pc \in BottomLabel \/ Top.pc \notin BottomLabel,
         f.pc \in Guarded => Top.pc \in Guarded,
         mask' = mask, spinlock' => f.pc = "locked"
  PROVE  Executing'
  <1>1. StackOK(cpu') /\ (Protected(cpu') => f.pc \in Guarded \/ Protected(Tail(cpu)))
    BY StackStep DEF IInv, Executing, Step, Top
  <1>2. Protected(cpu') => Protected(cpu)
    BY <1>1, BelowTop, StackTop DEF IInv, Executing, Top
  <1>3. Top' = f
    BY DEF Step, Top
  <1> QED BY <1>1, <1>2, <1>3 DEF IInv, Executing

LEMMA GotoKeeps ==
  ASSUME IInv, NEW l \in Label, Goto(l), Top.pc # "locked",
         l \in {"trigger", "loop"} => Top.counter \in Counter,
         l \notin {"callback", "locked"}, l \in BottomLabel \/ Top.pc \notin BottomLabel,
         l \in Guarded => Top.pc \in Guarded,
         l \in SealLabel => Seals(Top), l \notin LockLabel,
         UNCHANGED <<mask, spinlock>>
  PROVE  Executing'
  <1> DEFINE f == [Top EXCEPT !.pc = l]
  <1>1. Top \in FrameType /\ FrameOK(Top) /\ ~spinlock
    BY TopFrame
  <1>2. FrameOK(f) /\ f.pc = l
    BY <1>1 DEF FrameOK, FrameType
  <1>3. Seals(f) => Seals(Top)
    BY <1>2 DEF Seals
  <1>4. Step(f)
    BY DEF Goto
  <1> HIDE DEF f
  <1> QED BY <1>1, <1>2, <1>3, <1>4, StepKeeps

LEMMA PushKeeps ==
  ASSUME IInv, NEW f, Push(f), FrameOK(f), Seals(f) => ~Protected(cpu),
         f.pc = "callback" => Top.pc \in PathLabel,
         f.pc \in Guarded \/ mask => mask', Top.pc # "locked", UNCHANGED spinlock
  PROVE  Executing'
  <1>1. StackOK(cpu') /\ (Protected(cpu') => f.pc \in Guarded \/ Protected(cpu))
    BY StackPush DEF IInv, Executing, Push, Top
  <1> QED BY <1>1, TopFrame DEF IInv, Executing

LEMMA ReturnKeeps ==
  ASSUME IInv, Return, Top.pc \notin BottomLabel, ~mask' => ~Protected(Tail(cpu)), ~spinlock'
  PROVE  Executing'
  BY StackReturn DEF IInv, Executing, Return, Top

(* Where the current task resumes, nothing is guarded.                     *)
LEMMA ResumesPlain ==
  ASSUME IInv, Top.pc \in {"first", "resched", "task", "callback", "device"}
  PROVE  StackOK(ResumesAt) /\ ~Protected(ResumesAt)
  <1>1. StackOK(cpu) /\ cpu \in Seq(FrameType) /\ Len(cpu) \in Nat /\ Len(cpu) > 0
    BY TailFacts DEF IInv, Executing, StackOK
  <1>2. CASE InIrq
    <2> DEFINE i == CHOOSE k \in DOMAIN cpu : cpu[k].pc \in PathLabel
               r == SubSeq(cpu, 1 + i, Len(cpu))
    <2>1. i \in 1 .. Len(cpu) /\ cpu[i].pc \in PathLabel
      BY <1>1, <1>2 DEF InIrq
    <2>2. i < Len(cpu)
      BY <1>1, <2>1, Labels DEF StackOK
    <2>3. \A j \in 1 .. Len(cpu) : i < j => cpu[j].pc \notin Guarded
      BY <1>1, <2>1 DEF StackOK, Seals, SealLabel
    <2>4. ResumesAt = r
      BY <1>2 DEF ResumesAt
    <2> HIDE DEF i
    <2>5. /\ r \in Seq(FrameType) /\ Len(r) = Len(cpu) - i
          /\ \A k \in 1 .. Len(r) : r[k] = cpu[k + i]
      BY <1>1, <2>1, <2>2
    <2> HIDE DEF r
    <2>6. r # <<>> /\ r[Len(r)] = cpu[Len(cpu)]
      BY <1>1, <2>1, <2>2, <2>5
    <2>7. \A k \in 1 .. Len(r) : k + i \in 1 .. Len(cpu) /\ i < k + i
      BY <1>1, <2>1, <2>2, <2>5
    <2>8. \A k \in 1 .. Len(r) : FrameOK(r[k])
      BY <1>1, <2>5, <2>7 DEF StackOK
    <2>9. \A k \in 1 .. Len(r) : r[k].pc \notin Guarded
      BY <2>3, <2>5, <2>7
    <2>10. r[Len(r)].pc \in BottomLabel
      BY <1>1, <2>6 DEF StackOK
    <2> QED BY <2>4, <2>5, <2>6, <2>8, <2>9, <2>10, PlainStack
  <1>3. CASE ~InIrq
    <2>1. Top.pc \notin PathLabel
      BY <1>1, <1>3 DEF InIrq, Top
    <2>2. Top.pc # "callback"
      BY <1>1, <1>3 DEF InIrq, Top, StackOK
    <2>3. Seals(Top) /\ Top.pc \notin Guarded
      BY <2>1, <2>2 DEF Seals, SealLabel, PathLabel, IrqLabel, Guarded, BootLabel, LockLabel
    <2>4. ~Protected(cpu)
      BY <1>1, <2>3, BelowTop DEF Top
    <2>5. ResumesAt = cpu
      BY <1>3 DEF ResumesAt
    <2> QED BY <1>1, <2>4, <2>5
  <1> QED BY <1>2, <1>3

LEMMA SwitchKeeps ==
  ASSUME IInv, NEW t \in Task, SwitchTo(t), UNCHANGED spinlock,
         Top.pc \in {"first", "resched", "task", "callback", "device"}
  PROVE  /\ Contexts' /\ Executing'
         /\ current' \in Task /\ mask' \in BOOLEAN /\ spsr' \in BOOLEAN
  <1>1. ContextOK(ctx[t])
    BY DEF SwitchTo, IInv, Contexts
  <1>2. Executing'
    <2>1. ~spinlock'
      BY TopFrame
    <2>2. StackOK(cpu') /\ ~Protected(cpu')
      BY <1>1 DEF SwitchTo, ContextOK
    <2> QED BY <2>1, <2>2 DEF Executing
  <1>3. current' \in Task /\ mask' \in BOOLEAN /\ spsr' \in BOOLEAN
    BY <1>1 DEF SwitchTo, ContextOK, Context
  <1>4. Contexts'
    <2>1. CASE current = NULL
      BY <2>1 DEF SwitchTo, IInv, Contexts
    <2>2. CASE current # NULL
      <3> DEFINE c == [stack |-> ResumesAt, spsr |-> spsr]
      <3>1. current \in Task /\ spsr \in BOOLEAN
        BY <2>2 DEF IInv, Values
      <3>2. StackOK(ResumesAt) /\ ~Protected(ResumesAt) /\ ResumesAt \in Seq(FrameType)
        BY ResumesPlain DEF StackOK
      <3>3. ContextOK(c)
        BY <3>1, <3>2 DEF ContextOK, Context
      <3>4. ctx' = [ctx EXCEPT ![current] = c]
        BY <2>2 DEF SwitchTo
      <3> HIDE DEF c
      <3> QED BY <3>1, <3>3, <3>4 DEF IInv, Contexts
    <2> QED BY <2>1, <2>2
  <1> QED BY <1>2, <1>3, <1>4

LEMMA NewContextOK ==
  ASSUME NEW t \in Task
  PROVE  ContextOK(NewContext(t))
  <1> DEFINE f == Frame(IF t = Idle THEN "idle" ELSE "task")
  <1>1. FrameOK(f) /\ f.pc \in {"task", "idle"} /\ f \in FrameType
    BY FrameHas DEF Label, FrameOK
  <1> HIDE DEF f
  <1> DEFINE s == <<f>>
  <1>2. s \in Seq(FrameType) /\ Len(s) = 1 /\ s[1] = f /\ s # <<>>
    BY <1>1
  <1>3. f.pc \in BottomLabel /\ f.pc \notin Guarded
    BY <1>1 DEF BottomLabel, Guarded, BootLabel, IrqLabel, LockLabel
  <1>4. NewContext(t) = [stack |-> s, spsr |-> FALSE]
    BY DEF NewContext, f
  <1> HIDE DEF s
  <1>5. \A i \in 1 .. Len(s) : i = 1
    BY <1>2
  <1>6. StackOK(s) /\ ~Protected(s)
    BY <1>1, <1>2, <1>3, <1>5, PlainStack
  <1> QED BY <1>2, <1>4, <1>6 DEF ContextOK, Context

LEMMA NewContextKeeps ==
  ASSUME IInv, NEW t \in Task, ctx' = [ctx EXCEPT ![t] = NewContext(t)]
  PROVE  Contexts'
  <1>1. ContextOK(NewContext(t))
    BY NewContextOK
  <1> QED BY <1>1 DEF IInv, Contexts

LEMMA ContextsKept ==
  ASSUME IInv, UNCHANGED ctx
  PROVE  Contexts'
  BY DEF IInv, Contexts

-----------------------------------------------------------------------------
(* The counters. *)

LEMMA QueueType ==
  ASSUME CountersOK, NEW c \in Counter
  PROVE  Queue(c) \in ListOver(Alarm, Alarm)
  BY DEF CountersOK, Queue, ListOver

LEMMA SetQueueType ==
  ASSUME CountersOK, NEW c \in Counter, NEW l \in ListOver(Alarm, Alarm), SetQueue(c, l)
  PROVE  /\ alarm_queue' \in [Counter -> Alarm \cup {NULL}]
         /\ links' \in [prev : [Alarm -> Alarm \cup {NULL}], next : [Alarm -> Alarm \cup {NULL}]]
  BY DEF CountersOK, SetQueue, ListOver

(* eos_set_alarm (timer.c:28-52) *)
LEMMA SetAlarmType ==
  ASSUME CountersOK, NEW c \in Counter, NEW a \in Alarm, NEW n \in Nat, SetAlarm(c, a, n)
  PROVE  CountersOK'
  <1> DEFINE off == RemoveNode(Queue(c), a)
             l == IF n = 0 THEN off ELSE AddNodeOrdered(off, a, timeout')
  <1>1. off \in ListOver(Alarm, Alarm)
    BY QueueType, RemoveNodeType
  <1>2. l \in ListOver(Alarm, Alarm)
    <2> HIDE DEF off
    <2> QED BY <1>1, AddNodeOrderedType
  <1>3. SetQueue(c, l)
    BY DEF SetAlarm
  <1> HIDE DEF l
  <1>4. /\ alarm_queue' \in [Counter -> Alarm \cup {NULL}]
        /\ links' \in [prev : [Alarm -> Alarm \cup {NULL}], next : [Alarm -> Alarm \cup {NULL}]]
    BY <1>2, <1>3, SetQueueType
  <1>5. tick[c] \in Nat /\ WORD \in Nat \ {0}
    BY CounterAssumption DEF CountersOK
  <1>6. (tick[c] + n) % WORD \in 0 .. WORD - 1
    BY <1>5
  <1>7. timeout' \in [Alarm -> 0 .. WORD - 1] /\ tick' = tick
    BY <1>6 DEF SetAlarm, CountersOK
  <1> QED BY <1>4, <1>7 DEF CountersOK

LEMMA AdvanceType ==
  ASSUME CountersOK, NEW c \in Counter, Advance(c)
  PROVE  CountersOK'
  <1>1. tick[c] \in Nat /\ WORD \in Nat \ {0}
    BY CounterAssumption DEF CountersOK
  <1>2. (tick[c] + 1) % WORD \in 0 .. WORD - 1
    BY <1>1
  <1> QED BY <1>2 DEF CountersOK, Advance

LEMMA FireType ==
  ASSUME CountersOK, NEW c \in Counter, Fire(c)
  PROVE  CountersOK'
  <1> DEFINE l == RemoveNode(Queue(c), alarm_queue[c])
  <1>1. alarm_queue[c] \in Alarm
    BY DEF Fire, AlarmDue, CountersOK
  <1>2. l \in ListOver(Alarm, Alarm)
    BY <1>1, QueueType, RemoveNodeType
  <1>3. SetQueue(c, l) /\ UNCHANGED <<tick, timeout>>
    BY DEF Fire
  <1> HIDE DEF l
  <1> QED BY <1>2, <1>3, SetQueueType DEF CountersOK

-----------------------------------------------------------------------------
(* One lemma per action. *)

LEMMA GicInitKeeps ==
  ASSUME IInv, GicInit
  PROVE  IInv'
  <1>1. Values'
    BY DEF GicInit, IInv, Values, CountersOK, counters, timer, lines
  <1>2. Contexts'
    BY ContextsKept DEF GicInit
  <1>3. Executing'
    BY GotoKeeps DEF GicInit, At, BootLabel, IrqLabel, PathLabel, LockLabel, Label, Guarded,
            BottomLabel, SealLabel, Seals
  <1> QED BY <1>1, <1>2, <1>3 DEF IInv

LEMMA InitHalKeeps ==
  ASSUME IInv, InitHal
  PROVE  IInv'
  <1>1. Values'
    <2>1. left' \in 0 .. RELOAD
      BY InterruptAssumption DEF InitHal
    <2>2. enabled' \subseteq Irq
      BY DEF InitHal, Irq, IInv, Values
    <2> QED BY <2>1, <2>2 DEF InitHal, IInv, Values, CountersOK, counters
  <1>2. Contexts'
    BY ContextsKept DEF InitHal
  <1>3. Executing'
    BY GotoKeeps DEF InitHal, At, BootLabel, IrqLabel, PathLabel, LockLabel, Label, Guarded,
            BottomLabel, SealLabel, Seals
  <1> QED BY <1>1, <1>2, <1>3 DEF IInv

LEMMA InitIcbTableKeeps ==
  ASSUME IInv, InitIcbTable
  PROVE  IInv'
  <1>1. Values'
    BY DEF InitIcbTable, IInv, Values, CountersOK, counters, timer, lines
  <1>2. Contexts'
    BY ContextsKept DEF InitIcbTable
  <1>3. Executing'
    BY GotoKeeps DEF InitIcbTable, At, BootLabel, IrqLabel, PathLabel, LockLabel, Label, Guarded,
            BottomLabel, SealLabel, Seals
  <1> QED BY <1>1, <1>2, <1>3 DEF IInv

LEMMA InitTimerKeeps ==
  ASSUME IInv, InitTimer
  PROVE  IInv'
  <1>1. Values'
    <2>1. CountersOK'
      BY CounterAssumption, InterruptAssumption
      DEF InitTimer, InitCounter, IInv, Values, CountersOK
    <2>2. handler' \in [0 .. IRQ_MAX - 1 -> {NULL, "timer", "device"}]
      BY DEF InitTimer, SetHandler, InTable, IInv, Values
    <2> QED BY <2>1, <2>2 DEF InitTimer, IInv, Values, timer, lines
  <1>2. Contexts'
    BY ContextsKept DEF InitTimer
  <1>3. Executing'
    BY GotoKeeps DEF InitTimer, At, BootLabel, IrqLabel, PathLabel, LockLabel, Label, Guarded,
            BottomLabel, SealLabel, Seals
  <1> QED BY <1>1, <1>2, <1>3 DEF IInv

LEMMA CreateIdleKeeps ==
  ASSUME IInv, CreateIdle
  PROVE  IInv'
  <1>1. Values'
    BY DEF CreateIdle, IInv, Values, CountersOK, counters, timer, lines
  <1>2. Contexts'
    BY NewContextKeeps DEF CreateIdle, Task
  <1>3. Executing'
    BY GotoKeeps DEF CreateIdle, At, BootLabel, IrqLabel, PathLabel, LockLabel, Label, Guarded,
            BottomLabel, SealLabel, Seals
  <1> QED BY <1>1, <1>2, <1>3 DEF IInv

LEMMA UserMainEndsKeeps ==
  ASSUME IInv, UserMainEnds
  PROVE  IInv'
  <1>1. Values'
    BY DEF UserMainEnds, IInv, Values, CountersOK, counters, timer, lines
  <1>2. Contexts'
    BY ContextsKept DEF UserMainEnds
  <1>3. Executing'
    BY GotoKeeps DEF UserMainEnds, At, BootLabel, IrqLabel, PathLabel, LockLabel, Label, Guarded,
            BottomLabel, SealLabel, Seals
  <1> QED BY <1>1, <1>2, <1>3 DEF IInv

LEMMA AckIrqKeeps ==
  ASSUME IInv, AckIrq
  PROVE  IInv'
  <1>1. Values'
    BY DEF AckIrq, IInv, Values, CountersOK, counters, timer, lines
  <1>2. Contexts'
    BY ContextsKept DEF AckIrq
  <1>3. Executing'
    BY GotoKeeps DEF AckIrq, At, BootLabel, IrqLabel, PathLabel, LockLabel, Label, Guarded,
            BottomLabel, SealLabel, Seals
  <1> QED BY <1>1, <1>2, <1>3 DEF IInv

LEMMA LoopEndsKeeps ==
  ASSUME IInv, LoopEnds
  PROVE  IInv'
  <1>1. Values'
    BY DEF LoopEnds, IInv, Values, CountersOK, counters, timer, lines
  <1>2. Contexts'
    BY ContextsKept DEF LoopEnds
  <1>3. Executing'
    BY GotoKeeps DEF LoopEnds, At, BootLabel, IrqLabel, PathLabel, LockLabel, Label, Guarded,
            BottomLabel, SealLabel, Seals
  <1> QED BY <1>1, <1>2, <1>3 DEF IInv

LEMMA RescheduleStaysKeeps ==
  ASSUME IInv, RescheduleStays
  PROVE  IInv'
  <1>1. Values'
    BY DEF RescheduleStays, IInv, Values, CountersOK, counters, timer, lines
  <1>2. Contexts'
    BY ContextsKept DEF RescheduleStays
  <1>3. Executing'
    BY GotoKeeps DEF RescheduleStays, At, BootLabel, IrqLabel, PathLabel, LockLabel, Label, Guarded,
            BottomLabel, SealLabel, Seals
  <1> QED BY <1>1, <1>2, <1>3 DEF IInv

LEMMA DispatchKeeps ==
  ASSUME IInv, Dispatch
  PROVE  IInv'
  <1>1. Values'
    BY DEF Dispatch, IInv, Values, CountersOK, counters, timer, lines
  <1>2. Contexts'
    BY ContextsKept DEF Dispatch
  <1>3. Executing'
    BY GotoKeeps DEF Dispatch, At, BootLabel, IrqLabel, PathLabel, LockLabel, Label, Guarded,
            BottomLabel, SealLabel, Seals
  <1> QED BY <1>1, <1>2, <1>3 DEF IInv

LEMMA TriggerCounterKeeps ==
  ASSUME IInv, TriggerCounter
  PROVE  IInv'
  <1>1. Values'
    BY TopFrame, AdvanceType
        DEF TriggerCounter, IInv, Values, CountersOK, counters, timer, lines, At, FrameOK
  <1>2. Contexts'
    BY ContextsKept DEF TriggerCounter
  <1>3. Executing'
    BY GotoKeeps, TopFrame
        DEF TriggerCounter, At, FrameOK, BootLabel, IrqLabel, PathLabel, LockLabel, Label, Guarded,
            BottomLabel, SealLabel, Seals
  <1> QED BY <1>1, <1>2, <1>3 DEF IInv

LEMMA TimePassesKeeps ==
  ASSUME IInv, TimePasses
  PROVE  IInv'
  <1>1. Values'
    <2>1. left' \in 0 .. RELOAD /\ expiries' \in 0 .. MaxTick
      BY InterruptAssumption DEF TimePasses, IInv, Values
    <2> QED BY <2>1 DEF TimePasses, IInv, Values, CountersOK, counters, machine, lines
  <1>2. Contexts'
    BY ContextsKept DEF TimePasses, machine
  <1>3. Executing'
    BY CpuKept DEF TimePasses, machine
  <1> QED BY <1>1, <1>2, <1>3 DEF IInv

LEMMA RaiseKeeps ==
  ASSUME IInv, Raise
  PROVE  IInv'
  <1>1. Values'
    BY DEF Raise, IInv, Values, CountersOK, counters, timer, lines, machine
  <1>2. Contexts'
    BY ContextsKept DEF Raise, machine
  <1>3. Executing'
    BY CpuKept DEF Raise, machine
  <1> QED BY <1>1, <1>2, <1>3 DEF IInv

LEMMA ComputeKeeps ==
  ASSUME IInv, UNCHANGED vars
  PROVE  IInv'
  <1>1. Values'
    BY DEF IInv, Values, CountersOK, vars, counters, timer, lines, machine
  <1>2. Contexts'
    BY ContextsKept DEF vars, machine
  <1>3. Executing'
    BY CpuKept DEF vars, machine
  <1> QED BY <1>1, <1>2, <1>3 DEF IInv

LEMMA AppSetAlarmKeeps ==
  ASSUME IInv, AppSetAlarm
  PROVE  IInv'
  <1>1. Values'
    <2>1. PICK a \in Alarm : \E c \in CounterOf[a], n \in Timeouts[a] : SetAlarm(c, a, n)
      BY DEF AppSetAlarm
    <2>2. PICK c \in CounterOf[a], n \in Timeouts[a] : SetAlarm(c, a, n)
      BY <2>1
    <2>3. c \in Counter /\ n \in Nat
      BY CounterAssumption, InterruptAssumption
    <2>4. CountersOK'
      BY <2>2, <2>3, SetAlarmType DEF IInv, Values
    <2> QED BY <2>4 DEF AppSetAlarm, IInv, Values, machine, lines, timer
  <1>2. Contexts'
    BY ContextsKept DEF AppSetAlarm, machine
  <1>3. Executing'
    BY CpuKept DEF AppSetAlarm, machine
  <1> QED BY <1>1, <1>2, <1>3 DEF IInv

LEMMA CreateTaskKeeps ==
  ASSUME IInv, CreateTask
  PROVE  IInv'
  <1>1. Values'
    BY DEF CreateTask, IInv, Values, CountersOK, counters, timer, lines
  <1>2. Contexts'
    BY NewContextKeeps DEF CreateTask, Task
  <1>3. Executing'
    BY CpuKept DEF CreateTask, machine
  <1> QED BY <1>1, <1>2, <1>3 DEF IInv

LEMMA StartDeviceKeeps ==
  ASSUME IInv, StartDevice
  PROVE  IInv'
  <1>1. Values'
    <2>1. handler' \in [0 .. IRQ_MAX - 1 -> {NULL, "timer", "device"}]
      BY DEF StartDevice, SetHandler, InTable, IInv, Values
    <2>2. enabled' \subseteq Irq
      BY DEF StartDevice, Irq, IInv, Values
    <2> QED BY <2>1, <2>2 DEF StartDevice, IInv, Values, CountersOK, counters, machine, timer
  <1>2. Contexts'
    BY ContextsKept DEF StartDevice, machine
  <1>3. Executing'
    BY CpuKept DEF StartDevice, machine
  <1> QED BY <1>1, <1>2, <1>3 DEF IInv

LEMMA StopDeviceKeeps ==
  ASSUME IInv, StopDevice
  PROVE  IInv'
  <1>1. Values'
    <2>1. handler' \in [0 .. IRQ_MAX - 1 -> {NULL, "timer", "device"}]
      BY DEF StopDevice, SetHandler, InTable, IInv, Values
    <2>2. enabled' \subseteq Irq
      BY DEF StopDevice, Irq, IInv, Values
    <2> QED BY <2>1, <2>2 DEF StopDevice, IInv, Values, CountersOK, counters, machine, timer
  <1>2. Contexts'
    BY ContextsKept DEF StopDevice, machine
  <1>3. Executing'
    BY CpuKept DEF StopDevice, machine
  <1> QED BY <1>1, <1>2, <1>3 DEF IInv

LEMMA FirstScheduleKeeps ==
  ASSUME IInv, FirstSchedule
  PROVE  IInv'
  <1>1. PICK t \in Task : SwitchTo(t)
    BY DEF FirstSchedule
  <1>2. Top.pc \in {"first", "resched", "task", "callback", "device"}
    BY DEF FirstSchedule, At
  <1>3. /\ Contexts' /\ Executing'
        /\ current' \in Task /\ mask' \in BOOLEAN /\ spsr' \in BOOLEAN
    BY <1>1, <1>2, SwitchKeeps DEF FirstSchedule
  <1>4. Values'
    BY <1>3 DEF FirstSchedule, IInv, Values, CountersOK, counters, timer, lines
  <1> QED BY <1>3, <1>4 DEF IInv

LEMMA RescheduleSwitchesKeeps ==
  ASSUME IInv, RescheduleSwitches
  PROVE  IInv'
  <1>1. PICK t \in Task : SwitchTo(t)
    BY DEF RescheduleSwitches
  <1>2. Top.pc \in {"first", "resched", "task", "callback", "device"}
    BY DEF RescheduleSwitches, At
  <1>3. /\ Contexts' /\ Executing'
        /\ current' \in Task /\ mask' \in BOOLEAN /\ spsr' \in BOOLEAN
    BY <1>1, <1>2, SwitchKeeps DEF RescheduleSwitches
  <1>4. Values'
    BY <1>3 DEF RescheduleSwitches, IInv, Values, CountersOK, counters, timer, lines
  <1> QED BY <1>3, <1>4 DEF IInv

LEMMA AppSwitchesKeeps ==
  ASSUME IInv, AppSwitches
  PROVE  IInv'
  <1>1. PICK t \in Task : SwitchTo(t)
    BY DEF AppSwitches
  <1>2. Top.pc \in {"first", "resched", "task", "callback", "device"}
    BY InterruptAssumption DEF AppSwitches
  <1>3. /\ Contexts' /\ Executing'
        /\ current' \in Task /\ mask' \in BOOLEAN /\ spsr' \in BOOLEAN
    BY <1>1, <1>2, SwitchKeeps DEF AppSwitches
  <1>4. Values'
    BY <1>3 DEF AppSwitches, IInv, Values, CountersOK, counters, timer, lines
  <1> QED BY <1>3, <1>4 DEF IInv

LEMMA TakeInterruptKeeps ==
  ASSUME IInv, TakeInterrupt
  PROVE  IInv'
  <1>1. Values'
    BY DEF TakeInterrupt, IInv, Values, CountersOK, counters, timer, lines
  <1>2. Contexts'
    BY ContextsKept DEF TakeInterrupt
  <1>3. Executing'
    <2>1. ~Protected(cpu) /\ Top.pc # "locked"
      BY TopFrame, Labels DEF TakeInterrupt, IInv, Executing, LockLabel, Guarded
    <2>2. FrameOK(Frame("get_irq")) /\ Frame("get_irq").pc = "get_irq"
      BY FrameHas DEF Label, IrqLabel
    <2> QED BY <2>1, <2>2, PushKeeps DEF TakeInterrupt
  <1> QED BY <1>1, <1>2, <1>3 DEF IInv

LEMMA FireAlarmKeeps ==
  ASSUME IInv, FireAlarm
  PROVE  IInv'
  <1>1. Values'
    <2>1. CountersOK'
      BY TopFrame, FireType DEF FireAlarm, FrameOK, At, IInv, Values
    <2> QED BY <2>1 DEF FireAlarm, IInv, Values, lines, timer
  <1>2. Contexts'
    BY ContextsKept DEF FireAlarm
  <1>3. Executing'
    <2>1. FrameOK(Frame("callback")) /\ Frame("callback").pc = "callback"
      BY FrameHas DEF Label, IrqLabel
    <2>2. ~Seals(Frame("callback"))
      BY <2>1 DEF BootLabel, IrqLabel, PathLabel, LockLabel, Label, Guarded,
          BottomLabel, SealLabel, Seals
    <2>3. Top.pc = "loop" /\ mask
      BY TopFrame DEF FireAlarm, At, Guarded, IrqLabel
    <2> QED BY <2>1, <2>2, <2>3, PushKeeps DEF FireAlarm, PathLabel, IrqLabel
  <1> QED BY <1>1, <1>2, <1>3 DEF IInv

LEMMA EnterSectionKeeps ==
  ASSUME IInv, EnterSection
  PROVE  IInv'
  <1>1. Values'
    BY DEF EnterSection, IInv, Values, CountersOK, counters, timer, lines, HalDisable
  <1>2. Contexts'
    BY ContextsKept DEF EnterSection
  <1>3. Executing'
    <2> DEFINE f == [Frame("section") EXCEPT !.flag = mask]
    <2>1. FrameOK(f) /\ f.pc = "section" /\ f.flag = mask
      BY DEF Frame, FrameOK, FrameType, Label, LockLabel, IInv, Values
    <2>2. Seals(f) => ~Protected(cpu)
      BY <2>1 DEF IInv, Executing, BootLabel, IrqLabel, PathLabel, LockLabel, Label, Guarded,
          BottomLabel, SealLabel, Seals
    <2>3. Top.pc # "locked" /\ mask'
      BY DEF EnterSection, InApp, AppLabel, HalDisable
    <2>4. Push(f) /\ UNCHANGED spinlock
      BY DEF EnterSection
    <2> HIDE DEF f
    <2> QED BY <2>1, <2>2, <2>3, <2>4, PushKeeps
  <1> QED BY <1>1, <1>2, <1>3 DEF IInv

LEMMA LockSyncKeeps ==
  ASSUME IInv, LockSync
  PROVE  IInv'
  <1>1. Values'
    BY DEF LockSync, IInv, Values, CountersOK, counters, timer, lines, HalDisable
  <1>2. Contexts'
    BY ContextsKept DEF LockSync
  <1>3. Executing'
    <2> DEFINE f == [Frame("spin") EXCEPT !.flag = mask]
    <2>1. FrameOK(f) /\ f.pc = "spin" /\ f.flag = mask
      BY DEF Frame, FrameOK, FrameType, Label, LockLabel, IInv, Values
    <2>2. Seals(f) => ~Protected(cpu)
      BY <2>1 DEF IInv, Executing, BootLabel, IrqLabel, PathLabel, LockLabel, Label, Guarded,
          BottomLabel, SealLabel, Seals
    <2>3. Top.pc # "locked" /\ mask'
      BY DEF LockSync, InApp, AppLabel, HalDisable
    <2>4. Push(f) /\ UNCHANGED spinlock
      BY DEF LockSync
    <2> HIDE DEF f
    <2> QED BY <2>1, <2>2, <2>3, <2>4, PushKeeps
  <1> QED BY <1>1, <1>2, <1>3 DEF IInv

LEMMA StartKeeps ==
  ASSUME IInv, Start
  PROVE  IInv'
  <1>1. Values'
    BY DEF Start, HalEnable, IInv, Values, CountersOK, counters, timer, lines
  <1>2. Contexts'
    BY ContextsKept DEF Start
  <1>3. Executing'
    <2> DEFINE f == [Top EXCEPT !.pc = "first"]
    <2>1. Top.pc = "start" /\ FrameOK(Top) /\ ~spinlock
      BY TopFrame DEF Start, At
    <2>2. FrameOK(f) /\ f.pc = "first"
      BY <2>1 DEF FrameOK, FrameType, Label
    <2>3. cpu' = <<f>> \o Tail(cpu) /\ UNCHANGED spinlock
      BY DEF Start, Goto, Step
    <2> HIDE DEF f
    <2>4. Seals(Top) /\ f.pc \in BottomLabel /\ f.pc \notin Guarded /\ f.pc # "callback"
      BY <2>1, <2>2 DEF BootLabel, IrqLabel, PathLabel, LockLabel, Label, Guarded,
          BottomLabel, SealLabel, Seals
    <2>5. StackOK(cpu') /\ ~Protected(cpu')
      BY <2>2, <2>3, <2>4, StackStep, BelowTop DEF IInv, Executing, Top
    <2> QED BY <2>1, <2>3, <2>5 DEF Executing
  <1> QED BY <1>1, <1>2, <1>3 DEF IInv

(* The number that GICC_IAR gives is that of an interrupt or 1023.         *)
LEMMA LeastPending ==
  ASSUME NEW S \in SUBSET Nat, S # {}
  PROVE  (CHOOSE i \in S : \A j \in S : i <= j) \in S
  <1> DEFINE less == OpToRel(<, Nat)
  <1>1. \E i \in S : \A j \in S : <<j, i>> \notin less
    <2>1. IsWellFoundedOn(less, Nat)
      BY NatLessThanWellFounded
    <2> HIDE DEF less
    <2> QED BY <2>1, WFMin, Zenon
  <1>2. \A i, j \in Nat : <<j, i>> \notin less => i <= j
    BY DEF OpToRel
  <1> HIDE DEF less
  <1> QED BY <1>1, <1>2

LEMMA GetIrqKeeps ==
  ASSUME IInv, GetIrq
  PROVE  IInv'
  <1> DEFINE irq == IF Pending = {} THEN 1023
                    ELSE CHOOSE i \in Pending : \A j \in Pending : i <= j
             f == [Top EXCEPT !.pc = "ack_irq", !.irq = irq]
  <1>1. Step(f) /\ active' = active \cup (Pending \cap {irq}) /\ At("get_irq")
    BY DEF GetIrq
  <1>2. irq \in Irq \cup {1023}
    <2>1. Pending \subseteq Irq /\ Pending \subseteq Nat
      BY InterruptAssumption DEF Pending, IInv, Values, Irq, IRQ_CNTP
    <2> QED BY <2>1, LeastPending
  <1> HIDE DEF irq
  <1>3. Values'
    <2>1. active' \subseteq Irq
      BY <1>1 DEF Pending, IInv, Values
    <2> QED BY <2>1 DEF GetIrq, IInv, Values, CountersOK, counters, timer
  <1>4. Contexts'
    BY ContextsKept DEF GetIrq
  <1>5. Executing'
    <2>1. FrameOK(f) /\ f.pc = "ack_irq"
      <3>1. Top \in FrameType /\ irq \in Irq \cup {1023, NULL}
        BY <1>2, TopFrame
      <3>2. "ack_irq" \in Label \ {"trigger", "loop"}
        BY DEF Label, IrqLabel
      <3> DEFINE h == [Top EXCEPT !.pc = "ack_irq"]
      <3>3. h \in FrameType /\ h.pc = "ack_irq"
        BY <3>1, <3>2 DEF FrameType
      <3>4. f = [h EXCEPT !.irq = irq]
        OBVIOUS
      <3> HIDE DEF h, f
      <3>5. f \in FrameType
        BY <3>1, <3>3, <3>4 DEF FrameType
      <3>6. f.pc = "ack_irq"
        BY <3>3, <3>4 DEF FrameType
      <3> QED BY <3>5, <3>6 DEF FrameOK
    <2>2. UNCHANGED <<mask, spinlock>> /\ ~spinlock
      BY <1>1, TopFrame DEF GetIrq, At
    <2> HIDE DEF f
    <2> QED BY <1>1, <2>1, <2>2, StepKeeps
        DEF At, BootLabel, IrqLabel, PathLabel, LockLabel, Label, Guarded,
            BottomLabel, SealLabel, Seals
  <1> QED BY <1>3, <1>4, <1>5 DEF IInv

LEMMA RearmKeeps ==
  ASSUME IInv, Rearm
  PROVE  IInv'
  <1> DEFINE f == [Top EXCEPT !.pc = "trigger", !.counter = SysTimer]
  <1>1. Values'
    <2>1. left' \in 0 .. RELOAD
      BY InterruptAssumption DEF Rearm, TimerRearm
    <2> QED BY <2>1 DEF Rearm, IInv, Values, CountersOK, counters, lines
  <1>2. Contexts'
    BY ContextsKept DEF Rearm
  <1>3. Executing'
    <2>1. FrameOK(f) /\ f.pc = "trigger" /\ Step(f) /\ Top.pc = "rearm"
      <3>1. Top \in FrameType /\ SysTimer \in Counter
        BY TopFrame, InterruptAssumption
      <3>2. "trigger" \in Label
        BY DEF Label, IrqLabel
      <3> DEFINE h == [Top EXCEPT !.pc = "trigger"]
      <3>3. h \in FrameType /\ h.pc = "trigger"
        BY <3>1, <3>2 DEF FrameType
      <3>4. f = [h EXCEPT !.counter = SysTimer]
        OBVIOUS
      <3> HIDE DEF h, f
      <3>5. f \in FrameType
        BY <3>1, <3>3, <3>4 DEF FrameType
      <3>6. f.pc = "trigger" /\ f.counter \in Counter
        BY <3>1, <3>3, <3>4 DEF FrameType
      <3>7. Step(f) /\ Top.pc = "rearm"
        BY DEF Rearm, At, f
      <3> QED BY <3>5, <3>6, <3>7 DEF FrameOK
    <2>2. UNCHANGED <<mask, spinlock>> /\ ~spinlock
      BY <2>1, TopFrame DEF Rearm
    <2> HIDE DEF f
    <2> QED BY <2>1, <2>2, StepKeeps
        DEF BootLabel, IrqLabel, PathLabel, LockLabel, Label, Guarded,
            BottomLabel, SealLabel, Seals
  <1> QED BY <1>1, <1>2, <1>3 DEF IInv

LEMMA DeviceEndsKeeps ==
  ASSUME IInv, DeviceEnds
  PROVE  IInv'
  <1>1. Values'
    BY DEF DeviceEnds, IInv, Values, CountersOK, counters, timer
  <1>2. Contexts'
    BY ContextsKept DEF DeviceEnds
  <1>3. Top.pc = "device" /\ UNCHANGED <<mask, spinlock>> /\ ~spinlock
    BY TopFrame DEF DeviceEnds, At
  <1>4. ASSUME Goto("eret") PROVE Executing'
    BY <1>3, <1>4, GotoKeeps
        DEF BootLabel, IrqLabel, PathLabel, LockLabel, Label, Guarded,
            BottomLabel, SealLabel, Seals
  <1>5. ASSUME Step([Top EXCEPT !.pc = "trigger", !.counter = Own]) PROVE Executing'
    <2> DEFINE f == [Top EXCEPT !.pc = "trigger", !.counter = Own]
    <2>1. FrameOK(f) /\ f.pc = "trigger" /\ Step(f)
      <3>1. Top \in FrameType /\ Own \in Counter
        BY TopFrame, InterruptAssumption
      <3>2. "trigger" \in Label
        BY DEF Label, IrqLabel
      <3> DEFINE h == [Top EXCEPT !.pc = "trigger"]
      <3>3. h \in FrameType /\ h.pc = "trigger"
        BY <3>1, <3>2 DEF FrameType
      <3>4. f = [h EXCEPT !.counter = Own]
        OBVIOUS
      <3> HIDE DEF h, f
      <3>5. f \in FrameType
        BY <3>1, <3>3, <3>4 DEF FrameType
      <3>6. f.pc = "trigger" /\ f.counter \in Counter
        BY <3>1, <3>3, <3>4 DEF FrameType
      <3>7. Step(f)
        BY <1>5 DEF f
      <3> QED BY <3>5, <3>6, <3>7 DEF FrameOK
    <2> HIDE DEF f
    <2> QED BY <1>3, <2>1, StepKeeps
        DEF BootLabel, IrqLabel, PathLabel, LockLabel, Label, Guarded,
            BottomLabel, SealLabel, Seals
  <1>6. Executing'
    BY <1>4, <1>5 DEF DeviceEnds
  <1> QED BY <1>1, <1>2, <1>6 DEF IInv

LEMMA EretKeeps ==
  ASSUME IInv, Eret
  PROVE  IInv'
  <1>1. Top.pc = "eret" /\ ~spinlock'
    BY TopFrame DEF Eret, At
  <1>2. Contexts'
    BY ContextsKept DEF Eret
  <1>3. PICK c \in {Interrupted} \cup IF AnyX0 THEN Anything ELSE {} :
          cpu' = c.stack /\ mask' = c.spsr /\ spsr' = c.spsr
    BY DEF Eret
  <1>4. CASE c = Interrupted
    <2>1. cpu' = Tail(cpu) /\ mask' \in BOOLEAN /\ spsr' \in BOOLEAN
      BY <1>3, <1>4 DEF Interrupted, IInv, Values
    <2>2. ~Protected(Tail(cpu)) /\ Top.pc \notin BottomLabel
      BY <1>1, BelowTop
      DEF Top, IInv, Executing, BootLabel, IrqLabel, PathLabel, LockLabel, Label, Guarded,
          BottomLabel, SealLabel, Seals
    <2>3. Executing'
      BY <1>1, <2>1, <2>2, ReturnKeeps DEF Return
    <2> QED BY <1>2, <2>1, <2>3 DEF Eret, IInv, Values, CountersOK, counters, timer, lines
  <1>5. CASE c \in Anything
    <2> DEFINE s == <<Frame("lost")>>
    <2>1. cpu' = s /\ mask' \in BOOLEAN /\ spsr' \in BOOLEAN
      BY <1>3, <1>5 DEF Anything
    <2>2. FrameOK(Frame("lost")) /\ Frame("lost") \in FrameType /\ Frame("lost").pc = "lost"
      BY FrameHas DEF Label, FrameOK
    <2>3. s \in Seq(FrameType) /\ Len(s) = 1 /\ s[1] = Frame("lost") /\ s # <<>>
      BY <2>2
    <2> HIDE DEF s
    <2>4. \A i \in 1 .. Len(s) : i = 1
      BY <2>3
    <2>5. "lost" \in BottomLabel /\ "lost" \notin Guarded
      BY DEF BottomLabel, Guarded, BootLabel, IrqLabel, LockLabel
    <2>6. StackOK(s) /\ ~Protected(s)
      BY <2>2, <2>3, <2>4, <2>5, PlainStack
    <2>7. Executing'
      BY <1>1, <2>1, <2>6 DEF Executing
    <2> QED BY <1>2, <2>1, <2>7 DEF Eret, IInv, Values, CountersOK, counters, timer, lines
  <1> QED BY <1>3, <1>4, <1>5

LEMMA CallbackEndsKeeps ==
  ASSUME IInv, CallbackEnds
  PROVE  IInv'
  <1>1. Values'
    BY DEF CallbackEnds, IInv, Values, CountersOK, counters, timer, lines
  <1>2. Contexts'
    BY ContextsKept DEF CallbackEnds
  <1>3. Top.pc = "callback" /\ mask /\ ~spinlock
    BY TopFrame, Labels DEF CallbackEnds, At
  <1>4. Executing'
    BY <1>3, Labels, ReturnKeeps DEF CallbackEnds
  <1> QED BY <1>1, <1>2, <1>4 DEF IInv

LEMMA LeaveSectionKeeps ==
  ASSUME IInv, LeaveSection
  PROVE  IInv'
  <1>1. Top.pc = "section" /\ Top \in FrameType /\ ~spinlock /\ mask' = Top.flag
    BY TopFrame DEF LeaveSection, At, HalRestore
  <1>2. Values'
    BY <1>1 DEF LeaveSection, FrameType, IInv, Values, CountersOK, counters, timer, lines
  <1>3. Contexts'
    BY ContextsKept DEF LeaveSection
  <1>4. Executing'
    <2>1. Top.pc \notin BottomLabel /\ (~mask' => Seals(Top))
      BY <1>1 DEF BootLabel, IrqLabel, PathLabel, LockLabel, Label, Guarded,
          BottomLabel, SealLabel, Seals
    <2> QED BY <1>1, <2>1, BelowTop, ReturnKeeps DEF LeaveSection, IInv, Executing, Top
  <1> QED BY <1>2, <1>3, <1>4 DEF IInv

LEMMA SpinLockKeeps ==
  ASSUME IInv, SpinLock
  PROVE  IInv'
  <1> DEFINE f == [Top EXCEPT !.pc = "locked"]
  <1>1. Values'
    BY DEF SpinLock, IInv, Values, CountersOK, counters, timer, lines
  <1>2. Contexts'
    BY ContextsKept DEF SpinLock
  <1>3. Executing'
    <2>1. FrameOK(f) /\ f.pc = "locked" /\ f.flag = Top.flag /\ Top.pc = "spin"
      BY TopFrame DEF SpinLock, At, FrameOK, FrameType, Label, LockLabel
    <2>2. Step(f) /\ mask' = mask
      BY DEF SpinLock, Goto
    <2> HIDE DEF f
    <2> QED BY <2>1, <2>2, StepKeeps
        DEF BootLabel, IrqLabel, PathLabel, LockLabel, Label, Guarded,
            BottomLabel, SealLabel, Seals
  <1> QED BY <1>1, <1>2, <1>3 DEF IInv

LEMMA UnlockSyncKeeps ==
  ASSUME IInv, UnlockSync
  PROVE  IInv'
  <1>1. Contexts'
    BY ContextsKept DEF UnlockSync
  <1>2. CASE At("locked") /\ SpinUnlock /\ Goto("unlocked") /\ UNCHANGED mask
    <2> DEFINE f == [Top EXCEPT !.pc = "unlocked"]
    <2>1. Values'
      BY <1>2 DEF UnlockSync, SpinUnlock, IInv, Values, CountersOK, counters, timer, lines
    <2>2. FrameOK(f) /\ f.pc = "unlocked" /\ f.flag = Top.flag /\ Top.pc = "locked"
      BY <1>2, TopFrame DEF At, FrameOK, FrameType, Label, LockLabel
    <2>3. Step(f) /\ mask' = mask /\ ~spinlock'
      BY <1>2 DEF SpinUnlock, Goto
    <2> HIDE DEF f
    <2>4. Executing'
      BY <2>2, <2>3, StepKeeps
      DEF BootLabel, IrqLabel, PathLabel, LockLabel, Label, Guarded,
            BottomLabel, SealLabel, Seals
    <2> QED BY <1>1, <2>1, <2>4 DEF IInv
  <1>3. CASE At("unlocked") /\ HalRestore(Top.flag) /\ Return /\ UNCHANGED spinlock
    <2>1. Top.pc = "unlocked" /\ Top \in FrameType /\ ~spinlock /\ mask' = Top.flag
      BY <1>3, TopFrame DEF At, HalRestore
    <2>2. Values'
      BY <1>3, <2>1 DEF UnlockSync, FrameType, IInv, Values, CountersOK, counters, timer, lines
    <2>3. Top.pc \notin BottomLabel /\ (~mask' => Seals(Top))
      BY <2>1 DEF BootLabel, IrqLabel, PathLabel, LockLabel, Label, Guarded,
          BottomLabel, SealLabel, Seals
    <2>4. Executing'
      BY <1>3, <2>1, <2>3, BelowTop, ReturnKeeps DEF IInv, Executing, Top
    <2> QED BY <1>1, <2>2, <2>4 DEF IInv
  <1> QED BY <1>2, <1>3 DEF UnlockSync

-----------------------------------------------------------------------------
(* The specification. *)

LEMMA InitHolds == Init => IInv
  <1> SUFFICES ASSUME Init PROVE IInv
    OBVIOUS
  <1> DEFINE f == Frame("gic_init")
  <1>1. Values
    <2>1. CountersOK
      BY CounterAssumption DEF Init, CountersInit, CountersOK
    <2>2. handler \in [0 .. IRQ_MAX - 1 -> {NULL, "timer", "device"}]
      BY DEF Init
    <2>3. left \in 0 .. RELOAD /\ expiries \in 0 .. MaxTick
      BY InterruptAssumption DEF Init
    <2>4. current \in Task \cup {NULL} /\ enabled \subseteq Irq /\ active \subseteq Irq
          /\ asserted \subseteq Device
      BY DEF Init
    <2>5. mask \in BOOLEAN /\ spsr \in BOOLEAN /\ gic \in BOOLEAN
          /\ counting \in BOOLEAN /\ spinlock \in BOOLEAN
      BY DEF Init
    <2> QED BY <2>1, <2>2, <2>3, <2>4, <2>5 DEF Values
  <1>2. Contexts
    BY DEF Init, Contexts
  <1>3. Executing
    <2>1. FrameOK(f) /\ f \in FrameType /\ f.pc = "gic_init"
      BY FrameHas DEF FrameOK, Label, BootLabel
    <2>2. cpu = <<f>> /\ mask /\ ~spinlock
      BY DEF Init
    <2> HIDE DEF f
    <2>3. cpu \in Seq(FrameType) /\ Len(cpu) = 1 /\ cpu[1] = f /\ cpu # <<>>
      BY <2>1, <2>2
    <2>4. \A i \in 1 .. Len(cpu) : i = 1
      BY <2>3
    <2>5. StackOK(cpu)
      BY <2>1, <2>3, <2>4 DEF StackOK, BottomLabel, BootLabel
    <2> QED BY <2>2, <2>5 DEF Executing
  <1> QED BY <1>1, <1>2, <1>3 DEF IInv

LEMMA StepHolds == IInv /\ [Next]_vars => IInv'
  <1> SUFFICES ASSUME IInv, [Next]_vars PROVE IInv'
    OBVIOUS
  <1>1. CASE Boot
    BY <1>1, GicInitKeeps, InitHalKeeps, InitIcbTableKeeps, InitTimerKeeps,
       CreateIdleKeeps, StartKeeps, FirstScheduleKeeps DEF Boot
  <1>2. CASE TimePasses \/ Raise \/ TakeInterrupt
    BY <1>2, TimePassesKeeps, RaiseKeeps, TakeInterruptKeeps
  <1>3. CASE IrqPath
    BY <1>3, GetIrqKeeps, AckIrqKeeps, DispatchKeeps, RearmKeeps, TriggerCounterKeeps,
       FireAlarmKeeps, LoopEndsKeeps, RescheduleStaysKeeps, RescheduleSwitchesKeeps,
       EretKeeps DEF IrqPath
  <1>4. CASE App
    BY <1>4, ComputeKeeps, UserMainEndsKeeps, CallbackEndsKeeps, DeviceEndsKeeps,
       AppSetAlarmKeeps, CreateTaskKeeps, AppSwitchesKeeps, StartDeviceKeeps,
       StopDeviceKeeps, EnterSectionKeeps, LeaveSectionKeeps, LockSyncKeeps,
       SpinLockKeeps, UnlockSyncKeeps DEF App, AppReturns, Compute
  <1>5. CASE UNCHANGED vars
    BY <1>5, ComputeKeeps
  <1> QED BY <1>1, <1>2, <1>3, <1>4, <1>5 DEF Next

LEMMA Invariance == Spec => []IInv
  BY InitHolds, StepHolds, PTL DEF Spec

(* The types, for any tasks, devices, counters, alarms and timeouts:       *)
(* every stack is made of frames that mean something, and every context    *)
(* can be resumed (entry.S:153-165, context.c:45-63, task.c:109-136).      *)
THEOREM IntTypeCorrect == Spec => []IntTypeOK
  BY Invariance, IInvImplies, PTL

(* Interrupts are masked in the boot, in the IRQ path and the handlers it  *)
(* calls, and in masked sections however they nest, and no task is left in *)
(* the middle of these (hal/interrupt.c:50-69, scheduler.c:69-80).         *)
THEOREM MaskedThroughout == Spec => []MaskedWhereItMust
  BY Invariance, IInvImplies, PTL

(* The lock word is free whenever _os_spin_lock looks at it: the loop in   *)
(* lock.c:3-19 never waits on one CPU (scheduler.c:69-80).                 *)
THEOREM SpinlockIsFree == Spec => []SpinNeverWaits
  BY Invariance, IInvImplies, PTL
-----------------------------------------------------------------------------
(* The handler of an interrupt, and the ticks.                             *)

(* eos_set_interrupt_handler takes an int8s_t: the devices whose numbers   *)
(* it would mistake for another's in the table are left out.               *)
Untruncated == \A d \in Device : InTable(AsInt8(d)) => AsInt8(d) = d

(* The boot up to the registration of the timer's handler.                 *)
EarlyLabel == {"gic_init", "init_hal", "init_icb", "init_timer"}

(* From here nothing is called, and interrupts are masked: such a frame is *)
(* only ever on top.                                                       *)
LeafLabel == EarlyLabel \cup {"get_irq", "ack_irq", "dispatch", "rearm", "trigger"}

Leafless(s) == \A i \in 1 .. Len(s) : s[i].pc \notin LeafLabel
LeafOnTop(s) == \A i \in 2 .. Len(s) : s[i].pc \notin LeafLabel

Expired == counting /\ left = 0

(* The table of handlers.                                                  *)
Table ==
  /\ Top.pc \in EarlyLabel => Device \cap enabled = {}
  /\ \A i \in DOMAIN handler : handler[i] = "timer" => i = IRQ_CNTP
  /\ Untruncated =>
       /\ Top.pc \notin EarlyLabel => handler[IRQ_CNTP] = "timer"
       /\ \A d \in Device \cap enabled : d \in DOMAIN handler /\ handler[d] = "device"

(* What the interrupt being handled is.                                    *)
Handling ==
  /\ Top.pc = "get_irq" /\ ~Spurious => Pending # {}
  /\ Top.pc \in {"ack_irq", "dispatch"} =>
       /\ ~Spurious => Top.irq \in enabled
       /\ Top.irq = IRQ_CNTP => Expired
  /\ Top.pc = "rearm" => Expired

Owed == IF Top.pc = "trigger" /\ Top.counter = SysTimer THEN 1 ELSE 0

Clock ==
  /\ Top.pc \in {"gic_init", "init_hal"} => ~counting
  /\ Top.pc \in EarlyLabel => tick[SysTimer] = 0
  /\ tick[SysTimer] + Owed + (IF Expired THEN 1 ELSE 0) = expiries

Serving == LeafOnTop(cpu) /\ Table /\ Handling /\ (MaxTick < WORD => Clock)

TInv == IInv /\ Serving


LEMMA Leaves == LeafLabel \subseteq Guarded /\ EarlyLabel \subseteq LeafLabel
  BY DEF LeafLabel, EarlyLabel, Guarded, BootLabel, IrqLabel, LockLabel

LEMMA PlainIsLeafless ==
  ASSUME NEW s, StackOK(s), ~Protected(s)
  PROVE  Leafless(s) /\ LeafOnTop(s) /\ s[1].pc \notin LeafLabel
  <1>1. s \in Seq(FrameType) /\ Len(s) \in Nat /\ Len(s) > 0
    BY TailFacts DEF StackOK
  <1>2. Leafless(s)
    BY <1>1, ProtectedIs, Leaves DEF Leafless
  <1> QED BY <1>1, <1>2 DEF Leafless, LeafOnTop

LEMMA CpuStack ==
  ASSUME TInv
  PROVE  StackOK(cpu) /\ cpu \in Seq(FrameType) /\ Len(cpu) \in Nat /\ Len(cpu) > 0
  BY TailFacts DEF TInv, IInv, Executing, StackOK

LEMMA LeafStep ==
  ASSUME TInv, NEW f, Step(f)
  PROVE  LeafOnTop(cpu') /\ Top' = f
  <1> DEFINE r == Tail(cpu)
  <1>1. Top' = f
    BY DEF Step, Top
  <1>2. /\ r \in Seq(FrameType) /\ Len(r) = Len(cpu) - 1
        /\ \A i \in 1 .. Len(cpu) - 1 : r[i] = cpu[i + 1]
    BY CpuStack, TailFacts
  <1>3. cpu' = <<f>> \o r
    BY DEF Step
  <1> HIDE DEF r
  <1>4. \A i \in 1 .. Len(r) : r[i].pc \notin LeafLabel
    BY <1>2, CpuStack DEF TInv, Serving, LeafOnTop
  <1>5. Len(<<f>> \o r) = Len(r) + 1 /\ \A i \in 2 .. Len(r) + 1 : (<<f>> \o r)[i] = r[i - 1]
    BY <1>2
  <1>6. \A i \in 2 .. Len(r) + 1 : i - 1 \in 1 .. Len(r)
    BY <1>2
  <1>7. LeafOnTop(<<f>> \o r)
    BY <1>4, <1>5, <1>6 DEF LeafOnTop
  <1> QED BY <1>1, <1>3, <1>7

LEMMA LeafPush ==
  ASSUME TInv, NEW f, Push(f), Top.pc \notin LeafLabel
  PROVE  LeafOnTop(cpu') /\ Top' = f
  <1>1. Top' = f
    BY DEF Push, Top
  <1>2. \A i \in 1 .. Len(cpu) : cpu[i].pc \notin LeafLabel
    BY CpuStack DEF TInv, Serving, LeafOnTop, Top
  <1>3. Len(<<f>> \o cpu) = Len(cpu) + 1
        /\ \A i \in 2 .. Len(cpu) + 1 : (<<f>> \o cpu)[i] = cpu[i - 1]
    BY CpuStack
  <1>4. LeafOnTop(<<f>> \o cpu)
    BY <1>2, <1>3, CpuStack DEF LeafOnTop
  <1> QED BY <1>1, <1>4 DEF Push

LEMMA LeafReturn ==
  ASSUME TInv, Return, Top.pc \notin BottomLabel
  PROVE  LeafOnTop(cpu') /\ Top'.pc \notin LeafLabel
  <1>1. /\ Len(Tail(cpu)) = Len(cpu) - 1
        /\ \A i \in 1 .. Len(cpu) - 1 : Tail(cpu)[i] = cpu[i + 1]
    BY CpuStack, TailFacts
  <1>2. Len(cpu) > 1
    BY CpuStack DEF StackOK, Top
  <1>3. \A i \in 1 .. Len(cpu) - 1 : Tail(cpu)[i].pc \notin LeafLabel
    BY <1>1, CpuStack DEF TInv, Serving, LeafOnTop
  <1>4. 1 \in 1 .. Len(cpu) - 1 /\ Len(cpu) \in Nat
    BY <1>2, CpuStack
  <1>5. LeafOnTop(Tail(cpu)) /\ Tail(cpu)[1].pc \notin LeafLabel
    BY <1>1, <1>3, <1>4 DEF LeafOnTop
  <1> QED BY <1>5 DEF Return, Top

(* No step of a leaf, and none to one.                                     *)
LEMMA PlainMove ==
  ASSUME TInv, LeafOnTop(cpu'), Top.pc \notin LeafLabel, Top'.pc \notin LeafLabel,
         UNCHANGED <<handler, enabled, timer>>, tick'[SysTimer] = tick[SysTimer]
  PROVE  Serving'
  <1>1. Table'
    BY Leaves DEF TInv, Serving, Table
  <1>2. Handling'
    BY DEF Handling, LeafLabel
  <1>3. (MaxTick < WORD => Clock)'
    BY DEF TInv, Serving, Clock, Owed, Expired, timer, LeafLabel, EarlyLabel
  <1> QED BY <1>1, <1>2, <1>3 DEF Serving

LEMMA PlainGoto ==
  ASSUME TInv, NEW l, Goto(l), Top.pc \notin LeafLabel, l \notin LeafLabel,
         UNCHANGED <<handler, enabled, timer>>, tick'[SysTimer] = tick[SysTimer]
  PROVE  Serving'
  <1> DEFINE f == [Top EXCEPT !.pc = l]
  <1>1. Step(f) /\ f.pc = l
    BY CpuStack DEF Goto, Top, FrameType
  <1> HIDE DEF f
  <1> QED BY <1>1, LeafStep, PlainMove

(* The CPU goes to a stack that was or will be unmasked.                   *)
LEMMA UnmaskedMove ==
  ASSUME TInv, StackOK(cpu'), ~Protected(cpu'), Top.pc \notin LeafLabel,
         UNCHANGED <<handler, enabled, timer>>, tick'[SysTimer] = tick[SysTimer]
  PROVE  Serving'
  BY PlainIsLeafless, PlainMove DEF Top

LEMMA SwitchMove ==
  ASSUME TInv, NEW t \in Task, SwitchTo(t), Top.pc \notin LeafLabel,
         UNCHANGED <<handler, enabled, timer>>, tick'[SysTimer] = tick[SysTimer]
  PROVE  Serving'
  <1>1. ContextOK(ctx[t])
    BY DEF SwitchTo, TInv, IInv, Contexts
  <1>2. StackOK(cpu') /\ ~Protected(cpu')
    BY <1>1 DEF SwitchTo, ContextOK
  <1> QED BY <1>2, UnmaskedMove


-----------------------------------------------------------------------------
(* One lemma per action again. *)

LEMMA GicInitServes ==
  ASSUME TInv, GicInit
  PROVE  Serving'
  <1> DEFINE f == [Top EXCEPT !.pc = "init_hal"]
  <1>1. Step(f) /\ f.pc = "init_hal" /\ Top.pc = "gic_init"
    BY CpuStack DEF GicInit, At, Goto, Top, FrameType
  <1> HIDE DEF f
  <1>2. LeafOnTop(cpu') /\ Top'.pc = "init_hal"
    BY <1>1, LeafStep
  <1>3. Table'
    BY <1>1, <1>2 DEF GicInit, TInv, Serving, Table, EarlyLabel
  <1>4. Handling'
    BY <1>2 DEF Handling
  <1>5. (MaxTick < WORD => Clock)'
    BY <1>1, <1>2 DEF GicInit, TInv, Serving, Clock, Owed, Expired, timer, counters, EarlyLabel
  <1> QED BY <1>2, <1>3, <1>4, <1>5 DEF Serving

LEMMA InitHalServes ==
  ASSUME TInv, InitHal
  PROVE  Serving'
  <1> DEFINE f == [Top EXCEPT !.pc = "init_icb"]
  <1>1. Step(f) /\ f.pc = "init_icb" /\ Top.pc = "init_hal"
    BY CpuStack DEF InitHal, At, Goto, Top, FrameType
  <1> HIDE DEF f
  <1>2. LeafOnTop(cpu') /\ Top'.pc = "init_icb"
    BY <1>1, LeafStep
  <1>3. Table'
    BY <1>1, <1>2, InterruptAssumption
    DEF InitHal, TInv, Serving, Table, EarlyLabel
  <1>4. Handling'
    BY <1>2 DEF Handling
  <1>5. (MaxTick < WORD => Clock)'
    BY <1>1, <1>2, InterruptAssumption
    DEF InitHal, TInv, Serving, Clock, Owed, Expired, counters, EarlyLabel
  <1> QED BY <1>2, <1>3, <1>4, <1>5 DEF Serving

LEMMA InitIcbTableServes ==
  ASSUME TInv, InitIcbTable
  PROVE  Serving'
  <1> DEFINE f == [Top EXCEPT !.pc = "init_timer"]
  <1>1. Step(f) /\ f.pc = "init_timer" /\ Top.pc = "init_icb"
    BY CpuStack DEF InitIcbTable, At, Goto, Top, FrameType
  <1> HIDE DEF f
  <1>2. LeafOnTop(cpu') /\ Top'.pc = "init_timer"
    BY <1>1, LeafStep
  <1>3. Table'
    <2>1. Device \cap enabled' = {}
      BY <1>1 DEF InitIcbTable, TInv, Serving, Table, EarlyLabel, lines
    <2>2. \A i \in DOMAIN handler' : handler'[i] # "timer"
      BY InterruptAssumption DEF InitIcbTable
    <2> QED BY <1>2, <2>1, <2>2 DEF Table, EarlyLabel
  <1>4. Handling'
    BY <1>2 DEF Handling
  <1>5. (MaxTick < WORD => Clock)'
    BY <1>1, <1>2
    DEF InitIcbTable, TInv, Serving, Clock, Owed, Expired, counters, timer, EarlyLabel
  <1> QED BY <1>2, <1>3, <1>4, <1>5 DEF Serving

LEMMA InitTimerServes ==
  ASSUME TInv, InitTimer
  PROVE  Serving'
  <1> DEFINE f == [Top EXCEPT !.pc = "create_idle"]
  <1>1. Step(f) /\ f.pc = "create_idle" /\ Top.pc = "init_timer"
    BY CpuStack DEF InitTimer, At, Goto, Top, FrameType
  <1> HIDE DEF f
  <1>2. LeafOnTop(cpu') /\ Top'.pc = "create_idle"
    BY <1>1, LeafStep
  <1>3. Table'
    <2>1. Device \cap enabled' = {}
      BY <1>1 DEF InitTimer, TInv, Serving, Table, EarlyLabel, lines
    <2>2. handler' = [handler EXCEPT ![IRQ_CNTP] = "timer"] /\ IRQ_CNTP \in 0 .. IRQ_MAX - 1
      BY InterruptAssumption DEF InitTimer, SetHandler, InTable, IRQ_CNTP
    <2>3. DOMAIN handler = 0 .. IRQ_MAX - 1
      BY DEF TInv, IInv, Values
    <2> QED BY <1>2, <2>1, <2>2, <2>3 DEF TInv, Serving, Table
  <1>4. Handling'
    BY <1>2 DEF Handling
  <1>5. (MaxTick < WORD => Clock)'
    <2>1. tick'[SysTimer] = 0
      BY InterruptAssumption DEF InitTimer, InitCounter, TInv, IInv, Values, CountersOK
    <2> QED BY <1>1, <1>2, <2>1
        DEF InitTimer, TInv, Serving, Clock, Owed, Expired, timer, EarlyLabel
  <1> QED BY <1>2, <1>3, <1>4, <1>5 DEF Serving

LEMMA CreateIdleServes ==
  ASSUME TInv, CreateIdle
  PROVE  Serving'
  BY PlainGoto DEF CreateIdle, At, LeafLabel, EarlyLabel, lines, counters

LEMMA UserMainEndsServes ==
  ASSUME TInv, UserMainEnds
  PROVE  Serving'
  BY PlainGoto DEF UserMainEnds, At, LeafLabel, EarlyLabel, lines, counters

LEMMA StartServes ==
  ASSUME TInv, Start
  PROVE  Serving'
  BY PlainGoto DEF Start, At, LeafLabel, EarlyLabel, lines, counters

LEMMA LoopEndsServes ==
  ASSUME TInv, LoopEnds
  PROVE  Serving'
  BY PlainGoto DEF LoopEnds, At, LeafLabel, EarlyLabel, lines, counters

LEMMA RescheduleStaysServes ==
  ASSUME TInv, RescheduleStays
  PROVE  Serving'
  BY PlainGoto DEF RescheduleStays, At, LeafLabel, EarlyLabel, lines, counters

LEMMA SpinLockServes ==
  ASSUME TInv, SpinLock
  PROVE  Serving'
  BY PlainGoto DEF SpinLock, At, LeafLabel, EarlyLabel, lines, counters

LEMMA FirstScheduleServes ==
  ASSUME TInv, FirstSchedule
  PROVE  Serving'
  BY SwitchMove DEF FirstSchedule, At, LeafLabel, EarlyLabel, lines, counters

LEMMA RescheduleSwitchesServes ==
  ASSUME TInv, RescheduleSwitches
  PROVE  Serving'
  BY SwitchMove DEF RescheduleSwitches, At, LeafLabel, EarlyLabel, lines, counters

LEMMA AppSwitchesServes ==
  ASSUME TInv, AppSwitches
  PROVE  Serving'
  <1>1. Top.pc \notin LeafLabel
    BY DEF AppSwitches, InApp, AppLabel, LeafLabel, EarlyLabel
  <1> QED BY <1>1, SwitchMove DEF AppSwitches, lines, counters

LEMMA CallbackEndsServes ==
  ASSUME TInv, CallbackEnds
  PROVE  Serving'
  <1>1. Top.pc \notin LeafLabel /\ Top.pc \notin BottomLabel
    BY Labels DEF CallbackEnds, At, LeafLabel, EarlyLabel
  <1> QED BY <1>1, LeafReturn, PlainMove DEF CallbackEnds, lines, counters

LEMMA LeaveSectionServes ==
  ASSUME TInv, LeaveSection
  PROVE  Serving'
  <1>1. Top.pc \notin LeafLabel /\ Top.pc \notin BottomLabel
    BY DEF LeaveSection, At, LeafLabel, EarlyLabel, BottomLabel, BootLabel
  <1> QED BY <1>1, LeafReturn, PlainMove DEF LeaveSection, lines, counters

LEMMA UnlockSyncServes ==
  ASSUME TInv, UnlockSync
  PROVE  Serving'
  <1>1. CASE At("locked") /\ SpinUnlock /\ Goto("unlocked") /\ UNCHANGED mask
    BY <1>1, PlainGoto DEF UnlockSync, At, LeafLabel, EarlyLabel, lines, counters
  <1>2. CASE At("unlocked") /\ HalRestore(Top.flag) /\ Return /\ UNCHANGED spinlock
    <2>1. Top.pc \notin LeafLabel /\ Top.pc \notin BottomLabel
      BY <1>2 DEF At, LeafLabel, EarlyLabel, BottomLabel, BootLabel
    <2> QED BY <1>2, <2>1, LeafReturn, PlainMove DEF UnlockSync, lines, counters
  <1> QED BY <1>1, <1>2 DEF UnlockSync

LEMMA FireAlarmServes ==
  ASSUME TInv, FireAlarm
  PROVE  Serving'
  <1>1. Top.pc \notin LeafLabel
    BY DEF FireAlarm, At, LeafLabel, EarlyLabel
  <1>2. LeafOnTop(cpu') /\ Top'.pc = "callback"
    BY <1>1, LeafPush DEF FireAlarm, Frame
  <1> QED BY <1>1, <1>2, PlainMove
      DEF FireAlarm, Fire, lines, LeafLabel, EarlyLabel

LEMMA EnterSectionServes ==
  ASSUME TInv, EnterSection
  PROVE  Serving'
  <1> DEFINE f == [Frame("section") EXCEPT !.flag = mask]
  <1>1. Top.pc \notin LeafLabel /\ Push(f) /\ f.pc = "section"
    BY DEF EnterSection, InApp, AppLabel, LeafLabel, EarlyLabel, Frame
  <1> HIDE DEF f
  <1>2. LeafOnTop(cpu') /\ Top'.pc = "section"
    BY <1>1, LeafPush
  <1> QED BY <1>1, <1>2, PlainMove
      DEF EnterSection, lines, counters, LeafLabel, EarlyLabel

LEMMA LockSyncServes ==
  ASSUME TInv, LockSync
  PROVE  Serving'
  <1> DEFINE f == [Frame("spin") EXCEPT !.flag = mask]
  <1>1. Top.pc \notin LeafLabel /\ Push(f) /\ f.pc = "spin"
    BY DEF LockSync, InApp, AppLabel, LeafLabel, EarlyLabel, Frame
  <1> HIDE DEF f
  <1>2. LeafOnTop(cpu') /\ Top'.pc = "spin"
    BY <1>1, LeafPush
  <1> QED BY <1>1, <1>2, PlainMove
      DEF LockSync, lines, counters, LeafLabel, EarlyLabel

LEMMA EretServes ==
  ASSUME TInv, Eret
  PROVE  Serving'
  <1>1. Top.pc = "eret"
    BY DEF Eret, At
  <1>2. StackOK(cpu') /\ ~Protected(cpu')
    <2>1. PICK c \in {Interrupted} \cup IF AnyX0 THEN Anything ELSE {} : cpu' = c.stack
      BY DEF Eret
    <2>2. CASE c = Interrupted
      <3>1. cpu' = Tail(cpu)
        BY <2>1, <2>2 DEF Interrupted
      <3> QED BY <1>1, <3>1, CpuStack, BelowTop, StackReturn
          DEF Top, BootLabel, IrqLabel, PathLabel, BottomLabel, SealLabel, Seals
    <2>3. CASE c \in Anything
      <3> DEFINE s == <<Frame("lost")>>
      <3>1. cpu' = s
        BY <2>1, <2>3 DEF Anything
      <3>2. FrameOK(Frame("lost")) /\ Frame("lost") \in FrameType /\ Frame("lost").pc = "lost"
        BY FrameHas DEF Label, FrameOK
      <3>3. s \in Seq(FrameType) /\ Len(s) = 1 /\ s[1] = Frame("lost") /\ s # <<>>
        BY <3>2
      <3> HIDE DEF s
      <3>4. \A i \in 1 .. Len(s) : i = 1
        BY <3>3
      <3>5. "lost" \in BottomLabel /\ "lost" \notin Guarded
        BY DEF BottomLabel, Guarded, BootLabel, IrqLabel, LockLabel
      <3> QED BY <3>1, <3>2, <3>3, <3>4, <3>5, PlainStack
    <2> QED BY <2>1, <2>2, <2>3
  <1> QED BY <1>1, <1>2, UnmaskedMove DEF Eret, LeafLabel, EarlyLabel, lines, counters


LEMMA TakeInterruptServes ==
  ASSUME TInv, TakeInterrupt
  PROVE  Serving'
  <1>1. ~Protected(cpu)
    BY DEF TakeInterrupt, TInv, IInv, Executing
  <1>2. Top.pc \notin LeafLabel
    BY <1>1, CpuStack, PlainIsLeafless DEF Top
  <1>3. LeafOnTop(cpu') /\ Top'.pc = "get_irq"
    BY <1>2, LeafPush DEF TakeInterrupt, Frame
  <1>4. Table'
    BY <1>2, <1>3, Leaves DEF TakeInterrupt, TInv, Serving, Table, lines, EarlyLabel
  <1>5. Handling'
    <2>1. ~Spurious => Pending # {}
      BY DEF TakeInterrupt, Signal
    <2>2. Pending' = Pending
      BY DEF TakeInterrupt, Pending, lines, timer
    <2> QED BY <1>3, <2>1, <2>2 DEF Handling
  <1>6. (MaxTick < WORD => Clock)'
    BY <1>2, <1>3
    DEF TakeInterrupt, TInv, Serving, Clock, Owed, Expired, timer, counters, LeafLabel, EarlyLabel
  <1> QED BY <1>3, <1>4, <1>5, <1>6 DEF Serving

LEMMA GetIrqServes ==
  ASSUME TInv, GetIrq
  PROVE  Serving'
  <1> DEFINE irq == IF Pending = {} THEN 1023
                    ELSE CHOOSE i \in Pending : \A j \in Pending : i <= j
             f == [Top EXCEPT !.pc = "ack_irq", !.irq = irq]
  <1>1. Step(f) /\ Top.pc = "get_irq"
    BY DEF GetIrq, At
  <1>2. (Pending = {} /\ irq = 1023) \/ irq \in Pending
    <2>1. Pending \subseteq Nat
      BY InterruptAssumption DEF Pending, TInv, IInv, Values, Irq, IRQ_CNTP
    <2> QED BY <2>1, LeastPending
  <1> HIDE DEF irq
  <1>3. f.pc = "ack_irq" /\ f.irq = irq
    BY CpuStack DEF Top, FrameType
  <1> HIDE DEF f
  <1>4. LeafOnTop(cpu') /\ Top' = f
    BY <1>1, LeafStep
  <1>5. Table'
    BY <1>1, <1>3, <1>4, Leaves DEF GetIrq, TInv, Serving, Table, EarlyLabel
  <1>6. Handling'
    <2>1. ~Spurious => irq \in enabled
      BY <1>1, <1>2 DEF TInv, Serving, Handling, Pending
    <2>2. irq = IRQ_CNTP => Expired
      BY <1>2, InterruptAssumption
      DEF Pending, Expired, IRQ_CNTP, TInv, IInv, Values
    <2>3. Expired' = Expired /\ enabled' = enabled
      BY DEF GetIrq, Expired, timer
    <2> QED BY <1>3, <1>4, <2>1, <2>2, <2>3 DEF Handling
  <1>7. (MaxTick < WORD => Clock)'
    BY <1>1, <1>3, <1>4
    DEF GetIrq, TInv, Serving, Clock, Owed, Expired, timer, counters, EarlyLabel
  <1> QED BY <1>4, <1>5, <1>6, <1>7 DEF Serving

LEMMA AckIrqServes ==
  ASSUME TInv, AckIrq
  PROVE  Serving'
  <1> DEFINE f == [Top EXCEPT !.pc = "dispatch"]
  <1>1. Step(f) /\ Top.pc = "ack_irq" /\ f.pc = "dispatch" /\ f.irq = Top.irq
    BY CpuStack DEF AckIrq, At, Goto, Top, FrameType
  <1> HIDE DEF f
  <1>2. LeafOnTop(cpu') /\ Top' = f
    BY <1>1, LeafStep
  <1>3. Table'
    BY <1>1, <1>2 DEF AckIrq, TInv, Serving, Table, EarlyLabel
  <1>4. Handling'
    BY <1>1, <1>2 DEF AckIrq, TInv, Serving, Handling, Expired, timer
  <1>5. (MaxTick < WORD => Clock)'
    BY <1>1, <1>2
    DEF AckIrq, TInv, Serving, Clock, Owed, Expired, timer, counters, EarlyLabel
  <1> QED BY <1>2, <1>3, <1>4, <1>5 DEF Serving

LEMMA DispatchServes ==
  ASSUME TInv, Dispatch
  PROVE  Serving'
  <1> DEFINE l == CASE handler[Top.irq] = "timer"  -> "rearm"
                    [] handler[Top.irq] = "device" -> "device"
                    [] OTHER                       -> "eret"
             f == [Top EXCEPT !.pc = l]
  <1>1. Step(f) /\ Top.pc = "dispatch" /\ Top.irq \in DOMAIN handler
    BY DEF Dispatch, At, Goto
  <1>2. l \in {"rearm", "device", "eret"}
    OBVIOUS
  <1>3. l = "rearm" => handler[Top.irq] = "timer"
    OBVIOUS
  <1> HIDE DEF l
  <1>4. f.pc = l
    BY CpuStack DEF Top, FrameType
  <1> HIDE DEF f
  <1>5. LeafOnTop(cpu') /\ Top' = f
    BY <1>1, LeafStep
  <1>6. Table'
    BY <1>1, <1>2, <1>4, <1>5 DEF Dispatch, TInv, Serving, Table, EarlyLabel, lines
  <1>7. Handling'
    <2>1. l = "rearm" => Top.irq = IRQ_CNTP
      BY <1>1, <1>3 DEF TInv, Serving, Table
    <2>2. l = "rearm" => Expired
      BY <1>1, <2>1 DEF TInv, Serving, Handling
    <2>3. Expired' = Expired
      BY DEF Dispatch, Expired, timer
    <2> QED BY <1>2, <1>4, <1>5, <2>2, <2>3 DEF Handling
  <1>8. (MaxTick < WORD => Clock)'
    BY <1>1, <1>2, <1>4, <1>5
    DEF Dispatch, TInv, Serving, Clock, Owed, Expired, timer, counters, EarlyLabel
  <1> QED BY <1>5, <1>6, <1>7, <1>8 DEF Serving

LEMMA RearmServes ==
  ASSUME TInv, Rearm
  PROVE  Serving'
  <1> DEFINE f == [Top EXCEPT !.pc = "trigger", !.counter = SysTimer]
  <1>1. Step(f) /\ Top.pc = "rearm" /\ f.pc = "trigger" /\ f.counter = SysTimer
    BY CpuStack DEF Rearm, At, Top, FrameType
  <1> HIDE DEF f
  <1>2. LeafOnTop(cpu') /\ Top' = f
    BY <1>1, LeafStep
  <1>3. Table'
    BY <1>1, <1>2 DEF Rearm, TInv, Serving, Table, EarlyLabel, lines
  <1>4. Handling'
    BY <1>1, <1>2 DEF Handling
  <1>5. (MaxTick < WORD => Clock)'
    <2>1. Expired /\ ~Expired'
      BY <1>1, InterruptAssumption DEF TInv, Serving, Handling, Expired, Rearm, TimerRearm
    <2>2. Owed = 0 /\ Owed' = 1
      BY <1>1, <1>2 DEF Owed
    <2>3. /\ tick'[SysTimer] = tick[SysTimer] /\ expiries' = expiries
          /\ tick[SysTimer] \in Nat
      BY InterruptAssumption DEF Rearm, counters, TInv, IInv, Values, CountersOK
    <2> QED BY <1>1, <1>2, <2>1, <2>2, <2>3 DEF TInv, Serving, Clock, EarlyLabel
  <1> QED BY <1>2, <1>3, <1>4, <1>5 DEF Serving

LEMMA TriggerCounterServes ==
  ASSUME TInv, TriggerCounter
  PROVE  Serving'
  <1> DEFINE f == [Top EXCEPT !.pc = "loop"]
  <1>1. Step(f) /\ Top.pc = "trigger" /\ f.pc = "loop"
    BY CpuStack DEF TriggerCounter, At, Goto, Top, FrameType
  <1>2. Top.counter \in Counter
    BY <1>1, TopFrame DEF TInv, FrameOK
  <1> HIDE DEF f
  <1>3. LeafOnTop(cpu') /\ Top' = f
    BY <1>1, LeafStep
  <1>4. Table'
    BY <1>1, <1>3 DEF TriggerCounter, TInv, Serving, Table, EarlyLabel, lines
  <1>5. Handling'
    BY <1>1, <1>3 DEF Handling
  <1>6. ASSUME MaxTick < WORD PROVE Clock'
    <2>1. /\ tick \in [Counter -> 0 .. WORD - 1] /\ SysTimer \in Counter
          /\ WORD \in Nat \ {0} /\ expiries \in 0 .. MaxTick /\ MaxTick \in Nat
      BY CounterAssumption, InterruptAssumption DEF TInv, IInv, Values, CountersOK
    <2>2. Clock
      BY <1>6 DEF TInv, Serving
    <2>3. tick' = [tick EXCEPT ![Top.counter] = (tick[Top.counter] + 1) % WORD]
      BY DEF TriggerCounter, Advance
    <2>4. Owed' = 0 /\ Expired' = Expired /\ expiries' = expiries
      BY <1>1, <1>3 DEF Owed, Expired, TriggerCounter, timer
    <2>5. tick'[SysTimer] = tick[SysTimer] + Owed
      <3>1. CASE Top.counter = SysTimer
        <4>1. Owed = 1
          BY <1>1, <3>1 DEF Owed
        <4>2. tick[SysTimer] \in 0 .. WORD - 1 /\ tick[SysTimer] + 1 < WORD
          BY <1>6, <2>1, <2>2, <4>1 DEF Clock
        <4>3. (tick[SysTimer] + 1) % WORD = tick[SysTimer] + 1
          BY <2>1, <4>2
        <4> QED BY <2>1, <2>3, <3>1, <4>1, <4>3
      <3>2. CASE Top.counter # SysTimer
        BY <2>1, <2>3, <3>2 DEF Owed
      <3> QED BY <3>1, <3>2
    <2>6. Top'.pc = "loop"
      BY <1>1, <1>3
    <2>7. tick'[SysTimer] + (IF Expired THEN 1 ELSE 0) = expiries
      BY <2>2, <2>5 DEF Clock
    <2>8. tick'[SysTimer] \in Nat
      BY <2>1, <2>5 DEF Owed
    <2> QED BY <2>4, <2>6, <2>7, <2>8 DEF Clock, EarlyLabel
  <1> QED BY <1>3, <1>4, <1>5, <1>6 DEF Serving, TriggerCounter, timer

LEMMA DeviceEndsServes ==
  ASSUME TInv, DeviceEnds
  PROVE  Serving'
  <1>1. Top.pc = "device" /\ UNCHANGED <<handler, enabled, timer, counters>>
    BY DEF DeviceEnds, At
  <1>2. ASSUME Goto("eret") PROVE Serving'
    BY <1>1, <1>2, PlainGoto DEF LeafLabel, EarlyLabel, counters
  <1>3. ASSUME Step([Top EXCEPT !.pc = "trigger", !.counter = Own]) PROVE Serving'
    <2> DEFINE f == [Top EXCEPT !.pc = "trigger", !.counter = Own]
    <2>1. Step(f) /\ f.pc = "trigger" /\ f.counter = Own
      BY <1>3, CpuStack DEF Top, FrameType
    <2> HIDE DEF f
    <2>2. LeafOnTop(cpu') /\ Top' = f
      BY <2>1, LeafStep
    <2>3. Table'
      BY <1>1, <2>1, <2>2 DEF TInv, Serving, Table, EarlyLabel
    <2>4. Handling'
      BY <2>1, <2>2 DEF Handling
    <2>5. (MaxTick < WORD => Clock)'
      BY <1>1, <2>1, <2>2, InterruptAssumption
      DEF TInv, Serving, Clock, Owed, Expired, timer, counters, EarlyLabel
    <2> QED BY <2>2, <2>3, <2>4, <2>5 DEF Serving
  <1> QED BY <1>2, <1>3 DEF DeviceEnds

LEMMA TimePassesServes ==
  ASSUME TInv, TimePasses
  PROVE  Serving'
  <1>1. Top' = Top /\ cpu' = cpu /\ ~Expired
    BY DEF TimePasses, machine, Top, Expired
  <1>2. Table'
    BY <1>1 DEF TimePasses, lines, TInv, Serving, Table
  <1>3. Handling'
    <2>1. Pending \subseteq Pending'
      BY <1>1 DEF TimePasses, lines, Pending, Expired
    <2> QED BY <1>1, <2>1 DEF TimePasses, lines, TInv, Serving, Handling
  <1>4. (MaxTick < WORD => Clock)'
    <2>1. left \in Nat /\ left > 0 /\ counting /\ expiries \in Nat
      BY InterruptAssumption DEF TimePasses, TInv, IInv, Values
    <2>2. CASE left = 1
      <3>1. Expired' /\ expiries' = expiries + 1
        BY <2>1, <2>2 DEF TimePasses, Expired
      <3> QED BY <1>1, <2>1, <3>1, InterruptAssumption
          DEF TimePasses, counters, TInv, IInv, Values, CountersOK, Serving, Clock, Owed
    <2>3. CASE left # 1
      <3>1. ~Expired' /\ expiries' = expiries
        BY <2>1, <2>3 DEF TimePasses, Expired
      <3> QED BY <1>1, <2>1, <3>1 DEF TimePasses, counters, TInv, Serving, Clock, Owed
    <2> QED BY <2>2, <2>3
  <1> QED BY <1>1, <1>2, <1>3, <1>4 DEF TInv, Serving, LeafOnTop

LEMMA RaiseServes ==
  ASSUME TInv, Raise
  PROVE  Serving'
  <1>1. Top' = Top /\ cpu' = cpu /\ Expired' = Expired /\ Pending \subseteq Pending'
    BY DEF Raise, machine, Top, Expired, Pending, timer
  <1> QED BY <1>1 DEF Raise, timer, counters, TInv, Serving, LeafOnTop, Table, Handling, Clock, Owed

LEMMA AppSetAlarmServes ==
  ASSUME TInv, AppSetAlarm
  PROVE  Serving'
  <1>1. Top.pc \notin LeafLabel /\ Top' = Top /\ LeafOnTop(cpu')
    BY DEF AppSetAlarm, InApp, AppLabel, LeafLabel, EarlyLabel, machine, Top, TInv, Serving
  <1>2. tick' = tick
    BY DEF AppSetAlarm, SetAlarm
  <1> QED BY <1>1, <1>2, PlainMove DEF AppSetAlarm, lines

LEMMA CreateTaskServes ==
  ASSUME TInv, CreateTask
  PROVE  Serving'
  <1>1. Top.pc \notin LeafLabel /\ Top' = Top /\ LeafOnTop(cpu')
    BY DEF CreateTask, InApp, AppLabel, LeafLabel, EarlyLabel, Top, TInv, Serving
  <1> QED BY <1>1, PlainMove DEF CreateTask, lines, counters

LEMMA StutterServes ==
  ASSUME TInv, UNCHANGED vars
  PROVE  Serving'
  BY DEF vars, machine, lines, timer, counters, TInv, Serving, LeafOnTop, Table, Handling,
         Clock, Owed, Top, Pending, Expired

(* The table: a registration under a number that an int8s_t keeps.         *)
LEMMA SetHandlerIs ==
  ASSUME TInv, Untruncated, NEW d \in Device, NEW h, SetHandler(AsInt8(d), h)
  PROVE  handler' = IF InTable(AsInt8(d)) THEN [handler EXCEPT ![d] = h] ELSE handler
  BY DEF SetHandler, Untruncated

LEMMA StartDeviceServes ==
  ASSUME TInv, StartDevice
  PROVE  Serving'
  <1>1. /\ Top.pc \notin LeafLabel /\ Top' = Top /\ LeafOnTop(cpu')
        /\ UNCHANGED <<timer, counters>>
    BY DEF StartDevice, LeafLabel, EarlyLabel, machine, Top, TInv, Serving
  <1>2. PICK d \in Device :
          /\ SetHandler(AsInt8(d), "device")
          /\ enabled' = IF InTable(AsInt8(d)) THEN enabled \cup {d} ELSE enabled
    BY DEF StartDevice
  <1>3. DOMAIN handler = 0 .. IRQ_MAX - 1 /\ d # IRQ_CNTP
    BY InterruptAssumption DEF TInv, IInv, Values
  <1>4. Table'
    <2>1. CASE InTable(AsInt8(d)) /\ Untruncated
      <3>1. d \in DOMAIN handler
        BY <1>3, <2>1, InterruptAssumption DEF Untruncated, InTable
      <3>2. handler' = [handler EXCEPT ![d] = "device"] /\ enabled' = enabled \cup {d}
        BY <1>2, <2>1, SetHandlerIs
      <3> QED BY <1>1, <1>3, <3>1, <3>2, Leaves DEF TInv, Serving, Table
    <2>2. CASE InTable(AsInt8(d)) /\ ~Untruncated
      <3>1. handler' = [handler EXCEPT ![AsInt8(d)] = "device"]
        BY <1>2, <2>2 DEF SetHandler
      <3> QED BY <1>1, <2>2, <3>1, Leaves DEF TInv, Serving, Table
    <2>3. CASE ~InTable(AsInt8(d))
      <3>1. handler' = handler /\ enabled' = enabled
        BY <1>2, <2>3 DEF SetHandler
      <3> QED BY <1>1, <3>1 DEF TInv, Serving, Table
    <2> QED BY <2>1, <2>2, <2>3
  <1>5. Handling'
    BY <1>1 DEF Handling, LeafLabel
  <1>6. (MaxTick < WORD => Clock)'
    BY <1>1 DEF TInv, Serving, Clock, Owed, Expired, timer, counters
  <1> QED BY <1>1, <1>4, <1>5, <1>6 DEF Serving

LEMMA StopDeviceServes ==
  ASSUME TInv, StopDevice
  PROVE  Serving'
  <1>1. /\ Top.pc \notin LeafLabel /\ Top' = Top /\ LeafOnTop(cpu')
        /\ UNCHANGED <<timer, counters>>
    BY DEF StopDevice, At, LeafLabel, EarlyLabel, machine, Top, TInv, Serving
  <1>2. PICK d \in Device \cap enabled :
          enabled' = enabled \ {d} /\ SetHandler(AsInt8(d), NULL)
    BY DEF StopDevice
  <1>3. DOMAIN handler = 0 .. IRQ_MAX - 1 /\ d # IRQ_CNTP /\ NULL # "timer"
    BY InterruptAssumption DEF TInv, IInv, Values
  <1>4. Top.pc \notin EarlyLabel /\ Top'.pc \notin EarlyLabel
    BY <1>1, Leaves
  <1>5. \A i \in DOMAIN handler' : handler'[i] = "timer" => i = IRQ_CNTP
    <2>1. handler' = handler \/ handler' = [handler EXCEPT ![AsInt8(d)] = NULL]
      BY <1>2 DEF SetHandler
    <2>2. DOMAIN handler' = DOMAIN handler
          /\ \A i \in DOMAIN handler : handler'[i] = handler[i] \/ handler'[i] = NULL
      BY <2>1
    <2> QED BY <1>3, <2>2 DEF TInv, Serving, Table
  <1>6. ASSUME Untruncated
        PROVE  /\ handler'[IRQ_CNTP] = "timer"
               /\ \A e \in Device \cap enabled' : e \in DOMAIN handler' /\ handler'[e] = "device"
    <2>1. handler' = handler \/ handler' = [handler EXCEPT ![d] = NULL]
      BY <1>2, <1>6, SetHandlerIs
    <2>2. /\ DOMAIN handler' = DOMAIN handler
          /\ \A i \in DOMAIN handler : handler'[i] = handler[i] \/ (i = d /\ handler'[i] = NULL)
      BY <2>1
    <2>3. IRQ_CNTP \in DOMAIN handler
      BY <1>3, InterruptAssumption DEF IRQ_CNTP
    <2>4. handler'[IRQ_CNTP] = "timer"
      BY <1>3, <1>4, <1>6, <2>2, <2>3 DEF TInv, Serving, Table
    <2>5. \A e \in Device \cap enabled' : e \in DOMAIN handler' /\ handler'[e] = "device"
      BY <1>2, <1>6, <2>2 DEF TInv, Serving, Table
    <2> QED BY <2>4, <2>5
  <1>7. Table'
    BY <1>4, <1>5, <1>6 DEF Table
  <1>8. Handling'
    BY <1>1 DEF Handling, LeafLabel
  <1>9. (MaxTick < WORD => Clock)'
    BY <1>1 DEF TInv, Serving, Clock, Owed, Expired, timer, counters
  <1> QED BY <1>1, <1>7, <1>8, <1>9 DEF Serving

LEMMA InitServes == Init => TInv
  <1> SUFFICES ASSUME Init PROVE Serving
    BY InitHolds DEF TInv
  <1>1. Top.pc = "gic_init" /\ Len(cpu) = 1
    BY DEF Init, Top, Frame
  <1>2. LeafOnTop(cpu)
    BY <1>1 DEF LeafOnTop
  <1>3. \A i \in DOMAIN handler : handler[i] # "timer"
    BY InterruptAssumption DEF Init
  <1>4. tick[SysTimer] = 0
    BY InterruptAssumption DEF Init, CountersInit
  <1>5. Table /\ Handling /\ Clock
    BY <1>1, <1>3, <1>4 DEF Init, Table, Handling, Clock, Owed, Expired, EarlyLabel
  <1> QED BY <1>2, <1>5 DEF Serving

LEMMA StepServes == TInv /\ [Next]_vars => TInv'
  <1> SUFFICES ASSUME TInv, [Next]_vars PROVE Serving'
    BY StepHolds DEF TInv
  <1>1. CASE Boot
    BY <1>1, GicInitServes, InitHalServes, InitIcbTableServes, InitTimerServes,
       CreateIdleServes, StartServes, FirstScheduleServes DEF Boot
  <1>2. CASE TimePasses \/ Raise \/ TakeInterrupt
    BY <1>2, TimePassesServes, RaiseServes, TakeInterruptServes
  <1>3. CASE IrqPath
    BY <1>3, GetIrqServes, AckIrqServes, DispatchServes, RearmServes, TriggerCounterServes,
       FireAlarmServes, LoopEndsServes, RescheduleStaysServes, RescheduleSwitchesServes,
       EretServes DEF IrqPath
  <1>4. CASE App
    BY <1>4, StutterServes, UserMainEndsServes, CallbackEndsServes, DeviceEndsServes,
       AppSetAlarmServes, CreateTaskServes, AppSwitchesServes, StartDeviceServes,
       StopDeviceServes, EnterSectionServes, LeaveSectionServes, LockSyncServes,
       SpinLockServes, UnlockSyncServes DEF App, AppReturns, Compute
  <1>5. CASE UNCHANGED vars
    BY <1>5, StutterServes
  <1> QED BY <1>1, <1>2, <1>3, <1>4, <1>5 DEF Next

LEMMA TInvImplies ==
  ASSUME TInv
  PROVE  /\ ~Spurious /\ Untruncated => HandlerIsFound
         /\ MaxTick < WORD => OneTickPerExpiry
  <1>1. ASSUME ~Spurious, Untruncated PROVE HandlerIsFound
    <2> SUFFICES ASSUME Top.pc = "dispatch"
                 PROVE  /\ Top.irq \in DOMAIN handler
                        /\ handler[Top.irq] = IF Top.irq = IRQ_CNTP THEN "timer" ELSE "device"
      BY DEF HandlerIsFound, At
    <2>1. Top.irq \in enabled /\ Top.irq \in Device \cup {IRQ_CNTP}
      BY <1>1 DEF TInv, Serving, Handling, IInv, Values, Irq
    <2>2. handler[IRQ_CNTP] = "timer" /\ IRQ_CNTP \in DOMAIN handler
      BY <1>1, InterruptAssumption
      DEF TInv, Serving, Table, EarlyLabel, IInv, Values, IRQ_CNTP
    <2> QED BY <1>1, <2>1, <2>2, InterruptAssumption DEF TInv, Serving, Table
  <1>2. ASSUME MaxTick < WORD PROVE OneTickPerExpiry
    <2> DEFINE S == {i \in DOMAIN cpu : Ticking(i)}
    <2>1. DOMAIN cpu = 1 .. Len(cpu) /\ 1 \in DOMAIN cpu
      BY CpuStack
    <2>2. \A i \in S : i = 1
      BY <2>1, CpuStack DEF TInv, Serving, LeafOnTop, LeafLabel, Ticking
    <2>3. Cardinality(S) = Owed
      <3>1. CASE Ticking(1)
        <4>1. S = {1}
          BY <2>1, <2>2, <3>1
        <4> QED BY <3>1, <4>1, FS_Singleton DEF Owed, Ticking, Top
      <3>2. CASE ~Ticking(1)
        <4>1. S = {}
          BY <2>2, <3>2
        <4> QED BY <3>2, <4>1, FS_EmptySet DEF Owed, Ticking, Top
      <3> QED BY <3>1, <3>2
    <2> HIDE DEF S
    <2>4. Clock
      BY <1>2 DEF TInv, Serving
    <2>5. tick[SysTimer] + Cardinality(S) + (IF Expired THEN 1 ELSE 0) = expiries
      BY <2>3, <2>4 DEF Clock
    <2> QED BY <2>5 DEF OneTickPerExpiry, S, Expired
  <1> QED BY <1>1, <1>2

LEMMA ServingInvariance == Spec => []TInv
  <1>1. TInv /\ [Next]_vars => TInv'
    BY StepServes
  <1> QED BY <1>1, InitServes, PTL DEF Spec

(* An interrupt that is dispatched finds the handler registered for it, if *)
(* the GIC names the interrupt that it signalled, and no number registered *)
(* is one that eos_set_interrupt_handler's int8s_t turns into another's    *)
(* (interrupt.c:72-115): for any devices started and stopped at any time,  *)
(* and whatever the IRQ path restores.                                     *)
THEOREM DispatchFindsHandler ==
  ASSUME ~Spurious, Untruncated
  PROVE  Spec => []HandlerIsFound
  <1>1. TInv => HandlerIsFound
    BY TInvImplies
  <1> QED BY <1>1, ServingInvariance, PTL

(* As long as the timer expired fewer than WORD times, so that the tick    *)
(* did not wrap, each expiry is counted by one tick, is being counted by   *)
(* the one frame that is about to, or is the one that is pending           *)
(* (hal/timer.c:46-50, core/timer.c:96-101).                               *)
THEOREM TicksCountExpiries ==
  ASSUME MaxTick < WORD
  PROVE  Spec => []OneTickPerExpiry
  <1>1. TInv => OneTickPerExpiry
    BY TInvImplies
  <1> QED BY <1>1, ServingInvariance, PTL

-----------------------------------------------------------------------------
(* The alarms keep what AlarmService promises.                             *)

AlarmsOn(c) == Members(Queue(c))

(* The alarms of c that are due are being fired.                           *)
Firing(c) == \E i \in 1 .. Len(cpu) : cpu[i].pc = "loop" /\ cpu[i].counter = c

(* The queues of the counters are disjoint ascending rings. *)
Lined ==
  /\ \A c \in Counter :
       /\ RingOf(Queue(c), AlarmsOn(c)) /\ Ascending(Queue(c), AlarmsOn(c), timeout)
       /\ \A a \in AlarmsOn(c) : c \in CounterOf[a]
  /\ \A a \in Alarm : (\A c \in Counter : a \notin AlarmsOn(c)) => links.next[a] = NULL

(* No alarm is overdue, and none is due when its counter is not at work.   *)
Punctual ==
  \A c \in Counter : \A a \in AlarmsOn(c) :
    tick[c] <= timeout[a] /\ (timeout[a] = tick[c] => Firing(c))

(* The last time that the bounds of the model let a counter reach.         *)
Limit(c) ==
  InitTick[c] + (IF c = SysTimer THEN MaxTick ELSE IF c = Own THEN MaxOwn ELSE 0)

Bounded ==
  /\ \A c \in Counter \ {SysTimer} : tick[c] <= Limit(c)
  /\ Top.pc = "trigger" =>
       Top.counter \in {SysTimer, Own} /\ (Top.counter = Own => tick[Own] < Limit(Own))

(* At the beginning of the boot no alarm is set. *)
NoneSet == Top.pc \in EarlyLabel => \A c \in Counter : alarm_queue[c] = NULL

AInv == TInv /\ Lined /\ Punctual /\ Bounded /\ NoneSet

(* Each alarm is used with one counter, as its eos_alarm_t is in one queue *)
(* at a time, and no time reaches WORD.                                    *)
OneCounter == \A a \in Alarm : \A c, d \in CounterOf[a] : c = d
InWord ==
  /\ \A c \in {SysTimer, Own} : Limit(c) < WORD
  /\ \A a \in Alarm : \A c \in CounterOf[a] : \A n \in Timeouts[a] : Limit(c) + n < WORD

-----------------------------------------------------------------------------
(* What a call does to the queues. *)

LEMMA AlarmsOnIs ==
  ASSUME CountersOK, NEW c \in Counter, NEW S \in SUBSET Alarm, RingOf(Queue(c), S)
  PROVE  AlarmsOn(c) = S
  BY QueueType, RingMembers, CounterAssumption DEF AlarmsOn

LEMMA AlarmsOnAlarms ==
  ASSUME CountersOK, NEW c \in Counter
  PROVE  AlarmsOn(c) \in SUBSET Alarm
  BY QueueType DEF AlarmsOn, Members, ListOver

(* An alarm that may be set on c is in no other queue. *)
LEMMA OnlyOn ==
  ASSUME OneCounter, Lined, CountersOK, NEW c \in Counter, NEW a \in Alarm, c \in CounterOf[a],
         NEW d \in Counter, d # c
  PROVE  a \notin AlarmsOn(d)
  BY CounterAssumption DEF OneCounter, Lined

(* Taking an alarm off the queue of c. *)
LEMMA TakeOff ==
  ASSUME OneCounter, Lined, CountersOK, NEW c \in Counter, NEW a \in Alarm, c \in CounterOf[a],
         NEW off, off = RemoveNode(Queue(c), a)
  PROVE  /\ off \in ListOver(Alarm, Alarm) /\ off.next[a] = NULL
         /\ RingOf(off, AlarmsOn(c) \ {a})
         /\ Ascending(off, AlarmsOn(c) \ {a}, timeout)
         /\ LinksKept(Queue(c), off, Alarm, AlarmsOn(c) \cup {a})
  <1> DEFINE l == Queue(c)
             S == AlarmsOn(c)
  <1>1. /\ l \in ListOver(Alarm, Alarm) /\ S \in SUBSET Alarm /\ NULL \notin Alarm
        /\ RingOf(l, S) /\ Ascending(l, S, timeout)
    BY QueueType, AlarmsOnAlarms, CounterAssumption DEF Lined
  <1>2. timeout \in [Alarm -> Nat] /\ l.next = links.next
    BY CounterAssumption DEF CountersOK, Queue
  <1>3. off = RemoveNode(l, a)
    OBVIOUS
  <1>4. a \notin S => links.next[a] = NULL
    BY OnlyOn DEF Lined
  <1> HIDE DEF l, S
  <1>5. off \in ListOver(Alarm, Alarm)
    BY <1>1, <1>3, RemoveNodeType
  <1>6. CASE a \in S
    <2>1. RingOf(off, S \ {a}) /\ LinksKept(l, off, Alarm, S) /\ off.next[a] = NULL
      BY <1>1, <1>3, <1>6, RemoveNodeRing
    <2>2. Ascending(off, S \ {a}, timeout)
      BY <1>1, <1>2, <1>3, <1>6, RemoveNodeAscending
    <2>3. LinksKept(l, off, Alarm, S \cup {a})
      BY <2>1, <1>6 DEF LinksKept
    <2> QED BY <1>5, <2>1, <2>2, <2>3 DEF l, S
  <1>7. CASE a \notin S
    <2>1. off = l /\ S \ {a} = S
      BY <1>2, <1>3, <1>4, <1>7, RemoveNodeUnlinked
    <2>2. LinksKept(l, off, Alarm, S \cup {a})
      BY <2>1 DEF LinksKept
    <2> QED BY <1>1, <1>2, <1>4, <1>5, <1>7, <2>1, <2>2 DEF l, S
  <1> QED BY <1>6, <1>7

(* A call for a on the queue of c leaves the others' alarms alone.         *)
LEMMA OneQueueMoves ==
  ASSUME OneCounter, Lined, CountersOK, CountersOK', NEW c \in Counter, NEW a \in Alarm,
         c \in CounterOf[a], NEW m, SetQueue(c, m), NEW S \in SUBSET Alarm, RingOf(m, S),
         Ascending(m, S, timeout'), S \ {a} = AlarmsOn(c) \ {a},
         LinksKept(Queue(c), m, Alarm, AlarmsOn(c) \cup {a}),
         a \notin S => m.next[a] = NULL,
         \A x \in Alarm \ {a} : timeout'[x] = timeout[x]
  PROVE  /\ Lined' /\ AlarmsOn(c)' = S
         /\ \A d \in Counter \ {c} : AlarmsOn(d)' = AlarmsOn(d)
  <1>1. /\ links' = [prev |-> m.prev, next |-> m.next]
        /\ alarm_queue' = [alarm_queue EXCEPT ![c] = m.head]
        /\ alarm_queue \in [Counter -> Alarm \cup {NULL}]
    BY DEF SetQueue, CountersOK
  <1>2. /\ Queue(c)'.next = m.next /\ Queue(c)'.prev = m.prev /\ Queue(c)'.head = m.head
    BY <1>1 DEF Queue
  <1>3. RingOf(Queue(c)', S) /\ Ascending(Queue(c)', S, timeout')
    BY <1>2 DEF RingOf, Ascending
  <1>4. AlarmsOn(c)' = S
    <2>1. Queue(c)' \in ListOver(Alarm, Alarm)
      BY DEF CountersOK, Queue, ListOver
    <2> QED BY <1>3, <2>1, RingMembers, CounterAssumption DEF AlarmsOn
  <1>5. ASSUME NEW d \in Counter \ {c}
        PROVE  /\ RingOf(Queue(d)', AlarmsOn(d)) /\ Ascending(Queue(d)', AlarmsOn(d), timeout')
               /\ AlarmsOn(d)' = AlarmsOn(d)
    <2> DEFINE T == AlarmsOn(d)
    <2>1. RingOf(Queue(d), T) /\ Ascending(Queue(d), T, timeout) /\ T \in SUBSET Alarm
      BY AlarmsOnAlarms DEF Lined
    <2>2. a \notin T
      BY OnlyOn
    <2>3. \A x \in T : x \notin AlarmsOn(c)
      <3> SUFFICES ASSUME NEW x \in T, x \in AlarmsOn(c) PROVE FALSE
        OBVIOUS
      <3>1. x \in Alarm /\ c \in CounterOf[x] /\ d \in CounterOf[x]
        BY <2>1 DEF Lined
      <3> QED BY <3>1 DEF OneCounter
    <2>4. \A x \in T : m.next[x] = links.next[x] /\ m.prev[x] = links.prev[x]
      BY <2>1, <2>2, <2>3 DEF LinksKept, Queue
    <2>5. /\ Queue(d)'.next = m.next /\ Queue(d)'.prev = m.prev
          /\ Queue(d)'.head = Queue(d).head
          /\ Queue(d).next = links.next /\ Queue(d).prev = links.prev
      BY <1>1 DEF Queue
    <2> HIDE DEF T
    <2>6. RingOf(Queue(d)', T)
      BY <2>1, <2>4, <2>5, RingKept
    <2>7. Ascending(Queue(d)', T, timeout')
      <3> SUFFICES ASSUME NEW x \in T, Queue(d)'.next[x] # Queue(d)'.head
                   PROVE  timeout'[x] <= timeout'[Queue(d)'.next[x]]
        BY DEF Ascending
      <3>1. Queue(d)'.next[x] = Queue(d).next[x] /\ Queue(d).next[x] \in T
        BY <2>1, <2>4, <2>5 DEF RingOf
      <3>2. \A y \in T : timeout'[y] = timeout[y]
        BY <2>1, <2>2
      <3> QED BY <2>1, <2>5, <3>1, <3>2 DEF Ascending
    <2>8. AlarmsOn(d)' = T
      <3>1. Queue(d)' \in ListOver(Alarm, Alarm)
        BY DEF CountersOK, Queue, ListOver
      <3> QED BY <2>1, <2>6, <3>1, RingMembers, CounterAssumption DEF AlarmsOn
    <2> QED BY <2>6, <2>7, <2>8 DEF T
  <1>6. \A d \in Counter : \A x \in AlarmsOn(d)' : d \in CounterOf[x]
    <2>1. \A x \in S : x = a \/ x \in AlarmsOn(c)
      OBVIOUS
    <2> QED BY <1>4, <1>5, <2>1 DEF Lined
  <1>7. ASSUME NEW x \in Alarm, \A d \in Counter : x \notin AlarmsOn(d)'
        PROVE  links'.next[x] = NULL
    <2>1. links'.next[x] = m.next[x]
      BY <1>1
    <2>2. CASE x = a
      BY <1>4, <1>7, <2>1, <2>2
    <2>3. CASE x # a
      <3>1. \A d \in Counter : x \notin AlarmsOn(d)
        BY <1>4, <1>5, <1>7, <2>3
      <3>2. links.next[x] = NULL /\ x \notin AlarmsOn(c) \cup {a}
        BY <2>3, <3>1 DEF Lined
      <3> QED BY <2>1, <3>2 DEF LinksKept, Queue
    <2> QED BY <2>2, <2>3
  <1>8. Lined'
    BY <1>3, <1>4, <1>5, <1>6, <1>7 DEF Lined
  <1> QED BY <1>4, <1>5, <1>8

(* eos_set_alarm (timer.c:28-52) *)
LEMMA SetAlarmMoves ==
  ASSUME OneCounter, Lined, CountersOK, NEW c \in Counter, NEW a \in Alarm, c \in CounterOf[a],
         NEW n \in Nat, SetAlarm(c, a, n), IsFiniteSet(Alarm)
  PROVE  /\ Lined' /\ AlarmsOn(c)' = (AlarmsOn(c) \ {a}) \cup IF n = 0 THEN {} ELSE {a}
         /\ \A d \in Counter \ {c} : AlarmsOn(d)' = AlarmsOn(d)
         /\ \A x \in Alarm \ {a} : timeout'[x] = timeout[x]
         /\ n # 0 => timeout'[a] = (tick[c] + n) % WORD
         /\ tick' = tick
  <1> DEFINE off == RemoveNode(Queue(c), a)
             m == IF n = 0 THEN off ELSE AddNodeOrdered(off, a, timeout')
             S == AlarmsOn(c) \ {a}
  <1>1. /\ off \in ListOver(Alarm, Alarm) /\ off.next[a] = NULL
        /\ RingOf(off, S) /\ Ascending(off, S, timeout)
        /\ LinksKept(Queue(c), off, Alarm, AlarmsOn(c) \cup {a})
    BY TakeOff
  <1>2. CountersOK'
    BY SetAlarmType
  <1>3. /\ \A x \in Alarm \ {a} : timeout'[x] = timeout[x]
        /\ n # 0 => timeout'[a] = (tick[c] + n) % WORD
        /\ tick' = tick /\ SetQueue(c, m)
    BY DEF SetAlarm, CountersOK
  <1>4. S \in SUBSET Alarm /\ a \notin S /\ NULL \notin Alarm
    BY AlarmsOnAlarms, CounterAssumption
  <1>5. Ascending(off, S, timeout')
    <2>1. \A x \in S : off.next[x] \in S
      BY <1>1 DEF RingOf
    <2> HIDE DEF off, S
    <2> QED BY <1>1, <1>3, <1>4, <2>1 DEF Ascending
  <1>6. CASE n = 0
    <2>1. m = off
      BY <1>6
    <2> HIDE DEF off, m
    <2> QED BY <1>1, <1>2, <1>3, <1>4, <1>5, <1>6, <2>1, OneQueueMoves
  <1>7. CASE n # 0
    <2> DEFINE R == S \cup {a}
    <2>1. m = AddNodeOrdered(off, a, timeout') /\ timeout' \in [Alarm -> Nat]
      BY <1>2, <1>7, CounterAssumption DEF CountersOK
    <2> HIDE DEF m
    <2>2. R \in SUBSET Alarm /\ R \ {a} = AlarmsOn(c) \ {a}
      BY <1>4
    <2> HIDE DEF off, S
    <2>3. RingOf(m, R) /\ LinksKept(off, m, Alarm, R)
      BY <1>1, <1>4, <2>1, AddNodeOrderedRing
    <2>4. Ascending(m, R, timeout')
      BY <1>1, <1>4, <1>5, <2>1, AddNodeOrderedAscending
    <2>5. LinksKept(Queue(c), m, Alarm, AlarmsOn(c) \cup {a})
      BY <1>1, <2>3 DEF LinksKept, S
    <2>6. a \in R /\ R = (AlarmsOn(c) \ {a}) \cup {a}
      BY DEF S
    <2> HIDE DEF R
    <2>7. SetQueue(c, m) /\ (a \notin R => m.next[a] = NULL)
      BY <1>3, <2>6
    <2>8. Lined' /\ AlarmsOn(c)' = R /\ \A d \in Counter \ {c} : AlarmsOn(d)' = AlarmsOn(d)
      BY <1>2, <1>3, <2>2, <2>3, <2>4, <2>5, <2>7, OneQueueMoves
    <2> QED BY <1>3, <1>7, <2>6, <2>8
  <1> QED BY <1>6, <1>7

(* A turn of the loop of eos_trigger_counter (timer.c:75-89): the alarm at *)
(* the head is taken off; it has the least timeout.                        *)
LEMMA FireMoves ==
  ASSUME OneCounter, Lined, CountersOK, NEW c \in Counter, Fire(c)
  PROVE  LET a == alarm_queue[c] IN
         /\ a \in AlarmsOn(c) /\ timeout[a] <= tick[c]
         /\ Lined' /\ AlarmsOn(c)' = AlarmsOn(c) \ {a}
         /\ \A d \in Counter \ {c} : AlarmsOn(d)' = AlarmsOn(d)
         /\ UNCHANGED <<tick, timeout>>
  <1> DEFINE a == alarm_queue[c]
             off == RemoveNode(Queue(c), a)
  <1>1. a \in Alarm /\ a # NULL /\ timeout[a] <= tick[c] /\ UNCHANGED <<tick, timeout>>
        /\ SetQueue(c, off)
    BY DEF Fire, AlarmDue, CountersOK
  <1>2. a \in AlarmsOn(c) /\ c \in CounterOf[a]
    BY <1>1 DEF Lined, RingOf, Queue
  <1>3. /\ off.next[a] = NULL /\ RingOf(off, AlarmsOn(c) \ {a})
        /\ Ascending(off, AlarmsOn(c) \ {a}, timeout)
        /\ LinksKept(Queue(c), off, Alarm, AlarmsOn(c) \cup {a})
    BY <1>1, <1>2, TakeOff
  <1>4. CountersOK' /\ AlarmsOn(c) \ {a} \in SUBSET Alarm
    BY FireType, AlarmsOnAlarms
  <1> HIDE DEF off, a
  <1>5. /\ Lined' /\ AlarmsOn(c)' = AlarmsOn(c) \ {a}
        /\ \A d \in Counter \ {c} : AlarmsOn(d)' = AlarmsOn(d)
    BY <1>1, <1>2, <1>3, <1>4, OneQueueMoves
  <1> QED BY <1>1, <1>2, <1>5 DEF a

(* When the loop ends no alarm of its counter is due. *)
LEMMA NoneDue ==
  ASSUME Lined, CountersOK, NEW c \in Counter, ~AlarmDue(c), NEW a \in AlarmsOn(c)
  PROVE  tick[c] < timeout[a]
  <1>1. RingOf(Queue(c), AlarmsOn(c)) /\ Ascending(Queue(c), AlarmsOn(c), timeout)
    BY DEF Lined
  <1>2. AlarmsOn(c) \in SUBSET Alarm /\ \A x \in Alarm : timeout[x] \in Nat
    BY AlarmsOnAlarms, CounterAssumption DEF CountersOK
  <1>3. alarm_queue[c] \in AlarmsOn(c) /\ alarm_queue[c] # NULL
    BY <1>1, <1>2, CounterAssumption DEF RingOf, Queue
  <1>4. timeout[alarm_queue[c]] <= timeout[a]
    BY <1>1, <1>2, AscendingHeadLeast DEF Queue
  <1>5. tick[c] < timeout[alarm_queue[c]]
    BY <1>2, <1>3, CounterAssumption DEF AlarmDue, CountersOK
  <1> QED BY <1>2, <1>3, <1>4, <1>5, CounterAssumption DEF CountersOK

-----------------------------------------------------------------------------
(* Where a counter is at work. *)

LEMMA FiringStep ==
  ASSUME TInv, NEW f, Step(f), NEW c, Firing(c), Top.pc = "loop" => Top.counter # c
  PROVE  Firing(c)'
  <1>1. PICK i \in 1 .. Len(cpu) : cpu[i].pc = "loop" /\ cpu[i].counter = c
    BY DEF Firing
  <1>2. i # 1
    BY <1>1 DEF Top
  <1>3. /\ Len(cpu') = Len(cpu) /\ \A k \in 2 .. Len(cpu) : cpu'[k] = cpu[k]
    <2> DEFINE r == Tail(cpu)
    <2>1. /\ r \in Seq(FrameType) /\ Len(r) = Len(cpu) - 1
          /\ \A k \in 1 .. Len(cpu) - 1 : r[k] = cpu[k + 1]
      BY CpuStack, TailFacts
    <2>2. cpu' = <<f>> \o r
      BY DEF Step
    <2> HIDE DEF r
    <2>3. /\ Len(<<f>> \o r) = Len(cpu)
          /\ \A k \in 2 .. Len(cpu) : (<<f>> \o r)[k] = r[k - 1]
      BY <2>1, CpuStack
    <2>4. \A k \in 2 .. Len(cpu) : r[k - 1] = cpu[(k - 1) + 1] /\ (k - 1) + 1 = k
      BY <2>1, CpuStack
    <2> QED BY <2>2, <2>3, <2>4
  <1>4. i \in 2 .. Len(cpu)
    BY <1>2, CpuStack
  <1> QED BY <1>1, <1>3, <1>4, CpuStack DEF Firing

LEMMA FiringPush ==
  ASSUME TInv, NEW f, Push(f), NEW c, Firing(c)
  PROVE  Firing(c)'
  <1>1. PICK i \in 1 .. Len(cpu) : cpu[i].pc = "loop" /\ cpu[i].counter = c
    BY DEF Firing
  <1>2. Len(<<f>> \o cpu) = Len(cpu) + 1 /\ (<<f>> \o cpu)[i + 1] = cpu[i]
    BY CpuStack
  <1>3. i + 1 \in 1 .. Len(cpu')
    BY <1>2, CpuStack DEF Push
  <1> QED BY <1>1, <1>2, <1>3 DEF Push, Firing

LEMMA FiringReturn ==
  ASSUME TInv, Return, Top.pc # "loop", NEW c, Firing(c)
  PROVE  Firing(c)'
  <1>1. PICK i \in 1 .. Len(cpu) : cpu[i].pc = "loop" /\ cpu[i].counter = c
    BY DEF Firing
  <1>2. i # 1
    BY <1>1 DEF Top
  <1>3. /\ Len(Tail(cpu)) = Len(cpu) - 1
        /\ \A k \in 1 .. Len(cpu) - 1 : Tail(cpu)[k] = cpu[k + 1]
    BY CpuStack, TailFacts
  <1>4. i - 1 \in 1 .. Len(cpu) - 1 /\ (i - 1) + 1 = i
    BY <1>2, CpuStack
  <1>5. Tail(cpu)[i - 1] = cpu[i]
    BY <1>3, <1>4
  <1> QED BY <1>1, <1>3, <1>4, <1>5 DEF Return, Firing

(* The end of the IRQ path, and the tasks' own code, have no loop below.   *)
LEMMA NoLoopBelow ==
  ASSUME TInv, Seals(Top), NEW c, Top.pc = "loop" => Top.counter # c
  PROVE  ~Firing(c)
  <1>1. \A j \in 1 .. Len(cpu) : 1 < j => cpu[j].pc \notin Guarded
    BY CpuStack DEF StackOK, Top
  <1>2. "loop" \in Guarded
    BY DEF Guarded, IrqLabel
  <1> SUFFICES ASSUME NEW i \in 1 .. Len(cpu), cpu[i].pc = "loop", cpu[i].counter = c
               PROVE  FALSE
    BY DEF Firing
  <1>3. i = 1
    BY <1>1, <1>2, CpuStack
  <1> QED BY <1>3 DEF Top

(* The times of the counters. *)
LEMMA Times ==
  ASSUME AInv, InWord, NEW c \in Counter
  PROVE  /\ tick[c] \in Nat /\ Limit(c) \in Nat /\ tick[c] <= Limit(c)
         /\ Top.pc = "trigger" /\ Top.counter = c =>
              /\ c \in {SysTimer, Own} /\ tick[c] < Limit(c)
              /\ (tick[c] + 1) % WORD = tick[c] + 1
         /\ MaxTick < WORD
  <1>1. /\ InitTick[c] \in Nat /\ InitTick[SysTimer] = 0 /\ MaxTick \in Nat /\ MaxOwn \in Nat
        /\ SysTimer \in Counter /\ Own \in Counter \ {SysTimer} /\ WORD \in Nat \ {0}
    BY CounterAssumption, InterruptAssumption
  <1>2. tick[c] \in Nat /\ tick[SysTimer] \in Nat /\ expiries \in 0 .. MaxTick
    BY <1>1 DEF AInv, TInv, IInv, Values, CountersOK
  <1>3. Limit(c) \in Nat /\ Limit(SysTimer) = MaxTick
    BY <1>1 DEF Limit
  <1>4. MaxTick < WORD
    BY <1>3 DEF InWord
  <1>5. tick[SysTimer] + Owed + (IF Expired THEN 1 ELSE 0) = expiries
    BY <1>4 DEF AInv, TInv, Serving, Clock
  <1>6. tick[SysTimer] + Owed <= MaxTick /\ Owed \in {0, 1}
    BY <1>1, <1>2, <1>5 DEF Owed
  <1>7. tick[c] <= Limit(c)
    BY <1>1, <1>2, <1>3, <1>6 DEF AInv, Bounded
  <1>8. ASSUME Top.pc = "trigger", Top.counter = c
        PROVE  c \in {SysTimer, Own} /\ tick[c] < Limit(c) /\ (tick[c] + 1) % WORD = tick[c] + 1
    <2>1. c \in {SysTimer, Own} /\ (c = Own => tick[c] < Limit(c))
      BY <1>8 DEF AInv, Bounded
    <2>2. c = SysTimer => tick[c] < Limit(c)
      BY <1>1, <1>2, <1>3, <1>6, <1>8 DEF Owed
    <2>3. tick[c] + 1 < WORD
      BY <1>1, <1>2, <1>3, <2>1, <2>2 DEF InWord
    <2> QED BY <1>1, <1>2, <2>1, <2>2, <2>3
  <1> QED BY <1>2, <1>3, <1>4, <1>7, <1>8

LEMMA AlarmTimes ==
  ASSUME CountersOK
  PROVE  /\ \A a \in Alarm : timeout[a] \in Nat
         /\ \A c \in Counter : tick[c] \in Nat /\ AlarmsOn(c) \in SUBSET Alarm
  BY AlarmsOnAlarms, CounterAssumption DEF CountersOK

(* The alarms that the abstract service has. *)
LEMMA ArmedIs ==
  \A s : s \in Armed <=>
    \E c \in Counter : \E a \in AlarmsOn(c) : s = [alarm |-> a, on |-> c, at |-> timeout[a]]
  BY DEF Armed, AlarmsOn

LEMMA ArmedKept ==
  ASSUME \A c \in Counter : AlarmsOn(c)' = AlarmsOn(c), UNCHANGED timeout
  PROVE  Armed' = Armed
  BY DEF Armed, AlarmsOn

(* What every step does. *)
Served == AInv' /\ (Service!Next \/ UNCHANGED <<tick, Armed>>)

LEMMA CountersStill ==
  ASSUME AInv, TInv', UNCHANGED counters,
         \A c \in Counter : Firing(c) =>
           Firing(c)' \/ \A a \in AlarmsOn(c) : tick[c] < timeout[a],
         Top'.pc \in EarlyLabel => Top.pc \in EarlyLabel,
         Top'.pc = "trigger" =>
           Top'.counter \in {SysTimer, Own} /\ (Top'.counter = Own => tick[Own] < Limit(Own))
  PROVE  Served
  <1>1. \A c : Queue(c)' = Queue(c) /\ AlarmsOn(c)' = AlarmsOn(c)
    BY DEF counters, Queue, AlarmsOn
  <1>2. UNCHANGED <<tick, alarm_queue, timeout, links>>
    BY DEF counters
  <1>3. Lined'
    BY <1>1, <1>2 DEF AInv, Lined
  <1>4. Punctual'
    <2> SUFFICES ASSUME NEW c \in Counter, NEW a \in AlarmsOn(c)
                 PROVE  tick[c] <= timeout[a] /\ (timeout[a] = tick[c] => Firing(c)')
      BY <1>1, <1>2 DEF Punctual
    <2>1. tick[c] \in Nat /\ timeout[a] \in Nat
      BY AlarmTimes DEF AInv, TInv, IInv, Values
    <2> QED BY <2>1 DEF AInv, Punctual
  <1>5. Bounded' /\ NoneSet'
    BY <1>2 DEF AInv, Bounded, NoneSet, Limit
  <1>6. Armed' = Armed
    BY <1>1, <1>2, ArmedKept
  <1> QED BY <1>2, <1>3, <1>4, <1>5, <1>6 DEF AInv, Served

LEMMA ServedStep ==
  ASSUME AInv, TInv', UNCHANGED counters, NEW f, Step(f), Top.pc # "loop",
         f.pc \in EarlyLabel => Top.pc \in EarlyLabel,
         f.pc = "trigger" =>
           f.counter \in {SysTimer, Own} /\ (f.counter = Own => tick[Own] < Limit(Own))
  PROVE  Served
  <1>1. Top' = f
    BY DEF Step, Top
  <1>2. \A c : Firing(c) => Firing(c)'
    BY FiringStep DEF AInv
  <1> QED BY <1>1, <1>2, CountersStill

LEMMA ServedGoto ==
  ASSUME AInv, TInv', UNCHANGED counters, NEW l, Goto(l), Top.pc # "loop", l # "trigger",
         l \in EarlyLabel => Top.pc \in EarlyLabel
  PROVE  Served
  <1> DEFINE f == [Top EXCEPT !.pc = l]
  <1>1. Step(f) /\ f.pc = l
    BY CpuStack DEF AInv, Goto, Top, FrameType
  <1> HIDE DEF f
  <1> QED BY <1>1, ServedStep

LEMMA ServedPush ==
  ASSUME AInv, TInv', UNCHANGED counters, NEW f, Push(f), f.pc \notin EarlyLabel \cup {"trigger"}
  PROVE  Served
  <1>1. Top' = f
    BY DEF Push, Top
  <1>2. \A c : Firing(c) => Firing(c)'
    BY FiringPush DEF AInv
  <1> QED BY <1>1, <1>2, CountersStill

LEMMA ServedReturn ==
  ASSUME AInv, TInv', UNCHANGED counters, Return, Top.pc \notin BottomLabel, Top.pc # "loop"
  PROVE  Served
  <1>1. Top'.pc \notin LeafLabel
    BY LeafReturn DEF AInv
  <1>2. \A c : Firing(c) => Firing(c)'
    BY FiringReturn DEF AInv
  <1> QED BY <1>1, <1>2, CountersStill DEF LeafLabel

LEMMA ServedCpu ==
  ASSUME AInv, TInv', UNCHANGED <<cpu, counters>>
  PROVE  Served
  <1>1. Top' = Top /\ \A c : Firing(c)' = Firing(c)
    BY DEF Top, Firing
  <1> QED BY <1>1, CountersStill DEF AInv, Bounded

(* The CPU leaves a stack at whose top nothing is guarded below.           *)
LEMMA ServedSwitch ==
  ASSUME AInv, TInv', UNCHANGED counters, Seals(Top), Top.pc # "loop",
         Top'.pc \notin EarlyLabel \cup {"trigger"}
  PROVE  Served
  <1>1. \A c : ~Firing(c)
    BY NoLoopBelow DEF AInv
  <1> QED BY <1>1, CountersStill

LEMMA ServedTask ==
  ASSUME AInv, TInv', UNCHANGED counters, Top.pc \in {"first", "resched", "task", "device"},
         NEW t \in Task, SwitchTo(t)
  PROVE  Served
  <1>1. ContextOK(ctx[t])
    BY DEF SwitchTo, AInv, TInv, IInv, Contexts
  <1>2. cpu' = ctx[t].stack /\ StackOK(cpu') /\ ~Protected(cpu')
    BY <1>1 DEF SwitchTo, ContextOK
  <1>3. Top'.pc \notin LeafLabel
    BY <1>2, PlainIsLeafless DEF Top
  <1>4. Seals(Top) /\ Top.pc # "loop"
    BY DEF Seals, SealLabel, PathLabel, IrqLabel
  <1> QED BY <1>3, <1>4, ServedSwitch DEF LeafLabel

-----------------------------------------------------------------------------
(* One lemma per action or kind of action: it is one of AlarmService.      *)

LEMMA BootServed ==
  ASSUME AInv, TInv', InWord, Boot \/ UserMainEnds
  PROVE  Served
  <1>1. CASE GicInit
    BY <1>1, ServedGoto DEF GicInit, At, EarlyLabel
  <1>2. CASE InitHal
    BY <1>2, ServedGoto DEF InitHal, At, EarlyLabel
  <1>3. CASE InitIcbTable
    BY <1>3, ServedGoto DEF InitIcbTable, At, EarlyLabel
  <1>4. CASE InitTimer
    <2>1. Top.pc = "init_timer" /\ Top.pc \in EarlyLabel
      BY <1>4 DEF InitTimer, At, EarlyLabel
    <2>2. SysTimer \in Counter /\ InitTick[SysTimer] = 0
      BY InterruptAssumption
    <2>3. tick[SysTimer] = 0 /\ alarm_queue[SysTimer] = NULL
      BY <2>1, <2>2, Times DEF AInv, NoneSet, TInv, Serving, Clock
    <2>4. DOMAIN tick = Counter /\ DOMAIN alarm_queue = Counter
          /\ tick \in [Counter -> 0 .. WORD - 1]
          /\ alarm_queue \in [Counter -> Alarm \cup {NULL}]
      BY DEF AInv, TInv, IInv, Values, CountersOK
    <2>5. tick' = tick /\ alarm_queue' = alarm_queue
      BY <1>4, <2>2, <2>3, <2>4 DEF InitTimer, InitCounter
    <2>6. UNCHANGED counters
      BY <1>4, <2>5 DEF InitTimer, InitCounter, counters
    <2> QED BY <1>4, <2>1, <2>6, ServedGoto DEF InitTimer, EarlyLabel
  <1>5. CASE CreateIdle
    BY <1>5, ServedGoto DEF CreateIdle, At, EarlyLabel
  <1>6. CASE UserMainEnds
    BY <1>6, ServedGoto DEF UserMainEnds, At, EarlyLabel
  <1>7. CASE Start
    BY <1>7, ServedGoto DEF Start, At, EarlyLabel
  <1>8. CASE FirstSchedule
    BY <1>8, ServedTask DEF FirstSchedule, At
  <1> QED BY <1>1, <1>2, <1>3, <1>4, <1>5, <1>6, <1>7, <1>8 DEF Boot

LEMMA HardwareServed ==
  ASSUME AInv, TInv', TimePasses \/ Raise \/ TakeInterrupt
  PROVE  Served
  <1>1. CASE TimePasses \/ Raise
    BY <1>1, ServedCpu DEF TimePasses, Raise, machine
  <1>2. CASE TakeInterrupt
    BY <1>2, ServedPush DEF TakeInterrupt, Frame, EarlyLabel
  <1> QED BY <1>1, <1>2

LEMMA PathServed ==
  ASSUME AInv, TInv', GetIrq \/ AckIrq \/ Dispatch \/ Rearm \/ RescheduleStays \/ RescheduleSwitches
  PROVE  Served
  <1>0. Top \in FrameType
    BY TopFrame DEF AInv, TInv
  <1>1. CASE GetIrq
    <2>1. PICK i : Step([Top EXCEPT !.pc = "ack_irq", !.irq = i])
      BY <1>1 DEF GetIrq
    <2> DEFINE f == [Top EXCEPT !.pc = "ack_irq", !.irq = i]
    <2>2. f.pc = "ack_irq"
      BY <1>0 DEF FrameType
    <2> HIDE DEF f
    <2> QED BY <1>1, <2>1, <2>2, ServedStep DEF GetIrq, At, EarlyLabel, f
  <1>2. CASE AckIrq
    BY <1>2, ServedGoto DEF AckIrq, At, EarlyLabel
  <1>3. CASE Dispatch
    <2>1. PICK l \in {"rearm", "device", "eret"} : Goto(l)
      BY <1>3 DEF Dispatch
    <2> QED BY <1>3, <2>1, ServedGoto DEF Dispatch, At, EarlyLabel
  <1>4. CASE Rearm
    <2> DEFINE f == [Top EXCEPT !.pc = "trigger", !.counter = SysTimer]
    <2>1. f.pc = "trigger" /\ f.counter = SysTimer /\ SysTimer # Own
      BY <1>0, InterruptAssumption DEF FrameType
    <2>2. Step(f) /\ Top.pc = "rearm" /\ UNCHANGED counters
      BY <1>4 DEF Rearm, At
    <2> HIDE DEF f
    <2> QED BY <2>1, <2>2, ServedStep DEF EarlyLabel
  <1>5. CASE RescheduleStays
    BY <1>5, ServedGoto DEF RescheduleStays, At, EarlyLabel
  <1>6. CASE RescheduleSwitches
    BY <1>6, ServedTask DEF RescheduleSwitches, At
  <1> QED BY <1>1, <1>2, <1>3, <1>4, <1>5, <1>6

(* No alarm is due when the loop ends. *)
LEMMA LoopEndsServed ==
  ASSUME AInv, TInv', LoopEnds
  PROVE  Served
  <1>1. Top.pc = "loop" /\ Goto("resched") /\ UNCHANGED counters /\ ~AlarmDue(Top.counter)
    BY DEF LoopEnds, At
  <1>2. Top \in FrameType /\ Top.counter \in Counter
    BY <1>1, TopFrame DEF AInv, TInv, FrameOK
  <1>3. Top'.pc = "resched"
    BY <1>1, <1>2 DEF Goto, Step, Top, FrameType
  <1>4. ASSUME NEW c \in Counter, Firing(c), NEW a \in AlarmsOn(c)
        PROVE  tick[c] < timeout[a]
    <2>1. Seals(Top)
      BY <1>1 DEF Seals, SealLabel, PathLabel, IrqLabel
    <2>2. c = Top.counter
      BY <1>4, <2>1, NoLoopBelow DEF AInv
    <2> QED BY <1>1, <2>2, NoneDue DEF AInv, TInv, IInv, Values
  <1> QED BY <1>1, <1>3, <1>4, CountersStill DEF EarlyLabel

LEMMA EretServed ==
  ASSUME AInv, TInv', Eret
  PROVE  Served
  <1>1. Top.pc = "eret" /\ UNCHANGED counters
    BY DEF Eret, At
  <1>2. Seals(Top) /\ Top.pc \notin BottomLabel
    BY <1>1 DEF Seals, SealLabel, PathLabel, IrqLabel, BottomLabel, BootLabel
  <1>3. Top'.pc \notin LeafLabel
    <2>1. PICK c \in {Interrupted} \cup IF AnyX0 THEN Anything ELSE {} : cpu' = c.stack
      BY DEF Eret
    <2>2. CASE c = Interrupted
      <3>1. Return
        BY <2>1, <2>2 DEF Interrupted, Return
      <3> QED BY <1>2, <3>1, LeafReturn DEF AInv
    <2>3. CASE c \in Anything
      <3>1. cpu' = <<Frame("lost")>>
        BY <2>1, <2>3 DEF Anything
      <3> QED BY <3>1 DEF Top, Frame, LeafLabel, EarlyLabel
    <2> QED BY <2>1, <2>2, <2>3
  <1> QED BY <1>1, <1>2, <1>3, ServedSwitch DEF LeafLabel

LEMMA AppServed ==
  ASSUME AInv, TInv', InWord, "callback" \notin SwitchAt,
         Compute \/ CallbackEnds \/ DeviceEnds \/ CreateTask \/ AppSwitches \/ StartDevice
           \/ StopDevice \/ EnterSection \/ LeaveSection \/ LockSync \/ SpinLock \/ UnlockSync
  PROVE  Served
  <1>0. Top \in FrameType
    BY TopFrame DEF AInv, TInv
  <1>1. CASE Compute
    BY <1>1, ServedCpu DEF Compute, vars, machine
  <1>2. CASE CallbackEnds
    BY <1>2, ServedReturn, Labels DEF CallbackEnds, At
  <1>3. CASE DeviceEnds
    <2>1. Top.pc = "device" /\ UNCHANGED counters
      BY <1>3 DEF DeviceEnds, At
    <2>2. ASSUME Goto("eret") PROVE Served
      BY <2>1, <2>2, ServedGoto DEF EarlyLabel
    <2>3. ASSUME tick[Own] # (InitTick[Own] + MaxOwn) % WORD,
                 Step([Top EXCEPT !.pc = "trigger", !.counter = Own])
          PROVE  Served
      <3> DEFINE f == [Top EXCEPT !.pc = "trigger", !.counter = Own]
      <3>1. f.pc = "trigger" /\ f.counter = Own /\ Step(f)
        BY <1>0, <2>3 DEF FrameType
      <3>2. tick[Own] < Limit(Own)
        <4>1. Own \in Counter /\ Own # SysTimer
          BY InterruptAssumption
        <4>2. Limit(Own) = InitTick[Own] + MaxOwn
          BY <4>1 DEF Limit
        <4>3. Limit(Own) \in Nat /\ tick[Own] \in Nat /\ tick[Own] <= Limit(Own)
          BY <4>1, Times
        <4>4. Limit(Own) < WORD
          BY DEF InWord
        <4>5. Limit(Own) % WORD = Limit(Own)
          BY <4>3, <4>4, CounterAssumption
        <4> QED BY <2>3, <4>2, <4>3, <4>5
      <3> HIDE DEF f
      <3> QED BY <2>1, <3>1, <3>2, ServedStep DEF EarlyLabel
    <2> QED BY <1>3, <2>2, <2>3 DEF DeviceEnds
  <1>4. CASE CreateTask
    BY <1>4, ServedCpu DEF CreateTask
  <1>5. CASE AppSwitches
    <2>1. Top.pc \in {"task", "device"} /\ UNCHANGED counters
      BY <1>5, InterruptAssumption DEF AppSwitches
    <2> QED BY <1>5, <2>1, ServedTask DEF AppSwitches
  <1>6. CASE StartDevice \/ StopDevice
    BY <1>6, ServedCpu DEF StartDevice, StopDevice, machine
  <1>7. CASE EnterSection
    <2> DEFINE f == [Frame("section") EXCEPT !.flag = mask]
    <2>1. f.pc = "section" /\ Push(f) /\ UNCHANGED counters
      BY <1>7 DEF EnterSection, Frame
    <2> HIDE DEF f
    <2> QED BY <2>1, ServedPush DEF EarlyLabel
  <1>8. CASE LeaveSection
    <2>1. Top.pc = "section" /\ Return /\ UNCHANGED counters
      BY <1>8 DEF LeaveSection, At
    <2> QED BY <2>1, ServedReturn DEF BottomLabel, BootLabel
  <1>9. CASE LockSync
    <2> DEFINE f == [Frame("spin") EXCEPT !.flag = mask]
    <2>1. f.pc = "spin" /\ Push(f) /\ UNCHANGED counters
      BY <1>9 DEF LockSync, Frame
    <2> HIDE DEF f
    <2> QED BY <2>1, ServedPush DEF EarlyLabel
  <1>10. CASE SpinLock
    BY <1>10, ServedGoto DEF SpinLock, At, EarlyLabel
  <1>11. CASE UnlockSync
    <2>1. CASE At("locked") /\ SpinUnlock /\ Goto("unlocked") /\ UNCHANGED mask
      BY <1>11, <2>1, ServedGoto DEF UnlockSync, At, EarlyLabel
    <2>2. CASE At("unlocked") /\ HalRestore(Top.flag) /\ Return /\ UNCHANGED spinlock
      <3>1. Top.pc = "unlocked" /\ Return /\ UNCHANGED counters
        BY <1>11, <2>2 DEF UnlockSync, At
      <3> QED BY <3>1, ServedReturn DEF BottomLabel, BootLabel
    <2> QED BY <1>11, <2>1, <2>2 DEF UnlockSync
  <1> QED BY <1>1, <1>2, <1>3, <1>4, <1>5, <1>6, <1>7, <1>8, <1>9, <1>10, <1>11

(* eos_set_alarm: an alarm is set, or taken back. *)
LEMMA AppSetAlarmServed ==
  ASSUME AInv, TInv', InWord, OneCounter, IsFiniteSet(Alarm), AppSetAlarm
  PROVE  Served
  <1>0. PICK a \in Alarm : \E c \in CounterOf[a], n \in Timeouts[a] : SetAlarm(c, a, n)
    BY DEF AppSetAlarm
  <1>1. PICK c \in CounterOf[a], n \in Timeouts[a] : SetAlarm(c, a, n)
    BY <1>0
  <1>2. c \in Counter /\ n \in Nat /\ CountersOK /\ CountersOK' /\ Lined
    BY CounterAssumption, InterruptAssumption DEF AInv, TInv, IInv, Values
  <1>3. /\ Lined' /\ AlarmsOn(c)' = (AlarmsOn(c) \ {a}) \cup IF n = 0 THEN {} ELSE {a}
        /\ \A d \in Counter \ {c} : AlarmsOn(d)' = AlarmsOn(d)
        /\ \A x \in Alarm \ {a} : timeout'[x] = timeout[x]
        /\ n # 0 => timeout'[a] = (tick[c] + n) % WORD
        /\ tick' = tick
    BY <1>1, <1>2, SetAlarmMoves
  <1>4. n # 0 => timeout'[a] = tick[c] + n
    <2>0. Limit(c) + n < WORD
      BY DEF InWord
    <2>1. tick[c] + n < WORD /\ tick[c] \in Nat
      <3>1. tick[c] \in Nat /\ Limit(c) \in Nat /\ tick[c] <= Limit(c)
        BY <1>2, Times
      <3> QED BY <1>2, <2>0, <3>1, CounterAssumption
    <2>2. (tick[c] + n) % WORD = tick[c] + n
      BY <1>2, <2>1, Times, CounterAssumption
    <2> QED BY <1>3, <2>2
  <1>5. Top' = Top /\ \A d : Firing(d)' = Firing(d)
    BY DEF AppSetAlarm, machine, Top, Firing
  <1>6. \A d \in Counter : \A x \in AlarmsOn(d) : x \in Alarm /\ (d # c => x # a)
    BY <1>2, AlarmTimes, OnlyOn
  <1>7. Punctual'
    <2> SUFFICES ASSUME NEW d \in Counter, NEW x \in AlarmsOn(d)'
                 PROVE  tick[d] <= timeout'[x] /\ (timeout'[x] = tick[d] => Firing(d))
      BY <1>3, <1>5 DEF Punctual
    <2>1. CASE d = c /\ x = a
      <3>1. n # 0
        BY <1>3, <2>1
      <3> QED BY <1>2, <1>4, <2>1, <3>1, AlarmTimes
    <2>2. CASE ~(d = c /\ x = a)
      <3>1. x \in AlarmsOn(d) /\ x # a
        BY <1>3, <1>6, <2>2
      <3> QED BY <1>3, <1>6, <3>1 DEF AInv, Punctual
    <2> QED BY <2>1, <2>2
  <1>8. Bounded'
    BY <1>3, <1>5 DEF AInv, Bounded, Limit
  <1>9. NoneSet'
    BY <1>5 DEF AppSetAlarm, InApp, AppLabel, NoneSet, EarlyLabel
  <1>10. AInv'
    BY <1>3, <1>7, <1>8, <1>9 DEF AInv
  <1> DEFINE s == [alarm |-> a, on |-> c, at |-> tick[c] + n]
  <1>11. Service!Others(a) = {r \in Armed : r.alarm # a}
    BY DEF Service!Others
  <1>12. \A r : r \in Armed' <=> r \in {q \in Armed : q.alarm # a} \/ (n # 0 /\ r = s)
    <2> TAKE r
    <2>1. ASSUME NEW d \in Counter, NEW x \in AlarmsOn(d)',
                 r = [alarm |-> x, on |-> d, at |-> timeout'[x]]
          PROVE  r \in {q \in Armed : q.alarm # a} \/ (n # 0 /\ r = s)
      <3>1. CASE d = c /\ x = a
        BY <1>3, <1>4, <2>1, <3>1
      <3>2. CASE ~(d = c /\ x = a)
        <4>1. x \in AlarmsOn(d) /\ x # a /\ timeout'[x] = timeout[x]
          BY <1>3, <1>6, <3>2
        <4> QED BY <2>1, <4>1, ArmedIs
      <3> QED BY <3>1, <3>2
    <2>2. ASSUME NEW d \in Counter, NEW x \in AlarmsOn(d), x # a,
                 r = [alarm |-> x, on |-> d, at |-> timeout[x]]
          PROVE  r \in Armed'
      <3>1. x \in AlarmsOn(d)' /\ timeout'[x] = timeout[x]
        BY <1>3, <1>6, <2>2
      <3> QED BY <2>2, <3>1 DEF Armed, AlarmsOn
    <2>3. n # 0 => s \in Armed'
      <3> SUFFICES ASSUME n # 0 PROVE s \in Armed'
        OBVIOUS
      <3>1. a \in AlarmsOn(c)' /\ s = [alarm |-> a, on |-> c, at |-> timeout'[a]]
        BY <1>3, <1>4
      <3> HIDE DEF s
      <3> QED BY <1>2, <3>1 DEF Armed, AlarmsOn
    <2>4. r \in Armed' => \E d \in Counter : \E x \in AlarmsOn(d)' :
                             r = [alarm |-> x, on |-> d, at |-> timeout'[x]]
      BY DEF Armed, AlarmsOn
    <2>5. r \in Armed => \E d \in Counter : \E x \in AlarmsOn(d) :
                             r = [alarm |-> x, on |-> d, at |-> timeout[x]]
      BY ArmedIs
    <2> QED BY <2>1, <2>2, <2>3, <2>4, <2>5
  <1>13. CASE n = 0
    <2>1. Armed' = Service!Others(a)
      BY <1>11, <1>12, <1>13
    <2> QED BY <1>3, <1>10, <2>1 DEF Served, Service!Next, Service!Cancel
  <1>14. CASE n # 0
    <2>1. Armed' = Service!Others(a) \cup {s}
      BY <1>11, <1>12, <1>14
    <2>2. n \in (UNION {Timeouts[x] : x \in Alarm}) \ {0}
      BY <1>14
    <2>3. \E k \in (UNION {Timeouts[x] : x \in Alarm}) \ {0} :
            Armed' = Service!Others(a) \cup {[alarm |-> a, on |-> c, at |-> tick[c] + k]}
      BY <2>1, <2>2
    <2>4. Service!Set(c, a)
      BY <1>3, <2>3 DEF Service!Set
    <2> QED BY <1>2, <1>10, <2>4 DEF Served, Service!Next
  <1> QED BY <1>13, <1>14

(* The alarm that fires is due at this very tick. *)
LEMMA FireAlarmServed ==
  ASSUME AInv, TInv', OneCounter, FireAlarm
  PROVE  Served
  <1>0. PICK c, a : c = Top.counter /\ a = alarm_queue[c]
    OBVIOUS
  <1> DEFINE s == [alarm |-> a, on |-> c, at |-> timeout[a]]
  <1>1. Top.pc = "loop" /\ Fire(c) /\ Push(Frame("callback"))
    BY <1>0 DEF FireAlarm, At
  <1>2. c \in Counter /\ CountersOK /\ Lined
    BY <1>0, <1>1, TopFrame DEF AInv, TInv, IInv, Values, FrameOK
  <1>3. /\ a \in AlarmsOn(c) /\ timeout[a] <= tick[c]
        /\ Lined' /\ AlarmsOn(c)' = AlarmsOn(c) \ {a}
        /\ \A d \in Counter \ {c} : AlarmsOn(d)' = AlarmsOn(d)
        /\ UNCHANGED <<tick, timeout>>
    BY <1>0, <1>1, <1>2, FireMoves
  <1>4. Top' = Frame("callback") /\ \A d : Firing(d) => Firing(d)'
    BY <1>1, FiringPush DEF AInv, Push, Top
  <1>5. Top'.pc = "callback"
    BY <1>4 DEF Frame
  <1>6. timeout[a] = tick[c]
    BY <1>2, <1>3, AlarmTimes DEF AInv, Punctual
  <1>7. \A d \in Counter : AlarmsOn(d)' \subseteq AlarmsOn(d)
    BY <1>3
  <1>8. Punctual'
    BY <1>3, <1>4, <1>7 DEF AInv, Punctual
  <1>9. Bounded' /\ NoneSet'
    BY <1>3, <1>5 DEF AInv, Bounded, Limit, NoneSet, EarlyLabel
  <1>10. AInv'
    BY <1>3, <1>8, <1>9 DEF AInv
  <1>11. \A d \in Counter \ {c} : a \notin AlarmsOn(d)
    <2>1. a \in Alarm /\ c \in CounterOf[a]
      BY <1>2, <1>3, AlarmTimes DEF Lined
    <2> QED BY <1>2, <2>1, OnlyOn
  <1>12. s \in Armed
    BY <1>2, <1>3, ArmedIs
  <1>13. Armed' = Armed \ {s}
    <2>1. ASSUME NEW r
          PROVE  r \in Armed' <=> \E d \in Counter : \E x \in AlarmsOn(d)' :
                                     r = [alarm |-> x, on |-> d, at |-> timeout[x]]
      BY <1>3 DEF Armed, AlarmsOn
    <2>2. ASSUME NEW d \in Counter, NEW x
          PROVE  x \in AlarmsOn(d)' <=> x \in AlarmsOn(d) /\ ~(d = c /\ x = a)
      BY <1>3
    <2>3. ASSUME NEW d, NEW x
          PROVE  [alarm |-> x, on |-> d, at |-> timeout[x]] = s <=> d = c /\ x = a
      OBVIOUS
    <2> HIDE DEF s
    <2> QED BY <2>1, <2>2, <2>3, ArmedIs
  <1>14. Service!Fire(s)
    BY <1>3, <1>6, <1>13 DEF Service!Fire
  <1> QED BY <1>10, <1>12, <1>14 DEF Served, Service!Next

(* The time of a counter does not move past an alarm. *)
LEMMA TriggerCounterServed ==
  ASSUME AInv, TInv', InWord, TriggerCounter
  PROVE  Served
  <1>0. PICK c : c = Top.counter
    OBVIOUS
  <1> DEFINE f == [Top EXCEPT !.pc = "loop"]
  <1>1. Top.pc = "trigger" /\ Advance(c) /\ Step(f)
    BY <1>0 DEF TriggerCounter, At, Goto
  <1>2. c \in Counter /\ CountersOK /\ Top \in FrameType
    BY <1>0, <1>1, TopFrame DEF AInv, TInv, IInv, Values, FrameOK
  <1>3. Top' = f /\ f.pc = "loop" /\ f.counter = c
    BY <1>0, <1>1, <1>2 DEF Step, Top, FrameType
  <1> HIDE DEF f
  <1>4. Firing(c)'
    <2>1. StackOK(cpu)'
      BY CpuStack DEF AInv, TInv, IInv, Executing
    <2>2. 1 \in 1 .. Len(cpu')
      BY <2>1 DEF StackOK
    <2> QED BY <1>3, <2>2 DEF Firing, Top
  <1>5. /\ \A d \in Counter : tick'[d] = IF d = c THEN tick[c] + 1 ELSE tick[d]
        /\ tick' = [tick EXCEPT ![c] = tick[c] + 1]
        /\ c \in {SysTimer, Own} /\ tick[c] < Limit(c)
    <2>1. (tick[c] + 1) % WORD = tick[c] + 1 /\ c \in {SysTimer, Own} /\ tick[c] < Limit(c)
      BY <1>0, <1>1, <1>2, Times
    <2>2. tick' = [tick EXCEPT ![c] = (tick[c] + 1) % WORD] /\ DOMAIN tick = Counter
      BY <1>1, <1>2 DEF Advance, CountersOK
    <2> QED BY <2>1, <2>2
  <1>6. \A d \in Counter : ~Firing(d)
    <2>1. Seals(Top)
      BY <1>1 DEF Seals, SealLabel, PathLabel, IrqLabel
    <2> QED BY <1>1, <2>1, NoLoopBelow DEF AInv
  <1>7. \A d \in Counter : \A a \in AlarmsOn(d) : tick[d] < timeout[a]
    BY <1>2, <1>6, AlarmTimes DEF AInv, Punctual
  <1>8. /\ UNCHANGED <<alarm_queue, timeout, links>>
        /\ \A d : Queue(d)' = Queue(d) /\ AlarmsOn(d)' = AlarmsOn(d)
    BY <1>1 DEF Advance, Queue, AlarmsOn
  <1>9. Lined'
    BY <1>8 DEF AInv, Lined
  <1>10. Punctual'
    <2> SUFFICES ASSUME NEW d \in Counter, NEW a \in AlarmsOn(d)
                 PROVE  tick'[d] <= timeout[a] /\ (timeout[a] = tick'[d] => Firing(d)')
      BY <1>8 DEF Punctual
    <2>1. tick[d] \in Nat /\ timeout[a] \in Nat /\ tick[d] < timeout[a]
      BY <1>2, <1>7, AlarmTimes
    <2> QED BY <1>4, <1>5, <2>1
  <1>11. Bounded' /\ NoneSet'
    <2>1. \A d \in Counter : tick[d] \in Nat /\ Limit(d) \in Nat
      BY Times
    <2>2. \A d \in Counter \ {SysTimer} : tick'[d] <= Limit(d)
      BY <1>2, <1>5, <2>1 DEF AInv, Bounded
    <2>3. \A d : Limit(d)' = Limit(d)
      BY DEF Limit
    <2> QED BY <1>3, <2>2, <2>3 DEF Bounded, NoneSet, EarlyLabel
  <1>12. Armed' = Armed
    BY <1>8, ArmedKept
  <1>13. Service!Advance(c)
    <2>1. ~\E s \in Armed : s.on = c /\ s.at = tick[c]
      <3> SUFFICES ASSUME NEW s \in Armed, s.on = c, s.at = tick[c] PROVE FALSE
        OBVIOUS
      <3>0. PICK d \in Counter :
              \E a \in AlarmsOn(d) : s = [alarm |-> a, on |-> d, at |-> timeout[a]]
        BY ArmedIs
      <3>1. PICK a \in AlarmsOn(d) : s = [alarm |-> a, on |-> d, at |-> timeout[a]]
        BY <3>0
      <3> QED BY <1>2, <1>7, <3>1, AlarmTimes
    <2> QED BY <1>5, <1>12, <2>1 DEF Service!Advance
  <1> QED BY <1>2, <1>9, <1>10, <1>11, <1>13 DEF AInv, Served, Service!Next

LEMMA InitServed == Init => AInv /\ Service!Init
  <1> SUFFICES ASSUME Init PROVE AInv /\ Service!Init
    OBVIOUS
  <1>1. TInv /\ CountersOK
    BY InitServes DEF TInv, IInv, Values
  <1>2. /\ Top.pc = "gic_init" /\ tick = InitTick
        /\ \A c \in Counter : alarm_queue[c] = NULL
        /\ \A a \in Alarm : links.next[a] = NULL
    BY DEF Init, CountersInit, Top, Frame
  <1>3. \A c \in Counter : AlarmsOn(c) = {}
    BY <1>2 DEF AlarmsOn, Members, Queue
  <1>4. Lined
    BY <1>2, <1>3 DEF Lined, RingOf, Ascending, Queue
  <1>5. \A c \in Counter : tick[c] \in Nat /\ tick[c] <= Limit(c)
    BY <1>2, CounterAssumption, InterruptAssumption DEF Limit
  <1>6. Armed = {}
    BY <1>3, ArmedIs
  <1>7. tick \in [Counter -> Nat]
    BY <1>2, CounterAssumption
  <1> QED BY <1>1, <1>2, <1>3, <1>4, <1>5, <1>6, <1>7
      DEF AInv, Punctual, Bounded, NoneSet, Service!Init

LEMMA StepServed ==
  ASSUME OneCounter, InWord, IsFiniteSet(Alarm), "callback" \notin SwitchAt,
         AInv, [Next]_vars
  PROVE  Served
  <1>1. TInv'
    BY StepServes DEF AInv
  <1>2. CASE UNCHANGED vars
    BY <1>1, <1>2, ServedCpu DEF vars, machine
  <1>3. CASE Boot \/ UserMainEnds
    BY <1>1, <1>3, BootServed
  <1>4. CASE TimePasses \/ Raise \/ TakeInterrupt
    BY <1>1, <1>4, HardwareServed
  <1>5. CASE IrqPath
    BY <1>1, <1>5, PathServed, LoopEndsServed, EretServed, FireAlarmServed,
       TriggerCounterServed DEF IrqPath
  <1>6. CASE App /\ ~UserMainEnds
    BY <1>1, <1>6, AppServed, AppSetAlarmServed DEF App, AppReturns
  <1> QED BY <1>2, <1>3, <1>4, <1>5, <1>6 DEF Next

(* Each alarm fires at the tick it was last set for, once, and not after   *)
(* it was taken back, whatever the handlers set in between, and in         *)
(* whatever order the timer and the devices interrupt (timer.c:28-92).     *)
(* For that each alarm is used with one counter, no handler of an alarm    *)
(* switches to a task, and the counters do not reach WORD.                 *)
THEOREM AlarmsImplemented ==
  ASSUME OneCounter, InWord, IsFiniteSet(Alarm), "callback" \notin SwitchAt
  PROVE  Spec => ImplementsAlarms
  <1>1. AInv /\ [Next]_vars => AInv' /\ [Service!Next]_<<tick, Armed>>
    BY StepServed DEF Served
  <1> QED BY <1>1, InitServed, PTL DEF Spec, ImplementsAlarms, Service!Spec
=============================================================================
