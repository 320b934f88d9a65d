------------------------- MODULE MessageQueueProofs -------------------------
(***************************************************************************)
(* The tokens of the message queues, for any tasks, queues, sizes and      *)
(* timeouts, wherever the tick interrupts them: the two semaphores of a    *)
(* queue count its free slots and its messages, whatever calls fail.       *)
(*                                                                         *)
(* The argument: a task is in at most one call of core/comm.c, whose frame *)
(* is right above the task's code, on the CPU or in the task's context,    *)
(* and all else on the stack is the kernel's or the acquire for that call. *)
(* So a step that is not part of these calls leaves their frames alone,    *)
(* and one that is changes the frame of the current task's call together   *)
(* with the count or the ring.                                             *)
(*                                                                         *)
(* And each queue is the channel of module Channel: the copy of a message  *)
(* runs with the scheduler locked, so at most one call is in the rings     *)
(* (Sections) and it is on the CPU; behind the slot of the oldest message  *)
(* lie as many messages as the semaphores account for, and front and rear  *)
(* are at the two ends, but for the one that copy has moved (RingSound).   *)
(***************************************************************************)
EXTENDS MessageQueue, SemaphoreProofs, FiniteSetTheorems

(* The labels of the calls that are right above a task's code, and those   *)
(* of the kernel's other calls.                                            *)
OuterLabel == MqLabel \cup {"release", "rel_chk", "create"}
Silent == CallLabel \ {"create"}

(* The frame of no call. *)
NoCall == Frame("user")

(* What a frame of these calls holds: the side of the ring it acquires,    *)
(* the result of that, and the message to send.                            *)
Proper(f) ==
  /\ f.pc \in {"send_got", "send_idx", "send_copy", "send_rel"} =>
       \E m \in Mq : f.queue = putsem(m)
  /\ f.pc \in {"recv_got", "recv_idx", "recv_copy", "recv_rel"} =>
       \E m \in Mq : f.queue = getsem(m)
  /\ f.pc \in {"send_got", "recv_got"} => f.num \in {0, 1}
  /\ f.pc \in {"send_got", "send_idx", "send_copy"} => f.abs \in Msg

(* g is the acquire for the call f. *)
Acquires(g, f) ==
  /\ f.pc \in {"send_got", "recv_got"} /\ f.num = 0
  /\ g.pc \in AcquireLabel /\ g.queue = f.queue

(* The stacks of a task t that is in the call c.                           *)
MqStack(t, c) ==
  {s \in Belongs(t) :
     /\ c.pc \in OuterLabel =>
          /\ Len(s) > 1 /\ s[Len(s) - 1] = c /\ Proper(c)
          /\ \A i \in 1 .. Len(s) - 2 :
               s[i].pc \in Silent \/ (i = Len(s) - 2 /\ Acquires(s[i], c))
     /\ c.pc \notin OuterLabel => \A i \in 1 .. Len(s) - 1 : s[i].pc \in Silent}

MqStacks(calls) == [t \in Task |-> MqStack(t, calls[t])]

(* Each task is in its call; a task that is being created by one has no    *)
(* context yet and is being created by no other.                           *)
Fleet(calls) ==
  /\ StacksIn(MqStacks(calls))
  /\ \A t \in Task : calls[t].pc \in OuterLabel => t \in HasContext /\ current # NULL
  /\ \A t \in Task : calls[t].pc = "create" =>
       /\ calls[t].task \notin HasContext
       /\ \A u \in Task \ {t} : calls[u].pc = "create" => calls[u].task # calls[t].task

(* The tasks whose call has a token of q, and what q counts.               *)
Holders(calls, q) == {t \in Task : HasToken(calls[t], q)}
Supply(q) == IF q[2] = "put" THEN QueueSize[q[1]] - stored[q[1]] ELSE stored[q[1]]

Balanced(calls) ==
  \A q \in WaitQueue :
    /\ count[q] >= 0 /\ IsFiniteSet(Holders(calls, q))
    /\ count[q] + Cardinality(Holders(calls, q)) = Supply(q)

Rings == front \in [Mq -> Int] /\ rear \in [Mq -> Int] /\ stored \in [Mq -> Int]

Tallied == \E calls \in [Task -> FrameType] : Fleet(calls) /\ Balanced(calls)

MqIInv == SemIInv /\ Rings /\ Tallied

-----------------------------------------------------------------------------
(* The stacks. *)

LEMMA MqLabels ==
  /\ \A l \in Silent : l \in CallLabel /\ l \notin OuterLabel \cup AcquireLabel
  /\ \A l \in CallLabel : l # "restore" /\ l \notin BottomLabel /\ l \in KernelLabel
  /\ \A l \in AcquireLabel \cup MqLabel \cup {"release", "rel_chk"} :
       l # "restore" /\ l \notin BottomLabel /\ l \notin KernelLabel
  /\ \A l \in OuterLabel : l # "restore" /\ l \notin BottomLabel /\ l \notin AcquireLabel
  /\ "create" \in OuterLabel \cap CallLabel /\ {"user", "idle"} \subseteq BottomLabel
  BY DEF Silent, OuterLabel, AcquireLabel, CallLabel, BottomLabel, KernelLabel, MqLabel

(* Only the calls of this module have tokens.                              *)
LEMMA TokenLabels ==
  ASSUME NEW f, NEW q, HasToken(f, q)
  PROVE  f.pc \in MqLabel \cup {"release"} /\ f.pc \in OuterLabel /\ f.pc # "create"
  BY DEF HasToken, MqLabel, OuterLabel

LEMMA MqPush ==
  ASSUME NEW t \in Task, NEW c, NEW s \in MqStack(t, c), NEW g \in FrameType,
         \/ g.pc \in Silent
         \/ c.pc \in OuterLabel /\ Len(s) = 2 /\ Acquires(g, c)
  PROVE  <<g>> \o s \in MqStack(t, c)
  <1>1. s \in Belongs(t) /\ s \in Seq(FrameType) /\ Len(s) > 0
    BY BelongsFacts DEF MqStack
  <1>2. PICK r : r = <<g>> \o s
    OBVIOUS
  <1>3. /\ Len(r) = Len(s) + 1 /\ r[1] = g /\ Len(s) \in Nat
        /\ \A i \in 1 .. Len(r) : i # 1 => i - 1 \in 1 .. Len(s) /\ r[i] = s[i - 1]
    BY <1>1, <1>2, PushedStack
  <1>4. s[1].pc \notin CallLabel \/ g.pc \in CallLabel
    <2>1. CASE g.pc \in Silent
      BY <2>1, MqLabels
    <2>2. CASE c.pc \in OuterLabel /\ Len(s) = 2 /\ Acquires(g, c)
      <3>1. s[1] = c
        <4>1. Len(s) - 1 = 1
          BY <2>2
        <4> QED BY <2>2, <4>1 DEF MqStack
      <3>2. c.pc \in {"send_got", "recv_got"}
        BY <2>2 DEF Acquires
      <3> QED BY <3>1, <3>2 DEF CallLabel, KernelLabel
    <2> QED BY <2>1, <2>2
  <1>5. r \in Belongs(t)
    BY <1>1, <1>2, <1>4, PushBelongs, MqLabels DEF Acquires
  <1>6. ASSUME c.pc \in OuterLabel
        PROVE  /\ Len(r) > 1 /\ r[Len(r) - 1] = c /\ Proper(c)
               /\ \A i \in 1 .. Len(r) - 2 :
                    r[i].pc \in Silent \/ (i = Len(r) - 2 /\ Acquires(r[i], c))
    <2>1. Len(s) > 1 /\ s[Len(s) - 1] = c /\ Proper(c)
      BY <1>6 DEF MqStack
    <2>2. Len(r) - 1 \in 1 .. Len(r) /\ Len(r) - 1 # 1 /\ Len(r) - 1 - 1 = Len(s) - 1
      <3>1. \A m, n \in Nat : n > 1 /\ m = n + 1 => m - 1 \in 1 .. m /\ m - 1 # 1 /\ m - 1 - 1 = n - 1
        OBVIOUS
      <3>2. Len(s) \in Nat /\ Len(r) \in Nat /\ Len(s) > 1 /\ Len(r) = Len(s) + 1
        BY <1>3, <2>1
      <3>3. PICK m, n : m = Len(r) /\ n = Len(s)
        OBVIOUS
      <3> QED BY <3>1, <3>2, <3>3
    <2>3. r[Len(r) - 1] = c
      BY <1>3, <2>1, <2>2
    <2>4. ASSUME NEW i \in 1 .. Len(r) - 2
          PROVE  r[i].pc \in Silent \/ (i = Len(r) - 2 /\ Acquires(r[i], c))
      <3>1. CASE i = 1
        <4>1. Len(s) = 2 => Len(r) = 3
          BY <1>3
        <4>2. Len(r) = 3 => i = Len(r) - 2
          BY <3>1
        <4> QED BY <1>3, <3>1, <4>1, <4>2
      <3>2. CASE i # 1
        <4>1. i \in 1 .. Len(r) /\ i - 1 \in 1 .. Len(s) - 2 /\ (i - 1 = Len(s) - 2 => i = Len(r) - 2)
          BY <1>3, <3>2
        <4>2. r[i] = s[i - 1]
          BY <1>3, <3>2, <4>1
        <4>3. s[i - 1].pc \in Silent \/ (i - 1 = Len(s) - 2 /\ Acquires(s[i - 1], c))
          BY <1>6, <4>1 DEF MqStack
        <4> QED BY <4>1, <4>2, <4>3
      <3> QED BY <3>1, <3>2
    <2> QED BY <1>3, <2>1, <2>3, <2>4
  <1>7. ASSUME c.pc \notin OuterLabel, NEW i \in 1 .. Len(r) - 1
        PROVE  r[i].pc \in Silent
    <2>1. CASE i = 1
      BY <1>3, <1>7, <2>1
    <2>2. CASE i # 1
      <3>1. i \in 1 .. Len(r) /\ i - 1 \in 1 .. Len(s) - 1
        BY <1>3, <2>2
      <3>2. r[i] = s[i - 1]
        BY <1>3, <2>2, <3>1
      <3> QED BY <1>7, <3>1, <3>2 DEF MqStack
    <2> QED BY <2>1, <2>2
  <1>8. r \in MqStack(t, c)
    BY <1>5, <1>6, <1>7 DEF MqStack
  <1> QED BY <1>2, <1>8

LEMMA Lengths ==
  \A n \in Nat :
    /\ n > 0 /\ n # 1 => n > 1 /\ 1 \in 1 .. n - 1
    /\ n > 1 /\ n # 2 => n > 2 /\ 1 \in 1 .. n - 2
    /\ 1 = n - 2 <=> n = 3
  OBVIOUS

(* What is on top tells how much is below it.                              *)
LEMMA MqShape ==
  ASSUME NEW t \in Task, NEW c, NEW s \in MqStack(t, c)
  PROVE  /\ s \in Belongs(t) /\ s \in Seq(FrameType) /\ Len(s) \in Nat /\ Len(s) > 0
         /\ s[1].pc \in {"user", "idle"} => Len(s) = 1 /\ c.pc \notin OuterLabel
         /\ s[1].pc \in OuterLabel => Len(s) = 2 /\ s[1] = c /\ Proper(c)
         /\ s[1].pc \in AcquireLabel =>
              Len(s) = 3 /\ s[2] = c /\ c.pc \in OuterLabel /\ Acquires(s[1], c) /\ Proper(c)
  <1>1. s \in Belongs(t) /\ s \in Seq(FrameType) /\ Len(s) \in Nat /\ Len(s) > 0
    BY BelongsFacts DEF MqStack
  <1>2. ASSUME s[1].pc \in {"user", "idle"} PROVE Len(s) = 1 /\ c.pc \notin OuterLabel
    <2>1. Len(s) = 1
      BY <1>1, <1>2, BelongsFacts, MqLabels
    <2>2. ~(Len(s) > 1)
      BY <2>1
    <2> QED BY <2>1, <2>2 DEF MqStack
  <1>3. ASSUME s[1].pc \in OuterLabel \cup AcquireLabel
        PROVE  Len(s) > 1 /\ c.pc \in OuterLabel /\ Proper(c) /\ s[Len(s) - 1] = c
    <2>1. Len(s) # 1
      BY <1>1, <1>3, MqLabels DEF Belongs
    <2>2. 1 \in 1 .. Len(s) - 1
      BY <1>1, <2>1, Lengths
    <2>3. c.pc \in OuterLabel
      BY <1>3, <2>2, MqLabels DEF MqStack
    <2> QED BY <2>3 DEF MqStack
  <1>4. ASSUME s[1].pc \in OuterLabel PROVE Len(s) = 2 /\ s[1] = c /\ Proper(c)
    <2>1. 1 \notin 1 .. Len(s) - 2
      <3>1. s[1].pc \notin Silent /\ ~Acquires(s[1], c)
        BY <1>4, MqLabels DEF Acquires
      <3> QED BY <1>3, <1>4, <3>1 DEF MqStack
    <2>2. Len(s) = 2
      BY <1>1, <1>3, <1>4, <2>1, Lengths
    <2>3. s[1] = s[Len(s) - 1]
      <3>1. Len(s) - 1 = 1
        BY <2>2
      <3> QED BY <3>1
    <2> QED BY <1>3, <1>4, <2>2, <2>3
  <1>5. ASSUME s[1].pc \in AcquireLabel
        PROVE  Len(s) = 3 /\ s[2] = c /\ c.pc \in OuterLabel /\ Acquires(s[1], c) /\ Proper(c)
    <2>1. Len(s) # 2
      <3>1. Len(s) = 2 => Len(s) - 1 = 1
        OBVIOUS
      <3>2. s[1] # c
        BY <1>3, <1>5, MqLabels
      <3> QED BY <1>3, <1>5, <3>1, <3>2
    <2>2. 1 \in 1 .. Len(s) - 2
      BY <1>1, <1>3, <1>5, <2>1, Lengths
    <2>3. 1 = Len(s) - 2 /\ Acquires(s[1], c)
      <3>1. s[1].pc \notin Silent
        BY <1>5, MqLabels
      <3> QED BY <1>3, <1>5, <2>2, <3>1 DEF MqStack
    <2>4. Len(s) = 3
      BY <1>1, <2>3, Lengths
    <2>5. s[2] = s[Len(s) - 1]
      <3>1. Len(s) - 1 = 2
        BY <2>4
      <3> QED BY <3>1
    <2> QED BY <1>3, <1>5, <2>3, <2>4, <2>5
  <1> QED BY <1>1, <1>2, <1>4, <1>5

LEMMA MqPop ==
  ASSUME NEW t \in Task, NEW c, NEW s \in MqStack(t, c), s[1].pc \in Silent \cup AcquireLabel
  PROVE  Tail(s) \in MqStack(t, c)
  <1>1. /\ s \in Belongs(t) /\ s \in Seq(FrameType) /\ Len(s) \in Nat /\ Len(s) > 0
        /\ s # <<>> /\ s[1].pc \notin {"user", "idle"} /\ s[1].pc \notin OuterLabel
    BY MqLabels, BelongsFacts DEF MqStack
  <1>2. PICK r : r = Tail(s)
    OBVIOUS
  <1>3. /\ Len(s) = Len(r) + 1 /\ Len(r) \in Nat
        /\ \A i \in 1 .. Len(r) : i + 1 \in 1 .. Len(s) /\ r[i] = s[i + 1]
    BY <1>1, <1>2, PoppedStack
  <1>4. r \in Belongs(t) /\ Len(r) > 0
    BY <1>1, <1>2, TailBelongs, BelongsFacts
  <1>5. ASSUME c.pc \in OuterLabel
        PROVE  /\ Len(r) > 1 /\ r[Len(r) - 1] = c /\ Proper(c)
               /\ \A i \in 1 .. Len(r) - 2 :
                    r[i].pc \in Silent \/ (i = Len(r) - 2 /\ Acquires(r[i], c))
    <2>1. Len(s) > 1 /\ s[Len(s) - 1] = c /\ Proper(c)
      BY <1>5 DEF MqStack
    <2>2. Len(s) # 2
      <3>1. Len(s) = 2 => Len(s) - 1 = 1
        OBVIOUS
      <3> QED BY <1>1, <1>5, <2>1, <3>1
    <2>3. Len(r) > 1 /\ Len(r) - 1 \in 1 .. Len(r) /\ Len(r) - 1 + 1 = Len(s) - 1
      BY <1>3, <2>1, <2>2
    <2>4. r[Len(r) - 1] = c
      BY <1>3, <2>1, <2>3
    <2>5. ASSUME NEW i \in 1 .. Len(r) - 2
          PROVE  r[i].pc \in Silent \/ (i = Len(r) - 2 /\ Acquires(r[i], c))
      <3>1. i \in 1 .. Len(r) /\ i + 1 \in 1 .. Len(s) - 2 /\ (i + 1 = Len(s) - 2 => i = Len(r) - 2)
        BY <1>3
      <3>2. s[i + 1].pc \in Silent \/ (i + 1 = Len(s) - 2 /\ Acquires(s[i + 1], c))
        BY <1>5, <3>1 DEF MqStack
      <3> QED BY <1>3, <3>1, <3>2
    <2> QED BY <2>1, <2>3, <2>4, <2>5
  <1>6. ASSUME c.pc \notin OuterLabel, NEW i \in 1 .. Len(r) - 1
        PROVE  r[i].pc \in Silent
    <2>1. i \in 1 .. Len(r) /\ i + 1 \in 1 .. Len(s) - 1
      BY <1>3
    <2> QED BY <1>3, <1>6, <2>1 DEF MqStack
  <1>7. r \in MqStack(t, c)
    BY <1>4, <1>5, <1>6 DEF MqStack
  <1> QED BY <1>2, <1>7

(* A stack of the task's code alone, and one with a call on it.            *)
LEMMA CodeStack ==
  ASSUME NEW t \in Task, NEW s \in Belongs(t), Len(s) = 1, NEW c, c.pc \notin OuterLabel
  PROVE  s \in MqStack(t, c)
  <1>1. \A i \in 1 .. Len(s) - 1 : FALSE
    OBVIOUS
  <1> QED BY <1>1 DEF MqStack

LEMMA OuterStack ==
  ASSUME NEW t \in Task, NEW s \in Belongs(t), Len(s) = 1, NEW c \in FrameType,
         c.pc \in OuterLabel, Proper(c)
  PROVE  <<c>> \o s \in MqStack(t, c)
  <1>1. s \in Seq(FrameType) /\ s[1].pc \notin CallLabel
    BY MqLabels, BelongsFacts DEF Belongs
  <1>2. PICK r : r = <<c>> \o s
    OBVIOUS
  <1>3. Len(r) = 2 /\ r[1] = c
    BY <1>1, <1>2, PushedStack
  <1>4. r \in Belongs(t)
    BY <1>1, <1>2, PushBelongs, MqLabels
  <1>5. \A i \in 1 .. Len(r) - 2 : FALSE
    BY <1>3
  <1>6. Len(r) > 1 /\ r[Len(r) - 1] = c
    BY <1>3
  <1>7. r \in MqStack(t, c)
    BY <1>4, <1>5, <1>6 DEF MqStack
  <1> QED BY <1>2, <1>7

LEMMA MqClosed ==
  ASSUME NEW calls
  PROVE  CallClosed(MqStacks(calls))
  <1> DEFINE Q == MqStacks(calls)
  <1>1. Q \in [Task -> SUBSET Seq(FrameType)]
    BY DEF MqStacks, MqStack, Belongs
  <1>2. ASSUME NEW t \in Task, NEW s \in Q[t]
        PROVE  /\ s # <<>> /\ \A i \in 1 .. Len(s) : s[i].pc \notin NoTaskLabel
               /\ \A f \in CallFrame : f.pc # "create" => <<f>> \o s \in Q[t]
               /\ s[1].pc \in CallLabel \ {"create"} => Tail(s) \in Q[t]
    <2>1. Q[t] = MqStack(t, calls[t])
      BY DEF MqStacks
    <2>2. PICK c : c = calls[t]
      OBVIOUS
    <2> HIDE DEF Q
    <2>3. s \in MqStack(t, c)
      BY <2>1, <2>2
    <2>4. s # <<>> /\ \A i \in 1 .. Len(s) : s[i].pc \notin NoTaskLabel
      BY <2>3, BelongsFacts DEF MqStack
    <2>5. \A f \in CallFrame : f.pc # "create" => <<f>> \o s \in MqStack(t, c)
      BY <2>3, MqPush DEF CallFrame, Silent
    <2>6. s[1].pc \in CallLabel \ {"create"} => Tail(s) \in MqStack(t, c)
      BY <2>3, MqPop DEF Silent
    <2> QED BY <2>1, <2>2, <2>4, <2>5, <2>6
  <1> QED BY <1>1, <1>2 DEF CallClosed

-----------------------------------------------------------------------------
(* The current task's call, and a change of it.                            *)

LEMMA MqTop ==
  ASSUME IInv, NEW calls, Fleet(calls),
         Top.pc \in (OuterLabel \ {"create"}) \cup AcquireLabel \cup {"user"}
  PROVE  /\ current \in Task /\ current # NULL /\ current \in HasContext /\ Labels = Label
         /\ cpu \in MqStack(current, calls[current]) /\ cpu \in Belongs(current)
         /\ ~InSwitch(cpu) /\ ~InSwitch(Tail(cpu)) /\ Top = cpu[1] /\ Top \in FrameType
         /\ Top.pc # "restore" /\ Top.pc \notin CallLabel /\ Top.pc \notin EarlyLabel
         /\ Top.pc # "user" => Top.pc \notin BottomLabel
  <1>1. /\ Top.pc \notin EarlyLabel /\ Top.pc \notin CallLabel /\ Top.pc # "restore"
        /\ (Top.pc # "user" => Top.pc \notin BottomLabel)
    BY DEF OuterLabel, AcquireLabel, MqLabel, EarlyLabel, CallLabel, KernelLabel, BottomLabel
  <1>2. current \in Task /\ current # NULL /\ current \in HasContext /\ Labels = Label
    BY <1>1, InTaskCode
  <1>3. PICK Q : Q = MqStacks(calls)
    OBVIOUS
  <1>4. cpu \in Q[current]
    BY <1>1, <1>2, <1>3, CurrentStack, MqClosed DEF Fleet
  <1>5. cpu \in MqStack(current, calls[current]) /\ cpu \in Belongs(current)
    BY <1>2, <1>3, <1>4 DEF MqStacks, MqStack
  <1>6. ~InSwitch(cpu)
    BY <1>1, <1>2, <1>5, BelongsFacts DEF Top
  <1> QED BY <1>1, <1>2, <1>5, <1>6, CpuStack, SwitchTail DEF Top

(* What is under the call.                                                 *)
LEMMA MqBase ==
  ASSUME NEW t \in Task, NEW c, NEW s \in MqStack(t, c)
  PROVE  /\ s[1].pc \in OuterLabel => Tail(s) \in Belongs(t) /\ Len(Tail(s)) = 1
         /\ s[1].pc \in AcquireLabel =>
              /\ Tail(s) \in MqStack(t, c) /\ Len(Tail(s)) = 2 /\ Tail(s)[1] = c
              /\ s[2] = c /\ Tail(Tail(s)) \in Belongs(t) /\ Len(Tail(Tail(s))) = 1
  <1>1. s \in Belongs(t) /\ s \in Seq(FrameType) /\ Len(s) \in Nat /\ Len(s) > 0
    BY MqShape
  <1>2. ASSUME NEW u \in Seq(FrameType), Len(u) > 0
        PROVE  /\ Len(u) = 2 => Len(Tail(u)) = 1
               /\ Len(u) = 3 => Len(Tail(u)) = 2 /\ Tail(u)[1] = u[2]
    BY <1>2
  <1>3. ASSUME s[1].pc \in OuterLabel PROVE Tail(s) \in Belongs(t) /\ Len(Tail(s)) = 1
    <2>1. s[1].pc \notin {"user", "idle"}
      BY <1>3, MqLabels
    <2> QED BY <1>1, <1>2, <1>3, <2>1, MqShape, TailBelongs
  <1>4. ASSUME s[1].pc \in AcquireLabel
        PROVE  /\ Tail(s) \in MqStack(t, c) /\ Len(Tail(s)) = 2 /\ Tail(s)[1] = c
               /\ s[2] = c /\ Tail(Tail(s)) \in Belongs(t) /\ Len(Tail(Tail(s))) = 1
    <2>1. Len(s) = 3 /\ s[2] = c /\ c.pc \in OuterLabel
      BY <1>4, MqShape
    <2>2. PICK r : r = Tail(s)
      OBVIOUS
    <2>3. r \in MqStack(t, c) /\ Len(r) = 2 /\ r[1] = c
      BY <1>1, <1>2, <1>4, <2>1, <2>2, MqPop
    <2>4. r \in Belongs(t) /\ r \in Seq(FrameType) /\ r[1].pc \notin {"user", "idle"}
      BY <2>1, <2>3, MqShape, MqLabels
    <2>5. Tail(r) \in Belongs(t) /\ Len(Tail(r)) = 1
      BY <1>2, <2>3, <2>4, TailBelongs
    <2> QED BY <2>1, <2>2, <2>3, <2>5
  <1> QED BY <1>3, <1>4

LEMMA NoSwitchPush ==
  ASSUME NEW s \in Seq(FrameType), NEW f \in FrameType, ~InSwitch(s), f.pc \notin Switching
  PROVE  ~InSwitch(<<f>> \o s)
  BY SwitchPush

(* t can be created: it has no context and no other task is creating it.   *)
NewTask(calls, t) ==
  /\ t \notin HasContext
  /\ \A u \in Task \ {current} : calls[u].pc = "create" => calls[u].task # t

(* The current task goes on to the call g, or to none.                     *)
LEMMA FleetMove ==
  ASSUME IInv, NEW calls \in [Task -> FrameType], Fleet(calls), ~ResumeAtElr,
         Top.pc \in (OuterLabel \ {"create"}) \cup AcquireLabel \cup {"user"},
         UNCHANGED <<current, contexts>>, NEW g \in FrameType,
         g.pc = "create" => NewTask(calls, g.task),
         cpu' \in MqStack(current, g), ~InSwitch(cpu'),
         NEW next, next = [calls EXCEPT ![current] = g]
  PROVE  Fleet(next)'
  <1>1. current \in Task /\ current # NULL /\ current \in HasContext
    BY MqTop
  <1>2. next \in [Task -> FrameType] /\ next[current] = g
        /\ \A t \in Task : t # current => next[t] = calls[t]
    BY <1>1
  <1>3. PICK Q, R : Q = MqStacks(calls) /\ R = MqStacks(next)
    OBVIOUS
  <1>4. StacksIn(Q) /\ CallClosed(R)
    BY <1>3, MqClosed DEF Fleet
  <1>5. \A t \in Task \ {current} : Q[t] \subseteq R[t]
    BY <1>2, <1>3 DEF MqStacks
  <1>6. cpu' \in R[current]
    BY <1>1, <1>2, <1>3 DEF MqStacks
  <1>7. StacksIn(R)'
    BY <1>1, <1>4, <1>5, <1>6, LocalMove
  <1>8. HasContext' = HasContext /\ current' = current
    BY DEF HasContext, contexts
  <1>9. \A t \in Task : next[t].pc \in OuterLabel => t \in HasContext /\ current # NULL
    BY <1>1, <1>2 DEF Fleet
  <1>10. ASSUME NEW t \in Task, next[t].pc = "create"
         PROVE  /\ next[t].task \notin HasContext
                /\ \A u \in Task \ {t} : next[u].pc = "create" => next[u].task # next[t].task
    BY <1>1, <1>2, <1>10 DEF Fleet, NewTask
  <1> QED BY <1>3, <1>7, <1>8, <1>9, <1>10 DEF Fleet

-----------------------------------------------------------------------------
(* The tokens. *)

One(b) == IF b THEN 1 ELSE 0

LEMMA HoldersMove ==
  ASSUME NEW calls \in [Task -> FrameType], NEW u \in Task, NEW g \in FrameType,
         NEW q, IsFiniteSet(Holders(calls, q)), NEW next, next = [calls EXCEPT ![u] = g]
  PROVE  /\ IsFiniteSet(Holders(next, q))
         /\ Cardinality(Holders(calls, q)) \in Nat /\ Cardinality(Holders(next, q)) \in Nat
         /\ Cardinality(Holders(next, q)) + One(HasToken(calls[u], q))
              = Cardinality(Holders(calls, q)) + One(HasToken(g, q))
  <1> DEFINE H == Holders(calls, q)
             N == Holders(next, q)
  <1>1. next[u] = g /\ \A t \in Task : t # u => next[t] = calls[t]
    OBVIOUS
  <1>2. \A t \in Task : t # u => (t \in N <=> t \in H)
    BY <1>1 DEF Holders
  <1>3. (u \in H <=> HasToken(calls[u], q)) /\ (u \in N <=> HasToken(g, q))
    BY <1>1 DEF Holders
  <1>4. H \subseteq Task /\ N \subseteq Task /\ IsFiniteSet(H)
    BY DEF Holders
  <1> HIDE DEF H, N
  <1>5. Cardinality(H) \in Nat
    BY <1>4, FS_CardinalityType
  <1>6. /\ IsFiniteSet(N) /\ Cardinality(N) \in Nat
        /\ Cardinality(N) + One(HasToken(calls[u], q)) = Cardinality(H) + One(HasToken(g, q))
    <2>1. CASE u \in H <=> u \in N
      <3>1. N = H
        BY <1>2, <1>4, <2>1
      <3> QED BY <1>3, <1>4, <1>5, <2>1, <3>1 DEF One
    <2>2. CASE u \in N /\ u \notin H
      <3>1. N = H \cup {u}
        BY <1>2, <1>4, <2>2
      <3>2. IsFiniteSet(N) /\ Cardinality(N) = Cardinality(H) + 1
        BY <1>4, <2>2, <3>1, FS_AddElement
      <3> QED BY <1>3, <1>5, <2>2, <3>2 DEF One
    <2>3. CASE u \in H /\ u \notin N
      <3>1. N = H \ {u}
        BY <1>2, <1>4, <2>3
      <3>2. IsFiniteSet(N) /\ Cardinality(N) = Cardinality(H) - 1
        BY <1>4, <2>3, <3>1, FS_RemoveElement
      <3>3. Cardinality(N) \in Nat
        BY <3>2, FS_CardinalityType
      <3> QED BY <1>3, <1>5, <2>3, <3>2, <3>3 DEF One
    <2> QED BY <2>1, <2>2, <2>3
  <1> QED BY <1>5, <1>6 DEF H, N

(* What q counts changes by what the call does to its token.               *)
Settles(c, g) ==
  \A q \in WaitQueue :
    /\ count'[q] >= 0
    /\ count'[q] + One(HasToken(g, q)) + Supply(q)
         = count[q] + One(HasToken(c, q)) + Supply(q)'

LEMMA BalancedMove ==
  ASSUME NEW calls \in [Task -> FrameType], Balanced(calls), Counts, Counts', Rings, Rings',
         NEW u \in Task, NEW g \in FrameType, Settles(calls[u], g),
         NEW next, next = [calls EXCEPT ![u] = g]
  PROVE  Balanced(next)'
  <1> SUFFICES ASSUME NEW q \in WaitQueue
               PROVE  /\ count'[q] >= 0 /\ IsFiniteSet(Holders(next, q))
                      /\ count'[q] + Cardinality(Holders(next, q)) = Supply(q)'
    BY DEF Balanced, Holders
  <1>1. /\ count[q] >= 0 /\ IsFiniteSet(Holders(calls, q))
        /\ count[q] + Cardinality(Holders(calls, q)) = Supply(q)
    BY DEF Balanced
  <1>2. /\ IsFiniteSet(Holders(next, q))
        /\ Cardinality(Holders(calls, q)) \in Nat /\ Cardinality(Holders(next, q)) \in Nat
        /\ Cardinality(Holders(next, q)) + One(HasToken(calls[u], q))
             = Cardinality(Holders(calls, q)) + One(HasToken(g, q))
    BY <1>1, HoldersMove
  <1>3. count[q] \in Int /\ count'[q] \in Int /\ Supply(q) \in Int /\ Supply(q)' \in Int
    <2>1. q[1] \in Mq /\ QueueSize[q[1]] \in Int
      BY MessageQueueAssumption
    <2>2. stored[q[1]] \in Int /\ stored'[q[1]] \in Int
      BY <2>1 DEF Rings
    <2>3. count[q] \in Int /\ count'[q] \in Int
      BY SemaphoreAssumption DEF Counts
    <2> QED BY <2>1, <2>2, <2>3 DEF Supply
  <1>4. One(HasToken(g, q)) \in Int /\ One(HasToken(calls[u], q)) \in Int
    BY DEF One
  <1>5. /\ count'[q] >= 0
        /\ count'[q] + One(HasToken(g, q)) + Supply(q)
             = count[q] + One(HasToken(calls[u], q)) + Supply(q)'
    BY DEF Settles
  <1>6. count'[q] + Cardinality(Holders(next, q)) = Supply(q)'
    <2> DEFINE a == One(HasToken(g, q))
               b == One(HasToken(calls[u], q))
               h == Cardinality(Holders(calls, q))
               n == Cardinality(Holders(next, q))
               s == Supply(q)
               z == Supply(q)'
               k == count[q]
               m == count'[q]
    <2>1. /\ a \in Int /\ b \in Int /\ h \in Int /\ n \in Int /\ s \in Int /\ z \in Int
          /\ k \in Int /\ m \in Int
      BY <1>2, <1>3, <1>4
    <2>2. n + b = h + a /\ m + a + s = k + b + z /\ k + h = s
      BY <1>1, <1>2, <1>5
    <2> HIDE DEF a, b, h, n, s, z, k, m
    <2>3. m + n = z
      BY <2>1, <2>2
    <2> QED BY <2>3 DEF n, z, m
  <1> QED BY <1>2, <1>5, <1>6

(* A step that leaves the counts and the ring alone, from a call to one    *)
(* with the same tokens.                                                   *)
LEMMA SettledAlready ==
  ASSUME NEW calls, Balanced(calls), NEW c, NEW g,
         UNCHANGED <<count, stored>>, \A q \in WaitQueue : HasToken(c, q) <=> HasToken(g, q)
  PROVE  Settles(c, g)
  BY DEF Settles, Balanced, Supply, One

LEMMA MqMove ==
  ASSUME IInv, Counts, Counts', Rings, Rings', ~ResumeAtElr,
         NEW calls \in [Task -> FrameType], Fleet(calls), Balanced(calls),
         Top.pc \in (OuterLabel \ {"create"}) \cup AcquireLabel \cup {"user"},
         UNCHANGED <<current, contexts>>, NEW g \in FrameType,
         g.pc = "create" => NewTask(calls, g.task),
         cpu' \in MqStack(current, g), ~InSwitch(cpu'), Settles(calls[current], g)
  PROVE  Tallied'
  <1>1. PICK next : next = [calls EXCEPT ![current] = g]
    OBVIOUS
  <1>2. current \in Task
    BY MqTop
  <1>3. next \in [Task -> FrameType]
    BY <1>1, <1>2
  <1>4. Fleet(next)'
    BY <1>1, FleetMove
  <1>5. PICK u : u = current
    OBVIOUS
  <1>6. Balanced(next)'
    BY <1>1, <1>2, <1>5, BalancedMove
  <1> QED BY <1>3, <1>4, <1>6 DEF Tallied

-----------------------------------------------------------------------------
(* The steps of sync.c. *)

(* A step within the acquire, and its return with the result n.            *)
LEMMA WithinAcquire ==
  ASSUME NEW t \in Task, NEW c, NEW s \in MqStack(t, c), s[1].pc \in AcquireLabel,
         NEW f \in FrameType, f.pc \in AcquireLabel, f.queue = s[1].queue
  PROVE  <<f>> \o Tail(s) \in MqStack(t, c)
  <1>1. PICK r : r = Tail(s)
    OBVIOUS
  <1>2. r \in MqStack(t, c) /\ Len(r) = 2
    <2>1. /\ s[1].pc \in OuterLabel => Tail(s) \in Belongs(t) /\ Len(Tail(s)) = 1
          /\ s[1].pc \in AcquireLabel =>
               /\ Tail(s) \in MqStack(t, c) /\ Len(Tail(s)) = 2 /\ Tail(s)[1] = c
               /\ s[2] = c /\ Tail(Tail(s)) \in Belongs(t) /\ Len(Tail(Tail(s))) = 1
      BY MqBase
    <2>2. s[1].pc \in AcquireLabel
      OBVIOUS
    <2> QED BY <1>1, <2>1, <2>2
  <1>3. c.pc \in OuterLabel /\ Acquires(f, c)
    BY MqShape DEF Acquires
  <1> QED BY <1>1, <1>2, <1>3, MqPush

LEMMA ResultStack ==
  ASSUME NEW t \in Task, NEW c \in FrameType, NEW s \in MqStack(t, c), s[1].pc \in AcquireLabel,
         NEW n \in {0, 1}, NEW g, g = [c EXCEPT !.num = n]
  PROVE  /\ g \in FrameType /\ g.pc = c.pc /\ g.queue = c.queue /\ g.num = n
         /\ c.pc \in {"send_got", "recv_got"} /\ c.num = 0 /\ c.queue = s[1].queue
         /\ <<g>> \o Tail(Tail(s)) \in MqStack(t, g)
  <1>1. g \in FrameType /\ g.pc = c.pc /\ g.queue = c.queue /\ g.num = n
    BY DEF FrameType
  <1>2. /\ c.pc \in {"send_got", "recv_got"} /\ c.num = 0 /\ c.queue = s[1].queue
        /\ Proper(c) /\ c.pc \in OuterLabel
    BY MqShape DEF Acquires
  <1>3. Proper(g) /\ g.pc \in OuterLabel
    BY <1>1, <1>2 DEF Proper
  <1>4. PICK r : r = Tail(Tail(s))
    OBVIOUS
  <1>5. r \in Belongs(t) /\ Len(r) = 1
    BY <1>4, MqBase
  <1>6. <<g>> \o r \in MqStack(t, g)
    BY <1>1, <1>3, <1>5, OuterStack
  <1> QED BY <1>1, <1>2, <1>4, <1>6

LEMMA GrantedCount ==
  ASSUME Counts, NEW q \in WaitQueue, count[q] > 0, Granted(q)
  PROVE  count'[q] = count[q] - 1 /\ \A p \in WaitQueue \ {q} : count'[p] = count[p]
  <1>1. count[q] \in -HALF .. HALF - 1 /\ HALF \in Nat
    BY SemaphoreAssumption DEF Counts
  <1>2. count[q] - 1 \in 0 .. HALF - 1
    BY <1>1
  <1>3. AsInt8(count[q] - 1) = count[q] - 1
    BY <1>2, AsInt8Same
  <1> QED BY <1>3 DEF Granted, Counts

(* An acquire gives the call a token just when it takes one of the queue's. *)
LEMMA ResultMoves ==
  ASSUME MqIInv, SemIInv', Rings', ~ResumeAtElr, UNCHANGED <<current, contexts, stored>>,
         Top.pc \in AcquireLabel, NEW n \in {0, 1}, ReturnResult(n),
         \/ n = 0 /\ count' = count
         \/ n = 1 /\ count[Top.queue] > 0 /\ Granted(Top.queue)
  PROVE  Tallied'
  <1>1. PICK calls \in [Task -> FrameType] : Fleet(calls) /\ Balanced(calls)
    BY DEF MqIInv, Tallied
  <1>2. IInv /\ Counts /\ Counts' /\ Rings /\ Top.pc \in SemLabel
    BY DEF MqIInv, SemIInv, AcquireLabel, SemLabel
  <1>3. PICK u, c : u = current /\ c = calls[u]
    OBVIOUS
  <1>4. /\ u \in Task /\ c \in FrameType /\ cpu \in MqStack(u, c) /\ Top = cpu[1]
        /\ cpu[1].pc \in AcquireLabel /\ Top.queue \in WaitQueue
    BY <1>1, <1>2, <1>3, MqTop, SemFrame
  <1>5. PICK g : g = [c EXCEPT !.num = n]
    OBVIOUS
  <1>6. /\ g \in FrameType /\ g.pc = c.pc /\ g.queue = c.queue /\ g.num = n
        /\ c.pc \in {"send_got", "recv_got"} /\ c.num = 0 /\ c.queue = Top.queue
        /\ <<g>> \o Tail(Tail(cpu)) \in MqStack(u, g)
    <2>1. PICK s : s = cpu
      OBVIOUS
    <2> QED BY <1>4, <1>5, <2>1, ResultStack
  <1>7. cpu[2] = c
    <2>1. PICK s : s = cpu
      OBVIOUS
    <2>2. u \in Task /\ s \in MqStack(u, c) /\ s[1].pc \in AcquireLabel
      BY <1>4, <2>1
    <2>3. s[2] = c
      BY <2>2, MqShape
    <2> QED BY <2>1, <2>3
  <1>8. cpu' = <<g>> \o Tail(Tail(cpu))
    BY <1>5, <1>6, <1>7 DEF ReturnResult, KernelLabel
  <1>9. cpu' \in MqStack(u, g) /\ cpu'[1] = g /\ g.pc \notin CallLabel
    <2>1. PICK r : r = cpu'
      OBVIOUS
    <2>2. r \in MqStack(u, g)
      BY <1>6, <1>8, <2>1
    <2>3. cpu' # <<>> /\ cpu' \in Seq(FrameType)
      BY <2>1, <2>2, <1>4, MqShape
    <2>4. cpu'[1] = g
      <3>1. cpu \in Seq(FrameType) /\ Tail(Tail(cpu)) \in Seq(FrameType)
        <4>1. PICK s : s = cpu
          OBVIOUS
        <4>2. Tail(Tail(s)) \in Belongs(u)
          BY <1>4, <4>1, MqBase
        <4> QED BY <1>4, <4>1, <4>2, MqShape, BelongsFacts
      <3> QED BY <1>6, <1>8, <3>1
    <2> QED BY <2>1, <2>2, <2>4, <1>6 DEF CallLabel, KernelLabel
  <1>10. ~InSwitch(cpu')
    <2>1. PICK r : r = cpu'
      OBVIOUS
    <2>2. r \in Belongs(u)
      BY <1>9, <2>1 DEF MqStack
    <2> QED BY <1>4, <1>9, <2>1, <2>2, BelongsFacts
  <1>11. \A q \in WaitQueue : ~HasToken(c, q) /\ (HasToken(g, q) <=> q = Top.queue /\ n = 1)
    BY <1>6 DEF HasToken
  <1>12. Settles(c, g)
    <2>1. CASE n = 0 /\ count' = count
      <3>1. \A q \in WaitQueue : HasToken(c, q) <=> HasToken(g, q)
        BY <1>11, <2>1
      <3> QED BY <1>1, <2>1, <3>1, SettledAlready
    <2>2. CASE n = 1 /\ count[Top.queue] > 0 /\ Granted(Top.queue)
      <3>1. /\ count'[Top.queue] = count[Top.queue] - 1
            /\ \A p \in WaitQueue \ {Top.queue} : count'[p] = count[p]
        BY <1>2, <1>4, <2>2, GrantedCount
      <3> SUFFICES ASSUME NEW q \in WaitQueue
                   PROVE  /\ count'[q] >= 0
                          /\ count'[q] + One(HasToken(g, q)) + Supply(q)
                               = count[q] + One(HasToken(c, q)) + Supply(q)'
        BY DEF Settles
      <3>2. count[q] \in Int /\ count[q] >= 0 /\ Supply(q)' = Supply(q)
        BY <1>1, <1>2, SemaphoreAssumption DEF Counts, Balanced, Supply
      <3>3. CASE q = Top.queue
        <4>1. One(HasToken(g, q)) = 1 /\ One(HasToken(c, q)) = 0
          BY <1>11, <2>2, <3>3 DEF One
        <4>2. count'[q] = count[q] - 1 /\ count[q] > 0
          BY <2>2, <3>1, <3>3
        <4>3. count'[q] + 1 = count[q] + 0 /\ count'[q] >= 0
          BY <3>2, <4>2
        <4>4. count'[q] + One(HasToken(g, q)) = count[q] + One(HasToken(c, q))
          BY <4>1, <4>3
        <4> QED BY <3>2, <4>3, <4>4
      <3>4. CASE q # Top.queue
        <4>1. One(HasToken(g, q)) = 0 /\ One(HasToken(c, q)) = 0
          BY <1>11, <3>4 DEF One
        <4>2. count'[q] = count[q]
          BY <3>1, <3>4
        <4> QED BY <3>2, <4>1, <4>2
      <3> QED BY <3>3, <3>4
    <2> QED BY <2>1, <2>2
  <1> QED BY <1>1, <1>2, <1>3, <1>6, <1>9, <1>10, <1>12, MqMove

(* A step within the acquire, with or without a call to the wait queue.    *)
LEMMA WithinMoves ==
  ASSUME MqIInv, SemIInv', Rings', ~ResumeAtElr, UNCHANGED <<current, contexts, count, stored>>,
         Top.pc \in AcquireLabel, NEW f, f.pc \in AcquireLabel, f.queue = Top.queue,
         Step(f) \/ (f \in FrameType /\ \E w \in FrameType :
                       w.pc \in Silent \ Switching /\ cpu' = <<w>> \o (<<f>> \o Tail(cpu)))
  PROVE  Tallied'
  <1>1. PICK calls \in [Task -> FrameType] : Fleet(calls) /\ Balanced(calls)
    BY DEF MqIInv, Tallied
  <1>2. IInv /\ Counts /\ Counts' /\ Rings /\ IInv'
    BY DEF MqIInv, SemIInv
  <1>3. PICK u, c : u = current /\ c = calls[u]
    OBVIOUS
  <1>4. /\ u \in Task /\ c \in FrameType /\ cpu \in MqStack(u, c) /\ Top = cpu[1]
        /\ cpu[1].pc \in AcquireLabel /\ ~InSwitch(Tail(cpu)) /\ Tail(cpu) \in Seq(FrameType)
    BY <1>1, <1>2, <1>3, MqTop, CpuStack
  <1>5. f \in FrameType
    BY <1>2, <1>4, NewTop DEF Step
  <1>6. f.pc \notin Switching
    BY DEF AcquireLabel, Switching
  <1>7. PICK r : r = <<f>> \o Tail(cpu)
    OBVIOUS
  <1>8. r \in MqStack(u, c)
    <2>1. PICK s : s = cpu
      OBVIOUS
    <2> QED BY <1>4, <1>5, <1>7, <2>1, WithinAcquire
  <1>9. r \in Seq(FrameType) /\ ~InSwitch(r)
    BY <1>4, <1>5, <1>6, <1>7, NoSwitchPush, PushedStack
  <1>10. cpu' \in MqStack(u, c) /\ ~InSwitch(cpu')
    <2>1. CASE Step(f)
      BY <1>7, <1>8, <1>9, <2>1 DEF Step
    <2>2. CASE \E w \in FrameType :
                 w.pc \in Silent \ Switching /\ cpu' = <<w>> \o (<<f>> \o Tail(cpu))
      <3>1. PICK w \in FrameType : w.pc \in Silent \ Switching /\ cpu' = <<w>> \o r
        BY <1>7, <2>2
      <3>2. <<w>> \o r \in MqStack(u, c)
        BY <1>4, <1>8, <3>1, MqPush
      <3>3. ~InSwitch(<<w>> \o r)
        BY <1>9, <3>1, NoSwitchPush
      <3> QED BY <3>1, <3>2, <3>3
    <2> QED BY <2>1, <2>2
  <1>11. c.pc # "create"
    <2>1. PICK s : s = cpu
      OBVIOUS
    <2>2. c.pc \in {"send_got", "recv_got"}
      BY <1>4, <2>1, MqShape DEF Acquires
    <2> QED BY <2>2
  <1>12. Settles(c, c)
    BY <1>1, SettledAlready
  <1> QED BY <1>1, <1>2, <1>3, <1>4, <1>10, <1>11, <1>12, MqMove

LEMMA RingsKept == ASSUME Rings, UNCHANGED ring PROVE Rings' /\ stored' = stored
  BY DEF Rings, ring

LEMMA MqAcquire ==
  ASSUME MqIInv, SemIInv', ~ResumeAtElr, UNCHANGED ring, Acquire \/ AcquireCheck
  PROVE  Tallied'
  <1>1. /\ Top.pc \in AcquireLabel /\ UNCHANGED <<current, contexts, count>>
        /\ Rings' /\ stored' = stored
    BY RingsKept DEF MqIInv, Acquire, AcquireCheck, At, AcquireLabel, kernel, sched
  <1>2. Top \in FrameType
    BY CpuStack DEF MqIInv, SemIInv
  <1>3. CASE ReturnResult(0)
    BY <1>1, <1>3, ResultMoves
  <1>4. CASE Acquire /\ Step([Top EXCEPT !.pc = "acq_try", !.abs = (tick + Top.num) % WORD])
    <2> DEFINE f == [Top EXCEPT !.pc = "acq_try", !.abs = (tick + Top.num) % WORD]
    <2>1. f.pc \in AcquireLabel /\ f.queue = Top.queue
      BY <1>2 DEF FrameType, AcquireLabel
    <2>2. Step(f)
      BY <1>4
    <2> HIDE DEF f
    <2> QED BY <1>1, <2>1, <2>2, WithinMoves
  <1>5. CASE Goto("acq_re")
    <2> DEFINE f == [Top EXCEPT !.pc = "acq_re"]
    <2>1. f.pc \in AcquireLabel /\ f.queue = Top.queue
      BY <1>2 DEF FrameType, AcquireLabel
    <2>2. Step(f)
      BY <1>5 DEF Goto
    <2> HIDE DEF f
    <2> QED BY <1>1, <2>1, <2>2, WithinMoves
  <1> QED BY <1>3, <1>4, <1>5 DEF Acquire, AcquireCheck

LEMMA MqWaitOn ==
  ASSUME MqIInv, SemIInv', ~ResumeAtElr, UNCHANGED <<current, contexts, count, ring>>,
         Top.pc \in AcquireLabel, WaitOn(Top.queue)
  PROVE  Tallied'
  <1> DEFINE w == [Frame("wait") EXCEPT !.queue = Top.queue]
             f == [Top EXCEPT !.pc = "acq_chk"]
  <1>1. w \in FrameType /\ f \in FrameType /\ cpu' = <<w>> \o (<<f>> \o Tail(cpu))
    BY CallIsPush DEF MqIInv, SemIInv, WaitOn
  <1>2. w.pc = "wait" /\ f.pc = "acq_chk" /\ f.queue = Top.queue
    BY CpuStack DEF MqIInv, SemIInv, Frame, TaskFrame, FrameType
  <1> HIDE DEF w, f
  <1>3. w.pc \in Silent \ Switching /\ f.pc \in AcquireLabel
    BY <1>2 DEF Silent, Switching, AcquireLabel, CallLabel, KernelLabel, BottomLabel
  <1>4. Rings' /\ stored' = stored
    BY RingsKept DEF MqIInv
  <1> QED BY <1>1, <1>2, <1>3, <1>4, WithinMoves

LEMMA MqAcquireTry ==
  ASSUME MqIInv, SemIInv', ~ResumeAtElr, UNCHANGED ring, AcquireTry \/ AcquireRetry
  PROVE  Tallied'
  <1>1. /\ Top.pc \in AcquireLabel /\ UNCHANGED <<current, contexts>>
        /\ Rings' /\ stored' = stored
    BY RingsKept DEF MqIInv, AcquireTry, AcquireRetry, At, AcquireLabel, sched
  <1>2. CASE count[Top.queue] > 0 /\ Granted(Top.queue) /\ ReturnResult(1)
    BY <1>1, <1>2, ResultMoves
  <1>3. CASE ReturnResult(0) /\ count' = count
    BY <1>1, <1>3, ResultMoves
  <1>4. CASE WaitOn(Top.queue) /\ count' = count
    BY <1>1, <1>4, MqWaitOn
  <1> QED BY <1>2, <1>3, <1>4 DEF AcquireTry, AcquireRetry

(* No queue has more tokens than slots. *)
LEMMA SupplyBound ==
  ASSUME NEW calls, Balanced(calls), Counts, Rings, NEW q \in WaitQueue
  PROVE  /\ Supply(q) \in 0 .. QueueSize[q[1]] /\ count[q] \in Int
         /\ Cardinality(Holders(calls, q)) \in Nat
  <1>1. ASSUME NEW p \in WaitQueue
        PROVE  Cardinality(Holders(calls, p)) \in Nat /\ count[p] \in Int /\ Supply(p) >= 0
    <2>1. Cardinality(Holders(calls, p)) \in Nat
      BY FS_CardinalityType DEF Balanced
    <2>2. count[p] \in Int /\ count[p] >= 0
      BY SemaphoreAssumption DEF Counts, Balanced
    <2> QED BY <2>1, <2>2 DEF Balanced
  <1>2. PICK m \in Mq, d \in {"put", "get"} : q = <<m, d>>
    BY MessageQueueAssumption
  <1>3. putsem(m) \in WaitQueue /\ getsem(m) \in WaitQueue /\ q[1] = m /\ q[2] = d
    BY <1>2, MessageQueueAssumption DEF putsem, getsem
  <1>4. QueueSize[m] \in Nat /\ stored[m] \in Int
    BY MessageQueueAssumption DEF Rings
  <1>5. Supply(putsem(m)) = QueueSize[m] - stored[m] /\ Supply(getsem(m)) = stored[m]
    BY DEF Supply, putsem, getsem
  <1>6. Supply(q) = IF d = "put" THEN QueueSize[m] - stored[m] ELSE stored[m]
    BY <1>3 DEF Supply
  <1>7. QueueSize[m] - stored[m] >= 0 /\ stored[m] >= 0
    BY <1>1, <1>3, <1>5
  <1> QED BY <1>1, <1>3, <1>4, <1>6, <1>7

(* A release gives the token of the call back: it does not wrap.           *)
LEMMA MqRelease ==
  ASSUME MqIInv, SemIInv', ~ResumeAtElr, UNCHANGED ring, Release,
         \A m \in Mq : QueueSize[m] < HALF
  PROVE  Tallied'
  <1>1. PICK calls \in [Task -> FrameType] : Fleet(calls) /\ Balanced(calls)
    BY DEF MqIInv, Tallied
  <1>2. /\ IInv /\ Counts /\ Counts' /\ Rings /\ Rings' /\ IInv' /\ stored' = stored
        /\ Top.pc = "release" /\ Top.pc \in OuterLabel \ {"create"} /\ Top.pc \in SemLabel
        /\ UNCHANGED <<current, contexts>>
    BY RingsKept DEF MqIInv, SemIInv, Release, At, OuterLabel, SemLabel, kernel, sched
  <1>3. PICK u, c : u = current /\ c = calls[u]
    OBVIOUS
  <1>4. /\ u \in Task /\ c \in FrameType /\ cpu \in MqStack(u, c) /\ Top = cpu[1]
        /\ ~InSwitch(Tail(cpu)) /\ Tail(cpu) \in Seq(FrameType) /\ Top.queue \in WaitQueue
    BY <1>1, <1>2, <1>3, MqTop, SemFrame, CpuStack
  <1>5. PICK g : g = [Top EXCEPT !.pc = "rel_chk"]
    OBVIOUS
  <1>6. cpu' = <<g>> \o Tail(cpu) /\ g \in FrameType
    BY <1>2, <1>4, <1>5, NewTop DEF Release, Goto, Step
  <1>7. g.pc = "rel_chk"
    BY <1>2, <1>5, CpuStack DEF FrameType
  <1>8. c = Top /\ Tail(cpu) \in Belongs(u) /\ Len(Tail(cpu)) = 1
    <2>1. PICK s : s = cpu
      OBVIOUS
    <2>2. u \in Task /\ s \in MqStack(u, c) /\ s[1].pc \in OuterLabel
      BY <1>2, <1>4, <2>1
    <2>3. s[1] = c /\ Tail(s) \in Belongs(u) /\ Len(Tail(s)) = 1
      BY <2>2, MqShape, MqBase
    <2> QED BY <1>4, <2>1, <2>3
  <1>9. cpu' \in MqStack(u, g)
    <2>1. PICK r : r = Tail(cpu)
      OBVIOUS
    <2>2. g.pc \in OuterLabel /\ Proper(g)
      BY <1>7 DEF OuterLabel, Proper
    <2>3. <<g>> \o r \in MqStack(u, g)
      BY <1>4, <1>6, <1>8, <2>1, <2>2, OuterStack
    <2> QED BY <1>6, <2>1, <2>3
  <1>10. ~InSwitch(cpu')
    BY <1>4, <1>6, <1>7, NoSwitchPush DEF Switching
  <1>11. \A q \in WaitQueue : (HasToken(c, q) <=> q = Top.queue) /\ ~HasToken(g, q)
    BY <1>2, <1>7, <1>8 DEF HasToken
  <1>12. Settles(c, g)
    <2> DEFINE p == Top.queue
    <2>1. count[p] + 1 \in 0 .. HALF - 1
      <3>1. Holders(calls, p) # {}
        BY <1>3, <1>4, <1>11 DEF Holders
      <3>2. Cardinality(Holders(calls, p)) # 0
        BY <1>1, <1>4, <3>1, FS_EmptySet DEF Balanced
      <3>3. /\ Supply(p) \in 0 .. QueueSize[p[1]] /\ count[p] \in Int
            /\ Cardinality(Holders(calls, p)) \in Nat
        BY <1>1, <1>2, <1>4, SupplyBound
      <3>4. count[p] >= 0 /\ count[p] + Cardinality(Holders(calls, p)) = Supply(p)
        BY <1>1, <1>4 DEF Balanced
      <3>5. QueueSize[p[1]] \in Nat /\ QueueSize[p[1]] < HALF /\ HALF \in Nat
        <4>1. p[1] \in Mq
          BY <1>4, MessageQueueAssumption
        <4> QED BY <4>1, MessageQueueAssumption, SemaphoreAssumption
      <3> HIDE DEF p
      <3> QED BY <3>2, <3>3, <3>4, <3>5
    <2>2. AsInt8(count[p] + 1) = count[p] + 1
      BY <2>1, AsInt8Same
    <2>3. count' = [count EXCEPT ![p] = count[p] + 1]
      BY <2>2 DEF Release
    <2>4. count[p] \in Int
      BY <1>2, <1>4, SemaphoreAssumption DEF Counts
    <2> SUFFICES ASSUME NEW q \in WaitQueue
                 PROVE  /\ count'[q] >= 0
                        /\ count'[q] + One(HasToken(g, q)) + Supply(q)
                             = count[q] + One(HasToken(c, q)) + Supply(q)'
      BY DEF Settles
    <2>5. count[q] \in Int /\ count[q] >= 0 /\ Supply(q)' = Supply(q)
      BY <1>1, <1>2, SemaphoreAssumption DEF Counts, Balanced, Supply
    <2>6. One(HasToken(g, q)) = 0 /\ One(HasToken(c, q)) = IF q = p THEN 1 ELSE 0
      BY <1>11 DEF One
    <2>7. count'[q] = IF q = p THEN count[q] + 1 ELSE count[q]
      BY <1>2, <1>4, <2>3 DEF Counts
    <2> HIDE DEF p
    <2>8. count'[q] + One(HasToken(g, q)) = count[q] + One(HasToken(c, q)) /\ count'[q] >= 0
      BY <2>5, <2>6, <2>7
    <2> QED BY <2>5, <2>8
  <1> QED BY <1>1, <1>2, <1>3, <1>6, <1>7, <1>9, <1>10, <1>12, MqMove

(* The end of a call: the frame is left, or replaced by one that has no    *)
(* call below it but the task's code.                                      *)
LEMMA MqEnd ==
  ASSUME MqIInv, SemIInv', Rings', ~ResumeAtElr, UNCHANGED <<current, contexts, count, stored>>,
         Top.pc \in OuterLabel \ {"create"}, \A q \in WaitQueue : ~HasToken(Top, q),
         Return \/ \E f : Step(f) /\ f.pc \in Silent \ Switching
  PROVE  Tallied'
  <1>1. PICK calls \in [Task -> FrameType] : Fleet(calls) /\ Balanced(calls)
    BY DEF MqIInv, Tallied
  <1>2. IInv /\ Counts /\ Counts' /\ Rings /\ IInv'
    BY DEF MqIInv, SemIInv
  <1>3. PICK u, c : u = current /\ c = calls[u]
    OBVIOUS
  <1>4. /\ u \in Task /\ cpu \in MqStack(u, c) /\ Top = cpu[1]
        /\ ~InSwitch(Tail(cpu)) /\ Tail(cpu) \in Seq(FrameType)
    BY <1>1, <1>2, <1>3, MqTop, CpuStack
  <1>5. PICK r : r = Tail(cpu)
    OBVIOUS
  <1>6. c = Top /\ r \in MqStack(u, NoCall)
    <2>1. PICK s : s = cpu
      OBVIOUS
    <2>2. u \in Task /\ s \in MqStack(u, c) /\ s[1].pc \in OuterLabel
      BY <1>4, <2>1
    <2>3. s[1] = c /\ Tail(s) \in Belongs(u) /\ Len(Tail(s)) = 1
      BY <2>2, MqShape, MqBase
    <2>4. NoCall.pc \notin OuterLabel
      BY DEF NoCall, Frame, TaskFrame, OuterLabel, MqLabel
    <2> QED BY <1>4, <1>5, <2>1, <2>3, <2>4, CodeStack
  <1>7. cpu' \in MqStack(u, NoCall) /\ ~InSwitch(cpu')
    <2>1. CASE Return
      BY <1>4, <1>5, <1>6, <2>1 DEF Return
    <2>2. CASE \E f : Step(f) /\ f.pc \in Silent \ Switching
      <3>1. PICK f : cpu' = <<f>> \o r /\ f.pc \in Silent \ Switching
        BY <1>5, <2>2 DEF Step
      <3>2. f \in FrameType
        BY <1>2, <1>4, <1>5, <3>1, NewTop
      <3>3. <<f>> \o r \in MqStack(u, NoCall)
        BY <1>4, <1>6, <3>1, <3>2, MqPush
      <3>4. ~InSwitch(<<f>> \o r)
        BY <1>4, <1>5, <3>1, <3>2, NoSwitchPush
      <3> QED BY <3>1, <3>3, <3>4
    <2> QED BY <2>1, <2>2
  <1>8. NoCall \in FrameType /\ NoCall.pc # "create" /\ \A q \in WaitQueue : ~HasToken(NoCall, q)
    BY Constants DEF NoCall, Frame, TaskFrame, FrameType, HasToken, KernelLabel
  <1>9. Settles(c, NoCall)
    BY <1>1, <1>6, <1>8, SettledAlready
  <1> QED BY <1>1, <1>2, <1>3, <1>7, <1>8, <1>9, MqMove

LEMMA MqReleaseCheck ==
  ASSUME MqIInv, SemIInv', ~ResumeAtElr, UNCHANGED ring, ReleaseCheck
  PROVE  Tallied'
  <1>1. /\ Top.pc = "rel_chk" /\ Top.pc \in OuterLabel \ {"create"}
        /\ UNCHANGED <<current, contexts, count>> /\ Rings' /\ stored' = stored
    BY RingsKept DEF MqIInv, ReleaseCheck, At, OuterLabel, kernel, sched
  <1>2. \A q \in WaitQueue : ~HasToken(Top, q)
    BY <1>1 DEF HasToken
  <1>3. Return \/ \E f : Step(f) /\ f.pc \in Silent \ Switching
    <2>1. CASE Goto("wakeup")
      <3> DEFINE f == [Top EXCEPT !.pc = "wakeup"]
      <3>1. f.pc = "wakeup"
        BY CpuStack DEF MqIInv, SemIInv, FrameType
      <3>2. f.pc \in Silent \ Switching
        BY <3>1 DEF Silent, Switching, CallLabel, KernelLabel, BottomLabel
      <3>3. Step(f)
        BY <2>1 DEF Goto
      <3> QED BY <3>2, <3>3
    <2> QED BY <2>1 DEF ReleaseCheck
  <1> QED BY <1>1, <1>2, <1>3, MqEnd

-----------------------------------------------------------------------------
(* The steps of comm.c. *)

LEMMA LockOK ==
  ASSUME IInv, UNCHANGED <<tcb, periods, queues, timer, current, contexts>>,
         lock' \in {"LOCKED", "UNLOCKED"}, Top.pc # "restore",
         StackOK(cpu', HasContext, Labels)
  PROVE  IInv'
  <1>1. Values'
    BY DEF IInv, Values, tcb, periods, timer
  <1>2. Pointers' /\ BitmapSound'
    BY QueuesKept DEF timer, contexts, tcb, IInv, Pointers
  <1> QED BY <1>1, <1>2, ContextsKept

LEMMA MqFrameOK ==
  ASSUME Labels = Label, NEW f \in FrameType, f.pc \in MqLabel
  PROVE  FrameOK(f, HasContext, Labels)
  BY DEF FrameOK, FrameType, MqLabel

LEMMA MqWords ==
  /\ MqLabel \cup SemLabel \cup {"schedule"} \subseteq Label
  /\ \A m \in Mq : /\ putsem(m) \in WaitQueue /\ getsem(m) \in WaitQueue
                   /\ putsem(m)[1] = m /\ getsem(m)[1] = m
                   /\ putsem(m)[2] = "put" /\ getsem(m)[2] = "get"
  /\ \A q \in WaitQueue : q[1] \in Mq /\ (q = putsem(q[1]) \/ q = getsem(q[1]))
  /\ \A q \in WaitQueue : q[2] = "put" <=> q = putsem(q[1])
  BY MessageQueueAssumption, SemaphoreAssumption, Constants
     DEF putsem, getsem, Label, KernelLabel

(* At a label of this module. *)
LEMMA MqAt ==
  ASSUME MqIInv, Top.pc \in MqLabel
  PROVE  /\ IInv /\ Counts /\ Rings /\ Labels = Label /\ Top \in FrameType
         /\ Top.pc \in OuterLabel \ {"create"} /\ Top.pc \notin BottomLabel
         /\ Top.pc # "restore" /\ Proper(Top)
  <1>1. IInv /\ Counts /\ Rings
    BY DEF MqIInv, SemIInv
  <1>2. PICK calls \in [Task -> FrameType] : Fleet(calls)
    BY DEF MqIInv, Tallied
  <1>3. Top.pc \in OuterLabel \ {"create"} /\ Top.pc \notin BottomLabel
    BY DEF OuterLabel, MqLabel, BottomLabel
  <1>4. PICK u, c, s : u = current /\ c = calls[u] /\ s = cpu
    OBVIOUS
  <1>5. u \in Task /\ s \in MqStack(u, c) /\ s[1].pc \in OuterLabel /\ Top = s[1]
        /\ Labels = Label /\ Top \in FrameType /\ Top.pc # "restore"
    BY <1>1, <1>2, <1>3, <1>4, MqTop
  <1>6. s[1] = c /\ Proper(c)
    BY <1>5, MqShape
  <1> QED BY <1>1, <1>3, <1>5, <1>6

LEMMA Settled ==
  ASSUME Tallied, UNCHANGED <<count, stored>>, NEW c, NEW g,
         \A q \in WaitQueue : HasToken(c, q) <=> HasToken(g, q)
  PROVE  Settles(c, g)
  BY SettledAlready DEF Tallied

(* From one frame of a call to the next, with or without a call.           *)
LEMMA MqWithin ==
  ASSUME MqIInv, SemIInv', Rings', ~ResumeAtElr, UNCHANGED <<current, contexts>>,
         Top.pc \in OuterLabel \ {"create"}, NEW g \in FrameType,
         g.pc \in OuterLabel \ {"create"}, Proper(g), Settles(Top, g),
         Step(g) \/ \E w \in FrameType :
           w.pc \in Silent \ Switching /\ cpu' = <<w>> \o (<<g>> \o Tail(cpu))
  PROVE  Tallied'
  <1>1. PICK calls \in [Task -> FrameType] : Fleet(calls) /\ Balanced(calls)
    BY DEF MqIInv, Tallied
  <1>2. IInv /\ Counts /\ Counts' /\ Rings /\ IInv'
    BY DEF MqIInv, SemIInv
  <1>3. PICK u, c : u = current /\ c = calls[u]
    OBVIOUS
  <1>4. /\ u \in Task /\ cpu \in MqStack(u, c) /\ Top = cpu[1]
        /\ ~InSwitch(Tail(cpu)) /\ Tail(cpu) \in Seq(FrameType)
    BY <1>1, <1>2, <1>3, MqTop, CpuStack
  <1>5. PICK r : r = <<g>> \o Tail(cpu)
    OBVIOUS
  <1>6. c = Top /\ r \in MqStack(u, g)
    <2>1. PICK s : s = cpu
      OBVIOUS
    <2>2. u \in Task /\ s \in MqStack(u, c) /\ s[1].pc \in OuterLabel
      BY <1>4, <2>1
    <2>3. s[1] = c /\ Tail(s) \in Belongs(u) /\ Len(Tail(s)) = 1
      BY <2>2, MqShape, MqBase
    <2>4. PICK b : b = Tail(s)
      OBVIOUS
    <2>5. <<g>> \o b \in MqStack(u, g)
      BY <1>4, <2>3, <2>4, OuterStack
    <2> QED BY <1>4, <1>5, <2>1, <2>3, <2>4, <2>5
  <1>7. g.pc \notin Switching
    BY DEF OuterLabel, MqLabel, Switching
  <1>8. r \in Seq(FrameType) /\ ~InSwitch(r)
    BY <1>4, <1>5, <1>7, NoSwitchPush, PushedStack
  <1>9. cpu' \in MqStack(u, g) /\ ~InSwitch(cpu')
    <2>1. CASE Step(g)
      BY <1>5, <1>6, <1>8, <2>1 DEF Step
    <2>2. CASE \E w \in FrameType : w.pc \in Silent \ Switching /\ cpu' = <<w>> \o r
      <3>1. PICK w \in FrameType : w.pc \in Silent \ Switching /\ cpu' = <<w>> \o r
        BY <2>2
      <3>2. <<w>> \o r \in MqStack(u, g)
        BY <1>4, <1>6, <3>1, MqPush
      <3>3. ~InSwitch(<<w>> \o r)
        BY <1>8, <3>1, NoSwitchPush
      <3> QED BY <3>1, <3>2, <3>3
    <2> QED BY <1>5, <2>1, <2>2
  <1> QED BY <1>1, <1>2, <1>3, <1>6, <1>9, MqMove

(* The call of the acquire. *)
LEMMA MqEnter ==
  ASSUME MqIInv, ~ResumeAtElr, At("user"), NEW f \in FrameType,
         f.pc \in {"send_got", "recv_got"}, f.num = 0, f.queue \in WaitQueue, Proper(f),
         NEW n \in Int, AcquireFrom(f, n), UNCHANGED <<kernel, count, held, ring>>
  PROVE  MqIInv'
  <1>1. PICK calls \in [Task -> FrameType] : Fleet(calls) /\ Balanced(calls)
    BY DEF MqIInv, Tallied
  <1>2. IInv /\ Counts /\ Rings /\ Top.pc = "user" /\ UNCHANGED <<current, contexts>>
    BY DEF MqIInv, SemIInv, At, kernel, sched
  <1>3. PICK u, c : u = current /\ c = calls[u]
    OBVIOUS
  <1>4. /\ u \in Task /\ cpu \in MqStack(u, c) /\ Top = cpu[1] /\ ~InSwitch(cpu)
        /\ cpu \in Seq(FrameType) /\ Labels = Label
    BY <1>1, <1>2, <1>3, MqTop, CpuStack
  <1>5. PICK a : a = [TaskFrame("acquire", NULL, n) EXCEPT !.queue = f.queue]
    OBVIOUS
  <1>6. /\ FrameOK(a, HasContext, Labels) /\ a \in FrameType
        /\ a.pc = "acquire" /\ a.queue = f.queue
    <2>1. FrameOK(a, HasContext, Labels)
      BY <1>4, <1>5, MqWords, QueueFrameOK DEF SemLabel
    <2> QED BY <1>5, <2>1 DEF FrameOK, TaskFrame
  <1>7. PICK r : r = <<f>> \o cpu
    OBVIOUS
  <1>8. cpu' = <<a>> \o r
    BY <1>4, <1>5, <1>6, <1>7, TwoPushed DEF AcquireFrom
  <1>9. StackOK(cpu', HasContext, Labels)
    <2>1. FrameOK(f, HasContext, Labels)
      BY <1>4, MqFrameOK DEF MqLabel
    <2>2. StackOK(r, HasContext, Labels)
      BY <1>2, <1>7, <2>1, StackPush DEF IInv, Executing
    <2> QED BY <1>6, <1>8, <2>2, StackPush
  <1>10. SemIInv'
    BY <1>2, <1>9, KernelKept, CountsKept DEF SemIInv
  <1>11. /\ c.pc \notin OuterLabel /\ r \in MqStack(u, f) /\ Len(r) = 2
    <2>1. PICK s : s = cpu
      OBVIOUS
    <2>2. Len(s) = 1 /\ c.pc \notin OuterLabel /\ s \in Belongs(u)
      BY <1>2, <1>4, <2>1, MqShape
    <2>3. f.pc \in OuterLabel
      BY DEF OuterLabel, MqLabel
    <2>4. Len(r) = 2
      <3>1. Len(r) = Len(cpu) + 1
        BY <1>4, <1>7, PushedStack
      <3>2. Len(cpu) = 1
        BY <2>1, <2>2
      <3> QED BY <3>1, <3>2
    <2> QED BY <1>4, <1>7, <2>1, <2>2, <2>3, <2>4, OuterStack
  <1>12. <<a>> \o r \in MqStack(u, f)
    <2>1. f.pc \in OuterLabel /\ Acquires(a, f)
      BY <1>6 DEF OuterLabel, MqLabel, Acquires, AcquireLabel
    <2> QED BY <1>4, <1>6, <1>11, <2>1, MqPush
  <1>13. ~InSwitch(cpu')
    <2>1. r \in Seq(FrameType) /\ ~InSwitch(r)
      BY <1>4, <1>7, NoSwitchPush, PushedStack DEF Switching
    <2> QED BY <1>6, <1>8, <2>1, NoSwitchPush DEF Switching
  <1>14. \A q \in WaitQueue : ~HasToken(c, q) /\ ~HasToken(f, q)
    <2>1. \A q : ~HasToken(f, q)
      BY DEF HasToken
    <2> QED BY <1>11, <2>1, TokenLabels
  <1>15. Rings' /\ stored' = stored /\ count' = count
    BY <1>2, RingsKept
  <1>16. Settles(c, f)
    BY <1>1, <1>14, <1>15, SettledAlready
  <1>17. Tallied'
    BY <1>1, <1>2, <1>3, <1>8, <1>10, <1>12, <1>13, <1>15, <1>16, MqMove DEF SemIInv
  <1> QED BY <1>10, <1>15, <1>17 DEF MqIInv

LEMMA MqUser ==
  ASSUME MqIInv, ~ResumeAtElr, UserSend \/ UserReceive
  PROVE  MqIInv'
  <1>1. current \in Task
    <2>1. Top.pc = "user" /\ IInv
      BY DEF UserSend, UserReceive, At, MqIInv, SemIInv
    <2> QED BY <2>1, InTaskCode DEF EarlyLabel
  <1>2. Timeouts[current] \subseteq Int
    BY <1>1, SemaphoreAssumption
  <1>3. CASE UserSend
    <2>1. PICK m \in Mq, v \in Msg, n \in Timeouts[current] :
            AcquireFrom([Frame("send_got") EXCEPT !.queue = putsem(m), !.abs = v], n)
      BY <1>3 DEF UserSend
    <2> DEFINE f == [Frame("send_got") EXCEPT !.queue = putsem(m), !.abs = v]
    <2>2. putsem(m) \in WaitQueue /\ v \in Int /\ "send_got" \in Label /\ n \in Int
      BY <1>2, MqWords, MessageQueueAssumption DEF MqLabel
    <2>3. /\ f \in FrameType /\ f.pc = "send_got" /\ f.num = 0 /\ f.queue = putsem(m)
          /\ f.abs = v
      <3>1. PICK b : b = Frame("send_got")
        OBVIOUS
      <3>2. b \in FrameType /\ b.pc = "send_got" /\ b.num = 0
        BY <2>2, <3>1 DEF FrameType, Frame, TaskFrame
      <3>3. f = [b EXCEPT !.queue = putsem(m), !.abs = v]
        BY <3>1
      <3> HIDE DEF f
      <3> QED BY <2>2, <3>2, <3>3 DEF FrameType
    <2>4. AcquireFrom(f, n)
      BY <2>1
    <2> HIDE DEF f
    <2>5. Proper(f)
      BY <2>3 DEF Proper
    <2> QED BY <1>3, <2>2, <2>3, <2>4, <2>5, MqEnter DEF UserSend
  <1>4. CASE UserReceive
    <2>1. PICK m \in Mq, n \in Timeouts[current] :
            AcquireFrom([Frame("recv_got") EXCEPT !.queue = getsem(m)], n)
      BY <1>4 DEF UserReceive
    <2> DEFINE f == [Frame("recv_got") EXCEPT !.queue = getsem(m)]
    <2>2. getsem(m) \in WaitQueue /\ "recv_got" \in Label /\ n \in Int
      BY <1>2, MqWords DEF MqLabel
    <2>3. /\ f \in FrameType /\ f.pc = "recv_got" /\ f.num = 0 /\ f.queue = getsem(m)
      BY <2>2 DEF FrameType, Frame, TaskFrame
    <2>4. AcquireFrom(f, n)
      BY <2>1
    <2> HIDE DEF f
    <2>5. Proper(f)
      BY <2>3 DEF Proper
    <2> QED BY <1>4, <2>2, <2>3, <2>4, <2>5, MqEnter DEF UserReceive
  <1> QED BY <1>3, <1>4

(* The call has the slot or the message it waited for, or fails.           *)
LEMMA MqGot ==
  ASSUME MqIInv, ~ResumeAtElr, SendGot \/ ReceiveGot
  PROVE  MqIInv'
  <1>1. /\ Top.pc \in {"send_got", "recv_got"} /\ Top.pc \in MqLabel
        /\ UNCHANGED <<tcb, periods, queues, timer, current, contexts, count, held, ring>>
    BY DEF SendGot, ReceiveGot, At, MqLabel
  <1>2. PICK l \in {"send_idx", "recv_idx"} :
          /\ LockRing(l)
          /\ \/ Top.pc = "send_got" /\ l = "send_idx"
             \/ Top.pc = "recv_got" /\ l = "recv_idx"
    BY DEF SendGot, ReceiveGot, At
  <1>3. /\ IInv /\ Labels = Label /\ Top \in FrameType /\ Top.pc \in OuterLabel \ {"create"}
        /\ Top.pc \notin BottomLabel /\ Top.pc # "restore" /\ Proper(Top)
    BY <1>1, MqAt
  <1>4. Top.num \in {0, 1}
    BY <1>1, <1>3 DEF Proper
  <1>5. PICK g : g = [Top EXCEPT !.pc = l]
    OBVIOUS
  <1>6. g \in FrameType /\ g.pc = l /\ g.queue = Top.queue /\ g.abs = Top.abs
    BY <1>3, <1>5, MqWords DEF FrameType, MqLabel
  <1>7. (Return /\ Top.num = 0) \/ (Step(g) /\ Top.num = 1)
    BY <1>2, <1>4, <1>5 DEF LockRing, Goto
  <1>8. StackOK(cpu', HasContext, Labels)
    <2>1. FrameOK(g, HasContext, Labels)
      BY <1>3, <1>6, MqFrameOK DEF MqLabel
    <2> QED BY <1>3, <1>7, <2>1, ReturnOK, StepOK
  <1>9. lock' \in {"LOCKED", "UNLOCKED"}
    BY <1>2, <1>3 DEF LockRing, IInv, Values
  <1>10. SemIInv'
    BY <1>1, <1>3, <1>8, <1>9, LockOK, CountsKept DEF MqIInv, SemIInv
  <1>11. Rings' /\ stored' = stored
    BY <1>1, RingsKept DEF MqIInv
  <1>12. Tallied'
    <2>1. CASE Return /\ Top.num = 0
      <3>1. \A q \in WaitQueue : ~HasToken(Top, q)
        BY <1>1, <2>1 DEF HasToken
      <3> QED BY <1>1, <1>3, <1>10, <1>11, <2>1, <3>1, MqEnd
    <2>2. CASE Step(g) /\ Top.num = 1
      <3>1. \A q \in WaitQueue : HasToken(Top, q) <=> HasToken(g, q)
        BY <1>1, <1>6, <2>2 DEF HasToken
      <3>2. Settles(Top, g)
        BY <1>1, <1>11, <3>1, Settled DEF MqIInv
      <3>3. g.pc \in OuterLabel \ {"create"} /\ Proper(g)
        BY <1>2, <1>3, <1>6 DEF OuterLabel, MqLabel, Proper
      <3> QED BY <1>1, <1>3, <1>6, <1>10, <1>11, <2>2, <3>2, <3>3, MqWithin
    <2> QED BY <1>7, <2>1, <2>2
  <1> QED BY <1>10, <1>11, <1>12 DEF MqIInv

(* The slot is taken. *)
LEMMA MqIndex ==
  ASSUME MqIInv, ~ResumeAtElr, SendIndex \/ ReceiveIndex
  PROVE  MqIInv'
  <1>1. /\ Top.pc \in {"send_idx", "recv_idx"} /\ Top.pc \in MqLabel
        /\ UNCHANGED <<kernel, count, held, stored>>
    BY DEF SendIndex, ReceiveIndex, At, MqLabel
  <1>2. /\ IInv /\ Labels = Label /\ Top \in FrameType /\ Top.pc \in OuterLabel \ {"create"}
        /\ Top.pc \notin BottomLabel /\ Top.pc # "restore" /\ Proper(Top) /\ Rings
    BY <1>1, MqAt
  <1>3. This \in Mq /\ QueueSize[This] \in Nat
    BY <1>1, <1>2, MqWords, MessageQueueAssumption DEF Proper, This
  <1>4. \A i \in Int : After(i) \in Int
    BY DEF After
  <1>5. Rings'
    <2>1. After(rear[This]) \in Int /\ After(front[This]) \in Int
      BY <1>2, <1>3, <1>4 DEF Rings
    <2>2. /\ front' = front \/ front' = [front EXCEPT ![This] = After(front[This])]
          /\ rear' = rear \/ rear' = [rear EXCEPT ![This] = After(rear[This])]
      BY DEF SendIndex, ReceiveIndex
    <2> QED BY <1>1, <1>2, <1>3, <2>1, <2>2 DEF Rings
  <1>6. PICK l \in {"send_copy", "recv_copy"}, n \in Int :
          /\ Step([Top EXCEPT !.pc = l, !.num = n])
          /\ \/ Top.pc = "send_idx" /\ l = "send_copy"
             \/ Top.pc = "recv_idx" /\ l = "recv_copy"
    <2>1. rear[This] \in Int /\ front[This] \in Int
      BY <1>2, <1>3 DEF Rings
    <2> QED BY <2>1 DEF SendIndex, ReceiveIndex, At
  <1>7. PICK g : g = [Top EXCEPT !.pc = l, !.num = n]
    OBVIOUS
  <1>8. g \in FrameType /\ g.pc = l /\ g.queue = Top.queue /\ g.abs = Top.abs /\ Step(g)
    BY <1>2, <1>6, <1>7, MqWords DEF FrameType, MqLabel
  <1>9. FrameOK(g, HasContext, Labels)
    BY <1>2, <1>8, MqFrameOK DEF MqLabel
  <1>10. SemIInv'
    BY <1>1, <1>2, <1>8, <1>9, StepOK, KernelKept, CountsKept DEF MqIInv, SemIInv
  <1>11. \A q \in WaitQueue : HasToken(Top, q) <=> HasToken(g, q)
    BY <1>6, <1>8 DEF HasToken
  <1>12. Settles(Top, g)
    BY <1>1, <1>11, Settled DEF MqIInv
  <1>13. g.pc \in OuterLabel \ {"create"} /\ Proper(g)
    BY <1>2, <1>6, <1>8 DEF OuterLabel, MqLabel, Proper
  <1>14. UNCHANGED <<current, contexts>>
    BY <1>1 DEF kernel, sched
  <1>15. Tallied'
    BY <1>2, <1>5, <1>8, <1>10, <1>12, <1>13, <1>14, MqWithin
  <1> QED BY <1>5, <1>10, <1>15 DEF MqIInv

(* A message goes into the ring or out of it: the token of the one side    *)
(* becomes a token of the other.                                           *)
LEMMA MqCopy ==
  ASSUME MqIInv, ~ResumeAtElr, SendCopy \/ ReceiveCopy
  PROVE  MqIInv'
  <1>1. /\ Top.pc \in {"send_copy", "recv_copy"} /\ Top.pc \in MqLabel
        /\ UNCHANGED <<tcb, periods, queues, timer, current, contexts, count, held,
                       front, rear>>
    BY DEF SendCopy, ReceiveCopy, At, MqLabel
  <1>2. /\ IInv /\ Labels = Label /\ Top \in FrameType /\ Top.pc \in OuterLabel \ {"create"}
        /\ Top.pc \notin BottomLabel /\ Top.pc # "restore" /\ Proper(Top) /\ Rings /\ Counts
    BY <1>1, MqAt
  <1>3. PICK m \in Mq : \/ Top.pc = "send_copy" /\ Top.queue = putsem(m)
                        \/ Top.pc = "recv_copy" /\ Top.queue = getsem(m)
    BY <1>1, <1>2 DEF Proper
  <1>4. This = m /\ stored[m] \in Int
    BY <1>2, <1>3, MqWords DEF This, Rings
  <1>5. PICK l \in {"send_rel", "recv_rel"}, d \in {1, -1} :
          /\ Call(Frame("schedule"), l) /\ lock' = "UNLOCKED"
          /\ stored' = [stored EXCEPT ![m] = stored[m] + d]
          /\ \/ Top.pc = "send_copy" /\ l = "send_rel" /\ d = 1
             \/ Top.pc = "recv_copy" /\ l = "recv_rel" /\ d = -1
    <2>1. CASE SendCopy
      <3>1. /\ Call(Frame("schedule"), "send_rel") /\ lock' = "UNLOCKED" /\ Top.pc = "send_copy"
            /\ stored' = [stored EXCEPT ![m] = stored[m] + 1]
        BY <1>4, <2>1 DEF SendCopy, RestoreLock, At
      <3> QED BY <3>1
    <2>2. CASE ReceiveCopy
      <3>1. /\ Call(Frame("schedule"), "recv_rel") /\ lock' = "UNLOCKED" /\ Top.pc = "recv_copy"
            /\ stored' = [stored EXCEPT ![m] = stored[m] - 1]
        BY <1>4, <2>2 DEF ReceiveCopy, RestoreLock, At
      <3>2. stored[m] - 1 = stored[m] + (-1)
        BY <1>4
      <3> QED BY <3>1, <3>2
    <2> QED BY <2>1, <2>2
  <1>6. PICK g : g = [Top EXCEPT !.pc = l]
    OBVIOUS
  <1>7. g \in FrameType /\ g.pc = l /\ g.queue = Top.queue
    BY <1>2, <1>6, MqWords DEF FrameType, MqLabel
  <1>8. PICK w : w = Frame("schedule")
    OBVIOUS
  <1>9. /\ FrameOK(w, HasContext, Labels) /\ w \in FrameType /\ w.pc = "schedule"
    <2>1. FrameOK(w, HasContext, Labels)
      BY <1>2, <1>8, MqWords, NewFrameOK
    <2> QED BY <1>8, <2>1 DEF FrameOK, Frame, TaskFrame
  <1>10. SemIInv'
    <2>1. FrameOK(g, HasContext, Labels)
      BY <1>2, <1>7, MqFrameOK DEF MqLabel
    <2>2. StackOK(cpu', HasContext, Labels)
      BY <1>2, <1>5, <1>6, <1>8, <1>9, <2>1, CallOK
    <2> QED BY <1>1, <1>2, <1>5, <2>2, LockOK, CountsKept DEF SemIInv
  <1>11. Rings'
    <2>1. stored[m] + d \in Int
      BY <1>4
    <2> QED BY <1>1, <1>2, <1>5, <2>1 DEF Rings
  <1>12. cpu' = <<w>> \o (<<g>> \o Tail(cpu))
    BY <1>2, <1>5, <1>6, <1>7, <1>8, <1>9, CpuStack, TwoPushed DEF Call
  <1>13. w.pc \in Silent \ Switching
    BY <1>9 DEF Silent, Switching, CallLabel, KernelLabel, BottomLabel
  <1>14. Settles(Top, g)
    <2> SUFFICES ASSUME NEW q \in WaitQueue
                 PROVE  /\ count'[q] >= 0
                        /\ count'[q] + One(HasToken(g, q)) + Supply(q)
                             = count[q] + One(HasToken(Top, q)) + Supply(q)'
      BY DEF Settles
    <2>1. count[q] \in Int /\ count[q] >= 0 /\ count'[q] = count[q]
      BY <1>1, <1>2, SemaphoreAssumption DEF Counts, MqIInv, Tallied, Balanced
    <2>2. /\ QueueSize[m] \in Int /\ stored'[m] = stored[m] + d
          /\ \A k \in Mq : k # m => stored'[k] = stored[k]
      <3>1. QueueSize[m] \in Int
        BY MessageQueueAssumption
      <3>2. stored \in [Mq -> Int] /\ stored' = [stored EXCEPT ![m] = stored[m] + d]
        BY <1>2, <1>5 DEF Rings
      <3> QED BY <3>1, <3>2
    <2>3. putsem(m)[1] = m /\ getsem(m)[1] = m /\ putsem(m) # getsem(m)
          /\ putsem(m)[2] = "put" /\ getsem(m)[2] = "get"
      BY MqWords
    <2>4. (HasToken(Top, q) <=> q = Top.queue) /\ Top.queue[1] = m
      BY <1>3, <2>3 DEF HasToken
    <2>5. HasToken(g, q) <=> q = IF d = 1 THEN getsem(m) ELSE putsem(m)
      BY <1>3, <1>5, <1>7, <2>3 DEF HasToken
    <2>6. One(HasToken(Top, q)) = IF q = Top.queue THEN 1 ELSE 0
      BY <2>4 DEF One
    <2>7. One(HasToken(g, q)) = IF q = (IF d = 1 THEN getsem(m) ELSE putsem(m)) THEN 1 ELSE 0
      BY <2>5 DEF One
    <2>8. CASE q = putsem(m)
      <3>1. Supply(q) = QueueSize[m] - stored[m] /\ Supply(q)' = QueueSize[m] - (stored[m] + d)
        BY <2>2, <2>3, <2>8 DEF Supply
      <3>2. /\ One(HasToken(Top, q)) = IF d = 1 THEN 1 ELSE 0
            /\ One(HasToken(g, q)) = IF d = 1 THEN 0 ELSE 1
        BY <1>3, <1>5, <2>3, <2>6, <2>7, <2>8
      <3> QED BY <1>4, <2>1, <2>2, <3>1, <3>2
    <2>9. CASE q = getsem(m)
      <3>1. Supply(q) = stored[m] /\ Supply(q)' = stored[m] + d
        BY <2>2, <2>3, <2>9 DEF Supply
      <3>2. /\ One(HasToken(Top, q)) = IF d = 1 THEN 0 ELSE 1
            /\ One(HasToken(g, q)) = IF d = 1 THEN 1 ELSE 0
        BY <1>3, <1>5, <2>3, <2>6, <2>7, <2>9
      <3> QED BY <1>4, <2>1, <3>1, <3>2
    <2>10. CASE q # putsem(m) /\ q # getsem(m)
      <3>1. q[1] \in Mq /\ q[1] # m
        BY <2>10, MqWords
      <3>2. Supply(q)' = Supply(q)
        BY <2>2, <3>1 DEF Supply
      <3>3. One(HasToken(Top, q)) = 0 /\ One(HasToken(g, q)) = 0
        BY <1>3, <2>6, <2>7, <2>10
      <3> QED BY <2>1, <3>2, <3>3
    <2> QED BY <2>8, <2>9, <2>10
  <1>15. g.pc \in OuterLabel \ {"create"} /\ Proper(g)
    BY <1>3, <1>5, <1>7 DEF OuterLabel, MqLabel, Proper
  <1>16. Tallied'
    BY <1>1, <1>2, <1>7, <1>9, <1>10, <1>11, <1>12, <1>13, <1>14, <1>15, MqWithin
  <1> QED BY <1>10, <1>11, <1>16 DEF MqIInv

(* The other side is told. *)
LEMMA MqTell ==
  ASSUME MqIInv, ~ResumeAtElr, SendRelease \/ ReceiveRelease
  PROVE  MqIInv'
  <1>1. /\ Top.pc \in {"send_rel", "recv_rel"} /\ Top.pc \in MqLabel
        /\ UNCHANGED <<kernel, count, held, ring>>
    BY DEF SendRelease, ReceiveRelease, At, MqLabel
  <1>2. /\ IInv /\ Labels = Label /\ Top \in FrameType /\ Top.pc \in OuterLabel \ {"create"}
        /\ Top.pc \notin BottomLabel /\ Top.pc # "restore" /\ Proper(Top)
    BY <1>1, MqAt
  <1>3. Top.queue[1] \in Mq
    BY <1>1, <1>2, MqWords DEF Proper
  <1>4. PICK q \in WaitQueue :
          /\ Step([Frame("release") EXCEPT !.queue = q])
          /\ \/ Top.pc = "send_rel" /\ q = getsem(Top.queue[1])
             \/ Top.pc = "recv_rel" /\ q = putsem(Top.queue[1])
    BY <1>3, MqWords DEF SendRelease, ReceiveRelease, At, This
  <1>5. PICK g : g = [Frame("release") EXCEPT !.queue = q]
    OBVIOUS
  <1>6. FrameOK(g, HasContext, Labels) /\ g \in FrameType /\ g.pc = "release" /\ g.queue = q
    <2>1. "release" \in Label
      BY MqWords DEF SemLabel
    <2>2. FrameOK(g, HasContext, Labels)
      BY <1>2, <1>5, <2>1, QueueFrameOK DEF Frame
    <2> QED BY <1>5, <2>2 DEF FrameOK, Frame, TaskFrame
  <1>7. SemIInv'
    BY <1>1, <1>2, <1>4, <1>5, <1>6, StepOK, KernelKept, CountsKept DEF MqIInv, SemIInv
  <1>8. Rings' /\ stored' = stored /\ count' = count /\ UNCHANGED <<current, contexts>>
    BY <1>1, RingsKept DEF MqIInv, kernel, sched
  <1>9. \A p \in WaitQueue : HasToken(Top, p) <=> HasToken(g, p)
    BY <1>4, <1>6 DEF HasToken
  <1>10. Settles(Top, g)
    BY <1>8, <1>9, Settled DEF MqIInv
  <1>11. g.pc \in OuterLabel \ {"create"} /\ Proper(g)
    BY <1>6 DEF OuterLabel, Proper
  <1>12. Tallied'
    BY <1>2, <1>4, <1>5, <1>6, <1>7, <1>8, <1>10, <1>11, MqWithin
  <1> QED BY <1>7, <1>8, <1>12 DEF MqIInv

-----------------------------------------------------------------------------
(* The steps of the kernel. *)

LEMMA BalancedKept ==
  ASSUME NEW calls, Balanced(calls), UNCHANGED <<count, stored>>
  PROVE  Balanced(calls)'
  BY DEF Balanced, Holders, Supply

LEMMA MqKernel ==
  ASSUME MqIInv, SemIInv', "restore" \notin IrqPoints, ~ResumeAtElr,
         UNCHANGED <<count, stored>>, ~Create, ~UserCreate,
         Next \/ WaitInQueue \/ Waiting \/ Wakeup \/ MakeReady \/ UNCHANGED vars
  PROVE  Tallied'
  <1>1. PICK calls \in [Task -> FrameType] : Fleet(calls) /\ Balanced(calls)
    BY DEF MqIInv, Tallied
  <1>2. IInv /\ IInv'
    BY DEF MqIInv, SemIInv
  <1>3. HasContext' = HasContext /\ (current # NULL => current' # NULL)
    BY <1>2, ContextsStay
  <1>4. PICK Q : Q = MqStacks(calls)
    OBVIOUS
  <1>5. StacksIn(Q) /\ CallClosed(Q)
    BY <1>1, <1>4, MqClosed DEF Fleet
  <1>6. StacksIn(Q)'
    BY <1>2, <1>5, KernelStacksBut
  <1>7. Fleet(calls)'
    BY <1>1, <1>3, <1>4, <1>6 DEF Fleet
  <1> QED BY <1>1, <1>7, BalancedKept DEF Tallied

(* eos_create_task: the new task has no call yet.                          *)
LEMMA NewStackMq ==
  ASSUME NEW t \in Task, NEW c, c.pc \notin OuterLabel
  PROVE  NewStack(t) \in MqStack(t, c) /\ NewStack(t) # <<>>
  <1>1. PICK s : s = NewStack(t)
    OBVIOUS
  <1>2. s \in Belongs(t) /\ Len(s) = 1
    BY <1>1, NewBelongs DEF NewStack
  <1> QED BY <1>1, <1>2, CodeStack, BelongsFacts

LEMMA MqCreate ==
  ASSUME MqIInv, SemIInv', Rings', ~ResumeAtElr, UNCHANGED <<count, stored>>, Create
  PROVE  Tallied'
  <1>1. PICK calls \in [Task -> FrameType] : Fleet(calls) /\ Balanced(calls)
    BY DEF MqIInv, Tallied
  <1>2. IInv /\ Counts /\ Counts' /\ Rings /\ IInv' /\ ctx \in [Task -> Seq(FrameType)]
    BY DEF MqIInv, SemIInv, IInv, Contexts
  <1>3. PICK t : t = Top.task
    OBVIOUS
  <1>4. Top.pc = "create" /\ t \in Task /\ current' = current
        /\ ctx' = [ctx EXCEPT ![t] = NewStack(t)]
    BY <1>2, <1>3, TopFrame DEF Create, At, FrameOK, NewStack, sched
  <1>5. PICK f : f = [Top EXCEPT !.pc = "created"]
    OBVIOUS
  <1>6. f \in FrameType /\ f.pc = "created" /\ cpu' = <<f>> \o Tail(cpu) /\ Top'.pc # "restore"
    <2>1. cpu' = <<f>> \o Tail(cpu)
      BY <1>5 DEF Create, Goto, Step
    <2>2. f \in FrameType /\ cpu'[1] = f
      BY <1>2, <2>1, NewTop, CpuStack
    <2>3. f.pc = "created"
      BY <1>2, <1>5, CpuStack DEF FrameType
    <2> QED BY <2>1, <2>2, <2>3 DEF Top
  <1>7. NewStack(t) # <<>> /\ \A c : c.pc \notin OuterLabel => NewStack(t) \in MqStack(t, c)
    <2>1. NoCall.pc \notin OuterLabel
      BY DEF NoCall, Frame, TaskFrame, OuterLabel, MqLabel
    <2> QED BY <1>4, <2>1, NewStackMq
  <1>8. /\ HasContext' = HasContext \cup {t} /\ ctx'[t] = NewStack(t)
        /\ \A u \in Task : u # t => ctx'[u] = ctx[u]
    BY <1>2, <1>4, <1>7 DEF HasContext
  <1>9. CASE current = NULL
    <2>1. \A u \in Task : calls[u].pc \notin OuterLabel /\ calls[u].pc # "create"
      BY <1>1, <1>9, MqLabels DEF Fleet
    <2>2. PICK Q : Q = MqStacks(calls)
      OBVIOUS
    <2>3. StacksIn(Q) /\ Q[t] = MqStack(t, calls[t])
      BY <1>1, <1>4, <2>2 DEF Fleet, MqStacks
    <2>4. StacksIn(Q)'
      BY <1>4, <1>7, <1>8, <1>9, <2>1, <2>3 DEF StacksIn, HasContext
    <2>5. Fleet(calls)'
      BY <2>1, <2>2, <2>4 DEF Fleet
    <2> QED BY <1>1, <2>5, BalancedKept DEF Tallied
  <1>10. CASE current # NULL
    <2>1. PICK u, c : u = current /\ c = calls[u]
      OBVIOUS
    <2>2. PICK Q : Q = MqStacks(calls)
      OBVIOUS
    <2>3. /\ u \in Task /\ c \in FrameType /\ cpu \in MqStack(u, c) /\ Top = cpu[1] /\ StacksIn(Q)
          /\ \A v \in Task : Q[v] = MqStack(v, calls[v])
      <3>1. StacksIn(Q) /\ CallClosed(Q)
        BY <1>1, <2>2, MqClosed DEF Fleet
      <3>2. u \in Task /\ cpu \in Q[u]
        BY <1>2, <1>4, <1>10, <2>1, <3>1, CurrentStack
      <3> QED BY <1>1, <2>1, <2>2, <3>1, <3>2 DEF MqStacks, Top
    <2>4. PICK r : r = Tail(cpu)
      OBVIOUS
    <2>5. c = Top /\ r \in Belongs(u) /\ Len(r) = 1
      <3>1. PICK s : s = cpu
        OBVIOUS
      <3>2. u \in Task /\ s \in MqStack(u, c) /\ s[1].pc \in OuterLabel
        BY <1>4, <2>3, <3>1, MqLabels
      <3>3. s[1] = c /\ Tail(s) \in Belongs(u) /\ Len(Tail(s)) = 1
        BY <3>2, MqShape, MqBase
      <3> QED BY <2>3, <2>4, <3>1, <3>3
    <2>6. NoCall.pc \notin OuterLabel /\ NoCall.pc # "create" /\ NoCall \in FrameType
      BY Constants DEF NoCall, Frame, TaskFrame, OuterLabel, MqLabel, FrameType, KernelLabel
    <2>7. cpu' \in MqStack(u, NoCall) /\ ~InSwitch(cpu')
      <3>1. r \in MqStack(u, NoCall)
        BY <2>3, <2>5, <2>6, CodeStack
      <3>2. f.pc \in Silent \ Switching
        BY <1>6 DEF Silent, Switching, CallLabel, KernelLabel, BottomLabel
      <3>3. <<f>> \o r \in MqStack(u, NoCall)
        BY <1>6, <2>3, <3>1, <3>2, MqPush
      <3>4. r \in Seq(FrameType) /\ ~InSwitch(r)
        <4>1. r[1].pc \in {"user", "idle"}
          BY <2>5 DEF Belongs
        <4>2. r[1].pc \notin CallLabel
          BY <4>1, MqLabels
        <4> QED BY <2>3, <2>5, <4>2, BelongsFacts
      <3>5. ~InSwitch(<<f>> \o r)
        BY <1>6, <3>2, <3>4, NoSwitchPush
      <3> QED BY <1>6, <2>4, <3>3, <3>5
    <2>8. PICK next : next = [calls EXCEPT ![u] = NoCall]
      OBVIOUS
    <2>9. next \in [Task -> FrameType] /\ next[u] = NoCall
          /\ \A v \in Task : v # u => next[v] = calls[v]
      BY <2>3, <2>6, <2>8
    <2>10. /\ c.pc = "create" /\ c.task = t /\ t \notin HasContext /\ t # u /\ u \in HasContext
           /\ calls[t].pc \notin OuterLabel
           /\ \A v \in Task \ {u} : calls[v].pc = "create" => calls[v].task # t
      <3>1. c.pc = "create" /\ c.task = t /\ c.pc \in OuterLabel
        BY <1>3, <1>4, <2>5, MqLabels
      <3>2. t \notin HasContext /\ u \in HasContext
            /\ \A v \in Task \ {u} : calls[v].pc = "create" => calls[v].task # t
        BY <1>1, <2>1, <2>3, <3>1 DEF Fleet
      <3> QED BY <1>1, <1>4, <3>1, <3>2 DEF Fleet
    <2>11. PICK R : R = MqStacks(next)
      OBVIOUS
    <2>12. \A v \in Task : R[v] = MqStack(v, next[v])
      BY <2>11 DEF MqStacks
    <2>13. \A v \in HasContext' : v # u => ctx'[v] \in R[v]
      <3> SUFFICES ASSUME NEW v \in HasContext', v # u PROVE ctx'[v] \in R[v]
        OBVIOUS
      <3>1. v \in Task /\ R[v] = Q[v] /\ R[v] = MqStack(v, calls[v])
        BY <2>3, <2>9, <2>12 DEF HasContext
      <3>2. CASE v = t
        BY <1>7, <1>8, <2>10, <3>1, <3>2
      <3>3. CASE v # t
        BY <1>8, <2>1, <2>3, <3>1, <3>3 DEF StacksIn
      <3> QED BY <3>2, <3>3
    <2>14. StacksIn(R)'
      BY <1>4, <1>6, <1>10, <2>1, <2>3, <2>7, <2>9, <2>12, <2>13 DEF StacksIn, At
    <2>15. Fleet(next)'
      <3>1. \A v \in Task : next[v].pc \in OuterLabel => v # u /\ v \in HasContext'
        BY <1>1, <1>8, <2>6, <2>9 DEF Fleet
      <3>2. ASSUME NEW v \in Task, next[v].pc = "create"
            PROVE  /\ next[v].task \notin HasContext'
                   /\ \A w \in Task \ {v} : next[w].pc = "create" => next[w].task # next[v].task
        <4>1. v # u /\ next[v] = calls[v] /\ calls[v].pc = "create"
          BY <2>6, <2>9, <3>2
        <4>2. \A w \in Task : next[w].pc = "create" => next[w] = calls[w]
          BY <2>6, <2>9
        <4> QED BY <1>1, <1>8, <2>10, <4>1, <4>2 DEF Fleet
      <3> QED BY <1>4, <1>10, <2>11, <2>14, <3>1, <3>2 DEF Fleet
    <2>16. \A q \in WaitQueue : ~HasToken(c, q) /\ ~HasToken(NoCall, q)
      BY <2>6, <2>10, TokenLabels
    <2>17. Settles(c, NoCall)
      BY <1>1, <2>16, SettledAlready
    <2>18. Balanced(next)'
      BY <1>1, <1>2, <2>1, <2>3, <2>6, <2>8, <2>17, BalancedMove
    <2> QED BY <2>9, <2>15, <2>18 DEF Tallied
  <1> QED BY <1>9, <1>10

LEMMA MqUserCreate ==
  ASSUME MqIInv, SemIInv', Rings', ~ResumeAtElr, UNCHANGED <<count, stored>>, UserCreate
  PROVE  Tallied'
  <1>1. PICK calls \in [Task -> FrameType] : Fleet(calls) /\ Balanced(calls)
    BY DEF MqIInv, Tallied
  <1>2. /\ IInv /\ Counts /\ Counts' /\ Rings /\ IInv' /\ Top.pc = "user"
        /\ UNCHANGED <<current, contexts>>
    BY DEF MqIInv, SemIInv, UserCreate, At, kernel, sched
  <1>3. PICK t \in User : \E p \in CreatePriority[t] :
          ctx[t] = <<>> /\ ~Creating(t) /\ Call(TaskFrame("create", t, p), "user")
    BY DEF UserCreate, CallCreate
  <1>4. PICK f : \E p : f = TaskFrame("create", t, p) /\ Call(f, "user")
    BY <1>3
  <1>5. f \in FrameType /\ cpu' = <<f>> \o cpu
    BY <1>2, <1>3, <1>4, CallIsPush
  <1>6. f.pc = "create" /\ f.task = t /\ t \in Task
    BY <1>4, Constants DEF TaskFrame
  <1>7. PICK u, c : u = current /\ c = calls[u]
    OBVIOUS
  <1>8. /\ u \in Task /\ cpu \in MqStack(u, c) /\ Top = cpu[1] /\ ~InSwitch(cpu)
        /\ cpu \in Seq(FrameType)
    BY <1>1, <1>2, <1>7, MqTop, CpuStack
  <1>9. cpu' \in MqStack(u, f) /\ c.pc \notin OuterLabel
    <2>1. PICK s : s = cpu
      OBVIOUS
    <2>2. Len(s) = 1 /\ c.pc \notin OuterLabel /\ s \in Belongs(u)
      BY <1>2, <1>8, <2>1, MqShape
    <2>3. f.pc \in OuterLabel /\ Proper(f)
      BY <1>6, MqLabels DEF Proper
    <2>4. <<f>> \o s \in MqStack(u, f)
      BY <1>5, <1>8, <2>2, <2>3, OuterStack
    <2> QED BY <1>5, <2>1, <2>2, <2>4
  <1>10. ~InSwitch(cpu')
    BY <1>5, <1>6, <1>8, NoSwitchPush DEF Switching
  <1>11. NewTask(calls, t)
    <2>1. t \notin HasContext
      BY <1>3 DEF HasContext
    <2>2. ASSUME NEW v \in Task \ {current}, calls[v].pc = "create"
          PROVE  calls[v].task # t
      <3>1. calls[v].pc \in OuterLabel /\ v \in HasContext
        BY <1>1, <2>2, MqLabels DEF Fleet
      <3>2. PICK s, d : s = ctx[v] /\ d = calls[v]
        OBVIOUS
      <3>3. s \in MqStack(v, d)
        <4>1. StacksIn(MqStacks(calls))
          BY <1>1 DEF Fleet
        <4>2. ctx[v] \in MqStacks(calls)[v]
          BY <2>2, <3>1, <4>1 DEF StacksIn
        <4> QED BY <3>2, <4>2 DEF MqStacks
      <3>4. Len(s) > 1 /\ s[Len(s) - 1] = d /\ s \in Seq(FrameType) /\ Len(s) \in Nat
        BY <3>1, <3>2, <3>3, MqShape DEF MqStack
      <3>5. Len(s) - 1 \in DOMAIN s
        BY <3>4
      <3>6. s \in {cpu} \cup {ctx[w] : w \in Task}
        BY <3>2
      <3> QED BY <1>3, <2>2, <3>2, <3>4, <3>5, <3>6 DEF Creating
    <2> QED BY <2>1, <2>2 DEF NewTask
  <1>12. \A q \in WaitQueue : ~HasToken(c, q) /\ ~HasToken(f, q)
    BY <1>6, <1>9, TokenLabels
  <1>13. Settles(c, f)
    BY <1>1, <1>12, SettledAlready
  <1> QED BY <1>1, <1>2, <1>5, <1>6, <1>7, <1>9, <1>10, <1>11, <1>13, MqMove

-----------------------------------------------------------------------------
(* The initial state, and every step. *)

LEMMA MqInitIInv ==
  ASSUME MqInit, \A m \in Mq : QueueSize[m] < HALF
  PROVE  MqIInv
  <1>1. IInv /\ HasContext = {} /\ current = NULL
    BY InitIInv DEF MqInit, Init, HasContext
  <1>2. \A m \in Mq : QueueSize[m] \in 0 .. HALF - 1 /\ AsInt8(QueueSize[m]) = QueueSize[m]
    BY AsInt8Same, MessageQueueAssumption, SemaphoreAssumption
  <1>3. \A q \in WaitQueue : count[q] = Supply(q) /\ count[q] \in 0 .. HALF - 1
    <2> SUFFICES ASSUME NEW q \in WaitQueue
                 PROVE  count[q] = Supply(q) /\ count[q] \in 0 .. HALF - 1
      OBVIOUS
    <2>1. q[1] \in Mq
      BY MqWords
    <2>2. stored[q[1]] = 0 /\ count[q] = IF q[2] = "put" THEN AsInt8(QueueSize[q[1]]) ELSE 0
      BY <2>1 DEF MqInit
    <2>3. QueueSize[q[1]] \in 0 .. HALF - 1 /\ AsInt8(QueueSize[q[1]]) = QueueSize[q[1]]
      BY <1>2, <2>1
    <2>4. HALF \in Nat \ {0}
      BY SemaphoreAssumption
    <2> QED BY <2>2, <2>3, <2>4 DEF Supply
  <1>4. Counts
    <2>1. HALF \in Nat \ {0}
      BY SemaphoreAssumption
    <2>2. count \in [WaitQueue -> -HALF .. HALF - 1]
      <3>1. DOMAIN count = WaitQueue /\ count = [q \in WaitQueue |-> count[q]]
        BY DEF MqInit
      <3>2. \A q \in WaitQueue : count[q] \in -HALF .. HALF - 1
        BY <1>3, <2>1
      <3> QED BY <3>1, <3>2
    <2> QED BY <2>2 DEF MqInit, Counts
  <1>5. Rings
    BY DEF MqInit, Rings
  <1>6. Tallied
    <2>1. PICK calls : calls = [t \in Task |-> NoCall]
      OBVIOUS
    <2>2. NoCall \in FrameType /\ NoCall.pc = "user"
      BY Constants DEF NoCall, Frame, TaskFrame, FrameType, Label, KernelLabel
    <2>3. /\ calls \in [Task -> FrameType]
          /\ \A t \in Task : calls[t].pc \notin OuterLabel
      BY <2>1, <2>2 DEF OuterLabel, MqLabel
    <2>4. Fleet(calls)
      <3>1. StacksIn(MqStacks(calls))
        BY InitStacks DEF MqInit
      <3> QED BY <2>3, <3>1, MqLabels DEF Fleet
    <2>5. ASSUME NEW q \in WaitQueue
          PROVE  /\ count[q] >= 0 /\ IsFiniteSet(Holders(calls, q))
                 /\ count[q] + Cardinality(Holders(calls, q)) = Supply(q)
      <3>1. Holders(calls, q) = {}
        BY <2>3, TokenLabels DEF Holders
      <3>2. IsFiniteSet({}) /\ Cardinality({}) = 0
        BY FS_EmptySet
      <3>3. count[q] = Supply(q) /\ count[q] \in Int /\ count[q] >= 0
        BY <1>3, SemaphoreAssumption
      <3> QED BY <3>1, <3>2, <3>3
    <2> QED BY <2>3, <2>4, <2>5 DEF Tallied, Balanced
  <1> QED BY <1>1, <1>4, <1>5, <1>6 DEF MqIInv, SemIInv

LEMMA MqNextIInv ==
  ASSUME "restore" \notin IrqPoints, ~ResumeAtElr, {"acquire", "release"} \cap Ops = {},
         \A m \in Mq : QueueSize[m] < HALF, MqIInv, [MqNext]_mvars
  PROVE  MqIInv'
  <1>1. CASE MqStep
    BY <1>1, MqUser, MqGot, MqIndex, MqCopy, MqTell DEF MqStep
  <1>2. CASE SemNext /\ UNCHANGED ring
    <2>1. SemIInv' /\ Rings' /\ stored' = stored
      BY <1>2, SemNextIInv, RingsKept DEF MqIInv
    <2>2. CASE SemStep
      <3>1. ~UserAcquire /\ ~UserRelease
        BY DEF UserAcquire, UserRelease, UserCall
      <3> QED BY <1>2, <2>1, <2>2, <3>1, MqAcquire, MqAcquireTry, MqRelease, MqReleaseCheck
              DEF SemStep, MqIInv
    <2>3. CASE /\ Next \/ WaitInQueue \/ Waiting \/ Wakeup \/ MakeReady
               /\ UNCHANGED <<count, held>>
      <3>1. UNCHANGED <<count, stored>>
        BY <2>1, <2>3
      <3>2. Tallied'
        BY <2>1, <2>3, <3>1, MqKernel, MqCreate, MqUserCreate
      <3> QED BY <2>1, <3>2 DEF MqIInv
    <2> QED BY <1>2, <2>2, <2>3 DEF SemNext, WaitStep
  <1>3. CASE UNCHANGED mvars
    <2>1. UNCHANGED svars /\ UNCHANGED ring
      BY <1>3 DEF mvars
    <2>2. SemIInv' /\ Rings' /\ stored' = stored
      BY <2>1, SemNextIInv, RingsKept DEF MqIInv
    <2>3. UNCHANGED <<vars, count>>
      BY <2>1 DEF svars
    <2>4. PICK calls \in [Task -> FrameType] : Fleet(calls) /\ Balanced(calls)
      BY DEF MqIInv, Tallied
    <2>5. PICK Q : Q = MqStacks(calls)
      OBVIOUS
    <2>6. StacksIn(Q)'
      BY <2>3, <2>4, <2>5
         DEF Fleet, StacksIn, At, Top, HasContext, InSwitch, vars, kernel, sched, contexts
    <2>7. Fleet(calls)'
      BY <2>3, <2>4, <2>5, <2>6 DEF Fleet, HasContext, vars, kernel, sched, contexts
    <2> QED BY <2>2, <2>3, <2>4, <2>7, BalancedKept DEF MqIInv, Tallied
  <1> QED BY <1>1, <1>2, <1>3 DEF MqNext

LEMMA MqInvariance ==
  ASSUME "restore" \notin IrqPoints, ~ResumeAtElr, {"acquire", "release"} \cap Ops = {},
         \A m \in Mq : QueueSize[m] < HALF
  PROVE  MqSpec => []MqIInv
  <1>1. MqInit => MqIInv
    BY MqInitIInv
  <1>2. MqIInv /\ [MqNext]_mvars => MqIInv'
    BY MqNextIInv
  <1> QED BY <1>1, <1>2, PTL DEF MqSpec

-----------------------------------------------------------------------------
(* The theorems on the tokens. *)

(* On a task's stack only its call has a token.                            *)
LEMMA OnlyCallHolds ==
  ASSUME NEW t \in Task, NEW c, NEW s \in MqStack(t, c), NEW q
  PROVE  (\E i \in DOMAIN s : HasToken(s[i], q)) <=> HasToken(c, q) /\ c.pc \in OuterLabel
  <1>1. /\ s \in Belongs(t) /\ s \in Seq(FrameType) /\ Len(s) \in Nat /\ Len(s) > 0
        /\ DOMAIN s = 1 .. Len(s)
    BY MqShape
  <1>2. ~HasToken(s[Len(s)], q)
    <2>1. s[Len(s)].pc \in {"user", "idle"}
      BY <1>1 DEF Belongs
    <2> QED BY <2>1, TokenLabels, MqLabels
  <1>3. ASSUME NEW i \in 1 .. Len(s), HasToken(s[i], q)
        PROVE  HasToken(c, q) /\ c.pc \in OuterLabel
    <2>1. i \in 1 .. Len(s) - 1
      BY <1>1, <1>2, <1>3
    <2>2. s[i].pc \notin Silent \cup AcquireLabel /\ s[i].pc \in OuterLabel
      BY <1>3, TokenLabels, MqLabels
    <2>3. c.pc \in OuterLabel
      BY <2>1, <2>2 DEF MqStack
    <2>4. i \notin 1 .. Len(s) - 2
      BY <2>2, <2>3 DEF MqStack, Acquires
    <2>5. i = Len(s) - 1
      <3>1. \A n \in Nat : \A j \in 1 .. n - 1 : j \notin 1 .. n - 2 => j = n - 1
        OBVIOUS
      <3> QED BY <1>1, <2>1, <2>4, <3>1
    <2> QED BY <1>3, <2>3, <2>5 DEF MqStack
  <1>4. ASSUME HasToken(c, q), c.pc \in OuterLabel
        PROVE  \E i \in 1 .. Len(s) : HasToken(s[i], q)
    <2>1. Len(s) > 1 /\ s[Len(s) - 1] = c
      BY <1>4 DEF MqStack
    <2>2. Len(s) - 1 \in 1 .. Len(s)
      BY <1>1, <2>1
    <2> QED BY <1>4, <2>1, <2>2
  <1> QED BY <1>1, <1>3, <1>4

LEMMA InFlightHolders ==
  ASSUME IInv, InTask, NEW calls \in [Task -> FrameType], Fleet(calls), NEW q
  PROVE  InFlight(q) = Holders(calls, q)
  <1>1. ctx \in [Task -> Seq(FrameType)] /\ Top.pc \in {"user", "idle"}
    BY DEF IInv, Contexts, InTask
  <1>2. Top.pc \notin EarlyLabel /\ Top.pc # "restore"
    BY <1>1 DEF EarlyLabel
  <1>3. current \in Task /\ current # NULL
    BY <1>2, InTaskCode
  <1>4. ASSUME NEW t \in Task
        PROVE  (\E i \in DOMAIN StackOf(t) : HasToken(StackOf(t)[i], q)) <=> HasToken(calls[t], q)
    <2>1. PICK c, s : c = calls[t] /\ s = StackOf(t)
      OBVIOUS
    <2>2. HasToken(c, q) => c.pc \in OuterLabel
      BY TokenLabels
    <2>3. CASE s \in MqStack(t, c)
      BY <2>1, <2>2, <2>3, OnlyCallHolds
    <2>4. CASE t # current /\ t \notin HasContext
      <3>1. s = <<>>
        BY <1>1, <2>1, <2>4 DEF StackOf, HasContext
      <3>2. c.pc \notin OuterLabel
        BY <2>1, <2>4 DEF Fleet
      <3> QED BY <2>1, <2>2, <3>1, <3>2
    <2>5. (t # current /\ t \notin HasContext) \/ s \in MqStack(t, c)
      BY <1>2, <1>3, <2>1 DEF Fleet, StacksIn, MqStacks, StackOf, At
    <2> QED BY <2>3, <2>4, <2>5
  <1> QED BY <1>4 DEF InFlight, Holders

LEMMA MqIInvTokens == ASSUME MqIInv PROVE TokensConserved
  <1>1. PICK calls \in [Task -> FrameType] : Fleet(calls) /\ Balanced(calls)
    BY DEF MqIInv, Tallied
  <1>2. ASSUME InTask, NEW q \in WaitQueue
        PROVE  count[q] + Cardinality(InFlight(q)) = Supply(q)
    BY <1>1, <1>2, InFlightHolders DEF Balanced, MqIInv, SemIInv
  <1>3. \A m \in Mq : Supply(putsem(m)) = QueueSize[m] - stored[m] /\ Supply(getsem(m)) = stored[m]
    BY MqWords DEF Supply
  <1> QED BY <1>2, <1>3, MqWords DEF TokensConserved

(* Every variable of the kernel and of the semaphores keeps its type also  *)
(* below the message queues, whatever mixture of sends and receives fails, *)
(* times out or is interrupted (comm.c:33-111, sync.c:25-93).              *)
THEOREM MqTypeCorrect ==
  ASSUME "restore" \notin IrqPoints, ~ResumeAtElr, {"acquire", "release"} \cap Ops = {},
         \A m \in Mq : QueueSize[m] < HALF
  PROVE  MqSpec => []SemTypeOK
  <1>1. MqIInv => SemTypeOK
    BY IInvImplies DEF MqIInv, SemIInv, SemTypeOK, Counts
  <1> QED BY <1>1, MqInvariance, PTL

(* No slot is lost and none is used twice, no message is announced twice   *)
(* or to the wrong side: in every state in which a task's own code runs    *)
(* putsem and getsem count the free slots and the messages of each queue,  *)
(* but for the tokens of the calls under way, for any number of tasks,     *)
(* queues and slots that a count can hold (eos.h:209-217, comm.c:43-66,    *)
(* 83-106).                                                                *)
THEOREM TokensStayConserved ==
  ASSUME "restore" \notin IrqPoints, ~ResumeAtElr, {"acquire", "release"} \cap Ops = {},
         \A m \in Mq : QueueSize[m] < HALF
  PROVE  MqSpec => []TokensConserved
  <1> QED BY MqIInvTokens, MqInvariance, PTL

-----------------------------------------------------------------------------
(* The ring: one call at a time is in it, for the scheduler is locked.     *)

(* The labels of a call in the ring, those of eos_schedule behind its test *)
(* of the lock, and those at which it leaves the saved context.            *)
Inside == {"send_idx", "send_copy", "recv_idx", "recv_copy"}
Picked == Switching \cup {"restore"}
Behind == Picked \cup {"requeue", "mark_ready", "save"}

Has(s, L) == \E i \in 1 .. Len(s) : s[i].pc \in L
Sect(s) == {s[i] : i \in {j \in 1 .. Len(s) : s[j].pc \in Inside}}

Sections ==
  /\ Has(cpu, Behind) => lock = "UNLOCKED"
  /\ Sect(cpu) # {} => lock = "LOCKED"
  /\ \A f, g \in Sect(cpu) : f = g
  /\ \A t \in Task : t # current => Sect(ctx[t]) = {}
  /\ Has(cpu, Picked) /\ current # NULL => Sect(ctx[current]) = {}

Inner(f) == IF f.pc \in Inside THEN {f} ELSE {}

(* A step that calls and returns, and goes on at the labels A.             *)
Moves(A) ==
  \/ UNCHANGED cpu \/ Return
  \/ \E l \in A : Goto(l)
  \/ \E f : f.pc \in A /\ Step(f)
  \/ \E f, l : f.pc \in A /\ l \in A /\ Call(f, l)

LEMMA PushHas ==
  ASSUME NEW s \in Seq(FrameType), NEW f \in FrameType, NEW r, r = <<f>> \o s
  PROVE  /\ r \in Seq(FrameType) /\ Sect(r) = Sect(s) \cup Inner(f)
         /\ \A L : Has(r, L) <=> f.pc \in L \/ Has(s, L)
  <1>1. /\ r \in Seq(FrameType) /\ Len(r) = Len(s) + 1 /\ r[1] = f /\ Len(s) \in Nat
        /\ \A i \in 1 .. Len(r) : i # 1 => i - 1 \in 1 .. Len(s) /\ r[i] = s[i - 1]
    BY PushedStack
  <1>2. 1 \in 1 .. Len(r)
    BY <1>1
  <1>3. ASSUME NEW j \in 1 .. Len(s) PROVE j + 1 \in 1 .. Len(r) /\ r[j + 1] = s[j]
    <2>1. j + 1 \in 1 .. Len(r) /\ j + 1 # 1 /\ j + 1 - 1 = j
      BY <1>1
    <2> QED BY <1>1, <2>1
  <1>4. ASSUME NEW L PROVE Has(r, L) <=> f.pc \in L \/ Has(s, L)
    BY <1>1, <1>2, <1>3 DEF Has
  <1>5. ASSUME NEW g PROVE g \in Sect(r) <=> g \in Sect(s) \cup Inner(f)
    <2>1. ASSUME g \in Sect(r) PROVE g \in Sect(s) \cup Inner(f)
      <3>1. PICK i \in 1 .. Len(r) : r[i] = g /\ g.pc \in Inside
        BY <2>1 DEF Sect
      <3>2. CASE i = 1
        BY <1>1, <3>1, <3>2 DEF Inner
      <3>3. CASE i # 1
        <4>1. i - 1 \in 1 .. Len(s) /\ s[i - 1] = g
          BY <1>1, <3>1, <3>3
        <4> QED BY <3>1, <4>1 DEF Sect
      <3> QED BY <3>2, <3>3
    <2>2. ASSUME g \in Sect(s) PROVE g \in Sect(r)
      <3>1. PICK j \in 1 .. Len(s) : s[j] = g /\ g.pc \in Inside
        BY <2>2 DEF Sect
      <3>2. j + 1 \in 1 .. Len(r) /\ r[j + 1] = g
        BY <1>3, <3>1
      <3> QED BY <3>1, <3>2 DEF Sect
    <2>3. ASSUME g \in Inner(f) PROVE g \in Sect(r)
      <3>1. g = f /\ f.pc \in Inside
        BY <2>3 DEF Inner
      <3> QED BY <1>1, <1>2, <3>1 DEF Sect
    <2> QED BY <2>1, <2>2, <2>3
  <1> QED BY <1>1, <1>4, <1>5

LEMMA PushTwo ==
  ASSUME NEW r \in Seq(FrameType), NEW f, NEW g, NEW s, s = <<f, g>> \o r, s \in Seq(FrameType)
  PROVE  /\ f \in FrameType /\ g \in FrameType
         /\ Sect(s) = (Sect(r) \cup Inner(g)) \cup Inner(f)
         /\ \A L : Has(s, L) <=> f.pc \in L \/ g.pc \in L \/ Has(r, L)
  <1>1. /\ Len(s) = Len(r) + 2 /\ s[1] = f /\ s[2] = g
        /\ 1 \in 1 .. Len(s) /\ 2 \in 1 .. Len(s)
    OBVIOUS
  <1>2. f \in FrameType /\ g \in FrameType
    BY <1>1
  <1>3. PICK b : b = <<g>> \o r
    OBVIOUS
  <1>4. s = <<f>> \o b /\ b \in Seq(FrameType)
    <2>1. <<f, g>> \o r = <<f>> \o (<<g>> \o r)
      BY <1>2, TwoPushed
    <2>2. b \in Seq(FrameType)
      BY <1>2, <1>3, PushHas
    <2> QED BY <1>3, <2>1, <2>2
  <1>5. /\ Sect(b) = Sect(r) \cup Inner(g)
        /\ \A L : Has(b, L) <=> g.pc \in L \/ Has(r, L)
    BY <1>2, <1>3, PushHas
  <1>6. /\ Sect(s) = Sect(b) \cup Inner(f)
        /\ \A L : Has(s, L) <=> f.pc \in L \/ Has(b, L)
    BY <1>2, <1>4, PushHas
  <1> QED BY <1>2, <1>5, <1>6

LEMMA NoFrames == Sect(<<>>) = {} /\ \A L : ~Has(<<>>, L)
  BY DEF Sect, Has

LEMMA CpuSplit ==
  ASSUME IInv
  PROVE  /\ cpu = <<Top>> \o Tail(cpu) /\ Tail(cpu) \in Seq(FrameType) /\ Top \in FrameType
         /\ Sect(cpu) = Sect(Tail(cpu)) \cup Inner(Top)
         /\ \A L : Has(cpu, L) <=> Top.pc \in L \/ Has(Tail(cpu), L)
  <1>1. Tail(cpu) \in Seq(FrameType) /\ Top \in FrameType /\ cpu \in Seq(FrameType) /\ Len(cpu) > 0
    BY CpuStack
  <1>2. PICK s, f, r : s = cpu /\ f = Top /\ r = Tail(cpu)
    OBVIOUS
  <1>3. s = <<f>> \o r
    <2>1. s \in Seq(FrameType) /\ Len(s) > 0 /\ f = s[1] /\ r = Tail(s)
      BY <1>1, <1>2 DEF Top
    <2> QED BY <2>1
  <1>4. /\ Sect(s) = Sect(r) \cup Inner(f)
        /\ \A L : Has(s, L) <=> f.pc \in L \/ Has(r, L)
    BY <1>1, <1>2, <1>3, PushHas
  <1> QED BY <1>1, <1>2, <1>3, <1>4

(* What such a step leaves below.                                          *)
LEMMA MovesKeep ==
  ASSUME IInv, IInv', Top.pc \notin Inside, NEW A, A \cap Inside = {}, Moves(A)
  PROVE  /\ Sect(cpu') = Sect(cpu)
         /\ \A L : Has(cpu', L) => Has(cpu, L) \/ A \cap L # {}
  <1>1. PICK r : r = Tail(cpu)
    OBVIOUS
  <1>2. /\ r \in Seq(FrameType) /\ Top \in FrameType /\ Sect(cpu) = Sect(r)
        /\ \A L : Has(r, L) => Has(cpu, L)
    BY <1>1, CpuSplit DEF Inner
  <1>3. CASE UNCHANGED cpu
    BY <1>3
  <1>4. CASE Return
    BY <1>1, <1>2, <1>4 DEF Return
  <1>5. ASSUME NEW f, f.pc \in A, Step(f)
        PROVE  /\ Sect(cpu') = Sect(cpu)
               /\ \A L : Has(cpu', L) => Has(cpu, L) \/ A \cap L # {}
    <2>1. cpu' = <<f>> \o r
      BY <1>1, <1>5 DEF Step
    <2>2. f \in FrameType
      BY <1>2, <2>1, NewTop
    <2>3. PICK s : s = cpu'
      OBVIOUS
    <2>4. Sect(s) = Sect(r) \cup Inner(f) /\ \A L : Has(s, L) <=> f.pc \in L \/ Has(r, L)
      BY <1>2, <2>1, <2>2, <2>3, PushHas
    <2> QED BY <1>2, <1>5, <2>3, <2>4 DEF Inner
  <1>6. CASE \E l \in A : Goto(l)
    <2>1. PICK l \in A : Goto(l)
      BY <1>6
    <2>2. Step([Top EXCEPT !.pc = l]) /\ [Top EXCEPT !.pc = l].pc = l
      BY <1>2, <2>1 DEF Goto, FrameType
    <2> QED BY <1>5, <2>2
  <1>7. CASE \E f, l : f.pc \in A /\ l \in A /\ Call(f, l)
    <2>1. PICK f, l : f.pc \in A /\ l \in A /\ Call(f, l)
      BY <1>7
    <2>2. PICK g : g = [Top EXCEPT !.pc = l]
      OBVIOUS
    <2>3. g.pc = l /\ cpu' = <<f, g>> \o r
      BY <1>1, <1>2, <2>1, <2>2 DEF Call, FrameType
    <2>4. PICK s : s = cpu'
      OBVIOUS
    <2>5. s = <<f, g>> \o r /\ s \in Seq(FrameType)
      BY <2>3, <2>4 DEF IInv, Executing, StackOK
    <2>6. /\ Sect(s) = (Sect(r) \cup Inner(g)) \cup Inner(f)
          /\ \A L : Has(s, L) <=> f.pc \in L \/ g.pc \in L \/ Has(r, L)
      BY <1>2, <2>5, PushTwo
    <2> QED BY <1>2, <2>1, <2>3, <2>4, <2>6 DEF Inner
  <1> QED BY <1>3, <1>4, <1>5, <1>6, <1>7 DEF Moves

LEMMA SectionsMove ==
  ASSUME IInv, IInv', Sections, UNCHANGED <<current, ctx, lock>>, Top.pc \notin Inside,
         NEW A, A \cap Inside = {}, Moves(A),
         A \cap Behind # {} => lock = "UNLOCKED",
         A \cap Picked # {} => current = NULL \/ Has(cpu, Picked)
  PROVE  Sections' /\ Sect(cpu)' = Sect(cpu)
  <1>1. /\ Sect(cpu') = Sect(cpu)
        /\ \A L : Has(cpu', L) => Has(cpu, L) \/ A \cap L # {}
    BY MovesKeep
  <1>2. /\ Has(cpu', Behind) => Has(cpu, Behind) \/ A \cap Behind # {}
        /\ Has(cpu', Picked) => Has(cpu, Picked) \/ A \cap Picked # {}
    BY <1>1
  <1>3. /\ Has(cpu', Behind) => lock' = "UNLOCKED"
        /\ Has(cpu', Picked) /\ current' # NULL => Sect(ctx[current]) = {}
    BY <1>2 DEF Sections
  <1> QED BY <1>1, <1>3 DEF Sections

(* The labels of all other calls. *)
Quiet == Label \ (Inside \cup Behind)

LEMMA QuietLabels ==
  /\ Quiet \cap Inside = {} /\ Quiet \cap Behind = {} /\ Quiet \cap Picked = {}
  /\ Picked \subseteq Behind /\ Behind \cap Inside = {} /\ Inside \cap KernelLabel = {}
  /\ KernelLabel \ Behind \subseteq Quiet /\ (MqLabel \cup SemLabel) \ Inside \subseteq Quiet
  /\ Inside \subseteq MqLabel
  BY MqWords DEF Quiet, Inside, Behind, Picked, Switching, KernelLabel, Label, MqLabel, SemLabel

LEMMA KernelQuiet ==
  ASSUME IInv, Next \/ WaitInQueue \/ Waiting \/ Wakeup \/ MakeReady \/ UNCHANGED vars,
         ~StartMultitasking, ~Create, ~ScheduleEntry, ~Requeue, ~MarkReady, ~SaveContext, ~Pick,
         ~Unqueue, ~Run, ~RestoreContext, ~Interrupt, ~LockScheduler, ~RestoreScheduler
  PROVE  /\ UNCHANGED <<current, ctx, lock>> /\ Moves(Quiet)
         /\ UNCHANGED vars \/ Top.pc \in KernelLabel
  <1>1. Top \in FrameType /\ \A l : [Top EXCEPT !.pc = l].pc = l
    BY CpuStack DEF FrameType
  <1>2. {"create", "user_main", "boot_end", "schedule", "irq_return", "sleep", "sleep_diff", "arm",
         "doze", "reinsert", "set_priority", "change_priority", "suspend", "suspended", "resume",
         "resumed", "user", "waiting", "make_ready", "woken", "created"} \subseteq Quiet
    BY QuietLabels DEF KernelLabel, Behind, Picked, Switching
  <1> USE DEF At, KernelLabel
  <1>3. CASE BootIdle
    <2>1. /\ Call(TaskFrame("create", Idle, LOWEST_PRIORITY), "user_main") /\ UNCHANGED kernel
          /\ Top.pc = "boot"
      BY <1>3 DEF BootIdle
    <2> QED BY <1>2, <2>1 DEF Moves, TaskFrame, kernel, sched, contexts
  <1>4. CASE UserMain \/ UserCreate
    <2>1. PICK t, p, l : /\ Call(TaskFrame("create", t, p), l) /\ l \in {"user_main", "user"}
                         /\ UNCHANGED kernel /\ Top.pc \in {"user_main", "user"}
      BY <1>4 DEF UserMain, UserCreate, CallCreate
    <2>2. TaskFrame("create", t, p).pc = "create"
      BY DEF TaskFrame
    <2> QED BY <1>2, <2>1, <2>2 DEF Moves, kernel, sched, contexts
  <1>5. CASE BecomeReady \/ Doze \/ SetPriority \/ Waiting
    <2>1. /\ Step(Frame("schedule")) /\ Top.pc \in KernelLabel
          /\ UNCHANGED <<sched, contexts>>
      BY <1>5 DEF BecomeReady, Doze, SetPriority, Waiting, Schedule
    <2> QED BY <1>2, <2>1 DEF Moves, Frame, TaskFrame, sched, contexts
  <1>6. CASE AlarmsDone
    <2>1. Call(Frame("schedule"), "irq_return") /\ UNCHANGED kernel /\ Top.pc = "trigger"
      BY <1>6 DEF AlarmsDone
    <2> QED BY <1>2, <2>1 DEF Moves, Frame, TaskFrame, kernel, sched, contexts
  <1>7. CASE FireAlarm \/ SetPeriod \/ Compute \/ UNCHANGED vars
    <2>1. UNCHANGED <<cpu, current, ctx, lock>> /\ (UNCHANGED vars \/ Top.pc \in KernelLabel)
      BY <1>7 DEF FireAlarm, SetPeriod, Compute, vars, kernel, sched, contexts
    <2> QED BY <2>1 DEF Moves
  <1>8. CASE IrqReturn \/ Sleep \/ Arm \/ ChangePriority \/ Reinsert \/ Suspend \/ Suspended
             \/ Resume \/ WaitInQueue \/ MakeReady
    <2>1. /\ UNCHANGED <<current, ctx, lock>> /\ Top.pc \in KernelLabel
          /\ \/ Return
             \/ \E l \in {"sleep_diff", "arm", "doze", "reinsert", "set_priority", "suspended",
                          "resumed", "waiting", "woken"} : Goto(l)
      BY <1>8 DEF IrqReturn, Sleep, Arm, ChangePriority, Reinsert, Suspend, Suspended,
         Resume, WaitInQueue, MakeReady, kernel, sched, contexts
    <2> QED BY <1>2, <2>1 DEF Moves
  <1>9. CASE SleepDiff \/ Wakeup
    <2>1. [Top EXCEPT !.pc = "arm", !.num = (wakeup[current] - tick) % WORD].pc = "arm"
      BY <1>1 DEF FrameType
    <2>2. \A t : [Top EXCEPT !.pc = "make_ready", !.task = t].pc = "make_ready"
      BY <1>1 DEF FrameType
    <2>3. /\ UNCHANGED <<current, ctx, lock>> /\ Top.pc \in KernelLabel
          /\ Return \/ \E f : f.pc \in {"arm", "make_ready"} /\ Step(f)
      <3>1. CASE SleepDiff
        <4>1. Step([Top EXCEPT !.pc = "arm", !.num = (wakeup[current] - tick) % WORD])
          BY <3>1 DEF SleepDiff
        <4>2. UNCHANGED <<current, ctx, lock>> /\ Top.pc \in KernelLabel
          BY <3>1 DEF SleepDiff, kernel, sched, contexts
        <4>3. PICK f : f = [Top EXCEPT !.pc = "arm", !.num = (wakeup[current] - tick) % WORD]
          OBVIOUS
        <4>4. f.pc = "arm" /\ Step(f)
          BY <2>1, <4>1, <4>3
        <4> QED BY <4>2, <4>4
      <3>2. CASE Wakeup
        <4>1. Return \/ \E t : Step([Top EXCEPT !.pc = "make_ready", !.task = t])
          BY <3>2 DEF Wakeup
        <4>2. UNCHANGED <<current, ctx, lock>> /\ Top.pc \in KernelLabel
          BY <3>2 DEF Wakeup, sched, contexts
        <4>3. CASE Return
          BY <4>2, <4>3
        <4>4. CASE \E t : Step([Top EXCEPT !.pc = "make_ready", !.task = t])
          <5>1. PICK t : Step([Top EXCEPT !.pc = "make_ready", !.task = t])
            BY <4>4
          <5>2. PICK f : f = [Top EXCEPT !.pc = "make_ready", !.task = t]
            OBVIOUS
          <5>3. f.pc = "make_ready" /\ Step(f)
            BY <2>2, <5>1, <5>2
          <5> QED BY <4>2, <5>3
        <4> QED BY <4>1, <4>3, <4>4
      <3> QED BY <1>9, <3>1, <3>2
    <2> QED BY <1>2, <2>3 DEF Moves
  <1>10. CASE UserSleep \/ UserChangePriority \/ UserSuspend \/ UserResume
    <2>1. PICK f : /\ Call(f, "user") /\ UNCHANGED kernel /\ Top.pc = "user"
                   /\ f.pc \in {"sleep", "change_priority", "suspend", "resume"}
      <3>1. \A l, t, n : TaskFrame(l, t, n).pc = l
        BY DEF TaskFrame
      <3>2. \E l, t, n : /\ UserCall(l, TaskFrame(l, t, n))
                        /\ l \in {"sleep", "change_priority", "suspend", "resume"}
        BY <1>10 DEF UserSleep, UserChangePriority, UserSuspend, UserResume
      <3> QED BY <3>1, <3>2 DEF UserCall
    <2> QED BY <1>2, <2>1 DEF Moves, kernel, sched, contexts
  <1> QED BY <1>3, <1>4, <1>5, <1>6, <1>7, <1>8, <1>9, <1>10 DEF Next, Boot, KernelStep, UserStep

KernelQuietStep ==
  /\ Next \/ WaitInQueue \/ Waiting \/ Wakeup \/ MakeReady \/ UNCHANGED vars
  /\ ~StartMultitasking /\ ~Create /\ ~ScheduleEntry /\ ~Requeue /\ ~MarkReady /\ ~SaveContext
  /\ ~Pick /\ ~Unqueue /\ ~Run /\ ~RestoreContext /\ ~Interrupt /\ ~LockScheduler
  /\ ~RestoreScheduler

(* Before the first task runs there is no call. *)
LEMMA EarlySect ==
  ASSUME IInv, current = NULL
  PROVE  Sect(cpu) = {}
  <1>1. \A i \in 1 .. Len(cpu) : cpu[i].pc \in EarlyLabel
    BY DEF IInv, Executing, StackOK, FrameOK, Labels
  <1>2. EarlyLabel \cap Inside = {}
    BY DEF EarlyLabel, Inside
  <1> QED BY <1>1, <1>2 DEF Sect

(* Below a task's code there is nothing, and below a call just that code.  *)
LEMMA CodeSect ==
  ASSUME IInv, NEW calls \in [Task -> FrameType], Fleet(calls),
         Top.pc \in (OuterLabel \ {"create"}) \cup {"user"}
  PROVE  /\ Sect(Tail(cpu)) = {} /\ \A L : Has(Tail(cpu), L) => L \cap {"user", "idle"} # {}
         /\ Top.pc = "user" => Sect(cpu) = {} /\ \A L : ~Has(Tail(cpu), L)
         /\ Top.pc = "user" \/ calls[current] = Top
  <1>1. PICK u, c, s : u = current /\ c = calls[u] /\ s = cpu
    OBVIOUS
  <1>2. u \in Task /\ s \in MqStack(u, c) /\ s[1].pc = Top.pc /\ Top = s[1]
    BY <1>1, MqTop
  <1>3. PICK r : r = Tail(s)
    OBVIOUS
  <1>4. s \in Seq(FrameType) /\ Len(s) > 0 /\ Len(s) \in Nat
    BY <1>2, MqShape
  <1>5. CASE Top.pc = "user"
    <2>1. Len(s) = 1
      BY <1>2, <1>5, MqShape
    <2>2. r = <<>>
      BY <1>3, <1>4, <2>1
    <2>3. Sect(r) = {} /\ \A L : ~Has(r, L)
      BY <2>2, NoFrames
    <2>4. Sect(cpu) = Sect(r)
      BY <1>1, <1>3, <1>5, CpuSplit DEF Inner, Inside
    <2>5. Tail(cpu) = r /\ Sect(cpu) = {}
      BY <1>1, <1>3, <2>3, <2>4
    <2> QED BY <1>5, <2>3, <2>5
  <1>6. CASE Top.pc \in OuterLabel \ {"create"}
    <2>1. Tail(s) \in Belongs(u) /\ Len(Tail(s)) = 1 /\ s[1] = c
      BY <1>2, <1>6, MqBase, MqShape
    <2>2. Len(r) = 1 /\ r[1].pc \in {"user", "idle"}
      BY <1>3, <2>1 DEF Belongs
    <2>3. \A i \in 1 .. Len(r) : r[i].pc \in {"user", "idle"}
      BY <2>2
    <2>4. Sect(r) = {} /\ \A L : Has(r, L) => L \cap {"user", "idle"} # {}
      BY <2>3 DEF Sect, Has, Inside
    <2>5. Top.pc # "user"
      BY <1>6 DEF OuterLabel, MqLabel
    <2> QED BY <1>1, <1>2, <1>3, <2>1, <2>4, <2>5
  <1> QED BY <1>5, <1>6

LEMMA CtxType == IInv => ctx \in [Task -> Seq(FrameType)]
  BY DEF IInv, Contexts

LEMMA KernelSections ==
  ASSUME MqIInv, MqIInv', Sections, "restore" \notin IrqPoints, ~ResumeAtElr,
         Next \/ WaitInQueue \/ Waiting \/ Wakeup \/ MakeReady \/ UNCHANGED vars
  PROVE  Sections' /\ Sect(cpu)' = Sect(cpu)
  <1>1. IInv /\ IInv' /\ Top \in FrameType
    BY CpuStack DEF MqIInv, SemIInv
  <1>2. \A l : [Top EXCEPT !.pc = l].pc = l
    BY <1>1 DEF FrameType
  <1>3. PICK calls \in [Task -> FrameType] : Fleet(calls)
    BY DEF MqIInv, Tallied
  <1>4. lock = "UNLOCKED" => Sect(cpu) = {}
    BY DEF Sections
  <1>5. Top.pc \in Behind => lock = "UNLOCKED"
    BY <1>1, CpuSplit DEF Sections
  <1>6. Top.pc \in Picked => Has(cpu, Picked)
    BY <1>1, CpuSplit
  <1>7. Top.pc \in KernelLabel => Top.pc \notin Inside
    BY QuietLabels
  <1>8. ASSUME NEW A, A \cap Inside = {}, Moves(A), UNCHANGED <<current, ctx, lock>>,
               Top.pc \in KernelLabel, A \cap Behind # {} => lock = "UNLOCKED",
               A \cap Picked # {} => current = NULL \/ Has(cpu, Picked)
        PROVE  Sections' /\ Sect(cpu)' = Sect(cpu)
    BY <1>1, <1>7, <1>8, SectionsMove
  <1> USE DEF At, KernelLabel
  <1>9. CASE ScheduleEntry \/ Requeue \/ MarkReady \/ Pick \/ Unqueue
    <2>1. PICK A \in {{}, {"pick"}, {"requeue", "save"}, {"mark_ready"}, {"unqueue"}, {"run"}} :
            /\ Moves(A) /\ UNCHANGED <<current, ctx, lock>> /\ Top.pc \in KernelLabel
            /\ A # {} => lock = "UNLOCKED"
            /\ A \in {{"pick"}, {"unqueue"}, {"run"}} => current = NULL \/ Top.pc \in Switching
      <3>1. CASE ScheduleEntry
        <4>1. UNCHANGED <<current, ctx, lock>> /\ Top.pc = "schedule"
          BY <3>1 DEF ScheduleEntry, kernel, sched, contexts
        <4>2. CASE Return
          BY <4>1, <4>2 DEF Moves
        <4>3. CASE lock = "UNLOCKED" /\ current = NULL /\ Goto("pick")
          <5>1. Moves({"pick"})
            BY <4>3 DEF Moves
          <5> QED BY <4>1, <4>3, <5>1
        <4>4. CASE lock = "UNLOCKED" /\ \E l \in {"requeue", "save"} : Goto(l)
          <5>1. Moves({"requeue", "save"})
            BY <4>4 DEF Moves
          <5> QED BY <4>1, <4>4, <5>1
        <4> QED BY <3>1, <4>2, <4>3, <4>4 DEF ScheduleEntry
      <3>2. CASE Requeue
        <4>1. UNCHANGED <<current, ctx, lock>> /\ Top.pc = "requeue" /\ Moves({"mark_ready"})
          BY <3>2 DEF Requeue, sched, contexts, Moves
        <4> QED BY <1>5, <4>1 DEF Behind
      <3>3. CASE MarkReady
        <4>1. UNCHANGED <<current, ctx, lock>> /\ Top.pc = "mark_ready" /\ Moves({"requeue", "save"})
          BY <3>3 DEF MarkReady, sched, contexts, Moves
        <4> QED BY <1>5, <4>1 DEF Behind
      <3>4. CASE Pick
        <4>1. /\ UNCHANGED <<current, ctx, lock>> /\ Top.pc = "pick"
              /\ \E t : Step(TaskFrame("unqueue", t, 0))
          BY <3>4 DEF Pick, kernel, sched, contexts
        <4>2. Moves({"unqueue"})
          BY <4>1 DEF Moves, TaskFrame
        <4> QED BY <1>5, <4>1, <4>2 DEF Behind, Picked, Switching
      <3>5. CASE Unqueue
        <4>1. UNCHANGED <<current, ctx, lock>> /\ Top.pc = "unqueue" /\ Moves({"run"})
          BY <3>5 DEF Unqueue, sched, contexts, Moves
        <4> QED BY <1>5, <4>1 DEF Behind, Picked, Switching
      <3> QED BY <1>9, <3>1, <3>2, <3>3, <3>4, <3>5
    <2>2. A \cap Inside = {} /\ (A \cap Behind # {} => A # {})
          /\ (A \cap Picked # {} => A \in {{"pick"}, {"unqueue"}, {"run"}})
      BY DEF Inside, Picked, Switching
    <2>3. Top.pc \in Switching => Has(cpu, Picked)
      BY <1>6 DEF Picked
    <2> QED BY <1>8, <2>1, <2>2, <2>3
  <1>10. CASE KernelQuietStep
    <2>1. Moves(Quiet) /\ UNCHANGED <<current, ctx, lock>> /\ (UNCHANGED vars \/ Top.pc \in KernelLabel)
      BY <1>1, <1>10, KernelQuiet DEF KernelQuietStep
    <2>2. CASE UNCHANGED vars
      BY <2>1, <2>2 DEF Sections, vars
    <2>3. CASE Top.pc \in KernelLabel
      BY <1>8, <2>1, <2>3, QuietLabels
    <2> QED BY <2>1, <2>2, <2>3
  <1>11. CASE StartMultitasking
    <2>1. /\ Top.pc = "user_main" /\ lock' = "UNLOCKED" /\ Call(Frame("schedule"), "boot_end")
          /\ UNCHANGED <<current, ctx>>
      BY <1>11 DEF StartMultitasking, contexts
    <2>2. current = NULL
      <3>1. PICK Q : Q = MqStacks(calls)
        OBVIOUS
      <3>2. CallClosed(Q) /\ StacksIn(Q)
        BY <1>3, <3>1, MqClosed DEF Fleet
      <3> QED BY <1>1, <2>1, <3>2, CurrentStack DEF NoTaskLabel
    <2>3. Sect(cpu) = {}
      BY <1>1, <2>2, EarlySect
    <2>4. Moves({"schedule", "boot_end"})
      BY <2>1 DEF Moves, Frame, TaskFrame
    <2>5. Sect(cpu') = {}
      BY <1>1, <2>1, <2>3, <2>4, MovesKeep DEF Inside
    <2> QED BY <2>1, <2>2, <2>3, <2>5 DEF Sections
  <1>12. CASE LockScheduler \/ RestoreScheduler
    <2>1. Top.pc = "user" /\ UNCHANGED <<current, ctx>> /\ lock' \in {"LOCKED", "UNLOCKED"}
          /\ (lock' = "LOCKED" => UNCHANGED cpu) /\ Moves({"schedule", "user"})
      <3>1. CASE LockScheduler
        BY <3>1 DEF LockScheduler, contexts, Moves
      <3>2. CASE RestoreScheduler
        BY <3>2 DEF RestoreScheduler, contexts, Moves, Frame, TaskFrame
      <3> QED BY <1>12, <3>1, <3>2
    <2>2. Sect(cpu) = {} /\ \A L : ~Has(Tail(cpu), L)
      BY <1>1, <1>3, <2>1, CodeSect
    <2>3. ~Has(cpu, Behind) /\ ~Has(cpu, Picked)
      BY <1>1, <2>1, <2>2, CpuSplit DEF Behind, Picked, Switching
    <2>4. /\ Sect(cpu') = {} /\ ~Has(cpu', Behind) /\ ~Has(cpu', Picked)
      BY <1>1, <2>1, <2>2, <2>3, MovesKeep DEF Inside, Behind, Picked, Switching
    <2> QED BY <2>1, <2>2, <2>4 DEF Sections
  <1>13. CASE SaveContext
    <2>1. /\ Top.pc = "save" /\ UNCHANGED <<current, lock>> /\ ctx' = [ctx EXCEPT ![current] = Tail(cpu)]
          /\ Moves({"pick"})
      BY <1>13 DEF SaveContext, sched, Moves
    <2>2. lock = "UNLOCKED" /\ Sect(cpu) = {}
      BY <1>4, <1>5, <2>1 DEF Behind
    <2>3. Sect(Tail(cpu)) = {}
      BY <1>1, <2>2, CpuSplit
    <2>4. Sect(cpu') = {}
      BY <1>1, <2>1, <2>2, MovesKeep DEF Inside
    <2>6. current \in Task /\ Sect(ctx'[current]) = {}
      BY <1>1, <2>1, <2>3, InTaskCode, CtxType DEF EarlyLabel
    <2>7. \A t \in Task : t # current => Sect(ctx'[t]) = {}
      BY <2>1 DEF Sections
    <2> QED BY <2>1, <2>2, <2>4, <2>6, <2>7 DEF Sections
  <1>14. CASE Run
    <2>1. /\ Top.pc = "run" /\ UNCHANGED <<ctx, lock>> /\ current' = Top.task /\ Moves({"restore"})
      BY <1>14 DEF Run, contexts, Moves
    <2>2. lock = "UNLOCKED" /\ Sect(cpu) = {} /\ Has(cpu, Picked)
      BY <1>4, <1>5, <1>6, <2>1 DEF Behind, Picked, Switching
    <2>3. Sect(cpu') = {}
      BY <1>1, <2>1, <2>2, MovesKeep DEF Inside
    <2>4. \A t \in Task : Sect(ctx[t]) = {}
      BY <2>2, Constants DEF Sections
    <2>5. current' \in Task
      BY <1>1, <2>1, TopFrame DEF FrameOK, HasContext
    <2> QED BY <2>1, <2>2, <2>3, <2>4, <2>5 DEF Sections
  <1>15. CASE RestoreContext
    <2>1. /\ Top.pc = "restore" /\ UNCHANGED <<ctx, lock, current>> /\ cpu' = ctx[Top.task]
      BY <1>15 DEF RestoreContext, sched
    <2>2. lock = "UNLOCKED" /\ Sect(cpu) = {} /\ Has(cpu, Picked)
      BY <1>4, <1>5, <1>6, <2>1 DEF Behind, Picked, Switching
    <2>3. current \in Task /\ current # NULL /\ Top.task = current
      BY <1>1, <1>3, <2>1, InTaskCode DEF EarlyLabel, Fleet, StacksIn
    <2>4. Sect(cpu') = {} /\ Sect(ctx[current]) = {}
      BY <2>1, <2>2, <2>3 DEF Sections
    <2> QED BY <2>1, <2>2, <2>4 DEF Sections
  <1>16. CASE Interrupt
    <2>1. /\ Top.pc # "restore" /\ UNCHANGED <<current, lock>> /\ cpu' = <<Frame("trigger")>> \o cpu
          /\ ctx' = IF current = NULL THEN ctx ELSE [ctx EXCEPT ![current] = cpu]
      BY <1>16 DEF Interrupt, sched
    <2>2. cpu \in Seq(FrameType) /\ Frame("trigger").pc = "trigger"
      BY <1>1, CpuStack DEF Frame, TaskFrame
    <2>3. Frame("trigger") \in FrameType
      BY <1>1, <2>1, <2>2, NewTop
    <2>4. /\ Sect(cpu') = Sect(cpu) /\ (Has(cpu', Behind) <=> Has(cpu, Behind))
          /\ (Has(cpu', Picked) <=> Has(cpu, Picked))
      <3>1. PICK s, f, r : s = cpu /\ f = Frame("trigger") /\ r = cpu'
        OBVIOUS
      <3>2. Sect(r) = Sect(s) \cup Inner(f) /\ \A L : Has(r, L) <=> f.pc \in L \/ Has(s, L)
        BY <2>1, <2>2, <2>3, <3>1, PushHas
      <3>3. Inner(f) = {} /\ f.pc \notin Behind /\ f.pc \notin Picked
        BY <2>2, <3>1 DEF Inner, Inside, Behind, Picked, Switching
      <3> QED BY <3>1, <3>2, <3>3
    <2>5. \A t \in Task : t # current => ctx'[t] = ctx[t]
      BY <2>1
    <2>6. current \in Task => ctx'[current] = cpu
      BY <1>1, <2>1, CtxType, Constants
    <2>7. current # NULL => current \in Task
      BY <1>1 DEF IInv, Pointers, Pointer, HasContext
    <2>8. Has(cpu, Picked) => Sect(cpu) = {}
      BY <1>4, QuietLabels DEF Sections, Has
    <2> QED BY <2>1, <2>4, <2>5, <2>6, <2>7, <2>8 DEF Sections
  <1>17. CASE Create
    <2>1. /\ Top.pc = "create" /\ UNCHANGED <<current, lock>> /\ Moves({"created"})
          /\ ctx' = [ctx EXCEPT ![Top.task] = NewStack(Top.task)]
      BY <1>17 DEF Create, sched, NewStack, Moves
    <2>2. /\ Sect(cpu') = Sect(cpu) /\ (Has(cpu', Behind) => Has(cpu, Behind))
          /\ (Has(cpu', Picked) => Has(cpu, Picked))
      <3>1. {"created"} \cap Inside = {} /\ {"created"} \cap Behind = {} /\ {"created"} \cap Picked = {}
            /\ Top.pc \notin Inside
        BY <2>1 DEF Inside, Behind, Picked, Switching
      <3> QED BY <1>1, <2>1, <3>1, MovesKeep
    <2>3. \A t : Sect(NewStack(t)) = {}
      BY DEF Sect, NewStack, TaskFrame, Inside
    <2>4. \A t \in Task : ctx'[t] = ctx[t] \/ Sect(ctx'[t]) = {}
      BY <2>1, <2>3
    <2>5. current # NULL => current \in Task
      BY <1>1 DEF IInv, Pointers, Pointer, HasContext
    <2> QED BY <2>1, <2>2, <2>4, <2>5 DEF Sections
  <1> QED BY <1>9, <1>10, <1>11, <1>12, <1>13, <1>14, <1>15, <1>16, <1>17 DEF KernelQuietStep

(* The steps of the semaphores. *)
LEMMA SemQuiet ==
  ASSUME IInv, Acquire \/ AcquireTry \/ AcquireCheck \/ AcquireRetry \/ Release \/ ReleaseCheck
  PROVE  /\ UNCHANGED <<current, ctx, lock>>
         /\ \/ Moves(Quiet) /\ Top.pc \in SemLabel
            \/ Top.pc \in AcquireLabel /\ \E n \in {0, 1} : ReturnResult(n)
  <1>1. /\ {"wait", "wakeup", "acq_try", "acq_chk", "acq_re", "rel_chk"} \subseteq Quiet
    BY MqWords DEF Quiet, Inside, Behind, Picked, Switching, Label, KernelLabel, SemLabel
  <1>2. Top \in FrameType
    BY CpuStack
  <1>3. CASE Acquire
    <2>1. [Top EXCEPT !.pc = "acq_try", !.abs = (tick + Top.num) % WORD].pc = "acq_try"
      BY <1>2 DEF FrameType
    <2>2. PICK f : f = [Top EXCEPT !.pc = "acq_try", !.abs = (tick + Top.num) % WORD]
      OBVIOUS
    <2>3. /\ ReturnResult(0) \/ Step(f)
          /\ UNCHANGED <<current, ctx, lock>> /\ Top.pc = "acquire"
      BY <1>3, <2>2 DEF Acquire, At, kernel, sched, contexts
    <2>4. Step(f) => Moves(Quiet)
      BY <1>1, <2>1, <2>2 DEF Moves
    <2> QED BY <2>3, <2>4 DEF AcquireLabel, SemLabel
  <1>4. CASE AcquireTry \/ AcquireRetry
    <2>1. /\ UNCHANGED <<current, ctx, lock>> /\ Top.pc \in {"acq_try", "acq_re"}
          /\ ReturnResult(0) \/ ReturnResult(1) \/ WaitOn(Top.queue)
      BY <1>4 DEF AcquireTry, AcquireRetry, At, sched, contexts
    <2>2. [Frame("wait") EXCEPT !.queue = Top.queue].pc = "wait"
      BY DEF Frame, TaskFrame
    <2>3. WaitOn(Top.queue) => Moves(Quiet)
      BY <1>1, <2>2 DEF WaitOn, Moves
    <2> QED BY <2>1, <2>3 DEF AcquireLabel, SemLabel
  <1>5. CASE AcquireCheck
    <2>1. /\ UNCHANGED <<current, ctx, lock>> /\ Top.pc = "acq_chk"
          /\ ReturnResult(0) \/ Goto("acq_re")
      BY <1>5 DEF AcquireCheck, At, kernel, sched, contexts
    <2> QED BY <1>1, <2>1 DEF Moves, AcquireLabel, SemLabel
  <1>6. CASE Release \/ ReleaseCheck
    <2>1. /\ UNCHANGED <<current, ctx, lock>> /\ Top.pc \in {"release", "rel_chk"}
          /\ Return \/ Goto("rel_chk") \/ Goto("wakeup")
      BY <1>6 DEF Release, ReleaseCheck, At, kernel, sched, contexts
    <2> QED BY <1>1, <2>1 DEF Moves, SemLabel
  <1> QED BY <1>3, <1>4, <1>5, <1>6

LEMMA ResultSect ==
  ASSUME MqIInv, MqIInv', Sections, Top.pc \in AcquireLabel, NEW n \in {0, 1}, ReturnResult(n)
  PROVE  /\ Sect(cpu') = Sect(cpu) /\ (Has(cpu', Behind) => Has(cpu, Behind))
         /\ (Has(cpu', Picked) => Has(cpu, Picked))
  <1>1. PICK calls \in [Task -> FrameType] : Fleet(calls) /\ Balanced(calls)
    BY DEF MqIInv, Tallied
  <1>2. IInv
    BY DEF MqIInv, SemIInv
  <1>3. PICK u, c, s : u = current /\ c = calls[u] /\ s = cpu
    OBVIOUS
  <1>4. u \in Task /\ c \in FrameType /\ s \in MqStack(u, c) /\ s[1].pc \in AcquireLabel /\ Top = s[1]
    BY <1>1, <1>2, <1>3, MqTop
  <1>5. s[2] = c /\ c.pc \in {"send_got", "recv_got"} /\ Len(s) = 3 /\ s \in Seq(FrameType)
    BY <1>4, MqShape DEF Acquires
  <1>6. PICK g, b, r : g = [c EXCEPT !.num = n] /\ b = Tail(s) /\ r = Tail(Tail(s))
    OBVIOUS
  <1>7. cpu' = <<g>> \o r
    BY <1>3, <1>5, <1>6 DEF ReturnResult, KernelLabel
  <1>8. g \in FrameType /\ g.pc = c.pc
    BY <1>4, <1>6 DEF FrameType
  <1>9. b \in Seq(FrameType) /\ r \in Seq(FrameType) /\ b = <<c>> \o r
    <2>1. b \in MqStack(u, c) /\ Len(b) = 2 /\ b[1] = c /\ r = Tail(b)
      <3>1. u \in Task /\ s \in MqStack(u, c) /\ s[1].pc \in AcquireLabel
        BY <1>4
      <3>2. b = Tail(s) /\ r = Tail(b)
        BY <1>6
      <3>3. b \in MqStack(u, c) /\ Len(b) = 2
        BY <3>1, <3>2, MqBase
      <3>4. b[1] = c
        <4>1. s \in Seq(FrameType) /\ Len(s) > 0
          BY <3>1, MqShape
        <4>2. s # <<>>
          BY <4>1
        <4>3. \A i \in 1 .. Len(b) : b[i] = s[i + 1]
          BY <3>2, <4>1, <4>2, PoppedStack
        <4>4. 1 \in 1 .. Len(b) /\ 1 + 1 = 2
          BY <3>3
        <4> QED BY <1>5, <4>3, <4>4
      <3> QED BY <3>2, <3>3, <3>4
    <2>2. b \in Seq(FrameType) /\ Len(b) > 0
      <3>1. u \in Task
        BY <1>4
      <3> QED BY <2>1, <3>1, MqShape
    <2>3. b = <<b[1]>> \o Tail(b) /\ Tail(b) \in Seq(FrameType)
      BY <2>2
    <2> QED BY <2>1, <2>2, <2>3
  <1>10. PICK d : d = <<g>> \o r
    OBVIOUS
  <1>11. /\ Sect(d) = Sect(r) \cup Inner(g) /\ Sect(b) = Sect(r) \cup Inner(c)
         /\ \A L : Has(d, L) <=> g.pc \in L \/ Has(r, L)
         /\ \A L : Has(b, L) <=> c.pc \in L \/ Has(r, L)
    BY <1>4, <1>8, <1>9, <1>10, PushHas
  <1>12. Inner(g) = {} /\ Inner(c) = {} /\ Inner(Top) = {}
    BY <1>4, <1>5, <1>8 DEF Inner, Inside, AcquireLabel
  <1>13. Sect(cpu) = Sect(b) \cup Inner(Top) /\ \A L : Has(b, L) => Has(cpu, L)
    BY <1>2, <1>3, <1>6, CpuSplit
  <1>14. cpu' = d /\ Sect(d) = Sect(cpu) /\ \A L : Has(d, L) => Has(cpu, L)
    BY <1>7, <1>8, <1>10, <1>11, <1>12, <1>13
  <1> QED BY <1>14

LEMMA SemSections ==
  ASSUME MqIInv, MqIInv', Sections,
         Acquire \/ AcquireTry \/ AcquireCheck \/ AcquireRetry \/ Release \/ ReleaseCheck
  PROVE  Sections' /\ Sect(cpu)' = Sect(cpu)
  <1>1. IInv /\ IInv'
    BY DEF MqIInv, SemIInv
  <1>2. UNCHANGED <<current, ctx, lock>>
    BY <1>1, SemQuiet
  <1>3. CASE Moves(Quiet) /\ Top.pc \in SemLabel
    <2>1. Top.pc \notin Inside
      BY <1>3 DEF SemLabel, Inside
    <2> QED BY <1>1, <1>2, <1>3, <2>1, QuietLabels, SectionsMove
  <1>4. CASE Top.pc \in AcquireLabel /\ \E n \in {0, 1} : ReturnResult(n)
    <2>1. /\ Sect(cpu') = Sect(cpu) /\ (Has(cpu', Behind) => Has(cpu, Behind))
          /\ (Has(cpu', Picked) => Has(cpu, Picked))
      BY <1>4, ResultSect
    <2> QED BY <1>2, <2>1 DEF Sections
  <1> QED BY <1>1, <1>3, <1>4, SemQuiet

-----------------------------------------------------------------------------
(* What is in the ring. *)

Takes(f, m) == f.pc = "recv_copy" /\ f.queue = getsem(m)
Puts(f, m) == f.pc = "send_copy" /\ f.queue = putsem(m)

(* The slot behind i, and that of the message i places behind the oldest.  *)
Successor(i, z) == IF i + 1 = z THEN 0 ELSE i + 1

OldestIn(s, m, first) ==
  LET taking == {i \in DOMAIN s : Takes(s[i], m)}
  IN  IF taking = {} THEN first ELSE s[CHOOSE i \in taking : TRUE].num

ContentsIn(a, o, k, z) == [i \in 1 .. k |-> a[(o + i - 1) % z]]

(* The oldest message is at o and the next goes to n; in a copy front or   *)
(* rear is ahead.                                                          *)
RingAt(S, m, first, last, o, n) ==
  /\ \A f \in S : Takes(f, m) => f.num = o /\ first = Successor(o, QueueSize[m])
  /\ (\A f \in S : ~Takes(f, m)) => first = o
  /\ \A f \in S : Puts(f, m) => f.num = n /\ last = Successor(n, QueueSize[m])
  /\ (\A f \in S : ~Puts(f, m)) => last = n

(* n is k places behind o. *)
Apart(o, n, k, z) ==
  /\ o \in 0 .. z - 1 /\ n \in 0 .. z - 1 /\ k \in 0 .. z
  /\ n = o + k \/ n + z = o + k

Content == Msg \cup {NULL}

RingSound ==
  /\ DOMAIN slots = Mq /\ DOMAIN out = Mq
  /\ \A m \in Mq :
       /\ slots[m] \in [0 .. QueueSize[m] - 1 -> Content]
       /\ \E o, n \in 0 .. QueueSize[m] - 1 :
            /\ Apart(o, n, stored[m], QueueSize[m])
            /\ RingAt(Sect(cpu), m, front[m], rear[m], o, n)

LEMMA Wrapped ==
  ASSUME NEW z \in Nat \ {0}, NEW x \in 0 .. 2 * z - 1
  PROVE  x % z = IF x < z THEN x ELSE x - z
  <1>1. CASE x < z
    <2>1. x \in 0 .. z - 1
      BY <1>1
    <2> QED BY <1>1, <2>1
  <1>2. CASE ~(x < z)
    <2>1. PICK y : y = x - z
      OBVIOUS
    <2>2. y \in 0 .. z - 1 /\ x = y + z
      BY <1>2, <2>1
    <2>3. y % z = y
      BY <2>2
    <2>4. (y + z) % z = y
      BY <2>2
    <2> QED BY <1>2, <2>1, <2>2, <2>4
  <1> QED BY <1>1, <1>2

LEMMA PlaceOf ==
  ASSUME NEW z \in Nat \ {0}, NEW o \in 0 .. z - 1, NEW i \in 1 .. z
  PROVE  /\ (o + i - 1) % z = IF o + i - 1 < z THEN o + i - 1 ELSE o + i - 1 - z
         /\ (o + i - 1) % z \in 0 .. z - 1
  <1>1. PICK x : x = o + i - 1
    OBVIOUS
  <1>2. x \in 0 .. 2 * z - 1
    BY <1>1
  <1>3. x % z = IF x < z THEN x ELSE x - z
    BY <1>2, Wrapped
  <1>4. x % z \in 0 .. z - 1
    BY <1>2, <1>3
  <1> QED BY <1>1, <1>3, <1>4

LEMMA ContentsType ==
  ASSUME NEW z \in Nat \ {0}, NEW o \in 0 .. z - 1, NEW k \in 0 .. z,
         NEW a \in [0 .. z - 1 -> Content], NEW c, c = ContentsIn(a, o, k, z)
  PROVE  c \in Seq(Content) /\ Len(c) = k /\ \A i \in 1 .. k : (o + i - 1) % z \in 0 .. z - 1
  <1>1. \A i \in 1 .. k : (o + i - 1) % z \in 0 .. z - 1
    BY PlaceOf
  <1>2. c \in [1 .. k -> Content]
    BY <1>1 DEF ContentsIn
  <1>3. ASSUME NEW l \in Nat, NEW e \in [1 .. l -> Content]
        PROVE  e \in Seq(Content) /\ Len(e) = l
    OBVIOUS
  <1>4. k \in Nat
    OBVIOUS
  <1> QED BY <1>1, <1>2, <1>3, <1>4

(* A message is put behind the others, and the oldest is taken.            *)
LEMMA PutInRing ==
  ASSUME NEW z \in Nat \ {0}, NEW o, NEW n, NEW k \in 0 .. z - 1, Apart(o, n, k, z),
         NEW a \in [0 .. z - 1 -> Content], NEW b \in [0 .. z - 1 -> Content],
         NEW v \in Content, b[n] = v, \A i \in 0 .. z - 1 : i # n => b[i] = a[i]
  PROVE  ContentsIn(b, o, k + 1, z) = Append(ContentsIn(a, o, k, z), v)
  <1>1. o \in 0 .. z - 1 /\ n \in 0 .. z - 1 /\ k + 1 \in 0 .. z /\ k \in 0 .. z
    BY DEF Apart
  <1>2. PICK c, d : c = ContentsIn(a, o, k, z) /\ d = ContentsIn(b, o, k + 1, z)
    OBVIOUS
  <1>3. /\ c \in Seq(Content) /\ Len(c) = k
        /\ \A i \in 1 .. k : c[i] = a[(o + i - 1) % z] /\ (o + i - 1) % z \in 0 .. z - 1
    <2>1. c \in Seq(Content) /\ Len(c) = k /\ \A i \in 1 .. k : (o + i - 1) % z \in 0 .. z - 1
      BY <1>1, <1>2, ContentsType
    <2> QED BY <1>2, <2>1 DEF ContentsIn
  <1>4. /\ d \in Seq(Content) /\ Len(d) = k + 1
        /\ \A i \in 1 .. k + 1 : d[i] = b[(o + i - 1) % z]
    <2>1. d \in Seq(Content) /\ Len(d) = k + 1
      <3>1. PICK l : l = k + 1
        OBVIOUS
      <3>2. o \in 0 .. z - 1 /\ l \in 0 .. z /\ d = ContentsIn(b, o, l, z)
        BY <1>1, <1>2, <3>1
      <3>3. ASSUME NEW e \in [0 .. z - 1 -> Content], d = ContentsIn(e, o, l, z)
            PROVE  d \in Seq(Content) /\ Len(d) = l
        BY <3>2, <3>3, ContentsType
      <3> QED BY <3>1, <3>2, <3>3
    <2> QED BY <1>2, <2>1 DEF ContentsIn
  <1>5. ASSUME NEW i \in 1 .. k + 1
        PROVE  (o + i - 1) % z = n <=> i = k + 1
    <2>1. i \in 1 .. z
      BY <1>1
    <2>2. (o + i - 1) % z = IF o + i - 1 < z THEN o + i - 1 ELSE o + i - 1 - z
      BY <1>1, <2>1, PlaceOf
    <2>3. (n = o + k \/ n + z = o + k)
      BY DEF Apart
    <2> HIDE DEF Apart
    <2> QED BY <1>1, <2>1, <2>2, <2>3
  <1>6. \A i \in 1 .. k : d[i] = c[i]
    <2> SUFFICES ASSUME NEW i \in 1 .. k PROVE d[i] = c[i]
      OBVIOUS
    <2>1. i \in 1 .. k + 1 /\ i # k + 1
      BY <1>1
    <2>2. (o + i - 1) % z # n
      BY <1>5, <2>1
    <2> QED BY <1>3, <1>4, <2>1, <2>2
  <1>7. d[k + 1] = v
    <2>1. k + 1 \in 1 .. k + 1
      BY <1>1
    <2>2. (o + (k + 1) - 1) % z = n
      BY <1>5, <2>1
    <2>3. d[k + 1] = b[n]
      BY <1>4, <2>1, <2>2
    <2> QED BY <1>1, <2>3
  <1>8. d = Append(c, v)
    BY <1>1, <1>3, <1>4, <1>6, <1>7
  <1> QED BY <1>2, <1>8

LEMMA TakeFromRing ==
  ASSUME NEW z \in Nat \ {0}, NEW o \in 0 .. z - 1, NEW k \in 1 .. z,
         NEW a \in [0 .. z - 1 -> Content], NEW p, p = Successor(o, z)
  PROVE  /\ ContentsIn(a, p, k - 1, z) = Tail(ContentsIn(a, o, k, z))
         /\ Head(ContentsIn(a, o, k, z)) = a[o] /\ ContentsIn(a, o, k, z) # <<>>
  <1>1. p \in 0 .. z - 1 /\ k - 1 \in 0 .. z /\ k \in 0 .. z /\ 1 \in 1 .. z
    BY DEF Successor
  <1>2. PICK c, d : c = ContentsIn(a, o, k, z) /\ d = ContentsIn(a, p, k - 1, z)
    OBVIOUS
  <1>3. /\ c \in Seq(Content) /\ Len(c) = k
        /\ \A i \in 1 .. k : c[i] = a[(o + i - 1) % z]
    <2>1. c \in Seq(Content) /\ Len(c) = k
      BY <1>1, <1>2, ContentsType
    <2> QED BY <1>2, <2>1 DEF ContentsIn
  <1>4. /\ d \in Seq(Content) /\ Len(d) = k - 1
        /\ \A i \in 1 .. k - 1 : d[i] = a[(p + i - 1) % z]
    <2>1. d \in Seq(Content) /\ Len(d) = k - 1
      <3>1. PICK l : l = k - 1
        OBVIOUS
      <3>2. l \in 0 .. z /\ d = ContentsIn(a, p, l, z)
        BY <1>1, <1>2, <3>1
      <3>3. d \in Seq(Content) /\ Len(d) = l
        BY <1>1, <3>2, ContentsType
      <3> QED BY <3>1, <3>3
    <2> QED BY <1>2, <2>1 DEF ContentsIn
  <1>5. ASSUME NEW i \in 1 .. k - 1
        PROVE  (p + i - 1) % z = (o + (i + 1) - 1) % z
    <2>1. i \in 1 .. z /\ i + 1 \in 1 .. z
      BY <1>1
    <2>2. (p + i - 1) % z = IF p + i - 1 < z THEN p + i - 1 ELSE p + i - 1 - z
      BY <1>1, <2>1, PlaceOf
    <2>3. PICK j : j = i + 1
      OBVIOUS
    <2>4. (o + j - 1) % z = IF o + j - 1 < z THEN o + j - 1 ELSE o + j - 1 - z
      BY <2>1, <2>3, PlaceOf
    <2>5. p = o + 1 \/ (p = 0 /\ o + 1 = z)
      BY DEF Successor
    <2>6. (p + i - 1) % z = (o + j - 1) % z
      BY <1>1, <2>1, <2>2, <2>3, <2>4, <2>5
    <2> QED BY <2>3, <2>6
  <1>6. \A i \in 1 .. k - 1 : d[i] = c[i + 1]
    <2> SUFFICES ASSUME NEW i \in 1 .. k - 1 PROVE d[i] = c[i + 1]
      OBVIOUS
    <2>1. i + 1 \in 1 .. k
      OBVIOUS
    <2>2. c[i + 1] = a[(o + (i + 1) - 1) % z]
      BY <1>3, <2>1
    <2> QED BY <1>4, <1>5, <2>2
  <1>7. d = Tail(c)
    BY <1>3, <1>4, <1>6
  <1>8. Head(c) = a[o] /\ c # <<>>
    <2>1. (o + 1 - 1) % z = o
      BY <1>1, PlaceOf
    <2>2. c[1] = a[o] /\ Len(c) > 0
      <3>1. 1 \in 1 .. k
        OBVIOUS
      <3> QED BY <1>3, <2>1, <3>1
    <2> QED BY <1>3, <2>2
  <1> QED BY <1>2, <1>7, <1>8

LEMMA OldestIs ==
  ASSUME NEW s \in Seq(FrameType), NEW m, NEW first, NEW last, NEW o, NEW n,
         RingAt(Sect(s), m, first, last, o, n)
  PROVE  OldestIn(s, m, first) = o
  <1> DEFINE taking == {i \in DOMAIN s : Takes(s[i], m)}
  <1>1. DOMAIN s = 1 .. Len(s)
    OBVIOUS
  <1>2. \A i \in taking : s[i] \in Sect(s) /\ Takes(s[i], m)
    BY <1>1 DEF Sect, Takes, Inside
  <1>3. CASE taking = {}
    <2>1. \A f \in Sect(s) : ~Takes(f, m)
      BY <1>1, <1>3 DEF Sect
    <2> QED BY <1>3, <2>1 DEF RingAt, OldestIn
  <1>4. CASE taking # {}
    <2>1. (CHOOSE i \in taking : TRUE) \in taking
      BY <1>4
    <2>2. s[CHOOSE i \in taking : TRUE].num = o
      BY <1>2, <2>1 DEF RingAt
    <2> QED BY <1>4, <2>2 DEF OldestIn
  <1> QED BY <1>3, <1>4

-----------------------------------------------------------------------------
(* The steps of this module. *)

(* Below the call there is just the task's code.                           *)
LEMMA CallSect ==
  ASSUME MqIInv, Top.pc \in MqLabel \cup {"user"}
  PROVE  /\ IInv /\ Top \in FrameType /\ Tail(cpu) \in Seq(FrameType)
         /\ Sect(Tail(cpu)) = {} /\ ~Has(Tail(cpu), Behind)
         /\ Sect(cpu) = Inner(Top) /\ (Has(cpu, Behind) <=> Top.pc \in Behind)
  <1>1. IInv
    BY DEF MqIInv, SemIInv
  <1>2. PICK calls \in [Task -> FrameType] : Fleet(calls)
    BY DEF MqIInv, Tallied
  <1>3. Top.pc \in (OuterLabel \ {"create"}) \cup {"user"}
    BY DEF OuterLabel, MqLabel
  <1>4. Sect(Tail(cpu)) = {} /\ \A L : Has(Tail(cpu), L) => L \cap {"user", "idle"} # {}
    BY <1>1, <1>2, <1>3, CodeSect
  <1>5. Behind \cap {"user", "idle"} = {}
    BY DEF Behind, Picked, Switching
  <1> QED BY <1>1, <1>4, <1>5, CpuSplit

LEMMA StepSect ==
  ASSUME MqIInv, MqIInv', Top.pc \in MqLabel \cup {"user"}, NEW g, Step(g)
  PROVE  g \in FrameType /\ Sect(cpu') = Inner(g) /\ (Has(cpu', Behind) <=> g.pc \in Behind)
  <1>1. IInv' /\ Tail(cpu) \in Seq(FrameType) /\ Sect(Tail(cpu)) = {} /\ ~Has(Tail(cpu), Behind)
    BY CallSect DEF MqIInv, SemIInv
  <1>2. PICK s, r : s = cpu' /\ r = Tail(cpu)
    OBVIOUS
  <1>3. s = <<g>> \o r /\ g \in FrameType
    BY <1>1, <1>2, NewTop DEF Step
  <1>4. Sect(s) = Sect(r) \cup Inner(g) /\ \A L : Has(s, L) <=> g.pc \in L \/ Has(r, L)
    BY <1>1, <1>2, <1>3, PushHas
  <1> QED BY <1>1, <1>2, <1>3, <1>4

LEMMA PushSect ==
  ASSUME MqIInv', NEW r \in Seq(FrameType), Sect(r) = {}, ~Has(r, Behind), NEW f, NEW g,
         cpu' = <<f, g>> \o r, f.pc \notin Inside \cup Behind, g.pc \notin Inside \cup Behind
  PROVE  Sect(cpu') = {} /\ ~Has(cpu', Behind)
  <1>1. PICK s : s = cpu'
    OBVIOUS
  <1>2. s = <<f, g>> \o r /\ s \in Seq(FrameType)
    BY <1>1 DEF MqIInv, SemIInv, IInv, Executing, StackOK
  <1>3. /\ Sect(s) = (Sect(r) \cup Inner(g)) \cup Inner(f)
        /\ \A L : Has(s, L) <=> f.pc \in L \/ g.pc \in L \/ Has(r, L)
    BY <1>2, PushTwo
  <1> QED BY <1>1, <1>3 DEF Inner

LEMMA SectionsSet ==
  ASSUME Sections, UNCHANGED <<current, ctx>>, NEW S, Sect(cpu') = S, ~Has(cpu', Behind),
         \A f, g \in S : f = g, S # {} => lock' = "LOCKED"
  PROVE  Sections'
  <1>1. ~Has(cpu', Picked)
    BY QuietLabels DEF Has
  <1> QED BY <1>1 DEF Sections

LEMMA UserSect ==
  ASSUME MqIInv, MqIInv', Sections, UserSend \/ UserReceive
  PROVE  Sections' /\ Sect(cpu) = {} /\ Sect(cpu') = {}
  <1>1. /\ Top.pc = "user" /\ UNCHANGED <<current, ctx, lock>>
        /\ \E f, n : f.pc \in {"send_got", "recv_got"} /\ AcquireFrom(f, n)
    <2>1. CASE UserSend
      <3>1. PICK m, v, n : AcquireFrom([Frame("send_got") EXCEPT !.queue = putsem(m), !.abs = v], n)
        BY <2>1 DEF UserSend
      <3>2. PICK f : f = [Frame("send_got") EXCEPT !.queue = putsem(m), !.abs = v]
        OBVIOUS
      <3>3. f.pc = "send_got"
        BY <3>2 DEF Frame, TaskFrame
      <3>4. AcquireFrom(f, n)
        BY <3>1, <3>2
      <3>5. Top.pc = "user" /\ UNCHANGED <<current, ctx, lock>>
        BY <2>1 DEF UserSend, At, kernel, sched, contexts
      <3> QED BY <3>3, <3>4, <3>5
    <2>2. CASE UserReceive
      <3>1. PICK m, n : AcquireFrom([Frame("recv_got") EXCEPT !.queue = getsem(m)], n)
        BY <2>2 DEF UserReceive
      <3>2. PICK f : f = [Frame("recv_got") EXCEPT !.queue = getsem(m)]
        OBVIOUS
      <3>3. f.pc = "recv_got"
        BY <3>2 DEF Frame, TaskFrame
      <3>4. AcquireFrom(f, n)
        BY <3>1, <3>2
      <3> QED BY <2>2, <3>3, <3>4 DEF UserReceive, At, kernel, sched, contexts
    <2> QED BY <2>1, <2>2
  <1>2. PICK f, n : f.pc \in {"send_got", "recv_got"} /\ AcquireFrom(f, n)
    BY <1>1
  <1>3. PICK a : a = [TaskFrame("acquire", NULL, n) EXCEPT !.queue = f.queue]
    OBVIOUS
  <1>4. a.pc = "acquire" /\ cpu' = <<a, f>> \o cpu
    BY <1>2, <1>3 DEF AcquireFrom, TaskFrame
  <1>5. "user" \notin Inside \cup Behind /\ {"acquire", "send_got", "recv_got"} \cap (Inside \cup Behind) = {}
    BY DEF Inside, Behind, Picked, Switching
  <1>6. cpu \in Seq(FrameType) /\ Sect(cpu) = {} /\ ~Has(cpu, Behind)
    BY <1>1, <1>5, CallSect, CpuStack DEF Inner
  <1>7. Sect(cpu') = {} /\ ~Has(cpu', Behind)
    BY <1>2, <1>4, <1>5, <1>6, PushSect
  <1> QED BY <1>1, <1>6, <1>7, SectionsSet

LEMMA GotSect ==
  ASSUME MqIInv, MqIInv', Sections, SendGot \/ ReceiveGot
  PROVE  /\ Sections' /\ Sect(cpu) = {}
         /\ \A f \in Sect(cpu') : f.pc \in {"send_idx", "recv_idx"}
  <1>1. PICK l \in {"send_idx", "recv_idx"} :
          /\ LockRing(l) /\ Top.pc \in {"send_got", "recv_got"} /\ UNCHANGED <<current, ctx>>
    BY DEF SendGot, ReceiveGot, At, contexts
  <1>2. /\ Top \in FrameType /\ Sect(Tail(cpu)) = {} /\ ~Has(Tail(cpu), Behind) /\ Sect(cpu) = {}
    <2>1. Top.pc \in MqLabel \cup {"user"} /\ Top.pc \notin Inside
      BY <1>1 DEF MqLabel, Inside
    <2> QED BY <2>1, CallSect DEF Inner
  <1>3. CASE Return /\ lock' = lock
    <2>1. Sect(cpu') = {} /\ ~Has(cpu', Behind)
      BY <1>2, <1>3 DEF Return
    <2> QED BY <1>1, <1>2, <2>1, SectionsSet
  <1>4. CASE Goto(l) /\ lock' = "LOCKED"
    <2>1. PICK g : g = [Top EXCEPT !.pc = l]
      OBVIOUS
    <2>2. Step(g) /\ g.pc = l
      BY <1>2, <1>4, <2>1 DEF Goto, FrameType
    <2>3. Sect(cpu') = Inner(g) /\ (Has(cpu', Behind) <=> g.pc \in Behind)
      BY <1>1, <2>2, StepSect DEF MqLabel
    <2>4. g.pc \notin Behind /\ Inner(g) \subseteq {g}
      BY <1>1, <2>2 DEF Behind, Picked, Switching, Inner
    <2>5. \A f, h \in Inner(g) : f = h
      BY <2>4
    <2>6. Sections'
      BY <1>1, <1>4, <2>3, <2>4, <2>5, SectionsSet
    <2> QED BY <1>1, <1>2, <2>2, <2>3, <2>4, <2>6
  <1>5. (Return /\ lock' = lock) \/ (Goto(l) /\ lock' = "LOCKED")
    BY <1>1 DEF LockRing
  <1> QED BY <1>3, <1>4, <1>5

LEMMA IndexSect ==
  ASSUME MqIInv, MqIInv', Sections, SendIndex \/ ReceiveIndex, NEW g, Step(g),
         g.pc \in {"send_copy", "recv_copy"}
  PROVE  Sections' /\ Sect(cpu) = {Top} /\ Sect(cpu') = {g}
  <1>1. Top.pc \in {"send_idx", "recv_idx"} /\ UNCHANGED <<current, ctx, lock>>
    BY DEF SendIndex, ReceiveIndex, At, kernel, sched, contexts
  <1>2. Sect(cpu) = {Top}
    BY <1>1, CallSect DEF MqLabel, Inside, Inner
  <1>3. Sect(cpu') = {g} /\ ~Has(cpu', Behind)
    BY <1>1, StepSect DEF MqLabel, Inside, Behind, Picked, Switching, Inner
  <1>4. lock' = "LOCKED"
    BY <1>1, <1>2 DEF Sections
  <1> QED BY <1>1, <1>2, <1>3, <1>4, SectionsSet

LEMMA CopySect ==
  ASSUME MqIInv, MqIInv', Sections, SendCopy \/ ReceiveCopy
  PROVE  Sections' /\ Sect(cpu) = {Top} /\ Sect(cpu') = {}
  <1>1. PICK l \in {"send_rel", "recv_rel"} :
          /\ Call(Frame("schedule"), l) /\ Top.pc \in {"send_copy", "recv_copy"}
          /\ UNCHANGED <<current, ctx>>
    BY DEF SendCopy, ReceiveCopy, RestoreLock, At, contexts
  <1>2. /\ Top \in FrameType /\ Tail(cpu) \in Seq(FrameType) /\ Sect(Tail(cpu)) = {}
        /\ ~Has(Tail(cpu), Behind) /\ Sect(cpu) = {Top}
    BY <1>1, CallSect DEF MqLabel, Inside, Inner
  <1>3. PICK f, g : f = Frame("schedule") /\ g = [Top EXCEPT !.pc = l]
    OBVIOUS
  <1>4. f.pc = "schedule" /\ g.pc = l /\ cpu' = <<f, g>> \o Tail(cpu)
    BY <1>1, <1>2, <1>3 DEF Call, Frame, TaskFrame, FrameType
  <1>5. {"schedule", "send_rel", "recv_rel"} \cap (Inside \cup Behind) = {}
    BY DEF Inside, Behind, Picked, Switching
  <1>6. Sect(cpu') = {} /\ ~Has(cpu', Behind)
    BY <1>2, <1>4, <1>5, PushSect
  <1> QED BY <1>1, <1>2, <1>6, SectionsSet

LEMMA TellSect ==
  ASSUME MqIInv, MqIInv', Sections, SendRelease \/ ReceiveRelease
  PROVE  Sections' /\ Sect(cpu) = {} /\ Sect(cpu') = {}
  <1>1. PICK q : /\ Step([Frame("release") EXCEPT !.queue = q]) /\ UNCHANGED <<current, ctx, lock>>
                 /\ Top.pc \in {"send_rel", "recv_rel"}
    BY DEF SendRelease, ReceiveRelease, At, kernel, sched, contexts
  <1>2. PICK g : g = [Frame("release") EXCEPT !.queue = q]
    OBVIOUS
  <1>3. g.pc = "release" /\ Step(g)
    BY <1>1, <1>2 DEF Frame, TaskFrame
  <1>4. Sect(cpu) = {}
    BY <1>1, CallSect DEF MqLabel, Inside, Inner
  <1>5. Sect(cpu') = {} /\ ~Has(cpu', Behind)
    BY <1>1, <1>3, StepSect DEF MqLabel, Inside, Behind, Picked, Switching, Inner
  <1> QED BY <1>1, <1>4, <1>5, SectionsSet

-----------------------------------------------------------------------------
(* The contents of the ring. *)

LEMMA NoCopy ==
  ASSUME NEW S, \A f \in S : f.pc \notin {"send_copy", "recv_copy"},
         NEW m, NEW first, NEW last, NEW o, NEW n
  PROVE  RingAt(S, m, first, last, o, n) <=> first = o /\ last = n
  BY DEF RingAt, Takes, Puts

LEMMA ContentsAre ==
  ASSUME IInv, NEW m \in Mq, NEW o, NEW n, RingAt(Sect(cpu), m, front[m], rear[m], o, n)
  PROVE  Contents(m) = ContentsIn(slots[m], o, stored[m], QueueSize[m])
  <1>1. PICK s : s = cpu
    OBVIOUS
  <1>2. OldestIn(s, m, front[m]) = o
    BY <1>1, OldestIs, CpuStack
  <1>3. Oldest(m) = o
    BY <1>1, <1>2 DEF Oldest, OldestIn, Takes
  <1> QED BY <1>3 DEF Contents, ContentsIn

LEMMA ContentsBecome ==
  ASSUME IInv', NEW m \in Mq, NEW o, NEW n, RingAt(Sect(cpu'), m, front'[m], rear'[m], o, n)
  PROVE  Contents(m)' = ContentsIn(slots'[m], o, stored'[m], QueueSize[m])
  <1>1. PICK s, first, last : s = cpu' /\ first = front'[m] /\ last = rear'[m]
    OBVIOUS
  <1>2. s \in Seq(FrameType)
    BY <1>1 DEF IInv, Executing, StackOK
  <1>3. OldestIn(s, m, first) = o
    BY <1>1, <1>2, OldestIs
  <1>4. Oldest(m)' = o
    BY <1>1, <1>3 DEF Oldest, OldestIn, Takes
  <1> QED BY <1>4 DEF Contents, ContentsIn

(* A step that neither stores nor takes a message. *)
LEMMA RingStays ==
  ASSUME IInv, IInv', RingSound, UNCHANGED <<slots, stored, out>>,
         \A m \in Mq, o, n \in Nat :
           RingAt(Sect(cpu), m, front[m], rear[m], o, n) =>
             RingAt(Sect(cpu'), m, front'[m], rear'[m], o, n)
  PROVE  RingSound' /\ \A m \in Mq : Contents(m)' = Contents(m)
  <1>1. ASSUME NEW m \in Mq
        PROVE  \E o, n \in 0 .. QueueSize[m] - 1 :
                 /\ Apart(o, n, stored[m], QueueSize[m])
                 /\ RingAt(Sect(cpu), m, front[m], rear[m], o, n)
                 /\ RingAt(Sect(cpu'), m, front'[m], rear'[m], o, n)
    <2>1. PICK o, n \in 0 .. QueueSize[m] - 1 :
            /\ Apart(o, n, stored[m], QueueSize[m])
            /\ RingAt(Sect(cpu), m, front[m], rear[m], o, n)
      BY DEF RingSound
    <2>2. o \in Nat /\ n \in Nat
      BY MessageQueueAssumption
    <2> QED BY <2>1, <2>2
  <1>2. RingSound'
    BY <1>1 DEF RingSound
  <1>3. \A m \in Mq : Contents(m)' = Contents(m)
    BY <1>1, ContentsAre, ContentsBecome
  <1> QED BY <1>2, <1>3

(* A call that copies has the token of its slot or of its message.         *)
LEMMA CopyRoom ==
  ASSUME MqIInv, NEW k \in Mq,
         \/ Top.pc = "send_copy" /\ Top.queue = putsem(k)
         \/ Top.pc = "recv_copy" /\ Top.queue = getsem(k)
  PROVE  /\ stored[k] \in 0 .. QueueSize[k]
         /\ Top.pc = "send_copy" => stored[k] < QueueSize[k]
         /\ Top.pc = "recv_copy" => stored[k] >= 1
  <1>1. PICK calls \in [Task -> FrameType] : Fleet(calls) /\ Balanced(calls)
    BY DEF MqIInv, Tallied
  <1>2. IInv /\ Counts /\ Rings
    BY DEF MqIInv, SemIInv
  <1>3. Top.pc \in (OuterLabel \ {"create"}) \cup {"user"} /\ Top.pc # "user"
    BY DEF OuterLabel, MqLabel
  <1>4. calls[current] = Top
    BY <1>1, <1>2, <1>3, CodeSect
  <1>5. current \in Task
    <2>1. Top.pc \notin EarlyLabel /\ Top.pc # "restore"
      BY DEF EarlyLabel
    <2> QED BY <1>2, <2>1, InTaskCode
  <1>6. PICK p : p = Top.queue
    OBVIOUS
  <1>7. p \in WaitQueue /\ HasToken(Top, p)
    BY <1>6, MqWords DEF HasToken
  <1>8. Holders(calls, p) # {}
    BY <1>4, <1>5, <1>7 DEF Holders
  <1>9. Cardinality(Holders(calls, p)) # 0
    BY <1>1, <1>7, <1>8, FS_EmptySet DEF Balanced
  <1>10. Supply(p) \in 0 .. QueueSize[p[1]] /\ Supply(p) >= 1
    <2>1. /\ Supply(p) \in 0 .. QueueSize[p[1]] /\ count[p] \in Int
          /\ Cardinality(Holders(calls, p)) \in Nat
      BY <1>1, <1>2, <1>7, SupplyBound
    <2>2. count[p] >= 0 /\ count[p] + Cardinality(Holders(calls, p)) = Supply(p)
      BY <1>1, <1>7 DEF Balanced
    <2>3. QueueSize[p[1]] \in Nat
      BY <1>7, MqWords, MessageQueueAssumption
    <2> QED BY <1>9, <2>1, <2>2, <2>3
  <1>11. QueueSize[k] \in Nat /\ stored[k] \in Int
    BY <1>2, MessageQueueAssumption DEF Rings
  <1>12. CASE Top.pc = "send_copy"
    <2>1. p[1] = k /\ Supply(p) = QueueSize[k] - stored[k]
      BY <1>6, <1>12, MqWords DEF Supply
    <2> QED BY <1>10, <1>11, <1>12, <2>1
  <1>13. CASE Top.pc = "recv_copy"
    <2>1. p[1] = k /\ Supply(p) = stored[k]
      BY <1>6, <1>13, MqWords DEF Supply
    <2> QED BY <1>10, <1>11, <1>13, <2>1
  <1> QED BY <1>12, <1>13

(* Front or rear goes on, and the copy is at the slot it left.             *)
LEMMA RingIndex ==
  ASSUME MqIInv, MqIInv', Sections, RingSound, SendIndex \/ ReceiveIndex
  PROVE  /\ Sections' /\ RingSound' /\ UNCHANGED out
         /\ \A m \in Mq : Contents(m)' = Contents(m)
  <1>1. /\ Top.pc \in {"send_idx", "recv_idx"} /\ Top.pc \in MqLabel
        /\ UNCHANGED <<slots, stored, out>>
    BY DEF SendIndex, ReceiveIndex, At, MqLabel
  <1>2. IInv /\ IInv' /\ Rings /\ Rings' /\ Top \in FrameType /\ Proper(Top)
    BY <1>1, MqAt DEF MqIInv, SemIInv
  <1>3. PICK k \in Mq : \/ Top.pc = "send_idx" /\ Top.queue = putsem(k)
                        \/ Top.pc = "recv_idx" /\ Top.queue = getsem(k)
    BY <1>1, <1>2 DEF Proper
  <1>4. This = k
    BY <1>3, MqWords DEF This
  <1>5. \A i : After(i) = Successor(i, QueueSize[k])
    BY <1>4 DEF After, Successor
  <1>6. PICK l, n :
          /\ l \in {"send_copy", "recv_copy"} /\ Step([Top EXCEPT !.pc = l, !.num = n])
          /\ \/ /\ Top.pc = "send_idx" /\ l = "send_copy" /\ n = rear[k] /\ front' = front
                /\ rear' = [rear EXCEPT ![k] = Successor(n, QueueSize[k])]
             \/ /\ Top.pc = "recv_idx" /\ l = "recv_copy" /\ n = front[k] /\ rear' = rear
                /\ front' = [front EXCEPT ![k] = Successor(n, QueueSize[k])]
    <2>1. CASE SendIndex
      <3>1. /\ Step([Top EXCEPT !.pc = "send_copy", !.num = rear[k]]) /\ front' = front
            /\ rear' = [rear EXCEPT ![k] = Successor(rear[k], QueueSize[k])]
            /\ Top.pc = "send_idx"
        BY <1>4, <1>5, <2>1 DEF SendIndex, At
      <3> QED BY <3>1
    <2>2. CASE ReceiveIndex
      <3>1. /\ Step([Top EXCEPT !.pc = "recv_copy", !.num = front[k]]) /\ rear' = rear
            /\ front' = [front EXCEPT ![k] = Successor(front[k], QueueSize[k])]
            /\ Top.pc = "recv_idx"
        BY <1>4, <1>5, <2>2 DEF ReceiveIndex, At
      <3> QED BY <3>1
    <2> QED BY <2>1, <2>2
  <1>7. PICK g : g = [Top EXCEPT !.pc = l, !.num = n]
    OBVIOUS
  <1>8. g.pc = l /\ g.num = n /\ g.queue = Top.queue /\ Step(g)
    BY <1>2, <1>6, <1>7 DEF FrameType
  <1>9. Sections' /\ Sect(cpu) = {Top} /\ Sect(cpu') = {g}
    BY <1>6, <1>8, IndexSect
  <1>10. ASSUME NEW m \in Mq, NEW o \in Nat, NEW e \in Nat,
                RingAt(Sect(cpu), m, front[m], rear[m], o, e)
         PROVE  RingAt(Sect(cpu'), m, front'[m], rear'[m], o, e)
    <2>1. front[m] = o /\ rear[m] = e
      BY <1>1, <1>9, <1>10, NoCopy
    <2>2. CASE m # k
      <3>1. ~Takes(g, m) /\ ~Puts(g, m)
        BY <1>3, <1>8, <2>2, MqWords DEF Takes, Puts
      <3>2. front'[m] = o /\ rear'[m] = e
        BY <1>2, <1>6, <2>1, <2>2 DEF Rings
      <3> QED BY <1>9, <3>1, <3>2 DEF RingAt
    <2>3. CASE m = k /\ l = "send_copy"
      <3>1. ~Takes(g, m) /\ Puts(g, m) /\ g.num = e
        BY <1>3, <1>6, <1>8, <2>1, <2>3 DEF Takes, Puts
      <3>2. front'[m] = o /\ rear'[m] = Successor(e, QueueSize[m])
        BY <1>2, <1>6, <2>1, <2>3 DEF Rings
      <3> QED BY <1>9, <3>1, <3>2 DEF RingAt
    <2>4. CASE m = k /\ l = "recv_copy"
      <3>1. Takes(g, m) /\ ~Puts(g, m) /\ g.num = o
        BY <1>3, <1>6, <1>8, <2>1, <2>4 DEF Takes, Puts
      <3>2. front'[m] = Successor(o, QueueSize[m]) /\ rear'[m] = e
        BY <1>2, <1>6, <2>1, <2>4 DEF Rings
      <3> QED BY <1>9, <3>1, <3>2 DEF RingAt
    <2> QED BY <1>6, <2>2, <2>3, <2>4
  <1>11. RingSound' /\ \A m \in Mq : Contents(m)' = Contents(m)
    BY <1>1, <1>2, <1>10, RingStays
  <1> QED BY <1>1, <1>9, <1>11

(* The queues whose ring a copy does not touch.                            *)
LEMMA OtherRings ==
  ASSUME IInv, IInv', RingSound, NEW k \in Mq, Sect(cpu) = {Top}, Sect(cpu') = {},
         Top.queue = putsem(k) \/ Top.queue = getsem(k), NEW m \in Mq, m # k,
         slots'[m] = slots[m], stored'[m] = stored[m], UNCHANGED <<front, rear>>
  PROVE  /\ Contents(m)' = Contents(m)
         /\ slots'[m] \in [0 .. QueueSize[m] - 1 -> Content]
         /\ \E o, n \in 0 .. QueueSize[m] - 1 :
              /\ Apart(o, n, stored'[m], QueueSize[m])
              /\ RingAt(Sect(cpu'), m, front'[m], rear'[m], o, n)
  <1>1. PICK o, n \in 0 .. QueueSize[m] - 1 :
          /\ Apart(o, n, stored[m], QueueSize[m])
          /\ RingAt(Sect(cpu), m, front[m], rear[m], o, n)
    BY DEF RingSound
  <1>2. ~Takes(Top, m) /\ ~Puts(Top, m)
    BY MqWords DEF Takes, Puts
  <1>3. front[m] = o /\ rear[m] = n
    BY <1>1, <1>2 DEF RingAt
  <1>4. RingAt(Sect(cpu'), m, front'[m], rear'[m], o, n)
    BY <1>3, NoCopy
  <1>5. Contents(m)' = Contents(m)
    BY <1>1, <1>4, ContentsAre, ContentsBecome
  <1> QED BY <1>1, <1>4, <1>5 DEF RingSound

LEMMA NextPlace ==
  ASSUME NEW z \in Nat \ {0}, NEW o, NEW n, NEW k \in 0 .. z - 1, Apart(o, n, k, z)
  PROVE  Apart(o, Successor(n, z), k + 1, z)
  BY DEF Apart, Successor

LEMMA PlaceTaken ==
  ASSUME NEW z \in Nat \ {0}, NEW o, NEW n, NEW k \in 1 .. z, Apart(o, n, k, z)
  PROVE  Apart(Successor(o, z), n, k - 1, z)
  BY DEF Apart, Successor

(* A message goes to the end of its queue. *)
LEMMA RingPut ==
  ASSUME MqIInv, MqIInv', Sections, RingSound, SendCopy
  PROVE  /\ Sections' /\ RingSound' /\ UNCHANGED out
         /\ \E k \in Mq, v \in Msg :
              /\ Len(Contents(k)) < QueueSize[k]
              /\ Contents(k)' = Append(Contents(k), v)
              /\ \A m \in Mq : m # k => Contents(m)' = Contents(m)
  <1>1. /\ Top.pc = "send_copy" /\ Top.pc \in MqLabel /\ UNCHANGED <<front, rear, out>>
    BY DEF SendCopy, At, MqLabel
  <1>2. IInv /\ IInv' /\ Rings /\ Top \in FrameType /\ Proper(Top)
    BY <1>1, MqAt DEF MqIInv, SemIInv
  <1>3. PICK k \in Mq : Top.queue = putsem(k)
    BY <1>1, <1>2 DEF Proper
  <1>4. PICK z, v, a : z = QueueSize[k] /\ v = Top.abs /\ a = slots[k]
    OBVIOUS
  <1>5. v \in Msg /\ v \in Content /\ z \in Nat \ {0} /\ a \in [0 .. z - 1 -> Content]
    BY <1>1, <1>2, <1>4, MessageQueueAssumption DEF Proper, RingSound, Content
  <1>6. stored[k] \in 0 .. z - 1
    BY <1>1, <1>3, <1>4, <1>5, CopyRoom
  <1>7. Sections' /\ Sect(cpu) = {Top} /\ Sect(cpu') = {}
    BY CopySect
  <1>8. PICK o, n \in 0 .. z - 1 :
          Apart(o, n, stored[k], z) /\ RingAt(Sect(cpu), k, front[k], rear[k], o, n)
    BY <1>4 DEF RingSound
  <1>9. n = Top.num /\ rear[k] = Successor(n, z) /\ front[k] = o
    <2>1. Puts(Top, k) /\ ~Takes(Top, k)
      BY <1>1, <1>3 DEF Puts, Takes
    <2> QED BY <1>4, <1>7, <1>8, <2>1 DEF RingAt
  <1>10. PICK b : b = [a EXCEPT ![n] = v]
    OBVIOUS
  <1>11. slots' = [slots EXCEPT ![k] = b] /\ stored' = [stored EXCEPT ![k] = stored[k] + 1]
    <2>1. This = k
      BY <1>3, MqWords DEF This
    <2> QED BY <1>4, <1>9, <1>10, <2>1 DEF SendCopy
  <1>12. slots'[k] = b /\ stored'[k] = stored[k] + 1 /\ DOMAIN slots' = Mq
         /\ \A m \in Mq : m # k => slots'[m] = slots[m] /\ stored'[m] = stored[m]
    BY <1>2, <1>11 DEF RingSound, Rings
  <1>13. /\ b \in [0 .. z - 1 -> Content]
         /\ ContentsIn(b, o, stored[k] + 1, z) = Append(ContentsIn(a, o, stored[k], z), v)
    <2>1. PICK h : h = stored[k]
      OBVIOUS
    <2>2. h \in 0 .. z - 1 /\ Apart(o, n, h, z)
      BY <1>6, <1>8, <2>1
    <2>3. b \in [0 .. z - 1 -> Content]
      BY <1>5, <1>10, <2>2
    <2>4. ContentsIn(b, o, h + 1, z) = Append(ContentsIn(a, o, h, z), v)
      <3>1. b[n] = v /\ \A i \in 0 .. z - 1 : i # n => b[i] = a[i]
        BY <1>5, <1>10
      <3> QED BY <1>5, <2>2, <2>3, <3>1, PutInRing
    <2> QED BY <2>1, <2>3, <2>4
  <1>14. Apart(o, Successor(n, z), stored[k] + 1, z)
    BY <1>5, <1>6, <1>8, NextPlace
  <1>15. RingAt(Sect(cpu'), k, front'[k], rear'[k], o, Successor(n, z))
    BY <1>1, <1>7, <1>9, NoCopy
  <1>16. \A m \in Mq : m # k => Contents(m)' = Contents(m)
    BY <1>1, <1>2, <1>3, <1>7, <1>12, OtherRings
  <1>17. RingSound'
    <2>1. DOMAIN slots' = Mq /\ DOMAIN out' = Mq
      BY <1>1, <1>12 DEF RingSound
    <2>2. ASSUME NEW m \in Mq
          PROVE  /\ slots'[m] \in [0 .. QueueSize[m] - 1 -> Content]
                 /\ \E p, q \in 0 .. QueueSize[m] - 1 :
                      /\ Apart(p, q, stored'[m], QueueSize[m])
                      /\ RingAt(Sect(cpu'), m, front'[m], rear'[m], p, q)
      <3>1. CASE m = k
        <4>1. Successor(n, z) \in 0 .. z - 1
          BY <1>14 DEF Apart
        <4> QED BY <1>4, <1>8, <1>12, <1>13, <1>14, <1>15, <3>1, <4>1
      <3>2. CASE m # k
        BY <1>1, <1>2, <1>3, <1>7, <1>12, <3>2, OtherRings
      <3> QED BY <3>1, <3>2
    <2> QED BY <2>1, <2>2 DEF RingSound
  <1>18. Contents(k) = ContentsIn(a, o, stored[k], z)
    BY <1>2, <1>4, <1>8, ContentsAre
  <1>19. Contents(k)' = ContentsIn(b, o, stored[k] + 1, z)
    BY <1>2, <1>4, <1>12, <1>15, ContentsBecome
  <1>20. Len(Contents(k)) < z
    <2>1. PICK h, c : h = stored[k] /\ c = Contents(k)
      OBVIOUS
    <2>2. h \in 0 .. z - 1 /\ h \in 0 .. z /\ o \in 0 .. z - 1 /\ c = ContentsIn(a, o, h, z)
      BY <1>5, <1>6, <1>8, <1>18, <2>1
    <2>3. Len(c) = h
      BY <1>5, <2>2, ContentsType
    <2>4. h < z
      BY <1>5, <2>2
    <2> QED BY <2>1, <2>3, <2>4
  <1> QED BY <1>1, <1>4, <1>5, <1>7, <1>13, <1>16, <1>17, <1>18, <1>19, <1>20

(* The oldest message is received. *)
LEMMA RingGet ==
  ASSUME MqIInv, MqIInv', Sections, RingSound, ReceiveCopy
  PROVE  /\ Sections' /\ RingSound'
         /\ \E k \in Mq :
              /\ Contents(k) # <<>> /\ Contents(k)' = Tail(Contents(k))
              /\ out' = [out EXCEPT ![k] = Head(Contents(k))]
              /\ \A m \in Mq : m # k => Contents(m)' = Contents(m)
  <1>1. /\ Top.pc = "recv_copy" /\ Top.pc \in MqLabel /\ UNCHANGED <<slots, front, rear>>
    BY DEF ReceiveCopy, At, MqLabel
  <1>2. IInv /\ IInv' /\ Rings /\ Top \in FrameType /\ Proper(Top)
    BY <1>1, MqAt DEF MqIInv, SemIInv
  <1>3. PICK k \in Mq : Top.queue = getsem(k)
    BY <1>1, <1>2 DEF Proper
  <1>4. PICK z, a : z = QueueSize[k] /\ a = slots[k]
    OBVIOUS
  <1>5. z \in Nat \ {0} /\ a \in [0 .. z - 1 -> Content]
    BY <1>4, MessageQueueAssumption DEF RingSound
  <1>6. stored[k] \in 1 .. z
    BY <1>1, <1>3, <1>4, <1>5, CopyRoom
  <1>7. Sections' /\ Sect(cpu) = {Top} /\ Sect(cpu') = {}
    BY CopySect
  <1>8. PICK o, n \in 0 .. z - 1 :
          Apart(o, n, stored[k], z) /\ RingAt(Sect(cpu), k, front[k], rear[k], o, n)
    BY <1>4 DEF RingSound
  <1>9. o = Top.num /\ front[k] = Successor(o, z) /\ rear[k] = n
    <2>1. Takes(Top, k) /\ ~Puts(Top, k)
      BY <1>1, <1>3 DEF Puts, Takes
    <2> QED BY <1>4, <1>7, <1>8, <2>1 DEF RingAt
  <1>10. PICK p : p = Successor(o, z)
    OBVIOUS
  <1>11. out' = [out EXCEPT ![k] = a[o]] /\ stored' = [stored EXCEPT ![k] = stored[k] - 1]
    <2>1. This = k
      BY <1>3, MqWords DEF This
    <2> QED BY <1>4, <1>9, <2>1 DEF ReceiveCopy
  <1>12. stored'[k] = stored[k] - 1 /\ slots' = slots
         /\ \A m \in Mq : m # k => stored'[m] = stored[m]
    BY <1>1, <1>2, <1>11 DEF Rings
  <1>13. /\ ContentsIn(a, p, stored[k] - 1, z) = Tail(ContentsIn(a, o, stored[k], z))
         /\ Head(ContentsIn(a, o, stored[k], z)) = a[o]
         /\ ContentsIn(a, o, stored[k], z) # <<>>
    BY <1>5, <1>6, <1>8, <1>10, TakeFromRing
  <1>14. Apart(p, n, stored[k] - 1, z)
    BY <1>5, <1>6, <1>8, <1>10, PlaceTaken
  <1>15. RingAt(Sect(cpu'), k, front'[k], rear'[k], p, n)
    BY <1>1, <1>7, <1>9, <1>10, NoCopy
  <1>16. \A m \in Mq : m # k => Contents(m)' = Contents(m)
    BY <1>1, <1>2, <1>3, <1>7, <1>12, OtherRings
  <1>17. RingSound'
    <2>1. DOMAIN slots' = Mq /\ DOMAIN out' = Mq
      BY <1>1, <1>11 DEF RingSound
    <2>2. ASSUME NEW m \in Mq
          PROVE  /\ slots'[m] \in [0 .. QueueSize[m] - 1 -> Content]
                 /\ \E q, r \in 0 .. QueueSize[m] - 1 :
                      /\ Apart(q, r, stored'[m], QueueSize[m])
                      /\ RingAt(Sect(cpu'), m, front'[m], rear'[m], q, r)
      <3>1. CASE m = k
        <4>1. p \in 0 .. z - 1
          BY <1>14 DEF Apart
        <4> QED BY <1>4, <1>5, <1>8, <1>12, <1>14, <1>15, <3>1, <4>1
      <3>2. CASE m # k
        BY <1>1, <1>2, <1>3, <1>7, <1>12, <3>2, OtherRings
      <3> QED BY <3>1, <3>2
    <2> QED BY <2>1, <2>2 DEF RingSound
  <1>18. Contents(k) = ContentsIn(a, o, stored[k], z)
    BY <1>2, <1>4, <1>8, ContentsAre
  <1>19. Contents(k)' = ContentsIn(a, p, stored[k] - 1, z)
    BY <1>2, <1>4, <1>12, <1>15, ContentsBecome
  <1> QED BY <1>7, <1>11, <1>13, <1>16, <1>17, <1>18, <1>19

(* A step that leaves the rings as they are. *)
LEMMA RingRests ==
  ASSUME IInv, IInv', RingSound, UNCHANGED ring,
         \/ Sect(cpu') = Sect(cpu)
         \/ \A f \in Sect(cpu) \cup Sect(cpu') : f.pc \notin {"send_copy", "recv_copy"}
  PROVE  RingSound' /\ UNCHANGED out /\ \A m \in Mq : Contents(m)' = Contents(m)
  <1>1. UNCHANGED <<slots, front, rear, stored, out>>
    BY DEF ring
  <1>2. ASSUME NEW m \in Mq, NEW o \in Nat, NEW n \in Nat,
               RingAt(Sect(cpu), m, front[m], rear[m], o, n)
        PROVE  RingAt(Sect(cpu'), m, front'[m], rear'[m], o, n)
    <2>1. CASE Sect(cpu') = Sect(cpu)
      BY <1>1, <1>2, <2>1
    <2>2. CASE \A f \in Sect(cpu) \cup Sect(cpu') : f.pc \notin {"send_copy", "recv_copy"}
      <3>1. front[m] = o /\ rear[m] = n
        BY <1>2, <2>2, NoCopy
      <3> QED BY <1>1, <2>2, <3>1, NoCopy
    <2> QED BY <2>1, <2>2
  <1> QED BY <1>1, <1>2, RingStays

-----------------------------------------------------------------------------
(* The queues are channels. *)

ChanIInv == MqIInv /\ Sections /\ RingSound

LEMMA ChanInitIInv ==
  ASSUME MqInit, \A m \in Mq : QueueSize[m] < HALF
  PROVE  ChanIInv /\ \A m \in Mq : Contents(m) = <<>>
  <1>1. MqIInv
    BY MqInitIInv
  <1>2. IInv /\ current = NULL /\ ctx = [t \in Task |-> <<>>] /\ cpu = <<Frame("boot")>>
    BY <1>1 DEF MqIInv, SemIInv, MqInit, Init
  <1>3. Sect(cpu) = {}
    BY <1>2, EarlySect
  <1>4. Sections
    <2>1. ~Has(cpu, Behind)
      BY <1>2 DEF Has, Frame, TaskFrame, Behind, Picked, Switching
    <2>2. \A t \in Task : Sect(ctx[t]) = {}
      BY <1>2, NoFrames
    <2> QED BY <1>2, <1>3, <2>1, <2>2 DEF Sections
  <1>5. ASSUME NEW m \in Mq
        PROVE  /\ slots[m] \in [0 .. QueueSize[m] - 1 -> Content]
               /\ 0 \in 0 .. QueueSize[m] - 1
               /\ Apart(0, 0, stored[m], QueueSize[m])
               /\ RingAt(Sect(cpu), m, front[m], rear[m], 0, 0)
    <2>1. QueueSize[m] \in Nat \ {0}
      BY MessageQueueAssumption
    <2>2. front[m] = 0 /\ rear[m] = 0 /\ stored[m] = 0
          /\ slots[m] = [i \in 0 .. QueueSize[m] - 1 |-> NULL]
      BY DEF MqInit
    <2>3. RingAt(Sect(cpu), m, front[m], rear[m], 0, 0)
      BY <1>3, <2>2, NoCopy
    <2> QED BY <2>1, <2>2, <2>3 DEF Apart, Content
  <1>6. RingSound
    <2>1. DOMAIN slots = Mq /\ DOMAIN out = Mq
      BY DEF MqInit
    <2> QED BY <1>5, <2>1 DEF RingSound
  <1>7. ASSUME NEW m \in Mq PROVE Contents(m) = <<>>
    <2>1. stored[m] = 0
      BY DEF MqInit
    <2>2. PICK c, z, a : c = Contents(m) /\ z = QueueSize[m] /\ a = slots[m]
      OBVIOUS
    <2>3. /\ c = ContentsIn(a, 0, 0, z) /\ a \in [0 .. z - 1 -> Content]
          /\ z \in Nat \ {0} /\ 0 \in 0 .. z - 1 /\ 0 \in 0 .. z
      <3>1. IInv
        BY <1>1 DEF MqIInv, SemIInv
      <3>2. Contents(m) = ContentsIn(slots[m], 0, stored[m], QueueSize[m])
        BY <1>5, <3>1, ContentsAre
      <3>3. z \in Nat \ {0}
        BY <2>2, MessageQueueAssumption
      <3>4. a \in [0 .. z - 1 -> Content] /\ c = ContentsIn(a, 0, 0, z)
        BY <1>5, <2>1, <2>2, <3>2
      <3> QED BY <3>3, <3>4
    <2>4. c \in Seq(Content) /\ Len(c) = 0
      BY <2>3, ContentsType
    <2>5. c = <<>>
      BY <2>4
    <2> QED BY <2>2, <2>5
  <1> QED BY <1>1, <1>4, <1>6, <1>7 DEF ChanIInv

LEMMA ChanStep ==
  ASSUME "restore" \notin IrqPoints, ~ResumeAtElr, {"acquire", "release"} \cap Ops = {},
         \A m \in Mq : QueueSize[m] < HALF, ChanIInv, [MqNext]_mvars
  PROVE  /\ ChanIInv'
         /\ \/ UNCHANGED out /\ \A m \in Mq : Contents(m)' = Contents(m)
            \/ /\ UNCHANGED out
               /\ \E k \in Mq, v \in Msg :
                    /\ Len(Contents(k)) < QueueSize[k]
                    /\ Contents(k)' = Append(Contents(k), v)
                    /\ \A m \in Mq : m # k => Contents(m)' = Contents(m)
            \/ \E k \in Mq :
                 /\ Contents(k) # <<>> /\ Contents(k)' = Tail(Contents(k))
                 /\ out' = [out EXCEPT ![k] = Head(Contents(k))]
                 /\ \A m \in Mq : m # k => Contents(m)' = Contents(m)
  <1>1. MqIInv /\ MqIInv' /\ Sections /\ RingSound
    BY MqNextIInv DEF ChanIInv
  <1>2. IInv /\ IInv'
    BY <1>1 DEF MqIInv, SemIInv
  <1>3. CASE SendIndex \/ ReceiveIndex
    BY <1>1, <1>3, RingIndex DEF ChanIInv
  <1>4. CASE SendCopy
    BY <1>1, <1>4, RingPut DEF ChanIInv
  <1>5. CASE ReceiveCopy
    BY <1>1, <1>5, RingGet DEF ChanIInv
  <1>6. ASSUME Sections', UNCHANGED ring,
               \/ Sect(cpu') = Sect(cpu)
               \/ \A f \in Sect(cpu) \cup Sect(cpu') : f.pc \notin {"send_copy", "recv_copy"}
        PROVE  ChanIInv' /\ UNCHANGED out /\ \A m \in Mq : Contents(m)' = Contents(m)
    BY <1>1, <1>2, <1>6, RingRests DEF ChanIInv
  <1>7. CASE UserSend \/ UserReceive
    <2>1. UNCHANGED ring
      BY <1>7 DEF UserSend, UserReceive
    <2>2. Sections' /\ Sect(cpu) = {} /\ Sect(cpu') = {}
      BY <1>1, <1>7, UserSect
    <2> QED BY <1>6, <2>1, <2>2
  <1>8. CASE SendGot \/ ReceiveGot
    <2>1. UNCHANGED ring
      BY <1>8 DEF SendGot, ReceiveGot
    <2>2. /\ Sections' /\ Sect(cpu) = {}
          /\ \A f \in Sect(cpu') : f.pc \in {"send_idx", "recv_idx"}
      BY <1>1, <1>8, GotSect
    <2> QED BY <1>6, <2>1, <2>2
  <1>9. CASE SendRelease \/ ReceiveRelease
    <2>1. UNCHANGED ring
      BY <1>9 DEF SendRelease, ReceiveRelease
    <2>2. Sections' /\ Sect(cpu) = {} /\ Sect(cpu') = {}
      BY <1>1, <1>9, TellSect
    <2> QED BY <1>6, <2>1, <2>2
  <1>10. CASE (SemNext \/ UNCHANGED svars) /\ UNCHANGED ring
    <2>1. CASE SemStep
      <3>1. ~UserAcquire /\ ~UserRelease
        BY DEF UserAcquire, UserRelease, UserCall
      <3>2. Sections' /\ Sect(cpu)' = Sect(cpu)
        BY <1>1, <2>1, <3>1, SemSections DEF SemStep
      <3> QED BY <1>6, <1>10, <3>2
    <2>2. CASE Next \/ WaitInQueue \/ Waiting \/ Wakeup \/ MakeReady \/ UNCHANGED vars
      <3>1. Sections' /\ Sect(cpu)' = Sect(cpu)
        BY <1>1, <2>2, KernelSections
      <3> QED BY <1>6, <1>10, <3>1
    <2> QED BY <1>10, <2>1, <2>2 DEF SemNext, WaitStep, svars
  <1>11. MqNext \/ UNCHANGED <<svars, ring>>
    BY DEF mvars
  <1> QED BY <1>3, <1>4, <1>5, <1>7, <1>8, <1>9, <1>10, <1>11 DEF MqNext, MqStep

(* Whatever the tasks send and receive, with any timeouts, priorities and  *)
(* sizes of the queues, and wherever the tick interrupts them, each queue  *)
(* is a FIFO channel of queue_size messages: none is lost, received twice, *)
(* overtaken or overwritten before it is read (comm.c:33-111).             *)
THEOREM ChannelImplemented ==
  ASSUME "restore" \notin IrqPoints, ~ResumeAtElr, {"acquire", "release"} \cap Ops = {},
         \A m \in Mq : QueueSize[m] < HALF
  PROVE  MqSpec => ImplementsChannel
  <1> DEFINE chan == [m \in Mq |-> Contents(m)]
  <1>1. MqInit => ChanIInv /\ AsChannel!Init
    <2> SUFFICES ASSUME MqInit PROVE ChanIInv /\ AsChannel!Init
      OBVIOUS
    <2>1. ChanIInv /\ \A m \in Mq : Contents(m) = <<>>
      BY ChanInitIInv
    <2>2. chan = [m \in Mq |-> <<>>]
      BY <2>1
    <2>3. out = [m \in Mq |-> NULL]
      BY DEF MqInit
    <2> QED BY <2>1, <2>2, <2>3 DEF AsChannel!Init
  <1>2. ChanIInv /\ [MqNext]_mvars =>
          ChanIInv' /\ [AsChannel!Next]_<<[m \in Mq |-> Contents(m)], out>>
    <2> SUFFICES ASSUME ChanIInv, [MqNext]_mvars
                 PROVE  ChanIInv' /\ (AsChannel!Next \/ UNCHANGED <<chan, out>>)
      OBVIOUS
    <2>1. CASE UNCHANGED out /\ \A m \in Mq : Contents(m)' = Contents(m)
      <3>1. chan' = chan
        BY <2>1
      <3> QED BY <2>1, <3>1, ChanStep
    <2>2. ASSUME NEW k \in Mq, NEW v \in Msg, UNCHANGED out, Len(Contents(k)) < QueueSize[k],
                 Contents(k)' = Append(Contents(k), v),
                 \A m \in Mq : m # k => Contents(m)' = Contents(m)
          PROVE  AsChannel!Put(k, v)
      <3>1. chan' = [chan EXCEPT ![k] = Append(chan[k], v)]
        BY <2>2
      <3> QED BY <2>2, <3>1 DEF AsChannel!Put
    <2>3. ASSUME NEW k \in Mq, Contents(k) # <<>>, Contents(k)' = Tail(Contents(k)),
                 out' = [out EXCEPT ![k] = Head(Contents(k))],
                 \A m \in Mq : m # k => Contents(m)' = Contents(m)
          PROVE  AsChannel!Get(k)
      <3>1. chan' = [chan EXCEPT ![k] = Tail(chan[k])]
        BY <2>3
      <3> QED BY <2>3, <3>1 DEF AsChannel!Get
    <2> HIDE DEF chan
    <2> QED BY <2>1, <2>2, <2>3, ChanStep DEF AsChannel!Next
  <1> QED BY <1>1, <1>2, PTL DEF MqSpec, ImplementsChannel, AsChannel!Spec
=============================================================================
