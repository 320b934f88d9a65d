--------------------------- MODULE CondVarProofs ----------------------------
(***************************************************************************)
(* The condition variables with their mutexes, for any tasks, conditions,  *)
(* mutexes and timeouts, wherever the tick interrupts them: no token of a  *)
(* mutex is handed out twice, and eos_wait_condition returns holding it.   *)
(*                                                                         *)
(* The argument: each task's stack keeps a discipline, whether it is on    *)
(* the CPU or saved in the task's context.  A release of a mutex that is   *)
(* under way is of a mutex its task holds, so that releasing and taking    *)
(* keep the sum of the count and the tokens held.                          *)
(***************************************************************************)
EXTENDS CondVar, SemaphoreProofs, FiniteSetTheorems

(* A frame of eos_wait_condition at its end has the mutex, or the acquire  *)
(* above it waits for the mutex without a timeout.                         *)
HasMutex(f, h) == f.num = 1 /\ h[MutexOf[f.queue]] > 0
AcquiresFor(g, f) == g.pc \in AcquireLabel /\ g.num = 0 /\ g.queue = MutexOf[f.queue]

(* A frame, when h is what its task holds of each mutex.                   *)
Sound(f, h) ==
  /\ f.pc \in CondLabel => f.queue \in Condition
  /\ f.pc = "release" /\ f.queue \in Mutex => h[f.queue] > 0

(* What may be above a frame f: at most one call of a semaphore is under   *)
(* way, with only the kernel's calls above it.                             *)
Above(g, f) ==
  /\ f.pc \in SemLabel => g.pc \in CallLabel
  /\ f.pc = "cond_ret" => g.pc \in CallLabel \/ AcquiresFor(g, f)

(* The stacks of t, or what is below the frames of X in one.               *)
Below(t, h, X) ==
  {s \in Belongs(t) :
     /\ \A i \in 1 .. Len(s) :
          /\ Sound(s[i], h)
          /\ s[i].pc = "cond_ret" /\ "lock" \notin Ops =>
               \/ HasMutex(s[i], h)
               \/ \E g \in X : AcquiresFor(g, s[i])
               \/ \E j \in 1 .. i - 1 : AcquiresFor(s[j], s[i])
     /\ \A i, j \in 1 .. Len(s) : i < j => Above(s[i], s[j])}
Disciplined(t, h) == Below(t, h, {})

CondStacks(H) == [t \in Task |-> Disciplined(t, H[t])]

(* No token of a mutex is lost or made: those that tasks hold and the      *)
(* count add up to the initial count.                                      *)
Tokens ==
  \A q \in Mutex :
    /\ \A t \in Task : held[t][q] >= 0
    /\ IsFiniteSet(HeldTokens(q)) /\ count[q] >= 0
    /\ count[q] + Cardinality(HeldTokens(q)) = InitialCount[q]

(* Unless the application locks it, the scheduler is unlocked once the     *)
(* first task has been picked.                                             *)
Unlocked == "lock" \notin Ops /\ lock = "LOCKED" => current = NULL /\ ~InSwitch(cpu)

CondIInv == SemIInv /\ Tokens /\ StacksIn(CondStacks(held)) /\ Unlocked
-----------------------------------------------------------------------------
(* Stacks that keep the discipline. *)

LEMMA LabelsApart ==
  /\ \A l \in CallLabel : l \notin SemLabel /\ l \notin CondLabel /\ l # "restore"
                             /\ l \notin BottomLabel
  /\ \A l \in SemLabel \cup CondLabel :
       l \notin BottomLabel /\ l \notin KernelLabel /\ l # "restore"
  /\ SemLabel \cap CondLabel = {} /\ AcquireLabel \subseteq SemLabel
  /\ "release" \in SemLabel \ AcquireLabel /\ "cond_ret" \in CondLabel
  /\ CallLabel \subseteq KernelLabel /\ {"user", "idle"} \subseteq BottomLabel
  BY DEF CallLabel, SemLabel, CondLabel, BottomLabel, KernelLabel, AcquireLabel

(* Other frames above, or other tokens held.                               *)
LEMMA BelowOthers ==
  ASSUME NEW t, NEW h, NEW k, NEW X, NEW Y, NEW s \in Below(t, h, X),
         \A i \in 1 .. Len(s) :
           /\ Sound(s[i], h) => Sound(s[i], k)
           /\ s[i].pc = "cond_ret" =>
                /\ HasMutex(s[i], h) => HasMutex(s[i], k)
                /\ (\E g \in X : AcquiresFor(g, s[i])) => \E g \in Y : AcquiresFor(g, s[i])
  PROVE  s \in Below(t, k, Y)
  BY DEF Below

LEMMA BelowPush ==
  ASSUME NEW t \in Task, NEW h, NEW X, NEW f \in FrameType, NEW s \in Below(t, h, X \cup {f}),
         f.pc \notin BottomLabel \cup {"restore"}, f.pc \in CallLabel \/ s[1].pc \notin CallLabel,
         Sound(f, h), \A i \in 1 .. Len(s) : Above(f, s[i]),
         f.pc = "cond_ret" /\ "lock" \notin Ops =>
           HasMutex(f, h) \/ \E g \in X : AcquiresFor(g, f)
  PROVE  <<f>> \o s \in Below(t, h, X)
  <1>1. s \in Belongs(t) /\ s \in Seq(FrameType)
    BY BelongsFacts DEF Below
  <1>2. PICK r : r = <<f>> \o s
    OBVIOUS
  <1>3. /\ Len(r) = Len(s) + 1 /\ r[1] = f /\ Len(s) \in Nat
        /\ \A i \in 1 .. Len(r) : i # 1 => i - 1 \in 1 .. Len(s) /\ r[i] = s[i - 1]
    BY <1>1, <1>2, PushedStack
  <1>4. r \in Belongs(t)
    BY <1>1, <1>2, PushBelongs
  <1>5. ASSUME NEW i \in 1 .. Len(r)
        PROVE  /\ Sound(r[i], h)
               /\ r[i].pc = "cond_ret" /\ "lock" \notin Ops =>
                    \/ HasMutex(r[i], h)
                    \/ \E g \in X : AcquiresFor(g, r[i])
                    \/ \E j \in 1 .. i - 1 : AcquiresFor(r[j], r[i])
    <2>1. CASE i = 1
      BY <1>3, <2>1
    <2>2. CASE i # 1
      <3>1. i - 1 \in 1 .. Len(s) /\ r[i] = s[i - 1]
        BY <1>3, <2>2
      <3>2. Sound(s[i - 1], h)
        BY <3>1 DEF Below
      <3>3. ASSUME s[i - 1].pc = "cond_ret", "lock" \notin Ops
            PROVE  \/ HasMutex(s[i - 1], h)
                   \/ \E g \in X \cup {f} : AcquiresFor(g, s[i - 1])
                   \/ \E j \in 1 .. i - 1 - 1 : AcquiresFor(s[j], s[i - 1])
        BY <3>1, <3>3 DEF Below
      <3>4. 1 \in 1 .. i - 1
        BY <2>2
      <3>5. ASSUME NEW j \in 1 .. i - 1 - 1
            PROVE  j + 1 \in 1 .. i - 1 /\ r[j + 1] = s[j]
        <4>1. j + 1 \in 1 .. Len(r) /\ j + 1 # 1 /\ (j + 1) - 1 = j /\ j + 1 \in 1 .. i - 1
          BY <1>3
        <4> QED BY <1>3, <4>1
      <3> QED BY <1>3, <3>1, <3>2, <3>3, <3>4, <3>5
    <2> QED BY <2>1, <2>2
  <1>6. ASSUME NEW i \in 1 .. Len(r), NEW j \in 1 .. Len(r), i < j
        PROVE  Above(r[i], r[j])
    <2>1. j - 1 \in 1 .. Len(s) /\ r[j] = s[j - 1]
      BY <1>3, <1>6
    <2>2. CASE i = 1
      BY <1>3, <2>1, <2>2
    <2>3. CASE i # 1
      <3>1. i - 1 \in 1 .. Len(s) /\ r[i] = s[i - 1] /\ i - 1 < j - 1
        BY <1>3, <1>6, <2>3
      <3> QED BY <2>1, <3>1 DEF Below
    <2> QED BY <2>2, <2>3
  <1>7. r \in Below(t, h, X)
    BY <1>4, <1>5, <1>6 DEF Below
  <1> QED BY <1>2, <1>7

LEMMA BelowPop ==
  ASSUME NEW t \in Task, NEW h, NEW X, NEW s \in Below(t, h, X), s[1].pc \notin {"user", "idle"}
  PROVE  /\ Tail(s) \in Below(t, h, X \cup {s[1]})
         /\ \A i \in 1 .. Len(Tail(s)) : Above(s[1], Tail(s)[i])
         /\ s[1].pc \notin CallLabel => Tail(s)[1].pc \notin CallLabel
  <1>1. s \in Belongs(t) /\ s \in Seq(FrameType) /\ s # <<>>
    BY BelongsFacts DEF Below
  <1>2. PICK r : r = Tail(s)
    OBVIOUS
  <1>3. /\ Len(s) = Len(r) + 1 /\ Len(r) \in Nat
        /\ \A i \in 1 .. Len(r) : i + 1 \in 1 .. Len(s) /\ r[i] = s[i + 1]
    BY <1>1, <1>2, PoppedStack
  <1>4. r \in Belongs(t)
    BY <1>1, <1>2, TailBelongs
  <1>5. ASSUME NEW i \in 1 .. Len(r)
        PROVE  /\ Sound(r[i], h) /\ Above(s[1], r[i])
               /\ r[i].pc = "cond_ret" /\ "lock" \notin Ops =>
                    \/ HasMutex(r[i], h)
                    \/ \E g \in X \cup {s[1]} : AcquiresFor(g, r[i])
                    \/ \E j \in 1 .. i - 1 : AcquiresFor(r[j], r[i])
    <2>1. i + 1 \in 1 .. Len(s) /\ r[i] = s[i + 1] /\ 1 \in 1 .. Len(s) /\ 1 < i + 1
      BY <1>3
    <2>2. Sound(s[i + 1], h) /\ Above(s[1], s[i + 1])
      BY <2>1 DEF Below
    <2>3. ASSUME s[i + 1].pc = "cond_ret", "lock" \notin Ops
          PROVE  \/ HasMutex(s[i + 1], h)
                 \/ \E g \in X : AcquiresFor(g, s[i + 1])
                 \/ \E j \in 1 .. i + 1 - 1 : AcquiresFor(s[j], s[i + 1])
      BY <2>1, <2>3 DEF Below
    <2>4. ASSUME NEW j \in 1 .. i + 1 - 1, j # 1
          PROVE  j - 1 \in 1 .. i - 1 /\ r[j - 1] = s[j]
      <3>1. j - 1 \in 1 .. Len(r) /\ (j - 1) + 1 = j /\ j - 1 \in 1 .. i - 1
        BY <1>3, <2>4
      <3> QED BY <1>3, <3>1
    <2> QED BY <2>1, <2>2, <2>3, <2>4
  <1>6. ASSUME NEW i \in 1 .. Len(r), NEW j \in 1 .. Len(r), i < j
        PROVE  Above(r[i], r[j])
    <2>1. /\ i + 1 \in 1 .. Len(s) /\ j + 1 \in 1 .. Len(s) /\ i + 1 < j + 1
          /\ r[i] = s[i + 1] /\ r[j] = s[j + 1]
      BY <1>3, <1>6
    <2> QED BY <2>1 DEF Below
  <1>7. r \in Below(t, h, X \cup {s[1]})
    BY <1>4, <1>5, <1>6 DEF Below
  <1>8. ASSUME s[1].pc \notin CallLabel PROVE r[1].pc \notin CallLabel
    <2>1. 1 \in 1 .. Len(r)
      BY <1>3, <1>4, BelongsFacts
    <2>2. 1 \in 1 .. Len(s) /\ 1 + 1 \in 1 .. Len(s) /\ 1 < 1 + 1 /\ r[1] = s[1 + 1]
      BY <1>3, <2>1
    <2> QED BY <1>1, <1>8, <2>2 DEF Belongs
  <1> QED BY <1>2, <1>5, <1>7, <1>8

(* The kernel's calls and returns, and the return of any call but an       *)
(* acquire.                                                                *)
LEMMA DisciplinedCall ==
  ASSUME NEW t \in Task, NEW h, NEW s \in Disciplined(t, h), NEW f \in CallFrame
  PROVE  <<f>> \o s \in Disciplined(t, h)
  <1>1. f \in FrameType /\ f.pc \in CallLabel
    BY DEF CallFrame
  <1>2. s \in Below(t, h, {} \cup {f})
    BY BelowOthers DEF Disciplined
  <1>3. Sound(f, h) /\ \A i \in 1 .. Len(s) : Above(f, s[i])
    BY <1>1, LabelsApart DEF Sound, Above
  <1>4. f.pc \notin BottomLabel \cup {"restore"} /\ f.pc # "cond_ret"
    BY <1>1, LabelsApart
  <1> QED BY <1>1, <1>2, <1>3, <1>4, BelowPush DEF Disciplined

LEMMA DisciplinedReturn ==
  ASSUME NEW t \in Task, NEW h, NEW s \in Disciplined(t, h),
         s[1].pc \notin AcquireLabel \cup {"user", "idle"}
  PROVE  Tail(s) \in Disciplined(t, h)
  <1>1. Tail(s) \in Below(t, h, {} \cup {s[1]})
    BY BelowPop DEF Disciplined
  <1>2. \A f : ~AcquiresFor(s[1], f)
    BY DEF AcquiresFor
  <1> QED BY <1>1, <1>2, BelowOthers DEF Disciplined

LEMMA CondClosed ==
  ASSUME NEW H
  PROVE  CallClosed(CondStacks(H)) /\ CreateClosed(CondStacks(H))
  <1>1. CondStacks(H) \in [Task -> SUBSET Seq(FrameType)]
    BY DEF CondStacks, Disciplined, Below, Belongs
  <1>2. ASSUME NEW t \in Task, NEW s \in CondStacks(H)[t]
        PROVE  /\ s # <<>> /\ \A i \in 1 .. Len(s) : s[i].pc \notin NoTaskLabel
               /\ \A f \in CallFrame : <<f>> \o s \in CondStacks(H)[t]
               /\ s[1].pc \in CallLabel => Tail(s) \in CondStacks(H)[t]
    <2>1. s \in Disciplined(t, H[t]) /\ CondStacks(H)[t] = Disciplined(t, H[t])
      BY DEF CondStacks
    <2>2. s \in Belongs(t)
      BY <2>1 DEF Disciplined, Below
    <2>3. s[1].pc \in CallLabel => s[1].pc \notin AcquireLabel \cup {"user", "idle"}
      BY LabelsApart
    <2> QED BY <2>1, <2>2, <2>3, DisciplinedCall, DisciplinedReturn, BelongsFacts
  <1>3. ASSUME NEW t \in Task PROVE NewStack(t) \in CondStacks(H)[t]
    <2> DEFINE f == TaskFrame(IF t = Idle THEN "idle" ELSE "user", t, 0)
    <2>1. f.pc \in {"user", "idle"}
      BY DEF TaskFrame
    <2>2. NewStack(t) = <<f>>
      BY DEF NewStack
    <2> HIDE DEF f
    <2>3. Len(<<f>>) = 1 /\ <<f>>[1] = f
      OBVIOUS
    <2>4. Sound(f, H[t]) /\ f.pc # "cond_ret"
      BY <2>1, LabelsApart DEF Sound
    <2>5. <<f>> \in Belongs(t)
      BY <2>2, NewBelongs
    <2>6. \A i \in 1 .. Len(<<f>>) : i = 1
      BY <2>3
    <2>7. \A i, j \in 1 .. Len(<<f>>) : ~(i < j)
      BY <2>6
    <2>8. <<f>> \in Below(t, H[t], {})
      BY <2>3, <2>4, <2>5, <2>6, <2>7 DEF Below
    <2> QED BY <2>2, <2>8 DEF CondStacks, Disciplined
  <1> QED BY <1>1, <1>2, <1>3 DEF CallClosed, CreateClosed, CallLabel, KernelLabel, BottomLabel

(* A step within a call of a semaphore.  A release may give up what makes  *)
(* it sound.                                                               *)
LEMMA DisciplinedStep ==
  ASSUME NEW t \in Task, NEW h, NEW k, NEW s \in Disciplined(t, h), s[1].pc \in SemLabel,
         h = k \/ s[1].pc = "release", NEW f \in FrameType,
         f.pc \in (SemLabel \cup {"wakeup"}) \ {"release"},
         s[1].pc \in AcquireLabel <=> f.pc \in AcquireLabel,
         f.queue = s[1].queue, f.num = s[1].num
  PROVE  <<f>> \o Tail(s) \in Disciplined(t, k)
  <1> DEFINE r == Tail(s)
  <1>1. /\ s[1].pc \notin CallLabel /\ s[1].pc \notin {"user", "idle"}
        /\ f.pc \notin BottomLabel \cup {"restore"} /\ f.pc \notin CondLabel
    BY LabelsApart DEF CondLabel, BottomLabel
  <1>2. /\ r \in Below(t, h, {} \cup {s[1]})
        /\ \A i \in 1 .. Len(r) : Above(s[1], r[i])
        /\ r[1].pc \notin CallLabel
    BY <1>1, BelowPop DEF Disciplined
  <1> HIDE DEF r
  <1>3. ASSUME NEW i \in 1 .. Len(r)
        PROVE  /\ r[i].pc \notin SemLabel
               /\ r[i].pc = "cond_ret" => AcquiresFor(s[1], r[i]) /\ AcquiresFor(f, r[i])
    BY <1>1, <1>2 DEF Above, AcquiresFor
  <1>4. s[1].pc = "release" => \A i \in 1 .. Len(r) : r[i].pc # "cond_ret"
    BY <1>3, LabelsApart DEF AcquiresFor
  <1>5. \A i \in 1 .. Len(r) : Sound(r[i], h) => Sound(r[i], k)
    BY <1>3, LabelsApart DEF Sound
  <1>6. r \in Below(t, k, {} \cup {f})
    BY <1>2, <1>3, <1>4, <1>5, BelowOthers
  <1>7. \A i \in 1 .. Len(r) : Above(f, r[i])
    BY <1>3 DEF Above
  <1>8. Sound(f, k) /\ f.pc # "cond_ret"
    BY <1>1, LabelsApart DEF Sound
  <1>9. <<f>> \o r \in Below(t, k, {})
    BY <1>1, <1>2, <1>6, <1>7, <1>8, BelowPush
  <1> QED BY <1>9 DEF r, Disciplined

(* The return of an acquire, with its result.                              *)
LEMMA DisciplinedResult ==
  ASSUME NEW t \in Task, NEW h, NEW k, NEW s \in Disciplined(t, h), s[1].pc \in AcquireLabel,
         NEW n \in Int,
         \/ n = 1 /\ (s[1].queue \in Mutex => k[s[1].queue] > 0)
         \/ s[1].num # 0 \/ "lock" \in Ops
  PROVE  LET r == Tail(s) IN
         IF r[1].pc \in KernelLabel THEN r \in Disciplined(t, k)
         ELSE <<[r[1] EXCEPT !.num = n]>> \o Tail(r) \in Disciplined(t, k)
  <1> DEFINE r == Tail(s)
  <1>1. s[1].pc \notin CallLabel /\ s[1].pc \notin {"user", "idle"} /\ s[1].pc \in SemLabel
    BY LabelsApart
  <1>2. /\ r \in Below(t, h, {} \cup {s[1]})
        /\ \A i \in 1 .. Len(r) : Above(s[1], r[i])
        /\ r[1].pc \notin CallLabel
    BY <1>1, BelowPop DEF Disciplined
  <1> HIDE DEF r
  <1>3. /\ r \in Belongs(t) /\ r \in Seq(FrameType) /\ Len(r) \in Nat /\ Len(r) > 0
        /\ r # <<>> /\ r[1].pc \in BottomLabel => Len(r) = 1
    BY <1>2, BelongsFacts DEF Below
  <1>4. 1 \in 1 .. Len(r) /\ r[1] \in FrameType
    BY <1>3
  <1>5. r[1].pc \notin SemLabel /\ (r[1].pc = "cond_ret" => AcquiresFor(s[1], r[1]))
    BY <1>1, <1>2, <1>4 DEF Above
  <1>6. CASE r[1].pc \in KernelLabel
    <2>1. r[1].pc # "restore"
      BY <1>3, <1>4, BelongsFacts DEF NoTaskLabel
    <2>2. r[1].pc \in BottomLabel
      BY <1>2, <1>6, <2>1 DEF CallLabel
    <2>3. \A i \in 1 .. Len(r) : r[i].pc \in BottomLabel
      BY <1>3, <2>2
    <2>4. \A i \in 1 .. Len(r) : r[i].pc # "cond_ret" /\ (Sound(r[i], h) => Sound(r[i], k))
      BY <2>3, LabelsApart DEF Sound
    <2>5. r \in Below(t, k, {})
      BY <1>2, <2>4, BelowOthers
    <2> QED BY <1>6, <2>5 DEF r, Disciplined
  <1>7. CASE r[1].pc \notin KernelLabel
    <2> DEFINE f == [r[1] EXCEPT !.num = n]
               u == Tail(r)
    <2>1. f \in FrameType /\ f.pc = r[1].pc /\ f.queue = r[1].queue /\ f.num = n
      BY <1>4 DEF FrameType
    <2> HIDE DEF f
    <2>2. r[1].pc \notin {"user", "idle"} /\ r[1].pc \notin BottomLabel \cup {"restore"}
      BY <1>7 DEF KernelLabel, BottomLabel
    <2>3. /\ u \in Below(t, h, {} \cup {s[1]} \cup {r[1]})
          /\ \A i \in 1 .. Len(u) : Above(r[1], u[i])
          /\ u[1].pc \notin CallLabel
      BY <1>2, <2>2, BelowPop
    <2> HIDE DEF u
    <2>4. \A i \in 1 .. Len(u) : u[i].pc \notin SemLabel /\ u[i].pc # "cond_ret"
      BY <1>2, <1>5, <2>3, LabelsApart DEF Above, AcquiresFor
    <2>5. \A i \in 1 .. Len(u) : Sound(u[i], h) => Sound(u[i], k)
      BY <2>4, LabelsApart DEF Sound
    <2>6. u \in Below(t, k, {} \cup {f})
      BY <2>3, <2>4, <2>5, BelowOthers
    <2>7. Sound(r[1], h)
      BY <1>2, <1>4 DEF Below
    <2>8. Sound(f, k)
      BY <1>5, <2>1, <2>7, LabelsApart DEF Sound
    <2>9. f.pc = "cond_ret" /\ "lock" \notin Ops => HasMutex(f, k)
      <3> SUFFICES ASSUME r[1].pc = "cond_ret", "lock" \notin Ops PROVE HasMutex(f, k)
        BY <2>1
      <3>1. s[1].num = 0 /\ s[1].queue = MutexOf[r[1].queue]
        BY <1>5 DEF AcquiresFor
      <3>2. r[1].queue \in Condition
        BY <2>7, LabelsApart DEF Sound
      <3>3. MutexOf[r[1].queue] \in Mutex
        BY <3>2, CondVarAssumption
      <3> QED BY <2>1, <3>1, <3>3 DEF HasMutex
    <2>10. \A i \in 1 .. Len(u) : Above(f, u[i])
      BY <2>4 DEF Above
    <2>11. <<f>> \o u \in Below(t, k, {})
      BY <2>1, <2>2, <2>3, <2>6, <2>8, <2>9, <2>10, BelowPush
    <2> QED BY <1>7, <2>11 DEF f, u, r, Disciplined
  <1> QED BY <1>6, <1>7

(* A call by the application. *)
LEMMA DisciplinedUser ==
  ASSUME NEW t \in Task, NEW h, NEW s \in Disciplined(t, h), s[1].pc = "user",
         NEW f \in FrameType, f.pc \in (SemLabel \cup CondLabel) \ {"cond_ret"}, Sound(f, h)
  PROVE  <<f>> \o s \in Disciplined(t, h)
  <1>1. s \in Belongs(t) /\ s[1].pc \in BottomLabel /\ s[1].pc \notin CallLabel
    BY LabelsApart DEF Disciplined, Below
  <1>2. Len(s) = 1
    BY <1>1, BelongsFacts
  <1>3. \A i \in 1 .. Len(s) : Above(f, s[i]) /\ s[i].pc # "cond_ret"
    BY <1>1, <1>2, LabelsApart DEF Above
  <1>4. s \in Below(t, h, {} \cup {f})
    BY <1>3, BelowOthers DEF Disciplined
  <1>5. f.pc \notin BottomLabel \cup {"restore"}
    BY LabelsApart
  <1> QED BY <1>1, <1>3, <1>4, <1>5, BelowPush DEF Disciplined

(* A step of eos_wait_condition to its next call, with the frames X above. *)
LEMMA DisciplinedCond ==
  ASSUME NEW t \in Task, NEW h, NEW s \in Disciplined(t, h), s[1].pc \in CondLabel,
         NEW f \in FrameType, f.pc \in CondLabel, f.queue = s[1].queue, NEW X,
         f.pc = "cond_ret" => \E g \in X : AcquiresFor(g, f)
  PROVE  /\ <<f>> \o Tail(s) \in Below(t, h, X)
         /\ \A i \in 1 .. Len(Tail(s)) : Tail(s)[i].pc \notin SemLabel /\ Tail(s)[i].pc # "cond_ret"
  <1> DEFINE r == Tail(s)
  <1>1. /\ s[1].pc \notin CallLabel /\ s[1].pc \notin {"user", "idle"} /\ s[1].pc \notin AcquireLabel
        /\ f.pc \notin BottomLabel \cup {"restore"} /\ f.pc # "release"
    BY LabelsApart
  <1>2. /\ r \in Below(t, h, {} \cup {s[1]})
        /\ \A i \in 1 .. Len(r) : Above(s[1], r[i])
        /\ r[1].pc \notin CallLabel
    BY <1>1, BelowPop DEF Disciplined
  <1>3. s \in Belongs(t) /\ 1 \in 1 .. Len(s) /\ Sound(s[1], h)
    BY BelongsFacts DEF Disciplined, Below
  <1> HIDE DEF r
  <1>4. \A i \in 1 .. Len(r) : r[i].pc \notin SemLabel /\ r[i].pc # "cond_ret"
    BY <1>1, <1>2 DEF Above, AcquiresFor
  <1>5. r \in Below(t, h, X \cup {f})
    BY <1>2, <1>4, BelowOthers
  <1>6. Sound(f, h) /\ \A i \in 1 .. Len(r) : Above(f, r[i])
    BY <1>1, <1>3, <1>4 DEF Sound, Above
  <1>7. <<f>> \o r \in Below(t, h, X)
    BY <1>1, <1>2, <1>5, <1>6, BelowPush
  <1> QED BY <1>4, <1>7 DEF r

-----------------------------------------------------------------------------
(* The moves of these modules keep every task's discipline. *)

LEMMA CondTop ==
  ASSUME IInv, StacksIn(CondStacks(held)), Top.pc \in SemLabel \cup CondLabel \cup {"user"}
  PROVE  /\ current \in Task /\ current # NULL /\ Labels = Label
         /\ cpu \in Disciplined(current, held[current]) /\ cpu \in Belongs(current)
         /\ Sound(Top, held[current])
         /\ Top.pc \notin CallLabel /\ ~InSwitch(cpu) /\ Top \in FrameType
         /\ Top.pc # "user" => Top.pc \notin BottomLabel \cup {"restore"} /\ Top.pc \notin EarlyLabel
  <1>1. Top.pc \notin EarlyLabel /\ Top.pc \notin CallLabel /\ Top.pc # "restore"
        /\ (Top.pc # "user" => Top.pc \notin BottomLabel)
    BY LabelsApart DEF SemLabel, CondLabel, EarlyLabel, BottomLabel
  <1>2. current \in Task /\ current # NULL /\ Labels = Label
    BY <1>1, TopFrame, Constants DEF HasContext, Labels
  <1>3. cpu \in CondStacks(held)[current]
    BY <1>1, <1>2, CurrentStack, CondClosed
  <1>4. cpu \in Disciplined(current, held[current])
    BY <1>2, <1>3 DEF CondStacks
  <1>5. cpu \in Belongs(current) /\ 1 \in 1 .. Len(cpu)
    BY <1>4, CpuStack DEF Disciplined, Below
  <1>6. ~InSwitch(cpu)
    BY <1>1, <1>2, <1>5, BelongsFacts DEF Top
  <1>7. Sound(Top, held[current])
    BY <1>4, <1>5 DEF Disciplined, Below, Top
  <1> QED BY <1>1, <1>2, <1>4, <1>5, <1>6, <1>7, CpuStack

(* The stack that a step leaves is again one of the current task's.        *)
LEMMA CondMove ==
  ASSUME IInv, StacksIn(CondStacks(held)), Top.pc \in SemLabel \cup CondLabel \cup {"user"},
         ~ResumeAtElr, UNCHANGED <<current, contexts>>,
         \A t \in Task \ {current} : held'[t] = held[t],
         cpu' \in Disciplined(current, held'[current]), ~InSwitch(cpu')
  PROVE  StacksIn(CondStacks(held))'
  <1>1. PICK H : H = held
    OBVIOUS
  <1>2. PICK K : K = held'
    OBVIOUS
  <1>3. PICK Q : Q = CondStacks(H)
    OBVIOUS
  <1>4. PICK R : R = CondStacks(K)
    OBVIOUS
  <1>5. StacksIn(Q) /\ CallClosed(R)
    BY <1>1, <1>3, <1>4, CondClosed
  <1>6. \A t \in Task \ {current} : Q[t] \subseteq R[t]
    BY <1>1, <1>2, <1>3, <1>4 DEF CondStacks
  <1>7. current \in Task /\ current # NULL
    BY CondTop
  <1>8. cpu' \in R[current]
    BY <1>2, <1>4, <1>7 DEF CondStacks
  <1>9. StacksIn(R)'
    BY <1>5, <1>6, <1>7, <1>8, LocalMove
  <1> QED BY <1>2, <1>4, <1>9

(* No eos_schedule is left on a stack whose top is not the kernel's. *)
LEMMA NoSwitch ==
  ASSUME IInv, NEW t \in Task, NEW h, NEW s \in Disciplined(t, h)
  PROVE  /\ s[1].pc \notin CallLabel => ~InSwitch(s)
         /\ \A f \in FrameType :
              f.pc \notin Switching /\ ~InSwitch(s) => ~InSwitch(<<f>> \o s)
  <1>1. s \in Belongs(t)
    BY DEF Disciplined, Below
  <1> QED BY <1>1, BelongsFacts, SwitchPush

LEMMA MoveWithin ==
  ASSUME IInv, IInv', StacksIn(CondStacks(held)), ~ResumeAtElr, UNCHANGED <<current, contexts>>,
         Top.pc \in SemLabel, NEW f, Step(f),
         f.pc \in (SemLabel \cup {"wakeup"}) \ {"release"},
         Top.pc \in AcquireLabel <=> f.pc \in AcquireLabel,
         f.queue = Top.queue, f.num = Top.num,
         \/ held' = held
         \/ Top.pc = "release" /\ \A t \in Task \ {current} : held'[t] = held[t]
  PROVE  StacksIn(CondStacks(held))'
  <1>1. /\ current \in Task /\ cpu \in Disciplined(current, held[current]) /\ ~InSwitch(cpu)
        /\ Top = cpu[1]
    BY CondTop DEF Top
  <1>2. cpu' = <<f>> \o Tail(cpu) /\ f \in FrameType
    BY NewTop, CpuStack DEF Step
  <1>3. held[current] = held'[current] \/ Top.pc = "release"
    OBVIOUS
  <1>4. cpu' \in Disciplined(current, held'[current])
    BY <1>1, <1>2, <1>3, DisciplinedStep
  <1>5. f.pc \notin Switching
    BY DEF SemLabel, Switching
  <1>6. ~InSwitch(cpu')
    BY <1>1, <1>2, <1>5, SwitchTail, SwitchPush, CpuStack
  <1> QED BY <1>4, <1>6, CondMove

LEMMA MoveToWait ==
  ASSUME IInv, IInv', StacksIn(CondStacks(held)), ~ResumeAtElr, UNCHANGED <<current, contexts>>,
         Top.pc \in AcquireLabel, WaitOn(Top.queue), held' = held
  PROVE  StacksIn(CondStacks(held))'
  <1> DEFINE w == [Frame("wait") EXCEPT !.queue = Top.queue]
             g == [Top EXCEPT !.pc = "acq_chk"]
             s == <<g>> \o Tail(cpu)
  <1>1. /\ current \in Task /\ cpu \in Disciplined(current, held[current]) /\ ~InSwitch(cpu)
        /\ Top = cpu[1] /\ Top.pc \in SemLabel
    BY CondTop, LabelsApart DEF Top
  <1>2. w \in FrameType /\ g \in FrameType /\ cpu' = <<w>> \o s
    BY CallIsPush DEF WaitOn
  <1>3. w.pc = "wait" /\ g.pc = "acq_chk" /\ g.queue = Top.queue /\ g.num = Top.num
    BY CpuStack DEF Frame, TaskFrame, FrameType
  <1> HIDE DEF w, g
  <1>4. g.pc \in SemLabel /\ g.pc \in AcquireLabel /\ g.pc # "release"
        /\ w \in CallFrame /\ w.pc \notin Switching /\ g.pc \notin CallLabel
    BY <1>2, <1>3 DEF SemLabel, AcquireLabel, CallFrame, CallLabel, KernelLabel, BottomLabel, Switching
  <1>5. s \in Disciplined(current, held[current])
    BY <1>1, <1>2, <1>3, <1>4, DisciplinedStep
  <1>6. cpu' \in Disciplined(current, held'[current])
    BY <1>1, <1>2, <1>4, <1>5, DisciplinedCall
  <1>7. s \in Seq(FrameType) /\ s[1] = g
    BY <1>2, CpuStack
  <1> HIDE DEF s
  <1>8. ~InSwitch(cpu')
    BY <1>1, <1>2, <1>4, <1>5, <1>7, NoSwitch
  <1> QED BY <1>1, <1>6, <1>8, CondMove

LEMMA MoveResult ==
  ASSUME IInv, StacksIn(CondStacks(held)), ~ResumeAtElr, UNCHANGED <<current, contexts>>,
         Top.pc \in AcquireLabel, NEW n \in {0, 1}, ReturnResult(n),
         \A t \in Task \ {current} : held'[t] = held[t],
         \/ n = 1 /\ (Top.queue \in Mutex => held'[current][Top.queue] > 0)
         \/ Top.num # 0 \/ "lock" \in Ops
  PROVE  StacksIn(CondStacks(held))'
  <1>1. /\ current \in Task /\ cpu \in Disciplined(current, held[current])
        /\ Top = cpu[1] /\ Top.pc \in SemLabel /\ Top.pc \notin CallLabel
        /\ Top.pc \notin {"user", "idle"}
    BY CondTop, LabelsApart DEF Top
  <1> DEFINE r == Tail(cpu)
             k == held'[current]
             f == [r[1] EXCEPT !.num = n]
  <1>2. IF r[1].pc \in KernelLabel THEN r \in Disciplined(current, k)
        ELSE <<f>> \o Tail(r) \in Disciplined(current, k)
    <2>1. PICK h, m : h = held[current] /\ m = k
      OBVIOUS
    <2>2. \/ n = 1 /\ (cpu[1].queue \in Mutex => m[cpu[1].queue] > 0)
          \/ cpu[1].num # 0 \/ "lock" \in Ops
      BY <1>1, <2>1
    <2>3. cpu \in Disciplined(current, h) /\ n \in Int
      BY <1>1, <2>1
    <2> HIDE DEF k
    <2> QED BY <1>1, <2>1, <2>2, <2>3, DisciplinedResult
  <1>3. r \in Below(current, held[current], {} \cup {cpu[1]}) /\ r[1].pc \notin CallLabel
    BY <1>1, BelowPop DEF Disciplined
  <1>4. r \in Seq(FrameType) /\ r # <<>> /\ Len(r) \in Nat /\ Len(r) > 0
    <2>1. r \in Belongs(current)
      BY <1>3 DEF Below
    <2> QED BY <1>1, <2>1, BelongsFacts
  <1>5. cpu[2] = r[1]
    BY <1>4, CpuStack
  <1>6. cpu' = IF r[1].pc \in KernelLabel THEN r ELSE <<f>> \o Tail(r)
    BY <1>5 DEF ReturnResult
  <1>7. f \in FrameType /\ f.pc = r[1].pc
    <2>1. r[1] \in FrameType /\ n \in Int
      BY <1>4
    <2> HIDE DEF r
    <2> QED BY <2>1 DEF FrameType
  <1>8. Tail(r) \in Seq(FrameType)
    BY <1>4
  <1> HIDE DEF r, k, f
  <1>9. cpu'[1].pc \notin CallLabel
    BY <1>3, <1>6, <1>7, <1>8
  <1>10. cpu' \in Disciplined(current, k)
    BY <1>2, <1>6
  <1>11. ~InSwitch(cpu')
    BY <1>1, <1>9, <1>10, NoSwitch
  <1> QED BY <1>1, <1>10, <1>11, CondMove DEF k

LEMMA MoveOut ==
  ASSUME IInv, StacksIn(CondStacks(held)), ~ResumeAtElr, UNCHANGED <<current, contexts>>,
         Top.pc \in (SemLabel \cup CondLabel) \ AcquireLabel, Return, held' = held
  PROVE  StacksIn(CondStacks(held))'
  <1>1. /\ current \in Task /\ cpu \in Disciplined(current, held[current]) /\ ~InSwitch(cpu)
        /\ Top = cpu[1] /\ Top.pc \notin AcquireLabel \cup {"user", "idle"}
    BY CondTop, LabelsApart DEF Top
  <1>2. cpu' \in Disciplined(current, held'[current])
    BY <1>1, DisciplinedReturn DEF Return
  <1>3. ~InSwitch(cpu')
    BY <1>1, SwitchTail DEF Return
  <1> QED BY <1>2, <1>3, CondMove

LEMMA MoveIn ==
  ASSUME IInv, IInv', StacksIn(CondStacks(held)), ~ResumeAtElr, UNCHANGED <<current, contexts>>,
         At("user"), NEW f, Call(f, "user"), f.pc \in SemLabel, Sound(f, held[current]),
         held' = held
  PROVE  StacksIn(CondStacks(held))'
  <1>1. /\ current \in Task /\ cpu \in Disciplined(current, held[current]) /\ ~InSwitch(cpu)
        /\ Top = cpu[1] /\ Top.pc = "user"
    BY CondTop DEF Top, At
  <1>2. f \in FrameType /\ cpu' = <<f>> \o cpu
    BY CallIsPush DEF At
  <1>3. f.pc \in (SemLabel \cup CondLabel) \ {"cond_ret"} /\ f.pc \notin Switching
    BY LabelsApart DEF Switching, SemLabel
  <1>4. cpu' \in Disciplined(current, held'[current])
    BY <1>1, <1>2, <1>3, DisciplinedUser
  <1>5. ~InSwitch(cpu')
    BY <1>1, <1>2, <1>3, NoSwitch
  <1> QED BY <1>1, <1>4, <1>5, CondMove

-----------------------------------------------------------------------------
(* The tokens of the mutexes. *)

LEMMA TokensKept ==
  ASSUME Tokens, UNCHANGED <<count, held>>
  PROVE  Tokens'
  BY DEF Tokens, HeldTokens

(* What another mutex's tokens are does not change. *)
LEMMA TokensOfOther ==
  ASSUME Counts, Tokens, NEW t \in Task, NEW q \in WaitQueue, NEW n, NEW m,
         count' = [count EXCEPT ![q] = n],
         held' = IF q \in Mutex THEN [held EXCEPT ![t][q] = m] ELSE held,
         NEW p \in Mutex, p # q
  PROVE  count'[p] = count[p] /\ HeldTokens(p)' = HeldTokens(p)
         /\ \A u \in Task : held'[u][p] = held[u][p]
  <1>1. p \in WaitQueue
    BY SemaphoreAssumption
  <1>2. count'[p] = count[p] /\ \A u \in Task : held'[u][p] = held[u][p]
    BY <1>1 DEF Counts
  <1> QED BY <1>2 DEF HeldTokens

LEMMA TokensGranted ==
  ASSUME Counts, Tokens, current \in Task, NEW q \in WaitQueue, count[q] > 0, Granted(q)
  PROVE  /\ Tokens' /\ (q \in Mutex => held'[current][q] > 0)
         /\ \A t \in Task \ {current} : held'[t] = held[t]
  <1>1. \A t \in Task \ {current} : held'[t] = held[t]
    BY DEF Granted, Counts
  <1>2. ASSUME NEW p \in Mutex, p # q
        PROVE  /\ \A t \in Task : held'[t][p] >= 0
               /\ IsFiniteSet(HeldTokens(p)') /\ count'[p] >= 0
               /\ count'[p] + Cardinality(HeldTokens(p)') = InitialCount[p]
    <2>1. /\ count'[p] = count[p] /\ HeldTokens(p)' = HeldTokens(p)
          /\ \A u \in Task : held'[u][p] = held[u][p]
      <3>1. PICK n, m : n = AsInt8(count[q] - 1) /\ m = held[current][q] + 1
        OBVIOUS
      <3> QED BY <1>2, <3>1, TokensOfOther DEF Granted
    <2> QED BY <2>1 DEF Tokens
  <1>3. ASSUME q \in Mutex
        PROVE  /\ \A t \in Task : held'[t][q] >= 0
               /\ IsFiniteSet(HeldTokens(q)') /\ count'[q] >= 0
               /\ count'[q] + Cardinality(HeldTokens(q)') = InitialCount[q]
               /\ held'[current][q] > 0
    <2> DEFINE H == HeldTokens(q)
               n == held[current][q]
    <2>1. n \in Nat /\ held'[current][q] = n + 1
      BY <1>3 DEF Granted, Counts, Tokens
    <2>2. \A t \in Task : held[t][q] \in Int /\ held[t][q] >= 0
      BY <1>3 DEF Counts, Tokens
    <2>3. H' = H \cup {<<current, n + 1>>} /\ <<current, n + 1>> \notin H
      <3>1. \A i \in Int : i \in 1 .. n + 1 <=> i \in 1 .. n \/ i = n + 1
        BY <2>1
      <3>2. H = {x \in Task \X Nat : x[2] \in 1 .. held[x[1]][q]}
        BY <2>2 DEF HeldTokens
      <3>3. H' = {x \in Task \X Nat : x[2] \in 1 .. held'[x[1]][q]}
        BY <1>1, <2>1, <2>2 DEF HeldTokens
      <3> HIDE DEF H, n
      <3>4. ASSUME NEW t \in Task, NEW i \in Nat
            PROVE  i \in 1 .. held'[t][q] <=> i \in 1 .. held[t][q] \/ (t = current /\ i = n + 1)
        BY <1>1, <2>1, <3>1 DEF n
      <3>5. n + 1 \in Nat
        BY <2>1
      <3>6. <<current, n + 1>> \notin H
        BY <2>1, <3>2 DEF n
      <3>7. ASSUME NEW x \in Task \X Nat
            PROVE  x \in H' <=> x \in H \/ x = <<current, n + 1>>
        BY <3>2, <3>3, <3>4
      <3> QED BY <3>2, <3>3, <3>5, <3>6, <3>7
    <2>4. /\ IsFiniteSet(H) /\ count[q] + Cardinality(H) = InitialCount[q]
          /\ Cardinality(H) \in Nat
      BY <1>3, FS_CardinalityType DEF Tokens
    <2> HIDE DEF H
    <2>5. IsFiniteSet(H') /\ Cardinality(H') = Cardinality(H) + 1
      BY <2>3, <2>4, FS_AddElement
    <2>6. count'[q] = count[q] - 1 /\ count[q] \in Int
      <3>1. count[q] \in -HALF .. HALF - 1 /\ HALF \in Nat
        BY SemaphoreAssumption DEF Counts
      <3>2. count[q] - 1 \in 0 .. HALF - 1
        BY <3>1
      <3>3. AsInt8(count[q] - 1) = count[q] - 1
        BY <3>2, AsInt8Same
      <3>4. count'[q] = AsInt8(count[q] - 1)
        BY DEF Granted, Counts
      <3> QED BY <3>1, <3>3, <3>4
    <2>7. \A t \in Task : held'[t][q] >= 0
      BY <1>1, <2>1, <2>2
    <2> QED BY <2>1, <2>4, <2>5, <2>6, <2>7 DEF H
  <1>4. Tokens'
    BY <1>2, <1>3 DEF Tokens
  <1> QED BY <1>1, <1>3, <1>4

LEMMA TokensReleased ==
  ASSUME Counts, Tokens, current \in Task, NEW q \in WaitQueue,
         q \in Mutex => held[current][q] > 0,
         count' = [count EXCEPT ![q] = AsInt8(@ + 1)],
         held' = IF q \in Mutex THEN [held EXCEPT ![current][q] = @ - 1] ELSE held
  PROVE  Tokens' /\ \A t \in Task \ {current} : held'[t] = held[t]
  <1>1. \A t \in Task \ {current} : held'[t] = held[t]
    BY DEF Counts
  <1>2. ASSUME NEW p \in Mutex, p # q
        PROVE  /\ \A t \in Task : held'[t][p] >= 0
               /\ IsFiniteSet(HeldTokens(p)') /\ count'[p] >= 0
               /\ count'[p] + Cardinality(HeldTokens(p)') = InitialCount[p]
    <2>1. /\ count'[p] = count[p] /\ HeldTokens(p)' = HeldTokens(p)
          /\ \A u \in Task : held'[u][p] = held[u][p]
      <3>1. PICK n, m : n = AsInt8(count[q] + 1) /\ m = held[current][q] - 1
        OBVIOUS
      <3> QED BY <1>2, <3>1, TokensOfOther
    <2> QED BY <2>1 DEF Tokens
  <1>3. ASSUME q \in Mutex
        PROVE  /\ \A t \in Task : held'[t][q] >= 0
               /\ IsFiniteSet(HeldTokens(q)') /\ count'[q] >= 0
               /\ count'[q] + Cardinality(HeldTokens(q)') = InitialCount[q]
    <2> DEFINE H == HeldTokens(q)
               n == held[current][q]
    <2>1. n \in Nat /\ n > 0 /\ held'[current][q] = n - 1
      BY <1>3 DEF Counts, Tokens
    <2>2. \A t \in Task : held[t][q] \in Int /\ held[t][q] >= 0
      BY <1>3 DEF Counts, Tokens
    <2>3. H' = H \ {<<current, n>>} /\ <<current, n>> \in H
      <3>1. \A i \in Int : i \in 1 .. n - 1 <=> i \in 1 .. n /\ i # n
        BY <2>1
      <3>2. H = {x \in Task \X Nat : x[2] \in 1 .. held[x[1]][q]}
        BY <2>2 DEF HeldTokens
      <3>3. H' = {x \in Task \X Nat : x[2] \in 1 .. held'[x[1]][q]}
        BY <1>1, <2>1, <2>2 DEF HeldTokens
      <3> HIDE DEF H, n
      <3>4. ASSUME NEW t \in Task, NEW i \in Nat
            PROVE  i \in 1 .. held'[t][q] <=> i \in 1 .. held[t][q] /\ ~(t = current /\ i = n)
        BY <1>1, <2>1, <3>1 DEF n
      <3>5. <<current, n>> \in H
        BY <2>1, <3>2 DEF n
      <3>6. ASSUME NEW x \in Task \X Nat
            PROVE  x \in H' <=> x \in H /\ x # <<current, n>>
        BY <3>2, <3>3, <3>4
      <3> QED BY <3>2, <3>3, <3>5, <3>6
    <2>4. /\ IsFiniteSet(H) /\ count[q] + Cardinality(H) = InitialCount[q]
          /\ Cardinality(H) \in Nat /\ count[q] \in Int /\ count[q] >= 0
          /\ InitialCount[q] \in -HALF .. HALF - 1 /\ HALF \in Nat
      <3>1. IsFiniteSet(H) /\ count[q] + Cardinality(H) = InitialCount[q] /\ count[q] >= 0
        BY <1>3 DEF Tokens
      <3>2. Cardinality(H) \in Nat
        BY <3>1, FS_CardinalityType
      <3>3. InitialCount[q] \in -HALF .. HALF - 1 /\ HALF \in Nat
        BY SemaphoreAssumption
      <3>4. count[q] \in Int
        BY <3>3 DEF Counts
      <3> QED BY <3>1, <3>2, <3>3, <3>4
    <2> HIDE DEF H
    <2>5. IsFiniteSet(H') /\ Cardinality(H') = Cardinality(H) - 1 /\ Cardinality(H') \in Nat
      BY <2>3, <2>4, FS_RemoveElement, FS_CardinalityType
    <2>6. count[q] + 1 \in 0 .. HALF - 1
      BY <2>4, <2>5
    <2>7. count'[q] = count[q] + 1
      <3>1. count'[q] = AsInt8(count[q] + 1)
        BY DEF Counts
      <3> QED BY <2>6, <3>1, AsInt8Same
    <2>8. \A t \in Task : held'[t][q] >= 0
      BY <1>1, <2>1, <2>2
    <2> QED BY <2>4, <2>5, <2>7, <2>8 DEF H
  <1>4. Tokens'
    BY <1>2, <1>3 DEF Tokens
  <1> QED BY <1>1, <1>4

-----------------------------------------------------------------------------
(* The steps of sync.c. *)

CondTokens == Tokens /\ StacksIn(CondStacks(held))

(* The scheduler is not locked at a call of these modules, unless the      *)
(* application may lock it.                                                *)
LEMMA NotLocked ==
  ASSUME IInv, StacksIn(CondStacks(held)), Unlocked,
         Top.pc \in SemLabel \cup CondLabel \cup {"user"}
  PROVE  /\ lock = "UNLOCKED" \/ "lock" \in Ops
         /\ UNCHANGED <<lock, current>> => Unlocked'
  BY CondTop DEF Unlocked, IInv, Values

LEMMA AcquireMoves ==
  ASSUME CondIInv, SemIInv', ~ResumeAtElr, Acquire
  PROVE  CondTokens'
  <1>1. /\ IInv /\ IInv' /\ Tokens /\ StacksIn(CondStacks(held)) /\ Unlocked
        /\ UNCHANGED <<current, contexts, count, held>> /\ Top.pc = "acquire"
    BY DEF CondIInv, SemIInv, Acquire, At, kernel, sched
  <1>2. Top.pc \in AcquireLabel /\ Top.pc \in SemLabel
    BY <1>1 DEF AcquireLabel, SemLabel
  <1>3. CASE lock = "LOCKED" /\ ReturnResult(0)
    <2>1. "lock" \in Ops
      BY <1>1, <1>2, <1>3, NotLocked
    <2>2. 0 \in {0, 1}
      OBVIOUS
    <2> QED BY <1>1, <1>2, <1>3, <2>1, <2>2, MoveResult, TokensKept DEF CondTokens
  <1>4. CASE Step([Top EXCEPT !.pc = "acq_try", !.abs = (tick + Top.num) % WORD])
    <2> DEFINE f == [Top EXCEPT !.pc = "acq_try", !.abs = (tick + Top.num) % WORD]
    <2>1. /\ f.pc = "acq_try" /\ f.queue = Top.queue /\ f.num = Top.num /\ Step(f)
      BY <1>4, CpuStack, <1>1 DEF FrameType
    <2> HIDE DEF f
    <2>2. f.pc \in (SemLabel \cup {"wakeup"}) \ {"release"} /\ f.pc \in AcquireLabel
      BY <2>1 DEF SemLabel, AcquireLabel
    <2> QED BY <1>1, <1>2, <2>1, <2>2, MoveWithin, TokensKept DEF CondTokens
  <1> QED BY <1>3, <1>4 DEF Acquire

LEMMA AcquireTryMoves ==
  ASSUME CondIInv, SemIInv', ~ResumeAtElr, AcquireTry
  PROVE  CondTokens'
  <1>1. /\ IInv /\ IInv' /\ Tokens /\ Counts /\ StacksIn(CondStacks(held))
        /\ UNCHANGED <<current, contexts>> /\ Top.pc = "acq_try"
    BY DEF CondIInv, SemIInv, AcquireTry, At, sched
  <1>2. Top.pc \in AcquireLabel /\ Top.pc \in SemLabel
    BY <1>1 DEF AcquireLabel, SemLabel
  <1>3. Top.queue \in WaitQueue /\ current \in Task /\ Top.num \in Int
    BY <1>1, <1>2, SemFrame DEF FrameType
  <1>4. CASE count[Top.queue] > 0 /\ Granted(Top.queue) /\ ReturnResult(1)
    <2>1. /\ Tokens' /\ (Top.queue \in Mutex => held'[current][Top.queue] > 0)
          /\ \A t \in Task \ {current} : held'[t] = held[t]
      BY <1>1, <1>3, <1>4, TokensGranted
    <2>2. 1 \in {0, 1}
      OBVIOUS
    <2>3. StacksIn(CondStacks(held))'
      BY <1>1, <1>2, <1>4, <2>1, <2>2, MoveResult
    <2> QED BY <2>1, <2>3 DEF CondTokens
  <1>5. CASE Top.num < 0 /\ ReturnResult(0) /\ UNCHANGED <<count, held>>
    <2>1. Top.num # 0
      BY <1>3, <1>5
    <2> QED BY <1>1, <1>2, <1>5, <2>1, MoveResult, TokensKept DEF CondTokens
  <1>6. CASE WaitOn(Top.queue) /\ UNCHANGED <<count, held>>
    BY <1>1, <1>2, <1>6, MoveToWait, TokensKept DEF CondTokens
  <1> QED BY <1>4, <1>5, <1>6 DEF AcquireTry

LEMMA AcquireCheckMoves ==
  ASSUME CondIInv, SemIInv', ~ResumeAtElr, AcquireCheck
  PROVE  CondTokens'
  <1>1. /\ IInv /\ IInv' /\ Tokens /\ StacksIn(CondStacks(held))
        /\ UNCHANGED <<current, contexts, count, held>> /\ Top.pc = "acq_chk"
    BY DEF CondIInv, SemIInv, AcquireCheck, At, kernel, sched
  <1>2. Top.pc \in AcquireLabel /\ Top.pc \in SemLabel
    BY <1>1 DEF AcquireLabel, SemLabel
  <1>3. CASE TimedOut /\ ReturnResult(0)
    <2>1. Top.num # 0
      BY <1>3 DEF TimedOut
    <2> QED BY <1>1, <1>2, <1>3, <2>1, MoveResult, TokensKept DEF CondTokens
  <1>4. CASE Goto("acq_re")
    <2> DEFINE f == [Top EXCEPT !.pc = "acq_re"]
    <2>1. /\ f.pc = "acq_re" /\ f.queue = Top.queue /\ f.num = Top.num /\ Step(f)
      BY <1>4, CpuStack, <1>1 DEF FrameType, Goto
    <2> HIDE DEF f
    <2>2. f.pc \in (SemLabel \cup {"wakeup"}) \ {"release"} /\ f.pc \in AcquireLabel
      BY <2>1 DEF SemLabel, AcquireLabel
    <2> QED BY <1>1, <1>2, <2>1, <2>2, MoveWithin, TokensKept DEF CondTokens
  <1> QED BY <1>3, <1>4 DEF AcquireCheck

LEMMA AcquireRetryMoves ==
  ASSUME CondIInv, SemIInv', ~ResumeAtElr, AcquireRetry
  PROVE  CondTokens'
  <1>1. /\ IInv /\ IInv' /\ Tokens /\ Counts /\ StacksIn(CondStacks(held))
        /\ UNCHANGED <<current, contexts>> /\ Top.pc = "acq_re"
    BY DEF CondIInv, SemIInv, AcquireRetry, At, sched
  <1>2. Top.pc \in AcquireLabel /\ Top.pc \in SemLabel
    BY <1>1 DEF AcquireLabel, SemLabel
  <1>3. Top.queue \in WaitQueue /\ current \in Task
    BY <1>1, <1>2, SemFrame
  <1>4. CASE count[Top.queue] > 0 /\ Granted(Top.queue) /\ ReturnResult(1)
    <2>1. /\ Tokens' /\ (Top.queue \in Mutex => held'[current][Top.queue] > 0)
          /\ \A t \in Task \ {current} : held'[t] = held[t]
      BY <1>1, <1>3, <1>4, TokensGranted
    <2>2. 1 \in {0, 1}
      OBVIOUS
    <2>3. StacksIn(CondStacks(held))'
      BY <1>1, <1>2, <1>4, <2>1, <2>2, MoveResult
    <2> QED BY <2>1, <2>3 DEF CondTokens
  <1>5. CASE WaitOn(Top.queue) /\ UNCHANGED <<count, held>>
    BY <1>1, <1>2, <1>5, MoveToWait, TokensKept DEF CondTokens
  <1> QED BY <1>4, <1>5 DEF AcquireRetry

LEMMA ReleaseMoves ==
  ASSUME CondIInv, SemIInv', ~ResumeAtElr, Release
  PROVE  CondTokens'
  <1>1. /\ IInv /\ IInv' /\ Tokens /\ Counts /\ StacksIn(CondStacks(held))
        /\ UNCHANGED <<current, contexts>> /\ Top.pc = "release"
    BY DEF CondIInv, SemIInv, Release, At, kernel, sched
  <1>2. Top.pc \notin AcquireLabel /\ Top.pc \in SemLabel
    BY <1>1 DEF AcquireLabel, SemLabel
  <1>3. Top.queue \in WaitQueue /\ current \in Task
    BY <1>1, <1>2, SemFrame
  <1>4. Top.queue \in Mutex => held[current][Top.queue] > 0
    BY <1>1, <1>2, CondTop DEF Sound
  <1>5. Tokens' /\ \A t \in Task \ {current} : held'[t] = held[t]
    BY <1>1, <1>3, <1>4, TokensReleased DEF Release
  <1> DEFINE f == [Top EXCEPT !.pc = "rel_chk"]
  <1>6. /\ f.pc = "rel_chk" /\ f.queue = Top.queue /\ f.num = Top.num /\ Step(f)
    BY CpuStack, <1>1 DEF FrameType, Goto, Release
  <1> HIDE DEF f
  <1>7. f.pc \in (SemLabel \cup {"wakeup"}) \ {"release"} /\ f.pc \notin AcquireLabel
    BY <1>6 DEF SemLabel, AcquireLabel
  <1> QED BY <1>1, <1>2, <1>5, <1>6, <1>7, MoveWithin DEF CondTokens

LEMMA ReleaseCheckMoves ==
  ASSUME CondIInv, SemIInv', ~ResumeAtElr, ReleaseCheck
  PROVE  CondTokens'
  <1>1. /\ IInv /\ IInv' /\ Tokens /\ StacksIn(CondStacks(held))
        /\ UNCHANGED <<current, contexts, count, held>> /\ Top.pc = "rel_chk"
    BY DEF CondIInv, SemIInv, ReleaseCheck, At, kernel, sched
  <1>2. Top.pc \notin AcquireLabel /\ Top.pc \in SemLabel
    BY <1>1 DEF AcquireLabel, SemLabel
  <1>3. CASE Return
    BY <1>1, <1>2, <1>3, MoveOut, TokensKept DEF CondTokens
  <1>4. CASE Goto("wakeup")
    <2> DEFINE f == [Top EXCEPT !.pc = "wakeup"]
    <2>1. /\ f.pc = "wakeup" /\ f.queue = Top.queue /\ f.num = Top.num /\ Step(f)
      BY <1>4, CpuStack, <1>1 DEF FrameType, Goto
    <2> HIDE DEF f
    <2>2. f.pc \in (SemLabel \cup {"wakeup"}) \ {"release"} /\ f.pc \notin AcquireLabel
      BY <2>1 DEF SemLabel, AcquireLabel
    <2> QED BY <1>1, <1>2, <2>1, <2>2, MoveWithin, TokensKept DEF CondTokens
  <1> QED BY <1>3, <1>4 DEF ReleaseCheck

(* The application takes any semaphore, and releases a mutex it holds.     *)
LEMMA UserSemMoves ==
  ASSUME CondIInv, SemIInv', ~ResumeAtElr, UserAcquire \/ UserRelease
  PROVE  CondTokens'
  <1>1. /\ IInv /\ IInv' /\ Tokens /\ StacksIn(CondStacks(held))
        /\ UNCHANGED <<count, held>> /\ At("user")
    BY DEF CondIInv, SemIInv, UserAcquire, UserRelease
  <1>2. PICK l \in {"acquire", "release"}, q \in WaitQueue, n \in Int :
          /\ UserCall(l, [TaskFrame(l, NULL, n) EXCEPT !.queue = q])
          /\ l = "release" /\ q \in Mutex => held[current][q] > 0
    <2>1. CASE UserAcquire
      <3>1. current \in Task
        BY <1>1, CondTop DEF At
      <3>2. Timeouts[current] \subseteq Int
        BY <3>1, SemaphoreAssumption
      <3> QED BY <2>1, <3>2 DEF UserAcquire
    <2>2. CASE UserRelease
      BY <2>2 DEF UserRelease, Frame
    <2> QED BY <2>1, <2>2
  <1> DEFINE f == [TaskFrame(l, NULL, n) EXCEPT !.queue = q]
  <1>3. Call(f, "user") /\ UNCHANGED <<current, contexts>> /\ f.pc = l /\ f.queue = q
    BY <1>2 DEF UserCall, TaskFrame, kernel, sched
  <1> HIDE DEF f
  <1>4. f.pc \in SemLabel /\ Sound(f, held[current])
    BY <1>2, <1>3, LabelsApart DEF SemLabel, Sound
  <1> QED BY <1>1, <1>3, <1>4, MoveIn, TokensKept DEF CondTokens

-----------------------------------------------------------------------------
(* The steps of eos_wait_condition and eos_notify_condition. *)

LEMMA CondLabels ==
  /\ {"wait", "wakeup", "acquire", "release"} \subseteq Label /\ CondLabel \subseteq Label
  /\ Condition \subseteq WaitQueue /\ \A c \in Condition : MutexOf[c] \in WaitQueue \cap Mutex
  BY Constants, SemaphoreAssumption, CondVarAssumption
     DEF SemLabel, KernelLabel, CondLabel, Label

LEMMA CondStepFacts ==
  ASSUME CondIInv, CondStep
  PROVE  /\ IInv /\ Counts /\ Tokens /\ StacksIn(CondStacks(held)) /\ UNCHANGED <<kernel, count, held>>
         /\ Top.pc \in CondLabel \cup {"user"} /\ Top.pc # "restore"
  BY DEF CondIInv, SemIInv, CondStep, UserWait, CondWait, CondAcquire, CondReturn, UserNotify,
     UserCall, At, CondLabel

LEMMA UserWaitMoves ==
  ASSUME CondIInv, ~ResumeAtElr, UserWait
  PROVE  SemIInv' /\ CondTokens'
  <1>1. /\ IInv /\ Counts /\ Tokens /\ StacksIn(CondStacks(held))
        /\ UNCHANGED <<kernel, count, held>> /\ Top.pc = "user"
    BY CondStepFacts DEF CondStep, UserWait, At
  <1>2. /\ current \in Task /\ cpu \in Disciplined(current, held[current]) /\ ~InSwitch(cpu)
        /\ Top = cpu[1] /\ Labels = Label
    BY <1>1, CondTop DEF Top
  <1>3. PICK c \in Condition :
          /\ held[current][MutexOf[c]] > 0
          /\ cpu' = <<[Frame("release") EXCEPT !.queue = MutexOf[c]],
                      [Frame("cond_wait") EXCEPT !.queue = c]>> \o cpu
    BY DEF UserWait
  <1> DEFINE f == [Frame("release") EXCEPT !.queue = MutexOf[c]]
             g == [Frame("cond_wait") EXCEPT !.queue = c]
  <1>4. /\ f \in FrameType /\ f.pc = "release" /\ f.queue = MutexOf[c]
        /\ g \in FrameType /\ g.pc = "cond_wait" /\ g.queue = c
    BY CondLabels DEF Frame, TaskFrame, FrameType, CondLabel
  <1>5. FrameOK(f, HasContext, Labels) /\ FrameOK(g, HasContext, Labels)
    BY <1>2, <1>4, CondLabels DEF FrameOK, CondLabel
  <1> HIDE DEF f, g
  <1>6. cpu' = <<f>> \o (<<g>> \o cpu)
    <2>1. cpu \in Seq(FrameType) /\ cpu' = <<f, g>> \o cpu
      BY <1>1, <1>3, CpuStack DEF f, g
    <2> QED BY <1>4, <2>1, TwoPushed
  <1>7. StackOK(<<g>> \o cpu, HasContext, Labels)
    BY <1>1, <1>5, StackPush DEF IInv, Executing
  <1>8. StackOK(cpu', HasContext, Labels)
    BY <1>5, <1>6, <1>7, StackPush
  <1>9. IInv'
    BY <1>1, <1>8, KernelKept
  <1>10. g.pc \in CondLabel /\ g.pc # "cond_ret" /\ f.pc \in SemLabel
         /\ f.pc \notin Switching /\ g.pc \notin Switching
    BY <1>4 DEF SemLabel, CondLabel, Switching
  <1>11. Sound(f, held[current]) /\ Sound(g, held[current])
    BY <1>3, <1>4, LabelsApart DEF Sound
  <1> DEFINE s == <<g>> \o cpu
  <1>12. s \in Disciplined(current, held[current])
    BY <1>1, <1>2, <1>4, <1>10, <1>11, DisciplinedUser
  <1>13. /\ Len(s) = 2 /\ s[1] = g /\ s[2].pc = "user" /\ s \in Seq(FrameType)
    <2>1. cpu \in Belongs(current) /\ cpu[1].pc \in BottomLabel
      BY <1>1, <1>2, LabelsApart DEF Disciplined, Below
    <2>2. Len(cpu) = 1
      BY <1>2, <2>1, BelongsFacts
    <2>3. cpu \in Seq(FrameType) /\ g \in FrameType
      BY <1>1, <1>4, CpuStack
    <2>4. /\ s \in Seq(FrameType) /\ Len(s) = Len(cpu) + 1 /\ s[1] = g
          /\ \A i \in 1 .. Len(s) : i # 1 => i - 1 \in 1 .. Len(cpu) /\ s[i] = cpu[i - 1]
      BY <2>3, PushedStack
    <2>5. 2 \in 1 .. Len(s) /\ 2 - 1 = 1
      BY <2>2, <2>4
    <2>6. s[2] = cpu[1]
      BY <2>4, <2>5
    <2> QED BY <1>1, <1>2, <2>2, <2>4, <2>6
  <1> HIDE DEF s
  <1>14. \A i \in 1 .. Len(s) : s[i].pc \notin SemLabel /\ s[i].pc # "cond_ret"
    <2>1. \A i \in 1 .. Len(s) : i = 1 \/ i = 2
      BY <1>13
    <2> QED BY <1>4, <1>13, <2>1 DEF SemLabel
  <1>15. s \in Below(current, held[current], {} \cup {f})
    BY <1>12, <1>14, BelowOthers DEF Disciplined
  <1>16. f.pc \notin BottomLabel \cup {"restore"} /\ f.pc # "cond_ret" /\ s[1].pc \notin CallLabel
    BY <1>4, <1>10, <1>13, LabelsApart
  <1>17. \A i \in 1 .. Len(s) : Above(f, s[i])
    BY <1>14 DEF Above
  <1>18. cpu' \in Below(current, held[current], {})
    BY <1>2, <1>4, <1>6, <1>11, <1>15, <1>16, <1>17, BelowPush DEF s
  <1>19. ~InSwitch(cpu')
    BY <1>2, <1>4, <1>6, <1>10, <1>13, <1>1, CpuStack, SwitchPush DEF s
  <1>20. UNCHANGED <<current, contexts>>
    BY <1>1 DEF kernel, sched
  <1>21. StacksIn(CondStacks(held))'
    BY <1>1, <1>18, <1>19, <1>20, CondMove DEF Disciplined
  <1> QED BY <1>1, <1>9, <1>21, CountsKept, TokensKept DEF SemIInv, CondTokens

LEMMA CondWaitMoves ==
  ASSUME CondIInv, ~ResumeAtElr, CondWait
  PROVE  SemIInv' /\ CondTokens'
  <1>1. /\ IInv /\ Counts /\ Tokens /\ StacksIn(CondStacks(held)) /\ Top.pc # "restore"
        /\ UNCHANGED <<kernel, count, held>> /\ Top.pc = "cond_wait" /\ Top.pc \in CondLabel
    BY CondStepFacts DEF CondStep, CondWait, At, CondLabel
  <1>2. /\ current \in Task /\ cpu \in Disciplined(current, held[current]) /\ ~InSwitch(cpu)
        /\ Top = cpu[1] /\ Labels = Label /\ Top.queue \in Condition /\ Top \in FrameType
        /\ Top.pc \notin BottomLabel
    BY <1>1, CondTop, LabelsApart DEF Top, Sound
  <1> DEFINE f == [Frame("wait") EXCEPT !.queue = Top.queue]
             g == [Top EXCEPT !.pc = "cond_acq"]
             s == <<g>> \o Tail(cpu)
  <1>3. /\ f \in FrameType /\ f.pc = "wait" /\ f.queue = Top.queue
        /\ g \in FrameType /\ g.pc = "cond_acq" /\ g.queue = Top.queue
    BY <1>2, CondLabels DEF Frame, TaskFrame, FrameType, CondLabel
  <1>4. FrameOK(f, HasContext, Labels) /\ FrameOK(g, HasContext, Labels)
    BY <1>2, <1>3, CondLabels DEF FrameOK, CondLabel
  <1>5. StackOK(cpu', HasContext, Labels)
    BY <1>1, <1>2, <1>4, CallOK DEF CondWait
  <1>6. IInv'
    BY <1>1, <1>5, KernelKept
  <1>7. cpu' = <<f>> \o s
    BY <1>1, <1>6, CallIsPush DEF CondWait
  <1> HIDE DEF f, g
  <1>8. g.pc \in CondLabel /\ g.pc # "cond_ret" /\ f \in CallFrame /\ f.pc \notin Switching
        /\ g.pc \notin Switching
    BY <1>3 DEF CondLabel, CallFrame, CallLabel, KernelLabel, BottomLabel, Switching
  <1>9. s \in Disciplined(current, held[current])
    BY <1>1, <1>2, <1>3, <1>8, DisciplinedCond DEF Disciplined
  <1>10. cpu' \in Disciplined(current, held[current])
    BY <1>2, <1>7, <1>8, <1>9, DisciplinedCall
  <1>11. ~InSwitch(s) /\ s \in Seq(FrameType)
    <2>1. Tail(cpu) \in Seq(FrameType) /\ ~InSwitch(Tail(cpu))
      BY <1>1, <1>2, SwitchTail, CpuStack
    <2> QED BY <1>3, <1>8, <2>1, SwitchPush, PushedStack
  <1>12. ~InSwitch(cpu')
    BY <1>3, <1>7, <1>8, <1>11, SwitchPush
  <1>13. UNCHANGED <<current, contexts>>
    BY <1>1 DEF kernel, sched
  <1>14. StacksIn(CondStacks(held))'
    BY <1>1, <1>10, <1>12, <1>13, CondMove
  <1> QED BY <1>1, <1>6, <1>14, CountsKept, TokensKept DEF SemIInv, CondTokens

LEMMA CondAcquireMoves ==
  ASSUME CondIInv, ~ResumeAtElr, CondAcquire
  PROVE  SemIInv' /\ CondTokens'
  <1>1. /\ IInv /\ Counts /\ Tokens /\ StacksIn(CondStacks(held)) /\ Top.pc # "restore"
        /\ UNCHANGED <<kernel, count, held>> /\ Top.pc = "cond_acq" /\ Top.pc \in CondLabel
    BY CondStepFacts DEF CondStep, CondAcquire, At, CondLabel
  <1>2. /\ current \in Task /\ cpu \in Disciplined(current, held[current]) /\ ~InSwitch(cpu)
        /\ Top = cpu[1] /\ Labels = Label /\ Top.queue \in Condition /\ Top \in FrameType
        /\ Top.pc \notin BottomLabel
    BY <1>1, CondTop, LabelsApart DEF Top, Sound
  <1> DEFINE f == [Frame("acquire") EXCEPT !.queue = MutexOf[Top.queue]]
             g == [Top EXCEPT !.pc = "cond_ret"]
             r == Tail(cpu)
             s == <<g>> \o r
  <1>3. /\ f \in FrameType /\ f.pc = "acquire" /\ f.queue = MutexOf[Top.queue] /\ f.num = 0
        /\ g \in FrameType /\ g.pc = "cond_ret" /\ g.queue = Top.queue
    BY <1>2, CondLabels DEF Frame, TaskFrame, FrameType, CondLabel
  <1>4. FrameOK(f, HasContext, Labels) /\ FrameOK(g, HasContext, Labels)
    BY <1>2, <1>3, CondLabels DEF FrameOK, CondLabel
  <1>5. StackOK(cpu', HasContext, Labels)
    BY <1>1, <1>2, <1>4, CallOK DEF CondAcquire
  <1>6. IInv'
    BY <1>1, <1>5, KernelKept
  <1>7. cpu' = <<f>> \o s
    BY <1>1, <1>6, CallIsPush DEF CondAcquire
  <1> HIDE DEF f, g
  <1>8. AcquiresFor(f, g)
    BY <1>3 DEF AcquiresFor, AcquireLabel
  <1>9. /\ g.pc \in CondLabel /\ f.pc \notin Switching /\ g.pc \notin Switching
        /\ f.pc \notin BottomLabel \cup {"restore"} /\ f.pc # "cond_ret" /\ g.pc \notin SemLabel
        /\ g.pc \notin CallLabel
    BY <1>3 DEF CondLabel, CallLabel, KernelLabel, BottomLabel, Switching, SemLabel
  <1>10. \E x \in {} \cup {f} : AcquiresFor(x, g)
    BY <1>8
  <1>11. /\ s \in Below(current, held[current], {} \cup {f})
         /\ \A i \in 1 .. Len(r) : r[i].pc \notin SemLabel /\ r[i].pc # "cond_ret"
    BY <1>1, <1>2, <1>3, <1>9, <1>10, DisciplinedCond
  <1>12. r \in Seq(FrameType)
    BY <1>1, CpuStack
  <1> HIDE DEF r
  <1>13. /\ s \in Seq(FrameType) /\ s[1] = g
         /\ \A i \in 1 .. Len(s) : i # 1 => i - 1 \in 1 .. Len(r) /\ s[i] = r[i - 1]
    BY <1>3, <1>12, PushedStack
  <1> HIDE DEF s
  <1>14. \A i \in 1 .. Len(s) : Above(f, s[i])
    <2> SUFFICES ASSUME NEW i \in 1 .. Len(s) PROVE Above(f, s[i])
      OBVIOUS
    <2>1. CASE i = 1
      BY <1>8, <1>9, <1>13, <2>1 DEF Above
    <2>2. CASE i # 1
      BY <1>11, <1>13, <2>2 DEF Above
    <2> QED BY <2>1, <2>2
  <1>15. Sound(f, held[current])
    BY <1>3 DEF Sound, CondLabel
  <1>16. cpu' \in Below(current, held[current], {})
    BY <1>2, <1>3, <1>7, <1>9, <1>11, <1>13, <1>14, <1>15, BelowPush
  <1>17. ~InSwitch(s)
    BY <1>1, <1>2, <1>3, <1>9, <1>12, SwitchTail, SwitchPush DEF s, r
  <1>18. ~InSwitch(cpu')
    BY <1>3, <1>7, <1>9, <1>13, <1>17, SwitchPush
  <1>19. UNCHANGED <<current, contexts>>
    BY <1>1 DEF kernel, sched
  <1>20. StacksIn(CondStacks(held))'
    BY <1>1, <1>16, <1>18, <1>19, CondMove DEF Disciplined
  <1> QED BY <1>1, <1>6, <1>20, CountsKept, TokensKept DEF SemIInv, CondTokens

LEMMA CondReturnMoves ==
  ASSUME CondIInv, ~ResumeAtElr, CondReturn
  PROVE  SemIInv' /\ CondTokens'
  <1>1. /\ IInv /\ Counts /\ Tokens /\ StacksIn(CondStacks(held)) /\ Top.pc # "restore"
        /\ UNCHANGED <<kernel, count, held>> /\ Top.pc = "cond_ret" /\ Return
    BY CondStepFacts DEF CondStep, CondReturn, At
  <1>2. Top.pc \in (SemLabel \cup CondLabel) \ AcquireLabel /\ Top.pc \notin BottomLabel
    BY <1>1 DEF CondLabel, AcquireLabel, BottomLabel
  <1>3. IInv'
    BY <1>1, <1>2, ReturnOK, KernelKept
  <1>4. UNCHANGED <<current, contexts>>
    BY <1>1 DEF kernel, sched
  <1>5. StacksIn(CondStacks(held))'
    BY <1>1, <1>2, <1>4, MoveOut
  <1> QED BY <1>1, <1>3, <1>5, CountsKept, TokensKept DEF SemIInv, CondTokens

LEMMA UserNotifyMoves ==
  ASSUME CondIInv, ~ResumeAtElr, UserNotify
  PROVE  SemIInv' /\ CondTokens'
  <1>1. /\ IInv /\ Counts /\ Tokens /\ StacksIn(CondStacks(held)) /\ Top.pc # "restore"
        /\ UNCHANGED <<kernel, count, held>> /\ Top.pc = "user"
    BY CondStepFacts DEF CondStep, UserNotify, UserCall, At
  <1>2. PICK c \in Condition : Call([Frame("wakeup") EXCEPT !.queue = c], "user")
    BY DEF UserNotify, UserCall
  <1>3. /\ current \in Task /\ cpu \in Disciplined(current, held[current]) /\ ~InSwitch(cpu)
        /\ Labels = Label /\ Top \in FrameType
    BY <1>1, CondTop
  <1> DEFINE f == [Frame("wakeup") EXCEPT !.queue = c]
  <1>4. f \in FrameType /\ f.pc = "wakeup" /\ f.queue = c
    BY CondLabels DEF Frame, TaskFrame, FrameType
  <1>5. FrameOK(f, HasContext, Labels)
    BY <1>3, <1>4, CondLabels DEF FrameOK
  <1>6. "user" \in BottomLabel \cap Labels
    BY <1>3, Constants DEF BottomLabel, KernelLabel
  <1>7. StackOK(cpu', HasContext, Labels)
    BY <1>1, <1>2, <1>5, <1>6, BottomOK, CallOK
  <1>8. IInv'
    BY <1>1, <1>7, KernelKept
  <1>9. cpu' = <<f>> \o cpu
    BY <1>1, <1>2, <1>8, CallIsPush
  <1> HIDE DEF f
  <1>10. f \in CallFrame /\ f.pc \notin Switching
    BY <1>4 DEF CallFrame, CallLabel, KernelLabel, BottomLabel, Switching
  <1>11. cpu' \in Disciplined(current, held[current]) /\ ~InSwitch(cpu')
    BY <1>1, <1>3, <1>4, <1>9, <1>10, DisciplinedCall, NoSwitch
  <1>12. UNCHANGED <<current, contexts>>
    BY <1>1 DEF kernel, sched
  <1>13. StacksIn(CondStacks(held))'
    BY <1>1, <1>11, <1>12, CondMove
  <1> QED BY <1>1, <1>8, <1>13, CountsKept, TokensKept DEF SemIInv, CondTokens

-----------------------------------------------------------------------------
(* The kernel's steps. *)

(* They leave the scheduler unlocked, but before the first task runs.      *)
LEMMA KernelUnlocked ==
  ASSUME IInv, IInv', Unlocked, Next \/ WaitInQueue \/ Waiting \/ Wakeup \/ MakeReady
  PROVE  Unlocked'
  <1> SUFFICES ASSUME "lock" \notin Ops, lock' = "LOCKED"
               PROVE  current' = NULL /\ ~InSwitch(cpu')
    BY DEF Unlocked
  <1>1. ~StartMultitasking /\ ~LockScheduler /\ ~RestoreScheduler
    BY DEF StartMultitasking, LockScheduler, RestoreScheduler
  <1>2. lock' = lock
    BY <1>1 DEF Next, Boot, KernelStep, UserStep, BootIdle, UserMain, Interrupt, Create, BecomeReady,
       ScheduleEntry, Requeue, MarkReady, SaveContext, Pick, Unqueue, Run, RestoreContext,
       FireAlarm, AlarmsDone, IrqReturn, Sleep, SleepDiff, Arm, Doze, ChangePriority, Reinsert,
       SetPriority, Suspend, Suspended, Resume, Compute, UserSleep, SetPeriod,
       UserChangePriority, UserSuspend, UserResume, UserCreate, UserCall,
       WaitInQueue, Waiting, Wakeup, MakeReady, kernel, vars, sched
  <1>3. current = NULL /\ ~InSwitch(cpu) /\ lock = "LOCKED"
    BY <1>2 DEF Unlocked
  <1>4. Top.pc \in EarlyLabel /\ Top.pc \notin Switching
    <2>1. Top.pc \in EarlyLabel
      BY <1>3, TopFrame, Constants DEF HasContext
    <2>2. 1 \in 1 .. Len(cpu)
      BY CpuStack
    <2> QED BY <1>3, <2>1, <2>2 DEF InSwitch, Top
  <1>5. \/ BootIdle \/ UserMain \/ Create \/ BecomeReady \/ ScheduleEntry
        \/ FireAlarm \/ AlarmsDone \/ IrqReturn \/ SetPeriod \/ Interrupt
    BY <1>1, <1>4 DEF EarlyLabel, Switching, Next, Boot, KernelStep, UserStep, At, Requeue,
       MarkReady, SaveContext, Pick, Unqueue, Run, RestoreContext, Sleep, SleepDiff, Arm, Doze,
       ChangePriority, Reinsert, SetPriority, Suspend, Suspended, Resume, Compute, UserSleep,
       UserChangePriority, UserSuspend, UserResume, UserCreate, UserCall,
       WaitInQueue, Waiting, Wakeup, MakeReady
  <1>6. current' = NULL
    BY <1>3, <1>5 DEF BootIdle, UserMain, Create, BecomeReady, ScheduleEntry, FireAlarm,
       AlarmsDone, IrqReturn, SetPeriod, Interrupt, kernel, sched
  <1>7. ASSUME NEW l, Top.pc = l \/ l \notin Switching, NEW f, Call(f, l), f.pc \notin Switching
        PROVE  ~InSwitch(cpu')
    <2> DEFINE g == [Top EXCEPT !.pc = l]
    <2>1. f \in FrameType /\ g \in FrameType /\ cpu' = <<f>> \o (<<g>> \o Tail(cpu))
      BY <1>7, CallIsPush
    <2>2. g.pc = l
      BY CpuStack DEF FrameType
    <2> HIDE DEF g
    <2>3. Tail(cpu) \in Seq(FrameType) /\ ~InSwitch(Tail(cpu))
      BY <1>3, SwitchTail, CpuStack
    <2>4. ~InSwitch(<<g>> \o Tail(cpu)) /\ <<g>> \o Tail(cpu) \in Seq(FrameType)
      BY <1>4, <1>7, <2>1, <2>2, <2>3, SwitchPush, PushedStack
    <2> QED BY <1>7, <2>1, <2>4, SwitchPush
  <1>8. ASSUME NEW f, Step(f), f.pc \notin Switching PROVE ~InSwitch(cpu')
    <2>1. Tail(cpu) \in Seq(FrameType) /\ ~InSwitch(Tail(cpu))
      BY <1>3, SwitchTail, CpuStack
    <2>2. f \in FrameType
      BY <1>8, <2>1, NewTop DEF Step
    <2> QED BY <1>8, <2>1, <2>2, SwitchPush DEF Step
  <1>9. CASE BootIdle
    BY <1>6, <1>7, <1>9 DEF BootIdle, TaskFrame, Switching
  <1>10. CASE UserMain
    <2>1. PICK t, p : Call(TaskFrame("create", t, p), "user_main")
      BY <1>10 DEF UserMain, CallCreate
    <2> QED BY <1>6, <1>7, <2>1 DEF TaskFrame, Switching
  <1>11. CASE Create
    <2> DEFINE f == [Top EXCEPT !.pc = "created"]
    <2>1. Step(f) /\ f.pc = "created"
      BY <1>11, CpuStack DEF Create, Goto, FrameType
    <2> HIDE DEF f
    <2> QED BY <1>6, <1>8, <2>1 DEF Switching
  <1>12. CASE BecomeReady
    BY <1>6, <1>8, <1>12 DEF BecomeReady, Schedule, Frame, TaskFrame, Switching
  <1>13. CASE ScheduleEntry \/ IrqReturn
    <2>1. Return
      BY <1>3, <1>13 DEF ScheduleEntry, IrqReturn
    <2> QED BY <1>3, <1>6, <2>1, SwitchTail DEF Return
  <1>14. CASE FireAlarm \/ SetPeriod
    BY <1>3, <1>6, <1>14 DEF FireAlarm, SetPeriod, InSwitch
  <1>15. CASE AlarmsDone
    BY <1>6, <1>7, <1>15 DEF AlarmsDone, Frame, TaskFrame, Switching
  <1>16. CASE Interrupt
    <2>1. cpu' = <<Frame("trigger")>> \o cpu /\ cpu \in Seq(FrameType)
      BY <1>16, CpuStack DEF Interrupt
    <2>2. Frame("trigger") \in FrameType
      BY <2>1, NewTop
    <2>3. Frame("trigger").pc \notin Switching
      BY DEF Frame, TaskFrame, Switching
    <2> QED BY <1>3, <1>6, <2>1, <2>2, <2>3, SwitchPush
  <1> QED BY <1>5, <1>6, <1>9, <1>10, <1>11, <1>12, <1>13, <1>14, <1>15, <1>16

(* They hand out no token, and no task's stack to another.                 *)
LEMMA KernelMoves ==
  ASSUME CondIInv, SemIInv', "restore" \notin IrqPoints, UNCHANGED <<count, held>>,
         Next \/ WaitInQueue \/ Waiting \/ Wakeup \/ MakeReady
  PROVE  CondTokens' /\ Unlocked'
  <1>1. /\ IInv /\ IInv' /\ Tokens /\ StacksIn(CondStacks(held)) /\ Unlocked
    BY DEF CondIInv, SemIInv
  <1>2. PICK Q : Q = CondStacks(held)
    OBVIOUS
  <1>3. CallClosed(Q) /\ CreateClosed(Q) /\ StacksIn(Q)
    BY <1>1, <1>2, CondClosed
  <1>4. StacksIn(Q)'
    BY <1>1, <1>3, KernelStacks
  <1>5. StacksIn(CondStacks(held))'
    BY <1>2, <1>4
  <1> QED BY <1>1, <1>5, TokensKept, KernelUnlocked DEF CondTokens

-----------------------------------------------------------------------------
(* Every step, and the theorems. *)

LEMMA CondInit ==
  ASSUME \A q \in Mutex : InitialCount[q] >= 0, SemInit
  PROVE  CondIInv
  <1>1. SemIInv
    BY SemInitIInv
  <1>2. ASSUME NEW q \in Mutex
        PROVE  /\ HeldTokens(q) = {} /\ \A t \in Task : held[t][q] >= 0
               /\ count[q] = InitialCount[q] /\ InitialCount[q] \in Int
    <2>1. \A t \in Task : held[t][q] = 0
      BY DEF SemInit
    <2>2. q \in WaitQueue /\ HALF \in Int
      BY SemaphoreAssumption
    <2> QED BY <2>1, <2>2, SemaphoreAssumption DEF HeldTokens, SemInit
  <1>3. Tokens
    BY <1>2, FS_EmptySet DEF Tokens
  <1>4. StacksIn(CondStacks(held))
    <2>1. PICK Q : Q = CondStacks(held)
      OBVIOUS
    <2>2. StacksIn(Q)
      BY InitStacks DEF SemInit
    <2> QED BY <2>1, <2>2
  <1>5. Unlocked
    <2>1. current = NULL /\ Len(cpu) = 1 /\ cpu[1].pc = "boot"
      BY DEF SemInit, Init, Frame, TaskFrame
    <2>2. \A i \in 1 .. Len(cpu) : i = 1
      BY <2>1
    <2> QED BY <2>1, <2>2 DEF Unlocked, InSwitch, Switching
  <1> QED BY <1>1, <1>3, <1>4, <1>5 DEF CondIInv

LEMMA CondNextIInv ==
  ASSUME "restore" \notin IrqPoints, ~ResumeAtElr, CondIInv, [CondNext]_svars
  PROVE  CondIInv'
  <1>1. SemIInv /\ IInv /\ Tokens /\ StacksIn(CondStacks(held)) /\ Unlocked
    BY DEF CondIInv, SemIInv
  <1>2. CASE CondStep
    <2>1. SemIInv' /\ CondTokens'
      BY <1>2, UserWaitMoves, CondWaitMoves, CondAcquireMoves, CondReturnMoves, UserNotifyMoves
         DEF CondStep
    <2>2. Unlocked'
      <3>1. UNCHANGED <<lock, current>> /\ Top.pc \in SemLabel \cup CondLabel \cup {"user"}
        BY <1>2, CondStepFacts DEF kernel, sched
      <3> QED BY <1>1, <3>1, NotLocked
    <2> QED BY <2>1, <2>2 DEF CondIInv, CondTokens
  <1>3. ASSUME [SemNext]_svars PROVE SemIInv'
    BY <1>1, <1>3, SemNextIInv
  <1>4. CASE SemStep
    <2>1. SemIInv'
      BY <1>3, <1>4 DEF SemNext
    <2>2. CondTokens'
      BY <1>4, <2>1, AcquireMoves, AcquireTryMoves, AcquireCheckMoves, AcquireRetryMoves,
         ReleaseMoves, ReleaseCheckMoves, UserSemMoves DEF SemStep
    <2>3. Unlocked'
      <3>1. UNCHANGED <<lock, current>> /\ Top.pc \in SemLabel \cup CondLabel \cup {"user"}
        BY <1>4 DEF SemStep, Acquire, AcquireTry, AcquireCheck, AcquireRetry, Release,
           ReleaseCheck, UserAcquire, UserRelease, UserCall, At, SemLabel, kernel, sched
      <3> QED BY <1>1, <3>1, NotLocked
    <2> QED BY <2>1, <2>2, <2>3 DEF CondIInv, CondTokens
  <1>5. CASE /\ Next \/ WaitInQueue \/ Waiting \/ Wakeup \/ MakeReady
             /\ UNCHANGED <<count, held>>
    <2>1. SemIInv'
      BY <1>3, <1>5 DEF SemNext, WaitStep
    <2>2. CondTokens' /\ Unlocked'
      BY <1>5, <2>1, KernelMoves
    <2> QED BY <2>1, <2>2 DEF CondIInv, CondTokens
  <1>6. CASE UNCHANGED svars
    <2>1. SemIInv'
      BY <1>3, <1>6
    <2>2. UNCHANGED <<vars, count, held>>
      BY <1>6 DEF svars
    <2>3. PICK Q : Q = CondStacks(held)
      OBVIOUS
    <2>4. StacksIn(Q)'
      BY <1>1, <2>2, <2>3 DEF StacksIn, At, Top, HasContext, InSwitch, vars, kernel, sched, contexts
    <2>5. StacksIn(CondStacks(held))'
      BY <2>2, <2>3, <2>4
    <2>6. Unlocked'
      BY <1>1, <2>2 DEF Unlocked, InSwitch, vars, kernel, sched
    <2> QED BY <1>1, <2>1, <2>2, <2>5, <2>6, TokensKept DEF CondIInv
  <1> QED BY <1>2, <1>4, <1>5, <1>6 DEF CondNext, SemNext, WaitStep

LEMMA CondInvariance ==
  ASSUME "restore" \notin IrqPoints, ~ResumeAtElr, \A q \in Mutex : InitialCount[q] >= 0
  PROVE  CondSpec => []CondIInv
  <1>1. SemInit => CondIInv
    BY CondInit
  <1>2. CondIInv /\ [CondNext]_svars => CondIInv'
    BY CondNextIInv
  <1> QED BY <1>1, <1>2, PTL DEF CondSpec

(* What the invariant says of the counts, and of a wait that returns.      *)
LEMMA TokensBound == ASSUME CondIInv PROVE NeverOversold
  <1>1. ASSUME NEW q \in Mutex
        PROVE  count[q] >= 0 /\ Cardinality(HeldTokens(q)) <= InitialCount[q]
    <2>1. /\ IsFiniteSet(HeldTokens(q)) /\ count[q] >= 0
          /\ count[q] + Cardinality(HeldTokens(q)) = InitialCount[q]
      BY DEF CondIInv, Tokens
    <2>2. Cardinality(HeldTokens(q)) \in Nat
      BY <2>1, FS_CardinalityType
    <2>3. count[q] \in Int
      BY SemaphoreAssumption DEF CondIInv, SemIInv, Counts
    <2> QED BY <2>1, <2>2, <2>3
  <1> QED BY <1>1 DEF NeverOversold

LEMMA OnlyHolder ==
  ASSUME CondIInv, NEW q \in Mutex, InitialCount[q] = 1,
         NEW t \in Task, NEW u \in Task, held[t][q] > 0, held[u][q] > 0
  PROVE  t = u
  <1>1. \A x \in Task : held[x][q] \in Int
    BY DEF CondIInv, SemIInv, Counts
  <1>2. <<t, 1>> \in HeldTokens(q) /\ <<u, 1>> \in HeldTokens(q)
    BY <1>1 DEF HeldTokens
  <1>3. IsFiniteSet(HeldTokens(q)) /\ Cardinality(HeldTokens(q)) <= 1
    BY TokensBound DEF NeverOversold, CondIInv, Tokens
  <1>4. Cardinality(HeldTokens(q)) \in Nat /\ Cardinality(HeldTokens(q)) # 0
    BY <1>2, <1>3, FS_CardinalityType, FS_EmptySet
  <1>5. Cardinality(HeldTokens(q)) = 1
    BY <1>3, <1>4
  <1>6. PICK x : HeldTokens(q) = {x}
    BY <1>3, <1>5, FS_Singleton
  <1> QED BY <1>2, <1>6

LEMMA ReturnHolds ==
  ASSUME CondIInv, "lock" \notin Ops, \A c \in Condition : InitialCount[MutexOf[c]] = 1
  PROVE  WaitReturnsHolding
  <1> SUFFICES ASSUME At("cond_ret")
               PROVE  /\ Top.num = 1
                      /\ \A t \in Task : (held[t][MutexOf[Top.queue]] > 0) <=> (t = current)
    BY DEF WaitReturnsHolding
  <1>1. Top.pc = "cond_ret" /\ Top.pc \in CondLabel
    BY DEF At, CondLabel
  <1>2. /\ current \in Task /\ Sound(Top, held[current])
        /\ cpu \in Disciplined(current, held[current])
    BY <1>1, CondTop DEF CondIInv, SemIInv
  <1>3. Top.queue \in Condition /\ MutexOf[Top.queue] \in Mutex
    BY <1>1, <1>2, CondVarAssumption DEF Sound
  <1>4. HasMutex(Top, held[current])
    <2>1. 1 \in 1 .. Len(cpu) /\ Top = cpu[1]
      BY CpuStack DEF CondIInv, SemIInv, Top
    <2>2. \/ HasMutex(cpu[1], held[current])
          \/ \E g \in {} : AcquiresFor(g, cpu[1])
          \/ \E j \in 1 .. 1 - 1 : AcquiresFor(cpu[j], cpu[1])
      BY <1>1, <1>2, <2>1 DEF Disciplined, Below
    <2> QED BY <2>1, <2>2
  <1>5. ASSUME NEW t \in Task, held[t][MutexOf[Top.queue]] > 0
        PROVE  t = current
    BY <1>2, <1>3, <1>4, <1>5, OnlyHolder DEF HasMutex
  <1> QED BY <1>4, <1>5 DEF HasMutex

(* The state keeps its types while tasks wait on conditions and notify one *)
(* another (sync.c:25-138), wherever the tick interrupts them.             *)
THEOREM CondTypeCorrect ==
  ASSUME "restore" \notin IrqPoints, ~ResumeAtElr, \A q \in Mutex : InitialCount[q] >= 0
  PROVE  CondSpec => []SemTypeOK
  <1>1. CondIInv => SemTypeOK
    BY IInvImplies DEF CondIInv, SemIInv, SemTypeOK, Counts
  <1> QED BY <1>1, CondInvariance, PTL

(* A mutex is never handed out more often than it has tokens: not by a     *)
(* release that wakes a waiter while another task acquires, not by a       *)
(* timeout, and not by the release and the acquire in eos_wait_condition   *)
(* (sync.c:25-94, 113-126).                                                *)
THEOREM MutexIsNotOversold ==
  ASSUME "restore" \notin IrqPoints, ~ResumeAtElr, \A q \in Mutex : InitialCount[q] >= 0
  PROVE  CondSpec => []NeverOversold
  <1>1. CondIInv => NeverOversold
    BY TokensBound
  <1> QED BY <1>1, CondInvariance, PTL

(* When eos_wait_condition returns, its task holds the mutex, and no other *)
(* task does (sync.c:113-126): the acquire at its end has no timeout, and  *)
(* the scheduler is not locked, so it ends only with the mutex.            *)
THEOREM WaitReturnsWithMutex ==
  ASSUME "restore" \notin IrqPoints, ~ResumeAtElr, \A q \in Mutex : InitialCount[q] >= 0,
         "lock" \notin Ops, \A c \in Condition : InitialCount[MutexOf[c]] = 1
  PROVE  CondSpec => []WaitReturnsHolding
  <1>1. CondIInv => WaitReturnsHolding
    BY ReturnHolds
  <1> QED BY <1>1, CondInvariance, PTL
=============================================================================
