------------------------------ MODULE CondVar -------------------------------
(***************************************************************************)
(* The condition variables of core/sync.c on top of the semaphores.  A     *)
(* condition variable is a wait queue; the application uses each with one  *)
(* mutex.  eos_wait_condition is three calls in a row: nothing joins the   *)
(* release of the mutex to the waiting.                                    *)
(*                                                                         *)
(* A frame of eos_wait_condition keeps the condition variable in queue and *)
(* in num what its last call, eos_acquire_semaphore, returned.             *)
(***************************************************************************)
EXTENDS Semaphore

CONSTANTS
  MutexOf,   \* the mutex the application uses with each: [Condition -> Mutex]
  Waiters    \* the tasks that wait for a condition

CondLabel == {"cond_wait", "cond_acq", "cond_ret"}

ASSUME CondVarAssumption ==
  /\ MutexOf \in [Condition -> Mutex] /\ Waiters \subseteq User
  /\ CondLabel \subseteq ExtraLabel

-----------------------------------------------------------------------------
(* eos_wait_condition, which a task calls with the mutex held: sync.c:121, *)
(* then 123, then 125.                                                     *)

UserWait ==
  /\ At("user") /\ current \in Waiters
  /\ \E c \in Condition :
       /\ held[current][MutexOf[c]] > 0
       /\ "wait" \in Ops
       /\ cpu' = <<[Frame("release") EXCEPT !.queue = MutexOf[c]],
                   [Frame("cond_wait") EXCEPT !.queue = c]>> \o cpu
  /\ UNCHANGED <<kernel, count, held>>

CondWait ==
  /\ At("cond_wait")
  /\ Call([Frame("wait") EXCEPT !.queue = Top.queue], "cond_acq")
  /\ UNCHANGED <<kernel, count, held>>

(* Mutant: the mutex is only tried. *)
CondTryAcquire ==
  /\ At("cond_acq")
  /\ Call([TaskFrame("acquire", NULL, -1) EXCEPT !.queue = MutexOf[Top.queue]], "cond_ret")
  /\ UNCHANGED <<kernel, count, held>>

CondAcquire ==
  /\ At("cond_acq")
  /\ Call([Frame("acquire") EXCEPT !.queue = MutexOf[Top.queue]], "cond_ret")
  /\ UNCHANGED <<kernel, count, held>>

(* What the acquire returned is not looked at. *)
CondReturn == At("cond_ret") /\ Return /\ UNCHANGED <<kernel, count, held>>

(* eos_notify_condition *)
UserNotify ==
  /\ At("user")
  /\ \E c \in Condition :
       UserCall("notify", [Frame("wakeup") EXCEPT !.queue = c])
  /\ UNCHANGED <<count, held>>

CondStep == UserWait \/ CondWait \/ CondAcquire \/ CondReturn \/ UserNotify

(* eos_init_condition leaves an empty queue, as Init does. *)
CondNext == CondStep \/ SemNext
CondSpec == SemInit /\ [][CondNext]_svars

-----------------------------------------------------------------------------
(* Properties. *)

(* t has called eos_wait_condition and is not yet in the wait queue of c.  *)
AboutToWait(t, c) ==
  \E i \in DOMAIN StackOf(t) :
    StackOf(t)[i].queue = c /\ StackOf(t)[i].pc \in {"cond_wait", "wait"}

NotifiesNobody(c) == At("wakeup") /\ Top.queue = c /\ waitq[c] = NULL

(* "Acquires semaphore before returns" (sync.c:124): a task that comes     *)
(* back from eos_wait_condition holds the mutex, and nobody else does.     *)
WaitReturnsHolding ==
  At("cond_ret") =>
    /\ Top.num = 1
    /\ \A t \in Task : (held[t][MutexOf[Top.queue]] > 0) <=> (t = current)

(* A notification is not lost on a task of a higher priority than all      *)
(* others that is between the release of the mutex and the waiting: the    *)
(* release does not switch to another task (sync.c:120-123).               *)
HighestIsNotified ==
  \A c \in Condition, t \in User :
    (\A u \in User \ {t} : priority[u] > priority[t]) =>
      ~(NotifiesNobody(c) /\ AboutToWait(t, c))

(* A task waits for a condition until a notification takes it off the      *)
(* queue, and no alarm left over from a timed wait does (sync.c:65-67,     *)
(* 122-123).                                                               *)
OnlyNotifyWakes ==
  [][\A c \in Condition :
       Members(List(waitq[c])) \subseteq Members(List(waitq[c]))'
         \/ (At("wakeup") /\ Top.queue = c)]_svars

(* What the comments of eos_wait_condition and eos_notify_condition say of *)
(* every task (sync.c:122, 136): a notification made after the mutex was   *)
(* released to wait finds the task in the wait queue.                      *)
NoNotificationLost ==
  \A c \in Condition, t \in User : ~(NotifiesNobody(c) /\ AboutToWait(t, c))
=============================================================================
