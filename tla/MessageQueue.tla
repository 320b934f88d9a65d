---------------------------- MODULE MessageQueue ----------------------------
(***************************************************************************)
(* The message queues of core/comm.c on top of the semaphores: a ring of   *)
(* slots, a semaphore putsem that counts the free ones and a semaphore     *)
(* getsem that counts the messages.  The ring is changed with the          *)
(* scheduler locked; the tick still comes.                                 *)
(*                                                                         *)
(* A frame of eos_send_message or eos_receive_message keeps in queue the   *)
(* semaphore it acquires, in num first the result of that and then the     *)
(* index of its slot (the pointer dest or src), and in abs the message.    *)
(***************************************************************************)
EXTENDS Semaphore

CONSTANTS
  Mq,           \* the message queues
  QueueSize,    \* eos_mqueue_t.queue_size: [Mq -> Nat \ {0}]
  Msg           \* the messages

putsem(m) == <<m, "put">>
getsem(m) == <<m, "get">>

MqLabel == {"send_got", "send_idx", "send_copy", "send_rel",
            "recv_got", "recv_idx", "recv_copy", "recv_rel"}

ASSUME MessageQueueAssumption ==
  /\ WaitQueue = Mq \X {"put", "get"}
  /\ QueueSize \in [Mq -> Nat \ {0}]
  /\ Msg \subseteq Nat /\ MqLabel \subseteq ExtraLabel

VARIABLES
  slots,         \* what queue_start points to
  front, rear,   \* eos_mqueue_t.front, .rear
  stored,        \* how many messages are in the ring (not in the code)
  out            \* the message last received from each queue

ring == <<slots, front, rear, stored, out>>
mvars == <<svars, ring>>

(* eos_init_mqueue: queue_size is converted to the int8s_t of a count.     *)
MqInit ==
  /\ Init
  /\ count = [q \in WaitQueue |-> IF q[2] = "put" THEN AsInt8(QueueSize[q[1]]) ELSE 0]
  /\ held = [t \in Task |-> [q \in Mutex |-> 0]]
  /\ slots = [m \in Mq |-> [i \in 0 .. QueueSize[m] - 1 |-> NULL]]
  /\ front = [m \in Mq |-> 0] /\ rear = [m \in Mq |-> 0]
  /\ stored = [m \in Mq |-> 0]
  /\ out = [m \in Mq |-> NULL]

This == Top.queue[1]

(* The call of eos_acquire_semaphore by a new frame f of this module. *)
AcquireFrom(f, n) ==
  cpu' = <<[TaskFrame("acquire", NULL, n) EXCEPT !.queue = f.queue], f>> \o cpu

(* Mutant: the scheduler is not locked. *)
LockRingNever(l) ==
  IF Top.num = 0 THEN Return /\ UNCHANGED lock ELSE Goto(l) /\ UNCHANGED lock

(* The call fails with the acquire; else the scheduler is locked.          *)
LockRing(l) ==
  IF Top.num = 0 THEN Return /\ UNCHANGED lock ELSE Goto(l) /\ lock' = "LOCKED"

(* eos_restore_scheduler with the flag that eos_lock_scheduler returned:   *)
(* the acquire that has just succeeded does so only when it is UNLOCKED.   *)
RestoreLock(l) == lock' = "UNLOCKED" /\ Call(Frame("schedule"), l)

After(i) == IF i + 1 = QueueSize[This] THEN 0 ELSE i + 1

-----------------------------------------------------------------------------
(* eos_send_message *)

UserSend ==
  /\ At("user") /\ "send" \in Ops
  /\ \E m \in Mq, v \in Msg, n \in Timeouts[current] :
       AcquireFrom([Frame("send_got") EXCEPT !.queue = putsem(m), !.abs = v], n)
  /\ UNCHANGED <<kernel, count, held, ring>>

SendGot ==
  /\ At("send_got")
  /\ LockRing("send_idx")
  /\ UNCHANGED <<tcb, periods, queues, timer, current, contexts, count, held, ring>>

SendIndex ==
  /\ At("send_idx")
  /\ Step([Top EXCEPT !.pc = "send_copy", !.num = rear[This]])
  /\ rear' = [rear EXCEPT ![This] = After(@)]
  /\ UNCHANGED <<kernel, count, held, slots, front, stored, out>>

SendCopy ==
  /\ At("send_copy")
  /\ slots' = [slots EXCEPT ![This][Top.num] = Top.abs]
  /\ stored' = [stored EXCEPT ![This] = @ + 1]
  /\ RestoreLock("send_rel")
  /\ UNCHANGED <<tcb, periods, queues, timer, current, contexts, count, held,
                 front, rear, out>>

(* Mutant: the message is announced to the senders. *)
SendReleaseOther ==
  /\ At("send_rel")
  /\ Step([Frame("release") EXCEPT !.queue = putsem(This)])
  /\ UNCHANGED <<kernel, count, held, ring>>

SendRelease ==
  /\ At("send_rel")
  /\ Step([Frame("release") EXCEPT !.queue = getsem(This)])
  /\ UNCHANGED <<kernel, count, held, ring>>

-----------------------------------------------------------------------------
(* eos_receive_message *)

UserReceive ==
  /\ At("user") /\ "receive" \in Ops
  /\ \E m \in Mq, n \in Timeouts[current] :
       AcquireFrom([Frame("recv_got") EXCEPT !.queue = getsem(m)], n)
  /\ UNCHANGED <<kernel, count, held, ring>>

ReceiveGot ==
  /\ At("recv_got")
  /\ LockRing("recv_idx")
  /\ UNCHANGED <<tcb, periods, queues, timer, current, contexts, count, held, ring>>

ReceiveIndex ==
  /\ At("recv_idx")
  /\ Step([Top EXCEPT !.pc = "recv_copy", !.num = front[This]])
  /\ front' = [front EXCEPT ![This] = After(@)]
  /\ UNCHANGED <<kernel, count, held, slots, rear, stored, out>>

ReceiveCopy ==
  /\ At("recv_copy")
  /\ out' = [out EXCEPT ![This] = slots[This][Top.num]]
  /\ stored' = [stored EXCEPT ![This] = @ - 1]
  /\ RestoreLock("recv_rel")
  /\ UNCHANGED <<tcb, periods, queues, timer, current, contexts, count, held,
                 slots, front, rear>>

ReceiveRelease ==
  /\ At("recv_rel")
  /\ Step([Frame("release") EXCEPT !.queue = putsem(This)])
  /\ UNCHANGED <<kernel, count, held, ring>>

-----------------------------------------------------------------------------

MqStep ==
  \/ UserSend \/ SendGot \/ SendIndex \/ SendCopy \/ SendRelease
  \/ UserReceive \/ ReceiveGot \/ ReceiveIndex \/ ReceiveCopy \/ ReceiveRelease

MqNext == MqStep \/ (SemNext /\ UNCHANGED ring)

MqSpec == MqInit /\ [][MqNext]_mvars

-----------------------------------------------------------------------------
(* Properties. *)

(* A call with the frame f has taken a token of q whose slot or message is *)
(* still there, or has made a slot or a message that q does not count yet. *)
HasToken(f, q) ==
  \/ f.queue = q /\ f.pc \in {"send_got", "recv_got"} /\ f.num = 1
  \/ f.queue = q /\ f.pc \in {"send_idx", "send_copy", "recv_idx", "recv_copy", "release"}
  \/ f.pc = "send_rel" /\ q = getsem(f.queue[1])
  \/ f.pc = "recv_rel" /\ q = putsem(f.queue[1])

(* The tasks with such a call. *)
InFlight(q) ==
  {t \in Task : \E i \in DOMAIN StackOf(t) : HasToken(StackOf(t)[i], q)}

(* No slot is lost and none is used twice, no message is announced twice   *)
(* or to the wrong side: putsem counts the free slots and getsem the       *)
(* messages, but for the calls between an acquire and a release, whatever  *)
(* calls fail and whatever is preempted (eos.h:209-217, comm.c:43-66,      *)
(* 83-106).                                                                *)
TokensConserved ==
  InTask =>
    \A m \in Mq :
      /\ count[putsem(m)] + Cardinality(InFlight(putsem(m))) = QueueSize[m] - stored[m]
      /\ count[getsem(m)] + Cardinality(InFlight(getsem(m))) = stored[m]

(* Where the oldest message is: a receiver that has moved front on and     *)
(* still has to copy its message is on the CPU, for the scheduler is       *)
(* locked.                                                                 *)
Oldest(m) ==
  LET taking == {i \in DOMAIN cpu : cpu[i].pc = "recv_copy" /\ cpu[i].queue = getsem(m)}
  IN  IF taking = {} THEN front[m] ELSE cpu[CHOOSE i \in taking : TRUE].num

Contents(m) ==
  [i \in 1 .. stored[m] |-> slots[m][(Oldest(m) + i - 1) % QueueSize[m]]]

(* The ring with its two semaphores is a bounded FIFO channel: nothing is  *)
(* lost, duplicated, overtaken or overwritten before it is read            *)
(* (comm.c:33-111).                                                        *)
AsChannel == INSTANCE Channel WITH chan <- [m \in Mq |-> Contents(m)], NoMsg <- NULL
ImplementsChannel == AsChannel!Spec
=============================================================================
