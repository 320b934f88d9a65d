------------------------------ MODULE Channel -------------------------------
(***************************************************************************)
(* What the message queues of core/comm.c promise: bounded FIFO channels.  *)
(* A message is received once, in the order of sending, and no more than   *)
(* queue_size of them are in a channel.                                    *)
(***************************************************************************)
EXTENDS Naturals, Sequences

CONSTANTS Mq, QueueSize, Msg, NoMsg

VARIABLES chan,    \* the messages in each channel
          out      \* the message last received from each

Init ==
  /\ chan = [m \in Mq |-> <<>>]
  /\ out = [m \in Mq |-> NoMsg]

Put(m, v) ==
  /\ Len(chan[m]) < QueueSize[m]
  /\ chan' = [chan EXCEPT ![m] = Append(@, v)]
  /\ UNCHANGED out

Get(m) ==
  /\ chan[m] # <<>>
  /\ chan' = [chan EXCEPT ![m] = Tail(@)]
  /\ out' = [out EXCEPT ![m] = Head(chan[m])]

Next == \E m \in Mq : Get(m) \/ \E v \in Msg : Put(m, v)

Spec == Init /\ [][Next]_<<chan, out>>
=============================================================================
