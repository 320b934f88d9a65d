--------------------------- MODULE MCMessageQueue ---------------------------
(* A small instance of MessageQueue for TLC. *)
EXTENDS MessageQueue

CONSTANTS t1, t2, t3, box

Triple == {t1, t2, t3}
OneBox == {box}
PutAndGet == Mq \X {"put", "get"}
Fifo == [q \in WaitQueue |-> "FIFO"]
Zero == [q \in WaitQueue |-> 0]
NoMutex == {}
One == [m \in Mq |-> 1]
Two == [m \in Mq |-> 2]

Staggered == [t \in User |-> IF t = t1 THEN {0} ELSE {1}]

\* Waiting for ever, and not at all.
SomeTry == [t \in Task |-> IF t = t1 THEN {0, -1} ELSE {0}]
=============================================================================
