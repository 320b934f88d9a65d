----------------------------- MODULE NodeQueues -----------------------------
(***************************************************************************)
(* What the lists of core/common.c promise to the kernel: a family of      *)
(* queues, each a sequence of nodes, a node in one queue at most.  A node  *)
(* joins a FIFO queue at its tail and an ordered queue after every node    *)
(* whose order value is not above its own.                                 *)
(***************************************************************************)
EXTENDS Naturals, Sequences, SequencesExt

CONSTANTS Node,     \* the nodes
          Queue,    \* the queues
          Ordered,  \* the queues whose nodes are kept in ascending order
          Order     \* the order values

VARIABLES queue,    \* the contents of each queue
          order     \* the order value of each node

vars == <<queue, order>>

Queued(n) == \E h \in Queue : Contains(queue[h], n)

Init ==
  /\ queue = [h \in Queue |-> <<>>]
  /\ order \in [Node -> Order]

AddTail(h, n) ==
  /\ ~Queued(n)
  /\ queue' = [queue EXCEPT ![h] = Append(@, n)]
  /\ UNCHANGED order

(* A node with value v goes before the first node above v, else last. *)
AddOrdered(h, n, v) ==
  LET above == SelectInSeq(queue[h], LAMBDA m : order[m] > v)
  IN  /\ ~Queued(n)
      /\ queue' = [queue EXCEPT ![h] = IF above = 0 THEN Append(@, n)
                                       ELSE InsertAt(@, above, n)]
      /\ order' = [order EXCEPT ![n] = v]

Unlink(h, n) ==
  /\ Contains(queue[h], n)
  /\ queue' = [queue EXCEPT ![h] = RemoveFirst(@, n)]
  /\ UNCHANGED order

Next ==
  \E n \in Node :
    \/ \E h \in Queue \ Ordered : AddTail(h, n)
    \/ \E h \in Ordered, v \in Order : AddOrdered(h, n, v)
    \/ \E h \in Queue : Unlink(h, n)

Spec == Init /\ [][Next]_vars
=============================================================================
