----------------------------- MODULE LinkedLists ----------------------------
(***************************************************************************)
(* The lists of core/common.c used the way the kernel means to use them: a *)
(* node is added when it is in no list and removed through the head of its *)
(* own list, or when it is in none (eos_set_alarm removes an alarm that    *)
(* may not be set).  The lists share one heap of nodes.  They implement    *)
(* the queues of NodeQueues.                                               *)
(***************************************************************************)
EXTENDS NodeList, Sequences

CONSTANTS Node, Queue, Ordered, Order

ASSUME NodeAssumption ==
  NULL \notin Node /\ NULL \notin Queue /\ Ordered \subseteq Queue

VARIABLES prev, next,   \* the links of each node: _os_node_t.prev and .next
          head,         \* the head pointer of each list
          order,        \* _os_node_t.order_val
          home          \* the list each node is in by the calls so far, or NULL

vars == <<prev, next, head, order, home>>

List(h) == [prev |-> prev, next |-> next, head |-> head[h]]

(* The list h is l after a call, which has put the node n into g. *)
Becomes(h, l, n, g) ==
  /\ prev' = l.prev
  /\ next' = l.next
  /\ head' = [head EXCEPT ![h] = l.head]
  /\ home' = [home EXCEPT ![n] = g]

Free(n) == next[n] = NULL /\ prev[n] = NULL

Init ==
  /\ prev = [n \in Node |-> NULL]
  /\ next = [n \in Node |-> NULL]
  /\ head = [h \in Queue |-> NULL]
  /\ order \in [Node -> Order]
  /\ home = [n \in Node |-> NULL]

Add(h, n) ==
  /\ Free(n)
  /\ Becomes(h, AddNodeTail(List(h), n), n, h)
  /\ UNCHANGED order

(* order_val is set just before the call (timer.c:47-50). *)
AddInOrder(h, n, v) ==
  /\ Free(n)
  /\ order' = [order EXCEPT ![n] = v]
  /\ Becomes(h, AddNodeOrdered(List(h), n, order'), n, h)

Remove(h, n) ==
  /\ home[n] \in {h, NULL}
  /\ Becomes(h, RemoveNode(List(h), n), n, NULL)
  /\ UNCHANGED order

Next ==
  \E n \in Node :
    \/ \E h \in Queue \ Ordered : Add(h, n)
    \/ \E h \in Ordered, v \in Order : AddInOrder(h, n, v)
    \/ \E h \in Queue : Remove(h, n)

Spec == Init /\ [][Next]_vars

-----------------------------------------------------------------------------
TypeOK ==
  /\ prev \in [Node -> Node \cup {NULL}]
  /\ next \in [Node -> Node \cup {NULL}]
  /\ head \in [Queue -> Node \cup {NULL}]
  /\ order \in [Node -> Order]
  /\ home \in [Node -> Queue \cup {NULL}]

(* The pointers tell the truth about the lists: a node is in a list just   *)
(* when its links are not NULL, which is how _os_remove_node decides it    *)
(* (common.c:71-73); prev and next are inverse to each other and never     *)
(* lead from one list into another; and a head is a node of its own list.  *)
LinksSound ==
  /\ \A n \in Node :
       /\ home[n] = NULL <=> next[n] = NULL
       /\ home[n] = NULL <=> prev[n] = NULL
       /\ home[n] # NULL =>
            /\ prev[next[n]] = n /\ next[prev[n]] = n
            /\ home[next[n]] = home[n] /\ home[prev[n]] = home[n]
  /\ \A h \in Queue : head[h] # NULL => home[head[h]] = h

(* Every list is a closed ring that holds all of its nodes.                *)
RingsClosed ==
  \A h \in Queue :
    /\ WellFormed(List(h))
    /\ Members(List(h)) = {n \in Node : home[n] = h}

(* The pointer lists implement the abstract queues: the tail insertion,    *)
(* the stable ordered insertion and the removal, each from any position.   *)
Abstract == INSTANCE NodeQueues WITH queue <- [h \in Queue |-> Ring(List(h))]
ImplementsQueues == Abstract!Spec
=============================================================================
