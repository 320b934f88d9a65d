------------------------------ MODULE NodeList ------------------------------
(***************************************************************************)
(* The circular doubly-linked lists of core/common.c, at the level of      *)
(* their pointers.  Every queue of the kernel (ready queues, wait queues,  *)
(* alarm queues) is one of them.                                           *)
(*                                                                         *)
(* A list is a record l: l.prev and l.next are the links of every node of  *)
(* the heap, whatever list the node is in, and l.head is the head pointer  *)
(* the caller passes by address.  An operator returns the record after the *)
(* call.  A node is named by the structure that embeds it, so pnode is the *)
(* node itself; order_val is the argument ord, a function on nodes.  A     *)
(* store through NULL changes no node (the EXCEPT is outside the domain).  *)
(***************************************************************************)
EXTENDS Naturals, FiniteSets

CONSTANT NULL

(* The assignments of common.c:29-32 (at = head) and 57-60 (at = node):    *)
(* they run in this order, and each reads what the one before it wrote.    *)
LinkBefore(l, n, at) ==
  LET prev1 == [l.prev EXCEPT ![n] = l.prev[at]]
      next1 == [l.next EXCEPT ![prev1[n]] = n]
  IN  [l EXCEPT !.prev = [prev1 EXCEPT ![at] = n],
                !.next = [next1 EXCEPT ![n] = at]]

(* common.c:34-36 and 62-64: the first node of a list is linked to itself. *)
LinkAlone(l, n) ==
  [prev |-> [l.prev EXCEPT ![n] = n],
   next |-> [l.next EXCEPT ![n] = n],
   head |-> n]

(* _os_add_node_tail(&head, new_node) *)
AddNodeTail(l, n) ==
  IF l.head = NULL THEN LinkAlone(l, n) ELSE LinkBefore(l, n, l.head)

(* Walk(l, a)[k]: the node k next-pointers away from a, NULL past a NULL.   *)
Walk(l, a) ==
  LET step[k \in 0 .. Cardinality(DOMAIN l.next)] ==
        IF k = 0 THEN a
        ELSE IF step[k - 1] = NULL THEN NULL ELSE l.next[step[k - 1]]
  IN  step

(* Mutant: the loop stops at an equal order_val too. *)
InsertionPointBeforeEqual(l, n, ord) ==
  LET at == Walk(l, l.next[l.head])
      stop(k) == at[k] \in {l.head, NULL} \/ ord[at[k]] >= ord[n]
  IN  at[CHOOSE k \in DOMAIN at : stop(k) /\ \A j \in 0 .. k - 1 : ~stop(j)]

(* The nodes of the list: those in every set that has the head and is      *)
(* closed under next.                                                      *)
Closed(l, C) == l.head \in C /\ \A m \in C : l.next[m] \in C \cup {NULL}
Members(l) ==
  LET closed == {C \in SUBSET DOMAIN l.next : Closed(l, C)}
  IN  IF l.head = NULL THEN {} ELSE {m \in DOMAIN l.next : \A C \in closed : m \in C}

(* The loop of common.c:51-55: from head->next on, the first node that is  *)
(* the head again or has an order_val above the new node's.  In a list     *)
(* that is no ring the loop may find none; the head stands for that.       *)
InsertionPoint(l, n, ord) ==
  LET at == Walk(l, l.next[l.head])
      stop(k) == at[k] \in {l.head, NULL} \/ ord[at[k]] > ord[n]
      First(m) == \E k \in DOMAIN at :
                    at[k] = m /\ stop(k) /\ \A j \in 0 .. k - 1 : ~stop(j)
  IN  IF \E m \in Members(l) : First(m)
      THEN CHOOSE m \in Members(l) : First(m)
      ELSE l.head

(* Mutant: every list is filled at its tail. *)
AddNodeAnywhere(l, n, ord) == AddNodeTail(l, n)

(* _os_add_node_ordered(&head, new_node): "Ascending order" *)
AddNodeOrdered(l, n, ord) ==
  IF l.head = NULL THEN LinkAlone(l, n)
  ELSE IF ord[l.head] > ord[n]
  THEN [LinkBefore(l, n, l.head) EXCEPT !.head = n]
  ELSE LinkBefore(l, n, InsertionPoint(l, n, ord))

(* "If the node doesn't exist in the list" (common.c:71-73) *)
Unlinked(l, n) == l.next[n] = NULL \/ l.prev[n] = NULL

(* Mutant: the prev-pointer of the next node is left as it was. *)
BypassForward(l, n) ==
  [l EXCEPT !.next = [@ EXCEPT ![l.prev[n]] = l.next[n]],
            !.head = IF n = @ THEN l.next[n] ELSE @]

(* common.c:78-82: a node that has neighbours is bypassed. *)
Bypass(l, n) ==
  LET next1 == [l.next EXCEPT ![l.prev[n]] = l.next[n]]
      prev1 == [l.prev EXCEPT ![next1[n]] = l.prev[n]]
  IN  [prev |-> prev1,
       next |-> next1,
       head |-> IF n = l.head THEN next1[n] ELSE l.head]

(* Mutant: the links of the removed node are not reset. *)
RemoveNodeKeepsLinks(l, n) ==
  IF Unlinked(l, n) THEN l
  ELSE IF l.next[n] = n THEN [l EXCEPT !.head = NULL] ELSE Bypass(l, n)

(* Mutant: removing its first node empties the list. *)
RemoveNodeAndRest(l, n) ==
  IF Unlinked(l, n) THEN l
  ELSE LET out == IF n = l.head THEN [l EXCEPT !.head = NULL] ELSE Bypass(l, n)
       IN  [out EXCEPT !.next[n] = NULL, !.prev[n] = NULL]

(* _os_remove_node(&head, node) *)
RemoveNode(l, n) ==
  IF Unlinked(l, n) THEN l
  ELSE LET out == IF l.next[n] = n THEN [l EXCEPT !.head = NULL] ELSE Bypass(l, n)
       IN  [out EXCEPT !.next[n] = NULL, !.prev[n] = NULL]

-----------------------------------------------------------------------------
(* How a list is read: the ring of next-pointers that starts at the head.  *)

(* A sound list: empty, or its next-pointers never lead to NULL and its    *)
(* prev-pointers are their inverse, so that they close to a ring.          *)
WellFormed(l) ==
  \A n \in Members(l) : l.next[n] # NULL /\ l.prev[l.next[n]] = n

(* The nodes of a sound list in order. *)
Ring(l) ==
  LET at == Walk(l, l.head)
  IN  [i \in 1 .. Cardinality(Members(l)) |-> at[i - 1]]
=============================================================================
