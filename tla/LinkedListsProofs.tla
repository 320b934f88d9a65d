-------------------------- MODULE LinkedListsProofs -------------------------
(***************************************************************************)
(* The pointers of the lists of core/common.c stay sound, for any number   *)
(* of nodes and lists and any sequence of calls.                           *)
(***************************************************************************)
EXTENDS LinkedLists, StructureProofs

(* LinksSound for the pointers of one list operation: l is the list h, and *)
(* r says of each node in which list it is.                                *)
Sound(l, r) ==
  \A n \in Node :
    /\ r[n] = NULL <=> l.next[n] = NULL
    /\ r[n] = NULL <=> l.prev[n] = NULL
    /\ r[n] # NULL =>
         /\ l.prev[l.next[n]] = n /\ l.next[l.prev[n]] = n
         /\ r[l.next[n]] = r[n] /\ r[l.prev[n]] = r[n]

Homes == [Node -> Queue \cup {NULL}]

(* Linking a free node in before a node of the list keeps the pointers     *)
(* inverse to each other (common.c:29-32, 57-60).                          *)
LEMMA LinkBeforeSound ==
  ASSUME NEW l \in ListOver(Node, Node), NEW r \in Homes, Sound(l, r),
         NEW n \in Node, r[n] = NULL,
         NEW at \in Node, NEW h \in Queue, r[at] = h
  PROVE  Sound(LinkBefore(l, n, at), [r EXCEPT ![n] = h])
  <1> DEFINE m == LinkBefore(l, n, at)
             before == l.prev[at]
  <1>1. NULL \notin Node /\ NULL \notin Queue
    BY NodeAssumption
  <1>2. /\ before \in Node /\ at # n /\ before # n
        /\ l.next[before] = at /\ r[before] = h
    BY <1>1 DEF Sound, ListOver, Homes
  <1>3. /\ m.prev = [[l.prev EXCEPT ![n] = before] EXCEPT ![at] = n]
        /\ m.next = [[l.next EXCEPT ![before] = n] EXCEPT ![n] = at]
    BY <1>2 DEF LinkBefore, ListOver
  <1> HIDE DEF m
  <1>4. \A x \in Node :
          /\ m.prev[x] = IF x = at THEN n ELSE IF x = n THEN before ELSE l.prev[x]
          /\ m.next[x] = IF x = n THEN at ELSE IF x = before THEN n ELSE l.next[x]
    BY <1>2, <1>3 DEF ListOver
  <1> HIDE DEF before
  <1>5. Sound(m, [r EXCEPT ![n] = h])
    BY <1>1, <1>2, <1>4 DEF Sound, ListOver, Homes
  <1> QED BY <1>5 DEF m

(* The first node of a list is linked to itself (common.c:34-36, 62-64).   *)
LEMMA LinkAloneSound ==
  ASSUME NEW l \in ListOver(Node, Node), NEW r \in Homes, Sound(l, r),
         NEW n \in Node, r[n] = NULL, NEW h \in Queue
  PROVE  Sound(LinkAlone(l, n), [r EXCEPT ![n] = h])
  BY NodeAssumption DEF LinkAlone, Sound, ListOver, Homes

(* Removing a node bypasses it on both sides (common.c:71-85).             *)
LEMMA RemoveNodeSound ==
  ASSUME NEW l \in ListOver(Node, Node), NEW r \in Homes, Sound(l, r), NEW n \in Node
  PROVE  Sound(RemoveNode(l, n), [r EXCEPT ![n] = NULL])
  <1> DEFINE m == RemoveNode(l, n)
             after == l.next[n]
             before == l.prev[n]
  <1>1. NULL \notin Node /\ NULL \notin Queue
    BY NodeAssumption
  <1>2. CASE r[n] = NULL
    <2>1. m = l /\ [r EXCEPT ![n] = NULL] = r
      BY <1>2 DEF RemoveNode, Unlinked, Sound, Homes
    <2> QED BY <2>1
  <1>3. CASE r[n] # NULL
    <2>1. /\ ~Unlinked(l, n) /\ after \in Node /\ before \in Node
          /\ l.prev[after] = n /\ l.next[before] = n
          /\ r[after] = r[n] /\ r[before] = r[n]
      BY <1>1, <1>3 DEF Unlinked, Sound, ListOver
    <2>2. \A x \in Node :
            /\ m.next[x] = IF x = n THEN NULL
                           ELSE IF x = before THEN after ELSE l.next[x]
            /\ m.prev[x] = IF x = n THEN NULL
                           ELSE IF x = after THEN before ELSE l.prev[x]
      <3>1. CASE after = n
        <4>1. before = n
          BY <2>1, <3>1
        <4>2. m = [[l EXCEPT !.head = NULL] EXCEPT !.next[n] = NULL, !.prev[n] = NULL]
          BY <2>1, <3>1 DEF RemoveNode
        <4> QED BY <3>1, <4>1, <4>2 DEF ListOver
      <3>2. CASE after # n
        <4>1. /\ m.next = [[l.next EXCEPT ![before] = after] EXCEPT ![n] = NULL]
              /\ m.prev = [[l.prev EXCEPT ![after] = before] EXCEPT ![n] = NULL]
          BY <2>1, <3>2 DEF RemoveNode, Bypass, ListOver
        <4> QED BY <2>1, <4>1 DEF ListOver
      <3> QED BY <3>1, <3>2
    <2> HIDE DEF m, after, before
    <2>3. \A x \in Node : r[x] # NULL => l.next[x] \in Node /\ l.prev[x] \in Node
      BY DEF Sound, ListOver
    <2>4. \A x \in Node : x # n => [r EXCEPT ![n] = NULL][x] = r[x]
      BY DEF Homes
    <2>5. [r EXCEPT ![n] = NULL][n] = NULL
      BY DEF Homes
    <2> QED BY <1>1, <1>3, <2>1, <2>2, <2>3, <2>4, <2>5 DEF Sound, m, after, before
  <1> QED BY <1>2, <1>3

-----------------------------------------------------------------------------
(* Membership.  The nodes of a list are the least set that has its head    *)
(* and is closed under next; an induction over the ring becomes a choice   *)
(* of such a set.                                                          *)

Of(r, h) == {x \in Node : r[x] = h}

(* l is the list of the nodes that r puts into h. *)
Holds(l, r, h) ==
  /\ l.head # NULL => r[l.head] = h
  /\ Members(l) = Of(r, h)

LEMMA MembersLeast ==
  ASSUME NEW l \in ListOver(Node, Node), l.head # NULL
  PROVE  Members(l) = {x \in Node : \A C \in SUBSET Node : Closed(l, C) => x \in C}
  <1>1. DOMAIN l.next = Node
    BY DEF ListOver
  <1> QED BY <1>1, Zenon DEF Members

(* The nodes of a list with sound pointers are closed under next.          *)
LEMMA HomeClosed ==
  ASSUME NEW l \in ListOver(Node, Node), NEW r \in Homes, Sound(l, r),
         NEW h \in Queue, l.head # NULL, r[l.head] = h
  PROVE  Closed(l, Of(r, h))
  BY NodeAssumption DEF Closed, Of, Sound, ListOver, Homes

(* To see that a list holds its nodes it is enough to see that they are in *)
(* every closed set.                                                       *)
LEMMA HoldsIf ==
  ASSUME NEW l \in ListOver(Node, Node), NEW r \in Homes, Sound(l, r),
         NEW h \in Queue, l.head # NULL, r[l.head] = h,
         \A C \in SUBSET Node : Closed(l, C) => Of(r, h) \subseteq C
  PROVE  Holds(l, r, h)
  <1>1. Closed(l, Of(r, h)) /\ Of(r, h) \in SUBSET Node
    BY HomeClosed DEF Of
  <1>2. Members(l) = Of(r, h)
    BY <1>1, MembersLeast
  <1> QED BY <1>2 DEF Holds

LEMMA HoldsOnlyIf ==
  ASSUME NEW l \in ListOver(Node, Node), NEW r, NEW h \in Queue, l.head # NULL,
         Holds(l, r, h), NEW C \in SUBSET Node, Closed(l, C)
  PROVE  Of(r, h) \subseteq C
  BY MembersLeast DEF Holds

(* Linking a node in adds it and no other, whether the head stays or, when *)
(* the node goes before it, becomes the new node.                          *)
LEMMA LinkBeforeHolds ==
  ASSUME NEW l \in ListOver(Node, Node), NEW r \in Homes, Sound(l, r),
         NEW n \in Node, r[n] = NULL,
         NEW at \in Node, NEW h \in Queue, r[at] = h,
         l.head # NULL, Holds(l, r, h),
         NEW e \in {l.head, n}, e = n => at = l.head
  PROVE  Holds([LinkBefore(l, n, at) EXCEPT !.head = e], [r EXCEPT ![n] = h], h)
  <1> DEFINE m == LinkBefore(l, n, at)
             me == [m EXCEPT !.head = e]
             q == [r EXCEPT ![n] = h]
             before == l.prev[at]
  <1>1. NULL \notin Node /\ NULL \notin Queue
    BY NodeAssumption
  <1>2. l.head \in Node /\ r[l.head] = h /\ l.head # n /\ e \in Node
    BY <1>1 DEF Holds, ListOver
  <1>3. m \in ListOver(Node, Node) /\ Sound(m, q)
    BY LinkBeforeType, LinkBeforeSound
  <1>4. /\ me \in ListOver(Node, Node) /\ me.head = e
        /\ me.next = m.next /\ me.prev = m.prev
    BY <1>2, <1>3 DEF ListOver
  <1>5. Sound(me, q) /\ q \in Homes /\ q[e] = h
    BY <1>2, <1>3, <1>4 DEF Sound, Homes
  <1>6. /\ before \in Node /\ before # n /\ at # n /\ l.next[before] = at /\ r[before] = h
    BY <1>1 DEF Sound, ListOver
  <1>7. \A x \in Node : me.next[x] = IF x = n THEN at ELSE IF x = before THEN n ELSE l.next[x]
    BY <1>4, <1>6 DEF LinkBefore, ListOver
  <1>8. \A x \in Node : l.next[x] # n
    BY <1>1 DEF Sound, ListOver
  <1> HIDE DEF m, me, before
  <1>9. ASSUME NEW C \in SUBSET Node, Closed(me, C)
        PROVE  Of(q, h) \subseteq C
    <2>1. l.head \in C
      BY <1>1, <1>2, <1>4, <1>7, <1>9 DEF Closed
    <2>2. Closed(l, C \ {n})
      BY <1>1, <1>2, <1>6, <1>7, <1>8, <1>9, <2>1 DEF Closed
    <2>3. Of(r, h) \subseteq C \ {n}
      BY <2>2, HoldsOnlyIf
    <2>4. n \in C
      BY <1>1, <1>6, <1>7, <1>9, <2>3 DEF Closed, Of
    <2> QED BY <2>3, <2>4 DEF Of, Homes
  <1> QED BY <1>1, <1>2, <1>4, <1>5, <1>9, HoldsIf DEF me, m

LEMMA LinkAloneHolds ==
  ASSUME NEW l \in ListOver(Node, Node), NEW r \in Homes, Sound(l, r),
         NEW n \in Node, r[n] = NULL, NEW h \in Queue,
         l.head = NULL, Holds(l, r, h)
  PROVE  Holds(LinkAlone(l, n), [r EXCEPT ![n] = h], h)
  <1> DEFINE m == LinkAlone(l, n)
             q == [r EXCEPT ![n] = h]
  <1>1. Members(l) = {}
    BY DEF Members
  <1>2. Of(q, h) = {n}
    BY <1>1 DEF Holds, Of, Homes
  <1>3. m \in ListOver(Node, Node) /\ Sound(m, q) /\ q \in Homes
    BY LinkAloneType, LinkAloneSound DEF Homes
  <1>4. m.head = n /\ m.head # NULL /\ q[n] = h
    BY NodeAssumption DEF LinkAlone, Homes
  <1>5. \A C \in SUBSET Node : Closed(m, C) => Of(q, h) \subseteq C
    BY <1>2, <1>4 DEF Closed
  <1> QED BY <1>3, <1>4, <1>5, HoldsIf

(* Removing a node of the list takes it away and no other; the list is     *)
(* emptied only when it was the last one (common.c:75-83).                 *)
LEMMA RemoveNodeHolds ==
  ASSUME NEW l \in ListOver(Node, Node), NEW r \in Homes, Sound(l, r),
         NEW n \in Node, NEW h \in Queue, r[n] = h, Holds(l, r, h)
  PROVE  Holds(RemoveNode(l, n), [r EXCEPT ![n] = NULL], h)
  <1> DEFINE m == RemoveNode(l, n)
             q == [r EXCEPT ![n] = NULL]
             after == l.next[n]
             before == l.prev[n]
  <1>1. NULL \notin Node /\ NULL \notin Queue
    BY NodeAssumption
  <1>2. l.head # NULL /\ l.head \in Node /\ r[l.head] = h
    <2>1. n \in Members(l)
      BY DEF Holds, Of
    <2> QED BY <2>1, Zenon DEF Members, Holds, ListOver
  <1>3. /\ ~Unlinked(l, n) /\ after \in Node /\ before \in Node
        /\ l.next[before] = n /\ r[after] = h
        /\ \A x \in Node : l.next[x] = n => x = before
    BY <1>1 DEF Unlinked, Sound, ListOver
  <1>4. m \in ListOver(Node, Node) /\ Sound(m, q) /\ q \in Homes
    BY RemoveNodeType, RemoveNodeSound DEF Homes
  <1>5. Of(q, h) = Of(r, h) \ {n}
    BY <1>1 DEF Of, Homes
  <1>6. CASE after = n
    <2>1. before = n
      BY <1>3, <1>6
    <2>2. l.head = n
      <3> SUFFICES ASSUME l.head # n PROVE FALSE
        OBVIOUS
      <3>1. Closed(l, Of(r, h) \ {n})
        BY <1>2, <1>3, <2>1, HomeClosed DEF Closed, Of
      <3>2. Of(r, h) \subseteq Of(r, h) \ {n}
        BY <1>2, <3>1, HoldsOnlyIf DEF Of
      <3> QED BY <3>2 DEF Of
    <2>3. Closed(l, {n})
      BY <1>6, <2>2 DEF Closed
    <2>4. Of(q, h) = {}
      BY <1>2, <1>5, <2>3, HoldsOnlyIf
    <2>5. m.head = NULL
      BY <1>3, <1>6 DEF RemoveNode
    <2> QED BY <2>4, <2>5 DEF Holds, Members
  <1>7. CASE after # n
    <2>1. before # n
      BY <1>3, <1>7 DEF Sound, ListOver
    <2>2. /\ m.next = [[l.next EXCEPT ![before] = after] EXCEPT ![n] = NULL]
          /\ m.head = IF n = l.head THEN after ELSE l.head
      BY <1>3, <1>7, <2>1 DEF RemoveNode, Bypass, ListOver
    <2>3. \A x \in Node : m.next[x] = IF x = n THEN NULL
                                      ELSE IF x = before THEN after ELSE l.next[x]
      BY <2>2 DEF ListOver
    <2>4. m.head # NULL /\ q[m.head] = h
      BY <1>1, <1>2, <1>3, <1>7, <2>2 DEF Homes
    <2> HIDE DEF m, before, after
    <2>5. ASSUME NEW C \in SUBSET Node, Closed(m, C)
          PROVE  Of(q, h) \subseteq C
      <3>1. CASE after \in C
        <4>1. Closed(l, C \cup {n})
          BY <1>2, <1>3, <2>1, <2>2, <2>3, <2>5, <3>1 DEF Closed, after
        <4>2. Of(r, h) \subseteq C \cup {n}
          BY <1>2, <4>1, HoldsOnlyIf
        <4> QED BY <1>5, <4>2
      <3>2. CASE after \notin C
        <4>1. before \notin C /\ l.head # n
          BY <1>1, <1>3, <2>1, <2>2, <2>3, <2>5, <3>2 DEF Closed
        <4>2. Closed(l, C \ {n})
          BY <1>2, <1>3, <2>2, <2>3, <2>5, <4>1 DEF Closed
        <4>3. Of(r, h) \subseteq C \ {n}
          BY <1>2, <4>2, HoldsOnlyIf
        <4> QED BY <4>3 DEF Of
      <3> QED BY <3>1, <3>2
    <2> QED BY <1>4, <2>4, <2>5, HoldsIf DEF m
  <1> QED BY <1>6, <1>7

(* A list none of whose nodes is touched stays as it is.                   *)
LEMMA OtherHolds ==
  ASSUME NEW l \in ListOver(Node, Node), NEW r \in Homes, Sound(l, r),
         NEW m \in ListOver(Node, Node), NEW q \in Homes, Sound(m, q),
         NEW g \in Queue, Holds(l, r, g), Of(q, g) = Of(r, g), m.head = l.head,
         \A x \in Of(r, g) : m.next[x] = l.next[x]
  PROVE  Holds(m, q, g)
  <1>1. CASE l.head = NULL
    BY <1>1 DEF Holds, Members
  <1>2. CASE l.head # NULL
    <2>1. l.head \in Of(r, g)
      BY <1>2 DEF Holds, Of, ListOver
    <2>2. q[m.head] = g
      BY <2>1 DEF Of
    <2>3. ASSUME NEW C \in SUBSET Node, Closed(m, C)
          PROVE  Of(q, g) \subseteq C
      <3>1. Closed(l, C \cap Of(r, g))
        BY <1>2, <2>1, <2>3, HomeClosed DEF Closed, Holds
      <3> QED BY <1>2, <3>1, HoldsOnlyIf
    <2> QED BY <1>2, <2>2, <2>3, HoldsIf
  <1> QED BY <1>1, <1>2

-----------------------------------------------------------------------------
(* The invariant, and the step every operation takes. *)

Heap == [prev |-> prev, next |-> next, head |-> NULL]

IInv ==
  /\ TypeOK
  /\ Sound(Heap, home)
  /\ \A h \in Queue : Holds(List(h), home, h)

LEMMA IInvImplies == IInv => TypeOK /\ LinksSound /\ RingsClosed
  <1> SUFFICES ASSUME IInv PROVE LinksSound /\ RingsClosed
    BY DEF IInv
  <1>1. LinksSound
    BY DEF IInv, Sound, Heap, Holds, List, LinksSound
  <1>2. ASSUME NEW h \in Queue
        PROVE  WellFormed(List(h)) /\ Members(List(h)) = {n \in Node : home[n] = h}
    <2>1. Members(List(h)) = {n \in Node : home[n] = h}
      BY DEF IInv, Holds, Of
    <2>2. \A n \in Node : home[n] = h => next[n] # NULL /\ prev[next[n]] = n
      BY NodeAssumption DEF IInv, Sound, Heap
    <2> QED BY <2>1, <2>2 DEF WellFormed, List
  <1> QED BY <1>1, <1>2 DEF RingsClosed

LEMMA ListTypes ==
  ASSUME IInv, NEW h \in Queue
  PROVE  /\ List(h) \in ListOver(Node, Node) /\ home \in Homes
         /\ Sound(List(h), home) /\ Holds(List(h), home, h)
  BY DEF IInv, TypeOK, List, ListOver, Homes, Sound, Heap

(* One operation on the list h, that leaves every other list's nodes alone.*)
LEMMA StepIInv ==
  ASSUME IInv, NEW h \in Queue, NEW m \in ListOver(Node, Node),
         NEW n \in Node, NEW g \in {h, NULL}, home[n] \in {h, NULL},
         Becomes(h, m, n, g), order' \in [Node -> Order],
         Sound(m, [home EXCEPT ![n] = g]), Holds(m, [home EXCEPT ![n] = g], h),
         \A x \in Node : home[x] \notin {h, NULL} => m.next[x] = next[x]
  PROVE  IInv'
  <1>1. NULL \notin Queue
    BY NodeAssumption
  <1>2. TypeOK'
    BY DEF IInv, TypeOK, Becomes, ListOver
  <1>3. Sound(Heap, home)'
    BY DEF Becomes, Sound, Heap
  <1>4. home' \in Homes /\ home' = [home EXCEPT ![n] = g]
    BY <1>2 DEF TypeOK, Homes, Becomes
  <1>5. ASSUME NEW k \in Queue PROVE Holds(List(k), home, k)'
    <2>1. CASE k = h
      <3>1. List(h)' = m
        BY <2>1 DEF List, Becomes, ListOver, IInv, TypeOK
      <3> QED BY <1>4, <2>1, <3>1 DEF Holds, Of
    <2>2. CASE k # h
      <3>1. List(k)' = [m EXCEPT !.head = head[k]] /\ List(k)'.head = List(k).head
        BY <2>2 DEF List, Becomes, ListOver, IInv, TypeOK
      <3>2. List(k)' \in ListOver(Node, Node) /\ Sound(List(k)', home')
        BY <1>3, <1>2 DEF List, ListOver, TypeOK, Sound, Heap
      <3>3. Of(home', k) = Of(home, k)
        BY <1>1, <1>4, <2>2 DEF Of, IInv, TypeOK
      <3>4. \A x \in Of(home, k) : List(k)'.next[x] = List(k).next[x]
        BY <1>1, <2>2 DEF Of, List, Becomes
      <3>5. Holds(List(k)', home', k)
        BY <1>4, <3>1, <3>2, <3>3, <3>4, ListTypes, OtherHolds
      <3> QED BY <3>5 DEF Holds, Of
    <2> QED BY <2>1, <2>2
  <1> QED BY <1>2, <1>3, <1>5 DEF IInv

-----------------------------------------------------------------------------
(* The operations. *)

LEMMA InitIInv == Init => IInv
  <1> SUFFICES ASSUME Init PROVE IInv
    OBVIOUS
  <1>1. TypeOK /\ Sound(Heap, home)
    BY DEF Init, TypeOK, Sound, Heap
  <1>2. \A h \in Queue : Holds(List(h), home, h)
    BY NodeAssumption DEF Init, Holds, Of, List, Members
  <1> QED BY <1>1, <1>2 DEF IInv

(* Both insertions link the node in before some node of the list, or alone *)
(* when the list is empty; the nodes whose next-pointer changes are the    *)
(* new one and one of the list.                                            *)
LEMMA InsertIInv ==
  ASSUME IInv, NEW h \in Queue, NEW n \in Node, Free(n), order' \in [Node -> Order],
         NEW at, NEW e \in {head[h], n},
         head[h] # NULL => at \in Node /\ home[at] = h,
         e = n => at = head[h],
         Becomes(h, IF head[h] = NULL THEN LinkAlone(List(h), n)
                    ELSE [LinkBefore(List(h), n, at) EXCEPT !.head = e], n, h)
  PROVE  IInv'
  <1> DEFINE l == List(h)
             q == [home EXCEPT ![n] = h]
             m == LinkBefore(l, n, at)
             me == [m EXCEPT !.head = e]
  <1>1. /\ l \in ListOver(Node, Node) /\ home \in Homes
        /\ Sound(l, home) /\ Holds(l, home, h)
    BY ListTypes
  <1>2. home[n] = NULL /\ l.head = head[h] /\ l.next = next /\ l.prev = prev
    BY DEF Free, IInv, Sound, Heap, List
  <1> HIDE DEF l
  <1>3. CASE head[h] = NULL
    <2>1. /\ LinkAlone(l, n) \in ListOver(Node, Node)
          /\ Sound(LinkAlone(l, n), q) /\ Holds(LinkAlone(l, n), q, h)
      BY <1>1, <1>2, <1>3, LinkAloneType, LinkAloneSound, LinkAloneHolds
    <2>2. \A x \in Node : home[x] \notin {h, NULL} => LinkAlone(l, n).next[x] = next[x]
      BY <1>1, <1>2 DEF LinkAlone, ListOver
    <2>3. Becomes(h, LinkAlone(l, n), n, h)
      BY <1>3 DEF l
    <2> HIDE DEF q
    <2> QED BY <1>2, <2>1, <2>2, <2>3, StepIInv DEF q
  <1>4. CASE head[h] # NULL
    <2>1. m \in ListOver(Node, Node) /\ Sound(m, q) /\ Holds(me, q, h)
      BY <1>1, <1>2, <1>4, LinkBeforeType, LinkBeforeSound, LinkBeforeHolds
    <2>2. e \in Node
      BY <1>1, <1>2, <1>4 DEF ListOver
    <2>3. \A x \in Node : home[x] \notin {h, NULL} => m.next[x] = next[x]
      <3>1. prev[at] \in Node /\ home[prev[at]] = h
        BY <1>1, <1>2, <1>4, NodeAssumption DEF Sound, ListOver
      <3> QED BY <1>1, <1>2, <1>4, <3>1 DEF LinkBefore, ListOver
    <2> HIDE DEF m
    <2>4. me \in ListOver(Node, Node) /\ Sound(me, q) /\ me.next = m.next
      BY <2>1, <2>2 DEF ListOver, Sound
    <2>5. Becomes(h, me, n, h)
      BY <1>4 DEF l, m
    <2>6. \A x \in Node : home[x] \notin {h, NULL} => me.next[x] = next[x]
      BY <2>3, <2>4
    <2> HIDE DEF me, q
    <2>7. Holds(me, q, h) /\ home[n] \in {h, NULL}
      BY <1>2, <2>1
    <2> QED BY <2>4, <2>5, <2>6, <2>7, StepIInv DEF q
  <1> QED BY <1>3, <1>4

LEMMA AddIInv ==
  ASSUME IInv, NEW h \in Queue, NEW n \in Node, Add(h, n)
  PROVE  IInv'
  <1>1. List(h).head = head[h] /\ List(h) \in ListOver(Node, Node)
    BY ListTypes DEF List
  <1>2. head[h] # NULL => head[h] \in Node /\ home[head[h]] = h
    BY <1>1, ListTypes DEF Holds, ListOver
  <1>3. head[h] # NULL =>
          LinkBefore(List(h), n, head[h])
            = [LinkBefore(List(h), n, head[h]) EXCEPT !.head = head[h]]
    BY <1>1 DEF LinkBefore, ListOver
  <1>4. Becomes(h, IF head[h] = NULL THEN LinkAlone(List(h), n)
                   ELSE [LinkBefore(List(h), n, head[h]) EXCEPT !.head = head[h]], n, h)
    BY <1>1, <1>3 DEF Add, AddNodeTail
  <1>5. order' \in [Node -> Order] /\ Free(n)
    BY DEF Add, IInv, TypeOK
  <1> QED BY <1>2, <1>4, <1>5, InsertIInv

LEMMA AddInOrderIInv ==
  ASSUME IInv, NEW h \in Queue, NEW n \in Node, NEW v \in Order, AddInOrder(h, n, v)
  PROVE  IInv'
  <1> DEFINE l == List(h)
             at == IF order'[head[h]] > order'[n] THEN head[h]
                   ELSE InsertionPoint(l, n, order')
             e == IF order'[head[h]] > order'[n] THEN n ELSE head[h]
  <1>1. l.head = head[h] /\ l \in ListOver(Node, Node) /\ Holds(l, home, h)
    BY ListTypes DEF List
  <1>2. head[h] # NULL => head[h] \in Node /\ home[head[h]] = h
    BY <1>1 DEF Holds, ListOver
  <1>3. head[h] # NULL => at \in Node /\ home[at] = h
    <2>1. InsertionPoint(l, n, order') \in Of(home, h) \cup {head[h]}
      BY <1>1, InsertionPointMember DEF Holds
    <2> QED BY <1>2, <2>1 DEF Of
  <1>4. order' \in [Node -> Order] /\ Free(n)
    BY DEF AddInOrder, IInv, TypeOK
  <1>5. AddNodeOrdered(l, n, order')
          = IF head[h] = NULL THEN LinkAlone(l, n)
            ELSE [LinkBefore(l, n, at) EXCEPT !.head = e]
    <2>1. \A x : LinkBefore(l, n, x) = [LinkBefore(l, n, x) EXCEPT !.head = head[h]]
      BY <1>1 DEF LinkBefore, ListOver
    <2> HIDE DEF l
    <2> QED BY <1>1, <2>1, Zenon DEF AddNodeOrdered
  <1>6. Becomes(h, IF head[h] = NULL THEN LinkAlone(l, n)
                   ELSE [LinkBefore(l, n, at) EXCEPT !.head = e], n, h)
    BY <1>5, Zenon DEF AddInOrder
  <1>7. e \in {head[h], n} /\ (e = n => at = head[h])
    <2>1. head[h] # n
      BY <1>2, <1>4, NodeAssumption DEF Free, IInv, Sound, Heap
    <2> QED BY <2>1
  <1> HIDE DEF at, e
  <1> QED BY <1>3, <1>4, <1>6, <1>7, InsertIInv DEF l

LEMMA RemoveIInv ==
  ASSUME IInv, NEW h \in Queue, NEW n \in Node, Remove(h, n)
  PROVE  IInv'
  <1> DEFINE l == List(h)
             m == RemoveNode(l, n)
             q == [home EXCEPT ![n] = NULL]
  <1>1. /\ l \in ListOver(Node, Node) /\ home \in Homes
        /\ Sound(l, home) /\ Holds(l, home, h) /\ l.next = next /\ l.prev = prev
    BY ListTypes DEF List
  <1>2. m \in ListOver(Node, Node) /\ Sound(m, q)
    BY <1>1, RemoveNodeType, RemoveNodeSound
  <1>3. CASE home[n] = NULL
    <2>1. m = l /\ q = home
      BY <1>1, <1>3 DEF RemoveNode, Unlinked, Sound, Homes
    <2>2. Becomes(h, m, n, NULL) /\ order' \in [Node -> Order]
      BY DEF Remove, IInv, TypeOK
    <2>3. Holds(m, q, h) /\ m.next = next
      BY <1>1, <2>1
    <2> HIDE DEF m, q
    <2> QED BY <1>2, <1>3, <2>2, <2>3, StepIInv DEF q
  <1>4. CASE home[n] = h
    <2>1. Holds(m, q, h)
      BY <1>1, <1>4, RemoveNodeHolds
    <2>2. \A x \in Node : home[x] \notin {h, NULL} => m.next[x] = next[x]
      <3>1. prev[n] \in Node /\ home[prev[n]] = h /\ next[n] \in Node
        BY <1>1, <1>4, NodeAssumption DEF Sound, ListOver
      <3> QED BY <1>1, <1>4, <3>1 DEF RemoveNode, Bypass, ListOver
    <2>3. Becomes(h, m, n, NULL) /\ order' \in [Node -> Order]
      BY DEF Remove, IInv, TypeOK
    <2> HIDE DEF m, q
    <2> QED BY <1>2, <1>4, <2>1, <2>2, <2>3, StepIInv DEF q
  <1> QED BY <1>3, <1>4 DEF Remove

LEMMA NextIInv == IInv /\ [Next]_vars => IInv'
  <1> SUFFICES ASSUME IInv, [Next]_vars PROVE IInv'
    OBVIOUS
  <1>1. CASE UNCHANGED vars
    BY <1>1 DEF vars, IInv, TypeOK, Sound, Heap, Holds, Of, List
  <1>2. CASE Next
    BY <1>2, AddIInv, AddInOrderIInv, RemoveIInv, NodeAssumption DEF Next
  <1> QED BY <1>1, <1>2

LEMMA Invariance == Spec => []IInv
  BY InitIInv, NextIInv, PTL DEF Spec

(* No operation stores a pointer to anything but a node or NULL.           *)
THEOREM TypeCorrect == Spec => []TypeOK
  BY Invariance, IInvImplies, PTL

(* After any sequence of insertions and removals on any number of lists,   *)
(* prev and next are inverse to each other, never lead from one list into  *)
(* another, and are NULL just for the nodes in no list (common.c:26-88).   *)
THEOREM LinksAreSound == Spec => []LinksSound
  BY Invariance, IInvImplies, PTL

(* Each list is a closed ring of exactly the nodes that were added to it   *)
(* and not removed since: none is lost and none is left over.              *)
THEOREM RingsAreClosed == Spec => []RingsClosed
  BY Invariance, IInvImplies, PTL
=============================================================================
