--------------------------- MODULE StructureProofs --------------------------
(***************************************************************************)
(* What the operators of the kernel's two data structures do: the bitmap   *)
(* of core/scheduler.c, for every width of a byte and every number of      *)
(* bytes, and the linked lists of core/common.c, for any nodes.            *)
(***************************************************************************)
EXTENDS ReadyBits, NodeList, FiniteSetTheorems, WellFoundedInduction, TLAPS

-----------------------------------------------------------------------------
(* The two-level bitmap. *)

(* The row and the column of a priority lie in the table and determine it  *)
(* (scheduler.c:114-117: the shift and the mask).                          *)
LEMMA RowColumn ==
  ASSUME NEW p \in Priority
  PROVE  /\ Row(p) \in Rows /\ Column(p) \in Bits
         /\ p = Row(p) * WIDTH + Column(p)
  <1>1. p \in Nat /\ WIDTH \in Nat \ {0} /\ BYTES \in Nat
    BY BitmapAssumption DEF Priority
  <1>2. Column(p) \in Bits
    BY <1>1 DEF Column, Bits
  <1>3. Row(p) \in Rows
    BY <1>1 DEF Priority, Row, Rows
  <1>4. p = (p \div WIDTH) * WIDTH + (p % WIDTH)
    BY <1>1
  <1> QED BY <1>2, <1>3, <1>4 DEF Row, Column

(* Priorities of the same row and column are the same.                     *)
LEMMA SameBit ==
  ASSUME NEW p \in Priority, NEW q \in Priority
  PROVE  p = q <=> Row(p) = Row(q) /\ Column(p) = Column(q)
  BY RowColumn

(* A bit of the table is the bit of a priority (scheduler.c:107: the two   *)
(* parts put together again).                                              *)
LEMMA BitIsPriority ==
  ASSUME NEW y \in Rows, NEW x \in Bits
  PROVE  /\ y * WIDTH + x \in Priority
         /\ Row(y * WIDTH + x) = y /\ Column(y * WIDTH + x) = x
  <1> DEFINE p == y * WIDTH + x
  <1>1. WIDTH \in Nat \ {0} /\ BYTES \in Nat
    BY BitmapAssumption
  <1>2. p \in Priority
    BY <1>1 DEF Priority, Rows, Bits
  <1>3. Row(p) * WIDTH + Column(p) = y * WIDTH + x /\ Row(p) \in Rows /\ Column(p) \in Bits
    BY <1>2, RowColumn
  <1> HIDE DEF p
  <1>4. \A r \in Rows, c \in Bits : r * WIDTH + c = y * WIDTH + x => r = y /\ c = x
    BY <1>1 DEF Rows, Bits
  <1> QED BY <1>2, <1>3, <1>4 DEF p

(* _os_unmap_table gives the least bit of a byte that is not 0             *)
(* (scheduler.c:24-47).                                                    *)
LEMMA UnmapLeast ==
  ASSUME NEW byte \in SUBSET Nat, byte # {}
  PROVE  Unmap(byte) \in byte /\ \A j \in byte : Unmap(byte) <= j
  <1> DEFINE less == OpToRel(<, Nat)
  <1>1. \E i \in byte : \A j \in byte : <<j, i>> \notin less
    <2>1. IsWellFoundedOn(less, Nat)
      BY NatLessThanWellFounded
    <2> HIDE DEF less
    <2> QED BY <2>1, WFMin, Zenon
  <1>2. \A i, j \in Nat : <<j, i>> \notin less => i <= j
    BY DEF OpToRel
  <1> HIDE DEF less
  <1>3. \E i \in byte : \A j \in byte : i <= j
    BY <1>1, <1>2
  <1> QED BY <1>3 DEF Unmap

-----------------------------------------------------------------------------
(* What one call does to a consistent bitmap. *)

(* _os_set_ready marks its priority and no other, and keeps the group byte *)
(* a summary of the table (scheduler.c:111-118).                           *)
LEMMA SetReadyCorrect ==
  ASSUME NEW b \in Bitmap, NEW p \in Priority, GroupSummarises(b)
  PROVE  /\ SetReady(b, p) \in Bitmap
         /\ GroupSummarises(SetReady(b, p))
         /\ ReadyPriorities(SetReady(b, p)) = ReadyPriorities(b) \cup {p}
  <1> DEFINE c == SetReady(b, p)
  <1>1. Row(p) \in Rows /\ Column(p) \in Bits
    BY RowColumn
  <1>2. c.group = b.group \cup {Row(p)} /\ c.table \in [Rows -> SUBSET Bits]
    BY <1>1 DEF SetReady, Bitmap
  <1>3. \A y \in Rows : c.table[y] = IF y = Row(p) THEN b.table[y] \cup {Column(p)}
                                     ELSE b.table[y]
    BY <1>1 DEF SetReady, Bitmap
  <1>4. c \in Bitmap
    BY <1>1 DEF SetReady, Bitmap
  <1>5. GroupSummarises(c)
    BY <1>1, <1>2, <1>3 DEF GroupSummarises
  <1>6. ASSUME NEW q \in Priority
        PROVE  Column(q) \in c.table[Row(q)] <=> Column(q) \in b.table[Row(q)] \/ q = p
    <2>1. Row(q) \in Rows /\ (p = q <=> Row(p) = Row(q) /\ Column(p) = Column(q))
      BY RowColumn, SameBit
    <2> HIDE DEF c
    <2> QED BY <1>3, <2>1
  <1>7. ReadyPriorities(c) = ReadyPriorities(b) \cup {p}
    BY <1>6 DEF ReadyPriorities
  <1> QED BY <1>4, <1>5, <1>7

(* _os_unset_ready clears its priority and no other, whether it was marked *)
(* or not, and the group bit goes only with the last bit of the row        *)
(* (scheduler.c:121-129).                                                  *)
LEMMA UnsetReadyCorrect ==
  ASSUME NEW b \in Bitmap, NEW p \in Priority, GroupSummarises(b)
  PROVE  /\ UnsetReady(b, p) \in Bitmap
         /\ GroupSummarises(UnsetReady(b, p))
         /\ ReadyPriorities(UnsetReady(b, p)) = ReadyPriorities(b) \ {p}
  <1> DEFINE c == UnsetReady(b, p)
             byte == b.table[Row(p)] \ {Column(p)}
  <1>1. Row(p) \in Rows /\ Column(p) \in Bits
    BY RowColumn
  <1>2. c.group = IF byte = {} THEN b.group \ {Row(p)} ELSE b.group
    BY DEF UnsetReady
  <1>3. \A y \in Rows : c.table[y] = IF y = Row(p) THEN byte ELSE b.table[y]
    BY <1>1 DEF UnsetReady, Bitmap
  <1>4. c \in Bitmap
    BY <1>1 DEF UnsetReady, Bitmap
  <1>5. GroupSummarises(c)
    BY <1>1, <1>2, <1>3 DEF GroupSummarises
  <1>6. ASSUME NEW q \in Priority
        PROVE  Column(q) \in c.table[Row(q)] <=> Column(q) \in b.table[Row(q)] /\ q # p
    BY <1>3, RowColumn, SameBit
  <1>7. ReadyPriorities(c) = ReadyPriorities(b) \ {p}
    BY <1>6 DEF ReadyPriorities
  <1> QED BY <1>4, <1>5, <1>7

(* On a consistent bitmap the two lookups find the least marked priority   *)
(* (scheduler.c:103-108).                                                  *)
LEMMA HighestPriorityCorrect ==
  ASSUME NEW b \in Bitmap, GroupSummarises(b), ReadyPriorities(b) # {}
  PROVE  /\ HighestPriority(b) \in ReadyPriorities(b)
         /\ \A p \in ReadyPriorities(b) : HighestPriority(b) <= p
  <1> DEFINE y == Unmap(b.group)
             x == Unmap(b.table[y])
  <1>1. \A p \in ReadyPriorities(b) : /\ p \in Priority /\ Row(p) \in b.group
                                      /\ Column(p) \in b.table[Row(p)]
    BY RowColumn DEF ReadyPriorities, GroupSummarises
  <1>2. b.group # {} /\ b.group \in SUBSET Nat
    BY <1>1 DEF Bitmap, Rows
  <1>3. y \in b.group /\ \A j \in b.group : y <= j
    BY <1>2, UnmapLeast
  <1>4. y \in Rows /\ b.table[y] # {} /\ b.table[y] \in SUBSET Bits /\ b.table[y] \in SUBSET Nat
    <2>1. y \in Rows /\ b.table[y] # {}
      BY <1>3 DEF GroupSummarises
    <2>2. Bits \subseteq Nat
      BY BitmapAssumption DEF Bits
    <2> HIDE DEF y
    <2> QED BY <2>1, <2>2 DEF Bitmap
  <1>5. x \in b.table[y] /\ \A j \in b.table[y] : x <= j
    BY <1>4, UnmapLeast
  <1>6. HighestPriority(b) = y * WIDTH + x /\ x \in Bits
    BY <1>4, <1>5 DEF HighestPriority
  <1>7. HighestPriority(b) \in ReadyPriorities(b)
    BY <1>4, <1>5, <1>6, BitIsPriority DEF ReadyPriorities
  <1> HIDE DEF y, x
  <1>8. ASSUME NEW p \in ReadyPriorities(b)
        PROVE  y * WIDTH + x <= p
    <2>1. p = Row(p) * WIDTH + Column(p) /\ Row(p) \in Rows /\ Column(p) \in Bits
      BY <1>1, RowColumn
    <2>2. y <= Row(p) /\ (y = Row(p) => x <= Column(p))
      BY <1>1, <1>3, <1>5
    <2>3. WIDTH \in Nat \ {0}
      BY BitmapAssumption
    <2>4. \A r \in Rows, c \in Bits : y <= r /\ (y = r => x <= c)
                                      => y * WIDTH + x <= r * WIDTH + c
      BY <1>4, <1>6, <2>3 DEF Rows, Bits
    <2> QED BY <2>1, <2>2, <2>4
  <1> QED BY <1>6, <1>7, <1>8

(* The answer is a priority also when none is marked: the index of the     *)
(* ready queue that eos_schedule reads is in range (scheduler.c:105-107).  *)
LEMMA HighestPriorityType ==
  ASSUME NEW b \in Bitmap
  PROVE  HighestPriority(b) \in Priority
  <1>1. Rows \subseteq Nat /\ Bits \subseteq Nat /\ 0 \in Rows /\ 0 \in Bits
    BY BitmapAssumption DEF Rows, Bits
  <1>2. ASSUME NEW S, NEW byte \in SUBSET S, S \subseteq Nat, 0 \in S
        PROVE  Unmap(byte) \in S
    <2>1. CASE byte = {}
      BY <1>2, <2>1 DEF Unmap
    <2>2. CASE byte # {}
      BY <1>2, <2>2, UnmapLeast
    <2> QED BY <2>1, <2>2
  <1>3. Unmap(b.group) \in Rows
    BY <1>1, <1>2 DEF Bitmap
  <1>4. Unmap(b.table[Unmap(b.group)]) \in Bits
    BY <1>1, <1>2, <1>3 DEF Bitmap
  <1> QED BY <1>3, <1>4, BitIsPriority DEF HighestPriority

-----------------------------------------------------------------------------
(* The linked lists. *)

(* The lists over the heap of nodes T whose pointers lead to nodes in S.   *)
ListOver(T, S) ==
  [prev : [T -> S \cup {NULL}], next : [T -> S \cup {NULL}], head : S \cup {NULL}]

(* The nodes of a list lie in every set that has the head and is closed.   *)
LEMMA MembersClosed ==
  ASSUME NEW T, NEW l \in ListOver(T, T), NEW C \in SUBSET T, Closed(l, C)
  PROVE  Members(l) \subseteq C
  <1>1. DOMAIN l.next = T
    BY DEF ListOver
  <1> QED BY <1>1, Zenon DEF Members

(* The node the ordered insertion stops at is a node of the list           *)
(* (common.c:47-56).                                                       *)
LEMMA InsertionPointMember ==
  ASSUME NEW l, NEW n, NEW ord
  PROVE  InsertionPoint(l, n, ord) \in Members(l) \cup {l.head}
  BY Zenon DEF InsertionPoint

LEMMA InsertionPointType ==
  ASSUME NEW T, NEW S \in SUBSET T, NEW l \in ListOver(T, S), NEW n \in S, NEW ord,
         l.head # NULL
  PROVE  InsertionPoint(l, n, ord) \in S
  <1>1. l \in ListOver(T, T) /\ Closed(l, S)
    BY DEF ListOver, Closed
  <1>2. Members(l) \subseteq S /\ l.head \in S
    BY <1>1, MembersClosed DEF Closed
  <1> QED BY <1>2, InsertionPointMember

(* Linking in a new node leaves no pointer to a node outside S + the new.  *)
LEMMA LinkBeforeType ==
  ASSUME NEW T, NEW S \in SUBSET T, NEW l \in ListOver(T, S), NEW n \in S, NEW at \in S
  PROVE  LinkBefore(l, n, at) \in ListOver(T, S)
  BY DEF LinkBefore, ListOver

LEMMA LinkAloneType ==
  ASSUME NEW T, NEW S \in SUBSET T, NEW l \in ListOver(T, S), NEW n \in S
  PROVE  LinkAlone(l, n) \in ListOver(T, S)
  BY DEF LinkAlone, ListOver

(* _os_add_node_tail (common.c:26-38) *)
LEMMA AddNodeTailType ==
  ASSUME NEW T, NEW S \in SUBSET T, NEW l \in ListOver(T, S), NEW n \in S
  PROVE  AddNodeTail(l, n) \in ListOver(T, S)
  <1>1. CASE l.head = NULL
    BY <1>1, LinkAloneType DEF AddNodeTail
  <1>2. CASE l.head # NULL
    <2>1. l.head \in S
      BY <1>2 DEF ListOver
    <2> QED BY <1>2, <2>1, LinkBeforeType DEF AddNodeTail
  <1> QED BY <1>1, <1>2

(* _os_add_node_ordered (common.c:42-66) *)
LEMMA AddNodeOrderedType ==
  ASSUME NEW T, NEW S \in SUBSET T, NEW l \in ListOver(T, S), NEW n \in S, NEW ord
  PROVE  AddNodeOrdered(l, n, ord) \in ListOver(T, S)
  <1>1. CASE l.head = NULL
    BY <1>1, LinkAloneType DEF AddNodeOrdered
  <1>2. CASE l.head # NULL
    <2>1. l.head \in S /\ InsertionPoint(l, n, ord) \in S
      BY <1>2, InsertionPointType DEF ListOver
    <2>2. /\ LinkBefore(l, n, InsertionPoint(l, n, ord)) \in ListOver(T, S)
          /\ LinkBefore(l, n, l.head) \in ListOver(T, S)
      BY <2>1, LinkBeforeType
    <2>3. [LinkBefore(l, n, l.head) EXCEPT !.head = n] \in ListOver(T, S)
      BY <2>2 DEF ListOver
    <2> QED BY <1>2, <2>2, <2>3 DEF AddNodeOrdered
  <1> QED BY <1>1, <1>2

(* _os_remove_node (common.c:69-88) *)
LEMMA RemoveNodeType ==
  ASSUME NEW T, NEW S \in SUBSET T, NEW l \in ListOver(T, S), NEW n \in T
  PROVE  RemoveNode(l, n) \in ListOver(T, S)
  <1> DEFINE out == IF l.next[n] = n THEN [l EXCEPT !.head = NULL] ELSE Bypass(l, n)
  <1>1. [l EXCEPT !.head = NULL] \in ListOver(T, S)
    BY DEF ListOver
  <1>2. ASSUME ~Unlinked(l, n) PROVE Bypass(l, n) \in ListOver(T, S)
    BY <1>2 DEF Unlinked, Bypass, ListOver
  <1>3. ASSUME NEW o \in ListOver(T, S)
        PROVE  [o EXCEPT !.next[n] = NULL, !.prev[n] = NULL] \in ListOver(T, S)
    BY DEF ListOver
  <1>4. CASE Unlinked(l, n)
    BY <1>4 DEF RemoveNode
  <1>5. CASE ~Unlinked(l, n)
    <2>1. out \in ListOver(T, S)
      BY <1>1, <1>2, <1>5
    <2> QED BY <1>3, <1>5, <2>1 DEF RemoveNode
  <1> QED BY <1>4, <1>5

-----------------------------------------------------------------------------
(* The contents of a list.  The nodes of a ring are the least set that has *)
(* the head and is closed under next: an induction over the ring becomes a *)
(* choice of such a set.                                                   *)

(* l is a sound ring, and S the set of its nodes. *)
RingOf(l, S) ==
  /\ IF l.head = NULL THEN S = {} ELSE l.head \in S
  /\ \A x \in S : /\ l.next[x] \in S /\ l.prev[x] \in S
                  /\ l.prev[l.next[x]] = x /\ l.next[l.prev[x]] = x
  /\ \A C \in SUBSET S : l.head \in C /\ (\A x \in C : l.next[x] \in C) => C = S

LEMMA RingMembers ==
  ASSUME NEW T, NULL \notin T, NEW l \in ListOver(T, T), NEW S \in SUBSET T, RingOf(l, S)
  PROVE  Members(l) = S /\ WellFormed(l)
  <1>1. Members(l) = S
    <2>1. CASE l.head = NULL
      BY <2>1 DEF Members, RingOf
    <2>2. CASE l.head # NULL
      <3>1. Members(l) \subseteq S
        <4>1. Closed(l, S)
          BY <2>2 DEF RingOf, Closed
        <4> QED BY <4>1, MembersClosed
      <3>2. ASSUME NEW C \in SUBSET T, Closed(l, C)
            PROVE  S \subseteq C
        <4> DEFINE D == C \cap S
        <4>1. l.head \in D
          BY <2>2, <3>2 DEF Closed, RingOf
        <4>2. \A x \in D : l.next[x] \in D
          BY <3>2 DEF Closed, RingOf
        <4>3. D = S
          BY <4>1, <4>2 DEF RingOf
        <4> QED BY <4>3
      <3>3. DOMAIN l.next = T
        BY DEF ListOver
      <3>4. S \subseteq Members(l)
        BY <2>2, <3>2, <3>3 DEF Members
      <3> QED BY <3>1, <3>4
    <2> QED BY <2>1, <2>2
  <1>2. \A n \in S : l.next[n] # NULL /\ l.prev[l.next[n]] = n
    BY DEF RingOf
  <1> QED BY <1>1, <1>2 DEF WellFormed

(* What a call does to the nodes of a list leaves every other list alone.  *)
LEMMA RingKept ==
  ASSUME NEW S, NEW l, RingOf(l, S), NEW m, m.head = l.head,
         \A x \in S : m.next[x] = l.next[x] /\ m.prev[x] = l.prev[x]
  PROVE  RingOf(m, S)
  <1>1. \A x \in S : /\ m.next[x] \in S /\ m.prev[x] \in S
                     /\ m.prev[m.next[x]] = x /\ m.next[m.prev[x]] = x
    BY DEF RingOf
  <1>2. ASSUME NEW C \in SUBSET S, m.head \in C, \A x \in C : m.next[x] \in C
        PROVE  C = S
    BY <1>2 DEF RingOf
  <1> QED BY <1>1, <1>2 DEF RingOf

(* The links that one call may change are those of the list it is called   *)
(* for and of the node.                                                    *)
LinksKept(l, m, T, S) ==
  \A x \in T \ S : m.next[x] = l.next[x] /\ m.prev[x] = l.prev[x]

(* Linking a node in before a node of the ring (common.c:29-32, 57-60).    *)
LEMMA LinkBeforeRing ==
  ASSUME NEW T, NULL \notin T, NEW l \in ListOver(T, T), NEW S \in SUBSET T, RingOf(l, S),
         NEW n \in T \ S, NEW at \in S, NEW h \in T, h = l.head \/ (at = l.head /\ h = n),
         NEW m, m.prev = LinkBefore(l, n, at).prev, m.next = LinkBefore(l, n, at).next,
         m.head = h
  PROVE  RingOf(m, S \cup {n}) /\ LinksKept(l, m, T, S \cup {n})
  <1> DEFINE before == l.prev[at]
  <1>1. before \in S /\ at # n /\ before # n /\ l.next[before] = at /\ l.head \in S
    BY DEF RingOf, ListOver
  <1>2. /\ m.prev = [[l.prev EXCEPT ![n] = before] EXCEPT ![at] = n]
        /\ m.next = [[l.next EXCEPT ![before] = n] EXCEPT ![n] = at]
    BY <1>1 DEF LinkBefore, ListOver
  <1> HIDE DEF before
  <1>3. \A x \in T :
          /\ m.prev[x] = IF x = at THEN n ELSE IF x = n THEN before ELSE l.prev[x]
          /\ m.next[x] = IF x = n THEN at ELSE IF x = before THEN n ELSE l.next[x]
    BY <1>1, <1>2 DEF ListOver
  <1>4. \A x \in S : /\ l.next[x] \in S /\ l.prev[x] \in S
                     /\ l.prev[l.next[x]] = x /\ l.next[l.prev[x]] = x
    BY DEF RingOf
  <1>5. ASSUME NEW x \in S \cup {n}
        PROVE  /\ m.next[x] \in S \cup {n} /\ m.prev[x] \in S \cup {n}
               /\ m.prev[m.next[x]] = x /\ m.next[m.prev[x]] = x
    <2>1. l.prev[at] = before
      BY DEF before
    <2>2. x \in T /\ before \in T /\ at \in T
      BY <1>1
    <2>3. CASE x = n
      BY <1>1, <1>3, <2>2, <2>3
    <2>4. CASE x # n
      <3>1. /\ x \in S /\ l.next[x] \in S /\ l.prev[x] \in S /\ l.next[x] # n /\ l.prev[x] # n
            /\ l.next[x] \in T /\ l.prev[x] \in T
            /\ l.prev[l.next[x]] = x /\ l.next[l.prev[x]] = x
        BY <1>4, <2>4
      <3>2. l.next[x] = at => x = before
        BY <2>1, <3>1
      <3>3. l.prev[x] = before => x = at
        BY <1>1, <3>1
      <3> QED BY <1>1, <1>3, <2>1, <2>2, <2>4, <3>1, <3>2, <3>3
    <2> QED BY <2>3, <2>4
  <1>6. ASSUME NEW C \in SUBSET (S \cup {n}), m.head \in C, \A x \in C : m.next[x] \in C
        PROVE  C = S \cup {n}
    <2> DEFINE D == C \ {n}
    <2>1. n \in C => at \in C
      BY <1>3, <1>6
    <2>2. l.head \in D
      BY <1>1, <1>6, <2>1
    <2>3. ASSUME NEW x \in D PROVE l.next[x] \in D
      <3>1. x \in T /\ x \in S /\ x \in C /\ x # n /\ m.next[x] \in C
        BY <1>6
      <3>2. m.next[x] = IF x = before THEN n ELSE l.next[x]
        BY <1>3, <3>1
      <3>3. l.next[x] \in S
        BY <1>4, <3>1
      <3> QED BY <1>1, <2>1, <3>1, <3>2, <3>3
    <2>4. D \in SUBSET S
      OBVIOUS
    <2>5. D = S
      BY <2>2, <2>3, <2>4 DEF RingOf
    <2>6. n \in C
      BY <1>1, <1>3, <1>6, <2>5
    <2> QED BY <2>5, <2>6
  <1>7. RingOf(m, S \cup {n})
    <2>1. m.head # NULL /\ m.head \in S \cup {n}
      BY <1>1
    <2> QED BY <1>5, <1>6, <2>1 DEF RingOf
  <1>8. LinksKept(l, m, T, S \cup {n})
    BY <1>1, <1>3 DEF LinksKept
  <1> QED BY <1>7, <1>8

(* The first node of a list is linked to itself (common.c:34-36, 62-64).   *)
LEMMA LinkAloneRing ==
  ASSUME NEW T, NULL \notin T, NEW l \in ListOver(T, T), NEW n \in T
  PROVE  RingOf(LinkAlone(l, n), {n}) /\ LinksKept(l, LinkAlone(l, n), T, {n})
  <1> DEFINE m == LinkAlone(l, n)
  <1>1. m.head = n /\ m.next[n] = n /\ m.prev[n] = n
    BY DEF LinkAlone, ListOver
  <1>2. LinksKept(l, m, T, {n})
    BY DEF LinkAlone, ListOver, LinksKept
  <1> HIDE DEF m
  <1>3. RingOf(m, {n})
    BY <1>1 DEF RingOf
  <1> QED BY <1>2, <1>3 DEF m

(* _os_add_node_tail adds its node, and no other (common.c:26-38).         *)
LEMMA AddNodeTailRing ==
  ASSUME NEW T, NULL \notin T, NEW l \in ListOver(T, T), NEW S \in SUBSET T, RingOf(l, S),
         NEW n \in T \ S
  PROVE  /\ RingOf(AddNodeTail(l, n), S \cup {n})
         /\ LinksKept(l, AddNodeTail(l, n), T, S \cup {n})
         /\ AddNodeTail(l, n).head # NULL
  <1>1. CASE l.head = NULL
    <2>1. S = {} /\ S \cup {n} = {n} /\ AddNodeTail(l, n) = LinkAlone(l, n)
      BY <1>1 DEF RingOf, AddNodeTail
    <2>2. LinkAlone(l, n).head # NULL
      BY DEF LinkAlone
    <2> QED BY <2>1, <2>2, LinkAloneRing
  <1>2. CASE l.head # NULL
    <2>1. l.head \in S /\ l.head \in T
      BY <1>2 DEF RingOf
    <2>2. PICK m : m = LinkBefore(l, n, l.head)
      OBVIOUS
    <2>3. AddNodeTail(l, n) = m /\ m.head = l.head
      BY <1>2, <2>2 DEF AddNodeTail, LinkBefore, ListOver
    <2>4. RingOf(m, S \cup {n}) /\ LinksKept(l, m, T, S \cup {n})
      BY <2>1, <2>2, <2>3, LinkBeforeRing
    <2> QED BY <1>2, <2>3, <2>4
  <1> QED BY <1>1, <1>2

(* _os_add_node_ordered adds its node, wherever the loop stops             *)
(* (common.c:42-66).                                                       *)
LEMMA AddNodeOrderedRing ==
  ASSUME NEW T, NULL \notin T, NEW l \in ListOver(T, T), NEW S \in SUBSET T, RingOf(l, S),
         NEW n \in T \ S, NEW ord
  PROVE  /\ RingOf(AddNodeOrdered(l, n, ord), S \cup {n})
         /\ LinksKept(l, AddNodeOrdered(l, n, ord), T, S \cup {n})
  <1>1. CASE l.head = NULL
    <2>1. S = {} /\ S \cup {n} = {n} /\ AddNodeOrdered(l, n, ord) = LinkAlone(l, n)
      BY <1>1 DEF RingOf, AddNodeOrdered
    <2> QED BY <2>1, LinkAloneRing
  <1>2. CASE l.head # NULL /\ ord[l.head] > ord[n]
    <2>1. l.head \in S /\ l.head \in T
      BY <1>2 DEF RingOf
    <2>2. PICK m : m = AddNodeOrdered(l, n, ord)
      OBVIOUS
    <2>3. /\ m.prev = LinkBefore(l, n, l.head).prev /\ m.next = LinkBefore(l, n, l.head).next
          /\ m.head = n
      BY <1>2, <2>2 DEF AddNodeOrdered, LinkBefore, ListOver
    <2>4. RingOf(m, S \cup {n}) /\ LinksKept(l, m, T, S \cup {n})
      BY <2>1, <2>3, LinkBeforeRing
    <2> QED BY <2>2, <2>4
  <1>3. CASE l.head # NULL /\ ~(ord[l.head] > ord[n])
    <2>1. l.head \in S /\ l.head \in T
      BY <1>3 DEF RingOf
    <2>2. PICK at : at = InsertionPoint(l, n, ord)
      OBVIOUS
    <2>3. at \in S
      BY <2>1, <2>2, InsertionPointMember, RingMembers
    <2>4. PICK m : m = LinkBefore(l, n, at)
      OBVIOUS
    <2>5. AddNodeOrdered(l, n, ord) = m /\ m.head = l.head
      BY <1>3, <2>2, <2>4 DEF AddNodeOrdered, LinkBefore, ListOver
    <2>6. RingOf(m, S \cup {n}) /\ LinksKept(l, m, T, S \cup {n})
      BY <2>1, <2>3, <2>4, <2>5, LinkBeforeRing
    <2> QED BY <2>5, <2>6
  <1> QED BY <1>1, <1>2, <1>3

(* _os_remove_node removes its node, and no other (common.c:69-88).        *)
LEMMA RemoveNodeRing ==
  ASSUME NEW T, NULL \notin T, NEW l \in ListOver(T, T), NEW S \in SUBSET T, RingOf(l, S),
         NEW n \in S
  PROVE  /\ RingOf(RemoveNode(l, n), S \ {n})
         /\ LinksKept(l, RemoveNode(l, n), T, S)
         /\ RemoveNode(l, n).next[n] = NULL /\ RemoveNode(l, n).prev[n] = NULL
  <1> DEFINE m == RemoveNode(l, n)
             after == l.next[n]
             before == l.prev[n]
  <1>1. /\ n \in T /\ after \in S /\ before \in S /\ l.prev[after] = n /\ l.next[before] = n
        /\ l.head \in S /\ l.head \in T
    BY DEF RingOf
  <1>2. ~Unlinked(l, n)
    BY <1>1 DEF Unlinked
  <1>3. CASE after = n
    <2>1. before = n /\ S = {n}
      <3>1. before = n
        BY <1>1, <1>3 DEF RingOf
      <3>2. \A x \in S \ {n} : l.next[x] \in S \ {n}
        BY <1>3 DEF RingOf
      <3>3. l.head = n
        <4>1. S \ {n} \in SUBSET S /\ S \ {n} # S
          BY <1>1
        <4> QED BY <1>1, <3>2, <4>1 DEF RingOf
      <3>4. {n} \in SUBSET S /\ \A x \in {n} : l.next[x] \in {n}
        BY <1>3
      <3> QED BY <3>1, <3>3, <3>4 DEF RingOf
    <2>2. m = [[l EXCEPT !.head = NULL] EXCEPT !.next[n] = NULL, !.prev[n] = NULL]
      BY <1>2, <1>3 DEF RemoveNode
    <2>3. m.head = NULL /\ m.next[n] = NULL /\ m.prev[n] = NULL /\ LinksKept(l, m, T, S)
      BY <1>1, <2>2 DEF ListOver, LinksKept
    <2> HIDE DEF m
    <2>4. RingOf(m, {})
      BY <2>3 DEF RingOf
    <2>5. S \ {n} = {}
      BY <2>1
    <2> QED BY <2>3, <2>4, <2>5 DEF m
  <1>4. CASE after # n
    <2>1. before # n
      BY <1>1, <1>4
    <2>2. /\ m.next = [[l.next EXCEPT ![before] = after] EXCEPT ![n] = NULL]
          /\ m.prev = [[l.prev EXCEPT ![after] = before] EXCEPT ![n] = NULL]
          /\ m.head = IF n = l.head THEN after ELSE l.head
      BY <1>1, <1>2, <1>4, <2>1 DEF RemoveNode, Bypass, ListOver
    <2> HIDE DEF m
    <2>3. \A x \in T :
            /\ m.next[x] = IF x = n THEN NULL
                           ELSE IF x = before THEN after ELSE l.next[x]
            /\ m.prev[x] = IF x = n THEN NULL
                           ELSE IF x = after THEN before ELSE l.prev[x]
      BY <1>1, <2>2 DEF ListOver
    <2>4. \A x \in S : /\ l.next[x] \in S /\ l.prev[x] \in S
                       /\ l.prev[l.next[x]] = x /\ l.next[l.prev[x]] = x
      BY DEF RingOf
    <2>5. ASSUME NEW x \in S \ {n}
          PROVE  /\ m.next[x] \in S \ {n} /\ m.prev[x] \in S \ {n}
                 /\ m.prev[m.next[x]] = x /\ m.next[m.prev[x]] = x
      <3>1. /\ x \in T /\ x \in S /\ l.next[x] \in S /\ l.prev[x] \in S
            /\ l.prev[l.next[x]] = x /\ l.next[l.prev[x]] = x
        BY <2>4
      <3>2. l.next[x] = n => x = before
        BY <3>1
      <3>3. l.prev[x] = n => x = after
        BY <3>1
      <3>4. l.next[x] = after => x = n
        BY <1>1, <3>1
      <3>5. l.prev[x] = before => x = n
        BY <1>1, <3>1
      <3>6. m.next[x] = IF x = before THEN after ELSE l.next[x]
        BY <2>3, <3>1
      <3>7. m.prev[x] = IF x = after THEN before ELSE l.prev[x]
        BY <2>3, <3>1
      <3>8. m.next[x] \in S \ {n} /\ m.prev[m.next[x]] = x
        <4>1. CASE x = before
          BY <1>1, <1>4, <2>3, <3>6, <4>1
        <4>2. CASE x # before
          BY <2>3, <3>1, <3>2, <3>4, <3>6, <4>2
        <4> QED BY <4>1, <4>2
      <3>9. m.prev[x] \in S \ {n} /\ m.next[m.prev[x]] = x
        <4>1. CASE x = after
          BY <1>1, <2>1, <2>3, <3>7, <4>1
        <4>2. CASE x # after
          BY <2>3, <3>1, <3>3, <3>5, <3>7, <4>2
        <4> QED BY <4>1, <4>2
      <3> QED BY <3>8, <3>9
    <2>6. ASSUME NEW C \in SUBSET (S \ {n}), m.head \in C, \A x \in C : m.next[x] \in C
          PROVE  C = S \ {n}
      <3> DEFINE D == C \cup {n}
      <3>1. \A x \in C : x # n /\ x \in T /\ x \in S /\
                         m.next[x] = IF x = before THEN after ELSE l.next[x]
        BY <2>3
      <3>2. CASE before \in C \/ l.head = n
        <4>1. after \in C
          BY <2>2, <2>6, <3>1, <3>2
        <4>2. l.head \in D /\ \A x \in D : l.next[x] \in D
          BY <1>1, <2>2, <2>6, <3>1, <4>1
        <4>3. D \in SUBSET S
          OBVIOUS
        <4>4. D = S
          BY <4>2, <4>3 DEF RingOf
        <4> QED BY <4>4
      <3>3. CASE before \notin C /\ l.head # n
        <4>1. l.head \in C /\ \A x \in C : l.next[x] \in C
          BY <2>2, <2>6, <3>1, <3>3
        <4>2. C = S
          BY <4>1 DEF RingOf
        <4> QED BY <4>2
      <3> QED BY <3>2, <3>3
    <2>7. RingOf(m, S \ {n})
      <3>1. m.head # NULL /\ m.head \in S \ {n}
        BY <1>1, <1>4, <2>2
      <3> QED BY <2>5, <2>6, <3>1 DEF RingOf
    <2>8. LinksKept(l, m, T, S)
      BY <1>1, <2>3 DEF LinksKept
    <2>9. m.next[n] = NULL /\ m.prev[n] = NULL
      BY <1>1, <2>3
    <2> QED BY <2>7, <2>8, <2>9 DEF m
  <1> QED BY <1>3, <1>4

(* A node that is in no list is removed from none (common.c:71-73).        *)
LEMMA RemoveNodeUnlinked ==
  ASSUME NEW l, NEW n, l.next[n] = NULL
  PROVE  RemoveNode(l, n) = l
  BY DEF RemoveNode, Unlinked

-----------------------------------------------------------------------------
(* The order of a list. *)

(* Every set of natural numbers has a least one. *)
LEMMA LeastNat ==
  ASSUME NEW S \in SUBSET Nat, S # {}
  PROVE  \E i \in S : \A j \in S : i <= j
  <1> DEFINE less == OpToRel(<, Nat)
  <1>1. \E i \in S : \A j \in S : <<j, i>> \notin less
    <2>1. IsWellFoundedOn(less, Nat)
      BY NatLessThanWellFounded
    <2> HIDE DEF less
    <2> QED BY <2>1, WFMin, Zenon
  <1>2. \A i, j \in Nat : <<j, i>> \notin less => i <= j
    BY DEF OpToRel
  <1> HIDE DEF less
  <1> QED BY <1>1, <1>2

(* What Walk(l, a) is, for lists of N nodes. *)
WalkOf(l, a, N, g) ==
  g = [k \in 0 .. N |-> IF k = 0 THEN a
                        ELSE IF g[k - 1] = NULL THEN NULL ELSE l.next[g[k - 1]]]

(* The walk along the next-pointers is defined, as far as it goes.         *)
LEMMA WalkExists ==
  ASSUME NEW N \in Nat, NEW l, NEW a
  PROVE  \E g : WalkOf(l, a, N, g)
  <1> DEFINE Walks(g, n) == /\ g = [k \in 0 .. n |-> g[k]] /\ g[0] = a
                            /\ \A k \in 1 .. n :
                                 g[k] = IF g[k - 1] = NULL THEN NULL ELSE l.next[g[k - 1]]
             Stuck == {n \in Nat : ~\E g : Walks(g, n)}
  <1>1. Stuck = {}
    <2> SUFFICES ASSUME Stuck # {} PROVE FALSE
      OBVIOUS
    <2>1. PICK n \in Stuck : \A m \in Stuck : n <= m
      <3>1. Stuck \in SUBSET Nat
        OBVIOUS
      <3> HIDE DEF Stuck
      <3> QED BY <3>1, LeastNat
    <2>2. n \in Nat /\ ~\E g : Walks(g, n)
      OBVIOUS
    <2>3. n # 0
      <3>1. PICK g : g = [k \in 0 .. 0 |-> a]
        OBVIOUS
      <3>2. g[0] = a /\ g = [k \in 0 .. 0 |-> g[k]] /\ \A k \in 1 .. 0 : FALSE
        BY <3>1
      <3>3. Walks(g, 0)
        BY <3>2
      <3> QED BY <2>2, <3>3
    <2>4. n - 1 \in Nat /\ n - 1 \notin Stuck
      BY <2>1, <2>2, <2>3
    <2>5. PICK g : Walks(g, n - 1)
      BY <2>4
    <2>6. PICK h : h = [k \in 0 .. n |-> IF k = n
                                         THEN IF g[n - 1] = NULL THEN NULL ELSE l.next[g[n - 1]]
                                         ELSE g[k]]
      OBVIOUS
    <2>7. /\ \A k \in 0 .. n - 1 : h[k] = g[k]
          /\ h[n] = IF g[n - 1] = NULL THEN NULL ELSE l.next[g[n - 1]]
          /\ h = [k \in 0 .. n |-> h[k]]
      BY <2>2, <2>6
    <2>8. h[0] = a
      <3>1. 0 \in 0 .. n - 1
        BY <2>4
      <3> QED BY <2>5, <2>7, <3>1
    <2>9. ASSUME NEW k \in 1 .. n
          PROVE  h[k] = IF h[k - 1] = NULL THEN NULL ELSE l.next[h[k - 1]]
      <3>4. k - 1 \in 0 .. n - 1 /\ n \in Nat
        BY <2>2
      <3>1. h[k - 1] = g[k - 1]
        BY <2>7, <3>4
      <3>2. CASE k = n
        BY <2>7, <3>1, <3>2
      <3>3. CASE k # n
        <4>1. k \in 1 .. n - 1 /\ k \in 0 .. n - 1
          BY <3>3, <3>4
        <4> QED BY <2>5, <2>7, <3>1, <4>1
      <3> QED BY <3>2, <3>3
    <2>10. Walks(h, n)
      BY <2>7, <2>8, <2>9
    <2> QED BY <2>2, <2>10
  <1>2. PICK g : Walks(g, N)
    BY <1>1
  <1>3. g = [k \in 0 .. N |-> IF k = 0 THEN a
                             ELSE IF g[k - 1] = NULL THEN NULL ELSE l.next[g[k - 1]]]
    <2>1. \A k \in 0 .. N : g[k] = IF k = 0 THEN a
                                   ELSE IF g[k - 1] = NULL THEN NULL ELSE l.next[g[k - 1]]
      <3> SUFFICES ASSUME NEW k \in 0 .. N
                   PROVE  g[k] = IF k = 0 THEN a
                                 ELSE IF g[k - 1] = NULL THEN NULL ELSE l.next[g[k - 1]]
        OBVIOUS
      <3>1. k # 0 => k \in 1 .. N
        OBVIOUS
      <3> QED BY <1>2, <3>1
    <2> QED BY <1>2, <2>1
  <1> QED BY <1>3 DEF WalkOf

LEMMA WalkSteps ==
  ASSUME NEW l, NEW a, NEW N \in Nat, N = Cardinality(DOMAIN l.next), NEW at, at = Walk(l, a)
  PROVE  /\ DOMAIN at = 0 .. N /\ at[0] = a
         /\ \A k \in 1 .. N : at[k] = IF at[k - 1] = NULL THEN NULL ELSE l.next[at[k - 1]]
  <1>1. \E g : WalkOf(l, a, N, g)
    BY WalkExists
  <1>2. at = CHOOSE g : WalkOf(l, a, N, g)
    BY Zenon DEF Walk, WalkOf
  <1>3. WalkOf(l, a, N, at)
    BY <1>1, <1>2, Zenon
  <1>4. ASSUME NEW k \in 1 .. N PROVE k \in 0 .. N /\ k # 0
    OBVIOUS
  <1> QED BY <1>3, <1>4 DEF WalkOf

(* ... and in a ring it stays in it, each node the prev of the next one.   *)
LEMMA WalkInRing ==
  ASSUME NEW T, NULL \notin T, IsFiniteSet(T), NEW l \in ListOver(T, T), NEW S \in SUBSET T,
         RingOf(l, S), NEW a \in S, NEW at, at = Walk(l, a), NEW N, N = Cardinality(T)
  PROVE  /\ N \in Nat /\ DOMAIN at = 0 .. N /\ at[0] = a
         /\ \A k \in 0 .. N : at[k] \in S
         /\ \A k \in 1 .. N : at[k] = l.next[at[k - 1]] /\ at[k - 1] = l.prev[at[k]]
  <1>1. DOMAIN l.next = T /\ N \in Nat
    BY FS_CardinalityType DEF ListOver
  <1>2. /\ DOMAIN at = 0 .. N /\ at[0] = a
        /\ \A k \in 1 .. N : at[k] = IF at[k - 1] = NULL THEN NULL ELSE l.next[at[k - 1]]
    BY <1>1, WalkSteps
  <1> DEFINE Astray == {k \in 0 .. N : at[k] \notin S}
  <1>3. Astray = {}
    <2> SUFFICES ASSUME Astray # {} PROVE FALSE
      OBVIOUS
    <2>1. PICK k \in Astray : \A j \in Astray : k <= j
      <3>1. Astray \in SUBSET Nat
        OBVIOUS
      <3> HIDE DEF Astray
      <3> QED BY <3>1, LeastNat
    <2>2. k \in 0 .. N /\ at[k] \notin S
      OBVIOUS
    <2>3. k # 0 /\ k \in 1 .. N
      BY <1>1, <1>2, <2>2
    <2>4. k - 1 \in 0 .. N /\ k - 1 \notin Astray
      BY <1>1, <2>1, <2>3
    <2>5. at[k - 1] \in S
      BY <2>4
    <2>6. at[k] = l.next[at[k - 1]]
      BY <1>2, <2>3, <2>5
    <2> QED BY <2>2, <2>5, <2>6 DEF RingOf
  <1>4. \A k \in 0 .. N : at[k] \in S
    BY <1>3
  <1>5. ASSUME NEW k \in 1 .. N
        PROVE  at[k] = l.next[at[k - 1]] /\ at[k - 1] = l.prev[at[k]]
    <2>1. k - 1 \in 0 .. N
      BY <1>1
    <2>2. at[k - 1] \in S /\ at[k - 1] # NULL
      BY <1>4, <2>1
    <2>3. at[k] = l.next[at[k - 1]]
      BY <1>2, <2>2
    <2> QED BY <2>2, <2>3 DEF RingOf
  <1> QED BY <1>1, <1>2, <1>4, <1>5

(* From the second node on the walk comes back to the head. *)
LEMMA WalkComesBack ==
  ASSUME NEW T, NULL \notin T, IsFiniteSet(T), NEW l \in ListOver(T, T), NEW S \in SUBSET T,
         RingOf(l, S), l.head \in S, NEW at, at = Walk(l, l.next[l.head]),
         NEW N, N = Cardinality(T)
  PROVE  \E k \in 0 .. N : at[k] = l.head
  <1>1. l.next[l.head] \in S /\ l.prev[l.next[l.head]] = l.head
    BY DEF RingOf
  <1>2. /\ N \in Nat /\ DOMAIN at = 0 .. N /\ at[0] = l.next[l.head]
        /\ \A k \in 0 .. N : at[k] \in S
        /\ \A k \in 1 .. N : at[k - 1] = l.prev[at[k]]
    BY <1>1, WalkInRing
  <1> DEFINE Twice == {i \in 0 .. N : \E j \in 0 .. N : i < j /\ at[i] = at[j]}
  <1>3. Twice # {}
    <2>1. IsFiniteSet(0 .. N) /\ Cardinality(0 .. N) = N + 1
      BY <1>2, FS_Interval
    <2>2. IsFiniteSet(S) /\ Cardinality(S) <= N /\ Cardinality(S) \in Nat
      BY FS_Subset, FS_CardinalityType
    <2>3. PICK f : f = [k \in 0 .. N |-> at[k]]
      OBVIOUS
    <2>4. f \in [0 .. N -> S] /\ \A k \in 0 .. N : f[k] = at[k]
      BY <1>2, <2>3
    <2>5. \E x, y \in 0 .. N : x # y /\ f[x] = f[y]
      <3>1. Cardinality(S) < Cardinality(0 .. N)
        BY <1>2, <2>1, <2>2
      <3>2. PICK A : A = 0 .. N
        OBVIOUS
      <3>3. IsFiniteSet(A) /\ Cardinality(S) < Cardinality(A) /\ f \in [A -> S] /\ IsFiniteSet(S)
        BY <2>1, <2>2, <2>4, <3>1, <3>2
      <3>4. \E x, y \in A : x # y /\ f[x] = f[y]
        BY <3>3, FS_PigeonHole
      <3> QED BY <3>2, <3>4
    <2>6. PICK x \in 0 .. N : \E y \in 0 .. N : x # y /\ at[x] = at[y]
      BY <2>4, <2>5
    <2>7. PICK y \in 0 .. N : x # y /\ at[x] = at[y]
      BY <2>6
    <2>8. x < y \/ y < x
      BY <2>7
    <2> QED BY <2>7, <2>8
  <1>4. PICK i \in Twice : \A j \in Twice : i <= j
    <2>1. Twice \in SUBSET Nat
      OBVIOUS
    <2> HIDE DEF Twice
    <2> QED BY <1>3, <2>1, LeastNat
  <1>5. PICK j \in 0 .. N : i \in 0 .. N /\ i < j /\ at[i] = at[j]
    OBVIOUS
  <1>6. j \in 1 .. N /\ j - 1 \in 0 .. N
    BY <1>2, <1>5
  <1>7. i = 0
    <2> SUFFICES ASSUME i # 0 PROVE FALSE
      OBVIOUS
    <2>1. i \in 1 .. N /\ i - 1 \in 0 .. N /\ i - 1 < j - 1
      BY <1>2, <1>5, <1>6
    <2>2. at[i - 1] = at[j - 1]
      BY <1>2, <1>5, <1>6, <2>1
    <2>3. i - 1 \in Twice
      BY <1>6, <2>1, <2>2
    <2>4. i <= i - 1
      BY <1>4, <2>3
    <2> QED BY <2>1, <2>4
  <1>8. at[j - 1] = l.head
    BY <1>1, <1>2, <1>5, <1>6, <1>7
  <1> QED BY <1>6, <1>8

(* The nodes of l are in the order of ord, from the head once round.       *)
Ascending(l, S, ord) ==
  \A x \in S : l.next[x] # l.head => ord[x] <= ord[l.next[x]]

(* The head of such a ring has the least order_val. *)
LEMMA AscendingHeadLeast ==
  ASSUME NEW l, NEW S, RingOf(l, S), NEW ord, \A x \in S : ord[x] \in Nat, Ascending(l, S, ord)
  PROVE  \A x \in S : ord[l.head] <= ord[x]
  <1> DEFINE C == {x \in S : ord[l.head] <= ord[x]}
  <1>1. CASE l.head = NULL
    BY <1>1 DEF RingOf
  <1>2. CASE l.head # NULL
    <2>1. l.head \in C
      BY <1>2 DEF RingOf
    <2>2. ASSUME NEW x \in C PROVE l.next[x] \in C
      <3>1. x \in S /\ l.next[x] \in S /\ l.head \in S /\ ord[l.head] <= ord[x]
        BY <1>2 DEF RingOf
      <3>2. ord[l.head] \in Nat /\ ord[x] \in Nat /\ ord[l.next[x]] \in Nat
        BY <3>1
      <3>3. CASE l.next[x] = l.head
        BY <2>1, <3>3
      <3>4. CASE l.next[x] # l.head
        BY <3>1, <3>2, <3>4 DEF Ascending
      <3> QED BY <3>3, <3>4
    <2>3. C = S
      BY <2>1, <2>2 DEF RingOf
    <2> QED BY <2>3
  <1> QED BY <1>1, <1>2

(* The loop of _os_add_node_ordered stops between a node that is not above *)
(* the new one and, unless it has come round, one that is (common.c:51-55).*)
LEMMA InsertionPointPlace ==
  ASSUME NEW T, NULL \notin T, IsFiniteSet(T), NEW l \in ListOver(T, T), NEW S \in SUBSET T,
         RingOf(l, S), l.head \in S, NEW n \in T, NEW ord \in [T -> Nat],
         ~(ord[l.head] > ord[n]), NEW at, at = InsertionPoint(l, n, ord)
  PROVE  /\ at \in S /\ ord[l.prev[at]] <= ord[n]
         /\ at = l.head \/ ord[n] <= ord[at]
  <1>1. PICK N, w : N = Cardinality(T) /\ w = Walk(l, l.next[l.head])
    OBVIOUS
  <1>2. l.next[l.head] \in S /\ l.prev[l.next[l.head]] = l.head /\ \A x \in S : l.prev[x] \in S
    BY DEF RingOf
  <1>3. /\ N \in Nat /\ DOMAIN w = 0 .. N /\ w[0] = l.next[l.head]
        /\ \A k \in 0 .. N : w[k] \in S
        /\ \A k \in 1 .. N : w[k - 1] = l.prev[w[k]]
    BY <1>1, <1>2, WalkInRing
  <1> DEFINE stop(k) == w[k] \in {l.head, NULL} \/ ord[w[k]] > ord[n]
             First(m) == \E k \in DOMAIN w :
                           w[k] = m /\ stop(k) /\ \A j \in 0 .. k - 1 : ~stop(j)
  <1>4. at = IF \E m \in Members(l) : First(m) THEN CHOOSE m \in Members(l) : First(m) ELSE l.head
    BY <1>1, Zenon DEF InsertionPoint
  <1>5. Members(l) = S
    BY RingMembers
  <1>6. \E m \in S : First(m)
    <2> DEFINE Stops == {k \in 0 .. N : stop(k)}
    <2>1. Stops # {}
      BY <1>1, WalkComesBack
    <2>2. PICK k \in Stops : \A j \in Stops : k <= j
      <3>1. Stops \in SUBSET Nat
        OBVIOUS
      <3> HIDE DEF Stops
      <3> QED BY <2>1, <3>1, LeastNat
    <2>3. k \in DOMAIN w /\ stop(k) /\ w[k] \in S /\ k \in Nat
      BY <1>3
    <2>4. ASSUME NEW j \in 0 .. k - 1 PROVE ~stop(j)
      <3>1. j \in 0 .. N /\ ~(k <= j)
        BY <1>3, <2>3
      <3>2. j \notin Stops
        BY <2>2, <3>1
      <3> HIDE DEF stop
      <3> QED BY <3>1, <3>2
    <2>5. First(w[k])
      <3> HIDE DEF stop
      <3> QED BY <2>3, <2>4
    <2> QED BY <2>3, <2>5
  <1>7. at \in S /\ First(at)
    <2> HIDE DEF First
    <2> QED BY <1>4, <1>5, <1>6
  <1>8. PICK k \in DOMAIN w : w[k] = at /\ stop(k) /\ \A j \in 0 .. k - 1 : ~stop(j)
    BY <1>7
  <1>9. /\ ord[n] \in Nat /\ at # NULL /\ \A x \in S : ord[x] \in Nat
    BY <1>7
  <1>10. at = l.head \/ ord[n] <= ord[at]
    BY <1>7, <1>8, <1>9
  <1>11. ord[l.prev[at]] <= ord[n]
    <2>1. CASE k = 0
      BY <1>2, <1>3, <1>8, <1>9, <2>1
    <2>2. CASE k # 0
      <3>1. k \in 1 .. N /\ k - 1 \in 0 .. k - 1 /\ k - 1 \in 0 .. N
        BY <1>3, <2>2
      <3>2. w[k - 1] = l.prev[at] /\ w[k - 1] \in S /\ ~stop(k - 1)
        BY <1>3, <1>8, <3>1
      <3> QED BY <1>9, <3>2
    <2> QED BY <2>1, <2>2
  <1> QED BY <1>7, <1>10, <1>11

(* The links after a node is linked in before a node of the ring.          *)
LEMMA LinkBeforeNext ==
  ASSUME NEW T, NEW l \in ListOver(T, T), NEW S \in SUBSET T, RingOf(l, S),
         NEW n \in T \ S, NEW at \in S
  PROVE  \A x \in T : LinkBefore(l, n, at).next[x]
                        = IF x = n THEN at ELSE IF x = l.prev[at] THEN n ELSE l.next[x]
  <1>1. PICK b : b = l.prev[at]
    OBVIOUS
  <1>2. b \in S /\ b # n /\ at # n
    BY <1>1 DEF RingOf
  <1>3. LinkBefore(l, n, at).next = [[l.next EXCEPT ![b] = n] EXCEPT ![n] = at]
    BY <1>1, <1>2 DEF LinkBefore, ListOver
  <1> QED BY <1>1, <1>2, <1>3 DEF ListOver

(* _os_add_node_ordered keeps the order (common.c:42-66).                  *)
LEMMA AddNodeOrderedAscending ==
  ASSUME NEW T, NULL \notin T, IsFiniteSet(T), NEW l \in ListOver(T, T), NEW S \in SUBSET T,
         RingOf(l, S), NEW n \in T \ S, NEW ord \in [T -> Nat], Ascending(l, S, ord),
         NEW m, m = AddNodeOrdered(l, n, ord)
  PROVE  Ascending(m, S \cup {n}, ord)
  <1>1. \A x \in T : ord[x] \in Nat
    OBVIOUS
  <1>2. CASE l.head = NULL
    <2>1. S = {} /\ m.head = n /\ m.next[n] = n
      BY <1>2 DEF RingOf, AddNodeOrdered, LinkAlone, ListOver
    <2> QED BY <2>1 DEF Ascending
  <1>3. CASE l.head # NULL
    <2>1. l.head \in S /\ \A x \in S : l.next[x] \in S /\ l.prev[x] \in S /\ l.prev[l.next[x]] = x
      BY <1>3 DEF RingOf
    <2>2. CASE ord[l.head] > ord[n]
      <3>1. m.head = n /\ m.next = LinkBefore(l, n, l.head).next
        BY <1>3, <2>2 DEF AddNodeOrdered, LinkBefore, ListOver
      <3>2. \A x \in T : m.next[x] = IF x = n THEN l.head
                                     ELSE IF x = l.prev[l.head] THEN n ELSE l.next[x]
        BY <2>1, <3>1, LinkBeforeNext
      <3> SUFFICES ASSUME NEW x \in S \cup {n}, m.next[x] # m.head
                   PROVE  ord[x] <= ord[m.next[x]]
        BY DEF Ascending
      <3>3. CASE x = n
        BY <1>1, <2>1, <2>2, <3>2, <3>3
      <3>4. CASE x # n
        <4>1. x \in S /\ x # l.prev[l.head] /\ m.next[x] = l.next[x]
          BY <3>1, <3>2, <3>4
        <4>2. l.next[x] # l.head
          BY <2>1, <4>1
        <4> QED BY <4>1, <4>2 DEF Ascending
      <3> QED BY <3>3, <3>4
    <2>3. CASE ~(ord[l.head] > ord[n])
      <3>1. PICK at : at = InsertionPoint(l, n, ord)
        OBVIOUS
      <3>2. /\ at \in S /\ ord[l.prev[at]] <= ord[n]
            /\ at = l.head \/ ord[n] <= ord[at]
        BY <2>1, <2>3, <3>1, InsertionPointPlace
      <3>3. m.head = l.head /\ m.next = LinkBefore(l, n, at).next
        BY <1>3, <2>3, <3>1 DEF AddNodeOrdered, LinkBefore, ListOver
      <3>4. \A x \in T : m.next[x] = IF x = n THEN at
                                     ELSE IF x = l.prev[at] THEN n ELSE l.next[x]
        BY <3>2, <3>3, LinkBeforeNext
      <3> SUFFICES ASSUME NEW x \in S \cup {n}, m.next[x] # m.head
                   PROVE  ord[x] <= ord[m.next[x]]
        BY DEF Ascending
      <3>5. x \in T /\ n \notin S
        OBVIOUS
      <3>6. CASE x = n
        BY <3>2, <3>3, <3>4, <3>5, <3>6
      <3>7. CASE x # n /\ x = l.prev[at]
        BY <3>2, <3>4, <3>5, <3>7
      <3>8. CASE x # n /\ x # l.prev[at]
        BY <3>3, <3>4, <3>5, <3>8 DEF Ascending
      <3> QED BY <3>6, <3>7, <3>8
    <2> QED BY <2>2, <2>3
  <1> QED BY <1>2, <1>3

(* ... and so does _os_remove_node (common.c:69-88).                       *)
LEMMA RemoveNodeAscending ==
  ASSUME NEW T, NULL \notin T, NEW l \in ListOver(T, T), NEW S \in SUBSET T,
         RingOf(l, S), NEW n \in S, NEW ord \in [T -> Nat], Ascending(l, S, ord),
         NEW m, m = RemoveNode(l, n)
  PROVE  Ascending(m, S \ {n}, ord)
  <1>1. PICK a, b : a = l.next[n] /\ b = l.prev[n]
    OBVIOUS
  <1>2. /\ n \in T /\ a \in S /\ b \in S /\ l.prev[a] = n /\ l.next[b] = n /\ l.head \in S
        /\ \A x \in S : l.next[x] \in S /\ l.prev[l.next[x]] = x
    BY <1>1 DEF RingOf
  <1>3. ~Unlinked(l, n)
    BY <1>1, <1>2 DEF Unlinked
  <1>4. CASE a = n
    <2>1. RingOf(m, S \ {n}) /\ m.head = NULL
      <3>1. m = [[l EXCEPT !.head = NULL] EXCEPT !.next[n] = NULL, !.prev[n] = NULL]
        BY <1>1, <1>3, <1>4 DEF RemoveNode
      <3>2. m.head = NULL
        BY <3>1 DEF ListOver
      <3> QED BY <3>2, RemoveNodeRing
    <2>2. S \ {n} = {}
      BY <2>1 DEF RingOf
    <2> QED BY <2>2 DEF Ascending
  <1>5. CASE a # n
    <2>1. b # n
      BY <1>1, <1>2, <1>5
    <2>2. /\ m.next = [[l.next EXCEPT ![b] = a] EXCEPT ![n] = NULL]
          /\ m.head = IF n = l.head THEN a ELSE l.head
      BY <1>1, <1>2, <1>3, <1>5, <2>1 DEF RemoveNode, Bypass, ListOver
    <2> SUFFICES ASSUME NEW x \in S \ {n}, m.next[x] # m.head
                 PROVE  ord[x] <= ord[m.next[x]]
      BY DEF Ascending
    <2>3. /\ x \in S /\ x \in T /\ x # n /\ \A u \in S : ord[u] \in Nat
          /\ m.next[x] = IF x = b THEN a ELSE l.next[x]
      BY <1>2, <2>2 DEF ListOver
    <2>4. CASE x = b
      <3>1. n # l.head /\ a # l.head
        BY <2>2, <2>3, <2>4
      <3>2. ord[b] <= ord[n] /\ ord[n] <= ord[a]
        BY <1>1, <1>2, <3>1 DEF Ascending
      <3>3. ord[b] \in Nat /\ ord[n] \in Nat /\ ord[a] \in Nat
        BY <1>2
      <3> QED BY <2>3, <2>4, <3>2, <3>3
    <2>5. CASE x # b
      <3>1. m.next[x] = l.next[x] /\ l.next[x] # n
        BY <1>1, <1>2, <2>3, <2>5
      <3>2. l.next[x] # l.head
        BY <2>2, <3>1
      <3> QED BY <2>3, <3>1, <3>2 DEF Ascending
    <2> QED BY <2>4, <2>5
  <1> QED BY <1>4, <1>5

(* The walk from the head meets every node of a ring before it is back.    *)
LEMMA WalkRound ==
  ASSUME NEW T, NULL \notin T, IsFiniteSet(T), NEW l \in ListOver(T, T), NEW S \in SUBSET T,
         RingOf(l, S), l.head \in S, NEW w, w = Walk(l, l.head), NEW C, C = Cardinality(S)
  PROVE  /\ C \in Nat /\ \A k \in 0 .. C : w[k] \in S
         /\ \A k \in 1 .. C - 1 : w[k] = l.next[w[k - 1]] /\ w[k] # l.head
  <1>1. PICK N : N = Cardinality(T)
    OBVIOUS
  <1>2. /\ N \in Nat /\ w[0] = l.head /\ \A k \in 0 .. N : w[k] \in S
        /\ \A k \in 1 .. N : w[k] = l.next[w[k - 1]]
    BY <1>1, WalkInRing
  <1>3. IsFiniteSet(S) /\ C \in Nat /\ C <= N
    BY <1>1, FS_Subset, FS_CardinalityType
  <1>4. \A k \in 0 .. C : k \in 0 .. N
    BY <1>2, <1>3
  <1>5. \A k \in 1 .. C - 1 : k \in 1 .. N
    BY <1>2, <1>3
  <1>6. ASSUME NEW k \in 1 .. C - 1, w[k] = l.head PROVE FALSE
    <2>1. k \in 1 .. N /\ k \in Nat /\ k < C
      BY <1>3, <1>5
    <2>2. PICK f, I : I = 0 .. k - 1 /\ f = [j \in I |-> w[j]]
      OBVIOUS
    <2>3. \A j \in I : j \in 0 .. N /\ j + 1 \in 1 .. N /\ (j + 1 \in I \/ j + 1 = k)
      BY <1>2, <2>1, <2>2
    <2>4. 0 \in I /\ \A j \in I : f[j] = w[j] /\ w[j] \in S
      BY <1>2, <2>1, <2>2, <2>3
    <2>5. PICK D : D = {f[j] : j \in I}
      OBVIOUS
    <2>6. D \in SUBSET S /\ l.head \in D
      BY <1>2, <2>4, <2>5
    <2>7. ASSUME NEW x \in D PROVE l.next[x] \in D
      <3>1. PICK j \in I : x = w[j]
        BY <2>4, <2>5
      <3>2. w[j + 1] = l.next[w[j]]
        <4>1. PICK i : i = j + 1
          OBVIOUS
        <4>2. i \in 1 .. N /\ i - 1 = j
          BY <2>3, <4>1, <1>2, <2>2
        <4> QED BY <1>2, <4>1, <4>2
      <3>3. CASE j + 1 \in I
        BY <2>4, <2>5, <3>1, <3>2, <3>3
      <3>4. CASE j + 1 = k
        BY <1>6, <2>6, <3>1, <3>2, <3>4
      <3> QED BY <2>3, <3>3, <3>4
    <2>8. D = S
      BY <2>6, <2>7 DEF RingOf
    <2>9. f \in Surjection(I, S)
      BY <2>2, <2>4, <2>5, <2>8 DEF Surjection
    <2>10. IsFiniteSet(I) /\ Cardinality(I) = k
      <3>1. 0 \in Int /\ k - 1 \in Int /\ ~(0 > k - 1) /\ k - 1 - 0 + 1 = k
        BY <2>1
      <3> QED BY <2>2, <3>1, FS_Interval
    <2>11. Cardinality(S) <= Cardinality(I)
      BY <2>9, <2>10, FS_Surjection
    <2> QED BY <1>3, <2>1, <2>10, <2>11
  <1> QED BY <1>2, <1>3, <1>4, <1>5, <1>6

(* Read from its head, such a list is sorted. *)
LEMMA RingAscending ==
  ASSUME NEW T, NULL \notin T, IsFiniteSet(T), NEW l \in ListOver(T, T), NEW S \in SUBSET T,
         RingOf(l, S), NEW ord \in [T -> Nat], Ascending(l, S, ord), NEW ring, ring = Ring(l)
  PROVE  /\ \A i \in DOMAIN ring : ring[i] \in S
         /\ \A i, j \in DOMAIN ring : i < j => ord[ring[i]] <= ord[ring[j]]
  <1>1. PICK w, C : w = Walk(l, l.head) /\ C = Cardinality(S)
    OBVIOUS
  <1>2. ring = [i \in 1 .. C |-> w[i - 1]]
    BY <1>1, RingMembers DEF Ring
  <1>3. CASE l.head = NULL
    <2>1. S = {}
      BY <1>3 DEF RingOf
    <2>2. C = 0
      BY <1>1, <2>1, FS_EmptySet
    <2>3. DOMAIN ring = {}
      BY <1>2, <2>2
    <2> QED BY <2>3
  <1>4. CASE l.head # NULL
    <2>1. l.head \in S
      BY <1>4 DEF RingOf
    <2>2. /\ C \in Nat /\ \A k \in 0 .. C : w[k] \in S
          /\ \A k \in 1 .. C - 1 : w[k] = l.next[w[k - 1]] /\ w[k] # l.head
      BY <1>1, <2>1, WalkRound
    <2>3. \A k \in 0 .. C : ord[w[k]] \in Nat
      BY <2>2
    <2>4. ASSUME NEW i \in 0 .. C - 1, NEW j \in 0 .. C - 1, i < j
          PROVE  ord[w[i]] <= ord[w[j]]
      <3> DEFINE Bad == {k \in 0 .. C - 1 : i < k /\ ~(ord[w[i]] <= ord[w[k]])}
      <3>1. Bad = {}
        <4> SUFFICES ASSUME Bad # {} PROVE FALSE
          OBVIOUS
        <4>1. PICK k \in Bad : \A h \in Bad : k <= h
          <5>1. Bad \in SUBSET Nat
            OBVIOUS
          <5> HIDE DEF Bad
          <5> QED BY <5>1, LeastNat
        <4>2. k \in 0 .. C - 1 /\ i < k /\ ~(ord[w[i]] <= ord[w[k]])
          OBVIOUS
        <4>3. /\ k \in 1 .. C - 1 /\ k \in 0 .. C /\ k - 1 \in 0 .. C - 1 /\ k - 1 \in 0 .. C
              /\ i \in 0 .. C /\ (k - 1 = i \/ i < k - 1) /\ ~(k <= k - 1)
          BY <2>2, <4>2
        <4>4. k - 1 \notin Bad
          BY <4>1, <4>3
        <4>5. ord[w[i]] <= ord[w[k - 1]]
          <5>1. CASE k - 1 = i
            BY <2>3, <4>3, <5>1
          <5>2. CASE i < k - 1
            BY <4>3, <4>4, <5>2
          <5> QED BY <4>3, <5>1, <5>2
        <4>6. ord[w[k - 1]] <= ord[w[k]]
          <5>1. w[k - 1] \in S /\ l.next[w[k - 1]] = w[k] /\ w[k] # l.head
            BY <2>2, <4>3
          <5> QED BY <5>1 DEF Ascending
        <4>7. ord[w[i]] \in Nat /\ ord[w[k - 1]] \in Nat /\ ord[w[k]] \in Nat
          BY <2>3, <4>3
        <4> HIDE DEF Bad
        <4> QED BY <4>2, <4>5, <4>6, <4>7
      <3> QED BY <3>1, <2>4
    <2>5. \A i \in DOMAIN ring : i - 1 \in 0 .. C - 1 /\ i - 1 \in 0 .. C /\ ring[i] = w[i - 1]
      BY <1>2, <2>2
    <2>6. \A i, j \in DOMAIN ring : i < j => i - 1 < j - 1
      BY <1>2, <2>2
    <2> QED BY <2>2, <2>4, <2>5, <2>6
  <1> QED BY <1>3, <1>4
=============================================================================
