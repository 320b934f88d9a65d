------------------------------ MODULE ReadyBits -----------------------------
(***************************************************************************)
(* The two-level priority bitmap of core/scheduler.c.  A byte is the set   *)
(* of the positions of its 1-bits.  Priority p is bit p % WIDTH of byte    *)
(* p \div WIDTH of the table; bit y of the group says that byte y of the   *)
(* table has a 1-bit.  WIDTH is 8 in the code (the shifts by 3 and the     *)
(* masks with 7), and BYTES, READY_TABLE_SIZE there, is 8.                 *)
(***************************************************************************)
EXTENDS Integers

CONSTANTS WIDTH,   \* bits of a byte
          BYTES    \* bytes of the table; the group is one byte

ASSUME BitmapAssumption ==
  WIDTH \in Nat \ {0} /\ BYTES \in Nat \ {0} /\ BYTES <= WIDTH

Bits == 0 .. WIDTH - 1
Rows == 0 .. BYTES - 1
Priority == 0 .. WIDTH * BYTES - 1
LOWEST_PRIORITY == WIDTH * BYTES - 1

Row(p) == p \div WIDTH      \* priority >> 3
Column(p) == p % WIDTH      \* priority & 0x07

(* Mutant: the most significant 1-bit. *)
UnmapMost(byte) ==
  IF byte = {} THEN 0 ELSE CHOOSE i \in byte : \A j \in byte : i >= j

(* _os_unmap_table: the least significant 1-bit, 0 for the byte 0. *)
Unmap(byte) == IF byte = {} THEN 0 ELSE CHOOSE i \in byte : \A j \in byte : i <= j

(* _os_init_scheduler *)
NoneReady == [group |-> {}, table |-> [y \in Rows |-> {}]]

(* Mutant: the shift is forgotten in the group. *)
SetReadyUnshifted(b, p) ==
  [group |-> b.group \cup {p},
   table |-> [b.table EXCEPT ![Row(p)] = @ \cup {Column(p)}]]

(* _os_set_ready *)
SetReady(b, p) ==
  [group |-> b.group \cup {Row(p)},
   table |-> [b.table EXCEPT ![Row(p)] = @ \cup {Column(p)}]]

(* Mutant: the group bit goes whatever is left in the byte. *)
UnsetReadyGroup(b, p) ==
  [group |-> b.group \ {Row(p)},
   table |-> [b.table EXCEPT ![Row(p)] = @ \ {Column(p)}]]

(* _os_unset_ready *)
UnsetReady(b, p) ==
  LET byte == b.table[Row(p)] \ {Column(p)}
  IN  [group |-> IF byte = {} THEN b.group \ {Row(p)} ELSE b.group,
       table |-> [b.table EXCEPT ![Row(p)] = byte]]

(* Mutant: the last bit of the byte is looked up. *)
HighestPriorityMost(b) ==
  LET y == Unmap(b.group) IN y * WIDTH + UnmapMost(b.table[y])

(* _os_get_highest_priority: with no bit set it answers 0 as well. *)
HighestPriority(b) ==
  LET y == Unmap(b.group) IN y * WIDTH + Unmap(b.table[y])

-----------------------------------------------------------------------------
(* The priorities whose bit is set. *)
ReadyPriorities(b) == {p \in Priority : Column(p) \in b.table[Row(p)]}

(* The group byte summarises the table. *)
GroupSummarises(b) == b.group = {y \in Rows : b.table[y] # {}}

Bitmap == [group : SUBSET Rows, table : [Rows -> SUBSET Bits]]
=============================================================================
