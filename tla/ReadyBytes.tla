----------------------------- MODULE ReadyBytes -----------------------------
(***************************************************************************)
(* The ready list of core/scheduler.c on its bytes: the shifts, the masks  *)
(* and the two lookup tables as they are written there.  It implements     *)
(* ReadyTable, where a byte is a set of bit positions.                     *)
(***************************************************************************)
EXTENDS Integers, Sequences, Bitwise

CONSTANT Used   \* bound of the model: the priorities the calls are made for

LowestPriority == 63
TableSize == (LowestPriority \div 8) + 1

ASSUME UsedAssumption == Used \subseteq 0 .. LowestPriority

VARIABLES group,    \* _os_ready_group
          table,    \* _os_ready_table
          marked    \* the priorities set and not unset since

vars == <<group, table, marked>>

(* _os_map_table *)
map == <<1, 2, 4, 8, 16, 32, 64, 128>>
Map(i) == map[i + 1]

(* Mutant: one entry mistyped. *)
FirstColumnMistyped == <<0, 4, 5, 4, 6, 4, 5, 4, 7, 4, 5, 4, 6, 4, 4, 4>>

(* _os_unmap_table, sixteen entries a line, which differ in the first. *)
FirstColumn == <<0, 4, 5, 4, 6, 4, 5, 4, 7, 4, 5, 4, 6, 4, 5, 4>>
Columns == <<0, 0, 1, 0, 2, 0, 1, 0, 3, 0, 1, 0, 2, 0, 1, 0>>
Unmap(v) == IF v % 16 = 0 THEN FirstColumn[(v \div 16) + 1] ELSE Columns[(v % 16) + 1]

Init ==
  /\ group = 0 /\ table = [y \in 0 .. TableSize - 1 |-> 0]
  /\ marked = {}

(* _os_set_ready *)
SetBit(p) ==
  /\ group' = group | Map(p \div 8)
  /\ table' = [table EXCEPT ![p \div 8] = @ | Map(p & 7)]
  /\ marked' = marked \cup {p}

(* Mutant: the group bit goes whatever is left in its byte. *)
UnsetBitAndGroup(p) ==
  /\ table' = [table EXCEPT ![p \div 8] = @ & (255 - Map(p & 7))]
  /\ group' = group & (255 - Map(p \div 8))
  /\ marked' = marked \ {p}

(* Mutant: the mask is not inverted. *)
UnsetBitUninverted(p) ==
  LET byte == table[p \div 8] & Map(p & 7)
  IN  /\ table' = [table EXCEPT ![p \div 8] = byte]
      /\ group' = IF byte = 0 THEN group & (255 - Map(p \div 8)) ELSE group
      /\ marked' = marked \ {p}

(* _os_unset_ready *)
UnsetBit(p) ==
  LET byte == table[p \div 8] & (255 - Map(p & 7))
  IN  /\ table' = [table EXCEPT ![p \div 8] = byte]
      /\ group' = IF byte = 0 THEN group & (255 - Map(p \div 8)) ELSE group
      /\ marked' = marked \ {p}

(* _os_get_highest_priority *)
Highest == LET y == Unmap(group) IN y * 8 + Unmap(table[y])

Next == \E p \in Used : SetBit(p) \/ UnsetBit(p)

Spec == Init /\ [][Next]_vars

-----------------------------------------------------------------------------
BitsOf == [byte \in 0 .. 255 |-> {i \in 0 .. 7 : (byte \div 2^i) % 2 = 1}]

Abstract == INSTANCE ReadyTable WITH
  WIDTH <- 8, BYTES <- TableSize,
  bits <- [group |-> BitsOf[group], table |-> [y \in DOMAIN table |-> BitsOf[table[y]]]]

(* The arithmetic on bytes sets and clears one bit of the table and keeps  *)
(* the group bit of its row in step with it (scheduler.c:111-129).         *)
ImplementsReadyTable == Abstract!Spec

(* On the bytes, too, the two levels agree after any sequence of calls.    *)
TwoLevelsAgree == Abstract!TwoLevelsAgree

UnmapTableRight ==
  \A v \in 1 .. 255 :
    Unmap(v) \in BitsOf[v] /\ \A i \in BitsOf[v] : Unmap(v) <= i

(* The lookup in the tables finds the highest of the marked priorities,    *)
(* and none of the 256 entries is mistyped (scheduler.c:24-47, 103-108).   *)
LookupRight ==
  /\ UnmapTableRight
  /\ marked # {} => Highest \in marked /\ \A p \in marked : Highest <= p
=============================================================================
