-------------------------- MODULE ReadyTableProofs --------------------------
(***************************************************************************)
(* The ready list of core/scheduler.c is right after any sequence of       *)
(* calls, for every width of a byte and every number of bytes.             *)
(***************************************************************************)
EXTENDS ReadyTable, StructureProofs

(* The invariants.  TwoLevelsAgree is inductive together with the types;   *)
(* that the lookup is right follows from it in every state.                *)

IInv == TypeOK /\ TwoLevelsAgree

(* The initial table is empty on both levels (scheduler.c:82-100).         *)
LEMMA InitIInv == Init => IInv
  <1> SUFFICES ASSUME Init PROVE IInv
    OBVIOUS
  <1>1. bits = NoneReady /\ marked = {}
    BY DEF Init
  <1>2. bits \in Bitmap /\ GroupSummarises(bits)
    BY <1>1 DEF NoneReady, Bitmap, GroupSummarises
  <1>3. ReadyPriorities(bits) = {}
    BY <1>1, RowColumn DEF NoneReady, ReadyPriorities
  <1> QED BY <1>1, <1>2, <1>3 DEF IInv, TypeOK, TwoLevelsAgree

(* Every call, on any priority, keeps it.                                  *)
LEMMA NextIInv == IInv /\ [Next]_vars => IInv'
  <1> SUFFICES ASSUME IInv, [Next]_vars PROVE IInv'
    OBVIOUS
  <1>1. /\ bits \in Bitmap /\ marked \subseteq Priority
        /\ GroupSummarises(bits) /\ ReadyPriorities(bits) = marked
    BY DEF IInv, TypeOK, TwoLevelsAgree
  <1>2. ASSUME NEW p \in Priority, Set(p) PROVE IInv'
    BY <1>1, <1>2, SetReadyCorrect DEF Set, IInv, TypeOK, TwoLevelsAgree
  <1>3. ASSUME NEW p \in Priority, Unset(p) PROVE IInv'
    BY <1>1, <1>3, UnsetReadyCorrect DEF Unset, IInv, TypeOK, TwoLevelsAgree
  <1>4. CASE UNCHANGED vars
    BY <1>1, <1>4 DEF vars, IInv, TypeOK, TwoLevelsAgree
  <1> QED BY <1>2, <1>3, <1>4 DEF Next

(* The bitmap stays a bitmap over the priorities.                          *)
THEOREM TypeCorrect == Spec => []TypeOK
  <1>1. IInv => TypeOK
    BY DEF IInv
  <1> QED BY <1>1, InitIInv, NextIInv, PTL DEF Spec

(* After any sequence of _os_set_ready and _os_unset_ready, redundant ones *)
(* included, the group byte is the summary of the table and the bits set   *)
(* are exactly those of the marked priorities (scheduler.c:111-129).       *)
THEOREM LevelsAgree == Spec => []TwoLevelsAgree
  <1>1. IInv => TwoLevelsAgree
    BY DEF IInv
  <1> QED BY <1>1, InitIInv, NextIInv, PTL DEF Spec

(* _os_get_highest_priority answers the highest of the marked priorities   *)
(* whenever there is one (scheduler.c:103-108).                            *)
THEOREM LookupFindsHighest == Spec => []HighestIsLeast
  <1>1. IInv => HighestIsLeast
    BY HighestPriorityCorrect DEF IInv, TypeOK, TwoLevelsAgree, HighestIsLeast
  <1> QED BY <1>1, InitIInv, NextIInv, PTL DEF Spec
=============================================================================
