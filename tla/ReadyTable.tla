----------------------------- MODULE ReadyTable -----------------------------
(***************************************************************************)
(* The ready list of core/scheduler.c under any sequence of calls, and the *)
(* lookup table it is searched with.                                       *)
(***************************************************************************)
EXTENDS ReadyBits

VARIABLES bits,    \* _os_ready_group and _os_ready_table
          marked   \* the priorities set and not unset since: the calls so far

vars == <<bits, marked>>

Init == bits = NoneReady /\ marked = {}

Set(p) ==
  /\ bits' = SetReady(bits, p)
  /\ marked' = marked \cup {p}

Unset(p) ==
  /\ bits' = UnsetReady(bits, p)
  /\ marked' = marked \ {p}

Next == \E p \in Priority : Set(p) \/ Unset(p)

Spec == Init /\ [][Next]_vars

-----------------------------------------------------------------------------
TypeOK == bits \in Bitmap /\ marked \subseteq Priority

(* The two levels agree after any sequence of calls: unsetting a priority  *)
(* twice, or one that was never set, leaves no group bit over an empty     *)
(* byte and clears none over a byte still in use.                          *)
TwoLevelsAgree == GroupSummarises(bits) /\ ReadyPriorities(bits) = marked

(* The two table lookups find the highest priority, the least number, of   *)
(* all that are marked.                                                    *)
HighestIsLeast ==
  marked # {} =>
    /\ HighestPriority(bits) \in marked
    /\ \A p \in marked : HighestPriority(bits) <= p
=============================================================================
