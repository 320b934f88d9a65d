------------------------------ MODULE MCCondVar -----------------------------
(* Small instances of CondVar for TLC. *)
EXTENDS CondVar

CONSTANTS t1, t2, t3, mutex, cond

Twins == {t1, t2}
Triple == {t1, t2, t3}
MutexAndCondition == {mutex, cond}
OneMutex == {mutex}
OneCondition == {cond}
First == {t1}
Second == {t2}
FirstTwo == {t1, t2}
ByPriority == [q \in WaitQueue |-> "PRIORITY"]
TokenForMutex == [q \in WaitQueue |-> IF q = mutex THEN 1 ELSE 0]
TheMutex == [c \in Condition |-> mutex]

\* Who may be created at which priority.
Staggered == [t \in User |-> IF t = t1 THEN {0} ELSE IF t = t2 THEN {1} ELSE {0, 1}]
OneAbove == [t \in User |-> IF t = t1 THEN {0} ELSE {1}]

\* Waiting for ever, and not at all.
Untimed == [t \in Task |-> {0, -1}]
ForEver == [t \in Task |-> {0}]
HighestTimed == [t \in Task |-> IF t = t1 THEN {2, -1} ELSE {0}]
=============================================================================
