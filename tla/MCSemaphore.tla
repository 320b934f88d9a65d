---------------------------- MODULE MCSemaphore -----------------------------
(* Small instances of Semaphore for TLC. *)
EXTENDS Semaphore

CONSTANTS t1, t2, t3, sem

Twins == {t1, t2}
Triple == {t1, t2, t3}
OneSemaphore == {sem}
NoMutex == {}
Fifo == [q \in WaitQueue |-> "FIFO"]
ByPriority == [q \in WaitQueue |-> "PRIORITY"]
NoToken == [q \in WaitQueue |-> 0]
OneToken == [q \in WaitQueue |-> 1]

\* Who may be created at which priority.
Staggered == [t \in User |-> IF t = t1 THEN {0} ELSE IF t = t2 THEN {1} ELSE {0, 1}]
OneAbove == [t \in User |-> IF t = t1 THEN {0} ELSE {1}]
Equal == [t \in User |-> {1}]

\* Waiting for ever, and not at all.
Untimed == [t \in Task |-> {0, -1}]
ForEver == [t \in Task |-> {0}]
Timed == [t \in Task |-> {2}]
HighestTimed == [t \in Task |-> IF t = t1 THEN {2, -1} ELSE {0}]
=============================================================================
