------------------------------ MODULE MCKernel ------------------------------
(* Small instances of Kernel for TLC. *)
EXTENDS Kernel

CONSTANTS t1, t2, t3

Twins == {t1, t2}
Triple == {t1, t2, t3}

\* Who may be created at which priority.
HighOrNext == [t \in User |-> {0, 1}]
Staggered == [t \in User |-> IF t = t1 THEN {0} ELSE {1}]
Equal == [t \in User |-> {1}]
NoWaitQueue == {}
NoQueueType == <<>>
=============================================================================
