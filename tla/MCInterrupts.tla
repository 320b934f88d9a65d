---------------------------- MODULE MCInterrupts ----------------------------
(* Small instances of Interrupts for TLC. *)
EXTENDS Interrupts

CONSTANTS t1, sys, own, a1, a2, a3

One == {t1}
SysAndOwn == {sys, own}
TwoAlarms == {a1, a2}
ThreeAlarms == {a1, a2, a3}
TwoOnSys == [a \in Alarm |-> IF a = a3 THEN {own} ELSE {sys}]
AnyCounter == [a \in Alarm |-> Counter]
Varied == [a \in Alarm |-> IF a = a1 THEN {0, 2} ELSE {1}]
FromZero == [c \in Counter |-> 0]
NearWrap == [c \in Counter |-> IF c = own THEN WORD - 2 ELSE 0]
=============================================================================
