---------------------------- MODULE AlarmService ----------------------------
(***************************************************************************)
(* What the counters of core/timer.c promise: each has a time of its own,  *)
(* an alarm is due a number of ticks after it was last set, it fires       *)
(* exactly at that tick, once, and not after it was taken back.            *)
(***************************************************************************)
EXTENDS Naturals

CONSTANTS
  Counter, Alarm,
  Delay       \* the numbers of ticks that alarms are set for

VARIABLES
  now,        \* the time of each counter
  armed       \* the alarms that are set: [alarm, on, at]

Init == now \in [Counter -> Nat] /\ armed = {}

(* Time does not move past an alarm. *)
Advance(c) ==
  /\ now' = [now EXCEPT ![c] = @ + 1]
  /\ ~\E s \in armed : s.on = c /\ s.at = now[c]
  /\ UNCHANGED armed

Others(a) == {s \in armed : s.alarm # a}

Set(c, a) ==
  /\ UNCHANGED now
  /\ \E n \in Delay :
       armed' = Others(a) \cup {[alarm |-> a, on |-> c, at |-> now[c] + n]}

Cancel(a) == UNCHANGED now /\ armed' = Others(a)

Fire(s) == UNCHANGED now /\ s.at = now[s.on] /\ armed' = armed \ {s}

Next ==
  \/ \E c \in Counter : Advance(c)
  \/ \E s \in armed : Fire(s)
  \/ \E a \in Alarm : Cancel(a) \/ \E c \in Counter : Set(c, a)

Spec == Init /\ [][Next]_<<now, armed>>
=============================================================================
