------------------------------ MODULE Counters ------------------------------
(***************************************************************************)
(* The counters and alarms of core/timer.c, any number of each.  (Kernel   *)
(* has the system timer and the alarms of the tasks.)  What is defined     *)
(* here are the calls; the module on top of this one, Interrupts, makes    *)
(* them in its steps.                                                      *)
(***************************************************************************)
EXTENDS NodeList, Integers

CONSTANTS
  Counter, Alarm,
  CounterOf,   \* the counters the application sets each alarm on
  WORD,        \* the modulus of int32u_t (2^32 in the code)
  InitTick     \* the init_value of each counter

ASSUME CounterAssumption ==
  /\ NULL \notin Alarm
  /\ CounterOf \in [Alarm -> SUBSET Counter]
  /\ WORD \in Nat \ {0} /\ InitTick \in [Counter -> 0 .. WORD - 1]

VARIABLES
  tick, alarm_queue,   \* the members of eos_counter_t
  timeout,             \* eos_alarm_t.timeout, its queue_node's order_val too
  links                \* the links of every queue_node

counters == <<tick, alarm_queue, timeout, links>>

Queue(c) == [prev |-> links.prev, next |-> links.next, head |-> alarm_queue[c]]

(* The queue of c is l after a call. *)
SetQueue(c, l) ==
  /\ alarm_queue' = [alarm_queue EXCEPT ![c] = l.head]
  /\ links' = [prev |-> l.prev, next |-> l.next]

(* The counters, as eos_init_counter leaves them: the application does not *)
(* use one before.                                                         *)
CountersInit ==
  /\ tick = InitTick
  /\ alarm_queue = [c \in Counter |-> NULL]
  /\ timeout = [a \in Alarm |-> 0]
  /\ links = [prev |-> [a \in Alarm |-> NULL], next |-> [a \in Alarm |-> NULL]]

(* eos_init_counter *)
InitCounter(c) ==
  /\ tick' = [tick EXCEPT ![c] = InitTick[c]]
  /\ alarm_queue' = [alarm_queue EXCEPT ![c] = NULL]
  /\ UNCHANGED <<timeout, links>>

(* Mutant: an alarm that is set is added to the queue once more. *)
SetAlarmAgain(c, a, n) ==
  /\ timeout' = IF n = 0 THEN timeout
                ELSE [timeout EXCEPT ![a] = (tick[c] + n) % WORD]
  /\ SetQueue(c, IF n = 0 THEN RemoveNode(Queue(c), a)
                 ELSE AddNodeOrdered(Queue(c), a, timeout'))
  /\ UNCHANGED tick

(* eos_set_alarm; n = 0 stands for an entry that is NULL, too. *)
SetAlarm(c, a, n) ==
  LET off == RemoveNode(Queue(c), a)
  IN  /\ timeout' = IF n = 0 THEN timeout
                    ELSE [timeout EXCEPT ![a] = (tick[c] + n) % WORD]
      /\ SetQueue(c, IF n = 0 THEN off ELSE AddNodeOrdered(off, a, timeout'))
      /\ UNCHANGED tick

(* eos_trigger_counter: the tick, then the loop that fires what is due.    *)
Advance(c) ==
  /\ tick' = [tick EXCEPT ![c] = (@ + 1) % WORD]
  /\ UNCHANGED <<alarm_queue, timeout, links>>

AlarmDue(c) == alarm_queue[c] # NULL /\ timeout[alarm_queue[c]] <= tick[c]

Fire(c) ==
  /\ AlarmDue(c)
  /\ SetQueue(c, RemoveNode(Queue(c), alarm_queue[c]))
  /\ UNCHANGED <<tick, timeout>>

-----------------------------------------------------------------------------
CountersOK ==
  /\ tick \in [Counter -> 0 .. WORD - 1]
  /\ alarm_queue \in [Counter -> Alarm \cup {NULL}]
  /\ timeout \in [Alarm -> 0 .. WORD - 1]
  /\ links \in [prev : [Alarm -> Alarm \cup {NULL}], next : [Alarm -> Alarm \cup {NULL}]]
=============================================================================
