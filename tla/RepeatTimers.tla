---------------------------- MODULE RepeatTimers ----------------------------
(* What a Lua script relies on when it schedules a function: the function is   *)
(* called as often as was asked for, one function at a time, and not again     *)
(* once the timer is cancelled, whatever the functions schedule and cancel.    *)
(* One number says all of a timer: module Scheduler implements it with two     *)
(* counts in two blocks (utils/time.cc, mylua/utils/lua_schedule.cc).          *)
EXTENDS Integers

CONSTANTS
  Timers,
  Counts,       \* the repeat counts that are asked for; -1 is for ever
  MaxCalls,     \* calls are counted up to here
  none

VARIABLES
  scheduled,    \* the timers that were scheduled, those that are over included
  due,          \* due[t]: the calls still to come; -1 for ever, 0 when it is over
  running,      \* the timer whose function is being called, or none
  calls         \* calls[t]: the calls made

timerVars == <<scheduled, due, running, calls>>

Init == /\ scheduled = {}
        /\ due = [t \in Timers |-> 0]
        /\ running = none
        /\ calls = [t \in Timers |-> 0]

Schedule(t, count) == /\ t \notin scheduled
                      /\ scheduled' = scheduled \cup {t}
                      /\ due' = [due EXCEPT ![t] = count]
                      /\ UNCHANGED <<running, calls>>

Call(t) == /\ running = none /\ due[t] # 0
           /\ running' = t
           /\ due' = [due EXCEPT ![t] = IF @ = -1 THEN @ ELSE @ - 1]
           /\ calls' = [calls EXCEPT ![t] = IF @ < MaxCalls THEN @ + 1 ELSE @]
           /\ UNCHANGED scheduled

Return == /\ running # none
          /\ running' = none
          /\ UNCHANGED <<scheduled, due, calls>>

Cancel(t) == /\ t \in scheduled
             /\ due' = [due EXCEPT ![t] = 0]
             /\ UNCHANGED <<scheduled, running, calls>>

Next == \/ Return
        \/ \E t \in Timers : \/ \E count \in Counts \cup {1} : Schedule(t, count)
                             \/ Call(t)
                             \/ Cancel(t)

Spec == Init /\ [][Next]_timerVars
=============================================================================
