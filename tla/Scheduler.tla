------------------------------ MODULE Scheduler ------------------------------
(* Timers of the Lua scripts: mylua/utils/lua_schedule.cc on utils/time.cc.    *)
(* Each timer is two blocks, struct timer and scheduleInfo, with a repeat      *)
(* count in both, and a Lua function in the registry.  Everything runs on the  *)
(* loop thread, but the Lua function of a timer may schedule and cancel timers *)
(* in the middle of the callback, so a firing is two actions around it.        *)
EXTENDS Integers

CONSTANTS
  Timers,      \* the timers of a run: each is one allocation, never used again
  Counts,      \* the repeat counts scripts ask for; -1 is for ever (time.h:33)
  MaxCalls,    \* calls are counted up to here: bounds a timer that runs for ever
  none

ASSUME SchedulerAssumption ==
  /\ Counts \subseteq (Nat \ {0}) \cup {-1}
  /\ MaxCalls \in Nat \ {0} /\ \A n \in Counts : n <= MaxCalls
  /\ none \notin Timers

VARIABLES
  timer, info,          \* "new", "live" or "freed": struct timer, scheduleInfo
  t_count, tr_count,    \* repeatCount of the one and of the other
  functions,            \* the timers whose Lua function is registered
  running,              \* the timer whose Lua function is executing, or none
  asked, calls,         \* the count asked for; the calls so far (history)
  cancelled,            \* the timers that were cancelled (history)
  broken                \* the first use of a freed block, or none (history)

blocks == <<timer, info, t_count, tr_count, functions>>
vars == <<blocks, running, asked, calls, cancelled, broken>>

intact == broken = none

Init == /\ timer = [t \in Timers |-> "new"]
        /\ info = [t \in Timers |-> "new"]
        /\ t_count = [t \in Timers |-> 0]
        /\ tr_count = [t \in Timers |-> 0]
        /\ functions = {}
        /\ running = none
        /\ asked = [t \in Timers |-> 0]
        /\ calls = [t \in Timers |-> 0]
        /\ cancelled = {}
        /\ broken = none

(* A function uses a freed block of timer t: what follows is undefined. *)
useAfterFree(function, t) == /\ broken' = [by |-> function, of |-> t]
                             /\ UNCHANGED <<blocks, running, asked, calls, cancelled>>

------------------------------------------------------------------------------
scheduleRepeat(t, count) ==
  /\ intact /\ timer[t] = "new"
  /\ timer' = [timer EXCEPT ![t] = "live"]
  /\ info' = [info EXCEPT ![t] = "live"]
  /\ t_count' = [t_count EXCEPT ![t] = count]
  /\ tr_count' = [tr_count EXCEPT ![t] = count]
  /\ functions' = functions \cup {t}
  /\ asked' = [asked EXCEPT ![t] = count]
  /\ UNCHANGED <<running, calls, cancelled, broken>>

scheduleOnce(t) == scheduleRepeat(t, 1)

(* Mutants: counted before and after the call; counted for ever, too; a timer  *)
(* that runs for ever taken for one whose count is used up. *)
countDownTwice(n) == IF n < 0 THEN n ELSE IF n = 1 THEN 0 ELSE n - 2
countDownAlways(n) == n - 1
countDownToZero(n) == IF n > 0 THEN n - 1 ELSE 0

countDown(n) == IF n < 0 THEN n ELSE n - 1

(* libuv fires the timer: the count goes down, the Lua function is called.     *)
onUvTimer(t) ==
  /\ intact /\ running = none /\ timer[t] = "live"
  /\ IF info[t] = "freed"
     THEN useAfterFree("onUvTimer", t)
     ELSE /\ t_count' = [t_count EXCEPT ![t] = countDown(@)]
          /\ running' = t
          /\ calls' = IF t \in functions /\ calls[t] < MaxCalls
                      THEN [calls EXCEPT ![t] = @ + 1] ELSE calls
          /\ UNCHANGED <<timer, info, tr_count, functions, asked, cancelled, broken>>

(* Mutant: the Lua side also stops a timer that runs for ever. *)
lastCallAlways(t) == tr_count[t] - 1 <= 0

(* luaScheduler finds its count used up.                                       *)
lastCall(t) == tr_count[t] # -1 /\ tr_count[t] - 1 <= 0

(* The Lua function returns: luaScheduler takes its own count down, and on the *)
(* last call frees scheduleInfo; then onUvTimer looks at the other count, if   *)
(* it is one, and frees struct timer.                                          *)
luaScheduler ==
  LET t == running
      timed == t_count[t] >= 0
  IN /\ intact /\ running # none
     /\ IF info[t] = "freed" \/ (timed /\ timer[t] = "freed")
        THEN useAfterFree("luaScheduler", t)
        ELSE /\ tr_count' = [tr_count EXCEPT ![t] = IF @ = -1 THEN @ ELSE @ - 1]
             /\ functions' = IF lastCall(t) THEN functions \ {t} ELSE functions
             /\ info' = IF lastCall(t) THEN [info EXCEPT ![t] = "freed"] ELSE info
             /\ timer' = IF timed /\ t_count[t] = 0
                         THEN [timer EXCEPT ![t] = "freed"] ELSE timer
             /\ running' = none
             /\ UNCHANGED <<t_count, asked, calls, cancelled, broken>>

(* Mutant: cancelling has no effect on libuv's timer. *)
cancelTimerLuaOnly(t) ==
  /\ intact /\ timer[t] = "live" /\ running # t
  /\ cancelled' = cancelled \cup {t}
  /\ UNCHANGED <<blocks, running, asked, calls, broken>>

(* A script, the timer's own function included, cancels a timer it was given,  *)
(* at any time: nothing tells it that the timer is over or cancelled already,  *)
(* and then lua_cancelTimer reads struct timer, or frees scheduleInfo, after   *)
(* they were freed.  cancelTimer leaves a timer in its last firing to          *)
(* onUvTimer.                                                                  *)
cancelTimer(t) ==
  /\ intact /\ timer[t] # "new"
  /\ IF timer[t] = "freed" \/ info[t] = "freed"
     THEN useAfterFree("cancelTimer", t)
     ELSE /\ functions' = functions \ {t}
          /\ info' = [info EXCEPT ![t] = "freed"]
          /\ timer' = IF t_count[t] = 0 THEN timer ELSE [timer EXCEPT ![t] = "freed"]
          /\ cancelled' = cancelled \cup {t}
          /\ UNCHANGED <<t_count, tr_count, running, asked, calls, broken>>

Next == \/ luaScheduler
        \/ \E t \in Timers :
             \/ \E count \in Counts : scheduleRepeat(t, count)
             \/ scheduleOnce(t)
             \/ onUvTimer(t)
             \/ cancelTimer(t)

Spec == Init /\ [][Next]_vars

(* A Lua function returns, and libuv fires every timer that is due: it keeps   *)
(* them in the order of their time, so others cannot overtake one for ever.    *)
Fairness == /\ WF_vars(luaScheduler)
            /\ \A t \in Timers : SF_vars(onUvTimer(t))

FairSpec == Spec /\ Fairness

------------------------------------------------------------------------------
(* Type invariant of the timers (time.cc, lua_schedule.cc:6-12).               *)
TypeOK == /\ timer \in [Timers -> {"new", "live", "freed"}]
          /\ info \in [Timers -> {"new", "live", "freed"}]
          /\ t_count \in [Timers -> Nat \cup {-1}]
          /\ tr_count \in [Timers -> Nat \cup {-1}]
          /\ functions \subseteq Timers
          /\ running \in Timers \cup {none}
          /\ asked \in [Timers -> Counts \cup {0, 1}]
          /\ calls \in [Timers -> 0..MaxCalls]
          /\ cancelled \subseteq Timers
          /\ broken \in {none} \cup [by : {"onUvTimer", "luaScheduler", "cancelTimer"},
                                     of : Timers]

(* Between two callbacks the two blocks and the Lua function of a timer live   *)
(* and die together, and the two counts, which two files take down at          *)
(* different moments, agree: neither is freed by one side and used by the other.*)
Paired == \A t \in Timers : t # running =>
  /\ timer[t] = info[t]
  /\ t \in functions <=> timer[t] = "live"
  /\ timer[t] = "live" => t_count[t] = tr_count[t] /\ t_count[t] # 0

(* A timer that is over was called exactly as often as the script asked, unless *)
(* it was cancelled, and no timer is ever called more often.                   *)
ExactCalls == \A t \in Timers :
  /\ asked[t] > 0 => calls[t] <= asked[t]
  /\ timer[t] = "freed" /\ t \notin cancelled => calls[t] = asked[t]

(* The function of a cancelled timer is not called again.                      *)
SilentAfterCancel == [][\A t \in cancelled : calls'[t] = calls[t]]_vars

(* A timer with a count ends; one asked to run for ever runs again and again    *)
(* until it is cancelled (the gateway's checkConnected depends on it).         *)
RunsOn == \A t \in Timers :
  /\ asked[t] > 0 ~> (timer[t] = "freed" \/ ~intact)
  /\ asked[t] = -1 ~> (t \in cancelled \/ running = t \/ ~intact)
  /\ running = t ~> (running = none \/ ~intact)

(* A block is used after it was freed only by a cancel the code does not       *)
(* expect: luaScheduler goes on with the scheduleInfo of a timer that was      *)
(* cancelled by its own function (cancelTimer takes only its own half of that  *)
(* into account, time.cc:52), or lua_cancelTimer is called for a timer that    *)
(* was cancelled before or has made all its calls.  Firings never do, whatever *)
(* is scheduled and cancelled meanwhile.                                       *)
OnlyCancelsBreak == ~intact =>
  LET t == broken.of
  IN \/ broken.by = "luaScheduler" /\ running = t /\ t \in cancelled
     \/ broken.by = "cancelTimer" /\ (t \in cancelled \/ calls[t] = asked[t])

(* What scripts are told of a timer: the calls that are left are the count in  *)
(* struct timer while it is there, and none once it was cancelled.             *)
callsLeft(t) == IF timer[t] = "live" /\ t \notin cancelled THEN t_count[t] ELSE 0

T == INSTANCE RepeatTimers WITH scheduled <- {t \in Timers : timer[t] # "new"},
                                due <- [t \in Timers |-> callsLeft(t)]

(* Two blocks with a count each, taken down in two files at two moments, are   *)
(* one timer to the scripts: its function is called once for every call that   *)
(* was due, and never when none is (what follows the use of a freed block is   *)
(* undefined, and not part of it).                                             *)
ImplementsTimers == T!Spec
=============================================================================
