--------------------------- MODULE Scheduler_proofs ---------------------------
(* Proofs about module Scheduler, for any number of timers and any counts: the *)
(* two halves of a timer agree whatever its Lua functions schedule and cancel, *)
(* and memory that was freed is only used by way of a cancel.                  *)
EXTENDS Scheduler, TLAPS

(* A timer whose function is not executing. *)
Resting(t) == /\ timer[t] = info[t]
              /\ t \in functions <=> timer[t] = "live"
              /\ timer[t] = "live" => t_count[t] = tr_count[t] /\ t_count[t] # 0

(* The timer whose function is executing: its first count is taken down, the   *)
(* other is not; once it has cancelled itself the Lua half is gone.            *)
Firing(t) == IF t \in cancelled
             THEN info[t] = "freed" /\ timer[t] \in {"live", "freed"}
             ELSE /\ timer[t] = "live" /\ info[t] = "live" /\ t \in functions
                  /\ tr_count[t] # 0 /\ t_count[t] = countDown(tr_count[t])

(* Calls made and calls to come add up to the calls asked for. *)
Counted(t) ==
  /\ t \in cancelled => t \notin functions /\ timer[t] # "new"
  /\ timer[t] = "new" => calls[t] = 0 /\ t # running
  /\ asked[t] > 0 => calls[t] <= asked[t]
  /\ t \notin cancelled /\ timer[t] = "live" =>
       IF t_count[t] = -1 THEN asked[t] = -1 ELSE calls[t] + t_count[t] = asked[t]
  /\ t \notin cancelled /\ timer[t] = "freed" => calls[t] = asked[t]

Life == \A t \in Timers : /\ IF t = running THEN Firing(t) ELSE Resting(t)
                          /\ Counted(t)

IInv == TypeOK /\ Life /\ OnlyCancelsBreak

LEMMA CountsAreInts ==
  \A n \in Counts \cup {1} : n \in Int /\ (n >= 1 \/ n = -1) /\ n <= MaxCalls
BY SchedulerAssumption

(* Most steps concern one timer: what holds of the others, whose part of every *)
(* function is as before, is kept.                                             *)
Untouched(t) == /\ UNCHANGED <<timer[t], info[t], t_count[t], tr_count[t], asked[t], calls[t]>>
                /\ t \in functions <=> t \in functions'
                /\ t \in cancelled <=> t \in cancelled'

LEMMA OthersKept ==
  ASSUME Life, NEW t \in Timers, Untouched(t), t # running, t # running'
  PROVE  Resting(t)' /\ Counted(t)'
BY Zenon DEF Life, Untouched, Resting, Counted

------------------------------------------------------------------------------
LEMMA Schedule ==
  ASSUME IInv, NEW t \in Timers, NEW count \in Counts \cup {1}, scheduleRepeat(t, count)
  PROVE  IInv'
<1>1. /\ intact /\ timer[t] = "new" /\ t # running /\ calls[t] = 0 /\ t \notin cancelled
      /\ count \in Int /\ (count >= 1 \/ count = -1) /\ count <= MaxCalls
  BY CountsAreInts DEF IInv, Life, Counted, scheduleRepeat
<1>2. TypeOK'
  BY <1>1, SchedulerAssumption DEF IInv, TypeOK, scheduleRepeat
<1>3. Resting(t)' /\ Counted(t)'
  BY <1>1 DEF IInv, TypeOK, scheduleRepeat, Resting, Counted
<1>4. ASSUME NEW u \in Timers, u # t
      PROVE  (IF u = running THEN Firing(u) ELSE Resting(u))' /\ Counted(u)'
  BY <1>4 DEF IInv, TypeOK, Life, scheduleRepeat, Firing, Resting, Counted
<1> QED
  BY <1>1, <1>2, <1>3, <1>4 DEF IInv, Life, OnlyCancelsBreak, scheduleRepeat, intact

LEMMA Fire ==
  ASSUME IInv, NEW t \in Timers, onUvTimer(t)
  PROVE  IInv'
<1>1. /\ intact /\ running = none /\ timer[t] = "live" /\ t # running
      /\ \A u \in Timers : u # running
  BY SchedulerAssumption DEF onUvTimer
<1>2. Resting(t) /\ Counted(t)
  BY <1>1 DEF IInv, Life
<1>3. /\ info[t] = "live" /\ t \in functions /\ t \notin cancelled
      /\ tr_count[t] = t_count[t] /\ t_count[t] # 0
  BY <1>1, <1>2 DEF Resting, Counted
<1>4. /\ t_count' = [t_count EXCEPT ![t] = countDown(@)]
      /\ running' = t
      /\ calls' = IF calls[t] < MaxCalls THEN [calls EXCEPT ![t] = @ + 1] ELSE calls
      /\ UNCHANGED <<timer, info, tr_count, functions, asked, cancelled, broken>>
  BY <1>3 DEF onUvTimer
<1>5. /\ t_count[t] \in Int /\ (t_count[t] >= 1 \/ t_count[t] = -1)
      /\ calls[t] \in Nat /\ calls[t] <= MaxCalls
      /\ asked[t] \in Int /\ asked[t] <= MaxCalls /\ MaxCalls \in Nat
  <2>1. t_count[t] \in Nat \cup {-1} /\ calls[t] \in 0..MaxCalls /\ MaxCalls \in Nat
    BY SchedulerAssumption DEF IInv, TypeOK
  <2>2. asked[t] \in Counts \cup {0, 1}
    BY DEF IInv, TypeOK
  <2>3. asked[t] \in Int /\ asked[t] <= MaxCalls
    BY <2>1, <2>2, CountsAreInts
  <2> QED
    BY <1>3, <2>1, <2>3
<1>6. TypeOK'
  BY <1>4, <1>5 DEF IInv, TypeOK, countDown
<1>7. Firing(t)' /\ Counted(t)'
  <2>1. t_count'[t] = countDown(t_count[t])
    BY <1>4 DEF IInv, TypeOK
  <2>2. calls'[t] = IF calls[t] < MaxCalls THEN calls[t] + 1 ELSE calls[t]
    BY <1>4 DEF IInv, TypeOK
  <2>3. Firing(t)'
    BY <1>1, <1>3, <1>4, <2>1 DEF Firing
  <2>4. IF t_count[t] = -1 THEN asked[t] = -1 ELSE calls[t] + t_count[t] = asked[t]
    BY <1>1, <1>2, <1>3 DEF Counted
  <2>5. IF t_count'[t] = -1 THEN asked[t] = -1 ELSE calls'[t] + t_count'[t] = asked[t]
    BY <1>5, <2>1, <2>2, <2>4 DEF countDown
  <2>6. asked[t] > 0 => calls'[t] <= asked[t]
    BY <1>5, <2>1, <2>2, <2>4 DEF countDown
  <2> QED
    BY <1>1, <1>3, <1>4, <2>3, <2>5, <2>6 DEF Counted
<1>8. ASSUME NEW u \in Timers, u # t PROVE Resting(u)' /\ Counted(u)'
  <2>1. Untouched(u)
    BY <1>4, <1>8 DEF IInv, TypeOK, Untouched
  <2> QED
    BY <1>1, <1>4, <1>8, <2>1, OthersKept DEF IInv
<1> QED
  BY <1>1, <1>4, <1>6, <1>7, <1>8 DEF IInv, Life, OnlyCancelsBreak, intact

(* The use of a freed block changes nothing else.                              *)
LEMMA Broken ==
  ASSUME IInv, NEW t \in Timers, NEW by \in {"onUvTimer", "luaScheduler", "cancelTimer"},
         useAfterFree(by, t), OnlyCancelsBreak'
  PROVE  IInv'
<1>1. TypeOK'
  BY DEF IInv, TypeOK, useAfterFree, blocks
<1>2. Life'
  BY DEF IInv, Life, Firing, Resting, Counted, useAfterFree, blocks
<1> QED
  BY <1>1, <1>2 DEF IInv

LEMMA Return ==
  ASSUME IInv, luaScheduler
  PROVE  IInv'
<1>0. PICK t \in Timers : t = running
  BY DEF IInv, TypeOK, luaScheduler
<1>1. intact /\ Firing(t) /\ Counted(t)
  BY <1>0 DEF IInv, Life, luaScheduler
<1>2. CASE t \in cancelled
  <2>1. useAfterFree("luaScheduler", t)
    BY <1>0, <1>1, <1>2 DEF luaScheduler, Firing
  <2>2. OnlyCancelsBreak'
    BY <1>0, <1>2, <2>1 DEF useAfterFree, OnlyCancelsBreak, intact
  <2> QED
    BY <2>1, <2>2, Broken
<1>3. CASE t \notin cancelled
  <2>1. /\ timer[t] = "live" /\ info[t] = "live" /\ t \in functions
        /\ tr_count[t] # 0 /\ t_count[t] = countDown(tr_count[t])
        /\ tr_count[t] \in Int /\ (tr_count[t] >= 1 \/ tr_count[t] = -1)
    BY <1>1, <1>3 DEF Firing, IInv, TypeOK
  <2>2. /\ tr_count' = [tr_count EXCEPT ![t] = IF @ = -1 THEN @ ELSE @ - 1]
        /\ functions' = IF lastCall(t) THEN functions \ {t} ELSE functions
        /\ info' = IF lastCall(t) THEN [info EXCEPT ![t] = "freed"] ELSE info
        /\ timer' = IF t_count[t] >= 0 /\ t_count[t] = 0
                    THEN [timer EXCEPT ![t] = "freed"] ELSE timer
        /\ running' = none
        /\ UNCHANGED <<t_count, asked, calls, cancelled, broken>>
    BY <1>0, <2>1 DEF luaScheduler
  <2>3. lastCall(t) <=> t_count[t] = 0
    BY <2>1 DEF lastCall, countDown
  <2>4. TypeOK'
    BY <1>1, <2>1, <2>2 DEF IInv, TypeOK
  <2>5. Resting(t)' /\ Counted(t)'
    <3>1. tr_count'[t] = t_count[t]
      BY <1>1, <2>1, <2>2 DEF IInv, TypeOK, countDown
    <3>2. /\ timer'[t] = IF t_count[t] = 0 THEN "freed" ELSE "live"
          /\ info'[t] = IF t_count[t] = 0 THEN "freed" ELSE "live"
          /\ t \in functions' <=> t_count[t] # 0
      BY <1>1, <2>1, <2>2, <2>3 DEF IInv, TypeOK
    <3>3. Resting(t)'
      BY <2>2, <3>1, <3>2 DEF Resting
    <3>4. IF t_count[t] = -1 THEN asked[t] = -1 ELSE calls[t] + t_count[t] = asked[t]
      BY <1>1, <1>3, <2>1 DEF Counted
    <3>5. calls[t] \in Int
      BY <1>1, SchedulerAssumption DEF IInv, TypeOK
    <3>6. t_count[t] = 0 => calls[t] = asked[t]
      BY <3>4, <3>5
    <3>7. asked[t] > 0 => calls[t] <= asked[t]
      BY <1>1 DEF Counted
    <3>8. timer'[t] # "new"
      BY <3>2
    <3> QED
      BY <1>1, <1>3, <2>2, <3>2, <3>3, <3>4, <3>6, <3>7, <3>8 DEF Counted
  <2>6. ASSUME NEW u \in Timers, u # t PROVE Resting(u)' /\ Counted(u)'
    <3>1. Untouched(u)
      BY <2>2, <2>6 DEF IInv, TypeOK, Untouched
    <3>2. u # none
      BY SchedulerAssumption
    <3> QED
      BY <1>0, <2>2, <2>6, <3>1, <3>2, OthersKept DEF IInv
  <2>7. \A u \in Timers : u # running'
    BY <2>2, SchedulerAssumption
  <2> QED
    BY <1>1, <2>2, <2>4, <2>5, <2>6, <2>7 DEF IInv, Life, OnlyCancelsBreak, intact
<1> QED
  BY <1>2, <1>3

(* A cancel of a timer that is there; the other half of its blocks is, too,    *)
(* unless its own function has cancelled it.                                   *)
LEMMA CancelLive ==
  ASSUME IInv, NEW t \in Timers, cancelTimer(t), timer[t] # "freed", info[t] # "freed"
  PROVE  IInv'
<1>0. t \notin cancelled /\ timer[t] = "live"
  BY DEF IInv, TypeOK, Life, Firing, Resting, Counted, cancelTimer
<1>1. /\ intact /\ timer[t] = "live" /\ t \notin cancelled
      /\ functions' = functions \ {t}
      /\ info' = [info EXCEPT ![t] = "freed"]
      /\ timer' = IF t_count[t] = 0 THEN timer ELSE [timer EXCEPT ![t] = "freed"]
      /\ cancelled' = cancelled \cup {t}
      /\ UNCHANGED <<t_count, tr_count, running, asked, calls, broken>>
  BY <1>0 DEF cancelTimer
<1>2. TypeOK'
  BY <1>1 DEF IInv, TypeOK
<1>3. Counted(t)'
  BY <1>1 DEF IInv, TypeOK, Life, Counted
<1>4. CASE t = running
  <2>1. Firing(t)'
    BY <1>1 DEF IInv, TypeOK, Firing
  <2>2. ASSUME NEW u \in Timers, u # t PROVE Resting(u)' /\ Counted(u)'
    <3>1. Untouched(u)
      BY <1>1, <2>2 DEF IInv, TypeOK, Untouched
    <3> QED
      BY <1>1, <1>4, <2>2, <3>1, OthersKept DEF IInv
  <2> QED
    BY <1>1, <1>2, <1>3, <1>4, <2>1, <2>2 DEF IInv, Life, OnlyCancelsBreak, intact
<1>5. CASE t # running
  <2>1. Resting(t)'
    <3>1. t_count[t] # 0
      BY <1>1, <1>5 DEF IInv, Life, Resting
    <3> QED
      BY <1>1, <3>1 DEF IInv, TypeOK, Resting
  <2>2. ASSUME NEW u \in Timers, u # t
        PROVE  (IF u = running THEN Firing(u) ELSE Resting(u))' /\ Counted(u)'
    <3>1. Untouched(u)
      BY <1>1, <2>2 DEF IInv, TypeOK, Untouched
    <3>2. CASE u # running
      BY <1>1, <3>1, <3>2, OthersKept DEF IInv
    <3>3. CASE u = running
      <4>1. Firing(u) /\ Counted(u)
        BY <3>3 DEF IInv, Life
      <4>2. Firing(u)'
        BY <3>1, <4>1 DEF Untouched, Firing, countDown
      <4>3. Counted(u)'
        BY <1>1, <3>1, <4>1 DEF Untouched, Counted
      <4> QED
        BY <1>1, <3>3, <4>2, <4>3
    <3> QED
      BY <3>2, <3>3
  <2> QED
    BY <1>1, <1>2, <1>3, <1>5, <2>1, <2>2 DEF IInv, Life, OnlyCancelsBreak, intact
<1> QED
  BY <1>4, <1>5

(* A cancel that comes too late, or for the second time.                       *)
LEMMA CancelFreed ==
  ASSUME IInv, NEW t \in Timers, cancelTimer(t), timer[t] = "freed" \/ info[t] = "freed"
  PROVE  IInv'
<1>1. useAfterFree("cancelTimer", t)
  BY DEF cancelTimer
<1>2. t \in cancelled \/ calls[t] = asked[t]
  BY DEF IInv, Life, Firing, Resting, Counted
<1>3. OnlyCancelsBreak'
  BY <1>1, <1>2 DEF useAfterFree, OnlyCancelsBreak
<1> QED
  BY <1>1, <1>3, Broken

LEMMA Cancel ==
  ASSUME IInv, NEW t \in Timers, cancelTimer(t)
  PROVE  IInv'
BY CancelLive, CancelFreed

------------------------------------------------------------------------------
LEMMA InitIInv == Init => IInv
<1> SUFFICES ASSUME Init PROVE IInv
  OBVIOUS
<1>1. TypeOK
  BY SchedulerAssumption DEF Init, TypeOK
<1>2. Life
  <2> SUFFICES ASSUME NEW t \in Timers
               PROVE  t # running /\ Resting(t) /\ Counted(t)
    BY DEF Life
  <2>1. /\ timer[t] = "new" /\ info[t] = "new" /\ t \notin functions
        /\ asked[t] = 0 /\ calls[t] = 0 /\ t \notin cancelled /\ t # running
    BY SchedulerAssumption DEF Init
  <2> QED
    BY <2>1 DEF Resting, Counted
<1> QED
  BY <1>1, <1>2 DEF Init, IInv, OnlyCancelsBreak, intact

LEMMA NextIInv == IInv /\ [Next]_vars => IInv'
<1> SUFFICES ASSUME IInv, [Next]_vars PROVE IInv'
  OBVIOUS
<1>1. CASE luaScheduler
  BY <1>1, Return
<1>2. ASSUME NEW t \in Timers, NEW count \in Counts, scheduleRepeat(t, count) PROVE IInv'
  BY <1>2, Schedule
<1>3. ASSUME NEW t \in Timers, scheduleOnce(t) PROVE IInv'
  BY <1>3, Schedule DEF scheduleOnce
<1>4. ASSUME NEW t \in Timers, onUvTimer(t) PROVE IInv'
  BY <1>4, Fire
<1>5. ASSUME NEW t \in Timers, cancelTimer(t) PROVE IInv'
  BY <1>5, Cancel
<1>6. CASE UNCHANGED vars
  BY <1>6 DEF vars, blocks, IInv, TypeOK, Life, OnlyCancelsBreak, intact, Firing, Resting, Counted
<1> QED
  BY <1>1, <1>2, <1>3, <1>4, <1>5, <1>6 DEF Next

THEOREM Inductive == Spec => []IInv
BY InitIInv, NextIInv, PTL DEF Spec

(* The variables of both halves of a timer keep their types (time.cc,          *)
(* lua_schedule.cc:6-12).                                                      *)
THEOREM TypeCorrect == Spec => []TypeOK
<1>1. IInv => TypeOK
  BY DEF IInv
<1> QED
  BY <1>1, Inductive, PTL

(* Between two callbacks struct timer, scheduleInfo and the Lua function live  *)
(* and die together and their counts agree, for any number of timers.          *)
THEOREM HalvesAgree == Spec => []Paired
<1>1. IInv => Paired
  BY DEF IInv, Life, Paired, Resting
<1> QED
  BY <1>1, Inductive, PTL

(* Whatever count a script asks for, and whatever timers schedule and cancel   *)
(* meanwhile, the function is called that often, and never more.               *)
THEOREM CallsExact == Spec => []ExactCalls
<1>1. IInv => ExactCalls
  BY DEF IInv, Life, Counted, ExactCalls
<1> QED
  BY <1>1, Inductive, PTL

(* lua_schedule.cc and time.cc use freed memory only by way of a cancel: the   *)
(* function that is executing has cancelled its own timer, or a timer is       *)
(* cancelled that is over or was cancelled before.                             *)
THEOREM CancelsOnly == Spec => []OnlyCancelsBreak
<1>1. IInv => OnlyCancelsBreak
  BY DEF IInv
<1> QED
  BY <1>1, Inductive, PTL

(* After lua_cancelTimer the function of the timer is not called again.        *)
THEOREM CancelSilences == Spec => SilentAfterCancel
<1>1. IInv /\ [Next]_vars => [\A t \in cancelled : calls'[t] = calls[t]]_vars
  <2> SUFFICES ASSUME IInv, [Next]_vars, NEW t \in cancelled
               PROVE  calls'[t] = calls[t] \/ UNCHANGED vars
    OBVIOUS
  <2>1. t \in Timers /\ t \notin functions
    BY DEF IInv, TypeOK, Life, Counted
  <2>2. ASSUME NEW u \in Timers, onUvTimer(u) PROVE calls'[t] = calls[t]
    BY <2>1, <2>2 DEF onUvTimer, useAfterFree, IInv, TypeOK
  <2>3. CASE luaScheduler
    BY <2>3 DEF luaScheduler, useAfterFree
  <2> QED
    BY <2>2, <2>3 DEF Next, scheduleRepeat, scheduleOnce, cancelTimer, useAfterFree
<1> QED
  BY <1>1, Inductive, PTL DEF Spec, SilentAfterCancel

------------------------------------------------------------------------------
(* The two halves of a timer and the one timer of RepeatTimers: what each step *)
(* does to the calls that are left.                                            *)
known == {t \in Timers : timer[t] # "new"}
left == [t \in Timers |-> callsLeft(t)]

LEMMA ScheduleStep ==
  ASSUME IInv, NEW t \in Timers, NEW count \in Counts \cup {1}, scheduleRepeat(t, count)
  PROVE  T!Schedule(t, count)
<1>1. /\ timer[t] = "new" /\ t \notin cancelled
      /\ timer' = [timer EXCEPT ![t] = "live"]
      /\ t_count' = [t_count EXCEPT ![t] = count]
      /\ UNCHANGED <<running, calls, cancelled>>
  BY DEF IInv, Life, Counted, scheduleRepeat
<1>2. known' = known \cup {t} /\ t \notin known
  BY <1>1 DEF known, IInv, TypeOK
<1>3. left' = [left EXCEPT ![t] = count]
  BY <1>1 DEF left, callsLeft, IInv, TypeOK
<1> QED
  BY <1>1, <1>2, <1>3 DEF T!Schedule, known, left

LEMMA FireStep ==
  ASSUME IInv, NEW t \in Timers, onUvTimer(t)
  PROVE  T!Call(t)
<1>1. /\ running = none /\ timer[t] = "live" /\ Resting(t) /\ Counted(t)
  BY SchedulerAssumption DEF onUvTimer, IInv, Life
<1>2. t \in functions /\ info[t] = "live" /\ t \notin cancelled /\ t_count[t] # 0
  BY <1>1 DEF Resting, Counted
<1>3. /\ t_count' = [t_count EXCEPT ![t] = countDown(@)]
      /\ running' = t
      /\ calls' = IF calls[t] < MaxCalls THEN [calls EXCEPT ![t] = @ + 1] ELSE calls
      /\ UNCHANGED <<timer, cancelled>>
  BY <1>2 DEF onUvTimer
<1>4. countDown(t_count[t]) = IF t_count[t] = -1 THEN t_count[t] ELSE t_count[t] - 1
  BY SMT DEF countDown, IInv, TypeOK
<1>5. left[t] = t_count[t] /\ left' = [left EXCEPT ![t] = IF @ = -1 THEN @ ELSE @ - 1]
  BY <1>1, <1>2, <1>3, <1>4 DEF left, callsLeft, IInv, TypeOK
<1>6. calls' = [calls EXCEPT ![t] = IF @ < MaxCalls THEN @ + 1 ELSE @]
  BY <1>3 DEF IInv, TypeOK
<1>7. known' = known
  BY <1>3 DEF known
<1> QED
  BY <1>1, <1>2, <1>3, <1>5, <1>6, <1>7 DEF T!Call, known, left

(* scheduleInfo goes, and with it struct timer, when no call is left.          *)
LEMMA ReturnStep ==
  ASSUME IInv, luaScheduler
  PROVE  T!Return \/ UNCHANGED T!timerVars
<1>1. PICK t \in Timers : t = running
  BY DEF IInv, TypeOK, luaScheduler
<1>2. CASE useAfterFree("luaScheduler", t)
  BY <1>2 DEF useAfterFree, blocks, T!timerVars, callsLeft
<1>3. CASE ~useAfterFree("luaScheduler", t)
  <2>1. /\ running # none /\ running' = none
        /\ timer' = IF t_count[t] >= 0 /\ t_count[t] = 0
                    THEN [timer EXCEPT ![t] = "freed"] ELSE timer
        /\ UNCHANGED <<t_count, calls, cancelled>>
    BY <1>1, <1>3 DEF luaScheduler
  <2>2. timer[t] # "new"
    BY <1>1 DEF IInv, Life, Counted
  <2>3. known' = known
    BY <2>1, <2>2 DEF known, IInv, TypeOK
  <2>4. left' = left
    BY <2>1 DEF left, callsLeft, IInv, TypeOK
  <2> QED
    BY <2>1, <2>3, <2>4 DEF T!Return, known, left
<1> QED
  BY <1>2, <1>3

LEMMA CancelStep ==
  ASSUME IInv, NEW t \in Timers, cancelTimer(t)
  PROVE  T!Cancel(t) \/ UNCHANGED T!timerVars
<1>0. CASE useAfterFree("cancelTimer", t)
  BY <1>0 DEF useAfterFree, blocks, T!timerVars, callsLeft
<1>1. CASE ~useAfterFree("cancelTimer", t)
  <2>1. /\ timer[t] # "new" /\ timer[t] # "freed"
        /\ timer' = IF t_count[t] = 0 THEN timer ELSE [timer EXCEPT ![t] = "freed"]
        /\ cancelled' = cancelled \cup {t}
        /\ UNCHANGED <<t_count, running, calls>>
    BY <1>1 DEF cancelTimer
  <2>2. timer[t] = "live"
    BY <2>1 DEF IInv, TypeOK
  <2>3. known' = known /\ t \in known
    BY <2>1 DEF known, IInv, TypeOK
  <2>4. left' = [left EXCEPT ![t] = 0]
    BY <2>1, <2>2 DEF left, callsLeft, IInv, TypeOK
  <2> QED
    BY <2>1, <2>3, <2>4 DEF T!Cancel, known, left
<1> QED
  BY <1>0, <1>1

(* lua_schedule.cc on time.cc is the timer the scripts see, for any number of  *)
(* timers and any counts: the two blocks and the two counts come to one count, *)
(* and every call goes to a Lua function that is still registered.             *)
THEOREM RefinesTimers == Spec => ImplementsTimers
<1>1. Init => T!Init
  <2> SUFFICES ASSUME Init PROVE T!Init
    OBVIOUS
  <2>1. known = {} /\ left = [t \in Timers |-> 0]
    BY DEF Init, known, left, callsLeft
  <2> QED
    BY <2>1 DEF Init, T!Init, known, left
<1>2. IInv /\ [Next]_vars => [T!Next]_(T!timerVars)
  <2> SUFFICES ASSUME IInv, [Next]_vars PROVE T!Next \/ UNCHANGED T!timerVars
    OBVIOUS
  <2>1. CASE luaScheduler
    BY <2>1, ReturnStep DEF T!Next
  <2>2. ASSUME NEW t \in Timers, NEW count \in Counts, scheduleRepeat(t, count)
        PROVE  T!Next
    BY <2>2, ScheduleStep DEF T!Next
  <2>3. ASSUME NEW t \in Timers, scheduleOnce(t) PROVE T!Next
    <3>1. T!Schedule(t, 1)
      BY <2>3, ScheduleStep DEF scheduleOnce
    <3> QED
      BY <3>1 DEF T!Next
  <2>4. ASSUME NEW t \in Timers, onUvTimer(t) PROVE T!Next
    BY <2>4, FireStep DEF T!Next
  <2>5. ASSUME NEW t \in Timers, cancelTimer(t) PROVE T!Next \/ UNCHANGED T!timerVars
    BY <2>5, CancelStep DEF T!Next
  <2>6. CASE UNCHANGED vars
    BY <2>6 DEF vars, blocks, T!timerVars, callsLeft
  <2> QED
    BY <2>1, <2>2, <2>3, <2>4, <2>5, <2>6 DEF Next
<1> QED
  BY <1>1, <1>2, Inductive, PTL DEF Spec, ImplementsTimers, T!Spec
=============================================================================
