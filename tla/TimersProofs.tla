---------------------------- MODULE TimersProofs ----------------------------
(***************************************************************************)
(* Theorems about Timers, for every duration, every number of stores and   *)
(* every lag of the uptime that the model tells apart.                     *)
(***************************************************************************)
EXTENDS Timers, TLAPS

(* TypeOK in parts. *)
MainType ==
    /\ boot \in {"clock", "timer", "power", "done", "failed"} /\ powerState \in BOOLEAN
    /\ main \in {"running", "joinClock", "killTimer", "signalTimer", "joinTimer", "gone"}
    /\ dimerRepeat \in BOOLEAN /\ dimerDie \in BOOLEAN
    /\ missedKill \in BOOLEAN /\ overslept \in BOOLEAN
TimerType ==
    /\ dimerDuration \in 0 .. MaxDuration /\ durationRegister \in 0 .. MaxDuration
    /\ timer \in {"none", "start", "enterWait", "wait", "woken", "sleep", "clear", "dead"}
CpuType ==
    cpu \in [step : {"outside", "signal"}] \cup [step : {"set"}, duration : 0 .. MaxDuration]
ClockType ==
    /\ clock \in {"none", "start", "write", "wait", "woken", "dead"}
    /\ late \in BOOLEAN /\ due \in 0 .. 2 /\ ahead \in - MaxLag .. 2
HistoryType ==
    /\ accesses \in 0 .. MaxAccesses
    /\ causes \subseteq {"half", "unheard", "spurious", "crossed"}

(* The timer is told to die before it is signalled.                        *)
DieInv == main = "signalTimer" => dimerDie

(* What a handler has stored so far is in the register, and a timer that   *)
(* runs, or is about to, was signalled by a handler that had stored its    *)
(* duration; or else one of the excuses of RegisterShowsTimer applies.     *)
DurationInv ==
    causes \cap {"half", "spurious", "crossed"} = {} =>
        /\ cpu.step = "set" => durationRegister = cpu.duration
        /\ cpu.step = "signal" => durationRegister = dimerDuration
        /\ cpu = Outside /\ (timer = "sleep" \/ (timer = "woken" /\ ~ dimerDie))
              => durationRegister = dimerDuration

(* While the clock waits, the uptime and the end of the wait come nearer   *)
(* together; it stops with the power only, unless it overslept.            *)
ClockInv ==
    /\ powerState => boot = "done"
    /\ clock = "wait" => ahead >= due - 2
    /\ clock \in {"write", "woken"} => ahead >= -2
    /\ clock = "dead" /\ ~ overslept => boot = "done" /\ ~ powerState

(* The inductive invariant. *)
IInv ==
    /\ MainType /\ TimerType /\ CpuType /\ ClockType /\ HistoryType
    /\ DieInv /\ DurationInv /\ ClockInv
-----------------------------------------------------------------------------
LEMMA InitIInv == Init => IInv
  <1> SUFFICES ASSUME Init PROVE IInv
    OBVIOUS
  <1> USE TimersAssumption DEF TimersAssumption, Init, Outside
  <1>0. MainType
    BY DEF MainType
  <1>1. TimerType
    BY DEF TimerType
  <1>2. CpuType
    BY DEF CpuType
  <1>3. ClockType /\ ClockInv
    BY DEF ClockType, ClockInv
  <1>4. HistoryType
    BY DEF HistoryType
  <1>5. DurationInv
    BY DEF DurationInv
  <1>6. DieInv
    BY DEF DieInv
  <1> QED BY <1>0, <1>1, <1>2, <1>3, <1>4, <1>5, <1>6 DEF IInv

(* Boot, teardown and the power: they touch neither the timer's duration   *)
(* nor the times of the clock.                                             *)
LEMMA MainThreadIInv == IInv /\ (MainThread \/ BootFails \/ PowerOff) => IInv'
  <1> SUFFICES ASSUME IInv, MainThread \/ BootFails \/ PowerOff PROVE IInv'
    OBVIOUS
  <1> USE DEF IInv, MainThread, CreateClock, CreateTimer, PowerOn, KillClock, JoinClock, SetDie,
              SignalDie, JoinTimer, BootFails, PowerOff, Signalled, dimer, time, histories
  <1>1. MainType'
    BY DEF MainType
  <1>2. TimerType'
    BY DEF TimerType
  <1>7. CpuType'
    BY DEF CpuType
  <1>8. HistoryType'
    BY DEF HistoryType
  <1>3. ClockType'
    BY DEF ClockType
  <1>4. DurationInv'
    <2>1. CASE SignalDie
      BY <2>1 DEF DieInv, DurationInv
    <2>2. CASE KillClock
      BY <2>2 DEF DurationInv
    <2>3. CASE CreateTimer
      BY <2>3 DEF DurationInv
    <2>4. CASE SetDie
      BY <2>4 DEF DurationInv
    <2>5. CASE CreateClock \/ PowerOn \/ JoinClock \/ JoinTimer \/ BootFails \/ PowerOff
      BY <2>5 DEF DurationInv
    <2> QED BY <2>1, <2>2, <2>3, <2>4, <2>5
  <1>5. ClockInv'
    BY DEF MainType, ClockType, ClockInv
  <1>6. DieInv'
    BY DEF DieInv
  <1> QED BY <1>1, <1>2, <1>3, <1>4, <1>5, <1>6, <1>7, <1>8 DEF IInv

(* A store to the duration passes through the register, dimerDuration and  *)
(* the signal in this order.                                               *)
LEMMA ProcessorIInv == IInv /\ (Program \/ Handler) => IInv'
  <1> SUFFICES ASSUME IInv, Program \/ Handler PROVE IInv'
    OBVIOUS
  <1> USE DEF IInv, Program, Handler, Access, StoreConfig, StoreDuration, StoreHalfDuration,
              SetDuration, SignalDuration, Signalled, dimer, time, histories, Outside
  <1>1. MainType'
    BY DEF MainType
  <1>2. TimerType'
    BY DEF TimerType, CpuType
  <1>7. CpuType'
    BY DEF CpuType
  <1>8. HistoryType'
    <2>0. CASE StoreConfig
      <3>1. accesses < MaxAccesses /\ accesses' = accesses + 1 /\ causes' = causes
        BY <2>0
      <3> QED BY <3>1, TimersAssumption DEF HistoryType, TimersAssumption
    <2>1. CASE SetDuration
      BY <2>1 DEF HistoryType
    <2>2. CASE \E d \in 0 .. MaxDuration : StoreDuration(d)
      BY <2>2, TimersAssumption DEF HistoryType, TimersAssumption
    <2>3. CASE \E d \in 0 .. MaxDuration : StoreHalfDuration(d)
      BY <2>3, TimersAssumption DEF HistoryType, TimersAssumption
    <2>4. CASE SignalDuration
      BY <2>4 DEF HistoryType
    <2> QED BY <2>0, <2>1, <2>2, <2>3, <2>4
  <1>3. ClockType'
    BY DEF ClockType
  <1>4. DurationInv'
    <2> USE DEF DurationInv
    <2>1. CASE StoreConfig
      BY <2>1
    <2>2. CASE \E d \in 0 .. MaxDuration : StoreDuration(d)
      BY <2>2
    <2>3. CASE \E d \in 0 .. MaxDuration : StoreHalfDuration(d)
      BY <2>3 DEF HistoryType
    <2>4. CASE SetDuration
      BY <2>4
    <2>5. CASE SignalDuration
      BY <2>5 DEF TimerType
    <2> QED BY <2>1, <2>2, <2>3, <2>4, <2>5
  <1>5. ClockInv'
    BY DEF MainType, ClockType, ClockInv
  <1>6. DieInv'
    BY DEF DieInv
  <1> QED BY <1>1, <1>2, <1>3, <1>4, <1>5, <1>6, <1>7, <1>8 DEF IInv

LEMMA TimerThreadIInv == IInv /\ (TimerThread \/ WakeTimer) => IInv'
  <1> SUFFICES ASSUME IInv, TimerThread \/ WakeTimer PROVE IInv'
    OBVIOUS
  <1> USE DEF IInv, TimerThread, WakeTimer, TestDie, WaitForDuration, TestDuration, Complete,
              ClearRegister, TimerStep, time
  <1>1. MainType'
    BY DEF MainType
  <1>2. TimerType'
    <2>1. CASE TestDie
      BY <2>1 DEF TimerType
    <2>2. CASE WaitForDuration
      BY <2>2 DEF TimerType
    <2>3. CASE WakeTimer
      BY <2>3 DEF TimerType
    <2>4. CASE TestDuration
      BY <2>4 DEF TimerType
    <2>5. CASE Complete
      BY <2>5 DEF TimerType
    <2>6. CASE ClearRegister
      BY <2>6, TimersAssumption DEF TimerType, TimersAssumption
    <2> QED BY <2>1, <2>2, <2>3, <2>4, <2>5, <2>6
  <1>7. CpuType'
    BY DEF CpuType
  <1>8. HistoryType'
    <2>1. CASE TestDie
      BY <2>1 DEF HistoryType
    <2>2. CASE WaitForDuration
      BY <2>2 DEF HistoryType
    <2>3. CASE WakeTimer
      BY <2>3 DEF HistoryType
    <2>4. CASE TestDuration
      BY <2>4 DEF HistoryType
    <2>5. CASE Complete
      BY <2>5 DEF HistoryType
    <2>6. CASE ClearRegister
      BY <2>6 DEF HistoryType
    <2> QED BY <2>1, <2>2, <2>3, <2>4, <2>5, <2>6
  <1>3. ClockType'
    BY DEF ClockType
  <1>4. DurationInv'
    <2> USE DEF DurationInv
    <2>1. CASE TestDie \/ WaitForDuration \/ TestDuration
      BY <2>1
    <2>2. CASE WakeTimer
      BY <2>2
    <2>3. CASE Complete
      BY <2>3
    <2>4. CASE ClearRegister
      BY <2>4 DEF Outside
    <2> QED BY <2>1, <2>2, <2>3, <2>4
  <1>5. ClockInv'
    BY DEF MainType, ClockType, ClockInv
  <1>6. DieInv'
    BY DEF DieInv
  <1> QED BY <1>1, <1>2, <1>3, <1>4, <1>5, <1>6, <1>7, <1>8 DEF IInv

(* A wait of the clock ends less than three seconds after the uptime that  *)
(* was written when it began.                                              *)
LEMMA ClockThreadIInv == IInv /\ (ClockThread \/ WakeClock \/ Tick) => IInv'
  <1> SUFFICES ASSUME IInv, ClockThread \/ WakeClock \/ Tick PROVE IInv'
    OBVIOUS
  <1> USE TimersAssumption
      DEF TimersAssumption, IInv, ClockThread, WakeClock, Tick, StartClock, WriteTime, WaitSeconds,
          TimeOut, TestPower, ClockStep, dimer, histories
  <1>1. MainType'
    <2>1. CASE TestPower
      BY <2>1 DEF MainType
    <2>2. CASE StartClock \/ WriteTime \/ TimeOut
      BY <2>2 DEF MainType
    <2>3. CASE WakeClock \/ Tick
      BY <2>3 DEF MainType
    <2> QED BY <2>1, <2>2, <2>3
  <1>2. TimerType'
    BY DEF TimerType
  <1>7. CpuType'
    BY DEF CpuType
  <1>8. HistoryType'
    BY DEF HistoryType
  <1>3. ClockType'
    <2>1. CASE Tick
      BY <2>1 DEF ClockType
    <2>2. CASE ClockThread \/ WakeClock
      BY <2>2 DEF ClockType
    <2> QED BY <2>1, <2>2
  <1>4. DurationInv'
    BY DEF CpuType, MainType, TimerType, DurationInv
  <1>5. ClockInv'
    <2> USE DEF MainType, ClockType, ClockInv
    <2>1. CASE StartClock \/ WriteTime
      BY <2>1
    <2>2. CASE TimeOut \/ WakeClock
      BY <2>2
    <2>3. CASE TestPower
      BY <2>3
    <2>4. CASE Tick
      BY <2>4
    <2> QED BY <2>1, <2>2, <2>3, <2>4
  <1>6. DieInv'
    BY DEF DieInv
  <1> QED BY <1>1, <1>2, <1>3, <1>4, <1>5, <1>6, <1>7, <1>8 DEF IInv

LEMMA NextIInv == IInv /\ [Next]_vars => IInv'
  <1>1. IInv /\ UNCHANGED vars => IInv'
    BY DEF IInv, MainType, TimerType, CpuType, ClockType, HistoryType, DieInv, DurationInv, ClockInv,
           vars, dimer, time, histories
  <1> QED BY <1>1, MainThreadIInv, ProcessorIInv, TimerThreadIInv, ClockThreadIInv DEF Next

LEMMA SpecIInv == Spec => []IInv
  BY InitIInv, NextIInv, PTL DEF Spec
-----------------------------------------------------------------------------
(* The variables of both threads, of the handlers and of the teardown keep *)
(* their types; above all the uptime is never more than two seconds fast.  *)
THEOREM TypeCorrect == Spec => []TypeOK
  <1>1. IInv => TypeOK
    BY DEF IInv, MainType, TimerType, CpuType, ClockType, HistoryType, TypeOK
  <1> QED BY <1>1, SpecIInv, PTL

(* A program that watches the duration register of a running timer sees    *)
(* the duration it stored last (tm_handleWrite, tm_dimer), however often   *)
(* the threads interleave, but for the excuses that the property names.    *)
THEOREM RegisterShowsTimerHolds == Spec => []RegisterShowsTimer
  <1>1. IInv => RegisterShowsTimer
    BY DEF IInv, DurationInv, RegisterShowsTimer
  <1> QED BY <1>1, SpecIInv, PTL

(* The uptime that mb_timeThread writes follows the time while the power   *)
(* is on, although its deadline skips a second near the end of one.        *)
THEOREM UptimeFollowsHolds == Spec => []UptimeFollows
  <1>1. IInv => UptimeFollows
    BY DEF IInv, ClockType, ClockInv, UptimeFollows
  <1> QED BY <1>1, SpecIInv, PTL
=============================================================================
