------------------------------- MODULE Timers -------------------------------
(***************************************************************************)
(* The two threads that count time: the dimer's (timers.c), which sleeps   *)
(* for the duration that the program writes, and the motherboard's clock   *)
(* (mb_timeThread), which writes the time of day and the uptime once a     *)
(* second; from the boot, which creates them, to the teardown, which joins *)
(* them.  Neither the handler that starts the timer nor the managers that  *)
(* end the threads take a thread's mutex to signal it, so a signal reaches *)
(* a thread only while it waits.  A wait may end without a signal.         *)
(*                                                                         *)
(* A second is two ticks long: its first 900 ms and its last 100 ms.  The  *)
(* times that the clock keeps are told relative to the present one.  The   *)
(* timer never interrupts, as nothing sets dimerInterrupt.                 *)
(***************************************************************************)
EXTENDS Integers

CONSTANTS
    MaxDuration,   \* bound: durations are 0 .. MaxDuration
    MaxAccesses,   \* bound: stores of the program to the timer
    MaxLag         \* bound: an uptime further behind than that is as good as none

ASSUME TimersAssumption ==
    MaxDuration \in Nat \ {0} /\ MaxAccesses \in Nat /\ MaxLag \in Nat \ {0, 1, 2}

VARIABLES
    boot,            \* mb_init: "clock", "timer" (thread to create), "done", "failed"
    powerState,
    main,            \* mb_teardown, and the manager that it joins
    dimerRepeat, dimerDuration, dimerDie,
    durationRegister,
    timer,           \* the timer's thread
    cpu,             \* the processor: outside or in a store to the duration
    clock,           \* the clock's thread
    late,            \* the last 100 ms of a second have begun
    due,             \* wakeTime: seconds from now until the end of the clock's wait
    ahead,           \* uptime: seconds that the register is ahead of the time
    accesses,
    causes,          \* history: why the timer did not do what the program asked for
    missedKill,      \* history: the timer's thread missed the signal to die
    overslept        \* history: the clock's thread found the power off before it was on

dimer == <<dimerRepeat, dimerDuration, durationRegister>>
time == <<late, due, ahead>>
histories == <<causes, missedKill, overslept>>
vars == <<boot, powerState, main, dimer, dimerDie, timer, cpu, clock, time, accesses,
          histories>>

Outside == [step |-> "outside"]

Init ==
    /\ boot = "clock" /\ powerState = FALSE /\ main = "running"
    /\ dimerRepeat = FALSE /\ dimerDuration = 0 /\ dimerDie = FALSE /\ durationRegister = 0
    /\ timer = "none" /\ clock = "none" /\ cpu = Outside
    /\ late \in BOOLEAN /\ due = 0 /\ ahead = 0
    /\ accesses = 0 /\ causes = {} /\ missedKill = FALSE /\ overslept = FALSE
-----------------------------------------------------------------------------
(* Boot and teardown. *)

CreateClock ==
    /\ boot = "clock" /\ boot' = "timer"
    /\ clock' = "start"
    /\ UNCHANGED <<powerState, main, dimer, dimerDie, timer, cpu, time, accesses, histories>>

CreateTimer ==
    /\ boot = "timer" /\ boot' = "power"
    /\ timer' = "start"
    /\ UNCHANGED <<powerState, main, dimer, dimerDie, cpu, clock, time, accesses, histories>>

PowerOn ==
    /\ boot = "power" /\ boot' = "done"
    /\ powerState' = TRUE
    /\ UNCHANGED <<main, dimer, dimerDie, timer, cpu, clock, time, accesses, histories>>

(* A manager does not come up: those before it are torn down. *)
BootFails ==
    /\ boot \in {"timer", "power"} /\ boot' = "failed"
    /\ UNCHANGED <<powerState, main, dimer, dimerDie, timer, cpu, clock, time, accesses,
                   histories>>

PowerOff ==
    /\ powerState /\ powerState' = FALSE
    /\ UNCHANGED <<boot, main, dimer, dimerDie, timer, cpu, clock, time, accesses, histories>>

(* A signal to a thread that does not wait is lost. *)
Signalled(thread) == IF thread = "wait" THEN "woken" ELSE thread

(* The processor's thread has ended; the motherboard's manager signals its *)
(* clock.                                                                  *)
KillClock ==
    /\ main = "running" /\ boot \in {"done", "failed"} /\ ~ powerState /\ cpu = Outside
    /\ main' = "joinClock"
    /\ clock' = Signalled(clock)
    /\ UNCHANGED <<boot, powerState, dimer, dimerDie, timer, cpu, time, accesses, histories>>

JoinClock ==
    /\ main = "joinClock" /\ clock = "dead"
    /\ main' = IF timer = "none" THEN "gone" ELSE "killTimer"
    /\ UNCHANGED <<boot, powerState, dimer, dimerDie, timer, cpu, clock, time, accesses,
                   histories>>

SetDie ==
    /\ main = "killTimer" /\ main' = "signalTimer"
    /\ dimerDie' = TRUE
    /\ UNCHANGED <<boot, powerState, dimer, timer, cpu, clock, time, accesses, histories>>

SignalDie ==
    /\ main = "signalTimer" /\ main' = "joinTimer"
    /\ timer' = Signalled(timer)
    /\ missedKill' = (timer = "enterWait")
    /\ UNCHANGED <<boot, powerState, dimer, dimerDie, cpu, clock, time, accesses, causes,
                   overslept>>

JoinTimer ==
    /\ main = "joinTimer" /\ timer = "dead"
    /\ main' = "gone"
    /\ UNCHANGED <<boot, powerState, dimer, dimerDie, timer, cpu, clock, time, accesses,
                   histories>>

MainThread == CreateClock \/ CreateTimer \/ PowerOn \/ KillClock \/ JoinClock \/ SetDie
                 \/ SignalDie \/ JoinTimer
-----------------------------------------------------------------------------
(* The processor: a store reaches the register first, then tm_handleWrite. *)

Access ==
    /\ powerState /\ cpu = Outside
    /\ accesses < MaxAccesses /\ accesses' = accesses + 1

StoreConfig ==
    /\ Access
    /\ dimerRepeat' \in BOOLEAN
    /\ UNCHANGED <<boot, powerState, main, dimerDuration, durationRegister, dimerDie, timer,
                   cpu, clock, time, histories>>

StoreDuration(d) ==
    /\ Access
    /\ durationRegister' = d
    /\ cpu' = [step |-> "set", duration |-> d]
    /\ UNCHANGED <<boot, powerState, main, dimerRepeat, dimerDuration, dimerDie, timer, clock,
                   time, histories>>

(* A store of one byte to the duration is not the timer's business. *)
StoreHalfDuration(d) ==
    /\ Access
    /\ durationRegister' = d
    /\ causes' = causes \cup {"half"}
    /\ UNCHANGED <<boot, powerState, main, dimerRepeat, dimerDuration, dimerDie, timer, cpu,
                   clock, time, missedKill, overslept>>

SetDuration ==
    /\ cpu.step = "set"
    /\ dimerDuration' = cpu.duration
    /\ cpu' = [step |-> "signal"]
    /\ UNCHANGED <<boot, powerState, main, dimerRepeat, durationRegister, dimerDie, timer,
                   clock, time, accesses, histories>>

(* Faulty form: a store to the duration wakes nobody. *)
SignalDurationNobody ==
    /\ cpu.step = "signal" /\ cpu' = Outside
    /\ UNCHANGED <<boot, powerState, main, dimer, dimerDie, timer, clock, time, accesses,
                   histories>>

(* The thread that will test the duration again hears of it all the same;  *)
(* the one that is about to wait does not.                                 *)
SignalDuration ==
    /\ cpu.step = "signal" /\ cpu' = Outside
    /\ timer' = Signalled(timer)
    /\ causes' = IF timer \in {"start", "enterWait"} THEN causes \cup {"unheard"} ELSE causes
    /\ UNCHANGED <<boot, powerState, main, dimer, dimerDie, clock, time, accesses, missedKill,
                   overslept>>

Program == StoreConfig \/ \E d \in 0 .. MaxDuration : StoreDuration(d) \/ StoreHalfDuration(d)
Handler == SetDuration \/ SignalDuration
-----------------------------------------------------------------------------
(* The timer's thread. *)

TimerStep(from, to) ==
    /\ timer = from /\ timer' = to
    /\ UNCHANGED <<boot, powerState, main, dimerRepeat, dimerDuration, dimerDie, cpu, clock,
                   time, accesses, missedKill, overslept>>

(* Faulty form: while (true), only the test after the wait is left. *)
TestDieForgotten ==
    /\ TimerStep("start", "enterWait")
    /\ UNCHANGED <<durationRegister, causes>>

(* while (false == dimerDie), and the start of cnd_wait. *)
TestDie ==
    /\ TimerStep("start", IF dimerDie THEN "dead" ELSE "enterWait")
    /\ UNCHANGED <<durationRegister, causes>>

WaitForDuration ==
    /\ TimerStep("enterWait", "wait")
    /\ UNCHANGED <<durationRegister, causes>>

(* The wait may end without a signal. *)
WakeTimer ==
    /\ TimerStep("wait", "woken")
    /\ causes' = causes \cup {"spurious"}
    /\ UNCHANGED durationRegister

TestDuration ==
    /\ TimerStep("woken", IF dimerDie THEN "dead"
                          ELSE IF dimerDuration = 0 THEN "start" ELSE "sleep")
    /\ UNCHANGED <<durationRegister, causes>>

(* Faulty form: the register is cleared whenever the timer completes. *)
CompleteEachTime ==
    /\ TimerStep("sleep", IF dimerRepeat /\ dimerDuration # 0 THEN "sleep" ELSE "clear")
    /\ durationRegister' = 0
    /\ UNCHANGED causes

(* usleep returns; a repeating timer starts again. *)
Complete ==
    /\ TimerStep("sleep", IF dimerRepeat /\ dimerDuration # 0 THEN "sleep" ELSE "clear")
    /\ UNCHANGED <<durationRegister, causes>>

(* A store that came in since the timer completed is wiped out. *)
ClearRegister ==
    /\ TimerStep("clear", "start")
    /\ durationRegister' = 0
    /\ causes' = IF cpu # Outside \/ durationRegister # dimerDuration
                 THEN causes \cup {"crossed"} ELSE causes

TimerThread == TestDie \/ WaitForDuration \/ TestDuration \/ Complete \/ ClearRegister
-----------------------------------------------------------------------------
(* The clock's thread. *)

ClockStep(from, to) ==
    /\ clock = from /\ clock' = to
    /\ UNCHANGED <<boot, powerState, main, dimer, dimerDie, timer, cpu, late, accesses,
                   causes, missedKill>>

(* startTime and wakeTime are taken from the same clock. *)
StartClock ==
    /\ ClockStep("start", "write")
    /\ due' = 0 /\ ahead' = 0
    /\ UNCHANGED overslept

(* Faulty form: the last 100 ms of a second add two seconds to the wait. *)
WaitSecondsTooLong == IF late THEN 3 ELSE 1

(* A wait that would start in the last 100 ms ends a second later. *)
WaitSeconds == IF late THEN 2 ELSE 1

(* The uptime counts to the second that the last wait was to end at, and   *)
(* the next wait ends with the present second, or with the one after it.   *)
WriteTime ==
    /\ ClockStep("write", "wait")
    /\ ahead' = due
    /\ due' = WaitSeconds
    /\ UNCHANGED overslept

TimeOut ==
    /\ due = 0
    /\ ClockStep("wait", "woken")
    /\ UNCHANGED <<due, ahead, overslept>>

(* The wait may end before its time. *)
WakeClock ==
    /\ due > 0
    /\ ClockStep("wait", "woken")
    /\ UNCHANGED <<due, ahead, overslept>>

(* Faulty form: do ... while (false == powerState) *)
TestPowerInverted ==
    /\ ClockStep("woken", IF powerState THEN "dead" ELSE "write")
    /\ UNCHANGED <<due, ahead, overslept>>

TestPower ==
    /\ ClockStep("woken", IF powerState THEN "write" ELSE "dead")
    /\ overslept' = (overslept \/ boot # "done")
    /\ UNCHANGED <<due, ahead>>

ClockThread == StartClock \/ WriteTime \/ TimeOut \/ TestPower

(* The clock's thread is prompt: the time does not go on while it could. *)
Tick ==
    /\ clock \notin {"write", "woken"} /\ (clock = "wait" => due > 0)
    /\ late' = ~ late
    /\ due' = IF late /\ due > 0 THEN due - 1 ELSE due
    /\ ahead' = IF late /\ ahead > - MaxLag THEN ahead - 1 ELSE ahead
    /\ UNCHANGED <<boot, powerState, main, dimer, dimerDie, timer, cpu, clock, accesses,
                   histories>>
-----------------------------------------------------------------------------
Next == MainThread \/ BootFails \/ PowerOff \/ Program \/ Handler \/ TimerThread \/ WakeTimer
           \/ ClockThread \/ WakeClock \/ Tick

(* The threads go on and the time passes; nobody has to store anything, to *)
(* press the button or to wake a thread without a reason.                  *)
Fairness ==
    WF_vars(MainThread) /\ WF_vars(Handler) /\ WF_vars(TimerThread) /\ WF_vars(ClockThread)
       /\ WF_vars(Tick)

Spec == Init /\ [][Next]_vars /\ Fairness
-----------------------------------------------------------------------------
(* The types of the variables of both threads, and of main. *)
TypeOK ==
    /\ boot \in {"clock", "timer", "power", "done", "failed"} /\ powerState \in BOOLEAN
    /\ main \in {"running", "joinClock", "killTimer", "signalTimer", "joinTimer", "gone"}
    /\ dimerRepeat \in BOOLEAN /\ dimerDie \in BOOLEAN
    /\ missedKill \in BOOLEAN /\ overslept \in BOOLEAN
    /\ dimerDuration \in 0 .. MaxDuration /\ durationRegister \in 0 .. MaxDuration
    /\ timer \in {"none", "start", "enterWait", "wait", "woken", "sleep", "clear", "dead"}
    /\ cpu \in [step : {"outside", "signal"}] \cup [step : {"set"}, duration : 0 .. MaxDuration]
    /\ clock \in {"none", "start", "write", "wait", "woken", "dead"}
    /\ late \in BOOLEAN /\ due \in 0 .. 2 /\ ahead \in - MaxLag .. 2
    /\ accesses \in 0 .. MaxAccesses
    /\ causes \subseteq {"half", "unheard", "spurious", "crossed"}

(* While the timer runs, the duration register shows the duration that was *)
(* stored last, so that a program may watch it for the end, unless a store *)
(* crossed the end of the timer, was of one byte, or the wait ended early. *)
RegisterShowsTimer ==
    timer = "sleep" /\ cpu = Outside /\ causes \cap {"half", "spurious", "crossed"} = {}
        => durationRegister = dimerDuration

(* A one-shot timer that the program starts completes and clears the       *)
(* register while the power is on, unless the thread was about to wait and *)
(* did not hear of the duration.                                           *)
TimerCompletes ==
    durationRegister # 0
       ~> (durationRegister = 0 \/ dimerRepeat \/ ~ powerState
              \/ causes \cap {"half", "unheard"} # {})

(* While the power is on, the uptime is at most one second behind the time *)
(* when the clock waits, unless the boot took so long that the clock's     *)
(* thread gave up.                                                         *)
UptimeFollows ==
    powerState /\ clock \notin {"none", "start"} /\ ~ overslept
        => ahead >= (IF clock = "wait" /\ due > 0 THEN -1 ELSE -2)

(* Once the power is off everybody is joined and main returns, except that *)
(* a repeating timer never ends, and that a thread may miss its kill.      *)
TeardownEnds ==
    (boot \in {"done", "failed"} /\ ~ powerState)
       ~> (main = "gone" \/ missedKill \/ (dimerRepeat /\ dimerDuration # 0))
=============================================================================
