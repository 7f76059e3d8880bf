------------------------------- MODULE LoopPool -------------------------------
(***************************************************************************)
(* Timing in a polled loop: timers, calls every so many milliseconds and   *)
(* debouncing, all over a clock that starts anywhere and wraps.  `time` is *)
(* the real time, which the code never sees.                               *)
(***************************************************************************)
EXTENDS Integers, Sequences, SequencesExt, FiniteSetsExt

CONSTANTS
    Tick,       \* the number of values of a uint32_t
    Tools,      \* what is polled: records with the fields of `tool`
    MaxTime,    \* bound on the real time
    Never

\* Assumed where the constants get their values (Devices): a phase lies within
\* the cycle, and twice as long as a call may take still fits the clock.
LoopAssumption ==
    /\ Tick \in Nat /\ Never \notin Int
    /\ \A u \in Tools :
          /\ u.boot \in Nat /\ u.a \in Nat /\ u.b \in 0 .. u.a
          /\ u.a + u.a \div 2 < Tick

VARIABLES
    tool,       \* one of Tools, never changes: [use, boot, a, b]; boot is the
                \* clock at time 0, a and b the arguments of the use
    time,
    timer,      \* LoopPoolTimer: [sta, start_time, time_out]
    due,        \* history: when the timer started last is to be over, or Never
    mark,       \* __looppool_last_time of LOOPPOOL_PHASE_CALL_MS
    origin,     \* history: when its first period began, or Never
    polled,     \* history: when it was polled last, or Never
    called,     \* history: when the action was called last, or Never
    bounce,     \* the statics of LOOPPOOL_BOOL_DEBOUNCE
    seen,       \* history: the samples since it started over, <<when, what>>
    shown       \* what it returned last

timervars == <<timer, due>>
callvars == <<mark, origin, called>>
bouncevars == <<bounce, seen, shown>>
loopvars == <<tool, time, timer, due, mark, origin, polled, called, bounce, seen, shown>>

Clock == (tool.boot + time) % Tick    \* GET_TICK
Since(t) == (Clock - t) % Tick        \* the difference of two uint32_t

LoopInit ==
    /\ tool \in Tools
    /\ time = 0
    /\ timer = [sta |-> "IDIE", start_time |-> 0, time_out |-> tool.a] /\ due = Never
    /\ mark = 0 /\ origin = Never /\ polled = Never /\ called = Never
    /\ bounce = [last_time |-> 0, last_state |-> -1, last_last_state |-> 0,
                 last_call_time |-> 0]
    /\ seen = <<>> /\ shown = 0

\* Calls and debounced values are polled more than once in a turn of the clock.
Pass ==
    /\ time < MaxTime
    /\ polled # Never => time - polled < Tick - tool.a
    /\ time' = time + 1
    /\ UNCHANGED <<tool, polled>> /\ UNCHANGED timervars /\ UNCHANGED callvars /\ UNCHANGED bouncevars

-----------------------------------------------------------------------------
(* The timer: use "timer", a = the timeout *)

Using(u) == tool.use = u /\ UNCHANGED <<tool, time>>

Config ==
    /\ Using("timer")
    /\ timer' = [sta |-> "IDIE", start_time |-> 0, time_out |-> tool.a]
    /\ due' = Never
    /\ UNCHANGED polled /\ UNCHANGED callvars /\ UNCHANGED bouncevars

Reset ==
    /\ Using("timer")
    /\ timer' = [timer EXCEPT !.sta = "WORK", !.start_time = Clock]
    /\ due' = time + timer.time_out
    /\ UNCHANGED polled /\ UNCHANGED callvars /\ UNCHANGED bouncevars

Stop ==
    /\ Using("timer")
    /\ timer' = [timer EXCEPT !.sta = "IDIE"]
    /\ due' = Never
    /\ UNCHANGED polled /\ UNCHANGED callvars /\ UNCHANGED bouncevars

ForceTimeout ==
    /\ Using("timer")
    /\ timer' = [timer EXCEPT !.sta = "WORK",
                              !.start_time = (Clock - timer.time_out) % Tick]
    /\ due' = time
    /\ UNCHANGED polled /\ UNCHANGED callvars /\ UNCHANGED bouncevars

IsTimeout == timer.sta = "WORK" /\ Since(timer.start_time) >= timer.time_out

-----------------------------------------------------------------------------
(* LOOPPOOL_PHASE_CALL_MS: use "call", a = cycle_ms, b = phase_ms *)

\* (mutant) the mark follows the clock, and each late poll delays all that follow
PhaseCallDrifts ==
    LET from == IF mark = 0 THEN (Clock - tool.a + tool.b) % Tick ELSE mark
        diff == (Clock - from) % Tick
    IN  /\ Using("call")
        /\ tool.a > 0
        /\ mark' = IF diff >= tool.a THEN Clock ELSE from
        /\ called' = IF diff >= tool.a THEN time ELSE called
        /\ polled' = time
        /\ origin' = IF mark = 0 THEN time + tool.b ELSE origin
        /\ UNCHANGED timervars /\ UNCHANGED bouncevars

\* A mark of 0 means that there was no call yet.
PhaseCall ==
    LET from == IF mark = 0 THEN (Clock - tool.a + tool.b) % Tick ELSE mark
        diff == (Clock - from) % Tick
    IN  /\ Using("call")
        /\ tool.a > 0
        /\ mark' = IF diff >= tool.a
                   THEN (from + (diff \div tool.a) * tool.a) % Tick ELSE from
        /\ called' = IF diff >= tool.a THEN time ELSE called
        /\ polled' = time
        /\ origin' = IF mark = 0 THEN time + tool.b ELSE origin
        /\ UNCHANGED timervars /\ UNCHANGED bouncevars

-----------------------------------------------------------------------------
(* LOOPPOOL_BOOL_DEBOUNCE: use "bounce", a = debounce_ms *)

\* Too long since the last call, or the first one: it starts over.
StartsOver ==
    bounce.last_state = -1 \/ Since(bounce.last_call_time) > tool.a \div 2

Debounce(new) ==
    LET same == bounce.last_state = new
        settled == same /\ Since(bounce.last_time) > tool.a
        out == IF settled THEN new ELSE bounce.last_last_state
    IN  /\ Using("bounce")
        /\ tool.a > 0
        /\ IF StartsOver
           THEN /\ bounce' = [last_time |-> Clock, last_state |-> new,
                              last_last_state |-> new, last_call_time |-> Clock]
                /\ shown' = new /\ seen' = <<<<time, new>>>>
           ELSE /\ bounce' = [last_time |-> IF same THEN bounce.last_time ELSE Clock,
                              last_state |-> new, last_last_state |-> out,
                              last_call_time |-> Clock]
                /\ shown' = out /\ seen' = Append(seen, <<time, new>>)
        /\ polled' = time
        /\ UNCHANGED timervars /\ UNCHANGED callvars

LoopNext ==
    \/ Pass
    \/ Config \/ Reset \/ Stop \/ ForceTimeout
    \/ PhaseCall
    \/ \E new \in 0..1 : (polled # Never => polled < time) /\ Debounce(new)

LoopSpec == LoopInit /\ [][LoopNext]_loopvars

-----------------------------------------------------------------------------
(* Properties *)

LoopTypeOK ==
    /\ timer.start_time \in 0..(Tick - 1) /\ mark \in 0..(Tick - 1)
    /\ bounce.last_state \in -1..1 /\ shown \in 0..1

\* A timer is over exactly when its time has passed in reality, across the wrap
\* of the clock, for as long as a clock can tell: after Tick milliseconds it
\* runs for another timeout.
TimerIsExact ==
    due # Never /\ time < due - tool.a + Tick => (IsTimeout <=> time >= due)

\* The action is called once in each period, at the first poll in it, and a poll
\* that comes late does not move the periods; all across the wrap of the clock,
\* but unless the mark is 0 by accident, which starts everything over.
CallInTime ==
    PhaseCall /\ mark # 0 =>
        LET period(t) == (t - origin) \div tool.a
        IN  called' # called <=>
              /\ time >= origin
              /\ \/ called = Never
                 \/ called # Never /\ called < origin
                 \/ called # Never /\ period(called) < period(time)

\* The debounced value changes only to what every sample of more than the last
\* a milliseconds was, and does not miss such a stretch.
SampleSettles ==
    seen' # seen /\ Len(seen') > 1 =>
        LET stable == {i \in 1..Len(seen') : \A j \in i..Len(seen') : seen'[j][2] = Last(seen')[2]}
            long == time - seen'[Min(stable)][1] > tool.a
        IN  shown' = IF long THEN Last(seen')[2] ELSE shown

\* Every tool tells the real time as well as its clock allows.
ToolsKeepTime == [][TimerIsExact' /\ CallInTime /\ SampleSettles]_loopvars
=============================================================================
