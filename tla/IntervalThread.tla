---------------------------- MODULE IntervalThread ----------------------------
(* intervalThreadStart of utils/i_interval_thread.cpp, the loop of every    *)
(* controller and navigator, which the threads of Radio, Imu and            *)
(* SerialServoDriver repeat: work(), 1 ms of sleep, then a look at the wall *)
(* clock every 300 us until its millisecond is a multiple of the interval.  *)
(* Time is in tenths of a millisecond, within one round of the interval.    *)
EXTENDS Naturals

CONSTANTS
    Interval,    \* getInterval(), in ms
    WorkTime,    \* bound: the longest work(), in tenths of a ms
    Delay        \* bound: how much later than asked a sleep ends

ConstantsAssumption == Interval \in Nat \ {0} /\ {WorkTime, Delay} \subseteq Nat

VARIABLES
    now,         \* time of the round, in tenths of a ms
    at,          \* where the loop is
    left,        \* what is left of the work or the sleep
    since        \* history: time since work() last began by the clock, up to Long

vars == <<now, at, left, since>>

Ms == 10
Round == Interval * Ms
Long == 3 * Round
Never == Long + 1

millis == now \div Ms

Init ==
    /\ now \in 0 .. Round - 1
    /\ at = "work" /\ left \in 0 .. WorkTime
    /\ since = Never

Tick ==
    /\ left > 0
    /\ left' = left - 1
    /\ now' = (now + 1) % Round
    /\ since' = IF since < Long THEN since + 1 ELSE since
    /\ UNCHANGED at

\* usleep(time): for as long or longer.
Sleep(time) == left' \in time .. time + Delay

WorkEnds ==
    /\ at = "work" /\ left = 0
    /\ at' = "sleep" /\ Sleep(Ms)
    /\ UNCHANGED <<now, since>>

\* Bug: the look comes once a millisecond.
LookSeldom ==
    /\ at = "sleep" /\ left = 0
    /\ millis # 0
    /\ Sleep(Ms)
    /\ UNCHANGED <<now, at, since>>

\* millis() % interval is not 0.
Look ==
    /\ at = "sleep" /\ left = 0
    /\ millis # 0
    /\ Sleep(3)
    /\ UNCHANGED <<now, at, since>>

Begin ==
    /\ at = "sleep" /\ left = 0
    /\ millis = 0
    /\ at' = "work" /\ left' \in 0 .. WorkTime
    /\ since' = 0
    /\ UNCHANGED now

Next == Tick \/ WorkEnds \/ Look \/ Begin

Spec == Init /\ [][Next]_vars

-----------------------------------------------------------------------------
(* While work() and its sleep fit the interval and no sleep is late by more *)
(* than 0.7 ms, the clock is looked at in every millisecond that matters:   *)
(* once in step with the clock no round is missed and none begins late.     *)
EveryRound == since < Round + Ms \/ since = Never
=============================================================================
