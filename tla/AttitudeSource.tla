----------------------------- MODULE AttitudeSource -----------------------------
(* Where the attitude comes from: VirtualImu, fed by the thread of Radio,   *)
(* and ADI, which asks it for any of the controllers' threads and falls     *)
(* back on the IMU of the board when it is out of service.  The clock is    *)
(* the wall clock in milliseconds, an unsigned number that wraps, in steps  *)
(* of which VIRTUAL_IMU_TIMEOUT has a few.                                  *)
EXTENDS Naturals

CONSTANTS
    Reader,    \* the threads that call ADI::getAttitude
    Timeout,   \* VIRTUAL_IMU_TIMEOUT
    Wrap,      \* the clock goes round after so many steps
    Slack,     \* bound: steps a thread may lose within getAttitude
    Late,      \* bound: steps the radio's thread may lose within updateAttitude
    Silence    \* bound: steps without a look at an attitude in service

ConstantsAssumption ==
    /\ {Timeout, Wrap, Slack, Late, Silence} \subseteq Nat \ {0}
    /\ Timeout + Slack + Late + Silence < Wrap

VARIABLES
    now,                  \* millis()
    mIsInService,
    mLastValidDataTime,
    radio,                \* where updateAttitude is
    stamp,                \* the clock it read, 0 before and after
    reader,               \* where each getAttitude is, the clock it read and when
    age,                  \* history: steps since mAttitude was written
    took,                 \* history: steps its updateAttitude took, so far
    served,               \* history: the last attitude handed out, its source
                          \* and the steps since its update ended
    crossed               \* history: the last update met a look at the clock

imuVars == <<mIsInService, mLastValidDataTime>>
vars == <<now, imuVars, radio, stamp, reader, age, took, served, crossed>>

\* A getAttitude that has not read the clock.
Outside == [pc |-> "idle", clock |-> 0, lag |-> 0]
Old == Timeout + Slack + Late + Silence

Init ==
    /\ now = 0
    /\ mIsInService = FALSE /\ mLastValidDataTime = 0
    /\ radio = "idle" /\ stamp = 0
    /\ reader = [r \in Reader |-> Outside]
    /\ age = Old /\ took = 0
    /\ served = [source |-> "imu", age |-> 0]
    /\ crossed = FALSE

\* Time passes, wherever the threads are, up to the bounds.
Tick ==
    /\ radio # "idle" => took < Late
    /\ mIsInService => age < Timeout + Silence + took
    /\ \A r \in Reader : reader[r].lag < Slack
    /\ now' = (now + 1) % Wrap
    /\ age' = IF age < Old THEN age + 1 ELSE Old
    /\ took' = IF radio = "idle" THEN took ELSE took + 1
    /\ reader' = [r \in Reader |-> IF reader[r].pc = "idle" THEN Outside
                                   ELSE [reader[r] EXCEPT !.lag = @ + 1]]
    /\ UNCHANGED <<imuVars, radio, stamp, served, crossed>>

-----------------------------------------------------------------------------
(* VirtualImu::updateAttitude, called for a message MAVLINK_MSG_ID_ATTITUDE. *)

WriteAttitude ==
    /\ radio = "idle"
    /\ age' = 0 /\ took' = 0
    /\ radio' = "clock"
    /\ UNCHANGED <<now, imuVars, stamp, reader, served, crossed>>

ReadTime ==
    /\ radio = "clock"
    /\ stamp' = now
    /\ radio' = "time"
    /\ UNCHANGED <<now, imuVars, reader, age, took, served, crossed>>

WriteTime ==
    /\ radio = "time"
    /\ mLastValidDataTime' = stamp
    /\ stamp' = 0
    /\ radio' = "flag"
    /\ UNCHANGED <<now, mIsInService, reader, age, took, served, crossed>>

WriteFlag ==
    /\ radio = "flag"
    /\ mIsInService' = TRUE
    /\ radio' = "idle"
    /\ crossed' = \E r \in Reader : reader[r].pc \in {"compare", "clear"}
    /\ UNCHANGED <<now, mLastValidDataTime, stamp, reader, age, took, served>>

-----------------------------------------------------------------------------
(* ADI::getAttitude with VirtualImu::isInService in it.                     *)

Goto(r, label) == reader' = [reader EXCEPT ![r].pc = label]

Serve(r, source) ==
    /\ served' = [source |-> source, age |-> IF source = "virtual" THEN age - took ELSE 0]
    /\ reader' = [reader EXCEPT ![r] = Outside]

LookAtFlag(r) ==
    /\ reader[r].pc = "idle"
    /\ IF mIsInService THEN Goto(r, "clock") /\ UNCHANGED served ELSE Serve(r, "imu")
    /\ UNCHANGED imuVars

ReadClock(r) ==
    /\ reader[r].pc = "clock"
    /\ reader' = [reader EXCEPT ![r] = [pc |-> "compare", clock |-> now, lag |-> 0]]
    /\ UNCHANGED <<imuVars, served>>

\* An update after ReadClock makes the difference of unsigned longs wrap.
Compare(r) ==
    /\ reader[r].pc = "compare"
    /\ Goto(r, IF (reader[r].clock + Wrap - mLastValidDataTime) % Wrap > Timeout
               THEN "clear" ELSE "result")
    /\ UNCHANGED <<imuVars, served>>

\* Bug: an attitude too old is left in service.
ClearForgotten(r) ==
    /\ reader[r].pc = "clear"
    /\ Goto(r, "result")
    /\ UNCHANGED <<imuVars, served>>

Clear(r) ==
    /\ reader[r].pc = "clear"
    /\ mIsInService' = FALSE
    /\ Goto(r, "result")
    /\ UNCHANGED <<mLastValidDataTime, served>>

\* isInService reads the flag anew for its result.
ReadResult(r) ==
    /\ reader[r].pc = "result"
    /\ IF mIsInService THEN Goto(r, "copy") /\ UNCHANGED served ELSE Serve(r, "imu")
    /\ UNCHANGED imuVars

CopyVirtual(r) ==
    /\ reader[r].pc = "copy"
    /\ Serve(r, "virtual")
    /\ UNCHANGED imuVars

GetAttitude(r) ==
    /\ \/ LookAtFlag(r) \/ ReadClock(r) \/ Compare(r) \/ Clear(r)
       \/ ReadResult(r) \/ CopyVirtual(r)
    /\ UNCHANGED <<now, radio, stamp, age, took, crossed>>

UpdateAttitude == WriteAttitude \/ ReadTime \/ WriteTime \/ WriteFlag

Next == Tick \/ UpdateAttitude \/ \E r \in Reader : GetAttitude(r)

Spec == Init /\ [][Next]_vars

-----------------------------------------------------------------------------
TypeOK ==
    /\ {now, mLastValidDataTime, stamp} \subseteq 0 .. Wrap - 1
    /\ mIsInService \in BOOLEAN
    /\ radio \in {"idle", "clock", "time", "flag"}
    /\ reader \in [Reader -> [pc : {"idle", "clock", "compare", "clear", "result", "copy"},
                              clock : 0 .. Wrap - 1, lag : 0 .. Slack]]
    /\ age \in 0 .. Old /\ took \in 0 .. Late
    /\ served \in [source : {"imu", "virtual"}, age : 0 .. Old]
    /\ crossed \in BOOLEAN

(* No attitude of the virtual IMU is handed out later than the timeout and  *)
(* the time the call itself takes after updateAttitude was through with it. *)
(* The attitude is older than that by what its update took: it is stamped   *)
(* and put into service late by as much as the radio's thread is held up    *)
(* between virtual_imu.cpp:26 and :28, for which the code has no limit.     *)
ServedFresh == served.source = "virtual" => served.age <= Timeout + Slack

(* A fresh attitude is out of service only because its update fell between  *)
(* the look at the clock and the end of an isInService of another thread,   *)
(* which then undoes the flag of the update.                                *)
FlagLostByCrossing ==
    radio = "idle" /\ age <= Timeout /\ ~mIsInService => crossed

(* What is handed out is never old, and what is fresh is handed out unless  *)
(* an update was crossed.                                                   *)
AttitudeSound == TypeOK /\ ServedFresh /\ FlagLostByCrossing

(* When the radio falls silent the IMU of the board takes over for good.    *)
FallsBack ==
    <>[](radio = "idle") => <>[](served.source = "imu")
=============================================================================
