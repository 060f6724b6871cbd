------------------------------ MODULE FlightParts ------------------------------
(***************************************************************************)
(* The parts of the flight software below the navigators, side by side:    *)
(* the window of a PID, the source of the attitude, the two sides of the   *)
(* servo driver, and the scheduling loop.  They share no state and none    *)
(* waits for another, so a behaviour is the behaviour of one of them, the  *)
(* others at rest, and what holds of each on its own holds of all at once. *)
(***************************************************************************)
EXTENDS Pid

CONSTANTS
    Reader, Timeout, ClockWrap, Slack, Late, Silence,        \* AttitudeSource
    Channel, Writer, writeThread, Mode, MaxMessages, MaxWrites,  \* SerialServo
    Interval, WorkTime, Delay                                \* IntervalThread

VARIABLES
    part,    \* the part that moves
    now, mIsInService, mLastValidDataTime, radio, stamp, reader, age, took, served, crossed,
    mRawServoSignal, fetch, copy,
    mOverrideServoSignal, mOutputMode, call, writes, sent, lastAlone,
    time, at, left, since

sourceVars ==
    <<now, mIsInService, mLastValidDataTime, radio, stamp, reader, age, took, served, crossed>>
servoVars == <<mRawServoSignal, fetch, copy,
               mOverrideServoSignal, mOutputMode, call, writes, sent, lastAlone>>
loopVars == <<time, at, left, since>>
allVars == <<part, vars, sourceVars, servoVars, loopVars>>

Source == INSTANCE AttitudeSource WITH Wrap <- ClockWrap
Servo == INSTANCE SerialServo
Loop == INSTANCE IntervalThread WITH now <- time

ASSUME PartsAssumption ==
    /\ Source!ConstantsAssumption
    /\ Servo!ConstantsAssumption
    /\ Loop!ConstantsAssumption

PartsInit ==
    /\ part \in {"pid", "source", "pilot", "servos", "loop"}
    /\ Init /\ Source!Init /\ Servo!Init
    /\ Loop!Init /\ (part # "loop" => time = 0 /\ left = 0)

PidMoves == part = "pid" /\ Next /\ UNCHANGED <<part, sourceVars, servoVars, loopVars>>

Outside == UNCHANGED <<part, vars, servoVars, loopVars>>
TimePasses == part = "source" /\ Source!Tick /\ Outside
MessageArrives == part = "source" /\ Source!WriteAttitude /\ Outside
UpdateGoesOn == part = "source" /\ (Source!ReadTime \/ Source!WriteTime \/ Source!WriteFlag) /\ Outside
GetAttitude(r) == part = "source" /\ Source!GetAttitude(r) /\ Outside

SourceMoves ==
    \/ TimePasses \/ MessageArrives \/ UpdateGoesOn
    \/ \E r \in Reader : GetAttitude(r)

ServoMoves ==
    /\ \/ part = "pilot" /\ Servo!Input
       \/ part = "servos" /\ Servo!Output
    /\ UNCHANGED <<part, vars, sourceVars, loopVars>>

LoopMoves == part = "loop" /\ Loop!Next /\ UNCHANGED <<part, vars, sourceVars, servoVars>>

PartsNext == PidMoves \/ SourceMoves \/ ServoMoves \/ LoopMoves

\* Time goes on and the threads run; messages need not come.
PartsSpec ==
    /\ PartsInit /\ [][PartsNext]_allVars
    /\ WF_allVars(TimePasses)
    /\ WF_allVars(UpdateGoesOn)
    /\ \A r \in Reader : WF_allVars(GetAttitude(r))

-----------------------------------------------------------------------------
(* What AttitudeSource, SerialServo and IntervalThread promise, see there.  *)
AttitudeSound == Source!AttitudeSound
FallsBack == Source!FallsBack
ServoSound == Servo!ServoSound
EveryRound == Loop!EveryRound
=============================================================================
