--------------------------- MODULE FlightPartsProofs ---------------------------
(* The parts of the flight software that FlightParts puts side by side, for *)
(* any window, timeouts, readers, channels, writers and intervals: each has *)
(* an inductive invariant of its own, which the steps of the others leave   *)
(* alone because they share no variable.                                    *)
EXTENDS FlightParts, TLAPS

-----------------------------------------------------------------------------
(* The window of errors.  Two inductive invariants: where the index is      *)
(* between the statements that advance it, and how many errors of the       *)
(* flight before are left among the cells reset() has cleared.              *)
USE WindowAssumption

LEMMA CellFacts == /\ 0 \in Cell /\ Cell \subseteq Nat
                   /\ \A c \in Cell : c + 1 \in 0 .. mIntegralWindowSize
                   /\ \A n \in 0 .. mIntegralWindowSize : n % mIntegralWindowSize \in Cell
  BY DEF Cell

IndexByPlace ==
    /\ work.pc \in {"idle", "store", "load", "increment", "sum"} => mIntegralBufferIndex \in Cell
    /\ work.pc = "increment" => work.register \in Cell

IndexInv == TypeOK /\ IndexByPlace

LEMMA IndexInvariance == Spec => []IndexInv
<1>1. Init => IndexInv
  <2> SUFFICES ASSUME Init PROVE IndexInv
    OBVIOUS
  <2>1. mIsEnabled \in BOOLEAN /\ met \in BOOLEAN
    BY Zenon DEF Init
  <2>2. [c \in Cell |-> "zero"] \in [Cell -> {"zero", "old", "new"}]
    OBVIOUS
  <2> QED
    BY <2>1, <2>2, CellFacts DEF Init, IndexInv, TypeOK, IndexByPlace
<1>2. IndexInv /\ [Next]_vars => IndexInv'
  <2> SUFFICES ASSUME IndexInv, [Next]_vars PROVE IndexInv'
    OBVIOUS
  <2> USE CellFacts DEF IndexInv, TypeOK, IndexByPlace
  <2>1. CASE Release
    BY <2>1 DEF Release, window
  <2>2. CASE Takeover
    <3>1. met' \in BOOLEAN
      BY <2>2, Zenon DEF Takeover
    <3> QED
      BY <2>2, <3>1 DEF Takeover
  <2>3. CASE Clear
    BY <2>3 DEF Clear
  <2>4. CASE ResetIndex
    BY <2>4 DEF ResetIndex
  <2>5. CASE Enable
    BY <2>5 DEF Enable, window
  <2>6. CASE Work
    <3> UNCHANGED <<mIsEnabled, status, met>>
      BY <2>6 DEF Work, Others
    <3>1. CASE Check
      BY <3>1 DEF Check, window
    <3>2. CASE Store
      BY <3>2 DEF Store, Goto
    <3>3. CASE Load("load", "increment") \/ Load("reload", "wrap")
      BY <3>3 DEF Load, window
    <3>4. CASE Increment
      BY <3>4 DEF Increment, Goto
    <3>5. CASE Wrap
      <4>1. mIntegralBufferIndex' \in Cell
        BY <3>5 DEF Wrap
      <4>2. mIntegralBufferIndex' \in 0 .. mIntegralWindowSize
        BY <4>1 DEF Cell
      <4> QED
        BY <3>5, <4>1, <4>2 DEF Wrap, Goto
    <3>6. CASE Sum
      BY <3>6 DEF Sum, Goto, window
    <3> QED
      BY <2>6, <3>1, <3>2, <3>3, <3>4, <3>5, <3>6 DEF Work
  <2>7. CASE UNCHANGED vars
    BY <2>7 DEF vars, window
  <2> QED
    BY <2>1, <2>2, <2>3, <2>4, <2>5, <2>6, <2>7 DEF Next, StatusThread
<1> QED
  BY <1>1, <1>2, PTL DEF Spec

(* The types of PID's window and of the two threads that share it (pid.cpp  *)
(* 25-61, attitude_controller.cpp 43-65).                                   *)
THEOREM TypeCorrect == Spec => []TypeOK
<1>1. IndexInv => TypeOK
  BY DEF IndexInv
<1> QED
  BY IndexInvariance, <1>1, PTL

(* An error is never stored outside the buffer, for any window size and any *)
(* interleaving of updateError() with reset() (pid.cpp 45-47).              *)
THEOREM NeverOutside == Spec => []StoresInside
<1>1. IndexInv => StoresInside
  BY DEF IndexInv, IndexByPlace, StoresInside
<1> QED
  BY IndexInvariance, <1>1, PTL

-----------------------------------------------------------------------------
\* The cells reset() has been over.
Cleared(c) == \/ status.pc \in {"index", "enable", "on"}
              \/ status.pc = "clear" /\ c < status.i

Old(c) == mIntegralBuffer[c] = "old"

OldByPlace ==
    status.pc # "off" =>
        /\ \A c, d \in Cell : Cleared(c) /\ Cleared(d) /\ Old(c) /\ Old(d) => c = d /\ met
        /\ work.pc = "store" /\ work.error = "old" => \A c \in Cell : Cleared(c) => ~Old(c)
        /\ work.pc # "idle" /\ work.error = "old" => met

WindowInv == IndexInv /\ OldByPlace

LEMMA StatusKeepsOld == WindowInv /\ StatusThread => OldByPlace'
<1> SUFFICES ASSUME WindowInv, StatusThread PROVE OldByPlace'
  OBVIOUS
<1> USE CellFacts DEF WindowInv, IndexInv, TypeOK, OldByPlace, Cleared, Old
<1>1. CASE Release
  BY <1>1 DEF Release
<1>2. CASE Takeover
  <2>1. work'.pc # "idle" => met'
    BY <1>2 DEF Takeover
  <2> QED
    BY <1>2, <2>1 DEF Takeover
<1>3. CASE Clear
  <2>1. met => met'
    BY <1>3, Zenon DEF Clear
  <2>2. UNCHANGED work
    BY <1>3 DEF Clear
  <2>3. ASSUME NEW c \in Cell, Cleared(c)' PROVE Old(c)' => Cleared(c) /\ Old(c)
    <3>1. /\ status.pc = "clear" /\ status.i \in Nat /\ c \in Nat
          /\ mIntegralBuffer' = [mIntegralBuffer EXCEPT ![status.i] = "zero"]
      BY <1>3 DEF Clear
    <3>2. c < status.i + 1
      <4>1. CASE status.i + 1 \in Cell
        BY <1>3, <2>3, <4>1 DEF Clear
      <4>2. CASE status.i + 1 \notin Cell
        <5>1. status.i \in Cell
          OBVIOUS
        <5> HIDE DEF WindowInv, IndexInv, TypeOK, OldByPlace, Cleared, Old
        <5> QED
          BY <4>2, <5>1 DEF Cell
      <4> QED
        BY <4>1, <4>2
    <3>3. CASE c = status.i
      BY <3>1, <3>3
    <3>4. CASE c < status.i
      BY <3>1, <3>4
    <3> QED
      BY <3>1, <3>2, <3>3, <3>4
  <2> QED
    BY <1>3, <2>1, <2>2, <2>3 DEF Clear
<1>4. CASE ResetIndex \/ Enable
  <2>1. met => met'
    BY <1>4, Zenon DEF ResetIndex, Enable
  <2>2. UNCHANGED <<work, mIntegralBuffer>> /\ status.pc \in {"index", "enable"}
    BY <1>4 DEF ResetIndex, Enable, window
  <2> QED
    BY <2>1, <2>2
<1> QED
  BY <1>1, <1>2, <1>3, <1>4 DEF StatusThread

LEMMA WorkKeepsOld == WindowInv /\ Work => OldByPlace'
<1> SUFFICES ASSUME WindowInv, Work PROVE OldByPlace'
  OBVIOUS
<1> USE CellFacts DEF WindowInv, IndexInv, TypeOK, OldByPlace, Cleared, Old
<1>1. UNCHANGED status
  BY DEF Work, Others
<1>2. met => met'
  BY Zenon DEF Work, Others
<1>3. CASE Check
  BY <1>1, <1>2, <1>3 DEF Check, window
<1>4. CASE Store
  <2>1. /\ work.pc = "store" /\ work'.pc = "load" /\ work'.error = work.error
        /\ mIntegralBuffer' = [mIntegralBuffer EXCEPT ![mIntegralBufferIndex] = work.error]
    BY <1>4 DEF Store, Goto
  <2>2. CASE work.error = "old"
    BY <1>1, <1>2, <2>1, <2>2
  <2>3. CASE work.error # "old"
    BY <1>1, <1>2, <2>1, <2>3
  <2> QED
    BY <2>2, <2>3
<1>5. CASE Load("load", "increment") \/ Increment \/ Load("reload", "wrap") \/ Wrap \/ Sum
  <2>1. /\ UNCHANGED mIntegralBuffer
        /\ work.pc # "idle" /\ work'.error = work.error /\ work'.pc # "store"
    BY <1>5 DEF Load, Increment, Wrap, Sum, Goto, window
  <2> QED
    BY <1>1, <1>2, <2>1
<1> QED
  BY <1>3, <1>4, <1>5 DEF Work

(* A takeover starts from a clear window but for one error at most, which a *)
(* work() under way leaves (attitude_controller.cpp 110-119, pid.cpp 25-33).*)
THEOREM TakeoverClears == Spec => []WindowIsClear
<1>1. Init => OldByPlace
  BY DEF Init, OldByPlace
<1>2. IndexInv /\ OldByPlace /\ [Next]_vars => OldByPlace'
  <2>1. CASE UNCHANGED vars
    <3>1. UNCHANGED <<status, work, mIntegralBuffer>>
      BY <2>1 DEF vars, window
    <3>2. met => met'
      BY <2>1, Zenon DEF vars
    <3> QED
      BY <3>1, <3>2 DEF OldByPlace, Cleared, Old
  <2> QED
    BY <2>1, StatusKeepsOld, WorkKeepsOld DEF Next, WindowInv
<1>3. OldByPlace => WindowIsClear
  BY DEF OldByPlace, Cleared, Old, WindowIsClear
<1> QED
  BY <1>1, <1>2, <1>3, IndexInvariance, PTL DEF Spec

(* The same of the PID among the other parts.                               *)
THEOREM PidIsAPart == PartsSpec => Spec
<1>1. PartsInit => Init
  BY DEF PartsInit
<1>2. [PartsNext]_allVars => [Next]_vars
  BY DEF PartsNext, allVars, PidMoves, SourceMoves, TimePasses, MessageArrives, UpdateGoesOn,
         GetAttitude, Outside, ServoMoves, LoopMoves
<1> QED BY <1>1, <1>2, PTL DEF PartsSpec, Spec

-----------------------------------------------------------------------------
(* The clocks.                                                              *)
LEMMA Modulo ==
  ASSUME NEW w \in Nat, NEW n \in Nat, 0 < w, n < w + w
  PROVE  n % w = IF n < w THEN n ELSE n - w
  OBVIOUS

-----------------------------------------------------------------------------
(* The scheduling loop.                                                     *)

\* What EveryRound's comment asks for: work() and its sleep fit the interval,
\* and no sleep is late by more than 0.7 ms.
SleepsInTime == WorkTime + Loop!Ms + Delay <= Loop!Round /\ Delay <= 7

\* The round that began b tenths after a multiple of the interval.
InStep(b) ==
    /\ time = IF b + since < Loop!Round THEN b + since ELSE b + since - Loop!Round
    /\ at = "work" => since + left <= WorkTime
    /\ at = "sleep" => b + since + left < Loop!Round + Loop!Ms

LoopInv ==
    /\ time \in 0 .. Loop!Round - 1 /\ at \in {"work", "sleep"} /\ left \in Nat
    /\ \/ since = Loop!Never
       \/ since \in Nat /\ \E b \in 0 .. Loop!Ms - 1 : InStep(b)
    /\ at = "work" => left <= WorkTime

LEMMA LoopNumbers ==
    /\ Loop!Round \in Nat /\ Loop!Round >= 10 /\ Loop!Ms = 10
    /\ Loop!Long \in Nat /\ Loop!Long >= Loop!Round + 20 /\ Loop!Never = Loop!Long + 1
    /\ WorkTime \in Nat /\ Delay \in Nat
  BY PartsAssumption DEF Loop!ConstantsAssumption, Loop!Round, Loop!Ms, Loop!Never, Loop!Long

LEMMA LoopStep ==
  ASSUME SleepsInTime, LoopInv, Loop!Next
  PROVE  LoopInv'
<1>0. PICK R : R = Loop!Round
  OBVIOUS
<1>1. /\ R \in Nat /\ R >= 10 /\ WorkTime \in Nat /\ Delay \in Nat /\ Loop!Ms = 10
      /\ Loop!Long \in Nat /\ Loop!Long >= R + 20 /\ Loop!Never = Loop!Long + 1
      /\ WorkTime + 10 + Delay <= R /\ Delay <= 7 /\ R = Loop!Round
      /\ R = Loop!Round' /\ Loop!Ms' = 10
  BY <1>0, LoopNumbers DEF SleepsInTime, Loop!Round, Loop!Ms
<1>2. CASE Loop!Tick
  <2>1. /\ left > 0 /\ left' = left - 1 /\ time' = (time + 1) % R /\ at' = at
        /\ since' = IF since < Loop!Long THEN since + 1 ELSE since
    BY <1>0, <1>2 DEF Loop!Tick
  <2>2. time \in Nat /\ time < R /\ left \in Nat /\ at \in {"work", "sleep"}
    BY <1>0, <1>1 DEF LoopInv
  <2>3. time' = IF time + 1 < R THEN time + 1 ELSE 0
    <3>1. PICK n \in Nat : n = time + 1 /\ time' = n % R
      BY <2>1, <2>2
    <3>2. n % R = IF n < R THEN n ELSE n - R
      BY <1>1, <2>2, <3>1, Modulo
    <3> QED BY <1>1, <2>2, <3>1, <3>2
  <2>4. CASE since = Loop!Never
    BY <1>1, <2>1, <2>2, <2>3, <2>4 DEF LoopInv
  <2>5. ASSUME NEW b \in 0 .. 9, since \in Nat, InStep(b) PROVE InStep(b)' /\ since' \in Nat
    <3>1. b + since + left < R + 10
      BY <1>1, <2>2, <2>5 DEF InStep
    <3>2. since' = since + 1
      BY <1>1, <2>1, <2>2, <3>1
    <3> QED BY <1>1, <2>1, <2>2, <2>3, <2>5, <3>1, <3>2 DEF InStep
  <2>6. at' = "work" => left' <= WorkTime
    BY <1>1, <2>1, <2>2 DEF LoopInv
  <2> QED BY <1>1, <2>1, <2>2, <2>3, <2>4, <2>5, <2>6 DEF LoopInv
<1>3. CASE Loop!WorkEnds
  <2>1. /\ at = "work" /\ left = 0 /\ at' = "sleep" /\ left' \in Nat /\ left' <= 10 + Delay
        /\ time' = time /\ since' = since
    BY <1>1, <1>3 DEF Loop!WorkEnds, Loop!Sleep, Loop!Ms
  <2>2. ASSUME NEW b \in 0 .. 9, since \in Nat, InStep(b) PROVE InStep(b)'
    <3>1. b + since + left' < R + 10
      <4>1. PICK l \in Nat, s \in Nat, r \in Nat, d \in Nat, w \in Nat :
               l = left' /\ s = since /\ r = R /\ d = Delay /\ w = WorkTime
        BY <1>1, <2>1, <2>2
      <4>2. s <= w /\ l <= 10 + d /\ w + 10 + d <= r
        BY <1>1, <2>1, <2>2, <4>1 DEF InStep
      <4>3. b + s + l < r + 10
        BY <4>2
      <4> QED BY <4>1, <4>3
    <3> QED BY <1>1, <2>1, <2>2, <3>1 DEF InStep
  <2> QED BY <1>1, <2>1, <2>2 DEF LoopInv
<1>4. CASE Loop!Look
  <2>1. /\ at = "sleep" /\ left = 0 /\ time \div 10 # 0 /\ left' \in Nat /\ left' <= 3 + Delay
        /\ UNCHANGED <<at, time, since>>
    BY <1>1, <1>4 DEF Loop!Look, Loop!Sleep, Loop!millis, Loop!Ms
  <2>2. time >= 10
    BY <1>1, <2>1 DEF LoopInv
  <2>3. ASSUME NEW b \in 0 .. 9, since \in Nat, InStep(b) PROVE InStep(b)'
    <3>1. b + since < R
      BY <1>1, <2>1, <2>2, <2>3 DEF InStep
    <3>2. b + since + left' < R + 10
      <4>1. PICK l \in Nat, s \in Nat, r \in Nat : l = left' /\ s = since /\ r = R
        BY <1>1, <2>1, <2>3
      <4>2. l <= 10 /\ b + s < r
        BY <1>1, <2>1, <3>1, <4>1
      <4>3. b + s + l < r + 10
        BY <4>2
      <4> QED BY <4>1, <4>3
    <3> QED BY <1>1, <2>1, <2>3, <3>2 DEF InStep
  <2> QED BY <1>1, <2>1, <2>3 DEF LoopInv
<1>5. CASE Loop!Begin
  <2>1. /\ time \div 10 = 0 /\ at' = "work" /\ left' \in Nat /\ left' <= WorkTime /\ since' = 0 /\ time' = time
    BY <1>1, <1>5 DEF Loop!Begin, Loop!millis, Loop!Ms
  <2>2. time \in 0 .. 9
    BY <1>1, <2>1 DEF LoopInv
  <2>3. time < R
    BY <1>1, <2>2
  <2>4. PICK b \in 0 .. 9 : b = time
    BY <2>2
  <2>5. InStep(b)'
    <3>1. b + since' = time' /\ b + since' < R
      BY <1>1, <2>1, <2>3, <2>4
    <3>2. since' + left' <= WorkTime /\ at' = "work"
      <4>1. PICK l \in Nat : l = left' /\ 0 + l = l
        BY <2>1
      <4> QED BY <2>1, <4>1
    <3> QED BY <1>1, <2>1, <3>1, <3>2 DEF InStep
  <2> QED BY <1>1, <2>1, <2>2, <2>5 DEF LoopInv
<1> QED BY <1>2, <1>3, <1>4, <1>5 DEF Loop!Next

(* Once in step with the clock, the loop of every controller and navigator  *)
(* misses no round and begins none late, whatever its interval, as long as  *)
(* work() and its sleep fit it and no sleep is late by more than 0.7 ms     *)
(* (utils/i_interval_thread.cpp).                                           *)
THEOREM NoRoundIsMissed ==
  ASSUME SleepsInTime
  PROVE  PartsSpec => []EveryRound
<1> USE LoopNumbers
<1>1. PartsInit => LoopInv
  BY DEF PartsInit, Loop!Init, LoopInv
<1>2. LoopInv /\ [PartsNext]_allVars => LoopInv'
  <2> SUFFICES ASSUME LoopInv, [PartsNext]_allVars PROVE LoopInv'
    OBVIOUS
  <2>1. CASE LoopMoves
    BY <2>1, LoopStep DEF LoopMoves
  <2>2. CASE UNCHANGED loopVars
    BY <2>2 DEF loopVars, LoopInv, InStep
  <2> QED
    BY <2>1, <2>2 DEF PartsNext, PidMoves, SourceMoves, TimePasses, MessageArrives, UpdateGoesOn,
                      GetAttitude, Outside, ServoMoves, allVars
<1>3. LoopInv => EveryRound
  <2> SUFFICES ASSUME LoopInv, since # Loop!Never PROVE since < Loop!Round + Loop!Ms
    BY DEF EveryRound, Loop!EveryRound
  <2>1. PICK b \in 0 .. 9 : since \in Nat /\ InStep(b)
    BY DEF LoopInv
  <2>2. CASE at = "work"
    BY <2>1, <2>2 DEF InStep, LoopInv, SleepsInTime
  <2>3. CASE at = "sleep"
    BY <2>1, <2>3 DEF InStep, LoopInv
  <2> QED BY <2>2, <2>3 DEF LoopInv
<1> QED BY <1>1, <1>2, <1>3, PTL DEF PartsSpec

-----------------------------------------------------------------------------
(* The source of the attitude.                                              *)

\* The clock has gone on by n since it showed t.
Gone(t, n) == t + n = now \/ t + n = now + ClockWrap

\* A reader at the comparison knows a clock lag steps old.
ClockRead == \A r \in Reader :
    reader[r].pc = "compare" => Gone(reader[r].clock, reader[r].lag)

\* One that will hand the virtual attitude out does so in time.
InTime == \A r \in Reader :
    reader[r].pc = "copy" \/ (reader[r].pc = "result" /\ mIsInService) =>
        age <= Timeout + reader[r].lag + took

\* The update takes no longer than the attitude is old.
Updating == took <= age /\ (radio # "idle" => took = age)

\* The clock showed t during the last update.
Stamped(t) == \E a \in Nat : Gone(t, a) /\ a <= age /\ age <= a + took

\* In service the time of the last data is known, but while it is written.
Tracked ==
    /\ radio = "time" => Stamped(stamp)
    /\ radio = "flag" => Stamped(mLastValidDataTime)
    /\ mIsInService /\ radio = "idle" =>
           Stamped(mLastValidDataTime) /\ age <= Timeout + Silence + took

\* Without a crossing nobody is about to take a fresh attitude out of service.
Uncrossed ==
    radio = "idle" /\ age <= Timeout /\ ~crossed =>
        /\ mIsInService
        /\ \A r \in Reader : /\ reader[r].pc # "clear"
                             /\ reader[r].pc = "compare" => reader[r].lag + took <= age

SourceInv ==
    /\ Source!TypeOK
    /\ ClockRead /\ InTime /\ Updating /\ Tracked /\ Uncrossed
    /\ Source!ServedFresh

LEMMA SourceNumbers ==
    /\ Timeout \in Nat /\ ClockWrap \in Nat /\ Slack \in Nat /\ Silence \in Nat /\ Late \in Nat
    /\ Timeout > 0 /\ ClockWrap > 0 /\ Slack > 0 /\ Silence > 0 /\ Late > 0
    /\ Timeout + Slack + Late + Silence < ClockWrap
    /\ Source!Old = Timeout + Slack + Late + Silence
  BY PartsAssumption DEF Source!ConstantsAssumption, Source!Old

\* What isInService computes from the clock it read and the time it finds.
LEMMA Difference ==
  ASSUME NEW w \in Nat, NEW t \in Nat, NEW l \in Nat, NEW a \in Nat, NEW n \in Nat,
         NEW c \in Nat, NEW m \in Nat, n < w, c < w, m < w, t + l < w, a < w,
         c + l = n \/ c + l = n + w, m + a = n \/ m + a = n + w
  PROVE  (c + w - m) % w <= t <=> l <= a /\ a <= t + l
<1>1. PICK d \in Nat : d = c + w - m /\ d < w + w
  <2>1. c + w - m \in Nat /\ c + w - m < w + w
    OBVIOUS
  <2> QED BY <2>1
<1>2. d % w = IF d < w THEN d ELSE d - w
  BY <1>1, Modulo
<1>3. CASE l <= a
  <2>1. CASE d < w
    <3>1. d + l = a
      BY <1>1, <1>3, <2>1
    <3> QED BY <1>2, <1>3, <2>1, <3>1
  <2>2. CASE d >= w
    <3>1. d + l = a + w
      BY <1>1, <1>3, <2>2
    <3> QED BY <1>2, <1>3, <2>2, <3>1
  <2> QED BY <2>1, <2>2
<1>4. CASE a < l
  <2>1. CASE d < w
    <3>1. d + l = a + w
      BY <1>1, <1>4, <2>1
    <3> QED BY <1>2, <1>4, <2>1, <3>1
  <2>2. CASE d >= w
    <3>1. d + l = a + w + w
      BY <1>1, <1>4, <2>2
    <3> QED BY <1>2, <1>4, <2>2, <3>1
  <2> QED BY <2>1, <2>2
<1> QED BY <1>3, <1>4

LEMMA SourceInit == PartsInit => SourceInv
<1> SUFFICES ASSUME PartsInit PROVE SourceInv
  OBVIOUS
<1> USE SourceNumbers
<1>1. Source!Init
  BY DEF PartsInit
<1>2. /\ now = 0 /\ mLastValidDataTime = 0 /\ radio = "idle" /\ age = Source!Old
      /\ stamp = 0 /\ took = 0
      /\ reader = [r \in Reader |-> [pc |-> "idle", clock |-> 0, lag |-> 0]]
      /\ served = [source |-> "imu", age |-> 0]
  BY <1>1 DEF Source!Init, Source!Outside
<1>3. mIsInService \in BOOLEAN /\ crossed \in BOOLEAN /\ ~mIsInService
  BY <1>1, Zenon DEF Source!Init
<1>4. Source!TypeOK
  BY <1>2, <1>3 DEF Source!TypeOK
<1>5. ClockRead /\ Source!ServedFresh /\ Updating
  BY <1>2 DEF ClockRead, Source!ServedFresh, Updating
<1>6. InTime
  BY <1>2, Zenon DEF InTime
<1>7. Tracked
  BY <1>2, <1>3 DEF Tracked
<1>8. Uncrossed
  BY <1>2 DEF Uncrossed
<1> QED BY <1>4, <1>5, <1>6, <1>7, <1>8 DEF SourceInv

\* Where every thread is does not matter to the passing of time.
LEMMA TickStep ==
  ASSUME SourceInv, Source!Tick
  PROVE  SourceInv'
<1> PICK W \in Nat, T \in Nat, S \in Nat, Q \in Nat, L \in Nat :
      W = ClockWrap /\ T = Timeout /\ S = Slack /\ Q = Silence /\ L = Late
  BY SourceNumbers
<1>1. T + S + L + Q < W /\ Source!Old = T + S + L + Q /\ W > 0 /\ S > 0
  BY SourceNumbers
<1>2. /\ radio' = radio /\ mLastValidDataTime' = mLastValidDataTime /\ stamp' = stamp
      /\ served' = served /\ now' = (now + 1) % W
      /\ age' = IF age < Source!Old THEN age + 1 ELSE Source!Old
      /\ took' = IF radio = "idle" THEN took ELSE took + 1
      /\ radio # "idle" => took < L
      /\ \A r \in Reader : reader[r].lag < S
      /\ reader' = [r \in Reader |-> IF reader[r].pc = "idle"
                                     THEN [pc |-> "idle", clock |-> 0, lag |-> 0]
                                     ELSE [reader[r] EXCEPT !.lag = @ + 1]]
  BY DEF Source!Tick, Source!imuVars, Source!Outside
<1>3. /\ mIsInService' = mIsInService /\ crossed' = crossed
      /\ mIsInService => age < Timeout + Silence + took
  BY Zenon DEF Source!Tick, Source!imuVars
<1>4. PICK n \in Nat, a \in Nat, k \in Nat :
         /\ n = now /\ n < W /\ a = age /\ a <= T + S + L + Q /\ k = took /\ k <= L
         /\ k <= a /\ (radio # "idle" => k = a)
  BY <1>1 DEF SourceInv, Source!TypeOK, Updating
<1>5. now' = IF n + 1 < W THEN n + 1 ELSE 0
  <2>1. PICK m \in Nat : m = n + 1 /\ m < W + W /\ now' = m % W
    BY <1>1, <1>2, <1>4
  <2> QED BY <1>1, <1>4, <2>1, Modulo
<1>6. /\ age' = IF a < T + S + L + Q THEN a + 1 ELSE T + S + L + Q
      /\ radio # "idle" => a < T + S + L + Q
  BY <1>1, <1>2, <1>4
<1>7. /\ reader \in [Reader -> [pc : {"idle", "clock", "compare", "clear", "result", "copy"},
                                clock : 0 .. W - 1, lag : 0 .. S]]
      /\ mLastValidDataTime \in 0 .. W - 1 /\ stamp \in 0 .. W - 1
      /\ radio \in {"idle", "clock", "time", "flag"}
      /\ served \in [source : {"imu", "virtual"}, age : 0 .. T + S + L + Q]
      /\ mIsInService \in BOOLEAN /\ crossed \in BOOLEAN
  BY <1>1 DEF SourceInv, Source!TypeOK
<1>8. ASSUME NEW r \in Reader
      PROVE  /\ reader'[r].pc = reader[r].pc
             /\ reader[r].pc # "idle" => /\ reader'[r].clock = reader[r].clock
                                         /\ reader'[r].lag = reader[r].lag + 1
  BY <1>2, <1>7
<1>9. Updating'
  BY <1>2, <1>4, <1>6 DEF Updating
<1>10. Source!TypeOK'
  <2>1. reader' \in [Reader -> [pc : {"idle", "clock", "compare", "clear", "result", "copy"},
                                clock : 0 .. W - 1, lag : 0 .. S]]
    BY <1>1, <1>2, <1>7
  <2>2. now' \in 0 .. W - 1 /\ age' \in 0 .. T + S + L + Q /\ took' \in 0 .. L
    BY <1>1, <1>2, <1>4, <1>5, <1>6
  <2>3. mIsInService' \in BOOLEAN /\ crossed' \in BOOLEAN
    BY <1>3, <1>7, Zenon
  <2> QED BY <1>1, <1>2, <1>7, <2>1, <2>2, <2>3 DEF Source!TypeOK
<1>11. ASSUME NEW t \in Nat, NEW d \in Nat, t < W, d < W, t + d = n \/ t + d = n + W
       PROVE  t + (d + 1) = now' \/ t + (d + 1) = now' + W
  <2>1. CASE n + 1 < W
    BY <1>5, <1>11, <2>1
  <2>2. CASE n + 1 = W
    BY <1>5, <1>11, <2>2
  <2> QED BY <1>4, <2>1, <2>2
<1>12. ClockRead'
  <2>1. ASSUME NEW r \in Reader, reader'[r].pc = "compare"
        PROVE  Gone(reader[r].clock, reader[r].lag)'
    <3>1. PICK t \in Nat, d \in Nat : t = reader[r].clock /\ d = reader[r].lag /\ t < W /\ d < S
      BY <1>2, <1>7
    <3>2. t + d = n \/ t + d = n + W
      BY <1>4, <1>8, <2>1, <3>1 DEF SourceInv, ClockRead, Gone
    <3>3. t + (d + 1) = now' \/ t + (d + 1) = now' + W
      BY <1>1, <1>11, <3>1, <3>2
    <3>4. reader'[r].clock = t /\ reader'[r].lag = d + 1
      BY <1>8, <2>1, <3>1
    <3> QED BY <3>3, <3>4 DEF Gone
  <2> QED BY <2>1, Zenon DEF ClockRead
<1>13. InTime'
  <2>1. ASSUME NEW r \in Reader, reader'[r].pc = "copy" \/ (reader'[r].pc = "result" /\ mIsInService)
        PROVE  age' <= Timeout + reader'[r].lag + took'
    <3>1. PICK d \in Nat : d = reader[r].lag /\ reader'[r].lag = d + 1
      BY <1>7, <1>8, <2>1
    <3>2. age <= Timeout + reader[r].lag + took
      BY <1>8, <2>1, Zenon DEF SourceInv, InTime
    <3>3. a <= T + d + k
      BY <1>4, <3>1, <3>2
    <3>4. took' = k \/ took' = k + 1
      BY <1>2, <1>4
    <3> QED BY <1>4, <1>6, <3>1, <3>3, <3>4
  <2> QED BY <1>3, <2>1, Zenon DEF InTime
\* What was stamped during the update stays so while age goes on.
<1>14. ASSUME NEW t \in 0 .. W - 1, Stamped(t), a < T + S + L + Q PROVE Stamped(t)'
  <2>1. PICK d \in Nat : Gone(t, d) /\ d <= age /\ age <= d + took
    BY <1>14 DEF Stamped
  <2>2. t + d = n \/ t + d = n + W
    BY <1>4, <2>1 DEF Gone
  <2>3. d < W
    BY <1>1, <1>4, <2>1
  <2>4. t + (d + 1) = now' \/ t + (d + 1) = now' + W
    BY <1>11, <2>2, <2>3
  <2>5. Gone(t, d + 1)'
    BY <2>4 DEF Gone
  <2>6. d + 1 <= age' /\ age' <= (d + 1) + took'
    BY <1>2, <1>4, <1>6, <1>14, <2>1
  <2>7. d + 1 \in Nat
    OBVIOUS
  <2> QED BY <2>5, <2>6, <2>7, Zenon DEF Stamped
<1>15. Tracked'
  <2>1. radio' = "time" => Stamped(stamp)'
    BY <1>2, <1>6, <1>7, <1>14 DEF SourceInv, Tracked
  <2>2. radio' = "flag" => Stamped(mLastValidDataTime)'
    BY <1>2, <1>6, <1>7, <1>14 DEF SourceInv, Tracked
  <2>3. ASSUME mIsInService, radio = "idle"
        PROVE  Stamped(mLastValidDataTime)' /\ age' <= Timeout + Silence + took'
    <3>1. Stamped(mLastValidDataTime) /\ age < Timeout + Silence + took
      BY <1>3, <2>3, Zenon DEF SourceInv, Tracked
    <3>2. a < T + Q + k
      BY <1>4, <3>1
    <3>3. a < T + S + L + Q
      BY <1>1, <1>4, <3>2
    <3>4. age' = a + 1 /\ took' = k
      BY <1>2, <1>4, <1>6, <2>3, <3>3
    <3>5. Stamped(mLastValidDataTime)'
      <4>1. PICK t \in 0 .. W - 1 : t = mLastValidDataTime /\ t = mLastValidDataTime'
        BY <1>2, <1>7
      <4>2. Stamped(t)'
        BY <1>14, <3>1, <3>3, <4>1 DEF Stamped, Gone
      <4> QED BY <4>1, <4>2 DEF Stamped, Gone
    <3> QED BY <3>2, <3>4, <3>5
  <2> QED BY <1>2, <1>3, <2>1, <2>2, <2>3, Zenon DEF Tracked
<1>16. Uncrossed'
  <2> SUFFICES ASSUME radio = "idle", age' <= Timeout, ~crossed
               PROVE  /\ mIsInService
                      /\ \A r \in Reader : /\ reader'[r].pc # "clear"
                                           /\ reader'[r].pc = "compare" => reader'[r].lag + took' <= age'
    BY <1>2, <1>3, Zenon DEF Uncrossed
  <2>1. a <= T /\ age' = a + 1 /\ took' = k
    BY <1>1, <1>2, <1>4, <1>6
  <2>2. age <= Timeout
    BY <1>4, <2>1
  <2>3. /\ mIsInService
        /\ \A r \in Reader : /\ reader[r].pc # "clear"
                             /\ reader[r].pc = "compare" => reader[r].lag + took <= age
    BY <2>2, Zenon DEF SourceInv, Uncrossed
  <2>4. ASSUME NEW r \in Reader, reader'[r].pc = "compare" PROVE reader'[r].lag + took' <= age'
    <3>1. PICK d \in Nat : d = reader[r].lag /\ reader'[r].lag = d + 1
      BY <1>7, <1>8, <2>4
    <3>2. d + k <= a
      BY <1>4, <1>8, <2>3, <2>4, <3>1
    <3> QED BY <2>1, <3>1, <3>2
  <2> QED BY <1>8, <2>3, <2>4, Zenon
<1>17. Source!ServedFresh'
  BY <1>2 DEF SourceInv, Source!ServedFresh
<1> QED BY <1>9, <1>10, <1>12, <1>13, <1>15, <1>16, <1>17, Zenon DEF SourceInv

\* No reader that waits for the result of a look during an update is late.
LEMMA UpdateStep ==
  ASSUME SourceInv, Source!UpdateAttitude
  PROVE  SourceInv'
<1> PICK W \in Nat, T \in Nat, S \in Nat, Q \in Nat, L \in Nat :
      W = ClockWrap /\ T = Timeout /\ S = Slack /\ Q = Silence /\ L = Late
  BY SourceNumbers
<1>1. T + S + L + Q < W /\ Source!Old = T + S + L + Q /\ W > 0
  BY SourceNumbers
<1>2. /\ reader \in [Reader -> [pc : {"idle", "clock", "compare", "clear", "result", "copy"},
                                clock : 0 .. W - 1, lag : 0 .. S]]
      /\ now \in 0 .. W - 1 /\ mLastValidDataTime \in 0 .. W - 1 /\ stamp \in 0 .. W - 1
      /\ age \in 0 .. T + S + L + Q /\ took \in 0 .. L
      /\ served \in [source : {"imu", "virtual"}, age : 0 .. T + S + L + Q]
      /\ mIsInService \in BOOLEAN /\ crossed \in BOOLEAN
      /\ Updating
  BY <1>1 DEF SourceInv, Source!TypeOK
\* Until the update is through, age = took.
<1>3. /\ UNCHANGED <<now, reader, served>>
      /\ age' = took' /\ age' \in 0 .. T + S + L + Q /\ took' \in 0 .. L
  <2>1. CASE Source!WriteAttitude
    <3>1. UNCHANGED <<now, reader, served>> /\ age' = 0 /\ took' = 0
      BY <2>1, Zenon DEF Source!WriteAttitude
    <3>2. 0 \in 0 .. T + S + L + Q /\ 0 \in 0 .. L
      OBVIOUS
    <3> QED BY <3>1, <3>2, Zenon
  <2>2. CASE Source!ReadTime \/ Source!WriteTime \/ Source!WriteFlag
    <3>1. UNCHANGED <<now, reader, served, age, took>> /\ radio \in {"clock", "time", "flag"}
      BY <2>2 DEF Source!ReadTime, Source!WriteTime, Source!WriteFlag
    <3>2. age = took
      BY <1>2, <3>1 DEF Updating
    <3> QED BY <1>2, <3>1, <3>2, Zenon
  <2> QED BY <2>1, <2>2 DEF Source!UpdateAttitude
<1>4. ClockRead' /\ Source!ServedFresh'
  BY <1>3, Zenon DEF SourceInv, ClockRead, Gone, Source!ServedFresh
<1>5. InTime'
  <2>1. \A r \in Reader : age' <= Timeout + reader[r].lag + took'
    <3>1. ASSUME NEW r \in Reader PROVE age' <= Timeout + reader[r].lag + took'
      <4>1. PICK d \in Nat, k \in Nat : d = reader[r].lag /\ k = took' /\ k = age'
        BY <1>2, <1>3
      <4>2. k <= T + d + k
        OBVIOUS
      <4> QED BY <4>1, <4>2
    <3> QED BY <3>1
  <2> QED BY <1>3, <2>1, Zenon DEF InTime
<1>6. Updating'
  BY <1>3 DEF Updating
<1>7. CASE Source!WriteAttitude
  <2>1. /\ radio' = "clock" /\ mLastValidDataTime' = mLastValidDataTime /\ stamp' = stamp
    BY <1>7 DEF Source!WriteAttitude, Source!imuVars
  <2>2. mIsInService' \in BOOLEAN /\ crossed' \in BOOLEAN
    BY <1>2, <1>7, Zenon DEF Source!WriteAttitude, Source!imuVars
  <2>3. Source!TypeOK'
    BY <1>1, <1>2, <1>3, <2>1, <2>2 DEF Source!TypeOK
  <2>4. Tracked' /\ Uncrossed'
    BY <2>1 DEF Tracked, Uncrossed
  <2> QED BY <1>4, <1>5, <1>6, <2>3, <2>4 DEF SourceInv
<1>8. CASE Source!ReadTime
  <2>1. /\ radio' = "time" /\ mLastValidDataTime' = mLastValidDataTime /\ stamp' = now
    BY <1>8 DEF Source!ReadTime, Source!imuVars
  <2>2. mIsInService' \in BOOLEAN /\ crossed' \in BOOLEAN
    BY <1>2, <1>8, Zenon DEF Source!ReadTime, Source!imuVars
  <2>3. Source!TypeOK'
    BY <1>1, <1>2, <1>3, <2>1, <2>2 DEF Source!TypeOK
  <2>4. Stamped(stamp)'
    <3>1. PICK n \in Nat, k \in Nat : n = stamp' /\ n = now' /\ k = age' /\ k = took'
      <4>1. now \in Nat /\ age' \in Nat
        BY <1>2, <1>3
      <4> QED BY <1>3, <2>1, <4>1, Zenon
    <3>2. n + 0 = n /\ 0 <= k /\ k <= 0 + k /\ 0 \in Nat
      OBVIOUS
    <3> QED BY <3>1, <3>2, Zenon DEF Stamped, Gone
  <2>5. Tracked' /\ Uncrossed'
    BY <2>1, <2>4 DEF Tracked, Uncrossed
  <2> QED BY <1>4, <1>5, <1>6, <2>3, <2>5 DEF SourceInv
<1>9. CASE Source!WriteTime
  <2>1. /\ radio = "time" /\ radio' = "flag" /\ mLastValidDataTime' = stamp /\ stamp' = 0
        /\ UNCHANGED <<age, took>>
    BY <1>9 DEF Source!WriteTime
  <2>2. mIsInService' \in BOOLEAN /\ crossed' \in BOOLEAN
    BY <1>2, <1>9, Zenon DEF Source!WriteTime
  <2>3. Source!TypeOK'
    BY <1>1, <1>2, <1>3, <2>1, <2>2 DEF Source!TypeOK
  <2>4. Stamped(mLastValidDataTime)'
    <3>1. Stamped(stamp)
      BY <2>1 DEF SourceInv, Tracked
    <3> QED BY <1>3, <2>1, <3>1 DEF Stamped, Gone
  <2>5. Tracked' /\ Uncrossed'
    BY <2>1, <2>4 DEF Tracked, Uncrossed
  <2> QED BY <1>4, <1>5, <1>6, <2>3, <2>5 DEF SourceInv
<1>10. CASE Source!WriteFlag
  <2>1. /\ radio = "flag" /\ radio' = "idle" /\ mLastValidDataTime' = mLastValidDataTime
        /\ stamp' = stamp /\ UNCHANGED <<age, took>>
    BY <1>10 DEF Source!WriteFlag
  <2>2. mIsInService' = TRUE /\ crossed' = \E r \in Reader : reader[r].pc \in {"compare", "clear"}
    BY <1>10, Zenon DEF Source!WriteFlag
  <2>3. Source!TypeOK'
    <3>1. mIsInService' \in BOOLEAN /\ crossed' \in BOOLEAN
      BY <2>2, Zenon
    <3> QED BY <1>1, <1>2, <1>3, <2>1, <3>1 DEF Source!TypeOK
  <2>4. Stamped(mLastValidDataTime)' /\ age' <= Timeout + Silence + took'
    <3>1. Stamped(mLastValidDataTime)
      BY <2>1, Zenon DEF SourceInv, Tracked
    <3>2. age' <= Timeout + Silence + took'
      <4>1. PICK k \in Nat : k = took' /\ k = age'
        BY <1>3
      <4>2. k <= T + Q + k
        OBVIOUS
      <4> QED BY <4>1, <4>2
    <3> QED BY <1>3, <2>1, <3>1, <3>2 DEF Stamped, Gone
  <2>5. Tracked'
    BY <2>1, <2>4 DEF Tracked
  <2>6. Uncrossed'
    <3>1. ~crossed' => \A r \in Reader : reader[r].pc # "clear" /\ reader[r].pc # "compare"
      BY <2>2, Zenon
    <3> QED BY <1>3, <2>2, <3>1, Zenon DEF Uncrossed
  <2> QED BY <1>4, <1>5, <1>6, <2>3, <2>5, <2>6 DEF SourceInv
<1> QED BY <1>7, <1>8, <1>9, <1>10 DEF Source!UpdateAttitude

\* What getAttitude makes of the reader r, x, of the flag and of served.
Step(r, x) ==
    /\ reader' = [reader EXCEPT ![r] = x]
    /\ x \in [pc : {"idle", "clock", "compare", "clear", "result", "copy"},
              clock : 0 .. ClockWrap - 1, lag : 0 .. Slack]
    /\ x.pc = "compare" => x.clock = now /\ x.lag = 0
    /\ mIsInService' \in BOOLEAN /\ (mIsInService' => mIsInService)
    /\ x.pc = "copy" \/ (x.pc = "result" /\ mIsInService') => age <= Timeout + x.lag + took
    /\ radio = "idle" /\ age <= Timeout /\ ~crossed => mIsInService' /\ x.pc # "clear"
    /\ served' \in [source : {"imu", "virtual"}, age : 0 .. Source!Old]
    /\ served'.source = "virtual" => served'.age <= Timeout + Slack

LEMMA StepKeeps ==
  ASSUME SourceInv, NEW r \in Reader, NEW x, Step(r, x),
         UNCHANGED <<now, radio, stamp, age, took, crossed, mLastValidDataTime>>
  PROVE  SourceInv'
<1>1. /\ reader \in [Reader -> [pc : {"idle", "clock", "compare", "clear", "result", "copy"},
                                clock : 0 .. ClockWrap - 1, lag : 0 .. Slack]]
      /\ age \in Nat
  BY SourceNumbers DEF SourceInv, Source!TypeOK
<1>2. reader'[r] = x /\ \A d \in Reader : d # r => reader'[d] = reader[d]
  BY <1>1 DEF Step
<1>3. mIsInService' => mIsInService
  BY Zenon DEF Step
<1>4. Source!TypeOK'
  <2>1. reader' \in [Reader -> [pc : {"idle", "clock", "compare", "clear", "result", "copy"},
                                clock : 0 .. ClockWrap - 1, lag : 0 .. Slack]]
    BY <1>1 DEF Step
  <2>2. served' \in [source : {"imu", "virtual"}, age : 0 .. Source!Old]
    BY DEF Step
  <2>3. mIsInService' \in BOOLEAN /\ crossed' \in BOOLEAN
    BY Zenon DEF Step, SourceInv, Source!TypeOK
  <2>4. /\ now' \in 0 .. ClockWrap - 1 /\ mLastValidDataTime' \in 0 .. ClockWrap - 1
        /\ radio' \in {"idle", "clock", "time", "flag"} /\ stamp' \in 0 .. ClockWrap - 1
        /\ age' \in 0 .. Source!Old /\ took' \in 0 .. Late
    BY DEF SourceInv, Source!TypeOK
  <2> QED BY <2>1, <2>2, <2>3, <2>4 DEF Source!TypeOK, Source!Old
<1>5. ClockRead'
  <2>1. ASSUME NEW d \in Reader, reader'[d].pc = "compare"
        PROVE  Gone(reader[d].clock, reader[d].lag)'
    <3>1. CASE d = r
      <4>1. reader'[d].clock = now' /\ reader'[d].lag = 0 /\ now' \in Nat
        BY <1>2, <1>4, <2>1, <3>1, SourceNumbers DEF Step, Source!TypeOK
      <4> QED BY <4>1 DEF Gone
    <3>2. CASE d # r
      BY <1>2, <2>1, <3>2 DEF SourceInv, ClockRead, Gone
    <3> QED BY <3>1, <3>2
  <2> QED BY <2>1, Zenon DEF ClockRead
<1>6. InTime'
  <2>1. ASSUME NEW d \in Reader,
               reader'[d].pc = "copy" \/ (reader'[d].pc = "result" /\ mIsInService')
        PROVE  age' <= Timeout + reader'[d].lag + took'
    <3>1. CASE d = r
      BY <1>2, <2>1, <3>1, Zenon DEF Step
    <3>2. CASE d # r
      BY <1>2, <1>3, <2>1, <3>2, Zenon DEF SourceInv, InTime
    <3> QED BY <3>1, <3>2
  <2> QED BY <2>1, Zenon DEF InTime
<1>7. Tracked'
  BY <1>3, Zenon DEF SourceInv, Tracked, Stamped, Gone
<1>8. Uncrossed'
  <2> SUFFICES ASSUME radio = "idle", age <= Timeout, ~crossed
               PROVE  /\ mIsInService'
                      /\ \A d \in Reader : /\ reader'[d].pc # "clear"
                                           /\ reader'[d].pc = "compare" => reader'[d].lag + took <= age
    BY Zenon DEF Uncrossed
  <2>1. mIsInService' /\ x.pc # "clear"
    BY Zenon DEF Step
  <2>2. \A d \in Reader : /\ reader[d].pc # "clear"
                          /\ reader[d].pc = "compare" => reader[d].lag + took <= age
    BY Zenon DEF SourceInv, Uncrossed
  <2>3. x.pc = "compare" => x.lag + took <= age
    <3>1. took \in Nat /\ took <= age
      BY DEF SourceInv, Source!TypeOK, Updating
    <3> QED BY <3>1 DEF Step
  <2>4. ASSUME NEW d \in Reader
        PROVE  reader'[d].pc # "clear" /\ (reader'[d].pc = "compare" => reader'[d].lag + took <= age)
    <3>1. CASE d = r
      BY <1>2, <2>1, <2>3, <3>1, Zenon
    <3>2. CASE d # r
      BY <1>2, <2>2, <3>2
    <3> QED BY <3>1, <3>2
  <2> QED BY <2>1, <2>4, Zenon
<1>9. Source!ServedFresh'
  BY Zenon DEF Step, Source!ServedFresh
<1>10. Updating'
  BY DEF SourceInv, Updating
<1> QED BY <1>4, <1>5, <1>6, <1>7, <1>8, <1>9, <1>10, Zenon DEF SourceInv

LEMMA GetStep ==
  ASSUME SourceInv, NEW r \in Reader, Source!GetAttitude(r)
  PROVE  SourceInv'
<1> DEFINE x == reader'[r]
           Records == [pc : {"idle", "clock", "compare", "clear", "result", "copy"},
                       clock : 0 .. ClockWrap - 1, lag : 0 .. Slack]
<1>1. /\ reader \in [Reader -> Records]
      /\ age \in 0 .. Source!Old /\ took \in 0 .. Late
      /\ took <= age /\ (radio # "idle" => took = age)
      /\ radio \in {"idle", "clock", "time", "flag"}
      /\ now \in 0 .. ClockWrap - 1 /\ mLastValidDataTime \in 0 .. ClockWrap - 1
      /\ served \in [source : {"imu", "virtual"}, age : 0 .. Source!Old]
      /\ served.source = "virtual" => served.age <= Timeout + Slack
      /\ Source!Old \in Nat
  BY SourceNumbers DEF SourceInv, Source!TypeOK, Source!ServedFresh, Updating
<1>2. mIsInService \in BOOLEAN
  BY Zenon DEF SourceInv, Source!TypeOK
<1>3. UNCHANGED <<now, radio, stamp, age, took, crossed, mLastValidDataTime>>
  BY Zenon DEF Source!GetAttitude, Source!LookAtFlag, Source!ReadClock, Source!Compare, Source!Clear,
         Source!ReadResult, Source!CopyVirtual, Source!imuVars
<1>4. /\ InTime /\ ClockRead
      /\ radio = "idle" /\ age <= Timeout /\ ~crossed =>
            mIsInService /\ reader[r].pc # "clear" /\ (reader[r].pc = "compare" => reader[r].lag + took <= age)
  BY Zenon DEF SourceInv, Uncrossed
<1>5. [pc |-> "idle", clock |-> 0, lag |-> 0] \in Records
  BY SourceNumbers
<1>6. \A label \in {"clock", "compare", "clear", "result", "copy"} :
         /\ [reader[r] EXCEPT !.pc = label] \in Records
         /\ [reader[r] EXCEPT !.pc = label].pc = label
         /\ [reader[r] EXCEPT !.pc = label].lag = reader[r].lag
         /\ [reader EXCEPT ![r].pc = label] = [reader EXCEPT ![r] = [reader[r] EXCEPT !.pc = label]]
  BY <1>1
\* The board's IMU is asked.
<1>7. ASSUME Source!Serve(r, "imu"), mIsInService' = mIsInService PROVE \E y : Step(r, y)
  <2> DEFINE y == [pc |-> "idle", clock |-> 0, lag |-> 0]
  <2>1. reader' = [reader EXCEPT ![r] = y] /\ served' = [source |-> "imu", age |-> 0]
    BY <1>7 DEF Source!Serve, Source!Outside
  <2>2. y.pc = "idle" /\ served'.source = "imu" /\ served' \in [source : {"imu", "virtual"}, age : 0 .. Source!Old]
    BY <1>1, <2>1
  <2> HIDE DEF y
  <2>3. y \in Records
    BY <1>5 DEF y
  <2> QED BY <1>2, <1>4, <1>7, <2>1, <2>2, <2>3, Zenon DEF Step
<1>8. CASE Source!LookAtFlag(r)
  <2>1. CASE mIsInService
    <3> DEFINE y == [reader[r] EXCEPT !.pc = "clock"]
    <3>1. reader' = [reader EXCEPT ![r] = y] /\ y \in Records /\ y.pc = "clock" /\ served' = served
      BY <1>6, <1>8, <2>1, Zenon DEF Source!LookAtFlag, Source!Goto
    <3>2. mIsInService' = mIsInService
      BY <1>8, Zenon DEF Source!LookAtFlag, Source!imuVars
    <3> HIDE DEF y
    <3> QED BY <1>1, <1>2, <1>4, <3>1, <3>2, StepKeeps, <1>3, Zenon DEF Step
  <2>2. CASE ~mIsInService
    <3>1. Source!Serve(r, "imu") /\ mIsInService' = mIsInService
      BY <1>8, <2>2, Zenon DEF Source!LookAtFlag, Source!imuVars
    <3> QED BY <1>7, <3>1, StepKeeps, <1>3, Zenon
  <2> QED BY <2>1, <2>2, Zenon
<1>9. CASE Source!ReadClock(r)
  <2> DEFINE y == [pc |-> "compare", clock |-> now, lag |-> 0]
  <2>1. reader' = [reader EXCEPT ![r] = y] /\ served' = served
    BY <1>9 DEF Source!ReadClock
  <2>2. mIsInService' = mIsInService
    BY <1>9, Zenon DEF Source!ReadClock, Source!imuVars
  <2>3. y \in Records /\ y.pc = "compare" /\ y.clock = now /\ y.lag = 0
    BY <1>1, SourceNumbers
  <2> HIDE DEF y
  <2> QED BY <1>1, <1>2, <1>4, <2>1, <2>2, <2>3, StepKeeps, <1>3, Zenon DEF Step
<1>10. CASE Source!Compare(r)
  <2> DEFINE late == (reader[r].clock + ClockWrap - mLastValidDataTime) % ClockWrap > Timeout
             label == IF late THEN "clear" ELSE "result"
             y == [reader[r] EXCEPT !.pc = label]
  <2>1. reader[r].pc = "compare" /\ served' = served
    BY <1>10 DEF Source!Compare
  <2>2. mIsInService' = mIsInService
    BY <1>10, Zenon DEF Source!Compare, Source!imuVars
  <2>3. reader' = [reader EXCEPT ![r].pc = label]
    BY <1>10, Zenon DEF Source!Compare, Source!Goto
  <2>4. Gone(reader[r].clock, reader[r].lag)
    BY <1>4, <2>1 DEF ClockRead
  <2>5. ASSUME NEW gone \in Nat, Gone(mLastValidDataTime, gone), gone < ClockWrap
        PROVE  ~late <=> reader[r].lag <= gone /\ gone <= Timeout + reader[r].lag
    <3>1. PICK w \in Nat, t \in Nat, l \in Nat, n \in Nat, c \in Nat, m \in Nat :
             /\ w = ClockWrap /\ t = Timeout /\ l = reader[r].lag /\ n = now
             /\ c = reader[r].clock /\ m = mLastValidDataTime
             /\ n < w /\ c < w /\ m < w /\ l <= Slack
      <4>1. /\ reader[r].lag \in 0 .. Slack /\ reader[r].clock \in 0 .. ClockWrap - 1
            /\ ClockWrap \in Nat /\ Slack \in Nat /\ Timeout \in Nat
        BY <1>1, SourceNumbers
      <4>2. /\ now \in Nat /\ now < ClockWrap /\ mLastValidDataTime \in Nat
            /\ mLastValidDataTime < ClockWrap
        BY <1>1, <4>1
      <4>3. /\ reader[r].lag \in Nat /\ reader[r].lag <= Slack
            /\ reader[r].clock \in Nat /\ reader[r].clock < ClockWrap
        BY <4>1
      <4> QED BY <4>1, <4>2, <4>3, Zenon
    <3>2. t + l < w
      BY <3>1, SourceNumbers
    <3>3. (c + l = n \/ c + l = n + w) /\ (m + gone = n \/ m + gone = n + w)
      BY <2>4, <2>5, <3>1 DEF Gone
    <3>4. (c + w - m) % w <= t <=> l <= gone /\ gone <= t + l
      <4>1. n < w /\ c < w /\ m < w /\ gone < w /\ t + l < w
        BY <2>5, <3>1, <3>2
      <4> QED BY <4>1, <3>3, Difference
    <3> QED BY <3>1, <3>4
  \* The stamp of what is in service.
  <2>6. ASSUME radio = "idle", mIsInService
        PROVE  \E gone \in Nat : /\ Gone(mLastValidDataTime, gone) /\ gone < ClockWrap
                                 /\ gone <= age /\ age <= gone + took
    <3>1. age <= Timeout + Silence + took
      BY <2>6, Zenon DEF SourceInv, Tracked
    <3>2. age < ClockWrap
      BY <1>1, <3>1, SourceNumbers
    <3>3. PICK gone \in Nat : Gone(mLastValidDataTime, gone) /\ gone <= age /\ age <= gone + took
      BY <2>6, Zenon DEF SourceInv, Tracked, Stamped
    <3>4. gone < ClockWrap
      BY <1>1, <3>2, <3>3, SourceNumbers
    <3> QED BY <3>3, <3>4
  <2>7. CASE late
    <3>1. y.pc = "clear" /\ reader' = [reader EXCEPT ![r] = y] /\ y \in Records
      BY <1>6, <2>3, <2>7
    <3>2. ~(radio = "idle" /\ age <= Timeout /\ ~crossed)
      <4> SUFFICES ASSUME radio = "idle", age <= Timeout, ~crossed PROVE FALSE
        BY Zenon
      <4>1. mIsInService /\ reader[r].lag + took <= age
        BY <1>4, <2>1, Zenon
      <4>2. PICK gone \in Nat : /\ Gone(mLastValidDataTime, gone) /\ gone < ClockWrap
                               /\ gone <= age /\ age <= gone + took
        BY <2>6, <4>1, Zenon
      <4>3. reader[r].lag \in Nat /\ took \in Nat /\ age \in Nat /\ Timeout \in Nat
        BY <1>1, SourceNumbers
      <4>4. PICK l \in Nat, k \in Nat, a \in Nat, t \in Nat :
               l = reader[r].lag /\ k = took /\ a = age /\ t = Timeout
        BY <4>3
      <4>5. l <= gone /\ gone <= t + l
        BY <4>1, <4>2, <4>4
      <4>6. ~late
        BY <2>5, <4>2, <4>4, <4>5
      <4> QED BY <2>7, <4>6
    <3> HIDE DEF y, late, label
    <3> QED BY <1>1, <1>2, <2>1, <2>2, <3>1, <3>2, StepKeeps, <1>3, Zenon DEF Step
  <2>8. CASE ~late
    <3>1. y.pc = "result" /\ reader' = [reader EXCEPT ![r] = y] /\ y \in Records
          /\ y.lag = reader[r].lag
      BY <1>6, <2>3, <2>8
    <3>2. ASSUME mIsInService PROVE age <= Timeout + reader[r].lag + took
      <4>1. reader[r].lag \in Nat /\ took \in Nat /\ age \in Nat /\ Timeout \in Nat
        BY <1>1, SourceNumbers
      <4>2. PICK l \in Nat, k \in Nat, a \in Nat, t \in Nat :
               l = reader[r].lag /\ k = took /\ a = age /\ t = Timeout
        BY <4>1
      <4>3. CASE radio # "idle"
        BY <1>1, <4>2, <4>3
      <4>4. CASE radio = "idle"
        <5>1. PICK gone \in Nat : /\ Gone(mLastValidDataTime, gone) /\ gone < ClockWrap
                                 /\ gone <= age /\ age <= gone + took
          BY <2>6, <3>2, <4>4
        <5>2. gone <= t + l
          BY <2>5, <2>8, <4>2, <5>1
        <5> QED BY <4>2, <5>1, <5>2
      <4> QED BY <4>3, <4>4
    <3> HIDE DEF y, late, label
    <3> QED BY <1>1, <1>2, <1>4, <2>1, <2>2, <3>1, <3>2, StepKeeps, <1>3, Zenon DEF Step
  <2> QED BY <2>7, <2>8
<1>11. CASE Source!Clear(r)
  <2> DEFINE y == [reader[r] EXCEPT !.pc = "result"]
  <2>1. reader[r].pc = "clear" /\ served' = served /\ reader' = [reader EXCEPT ![r] = y]
    BY <1>6, <1>11 DEF Source!Clear, Source!Goto
  <2>2. mIsInService' = FALSE
    BY <1>11, Zenon DEF Source!Clear
  <2>3. y \in Records /\ y.pc = "result"
    BY <1>6
  <2> HIDE DEF y
  <2> QED BY <1>1, <1>4, <2>1, <2>2, <2>3, StepKeeps, <1>3, Zenon DEF Step
<1>12. CASE Source!ReadResult(r)
  <2>1. CASE mIsInService
    <3> DEFINE y == [reader[r] EXCEPT !.pc = "copy"]
    <3>1. reader[r].pc = "result" /\ served' = served /\ reader' = [reader EXCEPT ![r] = y]
      BY <1>6, <1>12, <2>1, Zenon DEF Source!ReadResult, Source!Goto
    <3>2. mIsInService' = mIsInService
      BY <1>12, Zenon DEF Source!ReadResult, Source!imuVars
    <3>3. y \in Records /\ y.pc = "copy" /\ y.lag = reader[r].lag
      BY <1>6
    <3>4. age <= Timeout + reader[r].lag + took
      BY <1>4, <2>1, <3>1, Zenon DEF InTime
    <3> HIDE DEF y
    <3> QED BY <1>1, <1>2, <1>4, <3>1, <3>2, <3>3, <3>4, StepKeeps, <1>3, Zenon DEF Step
  <2>2. CASE ~mIsInService
    <3>1. Source!Serve(r, "imu") /\ mIsInService' = mIsInService
      BY <1>12, <2>2, Zenon DEF Source!ReadResult, Source!imuVars
    <3> QED BY <1>7, <3>1, StepKeeps, <1>3, Zenon
  <2> QED BY <2>1, <2>2, Zenon
<1>13. CASE Source!CopyVirtual(r)
  <2> DEFINE y == [pc |-> "idle", clock |-> 0, lag |-> 0]
  <2>1. /\ reader[r].pc = "copy" /\ reader' = [reader EXCEPT ![r] = y]
        /\ served' = [source |-> "virtual", age |-> age - took]
    BY <1>13 DEF Source!CopyVirtual, Source!Serve, Source!Outside
  <2>2. mIsInService' = mIsInService
    BY <1>13, Zenon DEF Source!CopyVirtual, Source!imuVars
  <2>3. y.pc = "idle" /\ y \in Records
    BY <1>5
  <2>4. served' \in [source : {"imu", "virtual"}, age : 0 .. Source!Old] /\ served'.age <= Timeout + Slack
    <3>1. age <= Timeout + reader[r].lag + took
      BY <1>4, <2>1 DEF InTime
    <3>2. PICK l \in Nat, a \in Nat, k \in Nat :
             l = reader[r].lag /\ a = age /\ k = took /\ l <= Slack /\ k <= a
      BY <1>1
    <3> QED BY <1>1, <2>1, <3>1, <3>2, SourceNumbers
  <2> HIDE DEF y
  <2> QED BY <1>1, <1>2, <1>4, <2>1, <2>2, <2>3, <2>4, StepKeeps, <1>3, Zenon DEF Step
<1> QED BY <1>8, <1>9, <1>10, <1>11, <1>12, <1>13 DEF Source!GetAttitude

(* No attitude of the virtual IMU is handed out late, counted from the end  *)
(* of its update and however late within it the clock was read, and a fresh *)
(* one is out of service only where an update was crossed, for any number   *)
(* of readers, timeout and clock (virtual_imu.cpp 22-62, adi.cpp).          *)
THEOREM AttitudeIsSound == PartsSpec => []AttitudeSound
<1>1. SourceInv /\ [PartsNext]_allVars => SourceInv'
  <2> SUFFICES ASSUME SourceInv, [PartsNext]_allVars PROVE SourceInv'
    OBVIOUS
  <2>1. CASE SourceMoves
    BY <2>1, TickStep, UpdateStep, GetStep, Zenon
       DEF SourceMoves, TimePasses, MessageArrives, UpdateGoesOn, GetAttitude, Source!UpdateAttitude
  <2>2. CASE UNCHANGED sourceVars
    BY <2>2, Zenon
       DEF sourceVars, SourceInv, Source!TypeOK, ClockRead, InTime, Updating, Tracked, Stamped,
           Uncrossed, Gone, Source!ServedFresh, Source!Old
  <2> QED BY <2>1, <2>2, Zenon DEF PartsNext, PidMoves, ServoMoves, LoopMoves, allVars
<1>2. SourceInv => AttitudeSound
  <2>1. Uncrossed => Source!FlagLostByCrossing
    BY Zenon DEF Uncrossed, Source!FlagLostByCrossing
  <2> QED BY <2>1, Zenon DEF SourceInv, AttitudeSound, Source!AttitudeSound
<1> QED BY SourceInit, <1>1, <1>2, PTL DEF PartsSpec

-----------------------------------------------------------------------------
(* The servo driver: the pilot's side.                                      *)

\* A channel shows the message in hand, or still the one before.
ChannelsShow == \A ch \in Channel :
    mRawServoSignal[ch] = IF ch \in fetch.todo THEN fetch.message - 1 ELSE fetch.message

CopySoFar ==
    /\ copy.floor <= Servo!Published
    /\ \A ch \in Channel \ copy.todo : copy.signal[ch] >= copy.floor

RawType ==
    /\ mRawServoSignal \in [Channel -> 0 .. MaxMessages]
    /\ fetch \in [message : 0 .. MaxMessages, todo : SUBSET Channel]
    /\ copy \in [todo : SUBSET Channel, signal : [Channel -> 0 .. MaxMessages],
                 floor : 0 .. MaxMessages]
    /\ fetch.todo # {} => fetch.message > 0

PilotInv == RawType /\ ChannelsShow /\ CopySoFar

LEMMA ServoNumbers == MaxMessages \in Nat /\ MaxWrites \in Nat /\ writeThread \notin Writer
                      /\ Mode \subseteq {"DISABLE", "MANULLY", "CONTINUOS"}
  BY PartsAssumption DEF Servo!ConstantsAssumption

LEMMA PublishedIs ==
  ASSUME RawType
  PROVE  /\ Servo!Published \in 0 .. MaxMessages
         /\ Servo!Published = IF fetch.todo = {} THEN fetch.message ELSE fetch.message - 1
  BY ServoNumbers DEF Servo!Published, RawType

LEMMA PilotInit == PartsInit => PilotInv
<1> SUFFICES ASSUME Servo!Init PROVE PilotInv
  BY DEF PartsInit
<1>1. /\ mRawServoSignal = [ch \in Channel |-> 0] /\ fetch = [message |-> 0, todo |-> {}]
      /\ copy = [todo |-> {}, signal |-> [ch \in Channel |-> 0], floor |-> 0]
  BY DEF Servo!Init, Servo!Constantly
<1>2. RawType
  BY <1>1, ServoNumbers DEF RawType
<1>3. ChannelsShow
  BY <1>1 DEF ChannelsShow
<1>4. CopySoFar
  BY <1>1, <1>2, PublishedIs DEF CopySoFar
<1> QED BY <1>2, <1>3, <1>4 DEF PilotInv

LEMMA PilotStep ==
  ASSUME PilotInv, Servo!Input
  PROVE  PilotInv'
<1> USE ServoNumbers
<1>0. RawType /\ ChannelsShow /\ CopySoFar
  BY DEF PilotInv
<1>1. CASE Servo!FetchMessage
  <2>1. /\ fetch.todo = {} /\ fetch.message < MaxMessages
        /\ fetch' = [message |-> fetch.message + 1, todo |-> Channel]
        /\ UNCHANGED <<mRawServoSignal, copy>>
    BY <1>1 DEF Servo!FetchMessage
  <2>2. RawType'
    BY <1>0, <2>1 DEF RawType
  <2>3. ChannelsShow'
    BY <1>0, <2>1 DEF ChannelsShow, RawType
  <2>4. Servo!Published <= Servo!Published'
    BY <1>0, <2>1 DEF Servo!Published, RawType
  <2>5. CopySoFar'
    BY <1>0, <2>1, <2>4 DEF CopySoFar, Servo!Published, RawType
  <2> QED BY <2>2, <2>3, <2>5 DEF PilotInv
<1>2. ASSUME NEW ch \in Channel, Servo!Publish(ch) PROVE PilotInv'
  <2>1. /\ ch \in fetch.todo
        /\ mRawServoSignal' = [mRawServoSignal EXCEPT ![ch] = fetch.message]
        /\ fetch' = [fetch EXCEPT !.todo = @ \ {ch}] /\ copy' = copy
    BY <1>2 DEF Servo!Publish
  <2>2. fetch'.message = fetch.message /\ fetch'.todo = fetch.todo \ {ch}
    BY <1>0, <2>1 DEF RawType
  <2>3. RawType'
    BY <1>0, <2>1 DEF RawType
  <2>4. ChannelsShow'
    BY <1>0, <2>1, <2>2 DEF ChannelsShow, RawType
  <2>5. CopySoFar'
    BY <1>0, <2>1, <2>2 DEF CopySoFar, Servo!Published, RawType
  <2> QED BY <2>3, <2>4, <2>5 DEF PilotInv
<1>3. CASE Servo!GetRawServoSignal
  <2>1. /\ copy' = [copy EXCEPT !.todo = Channel, !.floor = Servo!Published]
        /\ UNCHANGED <<mRawServoSignal, fetch>>
    BY <1>3 DEF Servo!GetRawServoSignal
  <2>2. Servo!Published \in 0 .. MaxMessages
    BY <1>0, PublishedIs
  <2>3. RawType'
    BY <1>0, <2>1, <2>2 DEF RawType
  <2>4. ChannelsShow'
    BY <1>0, <2>1 DEF ChannelsShow
  <2>5. copy'.floor = Servo!Published /\ copy'.todo = Channel /\ Servo!Published' = Servo!Published
    BY <1>0, <2>1 DEF RawType, Servo!Published
  <2>6. CopySoFar'
    BY <2>2, <2>5 DEF CopySoFar
  <2> QED BY <2>3, <2>4, <2>6 DEF PilotInv
<1>4. ASSUME NEW ch \in Channel, Servo!CopyChannel(ch) PROVE PilotInv'
  <2>1. /\ copy' = [copy EXCEPT !.todo = @ \ {ch}, !.signal[ch] = mRawServoSignal[ch]]
        /\ UNCHANGED <<mRawServoSignal, fetch>>
    BY <1>4 DEF Servo!CopyChannel
  <2>2. /\ copy'.todo = copy.todo \ {ch} /\ copy'.floor = copy.floor
        /\ copy'.signal = [copy.signal EXCEPT ![ch] = mRawServoSignal[ch]]
    BY <1>0, <2>1 DEF RawType
  <2>3. RawType'
    BY <1>0, <2>1, <2>2 DEF RawType
  <2>4. ChannelsShow'
    BY <1>0, <2>1 DEF ChannelsShow
  <2>5. mRawServoSignal[ch] >= copy.floor
    BY <1>0, PublishedIs DEF ChannelsShow, CopySoFar, RawType
  <2>6. CopySoFar'
    BY <1>0, <2>1, <2>2, <2>5 DEF CopySoFar, Servo!Published, RawType
  <2> QED BY <2>3, <2>4, <2>6 DEF PilotInv
<1> QED BY <1>1, <1>2, <1>3, <1>4 DEF Servo!Input, Servo!Fetching, Servo!Copying

-----------------------------------------------------------------------------
(* The servos' side.                                                        *)

CallRecord == [pc : {"idle", "store", "pack"}, id : 0 .. MaxWrites, todo : SUBSET Channel,
               buf : [Channel -> 0 .. MaxWrites], alone : BOOLEAN]

OutType ==
    /\ mOverrideServoSignal \in [Channel -> 0 .. MaxWrites]
    /\ mOutputMode \in Mode \cup {"MANULLY"}
    /\ call \in [Servo!Threads -> CallRecord]
    /\ call[writeThread].pc # "idle" => "CONTINUOS" \in Mode
    /\ writes \in 0 .. MaxWrites
    /\ sent.signal \in [Channel -> 0 .. MaxWrites]
    /\ \A t \in Servo!Threads : call[t].pc = "store" => t \in Writer
    /\ call[writeThread].id = 0

\* What a call of the thread t alone has stored and packed so far.
OwnSignal(t) ==
    /\ call[t].pc = "store" =>
          \A ch \in Channel \ call[t].todo : mOverrideServoSignal[ch] = call[t].id
    /\ call[t].pc = "pack" =>
          /\ \A ch \in Channel : mOverrideServoSignal[ch] = call[t].id
          /\ \A ch \in Channel \ call[t].todo : call[t].buf[ch] = call[t].id

\* Who is alone in the driver is the only one there.
AloneIsAlone == \A t \in Servo!Threads : call[t].pc # "idle" /\ call[t].alone =>
    /\ \A u \in Servo!Threads : u # t => call[u].pc = "idle"
    /\ t # writeThread => OwnSignal(t)

\* If the last call was alone, it is sent or will be.
LastCall == lastAlone =>
    /\ mOutputMode = "MANULLY"
    /\ \A t \in Servo!Threads : call[t].pc # "idle" =>
          t # writeThread /\ call[t].id = writes /\ call[t].alone
    /\ Servo!AllIdle => sent.signal = Servo!Constantly(writes)

ServosInv == OutType /\ AloneIsAlone /\ LastCall /\ Servo!FrameOfOneCall

LEMMA IdleRecord ==
    /\ Servo!Idle \in CallRecord /\ Servo!Idle.pc = "idle" /\ Servo!Idle.id = 0
    /\ Servo!Constantly(0) \in [Channel -> 0 .. MaxWrites]
  BY ServoNumbers DEF Servo!Idle, Servo!Constantly, CallRecord

LEMMA ServosInit == PartsInit => ServosInv
<1> SUFFICES ASSUME Servo!Init PROVE ServosInv
  BY DEF PartsInit
<1>1. /\ mOverrideServoSignal = Servo!Constantly(0) /\ mOutputMode = "MANULLY" /\ writes = 0
      /\ call = [t \in Servo!Threads |-> Servo!Idle]
      /\ sent.id = 0 /\ sent.signal = Servo!Constantly(0)
      /\ writeThread \in Servo!Threads
  BY DEF Servo!Init, Servo!Threads
<1>2. \A t \in Servo!Threads : call[t] = Servo!Idle
  BY <1>1
<1>3. OutType
  BY <1>1, <1>2, IdleRecord, ServoNumbers DEF OutType
<1>4. AloneIsAlone
  BY <1>2, IdleRecord DEF AloneIsAlone
<1>5. LastCall
  BY <1>1, <1>2, IdleRecord DEF LastCall
<1>6. Servo!FrameOfOneCall
  BY <1>1 DEF Servo!FrameOfOneCall
<1> QED BY <1>3, <1>4, <1>5, <1>6 DEF ServosInv

(* A step of a thread within the driver: it is alone there, or no other is  *)
(* and it was not the last to call alone.                                   *)
LEMMA InsideStep ==
  ASSUME ServosInv, NEW t \in Servo!Threads, call[t].pc # "idle",
         NEW x \in CallRecord, call' = [call EXCEPT ![t] = x],
         x.pc # "idle" => x.id = call[t].id /\ x.alone = call[t].alone,
         x.pc # "idle" /\ x.alone /\ t # writeThread => OwnSignal(t)',
         x.pc = "idle" /\ lastAlone => sent'.signal = Servo!Constantly(writes),
         mOutputMode' = mOutputMode, writes' = writes, lastAlone' = lastAlone
  PROVE  AloneIsAlone' /\ LastCall'
<1>1. /\ call \in [Servo!Threads -> CallRecord] /\ AloneIsAlone /\ LastCall
      /\ \A u \in Servo!Threads : call[u].alone \in BOOLEAN
  BY DEF ServosInv, OutType, CallRecord
<1>2. call'[t] = x /\ \A u \in Servo!Threads : u # t => call'[u] = call[u]
  BY <1>1
<1>3. \A u \in Servo!Threads : u # t => ~(call[u].pc # "idle" /\ call[u].alone)
  BY <1>1, Zenon DEF AloneIsAlone
<1>4. AloneIsAlone'
  <2>1. ASSUME NEW u \in Servo!Threads, call'[u].pc # "idle", call'[u].alone
        PROVE  /\ \A v \in Servo!Threads : v # u => call'[v].pc = "idle"
               /\ u # writeThread => OwnSignal(u)'
    <3>1. u = t
      BY <1>2, <1>3, <2>1, Zenon
    <3>2. x.pc # "idle" /\ x.alone
      BY <1>2, <2>1, <3>1, Zenon
    <3>3. call[t].alone
      BY <3>2, Zenon
    <3>4. \A v \in Servo!Threads : v # t => call[v].pc = "idle"
      BY <1>1, <3>3, Zenon DEF AloneIsAlone
    <3>5. \A v \in Servo!Threads : v # t => call'[v].pc = "idle"
      BY <1>2, <3>4
    <3> QED BY <3>1, <3>2, <3>5, Zenon
  <2> QED BY <2>1, Zenon DEF AloneIsAlone, Servo!Threads
<1>5. LastCall'
  <2> SUFFICES ASSUME lastAlone
               PROVE  /\ mOutputMode' = "MANULLY"
                      /\ \A u \in Servo!Threads : call'[u].pc # "idle" =>
                            u # writeThread /\ call'[u].id = writes' /\ call'[u].alone
                      /\ Servo!AllIdle' => sent'.signal = Servo!Constantly(writes)
    BY Zenon DEF LastCall, Servo!Constantly, Servo!Threads
  <2>1. /\ mOutputMode = "MANULLY"
        /\ \A u \in Servo!Threads : call[u].pc # "idle" =>
              u # writeThread /\ call[u].id = writes /\ call[u].alone
    BY <1>1, Zenon DEF LastCall
  <2>2. \A u \in Servo!Threads : u # t => call[u].pc = "idle"
    BY <1>3, <2>1, Zenon
  <2>3. ASSUME NEW u \in Servo!Threads, call'[u].pc # "idle"
        PROVE  u # writeThread /\ call'[u].id = writes' /\ call'[u].alone
    <3>1. u = t /\ x.pc # "idle"
      BY <1>2, <2>2, <2>3
    <3>2. u # writeThread /\ call[t].id = writes /\ call[t].alone
      BY <2>1, <3>1, Zenon
    <3>3. call'[u].id = writes'
      BY <1>2, <3>1, <3>2
    <3>4. call'[u].alone
      BY <1>2, <3>1, <3>2, Zenon
    <3> QED BY <3>2, <3>3, <3>4, Zenon
  <2>4. Servo!AllIdle' => x.pc = "idle"
    BY <1>2 DEF Servo!AllIdle, Servo!Threads
  <2> QED BY <2>1, <2>3, <2>4, Zenon
<1> QED BY <1>4, <1>5

LEMMA StoreStep ==
  ASSUME ServosInv, NEW w \in Writer, NEW ch \in Channel, Servo!StoreChannel(w, ch)
  PROVE  ServosInv'
<1> DEFINE x == [call[w] EXCEPT !.todo = @ \ {ch}]
<1>1. /\ call[w].pc = "store"
      /\ mOverrideServoSignal' = [mOverrideServoSignal EXCEPT ![ch] = call[w].id]
      /\ call' = [call EXCEPT ![w] = x]
      /\ UNCHANGED <<mOutputMode, writes, sent>>
  BY DEF Servo!StoreChannel
<1>2. lastAlone' = lastAlone
  BY Zenon DEF Servo!StoreChannel
<1>3. w \in Servo!Threads /\ writeThread \in Servo!Threads /\ w # writeThread
  BY ServoNumbers DEF Servo!Threads
<1>4. OutType
  BY DEF ServosInv
<1>5. /\ call[w] \in CallRecord /\ x \in CallRecord
      /\ x.pc = "store" /\ x.id = call[w].id /\ x.todo = call[w].todo \ {ch}
  BY <1>1, <1>3, <1>4 DEF OutType, CallRecord
<1>6. x.alone = call[w].alone
  BY <1>5 DEF CallRecord
<1> HIDE DEF x
<1>7. call'[w] = x /\ \A u \in Servo!Threads : u # w => call'[u] = call[u]
  BY <1>1, <1>3, <1>4 DEF OutType
<1>8. OutType'
  <2>1. call' \in [Servo!Threads -> CallRecord]
    BY <1>1, <1>4, <1>5 DEF OutType
  <2>2. mOverrideServoSignal' \in [Channel -> 0 .. MaxWrites]
    BY <1>1, <1>4, <1>5 DEF OutType, CallRecord
  <2>3. call'[writeThread] = call[writeThread]
    BY <1>3, <1>7
  <2>4. \A t \in Servo!Threads : call'[t].pc = "store" => t \in Writer
    BY <1>4, <1>7 DEF OutType
  <2> QED BY <1>1, <1>4, <2>1, <2>2, <2>3, <2>4 DEF OutType, Servo!Threads
<1>9. x.alone => OwnSignal(w)'
  <2> SUFFICES ASSUME call[w].alone PROVE OwnSignal(w)'
    BY <1>6, Zenon
  <2>1. OwnSignal(w)
    BY <1>1, <1>3, Zenon DEF ServosInv, AloneIsAlone
  <2> QED BY <1>1, <1>4, <1>5, <1>7, <2>1 DEF OwnSignal, OutType
<1>10. AloneIsAlone' /\ LastCall'
  BY <1>1, <1>2, <1>3, <1>5, <1>6, <1>9, InsideStep, Zenon
<1>11. Servo!FrameOfOneCall'
  BY <1>1, Zenon DEF ServosInv, Servo!FrameOfOneCall, Servo!Constantly
<1> QED BY <1>8, <1>10, <1>11 DEF ServosInv

LEMMA CheckStep ==
  ASSUME ServosInv, NEW w \in Writer, Servo!CheckMode(w)
  PROVE  ServosInv'
<1> DEFINE x == IF mOutputMode = "MANULLY"
                THEN [call[w] EXCEPT !.pc = "pack", !.todo = Channel] ELSE Servo!Idle
<1>1. OutType /\ w \in Servo!Threads /\ writeThread \in Servo!Threads /\ w # writeThread
  BY ServoNumbers DEF ServosInv, Servo!Threads
<1>2. /\ call[w].pc = "store" /\ call[w].todo = {} /\ call[w] \in CallRecord
      /\ call' = [call EXCEPT ![w] = x]
      /\ UNCHANGED <<mOverrideServoSignal, mOutputMode, writes, sent>>
  BY <1>1 DEF Servo!CheckMode, OutType
<1>3. lastAlone' = lastAlone
  BY Zenon DEF Servo!CheckMode
<1>4. /\ x \in CallRecord
      /\ mOutputMode = "MANULLY" => x.pc = "pack" /\ x.id = call[w].id /\ x.todo = Channel
      /\ mOutputMode # "MANULLY" => x.pc = "idle"
  BY <1>2, IdleRecord DEF CallRecord
<1>5. x.pc # "idle" => x.alone = call[w].alone
  BY <1>2, <1>4 DEF CallRecord
<1> HIDE DEF x
<1>6. call'[w] = x /\ \A u \in Servo!Threads : u # w => call'[u] = call[u]
  BY <1>1, <1>2 DEF OutType
<1>7. OutType'
  <2>1. call' \in [Servo!Threads -> CallRecord]
    BY <1>1, <1>2, <1>4 DEF OutType
  <2>2. call'[writeThread] = call[writeThread]
    BY <1>1, <1>6
  <2>3. \A t \in Servo!Threads : call'[t].pc = "store" => t \in Writer
    BY <1>1, <1>6 DEF OutType
  <2> QED BY <1>1, <1>2, <2>1, <2>2, <2>3 DEF OutType, Servo!Threads
<1>8. x.pc # "idle" /\ x.alone => OwnSignal(w)'
  <2> SUFFICES ASSUME x.pc # "idle", call[w].alone PROVE OwnSignal(w)'
    BY <1>5, Zenon
  <2>1. OwnSignal(w)
    BY <1>1, <1>2, Zenon DEF ServosInv, AloneIsAlone
  <2> QED BY <1>2, <1>4, <1>6, <2>1 DEF OwnSignal
<1>9. x.pc = "idle" /\ lastAlone => sent'.signal = Servo!Constantly(writes)
  BY <1>4, Zenon DEF ServosInv, LastCall
<1>10. AloneIsAlone' /\ LastCall'
  BY <1>1, <1>2, <1>3, <1>4, <1>5, <1>8, <1>9, InsideStep, Zenon
<1>11. Servo!FrameOfOneCall'
  BY <1>2, Zenon DEF ServosInv, Servo!FrameOfOneCall, Servo!Constantly
<1> QED BY <1>7, <1>10, <1>11 DEF ServosInv

LEMMA PackStep ==
  ASSUME ServosInv, NEW t \in Servo!Threads, NEW ch \in Channel, Servo!PackChannel(t, ch)
  PROVE  ServosInv'
<1> DEFINE x == [call[t] EXCEPT !.todo = @ \ {ch}, !.buf[ch] = mOverrideServoSignal[ch]]
<1>1. OutType /\ writeThread \in Servo!Threads
  BY DEF ServosInv, Servo!Threads
<1>2. /\ call[t].pc = "pack" /\ call[t] \in CallRecord
      /\ call' = [call EXCEPT ![t] = x]
      /\ UNCHANGED <<mOverrideServoSignal, mOutputMode, writes, sent>>
  BY <1>1 DEF Servo!PackChannel, OutType
<1>3. lastAlone' = lastAlone
  BY Zenon DEF Servo!PackChannel
<1>4. /\ x \in CallRecord /\ x.pc = "pack" /\ x.id = call[t].id /\ x.todo = call[t].todo \ {ch}
      /\ x.buf = [call[t].buf EXCEPT ![ch] = mOverrideServoSignal[ch]]
  BY <1>1, <1>2 DEF CallRecord, OutType
<1>5. x.alone = call[t].alone
  BY <1>2, <1>4 DEF CallRecord
<1> HIDE DEF x
<1>6. call'[t] = x /\ \A u \in Servo!Threads : u # t => call'[u] = call[u]
  BY <1>1, <1>2 DEF OutType
<1>7. OutType'
  <2>1. call' \in [Servo!Threads -> CallRecord]
    BY <1>1, <1>2, <1>4 DEF OutType
  <2>2. call'[writeThread].pc = call[writeThread].pc /\ call'[writeThread].id = call[writeThread].id
    BY <1>1, <1>2, <1>4, <1>6
  <2>3. \A u \in Servo!Threads : call'[u].pc = "store" => u \in Writer
    BY <1>1, <1>4, <1>6 DEF OutType
  <2> QED BY <1>1, <1>2, <2>1, <2>2, <2>3 DEF OutType, Servo!Threads
<1>8. x.alone /\ t # writeThread => OwnSignal(t)'
  <2> SUFFICES ASSUME call[t].alone, t # writeThread PROVE OwnSignal(t)'
    BY <1>5, Zenon
  <2>1. OwnSignal(t)
    BY <1>1, <1>2, Zenon DEF ServosInv, AloneIsAlone
  <2> QED BY <1>2, <1>4, <1>6, <2>1 DEF OwnSignal, CallRecord
<1>9. AloneIsAlone' /\ LastCall'
  BY <1>1, <1>2, <1>3, <1>4, <1>5, <1>8, InsideStep, Zenon
<1>10. Servo!FrameOfOneCall'
  BY <1>2, Zenon DEF ServosInv, Servo!FrameOfOneCall, Servo!Constantly
<1> QED BY <1>7, <1>9, <1>10 DEF ServosInv

LEMMA SendStep ==
  ASSUME ServosInv, NEW t \in Servo!Threads, Servo!Send(t)
  PROVE  ServosInv'
<1>1. OutType /\ writeThread \in Servo!Threads
  BY DEF ServosInv, Servo!Threads
<1>2. /\ call[t].pc = "pack" /\ call[t].todo = {} /\ call[t] \in CallRecord
      /\ call' = [call EXCEPT ![t] = Servo!Idle]
      /\ sent' = [id |-> call[t].id, signal |-> call[t].buf, alone |-> call[t].alone]
      /\ UNCHANGED <<mOverrideServoSignal, mOutputMode, writes>>
  BY <1>1 DEF Servo!Send, OutType
<1>3. lastAlone' = lastAlone
  BY Zenon DEF Servo!Send
<1>4. sent'.id = call[t].id /\ sent'.signal = call[t].buf /\ sent'.alone = call[t].alone
  BY <1>2
<1>5. call'[t] = Servo!Idle /\ \A u \in Servo!Threads : u # t => call'[u] = call[u]
  BY <1>1, <1>2 DEF OutType
<1>6. OutType'
  <2>1. call' \in [Servo!Threads -> CallRecord]
    BY <1>1, <1>2, IdleRecord DEF OutType
  <2>2. /\ call'[writeThread].pc \in {"idle", call[writeThread].pc}
        /\ call'[writeThread].id = 0
    BY <1>1, <1>5, IdleRecord DEF OutType
  <2>3. \A u \in Servo!Threads : call'[u].pc = "store" => u \in Writer
    BY <1>1, <1>5, IdleRecord DEF OutType
  <2>4. sent'.signal \in [Channel -> 0 .. MaxWrites]
    BY <1>2, <1>4 DEF CallRecord
  <2> QED BY <1>1, <1>2, <2>1, <2>2, <2>3, <2>4 DEF OutType, Servo!Threads
\* The frame of a call alone is the call's.
<1>7. call[t].alone /\ t # writeThread => sent'.signal = Servo!Constantly(call[t].id)
  <2> SUFFICES ASSUME call[t].alone, t # writeThread
               PROVE  sent'.signal = Servo!Constantly(call[t].id)
    BY Zenon
  <2>1. OwnSignal(t)
    BY <1>1, <1>2, Zenon DEF ServosInv, AloneIsAlone
  <2> QED BY <1>2, <1>4, <2>1 DEF OwnSignal, CallRecord, Servo!Constantly
<1>8. lastAlone => sent'.signal = Servo!Constantly(writes)
  <2> SUFFICES ASSUME lastAlone PROVE sent'.signal = Servo!Constantly(writes)
    BY Zenon
  <2>1. t # writeThread /\ call[t].id = writes /\ call[t].alone
    BY <1>2, Zenon DEF ServosInv, LastCall
  <2> QED BY <1>7, <2>1, Zenon
<1>9. AloneIsAlone' /\ LastCall'
  BY <1>1, <1>2, <1>3, <1>8, IdleRecord, InsideStep, Zenon
<1>10. Servo!FrameOfOneCall'
  <2>1. call[t].id # 0 => t # writeThread
    BY <1>1 DEF OutType
  <2> QED BY <1>4, <1>7, <2>1, Zenon DEF Servo!FrameOfOneCall
<1> QED BY <1>6, <1>9, <1>10 DEF ServosInv

(* A thread that enters the driver is alone if it meets nobody, and takes   *)
(* the loneliness of those it meets.                                        *)
LEMMA EnterStep ==
  ASSUME ServosInv, NEW t \in Servo!Threads, NEW c \in CallRecord, Servo!Enter(t, c),
         c.pc # "idle"
  PROVE  /\ call' \in [Servo!Threads -> CallRecord]
         /\ call'[t].pc = c.pc /\ call'[t].id = c.id /\ call'[t].todo = c.todo
         /\ call'[t].alone => Servo!AllIdle
         /\ \A u \in Servo!Threads : u # t =>
               /\ call'[u].pc = call[u].pc /\ call'[u].id = call[u].id
               /\ call'[u].alone => call[u].pc = "idle"
         /\ Servo!AllIdle => call'[t].alone
<1> DEFINE x == [c EXCEPT !.alone = Servo!AllIdle]
           y(u) == [call[u] EXCEPT !.alone = @ /\ call[u].pc = "idle"]
<1>1. /\ call \in [Servo!Threads -> CallRecord]
      /\ call' = [u \in Servo!Threads |-> IF u = t THEN x ELSE y(u)]
  BY Zenon DEF ServosInv, OutType, Servo!Enter
<1>2. x \in CallRecord /\ x.pc = c.pc /\ x.id = c.id /\ x.todo = c.todo
  <2>1. Servo!AllIdle \in BOOLEAN
    BY Zenon DEF Servo!AllIdle
  <2> QED BY <2>1 DEF CallRecord
<1>3. x.alone = Servo!AllIdle
  BY DEF CallRecord
<1>4. \A u \in Servo!Threads : y(u) \in CallRecord /\ y(u).pc = call[u].pc /\ y(u).id = call[u].id
  BY <1>1 DEF CallRecord
<1>5. \A u \in Servo!Threads : y(u).alone = (call[u].alone /\ call[u].pc = "idle")
  BY <1>1 DEF CallRecord
<1> HIDE DEF x, y
<1>6. call'[t] = x /\ \A u \in Servo!Threads : u # t => call'[u] = y(u)
  BY <1>1
<1>7. call' \in [Servo!Threads -> CallRecord]
  BY <1>1, <1>2, <1>4
<1>8. /\ call'[t].pc = c.pc /\ call'[t].id = c.id /\ call'[t].todo = c.todo
      /\ \A u \in Servo!Threads : u # t => call'[u].pc = call[u].pc /\ call'[u].id = call[u].id
  BY <1>2, <1>4, <1>6
<1>9. (call'[t].alone <=> Servo!AllIdle) /\ \A u \in Servo!Threads : u # t /\ call'[u].alone => call[u].pc = "idle"
  BY <1>3, <1>5, <1>6, Zenon
<1> QED BY <1>7, <1>8, <1>9, Zenon

LEMMA SetStep ==
  ASSUME ServosInv, NEW w \in Writer, Servo!SetOverrideServoSignal(w)
  PROVE  ServosInv'
<1> DEFINE c == [Servo!Idle EXCEPT !.pc = "store", !.id = writes', !.todo = Channel]
<1>1. OutType /\ w \in Servo!Threads /\ writeThread \in Servo!Threads /\ w # writeThread
  BY ServoNumbers DEF ServosInv, Servo!Threads
<1>2. /\ writes < MaxWrites /\ writes' = writes + 1 /\ Servo!Enter(w, c)
      /\ UNCHANGED <<mOverrideServoSignal, mOutputMode, sent>>
  BY DEF Servo!SetOverrideServoSignal
<1>3. lastAlone' = (Servo!AllIdle /\ mOutputMode = "MANULLY")
  BY Zenon DEF Servo!SetOverrideServoSignal
<1>4. c \in CallRecord /\ c.pc = "store" /\ c.id = writes' /\ c.todo = Channel
      /\ writes' \in 0 .. MaxWrites
  <2>1. PICK n \in Nat : n = writes /\ n < MaxWrites /\ writes' = n + 1
    BY <1>1, <1>2, ServoNumbers DEF OutType
  <2>2. writes' \in 0 .. MaxWrites
    BY <2>1, ServoNumbers
  <2> QED BY <2>2, IdleRecord DEF CallRecord
<1> HIDE DEF c
<1>5. /\ call' \in [Servo!Threads -> CallRecord]
      /\ call'[w].pc = "store" /\ call'[w].id = writes' /\ call'[w].todo = Channel
      /\ \A u \in Servo!Threads : u # w => call'[u].pc = call[u].pc /\ call'[u].id = call[u].id
  BY <1>1, <1>2, <1>4, EnterStep
<1>6. /\ call'[w].alone <=> Servo!AllIdle
      /\ \A u \in Servo!Threads : u # w /\ call'[u].alone => call[u].pc = "idle"
  BY <1>1, <1>2, <1>4, EnterStep, Zenon
<1>7. OutType'
  <2>1. \A u \in Servo!Threads : call'[u].pc = "store" => u \in Writer
    BY <1>1, <1>5 DEF OutType
  <2>2. call'[writeThread].pc = call[writeThread].pc /\ call'[writeThread].id = 0
    BY <1>1, <1>5 DEF OutType
  <2> QED BY <1>1, <1>2, <1>4, <1>5, <2>1, <2>2 DEF OutType, Servo!Threads
<1>8. AloneIsAlone'
  <2>1. ASSUME NEW u \in Servo!Threads, call'[u].pc # "idle", call'[u].alone
        PROVE  /\ \A v \in Servo!Threads : v # u => call'[v].pc = "idle"
               /\ u # writeThread => OwnSignal(u)'
    <3>1. u = w
      BY <1>5, <1>6, <2>1, Zenon
    <3>2. \A v \in Servo!Threads : call[v].pc = "idle"
      BY <1>6, <2>1, <3>1, Zenon DEF Servo!AllIdle
    <3>3. \A v \in Servo!Threads : v # w => call'[v].pc = "idle"
      BY <1>5, <3>2
    <3>4. OwnSignal(w)'
      BY <1>5 DEF OwnSignal
    <3> QED BY <3>1, <3>3, <3>4
  <2> QED BY <2>1, Zenon DEF AloneIsAlone, Servo!Threads
<1>9. LastCall'
  <2> SUFFICES ASSUME Servo!AllIdle, mOutputMode = "MANULLY"
               PROVE  /\ mOutputMode' = "MANULLY"
                      /\ \A u \in Servo!Threads : call'[u].pc # "idle" =>
                            u # writeThread /\ call'[u].id = writes' /\ call'[u].alone
                      /\ ~Servo!AllIdle'
    BY <1>3, Zenon DEF LastCall, Servo!Threads
  <2>1. \A u \in Servo!Threads : u # w => call'[u].pc = "idle"
    BY <1>5 DEF Servo!AllIdle
  <2>2. ~Servo!AllIdle'
    BY <1>1, <1>5 DEF Servo!AllIdle, Servo!Threads
  <2> QED BY <1>1, <1>2, <1>5, <1>6, <2>1, <2>2, Zenon
<1>10. Servo!FrameOfOneCall'
  BY <1>2, Zenon DEF ServosInv, Servo!FrameOfOneCall, Servo!Constantly
<1> QED BY <1>7, <1>8, <1>9, <1>10 DEF ServosInv

LEMMA WriteStep ==
  ASSUME ServosInv, Servo!WriteServos
  PROVE  ServosInv'
<1> DEFINE w == writeThread
           c == [Servo!Idle EXCEPT !.pc = "pack", !.todo = Channel]
<1>1. OutType /\ w \in Servo!Threads
  BY DEF ServosInv, Servo!Threads
<1>2. /\ mOutputMode = "CONTINUOS" /\ Servo!Enter(w, c)
      /\ UNCHANGED <<mOverrideServoSignal, mOutputMode, sent, writes>>
  BY DEF Servo!WriteServos
<1>3. lastAlone' = lastAlone
  BY Zenon DEF Servo!WriteServos
<1>4. c \in CallRecord /\ c.pc = "pack" /\ c.id = 0 /\ c.todo = Channel
  BY <1>1, IdleRecord, ServoNumbers DEF CallRecord
<1> HIDE DEF c
<1>5. /\ call' \in [Servo!Threads -> CallRecord]
      /\ call'[w].pc = "pack" /\ call'[w].id = 0
      /\ \A u \in Servo!Threads : u # w => call'[u].pc = call[u].pc /\ call'[u].id = call[u].id
  BY <1>1, <1>2, <1>4, EnterStep
<1>6. /\ call'[w].alone => Servo!AllIdle
      /\ \A u \in Servo!Threads : u # w /\ call'[u].alone => call[u].pc = "idle"
  BY <1>1, <1>2, <1>4, EnterStep, Zenon
<1>7. ~lastAlone
  <2>1. mOutputMode # "MANULLY"
    BY <1>2
  <2> QED BY <2>1, Zenon DEF ServosInv, LastCall
<1>8. OutType'
  <2>1. \A u \in Servo!Threads : call'[u].pc = "store" => u \in Writer
    BY <1>1, <1>5 DEF OutType
  <2>2. "CONTINUOS" \in Mode
    BY <1>1, <1>2 DEF OutType
  <2> QED BY <1>1, <1>2, <1>4, <1>5, <2>1, <2>2 DEF OutType, Servo!Threads
<1>9. AloneIsAlone'
  <2>1. ASSUME NEW u \in Servo!Threads, call'[u].pc # "idle", call'[u].alone
        PROVE  /\ \A v \in Servo!Threads : v # u => call'[v].pc = "idle"
               /\ u = writeThread
    <3>1. u = w
      BY <1>5, <1>6, <2>1, Zenon
    <3>2. \A v \in Servo!Threads : call[v].pc = "idle"
      BY <1>6, <2>1, <3>1, Zenon DEF Servo!AllIdle
    <3> QED BY <1>5, <3>1, <3>2
  <2> QED BY <2>1, Zenon DEF AloneIsAlone, Servo!Threads
<1>10. LastCall'
  BY <1>3, <1>7, Zenon DEF LastCall
<1>11. Servo!FrameOfOneCall'
  BY <1>2, Zenon DEF ServosInv, Servo!FrameOfOneCall, Servo!Constantly
<1> QED BY <1>8, <1>9, <1>10, <1>11 DEF ServosInv

LEMMA ModeStep ==
  ASSUME ServosInv, NEW m \in Mode, Servo!SetOutputMode(m)
  PROVE  ServosInv'
<1>1. mOutputMode' = m /\ UNCHANGED <<mOverrideServoSignal, call, writes, sent>>
  BY DEF Servo!SetOutputMode
<1>2. lastAlone' = (lastAlone /\ m = "MANULLY")
  BY Zenon DEF Servo!SetOutputMode
<1>3. OutType'
  BY <1>1 DEF ServosInv, OutType, Servo!Threads
<1>4. AloneIsAlone'
  BY <1>1, Zenon DEF ServosInv, AloneIsAlone, OwnSignal, Servo!Threads
<1>5. LastCall'
  BY <1>1, <1>2, Zenon DEF ServosInv, LastCall, Servo!Threads, Servo!AllIdle, Servo!Constantly
<1>6. Servo!FrameOfOneCall'
  BY <1>1, Zenon DEF ServosInv, Servo!FrameOfOneCall, Servo!Constantly
<1> QED BY <1>3, <1>4, <1>5, <1>6 DEF ServosInv

LEMMA ServosStep ==
  ASSUME ServosInv, Servo!Output
  PROVE  ServosInv'
<1>1. Writer \subseteq Servo!Threads /\ writeThread \in Servo!Threads
  BY DEF Servo!Threads
<1> QED
  BY <1>1, StoreStep, CheckStep, PackStep, SendStep, SetStep, WriteStep, ModeStep, Zenon
     DEF Servo!Output, Servo!Writing, Servo!Storing, Servo!Emitting, Servo!WriteThread

(* A copy of the pilot's signal is not older than what was published when   *)
(* it began, the frame of a call alone is that call's, and the last call,   *)
(* if alone, is the one the servos have, for any channels, writers and      *)
(* modes (serial_servo_driver.cpp 89-230).                                  *)
THEOREM ServosAreSound == PartsSpec => []ServoSound
<1>1. PartsInit => PilotInv /\ ServosInv
  BY PilotInit, ServosInit
<1>2. PilotInv /\ ServosInv /\ [PartsNext]_allVars => PilotInv' /\ ServosInv'
  <2> SUFFICES ASSUME PilotInv, ServosInv, [PartsNext]_allVars PROVE PilotInv' /\ ServosInv'
    OBVIOUS
  <2>1. UNCHANGED <<mRawServoSignal, fetch, copy>> => PilotInv'
    BY Zenon DEF PilotInv, RawType, ChannelsShow, CopySoFar, Servo!Published
  <2>2. UNCHANGED <<mOverrideServoSignal, mOutputMode, call, writes, sent, lastAlone>> => ServosInv'
    <3> SUFFICES ASSUME UNCHANGED <<mOverrideServoSignal, mOutputMode, call, writes, sent, lastAlone>>
                 PROVE  ServosInv'
      BY Zenon
    <3>1. OutType'
      BY Zenon DEF ServosInv, OutType, Servo!Threads, CallRecord
    <3>2. AloneIsAlone'
      BY Zenon DEF ServosInv, AloneIsAlone, OwnSignal, Servo!Threads
    <3>3. LastCall'
      BY Zenon DEF ServosInv, LastCall, Servo!Threads, Servo!AllIdle, Servo!Constantly
    <3>4. Servo!FrameOfOneCall'
      BY Zenon DEF ServosInv, Servo!FrameOfOneCall, Servo!Constantly
    <3> QED BY <3>1, <3>2, <3>3, <3>4, Zenon DEF ServosInv
  <2>3. Servo!Input => UNCHANGED <<mOverrideServoSignal, mOutputMode, call, writes, sent, lastAlone>>
    BY Zenon DEF Servo!Input, Servo!Fetching, Servo!FetchMessage, Servo!Publish, Servo!Copying,
                 Servo!GetRawServoSignal, Servo!CopyChannel, Servo!outVars
  <2>4. Servo!Output => UNCHANGED <<mRawServoSignal, fetch, copy>>
    BY Zenon DEF Servo!Output, Servo!SetOverrideServoSignal, Servo!Writing, Servo!Storing,
                 Servo!CheckMode, Servo!StoreChannel, Servo!Emitting, Servo!Send, Servo!PackChannel,
                 Servo!WriteThread, Servo!WriteServos, Servo!SetOutputMode, Servo!rawVars
  <2>5. CASE ServoMoves
    BY <2>1, <2>2, <2>3, <2>4, <2>5, PilotStep, ServosStep, Zenon DEF ServoMoves
  <2>6. CASE UNCHANGED servoVars
    BY <2>1, <2>2, <2>6, Zenon DEF servoVars
  <2> QED
    BY <2>5, <2>6, Zenon DEF PartsNext, PidMoves, SourceMoves, TimePasses, MessageArrives, UpdateGoesOn,
                             GetAttitude, Outside, LoopMoves, allVars
<1>3. PilotInv /\ ServosInv => ServoSound
  <2> SUFFICES ASSUME PilotInv, ServosInv PROVE Servo!ServoSound
    BY DEF ServoSound
  <2>1. Servo!TypeOK
    <3>1. \A t \in Servo!Threads :
              /\ call[t].pc \in {"idle", "store", "pack"} /\ call[t].id \in 0 .. MaxWrites
              /\ call[t].todo \subseteq Channel /\ call[t].buf \in [Channel -> 0 .. MaxWrites]
      BY DEF ServosInv, OutType, CallRecord
    <3>2. mOutputMode \in {"DISABLE", "MANULLY", "CONTINUOS"}
      BY ServoNumbers DEF ServosInv, OutType
    <3> QED BY <3>1, <3>2, Zenon DEF Servo!TypeOK, PilotInv, RawType, ServosInv, OutType, Servo!Threads
  <2>2. Servo!CopyNotOlder
    BY DEF PilotInv, CopySoFar, Servo!CopyNotOlder
  <2>3. Servo!LastCallSent
    BY Zenon DEF ServosInv, LastCall, Servo!LastCallSent
  <2> QED BY <2>1, <2>2, <2>3, Zenon DEF Servo!ServoSound, ServosInv
<1> QED BY <1>1, <1>2, <1>3, PTL DEF PartsSpec

=============================================================================
