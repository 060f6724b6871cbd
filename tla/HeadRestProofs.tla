--------------------------- MODULE HeadRestProofs ---------------------------
(***************************************************************************)
(* For every travel, buffer size, number of commands and of power cycles:  *)
(* the position is true once homed, never wraps, and no command received   *)
(* while homing is obeyed.                                                 *)
(*                                                                         *)
(* PositionTrueOnceHomed is not inductive: while the carriage is being     *)
(* homed for the first time nothing is known of the position but how far   *)
(* below its height it may be.  Offset states that: the difference is      *)
(* where the carriage stood when the position was last cleared.            *)
(***************************************************************************)
EXTENDS HeadRestBench, TLAPS, SequenceTheorems

Place == {"drain", "homing", "discard", "move", "report"}

Offset == height - hrPosition \in 0 .. Travel

MotionInv ==
    /\ at \in Place
    /\ movingStatus \in {"stop", "up", "down"}
    /\ hrPosition \in Int
    /\ height \in 0 .. Travel
    /\ Offset
    /\ homed \in BOOLEAN
    /\ PositionTrueOnceHomed

RxInv ==
    /\ rx \in Seq([byte : Command, during : Place])
    /\ Len(rx) <= RxSize
    /\ HomingDiscardsCommands

CountInv == commands \in 0 .. MaxCommands /\ powerCycles \in 0 .. MaxPowerCycles

IInv == MotionInv /\ RxInv /\ CountInv

(***************************************************************************)
(* setup() establishes the invariant, at whatever height power came on.    *)
(***************************************************************************)
LEMMA InitIInv == Init => IInv
  <1> SUFFICES ASSUME Init PROVE IInv
    OBVIOUS
  <1>1. MotionInv
    <2>1. homed \in BOOLEAN /\ ~homed
      BY Zenon DEF Init, FirmwareInit
    <2>2. /\ at \in Place /\ movingStatus \in {"stop", "up", "down"}
          /\ hrPosition \in Int /\ height \in 0 .. Travel /\ Offset
      BY TravelAssumption DEF Init, FirmwareInit, Place, Offset
    <2> QED BY <2>1, <2>2, Zenon DEF MotionInv, PositionTrueOnceHomed
  <1>2. RxInv
    <2>1. rx = <<>> /\ Len(rx) = 0
      BY DEF Init, FirmwareInit
    <2>2. rx \in Seq([byte : Command, during : Place])
      BY <2>1, EmptySeq
    <2> QED BY <2>1, <2>2, RxAssumption DEF RxInv, HomingDiscardsCommands
  <1>3. CountInv
    BY BenchAssumption DEF Init, CountInv
  <1> QED BY <1>1, <1>2, <1>3 DEF IInv

(***************************************************************************)
(* Every step of loop() keeps the position's offset, and clears it where   *)
(* the bottom switch is seen.                                              *)
(***************************************************************************)
LEMMA LoopMotion ==
    ASSUME MotionInv, at \in Place, Loop
    PROVE  MotionInv'
  <1> USE TravelAssumption DEF MotionInv, Place, Offset, PositionTrueOnceHomed
  <1>1. CASE ReadCommand
    <2>1. movingStatus' \in {"stop", "up", "down"}
      BY <1>1 DEF ReadCommand, StatusFor
    <2>2. at' \in Place
      BY <1>1 DEF ReadCommand
    <2> QED BY <1>1, <2>1, <2>2 DEF ReadCommand
  <1>2. CASE NoCommandLeft
    BY <1>2 DEF NoCommandLeft
  <1>3. CASE HomingStep
    <2>1. ~homed
      \/ hrPosition' = height'
      BY <1>3 DEF HomingStep
    <2>2. height' \in 0 .. Travel /\ hrPosition' \in Int /\ height' - hrPosition' \in 0 .. Travel
      BY <1>3 DEF HomingStep, AtBottom
    <2> QED BY <1>3, <2>1, <2>2 DEF HomingStep
  <1>4. CASE HomingDone
    BY <1>4 DEF HomingDone, AtBottom
  <1>5. CASE DiscardCommand
    BY <1>5 DEF DiscardCommand
  <1>6. CASE NothingToDiscard
    BY <1>6 DEF NothingToDiscard
  <1>7. CASE MoveHrUp
    <2>1. CASE AtTop
      BY <1>7, <2>1 DEF MoveHrUp
    <2>2. CASE ~AtTop
      BY <1>7, <2>2 DEF MoveHrUp, AtTop
    <2> QED BY <2>1, <2>2
  <1>8. CASE MoveHrDown
    <2>1. CASE AtBottom
      BY <1>8, <2>1 DEF MoveHrDown, AtBottom
    <2>2. CASE ~AtBottom
      BY <1>8, <2>2 DEF MoveHrDown, AtBottom
    <2> QED BY <2>1, <2>2
  <1>9. CASE StandStill
    BY <1>9 DEF StandStill
  <1>10. CASE SendReport
    BY <1>10 DEF SendReport
  <1> QED BY <1>1, <1>2, <1>3, <1>4, <1>5, <1>6, <1>7, <1>8, <1>9, <1>10
          DEF Loop, Work

(***************************************************************************)
(* Every step of loop() keeps the serial buffer within its size, and       *)
(* leaves the discarding loop only with the buffer empty.                  *)
(***************************************************************************)
LEMMA LoopRx ==
    ASSUME RxInv, at \in Place, Loop
    PROVE  RxInv'
  <1> DEFINE Item == [byte : Command, during : Place]
  <1>1. CASE rx' = rx /\ (at' \in {"drain", "move", "report"} =>
                             at \in {"drain", "move", "report"} \/ rx = <<>>)
    BY <1>1 DEF RxInv, HomingDiscardsCommands
  <1>2. CASE rx # <<>> /\ rx' = Tail(rx)
             /\ (at' \in {"drain", "move", "report"} => at = "drain")
    <2>1. /\ rx' \in Seq(Item)
          /\ Len(rx') = Len(rx) - 1
          /\ \A i \in 1 .. Len(rx') : rx'[i] = rx[i + 1]
      <3>1. rx \in Seq(Item) /\ rx # <<>> /\ rx' = Tail(rx)
        BY <1>2 DEF RxInv
      <3> HIDE DEF Item
      <3> QED BY <3>1, HeadTailProperties
    <2>2. Len(rx) \in Nat /\ RxSize \in Nat
      BY RxAssumption DEF RxInv
    <2>3. Len(rx') <= RxSize
      BY <2>1, <2>2 DEF RxInv
    <2>4. ASSUME at' \in {"drain", "move", "report"}, NEW i \in 1 .. Len(rx')
          PROVE  rx'[i].during \notin {"homing", "discard"}
      <3>1. at = "drain" /\ i + 1 \in 1 .. Len(rx) /\ rx'[i] = rx[i + 1]
        BY <1>2, <2>1, <2>2, <2>4
      <3> QED BY <3>1 DEF RxInv, HomingDiscardsCommands
    <2> QED BY <2>1, <2>3, <2>4 DEF RxInv, HomingDiscardsCommands
  <1>3. CASE ReadCommand
    BY <1>2, <1>3 DEF ReadCommand
  <1>4. CASE DiscardCommand
    BY <1>2, <1>4 DEF DiscardCommand
  <1> QED BY <1>1, <1>3, <1>4
          DEF Loop, Work, NoCommandLeft, HomingStep, HomingDone, NothingToDiscard,
              MoveHrUp, MoveHrDown, StandStill, SendReport

(***************************************************************************)
(* A byte that arrives is queued with the place it came at, or lost.       *)
(***************************************************************************)
LEMMA ReceiveRx ==
    ASSUME RxInv, at \in Place, NEW c \in Command, SerialReceive(c)
    PROVE  RxInv'
  <1> DEFINE Item == [byte : Command, during : Place]
             item == [byte |-> c, during |-> at]
  <1>1. CASE Len(rx) < RxSize
    <2>1. rx \in Seq(Item) /\ item \in Item /\ rx' = Append(rx, item)
      BY <1>1 DEF RxInv, SerialReceive
    <2>2. item.during = at
      OBVIOUS
    <2>3. /\ rx' \in Seq(Item)
          /\ Len(rx') = Len(rx) + 1
          /\ rx'[Len(rx) + 1] = item
          /\ \A i \in 1 .. Len(rx) : rx'[i] = rx[i]
      <3> HIDE DEF Item, item
      <3> QED BY <2>1, AppendProperties
    <2>4. Len(rx) \in Nat /\ RxSize \in Nat /\ at' = at
      BY RxAssumption DEF RxInv, SerialReceive
    <2>5. ASSUME at' \in {"drain", "move", "report"}, NEW i \in 1 .. Len(rx')
          PROVE  rx'[i].during \notin {"homing", "discard"}
      <3>1. CASE i = Len(rx) + 1
        BY <2>2, <2>3, <2>4, <2>5, <3>1
      <3>2. CASE i \in 1 .. Len(rx)
        BY <2>3, <2>4, <2>5, <3>2 DEF RxInv, HomingDiscardsCommands
      <3> QED BY <2>3, <2>4, <3>1, <3>2
    <2>6. Len(rx') <= RxSize
      BY <1>1, <2>3, <2>4
    <2> QED BY <2>3, <2>5, <2>6 DEF RxInv, HomingDiscardsCommands
  <1>2. CASE ~(Len(rx) < RxSize)
    BY <1>2 DEF RxInv, HomingDiscardsCommands, SerialReceive
  <1> QED BY <1>1, <1>2

(***************************************************************************)
(* A power cycle keeps the invariant: the carriage stays, everything the   *)
(* firmware knows is gone.                                                 *)
(***************************************************************************)
LEMMA PowerCycleIInv ==
    ASSUME MotionInv, PowerCycle
    PROVE  MotionInv' /\ RxInv'
  <1>1. MotionInv'
    <2>1. homed' \in BOOLEAN /\ ~homed'
      BY Zenon DEF PowerCycle
    <2>2. /\ at' \in Place /\ movingStatus' \in {"stop", "up", "down"}
          /\ hrPosition' \in Int /\ height' \in 0 .. Travel /\ Offset'
      BY TravelAssumption DEF PowerCycle, MotionInv, Place, Offset
    <2> QED BY <2>1, <2>2, Zenon DEF MotionInv, PositionTrueOnceHomed
  <1>2. RxInv'
    <2>1. rx' = <<>> /\ Len(rx') = 0
      BY DEF PowerCycle
    <2>2. rx' \in Seq([byte : Command, during : Place])
      BY <2>1, EmptySeq
    <2> QED BY <2>1, <2>2, RxAssumption DEF RxInv, HomingDiscardsCommands
  <1> QED BY <1>1, <1>2

(***************************************************************************)
(* Every step of the firmware and its surroundings keeps the invariant.    *)
(***************************************************************************)
LEMMA NextIInv == IInv /\ [Next]_benchVars => IInv'
  <1> SUFFICES ASSUME IInv, [Next]_benchVars PROVE IInv'
    OBVIOUS
  <1>1. at \in Place
    BY DEF IInv, MotionInv
  <1>2. CASE Arrive
    <2>1. PICK c \in Command : SerialReceive(c)
      BY <1>2 DEF Arrive
    <2>2. RxInv'
      BY <1>1, <2>1, ReceiveRx DEF IInv
    <2>3. MotionInv'
      BY <2>1 DEF SerialReceive, IInv, MotionInv, Offset, PositionTrueOnceHomed
    <2>4. CountInv'
      BY <1>2, BenchAssumption DEF Arrive, IInv, CountInv
    <2> QED BY <2>2, <2>3, <2>4 DEF IInv
  <1>3. CASE Restart
    <2>1. MotionInv' /\ RxInv'
      BY <1>3, PowerCycleIInv DEF Restart, IInv
    <2>2. CountInv'
      BY <1>3, BenchAssumption DEF Restart, IInv, CountInv
    <2> QED BY <2>1, <2>2 DEF IInv
  <1>4. CASE Run
    <2>1. CountInv'
      BY <1>4 DEF Run, IInv, CountInv
    <2> QED BY <1>1, <1>4, <2>1, LoopMotion, LoopRx DEF Run, IInv
  <1>5. CASE UNCHANGED benchVars
    BY <1>5 DEF benchVars, firmwareVars, IInv, MotionInv, RxInv, CountInv,
                Offset, PositionTrueOnceHomed, HomingDiscardsCommands
  <1> QED BY <1>2, <1>3, <1>4, <1>5 DEF Next

(***************************************************************************)
(* The invariant holds in every state the firmware reaches.                *)
(***************************************************************************)
LEMMA InvariantHolds == Spec => []IInv
  BY InitIInv, NextIInv, PTL DEF Spec

(***************************************************************************)
(* The type invariant of the firmware: the carriage is never driven past a *)
(* switch, the serial buffer never holds more than its size.               *)
(***************************************************************************)
THEOREM TypeCorrect == Spec => []TypeOK
  <1>1. IInv => TypeOK
    BY DEF IInv, MotionInv, RxInv, CountInv, TypeOK, Place
  <1> QED BY <1>1, InvariantHolds, PTL

(***************************************************************************)
(* Once the bottom switch has been seen the reported position is true.     *)
(***************************************************************************)
THEOREM PositionTrue == Spec => []PositionTrueOnceHomed
  <1>1. IInv => PositionTrueOnceHomed
    BY DEF IInv, MotionInv
  <1> QED BY <1>1, InvariantHolds, PTL

(***************************************************************************)
(* The position never leaves -Travel .. Travel, so never wraps.            *)
(***************************************************************************)
THEOREM PositionBounded == Spec => []PositionNeverWraps
  <1>1. IInv => PositionNeverWraps
    BY TravelAssumption DEF IInv, MotionInv, Offset, PositionNeverWraps
  <1> QED BY <1>1, InvariantHolds, PTL

(***************************************************************************)
(* No command received while homing is obeyed afterwards.                  *)
(***************************************************************************)
THEOREM HomingDiscards == Spec => []HomingDiscardsCommands
  <1>1. IInv => HomingDiscardsCommands
    BY DEF IInv, RxInv
  <1> QED BY <1>1, InvariantHolds, PTL

=============================================================================
