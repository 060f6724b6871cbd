---------------------------- MODULE HrHostProofs ----------------------------
(***************************************************************************)
(* For any number of reports and messages, any kernel buffer and any       *)
(* texts: the display never goes back, shows no position ahead of its      *)
(* distances, and ends with the newest reading; the last message is never  *)
(* lost, and none is obeyed more than three times.                         *)
(*                                                                         *)
(* The properties speak of the text last put out.  The invariant follows a *)
(* reading on its way there: the numbers of the reports that wait          *)
(* (QueueInv), what the fields hold at each step of the reader (FieldInv), *)
(* what the main thread has taken of them (ShownInv), and what the flag    *)
(* promises (FlagInv).  That is SensorInv; the operator's side, further    *)
(* down, has an invariant of its own, OperatorInv, which needs it only to  *)
(* bound the position.                                                     *)
(***************************************************************************)
EXTENDS HrHost, TLAPS, SequenceTheorems

Report == [d0 : ReportNumber, d1 : ReportNumber, pos : ReportNumber]

ReaderPlace == {"lock", "read", "dist0", "dist1", "position", "flag"}

MainPlace == {"zero0", "zero1", "pollData", "position", "clear", "value0", "value1",
              "pollMessage", "get1", "get2", "compare", "sendLock", "write"}

\* The reports in q carry the numbers that follow n.
NumberedFrom(q, n) ==
    \A i \in 1 .. Len(q) : q[i].d0 = n + i /\ q[i].d1 = n + i /\ q[i].pos = n + i

QueueInv ==
    /\ last \in Nat
    /\ reports \in 0 .. MaxReports
    /\ tty \in Seq(Report) /\ batch \in Seq(Report)
    /\ Len(tty) <= TtySize
    /\ reports = last + Len(batch) + Len(tty)
    /\ NumberedFrom(batch, last)
    /\ NumberedFrom(tty, last + Len(batch))
    /\ reader \in ReaderPlace
    /\ reader \in {"lock", "read"} => Len(batch) = 0
    /\ reader \in {"dist1", "position", "flag"} => Len(batch) > 0

\* The report whose word was written last, for each of the three words.
Dist0Now == IF reader \in {"dist1", "position", "flag"} THEN last + 1 ELSE last
Dist1Now == IF reader \in {"position", "flag"} THEN last + 1 ELSE last
PositionNow == IF reader = "flag" THEN last + 1 ELSE last

FieldInv ==
    /\ mDist \in [1 .. 2 -> Nat]
    /\ mDist[1] \in {0, Dist0Now}
    /\ mDist[2] \in {0, Dist1Now}
    /\ mHrPosition = PositionNow
    /\ ~wiped => mDist[1] = Dist0Now /\ mDist[2] = Dist1Now

ShownInv ==
    /\ main \in MainPlace
    /\ hp \in Nat /\ value0 \in Nat
    /\ shown \in [pos : Nat, d0 : Nat, d1 : Nat]
    /\ shown.d0 <= mDist[1] /\ shown.d1 <= mDist[2]
    /\ main = "value1" => shown.d0 <= value0 /\ value0 <= mDist[1]
    /\ main \in {"zero0", "zero1"} => shown.d0 = 0 /\ shown.d1 = 0

TearInv ==
    ~wiped => /\ shown.d0 <= shown.d1 + 1
              /\ shown.pos <= shown.d0
              /\ shown.pos <= shown.d1
              /\ main \in {"clear", "value0", "value1"} => hp <= mHrPosition
              /\ main = "value1" => hp <= value0

ReaderBetween == reader \in {"lock", "read", "dist0"}

FlagInv ==
    ~mHasNewData /\ ReaderBetween =>
        \/ main = "value0"
        \/ main = "value1" /\ value0 = mDist[1]
        \/ shown.d0 = mDist[1] /\ shown.d1 = mDist[2]

SensorInv == QueueInv /\ FieldInv /\ ShownInv /\ TearInv /\ FlagInv

-----------------------------------------------------------------------------

(***************************************************************************)
(* Nothing has been received, and every word is zero.                      *)
(***************************************************************************)
LEMMA InitSensorInv == Init => SensorInv
  <1> SUFFICES ASSUME Init PROVE SensorInv
    OBVIOUS
  <1> USE DEF Init, ChickenInit, DriverInit
  <1>1. QueueInv
    <2>1. <<>> \in Seq(Report) /\ Len(<<>>) = 0
      BY EmptySeq
    <2> QED BY <2>1, TtyAssumption, HostAssumption
            DEF QueueInv, NumberedFrom, ReaderPlace
  <1>2. FieldInv
    BY DEF FieldInv, Dist0Now, Dist1Now, PositionNow
  <1>3. ShownInv
    BY DEF ShownInv, MainPlace
  <1>4. TearInv
    BY DEF TearInv
  <1>5. FlagInv
    BY DEF FlagInv
  <1> QED BY <1>1, <1>2, <1>3, <1>4, <1>5 DEF SensorInv

-----------------------------------------------------------------------------

(***************************************************************************)
(* The read thread moves reports along and writes one word at a time.      *)
(***************************************************************************)

\* What a step of the read thread leaves to the main thread.
ReaderOnly ==
    /\ UNCHANGED <<main, hp, value0, shown, reports>>
    /\ ~wiped' => ~wiped

(***************************************************************************)
(* Waiting, locking and sleeping change no word and no report.             *)
(***************************************************************************)
LEMMA ReaderWaits ==
    ASSUME SensorInv, ReaderLock \/ ReaderSleep, ReaderOnly, last' = last
    PROVE  SensorInv'
  <1>1. /\ UNCHANGED <<tty, batch, mDist, mHrPosition, mHasNewData>>
        /\ ReaderBetween /\ ReaderBetween'
        /\ reader' \in {"lock", "read"}
        /\ Len(batch) = 0
    BY EmptySeq DEF ReaderLock, ReaderSleep, fieldVars, ReaderBetween, SensorInv, QueueInv
  <1>2. QueueInv'
    BY <1>1 DEF ReaderOnly, SensorInv, QueueInv, NumberedFrom, ReaderPlace
  <1>3. FieldInv'
    BY <1>1 DEF ReaderOnly, SensorInv, FieldInv, Dist0Now, Dist1Now, PositionNow,
                ReaderBetween
  <1>4. ShownInv' /\ TearInv' /\ FlagInv'
    BY <1>1 DEF ReaderOnly, SensorInv, ShownInv, TearInv, FlagInv
  <1> QED BY <1>2, <1>3, <1>4 DEF SensorInv

(***************************************************************************)
(* read() moves the oldest reports from the kernel to the buffer.          *)
(***************************************************************************)
LEMMA ReaderReads ==
    ASSUME SensorInv, ReaderRead, ReaderOnly, last' = last
    PROVE  SensorInv'
  <1>1. PICK n \in 1 .. Len(tty) : /\ batch' = SubSeq(tty, 1, n)
                                   /\ tty' = SubSeq(tty, n + 1, Len(tty))
    BY DEF ReaderRead
  <1>2. /\ UNCHANGED <<mDist, mHrPosition, mHasNewData>>
        /\ reader = "read" /\ reader' = "dist0"
    BY DEF ReaderRead, fieldVars
  <1>3. /\ tty \in Seq(Report) /\ Len(tty) \in Nat
        /\ \A i \in 1 .. Len(tty) : tty[i] \in Report
    BY LenProperties DEF SensorInv, QueueInv
  <1>4. /\ batch' \in Seq(Report) /\ Len(batch') = n
        /\ \A i \in 1 .. n : batch'[i] = tty[i]
    <2>1. \A i \in 1 .. n : tty[i] \in Report
      BY <1>3
    <2> QED BY <1>1, <2>1, SubSeqProperties
  <1>5. /\ tty' \in Seq(Report) /\ Len(tty') = Len(tty) - n
        /\ \A i \in 1 .. Len(tty) - n : tty'[i] = tty[n + i]
    <2>1. \A i \in n + 1 .. Len(tty) : tty[i] \in Report
      BY <1>3
    <2>2. n + 1 \in Int /\ Len(tty) \in Int
      BY <1>3
    <2>3. /\ tty' \in Seq(Report)
          /\ Len(tty') = IF n + 1 <= Len(tty) THEN Len(tty) - (n + 1) + 1 ELSE 0
          /\ \A i \in 1 .. Len(tty) - (n + 1) + 1 : tty'[i] = tty[n + 1 + i - 1]
      BY <1>1, <2>1, <2>2, SubSeqProperties
    <2> QED BY <2>3, <1>3
  <1>6. QueueInv'
    <2>1. Len(batch) = 0 /\ last \in Nat /\ last' = last
      BY <1>2 DEF SensorInv, QueueInv
    <2>2. \A i \in 1 .. Len(tty) : /\ tty[i].d0 = last + i
                                   /\ tty[i].d1 = last + i
                                   /\ tty[i].pos = last + i
      BY <2>1 DEF SensorInv, QueueInv, NumberedFrom
    <2>3. NumberedFrom(batch', last')
      BY <2>1, <2>2, <1>3, <1>4 DEF NumberedFrom
    <2>4. NumberedFrom(tty', last' + Len(batch'))
      <3> SUFFICES ASSUME NEW i \in 1 .. Len(tty')
                   PROVE  /\ tty'[i].d0 = last' + Len(batch') + i
                          /\ tty'[i].d1 = last' + Len(batch') + i
                          /\ tty'[i].pos = last' + Len(batch') + i
        BY DEF NumberedFrom
      <3>1. Len(tty) \in Nat /\ i \in 1 .. Len(tty) - n
        BY <1>3, <1>5
      <3>2. n + i \in 1 .. Len(tty)
        BY <3>1
      <3>3. tty'[i] = tty[n + i]
        BY <1>5, <3>1
      <3>4. last' + Len(batch') + i = last + (n + i)
        BY <2>1, <1>4, <3>1
      <3> QED BY <2>2, <3>2, <3>3, <3>4
    <2> QED BY <1>2, <1>3, <1>4, <1>5, <2>1, <2>3, <2>4, TtyAssumption
            DEF ReaderOnly, SensorInv, QueueInv, ReaderPlace
  <1>7. FieldInv'
    BY <1>2 DEF ReaderOnly, SensorInv, FieldInv, Dist0Now, Dist1Now, PositionNow
  <1>8. ShownInv' /\ TearInv' /\ FlagInv'
    BY <1>2 DEF ReaderOnly, SensorInv, ShownInv, TearInv, FlagInv, ReaderBetween
  <1> QED BY <1>6, <1>7, <1>8 DEF SensorInv

(***************************************************************************)
(* The report being published is the next one in number.                   *)
(***************************************************************************)
LEMMA NextReport ==
    ASSUME SensorInv, Len(batch) > 0
    PROVE  /\ Head(batch).d0 = last + 1
           /\ Head(batch).d1 = last + 1
           /\ Head(batch).pos = last + 1
  <1>1. Head(batch) = batch[1]
    BY DEF SensorInv, QueueInv
  <1> QED BY <1>1 DEF SensorInv, QueueInv, NumberedFrom

(***************************************************************************)
(* The three words are written in order, the position last.                *)
(***************************************************************************)
LEMMA ReaderPublishes ==
    ASSUME SensorInv, WriteDist0 \/ WriteDist1 \/ WritePosition, ReaderOnly,
           last' = last
    PROVE  SensorInv'
  <1>1. UNCHANGED <<tty, batch, mHasNewData>> /\ Len(batch) > 0
    BY EmptySeq DEF WriteDist0, WriteDist1, WritePosition, SensorInv, QueueInv
  <1>2. reader' \in {"dist1", "position", "flag"}
    BY DEF WriteDist0, WriteDist1, WritePosition
  <1>3. QueueInv'
    BY <1>1, <1>2 DEF ReaderOnly, SensorInv, QueueInv, NumberedFrom, ReaderPlace
  <1>4. /\ last \in Nat
        /\ Head(batch).d0 = last + 1 /\ Head(batch).d1 = last + 1
        /\ Head(batch).pos = last + 1
    BY <1>1, NextReport DEF SensorInv, QueueInv
  <1>5. FieldInv'
    BY <1>4 DEF WriteDist0, WriteDist1, WritePosition, ReaderOnly, SensorInv,
                FieldInv, Dist0Now, Dist1Now, PositionNow
  <1>6. /\ mDist'[1] >= mDist[1] /\ mDist'[2] >= mDist[2]
        /\ mDist \in [1 .. 2 -> Nat] /\ mDist' \in [1 .. 2 -> Nat]
        /\ mHrPosition \in Nat /\ mHrPosition' \in Nat
        /\ mHrPosition' >= mHrPosition
    BY <1>4, <1>5 DEF WriteDist0, WriteDist1, WritePosition, SensorInv, FieldInv,
                      Dist0Now, Dist1Now, PositionNow
  <1>7. ShownInv'
    BY <1>6 DEF ReaderOnly, SensorInv, ShownInv
  <1>8. TearInv'
    BY <1>6 DEF ReaderOnly, SensorInv, ShownInv, TearInv
  <1>9. FlagInv'
    BY <1>1, <1>2 DEF ReaderOnly, SensorInv, FlagInv, ReaderBetween
  <1> QED BY <1>3, <1>5, <1>7, <1>8, <1>9 DEF SensorInv

(***************************************************************************)
(* The flag is raised when all of the report has been written.             *)
(***************************************************************************)
LEMMA ReaderRaisesFlag ==
    ASSUME SensorInv, WriteFlag, ReaderOnly, last' = Head(batch).pos
    PROVE  SensorInv'
  <1>1. mHasNewData'
    BY Zenon DEF WriteFlag
  <1>2. /\ UNCHANGED <<tty, mDist, mHrPosition>>
        /\ reader = "flag" /\ reader' = "dist0" /\ batch' = Tail(batch)
    BY Zenon DEF WriteFlag
  <1>3. batch # <<>> /\ Len(batch) > 0 /\ batch \in Seq(Report)
    BY <1>2, EmptySeq DEF SensorInv, QueueInv
  <1>4. last' = last + 1
    BY <1>3, NextReport
  <1>5. /\ batch' \in Seq(Report) /\ Len(batch') = Len(batch) - 1
        /\ \A i \in 1 .. Len(batch') : batch'[i] = batch[i + 1]
    BY <1>2, <1>3, HeadTailProperties
  <1>6. QueueInv'
    <2>1. last \in Nat /\ Len(batch) \in Nat /\ tty' = tty
      BY <1>2, <1>3, LenProperties DEF SensorInv, QueueInv
    <2>2. NumberedFrom(batch', last')
      <3> SUFFICES ASSUME NEW i \in 1 .. Len(batch')
                   PROVE  /\ batch'[i].d0 = last' + i
                          /\ batch'[i].d1 = last' + i
                          /\ batch'[i].pos = last' + i
        BY DEF NumberedFrom
      <3>1. i + 1 \in 1 .. Len(batch) /\ batch'[i] = batch[i + 1]
        BY <1>5, <2>1
      <3>2. last' + i = last + (i + 1)
        BY <1>4, <2>1
      <3> QED BY <3>1, <3>2 DEF SensorInv, QueueInv, NumberedFrom
    <2>3. last' + Len(batch') = last + Len(batch)
      BY <1>4, <1>5, <2>1
    <2>4. NumberedFrom(tty', last' + Len(batch'))
      BY <2>1, <2>3 DEF SensorInv, QueueInv
    <2> QED BY <1>2, <1>4, <1>5, <2>1, <2>2, <2>3, <2>4
            DEF ReaderOnly, SensorInv, QueueInv, ReaderPlace
  <1>7. FieldInv'
    BY <1>2, <1>4 DEF ReaderOnly, SensorInv, FieldInv, Dist0Now, Dist1Now, PositionNow
  <1>8. ShownInv' /\ TearInv'
    BY <1>2 DEF ReaderOnly, SensorInv, ShownInv, TearInv
  <1>9. FlagInv'
    BY <1>1 DEF FlagInv
  <1> QED BY <1>6, <1>7, <1>8, <1>9 DEF SensorInv

-----------------------------------------------------------------------------

(***************************************************************************)
(* The kernel takes in the report with the next number, or loses it.       *)
(***************************************************************************)
LEMMA ReportArrives ==
    ASSUME SensorInv, ReceiveReport
    PROVE  SensorInv'
  <1>1. /\ UNCHANGED <<reader, batch, mDist, mHrPosition, mHasNewData>>
        /\ UNCHANGED <<main, hp, value0, shown, last, wiped>>
    BY DEF ReceiveReport, TtyReceive, readerVars, fieldVars, mainVars
  <1>2. QueueInv'
    <2>1. CASE Len(tty) < TtySize
      <3> DEFINE n == reports + 1
                 report == [d0 |-> n, d1 |-> n, pos |-> n]
      <3>1. tty' = Append(tty, report) /\ reports' = n /\ reports < MaxReports
        BY <2>1 DEF ReceiveReport, TtyReceive
      <3>2. n \in ReportNumber /\ report \in Report /\ tty \in Seq(Report)
        BY <3>1, HostAssumption DEF SensorInv, QueueInv, Report, ReportNumber
      <3>3. /\ tty' \in Seq(Report)
            /\ Len(tty') = Len(tty) + 1
            /\ \A i \in 1 .. Len(tty) : tty'[i] = tty[i]
            /\ tty'[Len(tty) + 1] = report
        BY <3>1, <3>2, AppendProperties
      <3>4. /\ Len(tty) \in Nat /\ Len(batch) \in Nat /\ last \in Nat
            /\ n = last + Len(batch) + (Len(tty) + 1)
        BY LenProperties DEF SensorInv, QueueInv
      <3>5. NumberedFrom(tty, last + Len(batch))
        BY DEF SensorInv, QueueInv
      <3>6. report.d0 = n /\ report.d1 = n /\ report.pos = n
        OBVIOUS
      <3>7. NumberedFrom(tty', last' + Len(batch'))
        <4> SUFFICES ASSUME NEW i \in 1 .. Len(tty')
                     PROVE  /\ tty'[i].d0 = last + Len(batch) + i
                            /\ tty'[i].d1 = last + Len(batch) + i
                            /\ tty'[i].pos = last + Len(batch) + i
          BY <1>1 DEF NumberedFrom
        <4>1. CASE i = Len(tty) + 1
          <5>1. n = last + Len(batch) + i
            BY <4>1, <3>4
          <5> QED BY <4>1, <5>1, <3>3, <3>6
        <4>2. CASE i # Len(tty) + 1
          <5>1. i \in 1 .. Len(tty) /\ tty'[i] = tty[i]
            BY <4>2, <3>3, <3>4
          <5> QED BY <5>1, <3>5 DEF NumberedFrom
        <4> QED BY <4>1, <4>2
      <3>8. /\ reports' \in 0 .. MaxReports
            /\ reports' = last' + Len(batch') + Len(tty')
            /\ Len(tty') <= TtySize
        BY <1>1, <2>1, <3>1, <3>3, <3>4, HostAssumption, TtyAssumption
           DEF SensorInv, QueueInv
      <3> QED BY <1>1, <3>3, <3>7, <3>8
              DEF SensorInv, QueueInv, NumberedFrom, ReaderPlace
    <2>2. CASE ~(Len(tty) < TtySize)
      <3>1. tty' = tty /\ reports' = reports
        BY <2>2 DEF ReceiveReport, TtyReceive
      <3> QED BY <1>1, <3>1 DEF SensorInv, QueueInv, NumberedFrom, ReaderPlace
    <2> QED BY <2>1, <2>2
  <1>3. FieldInv'
    BY <1>1 DEF SensorInv, FieldInv, Dist0Now, Dist1Now, PositionNow
  <1>4. ShownInv' /\ TearInv' /\ FlagInv'
    BY <1>1 DEF SensorInv, ShownInv, TearInv, FlagInv, ReaderBetween
  <1> QED BY <1>2, <1>3, <1>4 DEF SensorInv

-----------------------------------------------------------------------------

(***************************************************************************)
(* The main thread takes words from the fields one at a time.              *)
(***************************************************************************)

\* What a step of the main thread leaves to the read thread.
MainOnly == UNCHANGED <<tty, reader, batch, mHrPosition, reports, last>>

(***************************************************************************)
(* It moves no report.                                                     *)
(***************************************************************************)
LEMMA MainKeepsQueue ==
    ASSUME SensorInv, MainOnly
    PROVE  QueueInv'
  BY DEF MainOnly, SensorInv, QueueInv, NumberedFrom, ReaderPlace

(***************************************************************************)
(* The constructor may wipe a word that is already published.              *)
(***************************************************************************)
LEMMA ConstructorZeroes ==
    ASSUME SensorInv, ConstructDist0 \/ ConstructDist1, MainOnly,
           wiped' = (wiped \/ (main = "zero0" /\ mDist[1] # 0)
                           \/ (main = "zero1" /\ mDist[2] # 0))
    PROVE  SensorInv'
  <1>1. QueueInv'
    BY MainKeepsQueue
  <1>2. ~wiped' => /\ ~wiped
                   /\ main = "zero0" => mDist[1] = 0
                   /\ main = "zero1" => mDist[2] = 0
    BY Zenon
  <1>3. UNCHANGED <<mHasNewData, hp, value0, shown>>
    BY DEF ConstructDist0, ConstructDist1, ZeroDist
  <1>4. \/ /\ main = "zero0" /\ main' = "zero1"
           /\ mDist' = [mDist EXCEPT ![1] = 0]
        \/ /\ main = "zero1" /\ main' = "pollData"
           /\ mDist' = [mDist EXCEPT ![2] = 0]
    BY DEF ConstructDist0, ConstructDist1, ZeroDist, Goto
  <1>5. FieldInv'
    BY <1>2, <1>4 DEF MainOnly, SensorInv, FieldInv, Dist0Now, Dist1Now, PositionNow
  <1>6. ShownInv'
    BY <1>3, <1>4 DEF SensorInv, FieldInv, ShownInv, MainPlace
  <1>7. TearInv'
    BY <1>2, <1>3, <1>4 DEF SensorInv, TearInv
  <1>8. FlagInv'
    BY <1>3, <1>4 DEF MainOnly, SensorInv, FieldInv, ShownInv, FlagInv, ReaderBetween
  <1> QED BY <1>1, <1>5, <1>6, <1>7, <1>8 DEF SensorInv

(***************************************************************************)
(* When no word of the driver changes and nothing is wiped, the fields are *)
(* as they were.                                                           *)
(***************************************************************************)
LEMMA MainKeepsFields ==
    ASSUME SensorInv, MainOnly, mDist' = mDist, ~wiped' => ~wiped
    PROVE  FieldInv'
  BY DEF MainOnly, SensorInv, FieldInv, Dist0Now, Dist1Now, PositionNow

(***************************************************************************)
(* From the position to the first word.                                    *)
(***************************************************************************)
LEMMA ReadingTaken ==
    ASSUME SensorInv, PollData \/ GetHrPosition \/ ReadValue0, MainOnly,
           mDist' = mDist, ~wiped' => ~wiped
    PROVE  SensorInv'
  <1>1. QueueInv' /\ FieldInv'
    BY MainKeepsQueue, MainKeepsFields
  <1>2. mHasNewData' = mHasNewData /\ shown' = shown
    BY DEF PollData, GetHrPosition, ReadValue0, driverVars, fieldVars
  <1>3. \/ /\ main = "pollData" /\ main' \in {"position", "pollMessage"}
           /\ main' = "position" => mHasNewData
           /\ UNCHANGED <<hp, value0>>
        \/ /\ main = "position" /\ main' = "clear"
           /\ hp' = mHrPosition /\ value0' = value0
        \/ /\ main = "value0" /\ main' = "value1"
           /\ value0' = mDist[1] /\ hp' = hp
    BY DEF PollData, GetHrPosition, ReadValue0, Goto
  <1>4. /\ last \in Nat /\ mHrPosition \in Nat /\ mDist \in [1 .. 2 -> Nat]
        /\ ~wiped => mHrPosition <= mDist[1]
    BY DEF SensorInv, QueueInv, FieldInv, Dist0Now, PositionNow
  <1>5. ShownInv'
    BY <1>2, <1>3, <1>4 DEF SensorInv, ShownInv, MainPlace
  <1>6. TearInv'
    BY <1>2, <1>3, <1>4 DEF MainOnly, SensorInv, ShownInv, TearInv
  <1>7. FlagInv'
    BY <1>2, <1>3 DEF MainOnly, SensorInv, FlagInv, ReaderBetween
  <1> QED BY <1>1, <1>5, <1>6, <1>7 DEF SensorInv

(***************************************************************************)
(* getDistData() lowers the flag before either word has been taken.        *)
(***************************************************************************)
LEMMA FlagLowered ==
    ASSUME SensorInv, GetDistData, MainOnly, mDist' = mDist, ~wiped' => ~wiped
    PROVE  SensorInv'
  <1>1. QueueInv' /\ FieldInv'
    BY MainKeepsQueue, MainKeepsFields
  <1>2. /\ main = "clear" /\ main' = "value0"
        /\ UNCHANGED <<hp, value0, shown>>
    BY DEF GetDistData, Goto
  <1>3. ShownInv'
    BY <1>2 DEF SensorInv, ShownInv, MainPlace
  <1>4. TearInv' /\ FlagInv'
    BY <1>2 DEF MainOnly, SensorInv, TearInv, FlagInv
  <1> QED BY <1>1, <1>3, <1>4 DEF SensorInv

(***************************************************************************)
(* sendDistance() takes the second word and puts both out; neither is      *)
(* older than what was put out before.                                     *)
(***************************************************************************)
LEMMA ReadingPutOut ==
    ASSUME SensorInv, SendDistance, MainOnly, mDist' = mDist, ~wiped' => ~wiped
    PROVE  /\ SensorInv'
           /\ shown'.d0 >= shown.d0 /\ shown'.d1 >= shown.d1
  <1>1. QueueInv' /\ FieldInv'
    BY MainKeepsQueue, MainKeepsFields
  <1>2. /\ main = "value1" /\ main' = "pollMessage"
        /\ UNCHANGED <<mHasNewData, hp, value0>>
        /\ shown' = [pos |-> hp, d0 |-> value0, d1 |-> mDist[2]]
    BY DEF SendDistance, Goto, driverVars, fieldVars
  <1>3. /\ last \in Nat /\ mHrPosition \in Nat /\ mDist \in [1 .. 2 -> Nat]
        /\ ~wiped => mHrPosition <= mDist[2] /\ mDist[1] <= mDist[2] + 1
    BY DEF SensorInv, QueueInv, FieldInv, Dist0Now, Dist1Now, PositionNow
  <1>4. /\ hp \in Nat /\ value0 \in Nat /\ value0 <= mDist[1]
        /\ shown \in [pos : Nat, d0 : Nat, d1 : Nat]
        /\ shown.d0 <= value0 /\ shown.d1 <= mDist[2]
    BY <1>2 DEF SensorInv, ShownInv
  <1>5. ShownInv'
    BY <1>2, <1>3, <1>4 DEF ShownInv, MainPlace
  <1>6. TearInv'
    BY <1>2, <1>3, <1>4 DEF SensorInv, TearInv
  <1>7. FlagInv'
    BY <1>2, <1>3, <1>4 DEF MainOnly, SensorInv, FlagInv, ReaderBetween
  <1> QED BY <1>1, <1>2, <1>3, <1>4, <1>5, <1>6, <1>7 DEF SensorInv

\* Where the main thread is when it has no reading in hand.
NoReading == {"pollData", "pollMessage", "get1", "get2", "compare", "sendLock", "write"}

(***************************************************************************)
(* Messages and commands have nothing to do with readings.                 *)
(***************************************************************************)
LEMMA OtherWork ==
    ASSUME SensorInv, MainOnly,
           UNCHANGED <<mDist, mHasNewData, hp, value0, shown>>,
           ~wiped' => ~wiped,
           main' = main \/ (main \in NoReading /\ main' \in NoReading)
    PROVE  SensorInv'
  <1>1. QueueInv' /\ FieldInv'
    BY MainKeepsQueue, MainKeepsFields
  <1>2. ShownInv'
    BY DEF SensorInv, ShownInv, MainPlace, NoReading
  <1>3. TearInv'
    BY DEF MainOnly, SensorInv, TearInv, NoReading
  <1>4. FlagInv'
    BY DEF MainOnly, SensorInv, FlagInv, ReaderBetween, NoReading
  <1> QED BY <1>1, <1>2, <1>3, <1>4 DEF SensorInv

-----------------------------------------------------------------------------

\* What a step does to the text put out: nothing, or one no older in either word.
Forward == shown' = shown \/ (shown'.d0 >= shown.d0 /\ shown'.d1 >= shown.d1)

(***************************************************************************)
(* A step of the read thread keeps the invariant and puts out nothing.     *)
(***************************************************************************)
LEMMA ReadStep ==
    ASSUME SensorInv, Read
    PROVE  SensorInv' /\ Forward
  <1>1. ReadThread /\ ReaderOnly
    BY DEF Read, Reading, ReaderOnly, mainVars
  <1>2. Forward
    BY <1>1 DEF ReaderOnly, Forward
  <1>3. CASE WriteFlag
    <2>1. last' = Head(batch).pos
      BY <1>3 DEF Read
    <2> QED BY <1>1, <1>2, <1>3, <2>1, ReaderRaisesFlag
  <1>4. CASE ~WriteFlag
    <2>1. last' = last
      BY <1>4 DEF Read
    <2>2. \/ ReaderLock \/ ReaderSleep \/ ReaderRead
          \/ WriteDist0 \/ WriteDist1 \/ WritePosition
      BY <1>1, <1>4, Zenon DEF ReadThread
    <2> QED BY <1>1, <1>2, <2>1, <2>2, ReaderWaits, ReaderReads, ReaderPublishes,
               Zenon
  <1> QED BY <1>3, <1>4

(***************************************************************************)
(* A step of the main loop keeps the invariant, and puts out no older word. *)
(***************************************************************************)
LEMMA LoopStep ==
    ASSUME SensorInv, Loop
    PROVE  SensorInv' /\ Forward
  <1>1. /\ UNCHANGED <<reports, last>>
        /\ wiped' = (wiped \/ (main = "zero0" /\ mDist[1] # 0)
                           \/ (main = "zero1" /\ mDist[2] # 0))
    BY Zenon DEF Loop
  <1>2. ~wiped' => ~wiped
    BY <1>1, Zenon
  <1> USE DEF driverVars, readerVars, fieldVars, MainOnly
  <1>3. CASE ConstructDist0 \/ ConstructDist1
    <2>1. MainOnly /\ shown' = shown
      BY <1>1, <1>3 DEF ConstructDist0, ConstructDist1, ZeroDist
    <2> QED BY <1>1, <1>3, <2>1, ConstructorZeroes, Zenon DEF Forward
  <1>4. CASE PollData \/ GetHrPosition \/ ReadValue0
    <2>1. MainOnly /\ mDist' = mDist /\ shown' = shown
      BY <1>1, <1>4 DEF PollData, GetHrPosition, ReadValue0
    <2> QED BY <1>2, <1>4, <2>1, ReadingTaken, Zenon DEF Forward
  <1>5. CASE GetDistData
    <2>1. MainOnly /\ mDist' = mDist /\ shown' = shown
      BY <1>1, <1>5 DEF GetDistData, ClearHasNewData
    <2> QED BY <1>2, <1>5, <2>1, FlagLowered, Zenon DEF Forward
  <1>6. CASE SendDistance
    <2>1. MainOnly /\ mDist' = mDist
      BY <1>1, <1>6 DEF SendDistance
    <2> QED BY <1>2, <1>6, <2>1, ReadingPutOut, Zenon DEF Forward
  <1>7. CASE \/ PollMessage
             \/ GetReceivedMessage("get1", "get2")
             \/ GetReceivedMessage("get2", "compare")
             \/ main = "compare" /\ CompareText
             \/ LockPort
    <2>1. MainOnly /\ UNCHANGED <<mDist, mHasNewData, hp, value0, shown>>
      BY <1>1, <1>7 DEF PollMessage, GetReceivedMessage, CompareText, LockPort,
                        SendLock
    <2>2. main \in NoReading /\ main' \in NoReading
      BY <1>7 DEF PollMessage, GetReceivedMessage, CompareText, LockPort, Goto,
                  AfterComparing, NoReading
    <2> QED BY <1>2, <2>1, <2>2, OtherWork, Zenon DEF Forward
  <1> QED BY <1>3, <1>4, <1>5, <1>6, <1>7, Zenon DEF Loop, MainLoop

(***************************************************************************)
(* Nor does any other step.                                                *)
(***************************************************************************)
LEMMA NextStep ==
    ASSUME SensorInv, [Next]_hostVars
    PROVE  SensorInv' /\ Forward
  <1> USE DEF driverVars, readerVars, fieldVars, mainVars, MainOnly
  <1>1. CASE ReceiveReport
    <2>1. shown' = shown
      BY <1>1 DEF ReceiveReport
    <2> QED BY <1>1, <2>1, ReportArrives, Zenon DEF Forward
  <1>2. CASE Read
    BY <1>2, ReadStep
  <1>3. CASE Loop
    BY <1>3, LoopStep
  <1>4. CASE \/ ReceiveMessage \/ StoreMessage \/ Write \/ UNCHANGED hostVars
    <2>1. /\ MainOnly /\ wiped' = wiped
          /\ UNCHANGED <<mDist, mHasNewData, hp, value0, shown>>
      BY <1>4 DEF ReceiveMessage, BeginMessage, StoreMessage, Callback, EndCopy,
                  RaiseMessageFlag, Write, WriteCommand, SendUnlock, hostVars,
                  chickenVars
    <2>2. main' = main \/ (main \in NoReading /\ main' \in NoReading)
      BY <1>4 DEF ReceiveMessage, BeginMessage, StoreMessage, Callback, EndCopy,
                  RaiseMessageFlag, Write, WriteCommand, Goto, AfterComparing,
                  NoReading, hostVars, chickenVars
    <2>3. ~wiped' => ~wiped
      BY <2>1, Zenon
    <2> QED BY <2>1, <2>2, <2>3, OtherWork, Zenon DEF Forward
  <1> QED BY <1>1, <1>2, <1>3, <1>4, Zenon DEF Next

-----------------------------------------------------------------------------

(***************************************************************************)
(* The invariant holds for every number of reports and messages.           *)
(***************************************************************************)
THEOREM SensorInvHolds == Spec => []SensorInv
  <1>1. Init => SensorInv
    BY InitSensorInv
  <1>2. SensorInv /\ [Next]_hostVars => SensorInv'
    BY NextStep
  <1> QED BY <1>1, <1>2, PTL DEF Spec

(***************************************************************************)
(* A text put out shows a first distance at most one report ahead of the   *)
(* second, and a position never ahead of either distance.  How far a word  *)
(* read earlier is behind one read later has no bound: the main thread may *)
(* stop between its reads while reports go on (hr_driver.cpp:64-66).       *)
(***************************************************************************)
THEOREM TearIsBounded == Spec => []BoundedTear
  <1>1. SensorInv => BoundedTear
    BY DEF SensorInv, TearInv, BoundedTear
  <1> QED BY <1>1, SensorInvHolds, PTL

(***************************************************************************)
(* When nothing is on its way, the display shows what the driver holds,    *)
(* which is the last report unless the constructor wiped it.               *)
(***************************************************************************)
THEOREM NewestIsShown == Spec => []NewestReadingShown
  <1>1. SensorInv => NewestReadingShown
    <2> SUFFICES ASSUME SensorInv, SensorQuiet PROVE NewestReadingShown
      BY DEF NewestReadingShown
    <2>1. shown.d0 = mDist[1] /\ shown.d1 = mDist[2]
      BY DEF SensorQuiet, SensorInv, FlagInv, ReaderBetween
    <2>2. ~wiped => mDist[1] = last /\ mDist[2] = last
      BY DEF SensorQuiet, SensorInv, FieldInv, Dist0Now, Dist1Now
    <2>3. mDist = <<mDist[1], mDist[2]>>
      BY DEF SensorInv, FieldInv
    <2> QED BY <2>1, <2>2, <2>3, Zenon DEF NewestReadingShown
  <1> QED BY <1>1, SensorInvHolds, PTL

(***************************************************************************)
(* No step puts out a distance older than the one it replaces.             *)
(***************************************************************************)
THEOREM DisplayNeverGoesBack == Spec => ShownNeverGoesBack
  <1>1. SensorInv /\ [Next]_hostVars
        => [shown'.d0 >= shown.d0 /\ shown'.d1 >= shown.d1]_shown
    BY NextStep DEF Forward
  <1> QED BY <1>1, SensorInvHolds, PTL DEF Spec, ShownNeverGoesBack

-----------------------------------------------------------------------------

(***************************************************************************)
(* The operator's side.  What the lock's holder and the threads' places    *)
(* have to do with each other (PortInv), how a message lies in the mailbox *)
(* (MailInv), that the newest message has been obeyed or still will be     *)
(* (OwedInv), and how often it still can be (ChanceInv).                   *)
(***************************************************************************)

PortInv ==
    /\ mutex \in {"free", "reader", "main"}
    /\ mutex = "reader" <=> reader = "read"
    /\ mutex = "main" <=> main = "write"
    /\ mHasNewData \in BOOLEAN
    /\ hp <= mHrPosition /\ shown.pos <= mHrPosition

\* The main thread has met a flag; is in a pass over the known texts; has a command.
Fetching == main \in {"get1", "get2"}
Comparing == main \in {"compare", "sendLock", "write"}
Sending == main \in {"sendLock", "write"}

Mail == [id : 0 .. MaxMessages, text : MessageText \cup {"none"}]

MailInv ==
    /\ messages \in 0 .. MaxMessages
    /\ incoming \in [step : {"idle", "copy", "flag"}, message : Mail]
    /\ incoming.message.id = messages
    /\ messages = 0 => ~IsKnown(incoming.message)
    /\ mReceivedMessage = IF incoming.step = "copy" THEN Torn ELSE incoming.message
    /\ mHasNewMessage \in BOOLEAN
    /\ compared \in 0 .. Len(KnownText)
    /\ main = "compare" => compared < Len(KnownText)
    /\ sending.id \in 0 .. messages /\ lastSent.id \in 0 .. messages
    /\ Sending => sending.id > 0

\* A pass over the known texts is due because of a flag.
PassDue == Fetching \/ mHasNewMessage

\* The pass in hand has still to come to the text of the newest message.
PassInHand ==
    /\ Comparing
    /\ \E n \in compared + 1 .. Len(KnownText) : KnownText[n] = incoming.message.text

Owed ==
    \/ incoming.step # "idle"
    \/ PassDue
    \/ PassInHand
    \/ Sending /\ sending.id = messages

OwedInv ==
    /\ IsKnown(incoming.message) => Owed \/ lastSent.id = messages
    /\ messages > 0 /\ lastSent.id = messages /\ Sending => sending.id = messages

Once(b) == IF b THEN 1 ELSE 0

\* How often message id can still be obeyed if it is not the newest.
InHand(id) == Once(Sending /\ sending.id = id)

\* How often the newest message can still be met in the mailbox.
Chances == Once(incoming.step # "idle") + Once(PassDue) + Once(PassInHand)

ChanceInv ==
    /\ obeyed \in [1 .. MaxMessages -> Nat]
    /\ \A id \in 1 .. MaxMessages :
         /\ id > messages => obeyed[id] = 0
         /\ id <= messages => obeyed[id] + InHand(id) <= 3
         /\ id = messages => obeyed[id] + InHand(id) + Chances <= 3

OperatorInv == PortInv /\ MailInv /\ OwedInv /\ ChanceInv

(***************************************************************************)
(* The texts that name commands differ from each other and from what the   *)
(* mailbox holds before and between messages.                              *)
(***************************************************************************)
LEMMA KnownTexts ==
    /\ Len(KnownText) = 4
    /\ \A i, j \in 1 .. 4 : KnownText[i] = KnownText[j] => i = j
    /\ \A i \in 1 .. 4 : KnownText[i] # "torn" /\ KnownText[i] # "none"
  BY DEF KnownText

(***************************************************************************)
(* No message has come, and nobody holds the lock.                         *)
(***************************************************************************)
LEMMA InitOperatorInv == Init => OperatorInv
  <1> SUFFICES ASSUME Init PROVE OperatorInv
    OBVIOUS
  <1> USE DEF Init, ChickenInit, DriverInit
  <1>1. PortInv
    <2>1. /\ mutex = "free" /\ reader = "lock" /\ main = "zero0"
          /\ hp = 0 /\ mHrPosition = 0 /\ shown.pos = 0
      OBVIOUS
    <2>2. mHasNewData \in BOOLEAN
      BY Zenon
    <2> HIDE DEF Init, ChickenInit, DriverInit
    <2> QED BY <2>1, <2>2 DEF PortInv
  <1>2. MailInv
    <2>1. ~IsKnown(NoMessage) /\ Len(KnownText) = 4
      BY KnownTexts DEF IsKnown, NoMessage
    <2>2. NoMessage \in Mail /\ NoMessage.id = 0 /\ NoCommand.id = 0
      BY HostAssumption DEF Mail, NoMessage, NoCommand
    <2>3. /\ incoming = [step |-> "idle", message |-> NoMessage]
          /\ incoming.message = NoMessage /\ incoming.step = "idle"
          /\ mReceivedMessage = NoMessage /\ mHasNewMessage = FALSE
          /\ messages = 0 /\ compared = 0 /\ main = "zero0"
          /\ sending = NoCommand /\ lastSent = NoCommand
      OBVIOUS
    <2> HIDE DEF Init, ChickenInit, DriverInit
    <2>4. ~IsKnown(incoming.message)
      BY <2>1, <2>3, Zenon
    <2>5. 0 \in 0 .. MaxMessages /\ 0 \in 0 .. messages /\ 0 \in 0 .. 4
      BY <2>3, HostAssumption
    <2>6. incoming \in [step : {"idle", "copy", "flag"}, message : Mail]
      BY <2>2, <2>3
    <2>7. ~Sending /\ main # "compare"
      BY <2>3 DEF Sending
    <2> QED BY <2>1, <2>2, <2>3, <2>4, <2>5, <2>6, <2>7 DEF MailInv
  <1>3. OwedInv
    BY KnownTexts DEF OwedInv, IsKnown, NoMessage
  <1>4. ChanceInv
    BY HostAssumption DEF ChanceInv
  <1> QED BY <1>1, <1>2, <1>3, <1>4 DEF OperatorInv

-----------------------------------------------------------------------------

\* What the operator's side is about, the lock's holder and the fields left out.
operatorVars == <<incoming, mReceivedMessage, mHasNewMessage, compared, sending,
                  lastSent, messages, obeyed>>

\* Where the main thread is on its way with a reading, or polling.
Elsewhere == {"zero0", "zero1", "pollData", "position", "clear", "value0", "value1",
              "pollMessage"}

(***************************************************************************)
(* Readings have nothing to do with messages and commands.                 *)
(***************************************************************************)
LEMMA SensorWork ==
    ASSUME OperatorInv, UNCHANGED operatorVars,
           main' = main \/ (main \in Elsewhere /\ main' \in Elsewhere)
    PROVE  MailInv' /\ OwedInv' /\ ChanceInv'
  <1>1. /\ Fetching' = Fetching /\ Comparing' = Comparing /\ Sending' = Sending
        /\ (main = "compare")' = (main = "compare")
    BY DEF Fetching, Comparing, Sending, Elsewhere
  <1>2. MailInv'
    BY <1>1 DEF OperatorInv, MailInv, operatorVars, IsKnown
  <1>3. PassDue' = PassDue /\ PassInHand' = PassInHand
    BY <1>1 DEF PassDue, PassInHand, operatorVars
  <1>4. OwedInv'
    BY <1>1, <1>3 DEF OperatorInv, OwedInv, Owed, IsKnown, operatorVars
  <1>5. Chances' = Chances /\ \A id : InHand(id)' = InHand(id)
    BY <1>1, <1>3 DEF Chances, InHand, operatorVars
  <1>6. ChanceInv'
    BY <1>5 DEF OperatorInv, ChanceInv, operatorVars
  <1> QED BY <1>2, <1>4, <1>6

(***************************************************************************)
(* The read thread's steps: the lock goes with the place "read", and the   *)
(* position is only ever replaced by a later one.                          *)
(***************************************************************************)
LEMMA ReadKeepsOperator ==
    ASSUME SensorInv, OperatorInv, Read
    PROVE  OperatorInv'
  <1> USE DEF fieldVars, readerVars
  <1>1. UNCHANGED <<operatorVars, main, hp, shown>>
    BY DEF Read, Reading, mainVars, mailboxVars, operatorVars
  <1>2. MailInv' /\ OwedInv' /\ ChanceInv'
    BY <1>1, SensorWork, Zenon
  <1>3. mHrPosition' >= mHrPosition /\ mHrPosition \in Nat /\ mHrPosition' \in Nat
    <2>1. CASE WritePosition
      <3>1. /\ reader = "position" /\ mHrPosition' = Head(batch).pos
        BY <2>1 DEF WritePosition
      <3>2. Len(batch) > 0 /\ batch[1].pos = last + 1 /\ mHrPosition = last /\ last \in Nat
        BY <3>1 DEF SensorInv, QueueInv, FieldInv, PositionNow, NumberedFrom
      <3>3. Head(batch) = batch[1]
        BY <3>2, HeadTailProperties, EmptySeq DEF SensorInv, QueueInv
      <3> QED BY <3>1, <3>2, <3>3
    <2>2. CASE ~WritePosition
      <3>1. mHrPosition' = mHrPosition
        BY <2>2 DEF Read, Reading, ReadThread, ReaderLock, ReaderRead, WriteDist0,
                    WriteDist1, WriteFlag, ReaderSleep
      <3> QED BY <3>1 DEF SensorInv, QueueInv, FieldInv, PositionNow
    <2> QED BY <2>1, <2>2
  <1>4. \/ mutex' = mutex /\ reader # "read" /\ reader' # "read"
        \/ mutex = "free" /\ mutex' = "reader" /\ reader = "lock" /\ reader' = "read"
        \/ mutex' = "free" /\ reader = "read" /\ reader' = "dist0"
    BY DEF Read, Reading, ReadThread, ReaderLock, ReaderRead, WriteDist0, WriteDist1,
           WritePosition, WriteFlag, ReaderSleep
  <1>5. mHasNewData' \in BOOLEAN
    BY DEF Read, Reading, ReadThread, ReaderLock, ReaderRead, WriteDist0, WriteDist1,
           WritePosition, WriteFlag, ReaderSleep, OperatorInv, PortInv
  <1>6. PortInv'
    BY <1>1, <1>3, <1>4, <1>5 DEF OperatorInv, PortInv, SensorInv, ShownInv
  <1> QED BY <1>2, <1>6 DEF OperatorInv

(***************************************************************************)
(* A new message: it is the newest, no command can have been for it, and   *)
(* three chances are all it can have.                                      *)
(***************************************************************************)
LEMMA MessageBegun ==
    ASSUME OperatorInv, ReceiveMessage
    PROVE  OperatorInv'
  <1> USE DEF mainVars, driverVars, readerVars, fieldVars
  <1>1. PICK text \in MessageText : BeginMessage([id |-> messages', text |-> text])
    BY DEF ReceiveMessage
  <1>2. /\ messages < MaxMessages /\ messages' = messages + 1
        /\ UNCHANGED <<obeyed, mutex, reader, mHrPosition, hp, shown, main, compared,
                       sending, lastSent, mHasNewMessage, mHasNewData>>
        /\ incoming.step = "idle"
        /\ incoming' = [step |-> "copy",
                        message |-> [id |-> messages', text |-> text]]
        /\ mReceivedMessage' = Torn
    BY <1>1 DEF ReceiveMessage, BeginMessage
  <1>3. PortInv'
    BY <1>2 DEF OperatorInv, PortInv
  <1>4. MailInv'
    BY <1>2, HostAssumption DEF OperatorInv, MailInv, Mail, Sending
  <1>5. OwedInv'
    BY <1>2 DEF OperatorInv, MailInv, OwedInv, Owed
  <1>6. ChanceInv'
    <2>1. obeyed' = obeyed /\ obeyed \in [1 .. MaxMessages -> Nat]
      BY <1>2 DEF OperatorInv, ChanceInv
    <2>2. messages \in Nat /\ sending.id <= messages /\ sending.id \in Nat
      BY HostAssumption DEF OperatorInv, MailInv
    <2>3. ASSUME NEW id \in 1 .. MaxMessages
          PROVE  /\ id > messages' => obeyed'[id] = 0
                 /\ id <= messages' => obeyed'[id] + InHand(id)' <= 3
                 /\ id = messages' => obeyed'[id] + InHand(id)' + Chances' <= 3
      <3>1. InHand(id)' = InHand(id) /\ Chances' \in 0 .. 3
        BY <1>2 DEF InHand, Sending, Chances, Once
      <3>2. CASE id <= messages
        BY <1>2, <2>1, <2>2, <3>1, <3>2 DEF OperatorInv, ChanceInv
      <3>3. CASE id > messages
        <4>1. obeyed[id] = 0
          BY <3>3 DEF OperatorInv, ChanceInv
        <4>2. InHand(id) = 0
          BY <2>2, <3>3 DEF InHand, Once
        <4>3. obeyed'[id] = 0 /\ InHand(id)' = 0
          BY <2>1, <3>1, <4>1, <4>2
        <4>4. PICK h, c : h = InHand(id)' /\ c = Chances'
          BY Zenon
        <4>5. h = 0 /\ c \in 0 .. 3
          BY <3>1, <4>3, <4>4, Zenon
        <4>6. obeyed'[id] + h <= 3 /\ obeyed'[id] + h + c <= 3
          BY <4>3, <4>5
        <4> QED BY <4>3, <4>4, <4>6, Zenon
      <3> QED BY <2>2, <3>2, <3>3, HostAssumption
    <2> QED BY <2>1, <2>3 DEF ChanceInv
  <1> QED BY <1>3, <1>4, <1>5, <1>6 DEF OperatorInv

(***************************************************************************)
(* The callback goes on: the message is in the mailbox, then its flag is   *)
(* up.  Its own chance becomes the pass that is due.                       *)
(***************************************************************************)
LEMMA MessageStored ==
    ASSUME OperatorInv, StoreMessage
    PROVE  OperatorInv'
  <1> USE DEF mainVars, driverVars, readerVars, fieldVars
  <1>1. /\ UNCHANGED <<messages, obeyed, mutex, reader, mHrPosition, hp, shown, main,
                       compared, sending, lastSent, mHasNewData>>
        /\ incoming'.message = incoming.message
        /\ incoming' \in [step : {"idle", "copy", "flag"}, message : Mail]
        /\ \/ /\ incoming.step = "copy" /\ incoming'.step = "flag"
              /\ mReceivedMessage' = incoming.message
              /\ mHasNewMessage' = mHasNewMessage
           \/ /\ incoming.step = "flag" /\ incoming'.step = "idle"
              /\ mReceivedMessage' = mReceivedMessage
              /\ mHasNewMessage' = TRUE
    BY DEF StoreMessage, Callback, EndCopy, RaiseMessageFlag, OperatorInv, MailInv
  <1>2. PortInv'
    BY <1>1 DEF OperatorInv, PortInv
  <1>3. MailInv'
    BY <1>1 DEF OperatorInv, MailInv, IsKnown, Sending
  <1>4. PassInHand' = PassInHand /\ \A id : InHand(id)' = InHand(id)
    BY <1>1 DEF PassInHand, Comparing, InHand, Sending
  <1>5. OwedInv'
    BY <1>1, <1>4 DEF OperatorInv, OwedInv, Owed, PassDue, Sending, IsKnown
  <1>6. ChanceInv'
    <2>1. Chances' \in Int /\ Chances \in Int /\ Chances' <= Chances
      BY <1>1, <1>4 DEF Chances, Once, PassDue, Fetching
    <2>2. \A id : InHand(id) \in Int
      BY DEF InHand, Once
    <2> QED BY <1>1, <1>4, <2>1, <2>2 DEF OperatorInv, ChanceInv
  <1> QED BY <1>2, <1>3, <1>5, <1>6 DEF OperatorInv

-----------------------------------------------------------------------------

(***************************************************************************)
(* The main loop with a reading, or with nothing to do.                    *)
(***************************************************************************)
LEMMA ReadingKeepsOperator ==
    ASSUME SensorInv, OperatorInv, UNCHANGED <<messages, obeyed>>,
           \/ ConstructDist0 \/ ConstructDist1 \/ PollData \/ GetHrPosition
           \/ GetDistData \/ ReadValue0 \/ SendDistance
    PROVE  OperatorInv'
  <1> USE DEF driverVars, readerVars, fieldVars, mailboxVars
  <1>1. /\ UNCHANGED <<mutex, reader, mHrPosition>>
        /\ mHasNewData' \in {mHasNewData, FALSE}
    BY DEF ConstructDist0, ConstructDist1, PollData, GetHrPosition, GetDistData,
           ReadValue0, SendDistance, ZeroDist, ClearHasNewData
  <1>2. UNCHANGED operatorVars /\ main \in Elsewhere /\ main' \in Elsewhere
    BY DEF ConstructDist0, ConstructDist1, PollData, GetHrPosition, GetDistData,
           ReadValue0, SendDistance, Goto, operatorVars, Elsewhere
  <1>3. /\ hp' = hp \/ hp' = mHrPosition
        /\ shown'.pos = shown.pos \/ shown'.pos = hp
    BY DEF ConstructDist0, ConstructDist1, PollData, GetHrPosition, GetDistData,
           ReadValue0, SendDistance
  <1>4. mHrPosition \in Nat /\ hp \in Nat /\ shown.pos \in Nat
    BY DEF SensorInv, QueueInv, FieldInv, PositionNow, ShownInv
  <1>5. MailInv' /\ OwedInv' /\ ChanceInv'
    BY <1>2, SensorWork, Zenon
  <1>6. PortInv'
    <2>1. mHasNewData' \in BOOLEAN
      BY <1>1, Zenon DEF OperatorInv, PortInv
    <2> QED BY <1>1, <1>2, <1>3, <1>4, <2>1 DEF OperatorInv, PortInv, Elsewhere
  <1> QED BY <1>5, <1>6 DEF OperatorInv

(***************************************************************************)
(* A step after which no message has more chances than before keeps the    *)
(* count.                                                                  *)
(***************************************************************************)
LEMMA ChancesSpent ==
    ASSUME ChanceInv, UNCHANGED <<messages, obeyed>>,
           Chances \in Nat, Chances' \in Nat, messages \in Nat, sending.id \in Nat,
           \A id \in 1 .. MaxMessages \ {messages} : InHand(id)' <= InHand(id),
           InHand(messages)' + Chances' <= InHand(messages) + Chances
    PROVE  ChanceInv'
  <1> SUFFICES ASSUME NEW id \in 1 .. MaxMessages
               PROVE  /\ id > messages => obeyed[id] = 0
                      /\ id <= messages => obeyed[id] + InHand(id)' <= 3
                      /\ id = messages => obeyed[id] + InHand(id)' + Chances' <= 3
    BY DEF ChanceInv
  <1>1. PICK h, g, c, d : /\ h = InHand(id) /\ g = InHand(id)'
                          /\ c = Chances /\ d = Chances'
    BY Zenon
  <1>2. InHand(id) \in Nat /\ InHand(id)' \in Nat
    BY DEF InHand, Once
  <1>3. h \in Nat /\ g \in Nat /\ c \in Nat /\ d \in Nat
    BY <1>1, <1>2, Zenon
  <1>4. /\ obeyed[id] \in Nat
        /\ id > messages => obeyed[id] = 0
        /\ id <= messages => obeyed[id] + h <= 3
        /\ id = messages => obeyed[id] + h + c <= 3
    BY <1>1, Zenon DEF ChanceInv
  <1>5. IF id = messages THEN g + d <= h + c ELSE g <= h
    BY <1>1
  <1>6. /\ id <= messages => obeyed[id] + g <= 3
        /\ id = messages => obeyed[id] + g + d <= 3
    BY <1>3, <1>4, <1>5
  <1> QED BY <1>1, <1>4, <1>6, Zenon

(***************************************************************************)
(* The flag is met and lowered, and a pass over the known texts begins.    *)
(***************************************************************************)
LEMMA MessageTaken ==
    ASSUME OperatorInv, UNCHANGED <<messages, obeyed>>,
           \/ PollMessage
           \/ GetReceivedMessage("get1", "get2")
           \/ GetReceivedMessage("get2", "compare")
    PROVE  OperatorInv'
  <1> USE DEF driverVars, readerVars, fieldVars, mailboxVars
  <1>1. /\ UNCHANGED <<mutex, reader, mHrPosition, mHasNewData, hp, shown, incoming,
                       mReceivedMessage, sending, lastSent>>
        /\ \/ /\ main = "pollMessage" /\ compared' = compared
              /\ main' = IF mHasNewMessage THEN "get1" ELSE "pollData"
              /\ mHasNewMessage' = mHasNewMessage
           \/ /\ main = "get1" /\ main' = "get2"
              /\ mHasNewMessage' = FALSE /\ compared' = 0
           \/ /\ main = "get2" /\ main' = "compare"
              /\ mHasNewMessage' = FALSE /\ compared' = 0
    BY DEF PollMessage, GetReceivedMessage, Goto
  <1>2. PortInv'
    BY <1>1 DEF OperatorInv, PortInv
  <1>3. MailInv'
    <2>1. /\ compared' \in 0 .. 4
          /\ main' = "compare" => compared' = 0
          /\ ~Sending'
      BY <1>1, KnownTexts DEF OperatorInv, MailInv, Sending
    <2>2. mHasNewMessage' \in BOOLEAN
      BY <1>1, Zenon DEF OperatorInv, MailInv
    <2> QED BY <1>1, <2>1, <2>2, KnownTexts DEF OperatorInv, MailInv, IsKnown
  <1>4. ~Sending /\ ~Sending' /\ ~PassInHand
    BY <1>1 DEF Sending, PassInHand, Comparing
  <1>5. \/ PassDue' = PassDue /\ ~PassInHand'
        \/ PassDue /\ ~PassDue' /\ main' = "compare" /\ compared' = 0
    BY <1>1 DEF PassDue, Fetching, PassInHand, Comparing, OperatorInv, MailInv
  <1>6. OwedInv'
    <2>1. main' = "compare" /\ compared' = 0 /\ IsKnown(incoming.message)
          => PassInHand'
      BY <1>1, KnownTexts DEF PassInHand, Comparing, IsKnown
    <2> QED BY <1>1, <1>4, <1>5, <2>1 DEF OperatorInv, OwedInv, Owed, IsKnown
  <1>7. ChanceInv'
    <2>1. /\ Chances \in Nat /\ Chances' \in Nat /\ Chances' <= Chances
      BY <1>1, <1>4, <1>5 DEF Chances, Once
    <2>2. \A id : InHand(id)' = 0 /\ InHand(id) = 0
      BY <1>4 DEF InHand, Once
    <2> QED BY <2>1, <2>2, ChancesSpent, HostAssumption DEF OperatorInv, MailInv
  <1> QED BY <1>2, <1>3, <1>6, <1>7 DEF OperatorInv

(***************************************************************************)
(* One comparison with the buffer as it is now.  Each text is met once in  *)
(* a pass, so the newest message uses up its pass when it is met.          *)
(***************************************************************************)
LEMMA TextCompared ==
    ASSUME OperatorInv, UNCHANGED <<messages, obeyed>>, main = "compare", CompareText
    PROVE  OperatorInv'
  <1> USE DEF driverVars, readerVars, fieldVars, mailboxVars
  <1> DEFINE n == compared + 1
  <1>1. n \in 1 .. 4 /\ compared \in Nat
    BY KnownTexts DEF OperatorInv, MailInv
  <1>2. /\ UNCHANGED <<mutex, reader, mHrPosition, mHasNewData, hp, shown, incoming,
                       mReceivedMessage, lastSent, mHasNewMessage>>
        /\ compared' = n
        /\ \/ /\ mReceivedMessage.text = KnownText[n]
              /\ main' = "sendLock" /\ sending'.id = mReceivedMessage.id
           \/ /\ mReceivedMessage.text # KnownText[n]
              /\ main' = AfterComparing(n)
              /\ sending' = sending
    BY DEF CompareText, Goto
  <1>3. main' \in {"sendLock", "pollData", "compare"}
        /\ (main' = "compare" => n < 4)
    BY <1>1, <1>2, KnownTexts DEF AfterComparing
  <1>4. PortInv'
    BY <1>2, <1>3 DEF OperatorInv, PortInv
  <1>5. CASE mReceivedMessage.text = KnownText[n]
    <2>1. /\ incoming.step # "copy" /\ mReceivedMessage = incoming.message
          /\ IsKnown(incoming.message)
      BY <1>1, <1>5, KnownTexts DEF OperatorInv, MailInv, Torn, IsKnown
    <2>2. sending'.id = messages /\ messages \in 1 .. MaxMessages /\ main' = "sendLock"
      BY <1>2, <1>5, <2>1, HostAssumption DEF OperatorInv, MailInv
    <2>3. MailInv'
      BY <1>1, <1>2, <2>2, KnownTexts DEF OperatorInv, MailInv, Sending, IsKnown
    <2>4. PassInHand /\ ~PassInHand'
      BY <1>1, <1>2, <1>5, <2>1, <2>2, KnownTexts DEF PassInHand, Comparing
    <2>5. ~Sending /\ Sending' /\ PassDue' = PassDue
      BY <1>2, <2>2 DEF Sending, PassDue, Fetching
    <2>6. OwedInv'
      BY <1>2, <2>2, <2>5 DEF OwedInv, Owed
    <2>7. ChanceInv'
      <3>1. /\ Chances \in Nat /\ Chances' \in Nat /\ Chances = Chances' + 1
        BY <1>2, <2>4, <2>5 DEF Chances, Once
      <3>2. /\ \A id : InHand(id) = 0
            /\ \A id \in 1 .. MaxMessages \ {messages} : InHand(id)' = 0
            /\ InHand(messages)' = 1
        BY <2>2, <2>5 DEF InHand, Once
      <3> QED BY <2>2, <3>1, <3>2, ChancesSpent, HostAssumption
              DEF OperatorInv, MailInv
    <2> QED BY <1>4, <2>3, <2>6, <2>7 DEF OperatorInv
  <1>6. CASE mReceivedMessage.text # KnownText[n]
    <2>1. sending' = sending /\ ~Sending /\ ~Sending' /\ ~Fetching /\ ~Fetching'
      BY <1>2, <1>3, <1>6, KnownTexts DEF Sending, Fetching, AfterComparing
    <2>2. MailInv'
      BY <1>1, <1>2, <1>3, <2>1, KnownTexts DEF OperatorInv, MailInv, Sending, IsKnown
    <2>3. PassDue' = PassDue
      BY <1>2, <2>1 DEF PassDue
    <2>4. PassInHand' => PassInHand
      BY <1>1, <1>2, KnownTexts DEF PassInHand, Comparing
    <2>5. incoming.step # "copy" /\ PassInHand => PassInHand'
      <3> SUFFICES ASSUME incoming.step # "copy", PassInHand PROVE PassInHand'
        OBVIOUS
      <3>1. PICK i \in n .. 4 : KnownText[i] = incoming.message.text
        BY KnownTexts DEF PassInHand
      <3>2. i # n
        BY <1>6, <3>1 DEF OperatorInv, MailInv
      <3>3. i \in n + 1 .. 4 /\ n # 4
        BY <1>1, <3>1, <3>2
      <3>4. main' = "compare"
        BY <1>2, <1>6, <3>3, KnownTexts DEF AfterComparing
      <3> QED BY <1>2, <3>1, <3>3, <3>4, KnownTexts DEF PassInHand, Comparing
    <2>6. OwedInv'
      BY <1>2, <2>1, <2>3, <2>5 DEF OperatorInv, OwedInv, Owed, IsKnown
    <2>7. ChanceInv'
      <3>1. /\ Chances \in Nat /\ Chances' \in Nat /\ Chances' <= Chances
        BY <1>2, <2>3, <2>4 DEF Chances, Once
      <3>2. \A id : InHand(id)' = 0 /\ InHand(id) = 0
        BY <2>1 DEF InHand, Once
      <3> QED BY <3>1, <3>2, ChancesSpent, HostAssumption DEF OperatorInv, MailInv
    <2> QED BY <1>4, <2>2, <2>6, <2>7 DEF OperatorInv
  <1> QED BY <1>5, <1>6

(***************************************************************************)
(* A command waits for the lock ...                                        *)
(***************************************************************************)
LEMMA PortLocked ==
    ASSUME OperatorInv, UNCHANGED <<messages, obeyed>>, LockPort
    PROVE  OperatorInv'
  <1> USE DEF driverVars, readerVars, fieldVars, mailboxVars
  <1>1. /\ UNCHANGED <<reader, mHrPosition, mHasNewData, hp, shown, operatorVars>>
        /\ mutex = "free" /\ mutex' = "main"
        /\ main = "sendLock" /\ main' = "write"
    BY DEF LockPort, SendLock, Goto, operatorVars
  <1>2. PortInv'
    BY <1>1 DEF OperatorInv, PortInv
  <1>3. /\ Sending' /\ Sending /\ PassDue' = PassDue /\ PassInHand' = PassInHand
        /\ \A id : InHand(id)' = InHand(id)
    BY <1>1 DEF Sending, PassDue, Fetching, PassInHand, Comparing, InHand, operatorVars
  <1>4. MailInv'
    BY <1>1, <1>3 DEF OperatorInv, MailInv, IsKnown, operatorVars
  <1>5. OwedInv'
    BY <1>1, <1>3 DEF OperatorInv, OwedInv, Owed, IsKnown, operatorVars
  <1>6. Chances' = Chances
    BY <1>1, <1>3 DEF Chances, operatorVars
  <1>7. ChanceInv'
    BY <1>1, <1>3, <1>6 DEF OperatorInv, ChanceInv, operatorVars
  <1> QED BY <1>2, <1>4, <1>5, <1>7 DEF OperatorInv

(***************************************************************************)
(* ... and is written: the message in hand has been obeyed.                *)
(***************************************************************************)
LEMMA CommandWritten ==
    ASSUME OperatorInv, Write
    PROVE  OperatorInv'
  <1> USE DEF driverVars, readerVars, fieldVars, mailboxVars
  <1>1. /\ UNCHANGED <<reader, mHrPosition, mHasNewData, hp, shown, incoming, mReceivedMessage,
                       mHasNewMessage, compared, sending, messages>>
        /\ mutex = "main" /\ mutex' = "free"
        /\ main = "write" /\ main' = AfterComparing(compared)
        /\ lastSent' = sending
        /\ obeyed' = [obeyed EXCEPT ![sending.id] = @ + 1]
    BY DEF Write, WriteCommand, SendUnlock, Goto
  <1>2. /\ compared \in 0 .. 4
        /\ main' = IF compared = 4 THEN "pollData" ELSE "compare"
    BY <1>1, KnownTexts DEF AfterComparing, OperatorInv, MailInv
  <1>3. PortInv'
    BY <1>1, <1>2 DEF OperatorInv, PortInv
  <1>4. Sending /\ ~Sending' /\ PassDue' = PassDue /\ PassInHand' = PassInHand
    BY <1>1, <1>2, KnownTexts DEF Sending, PassDue, Fetching, PassInHand, Comparing
  <1>5. MailInv'
    BY <1>1, <1>2, <1>4, KnownTexts DEF OperatorInv, MailInv, IsKnown
  <1>6. OwedInv'
    BY <1>1, <1>4, HostAssumption DEF OperatorInv, MailInv, OwedInv, Owed, IsKnown
  <1>7. ChanceInv'
    <2>1. /\ sending.id \in 1 .. MaxMessages /\ sending.id <= messages
          /\ messages \in Nat /\ obeyed \in [1 .. MaxMessages -> Nat]
      BY <1>4, HostAssumption DEF OperatorInv, MailInv, ChanceInv
    <2>2. Chances' = Chances /\ Chances \in Nat
      BY <1>1, <1>4 DEF Chances, Once, PassInHand
    <2>3. obeyed' \in [1 .. MaxMessages -> Nat]
      BY <1>1, <2>1
    <2>4. ASSUME NEW id \in 1 .. MaxMessages
          PROVE  /\ id > messages => obeyed'[id] = 0
                 /\ id <= messages => obeyed'[id] + InHand(id)' <= 3
                 /\ id = messages => obeyed'[id] + InHand(id)' + Chances' <= 3
      <3>1. PICK h, g, c, d : /\ h = InHand(id) /\ g = InHand(id)'
                              /\ c = Chances /\ d = Chances'
        BY Zenon
      <3>2. InHand(id)' = 0 /\ InHand(id) = IF sending.id = id THEN 1 ELSE 0
        BY <1>4 DEF InHand, Once
      <3>3. /\ g = 0 /\ h = (IF sending.id = id THEN 1 ELSE 0)
            /\ c \in Nat /\ d = c
        BY <2>2, <3>1, <3>2, Zenon
      <3>4. obeyed'[id] = obeyed[id] + h /\ obeyed[id] \in Nat
        BY <1>1, <2>1, <3>3
      <3>5. /\ id > messages => obeyed[id] = 0
            /\ id <= messages => obeyed[id] + h <= 3
            /\ id = messages => obeyed[id] + h + c <= 3
        BY <3>1, Zenon DEF OperatorInv, ChanceInv
      <3>6. /\ id > messages => obeyed'[id] = 0
            /\ id <= messages => obeyed'[id] + g <= 3
            /\ id = messages => obeyed'[id] + g + d <= 3
        BY <2>1, <3>3, <3>4, <3>5
      <3> QED BY <3>1, <3>6, Zenon
    <2> QED BY <1>1, <2>3, <2>4, Zenon DEF ChanceInv
  <1> QED BY <1>3, <1>5, <1>6, <1>7 DEF OperatorInv

(***************************************************************************)
(* Every step keeps the operator's side, given the sensor's.               *)
(***************************************************************************)
LEMMA OperatorStep ==
    ASSUME SensorInv, OperatorInv, [Next]_hostVars
    PROVE  OperatorInv'
  <1>1. CASE ReceiveReport \/ UNCHANGED hostVars
    <2>1. UNCHANGED <<operatorVars, main, mutex, reader, fieldVars, hp, shown>>
      BY <1>1 DEF ReceiveReport, TtyReceive, hostVars, chickenVars, driverVars,
                  readerVars, fieldVars, mainVars, mailboxVars, operatorVars
    <2>2. MailInv' /\ OwedInv' /\ ChanceInv'
      BY <2>1, SensorWork, Zenon
    <2>3. PortInv'
      BY <2>1 DEF OperatorInv, PortInv, fieldVars
    <2> QED BY <2>2, <2>3 DEF OperatorInv
  <1>2. CASE ReceiveMessage
    BY <1>2, MessageBegun
  <1>3. CASE StoreMessage
    BY <1>3, MessageStored
  <1>4. CASE Read
    BY <1>4, ReadKeepsOperator
  <1>5. CASE Loop
    <2>1. UNCHANGED <<messages, obeyed>>
      BY <1>5, Zenon DEF Loop
    <2> QED BY <1>5, <2>1, ReadingKeepsOperator, MessageTaken, TextCompared,
               PortLocked, Zenon DEF Loop, MainLoop
  <1>6. CASE Write
    BY <1>6, CommandWritten
  <1> QED BY <1>1, <1>2, <1>3, <1>4, <1>5, <1>6, Zenon DEF Next

(***************************************************************************)
(* Both sides of the host hold for every number of reports and messages.   *)
(***************************************************************************)
THEOREM OperatorInvHolds == Spec => []OperatorInv
  <1>1. Init => OperatorInv
    BY InitOperatorInv
  <1>2. SensorInv /\ OperatorInv /\ [Next]_hostVars => OperatorInv'
    BY OperatorStep
  <1> QED BY <1>1, <1>2, SensorInvHolds, PTL DEF Spec

(***************************************************************************)
(* When nothing is pending, the last message received, if it names a       *)
(* command, is the one obeyed last: none is lost by the unlocked mailbox.  *)
(***************************************************************************)
THEOREM LastMessageIsObeyed == Spec => []LastMessageObeyed
  <1>1. OperatorInv => LastMessageObeyed
    BY DEF OperatorInv, MailInv, OwedInv, Owed, PassDue, PassInHand, Fetching, Comparing,
           Sending, LastMessageObeyed, OperatorQuiet, IsKnown
  <1> QED BY <1>1, OperatorInvHolds, PTL

(***************************************************************************)
(* No message is obeyed more than three times, and every variable of the   *)
(* host has its type.                                                      *)
(***************************************************************************)
THEOREM NeverMoreThanThrice == Spec => []ObeyedAtMostThrice
  <1>1. SensorInv /\ OperatorInv => ObeyedAtMostThrice
    <2> SUFFICES ASSUME SensorInv, OperatorInv PROVE ObeyedAtMostThrice
      OBVIOUS
    <2>1. \A id \in 1 .. MaxMessages : obeyed[id] <= 3
      <3> SUFFICES ASSUME NEW id \in 1 .. MaxMessages PROVE obeyed[id] <= 3
        OBVIOUS
      <3>1. PICK h : h = InHand(id)
        BY Zenon
      <3>2. InHand(id) \in Nat
        BY DEF InHand, Once
      <3>3. h \in Nat
        BY <3>1, <3>2, Zenon
      <3>4. id <= messages => obeyed[id] + h <= 3
        BY <3>1, Zenon DEF OperatorInv, ChanceInv
      <3> QED BY <3>3, <3>4, HostAssumption DEF OperatorInv, ChanceInv, MailInv
    <2>2. last + 1 <= MaxReports \/ (reader \notin {"dist1", "position", "flag"}
                                     /\ last <= MaxReports)
      BY HostAssumption, LenProperties DEF SensorInv, QueueInv
    <2>3. mHrPosition \in ReportNumber /\ mDist \in [1 .. 2 -> ReportNumber]
      BY <2>2, HostAssumption DEF SensorInv, QueueInv, FieldInv, Dist0Now, Dist1Now,
                                  PositionNow, ReportNumber
    <2>4. shown \in [pos : ReportNumber, d0 : ReportNumber, d1 : ReportNumber]
      BY <2>3, HostAssumption DEF SensorInv, ShownInv, OperatorInv, PortInv,
                                  ReportNumber
    <2>5. tty \in Seq([d0 : ReportNumber, d1 : ReportNumber, pos : ReportNumber])
      BY DEF SensorInv, QueueInv, Report
    <2>6. mHasNewData \in BOOLEAN /\ mHasNewMessage \in BOOLEAN
      BY Zenon DEF OperatorInv, PortInv, MailInv
    <2>7. /\ mutex \in {"free", "reader", "main"}
          /\ (mutex = "reader") = (reader = "read")
          /\ (mutex = "main") = (main = "write")
      BY DEF OperatorInv, PortInv
    <2>8. reader \in ReaderPlace /\ Len(tty) <= TtySize
      BY DEF SensorInv, QueueInv
    <2>9. compared \in 0 .. Len(KnownText) /\ lastSent.id \in MessageNumber
      BY HostAssumption DEF OperatorInv, MailInv, MessageNumber
    <2>10. TypeOK
      BY <2>3, <2>4, <2>5, <2>6, <2>7, <2>8, <2>9, Zenon DEF TypeOK, ReaderPlace
    <2> QED BY <2>1, <2>10 DEF ObeyedAtMostThrice
  <1> QED BY <1>1, SensorInvHolds, OperatorInvHolds, PTL

=============================================================================
