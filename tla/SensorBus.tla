------------------------------ MODULE SensorBus ------------------------------
(* The drivers on the I2C port: the IMU thread reads accelerometer, gyro    *)
(* and magnetometer (Bmx055Driver, one axis of each, the three axes being   *)
(* alike), another thread reads the converter of the angle vanes            *)
(* (Ads7828Driver).  Every call goes through IicHandler, step by step.      *)
EXTENDS IicHandler

CONSTANTS
    imu, adc,            \* the two threads
    acc, gyro, mag, ads, \* the devices
    lsb, msb,            \* the registers of an axis
    Undefined,           \* a byte of a local variable nothing was stored in
    MaxShifts            \* bound: how often a stale value is followed

ASSUME BusAssumption ==
    /\ Client = {imu, adc} /\ imu # adc
    /\ Device = {acc, gyro, mag, ads}
    /\ Register = {lsb, msb}
    /\ MaxShifts \in Nat \ {0}

VARIABLES
    next,     \* the call of its program each thread makes next
    heard,    \* the bytes its locals hold, call by call
    good,     \* iicOk, and'ed over the calls so far
    raw,      \* Imu: m_rawAccX, m_rawGyroX, mRawMagValue.x
    angle,    \* what readSingleChannel returned last
    sure      \* history: every call so far went to the device it selected

busVars == <<vars, next, heard, good, raw, angle, sure>>

Ask(d, r, k) == [dev |-> d, reg |-> r, kind |-> k]

\* The low byte of the acceleration is asked for first, the high one of the
\* turn rate; the field comes as one word.
ReadAccAxis == <<Ask(acc, lsb, "byte"), Ask(acc, msb, "byte")>>
ReadGyroAxis == <<Ask(gyro, msb, "byte"), Ask(gyro, lsb, "byte")>>
ReadMag == <<Ask(mag, lsb, "wordLE")>>
ReadSingleChannel == <<Ask(ads, lsb, "wordBE")>>

\* The constructor's calls, before the thread is started; what they return
\* is not looked at.
ResetGyro == Ask(gyro, msb, "write")

Program == [c \in Client |-> IF c = imu THEN ReadAccAxis \o ReadGyroAxis \o ReadMag
                                        ELSE ReadSingleChannel]

BusInit ==
    /\ Init
    /\ call = [c \in Client |-> Program[c][1]]
    /\ mBuffer = [k \in 1..2 |-> Number(lsb)]
    /\ pointer = [d \in Device |-> lsb]
    /\ next = [c \in Client |-> IF c = imu THEN 0 ELSE 1]
    /\ heard = [c \in Client |-> <<>>]
    /\ good = [c \in Client |-> TRUE]
    /\ raw = [acc |-> <<>>, gyro |-> <<>>, mag |-> <<>>, shifts |-> 0,
              good |-> TRUE, sure |-> TRUE]
    /\ angle = [word |-> <<>>, sure |-> TRUE]
    /\ sure = [c \in Client |-> TRUE]

Ask1(c) ==
    /\ next[c] <= Len(Program[c])
    /\ LET q == IF next[c] = 0 THEN ResetGyro ELSE Program[c][next[c]]
       IN  Call(c, q.dev, q.reg, q.kind)
    /\ UNCHANGED <<next, heard, good, raw, angle, sure>>

Advance(c) ==
    /\ Lock(c) \/ Select(c) \/ SendRegAddr(c) \/ Read(c) \/ Copy(c)
    /\ UNCHANGED <<next, heard, good, raw, angle, sure>>

\* The call returns: the out parameter is stored only when it succeeded.
Return(c) ==
    /\ Unlock(c)
    /\ IF next[c] = 0
         THEN UNCHANGED <<heard, good, sure>>
         ELSE /\ heard' = [heard EXCEPT ![c] = Append(@, IF iicOk[c] THEN value[c]
                                                                    ELSE <<Undefined>>)]
              /\ good' = [good EXCEPT ![c] = @ /\ iicOk[c]]
              /\ sure' = [sure EXCEPT ![c] = @ /\ selected]
    /\ next' = [next EXCEPT ![c] = @ + 1]
    /\ UNCHANGED <<raw, angle>>

\* The program starts over.
Again(c) ==
    /\ next' = [next EXCEPT ![c] = 1]
    /\ heard' = [heard EXCEPT ![c] = <<>>]
    /\ good' = [good EXCEPT ![c] = TRUE]
    /\ sure' = [sure EXCEPT ![c] = TRUE]
    /\ UNCHANGED vars

\* An error the invariants exclude: the bytes of the turn rate are taken in
\* the order of those of the acceleration.
ReadDataSwapped ==
    LET h == heard[imu] IN
    /\ next[imu] > Len(Program[imu])
    /\ raw' = [acc |-> h[2] \o h[1], gyro |-> h[4] \o h[3], mag |-> h[5],
               shifts |-> 1, good |-> good[imu], sure |-> sure[imu]]
    /\ Again(imu)
    /\ UNCHANGED angle

\* Imu::readData takes the axes whatever readAcc, readGyro and readMag
\* return.  A failed readMag leaves the former field, which is scaled again.
ReadData ==
    LET h == heard[imu] IN
    /\ next[imu] > Len(Program[imu])
    /\ raw' = [acc |-> h[2] \o h[1], gyro |-> h[3] \o h[4],
               mag |-> IF h[5] = <<Undefined>> THEN raw.mag ELSE h[5],
               shifts |-> IF h[5] # <<Undefined>> THEN 1
                          ELSE IF raw.shifts < MaxShifts THEN raw.shifts + 1 ELSE MaxShifts,
               good |-> good[imu], sure |-> sure[imu]]
    /\ Again(imu)
    /\ UNCHANGED angle

\* The value is returned whether it was read or not.
ReturnAngle ==
    /\ next[adc] > Len(Program[adc])
    /\ angle' = [word |-> heard[adc][1], sure |-> sure[adc]]
    /\ Again(adc)
    /\ UNCHANGED raw

BusNext ==
    \/ \E c \in Client : Ask1(c) \/ Advance(c) \/ Return(c)
    \/ ReadData
    \/ ReturnAngle

BusSpec == BusInit /\ [][BusNext]_busVars

-----------------------------------------------------------------------------
Axis(d) == {<<>>} \cup
    {<<h, l>> : h \in {Byte(d, msb, 1), Undefined}, l \in {Byte(d, lsb, 1), Undefined}}

BusTypeOK ==
    /\ TypeOK
    /\ next[imu] \in 0 .. Len(Program[imu]) + 1 /\ next[adc] \in 1 .. 2
    /\ \A c \in Client : Len(heard[c]) = IF next[c] = 0 THEN 0 ELSE next[c] - 1
    /\ good \in [Client -> BOOLEAN]
    /\ raw.shifts \in 0 .. MaxShifts

\* An axis of the accelerometer or the gyro is made of its own high byte and
\* its own low byte, in this order, or of what a failed call left undefined:
\* never of a byte another thread asked for.
AxesFromOwnRegisters == raw.sure => raw.acc \in Axis(acc) /\ raw.gyro \in Axis(gyro)

\* What readAcc, readGyro and readMag report good is whole, and the field was
\* scaled once (bmx055_driver.cpp:163-179).
GoodReadingIsWhole ==
    raw.sure /\ raw.good /\ raw.acc # <<>> =>
        /\ raw.acc = <<Byte(acc, msb, 1), Byte(acc, lsb, 1)>>
        /\ raw.gyro = <<Byte(gyro, msb, 1), Byte(gyro, lsb, 1)>>
        /\ raw.mag = <<Byte(mag, lsb, 2), Byte(mag, lsb, 1)>>
        /\ raw.shifts = 1

\* The converter's word, whenever it was read, is the converter's.
AngleFromConverter ==
    angle.sure =>
        angle.word \in {<<>>, <<Undefined>>, <<Byte(ads, lsb, 1), Byte(ads, lsb, 2)>>}

(***************************************************************************)
(* What the drivers put together from single transfers comes from their    *)
(* own device and registers, however the threads' calls interleave and     *)
(* whichever transfers fail, unless the selection of the device failed:    *)
(* the handler remembers an address before it knows that the file has it,  *)
(* and only then do the two differ.                                        *)
(***************************************************************************)
ReadingsSound ==
    /\ BusTypeOK
    /\ CachedAddressTrue
    /\ AxesFromOwnRegisters
    /\ GoodReadingIsWhole
    /\ AngleFromConverter
=============================================================================
