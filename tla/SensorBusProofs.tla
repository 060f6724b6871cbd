-------------------------- MODULE SensorBusProofs --------------------------
(* The safety of the shared I2C port, for any threads, devices, registers.  *)
(* The inductive invariant says what the holder of the mutex has got so     *)
(* far: the device it selected, the register pointer it set and the bytes   *)
(* of the shared buffer, which no other thread disturbs.                    *)
EXTENDS SensorBus, TLAPS, SequenceTheorems

Holding == {"select", "address", "read", "copy", "unlock"}

OneHolder == \A c \in Client : pc[c] \in Holding => mMutex = c

\* What a holder has, by its place in the call.
Progress(c) ==
    /\ pc[c] \in {"address", "read", "copy"} => mCurrentDeviceAddr = call[c].dev
    /\ pc[c] \in {"read", "copy"} => slave \in Device /\ call[c].kind # "write"
    /\ pc[c] = "read" => pointer[slave] = call[c].reg
    /\ pc[c] = "copy" =>
          /\ mBuffer[1] = Byte(slave, call[c].reg, 1)
          /\ call[c].kind # "byte" => mBuffer[2] = Byte(slave, call[c].reg, 2)
    /\ pc[c] \in {"lock", "select", "address", "read", "copy"} => ~iicOk[c]
    /\ pc[c] = "unlock" /\ iicOk[c] /\ selected => value[c] = Wanted(call[c])

IInv ==
    /\ TypeOK
    /\ CachedAddressTrue
    /\ OneHolder
    /\ \A c \in Client : Progress(c)

USE ConstantsAssumption

LEMMA InitIInv == Init => IInv
<1> SUFFICES ASSUME Init PROVE IInv
  OBVIOUS
<1> USE DEF Init
<1>1. TypeOK
  <2>1. mBuffer \in [1..2 -> Cells]
    BY DEF Number, Cells
  <2> QED
    BY <2>1 DEF TypeOK
<1>2. CachedAddressTrue /\ OneHolder
  BY DEF CachedAddressTrue, OneHolder, Holding
<1>3. \A c \in Client : Progress(c)
  BY DEF Progress
<1> QED
  BY <1>1, <1>2, <1>3 DEF IInv

LEMMA TypeStep == IInv /\ [Next]_vars => TypeOK'
<1> SUFFICES ASSUME IInv, [Next]_vars PROVE TypeOK'
  OBVIOUS
<1> TypeOK
  BY DEF IInv
<1> USE DEF TypeOK
<1>1. ASSUME NEW c \in Client, NEW d \in Device, NEW r \in Register, NEW k \in Kinds,
             Call(c, d, r, k)
      PROVE  TypeOK'
  <2>1. call' \in [Client -> Calls]
    BY <1>1 DEF Call, Calls
  <2> QED
    BY <1>1, <2>1 DEF Call, Goto, bus
<1>2. ASSUME NEW c \in Client, Transfer(c) PROVE TypeOK'
  <2>1. CASE Lock(c)
    BY <2>1 DEF Lock, Goto, bus
  <2>2. CASE Select(c)
    <3>1. call[c].dev \in Device
      BY DEF Calls
    <3>2. /\ mCurrentDeviceAddr' \in {mCurrentDeviceAddr, call[c].dev}
          /\ slave' \in {slave, call[c].dev}
          /\ pc' = [pc EXCEPT ![c] = "address"]
          /\ UNCHANGED <<mMutex, mBuffer, pointer, call, iicOk, value>>
      BY <2>2 DEF Select, Goto
    <3>3. selected' \in {selected, TRUE, FALSE}
      BY <2>2, Zenon DEF Select
    <3>4. selected' \in BOOLEAN
      BY <3>3, Zenon
    <3> QED
      BY <3>1, <3>2, <3>4
  <2>3. CASE SendRegAddr(c)
    <3>1. Number(call[c].reg) \in Cells /\ call[c].reg \in Register
      BY DEF Number, Cells, Calls
    <3>2. slave # NoDevice => Byte(slave, call[c].reg, 1) \in Bytes
      BY <3>1 DEF Byte, Bytes
    <3>3. /\ mBuffer' = [mBuffer EXCEPT ![1] = Number(call[c].reg)]
          /\ pointer' \in {pointer, [pointer EXCEPT ![slave] = call[c].reg]}
          /\ pc' \in {[pc EXCEPT ![c] = "unlock"], [pc EXCEPT ![c] = "read"]}
          /\ UNCHANGED <<mMutex, mCurrentDeviceAddr, slave, call>>
      BY <2>3 DEF SendRegAddr, Goto
    <3>4. /\ iicOk' \in {iicOk, [iicOk EXCEPT ![c] = TRUE]}
          /\ \/ value' = value
             \/ slave # NoDevice /\ value' = [value EXCEPT ![c] = <<Byte(slave, call[c].reg, 1)>>]
      BY <2>3 DEF SendRegAddr
    <3>5. selected' \in {selected}
      BY <2>3, Zenon DEF SendRegAddr
    <3>6. selected' \in BOOLEAN
      BY <3>5, Zenon
    <3>7. value' \in [Client -> {<<>>} \cup [1..1 -> Bytes] \cup [1..2 -> Bytes]]
      BY <3>2, <3>4
    <3> QED
      BY <3>1, <3>3, <3>4, <3>6, <3>7
  <2>4. CASE Read(c)
    <3>1. slave \in Device
      BY <2>4 DEF IInv, Progress, Read
    <3>2. \A k \in 1..2 : Byte(slave, pointer[slave], k) \in Cells
      BY <3>1 DEF Byte, Cells
    <3>3. mBuffer' \in [1..2 -> Cells]
      BY <2>4, <3>2 DEF Read
    <3>4. pc' \in {[pc EXCEPT ![c] = "unlock"], [pc EXCEPT ![c] = "copy"]}
      BY <2>4 DEF Read, Goto
    <3> QED
      BY <2>4, <3>3, <3>4 DEF Read
  <2>5. CASE Copy(c)
    BY <2>5 DEF Copy, Goto, bus, IInv, Progress, Byte, Bytes, Calls, Kinds
  <2>6. CASE Unlock(c)
    BY <2>6 DEF Unlock, Goto, bus
  <2> QED
    BY <1>2, <2>1, <2>2, <2>3, <2>4, <2>5, <2>6 DEF Transfer
<1>3. CASE UNCHANGED vars
  BY <1>3 DEF vars
<1> QED
  BY <1>1, <1>2, <1>3 DEF Next

LEMMA HolderStep == IInv /\ [Next]_vars => OneHolder'
<1> SUFFICES ASSUME IInv, [Next]_vars PROVE OneHolder'
  OBVIOUS
<1> USE DEF OneHolder, Holding
<1> TypeOK /\ OneHolder
  BY DEF IInv
<1> pc \in [Client -> {"idle", "lock", "select", "address", "read", "copy", "unlock"}]
  BY DEF TypeOK
<1>1. ASSUME NEW c \in Client, NEW d \in Device, NEW r \in Register, NEW k \in Kinds,
             Call(c, d, r, k)
      PROVE  OneHolder'
  BY <1>1 DEF Call, Goto
<1>2. ASSUME NEW c \in Client, Transfer(c) PROVE OneHolder'
  <2>1. CASE Lock(c)
    BY <2>1 DEF Lock, Goto
  <2>2. CASE Unlock(c)
    BY <2>2 DEF Unlock, Goto
  <2>3. CASE Select(c) \/ SendRegAddr(c) \/ Read(c) \/ Copy(c)
    <3>1. /\ pc[c] \in Holding /\ mMutex' = mMutex
          /\ \E label \in Holding : pc' = [pc EXCEPT ![c] = label]
      BY <2>3 DEF Select, SendRegAddr, Read, Copy, Goto
    <3> QED
      BY <3>1
  <2> QED
    BY <1>2, <2>1, <2>2, <2>3 DEF Transfer
<1>3. CASE UNCHANGED vars
  BY <1>3 DEF vars
<1> QED
  BY <1>1, <1>2, <1>3 DEF Next

LEMMA CacheStep == IInv /\ [Next]_vars => CachedAddressTrue'
<1> SUFFICES ASSUME IInv, [Next]_vars PROVE CachedAddressTrue'
  OBVIOUS
<1> USE DEF CachedAddressTrue
<1> CachedAddressTrue
  BY DEF IInv
<1>1. ASSUME NEW c \in Client, Select(c) PROVE CachedAddressTrue'
  <2>1. CASE call[c].dev = mCurrentDeviceAddr
    <3>1. UNCHANGED <<slave, mCurrentDeviceAddr>>
      BY <1>1, <2>1 DEF Select
    <3>2. ~selected => ~selected'
      BY <1>1, <2>1, Zenon DEF Select
    <3> QED
      BY <3>1, <3>2
  <2>2. CASE call[c].dev # mCurrentDeviceAddr
    <3>1. slave' = mCurrentDeviceAddr' \/ ~selected'
      BY <1>1, <2>2, Zenon DEF Select
    <3> QED
      BY <3>1
  <2> QED
    BY <2>1, <2>2
<1>2. CASE UNCHANGED <<slave, mCurrentDeviceAddr, selected>>
  <2>1. UNCHANGED <<slave, mCurrentDeviceAddr>>
    BY <1>2
  <2>2. ~selected => ~selected'
    BY <1>2, Zenon
  <2> QED
    BY <2>1, <2>2
<1> QED
  BY <1>1, <1>2 DEF Next, Transfer, vars, bus, Call, Lock, SendRegAddr, Read, Copy, Unlock

(* What a client knows is its own call, and the bus while it has the mutex. *)
LEMMA Undisturbed ==
  ASSUME NEW c \in Client, Progress(c),
         pc'[c] = pc[c], call'[c] = call[c], iicOk'[c] = iicOk[c], value'[c] = value[c],
         pc[c] \in Holding => UNCHANGED bus
  PROVE  Progress(c)'
<1>1. CASE pc[c] \in Holding
  <2>1. UNCHANGED <<mCurrentDeviceAddr, slave, mBuffer, pointer>>
    BY <1>1 DEF bus
  <2>2. selected' => selected
    BY <1>1, Zenon DEF bus
  <2>3. iicOk'[c] => iicOk[c]
    BY Zenon
  <2>4. ~iicOk[c] => ~iicOk'[c]
    BY Zenon
  <2> QED
    BY <2>1, <2>2, <2>3, <2>4 DEF Progress
<1>2. CASE pc[c] \notin Holding
  <2>1. ~iicOk[c] => ~iicOk'[c]
    BY Zenon
  <2> QED
    BY <1>2, <2>1 DEF Progress, Holding
<1> QED
  BY <1>1, <1>2

(* A step of another client: it is not c, so c's own entries stay, and it   *)
(* touches the bus only while it, and so not c, has the mutex.              *)
LEMMA OtherStep ==
  ASSUME IInv, NEW c \in Client, NEW d \in Client, c # d,
         \/ Transfer(d)
         \/ \E e \in Device, r \in Register, k \in Kinds : Call(d, e, r, k)
  PROVE  Progress(c)'
<1> TypeOK /\ OneHolder /\ Progress(c)
  BY DEF IInv
<1>1. pc'[c] = pc[c] /\ call'[c] = call[c] /\ iicOk'[c] = iicOk[c] /\ value'[c] = value[c]
  BY DEF Call, Transfer, Lock, Select, SendRegAddr, Read, Copy, Unlock, Goto, TypeOK
<1>2. CASE pc[d] \in Holding
  <2>1. pc[c] \notin Holding
    BY <1>2 DEF OneHolder
  <2> QED
    BY <1>1, <2>1, Undisturbed
<1>3. CASE pc[d] \notin Holding
  <2>1. UNCHANGED bus
    BY <1>3 DEF Call, Transfer, Lock, Select, SendRegAddr, Read, Copy, Unlock, Holding
  <2> QED
    BY <1>1, <2>1, Undisturbed
<1> QED
  BY <1>2, <1>3

(* A step of the client's own.                                              *)
LEMMA OwnStep ==
  ASSUME IInv, NEW c \in Client, Transfer(c)
  PROVE  Progress(c)'
<1> TypeOK /\ CachedAddressTrue /\ Progress(c)
  BY DEF IInv
<1> USE DEF TypeOK
<1>1. CASE Lock(c)
  BY <1>1 DEF Lock, Goto, Progress, bus
<1>2. CASE Select(c)
  <2>1. pc'[c] = "address" /\ mCurrentDeviceAddr' = call'[c].dev /\ iicOk' = iicOk
    BY <1>2 DEF Select, Goto
  <2>2. ~iicOk[c]
    BY <1>2, Zenon DEF Select, Progress
  <2> QED
    BY <2>1, <2>2 DEF Progress
<1>3. CASE SendRegAddr(c)
  <2>1. ~iicOk[c]
    BY <1>3, Zenon DEF SendRegAddr, Progress
  <2>2. mCurrentDeviceAddr' = call'[c].dev /\ slave' = slave /\ call' = call
    BY <1>3 DEF SendRegAddr, Progress
  <2>3. CASE slave # NoDevice /\ call[c].kind = "write" /\ pc'[c] = "unlock"
             /\ value' = [value EXCEPT ![c] = <<Byte(slave, call[c].reg, 1)>>]
    <3>1. selected' => slave = mCurrentDeviceAddr
      BY <1>3, Zenon DEF SendRegAddr, CachedAddressTrue
    <3>2. value'[c] = <<Byte(slave, call[c].reg, 1)>>
      BY <2>3
    <3>3. mCurrentDeviceAddr = call[c].dev
      BY <1>3 DEF SendRegAddr, Progress
    <3>4. selected' => value'[c] = Wanted(call'[c])
      BY <2>2, <2>3, <3>1, <3>2, <3>3 DEF Wanted
    <3> QED
      BY <2>3, <3>4 DEF Progress
  <2>4. CASE /\ slave # NoDevice /\ call[c].kind # "write" /\ pc'[c] = "read"
             /\ pointer' = [pointer EXCEPT ![slave] = call[c].reg] /\ iicOk' = iicOk
    <3>1. pointer'[slave'] = call'[c].reg /\ slave' \in Device
      BY <2>2, <2>4
    <3> QED
      BY <2>1, <2>2, <2>4, <3>1 DEF Progress
  <2>5. CASE pc'[c] = "unlock" /\ iicOk' = iicOk
    <3>1. ~iicOk'[c]
      BY <2>1, <2>5
    <3> QED
      BY <2>5, <3>1 DEF Progress
  <2> QED
    BY <1>3, <2>3, <2>4, <2>5 DEF SendRegAddr, Goto
<1>4. CASE Read(c)
  <2>1. ~iicOk'[c]
    BY <1>4, Zenon DEF Read, Progress
  <2>2. /\ pc'[c] \in {"copy", "unlock"}
        /\ UNCHANGED <<mCurrentDeviceAddr, slave, call, pointer>>
        /\ mCurrentDeviceAddr = call[c].dev /\ slave \in Device /\ call[c].kind # "write"
        /\ pointer[slave] = call[c].reg
    BY <1>4 DEF Read, Goto, Progress
  <2>3. pc'[c] = "copy" => /\ mBuffer'[1] = Byte(slave, pointer[slave], 1)
                           /\ call[c].kind # "byte" =>
                                 mBuffer'[2] = Byte(slave, pointer[slave], 2)
    BY <1>4 DEF Read, Goto
  <2> QED
    BY <2>1, <2>2, <2>3 DEF Progress
<1>5. CASE Copy(c)
  <2>1. pc'[c] = "unlock" /\ call' = call
    BY <1>5 DEF Copy, Goto
  <2>2. selected' => slave = call[c].dev
    <3>1. selected' => slave = mCurrentDeviceAddr
      BY <1>5, Zenon DEF Copy, bus, CachedAddressTrue
    <3>2. mCurrentDeviceAddr = call[c].dev
      BY <1>5 DEF Copy, Progress
    <3> QED
      BY <3>1, <3>2
  <2>3. value'[c] = CASE call[c].kind = "byte"   -> <<mBuffer[1]>>
                      [] call[c].kind = "wordBE" -> <<mBuffer[1], mBuffer[2]>>
                      [] call[c].kind = "wordLE" -> <<mBuffer[2], mBuffer[1]>>
    BY <1>5 DEF Copy
  <2>4. /\ mBuffer[1] = Byte(slave, call[c].reg, 1)
        /\ call[c].kind # "byte" => mBuffer[2] = Byte(slave, call[c].reg, 2)
        /\ call[c].kind \in {"byte", "wordBE", "wordLE"}
    BY <1>5 DEF Copy, Progress, Calls, Kinds
  <2>5. slave = call[c].dev => value'[c] = Wanted(call[c])
    BY <2>3, <2>4 DEF Wanted
  <2> QED
    BY <2>1, <2>2, <2>5 DEF Progress
<1>6. CASE Unlock(c)
  BY <1>6 DEF Unlock, Goto, Progress
<1> QED
  BY <1>1, <1>2, <1>3, <1>4, <1>5, <1>6 DEF Transfer

LEMMA ProgressStep == IInv /\ [Next]_vars => \A c \in Client : Progress(c)'
<1> SUFFICES ASSUME IInv, [Next]_vars, NEW c \in Client PROVE Progress(c)'
  OBVIOUS
<1>1. ASSUME NEW d \in Device, NEW r \in Register, NEW k \in Kinds, Call(c, d, r, k)
      PROVE  Progress(c)'
  <2>1. pc'[c] = "lock" /\ iicOk'[c] = FALSE
    BY <1>1 DEF Call, Goto, IInv, TypeOK
  <2> QED
    BY <2>1 DEF Progress
<1>2. CASE Transfer(c)
  BY <1>2, OwnStep
<1>3. ASSUME NEW d \in Client, d # c,
             \/ Transfer(d)
             \/ \E e \in Device, r \in Register, k \in Kinds : Call(d, e, r, k)
      PROVE  Progress(c)'
  BY <1>3, OtherStep
<1>4. CASE UNCHANGED vars
  <2>1. UNCHANGED <<pc, call, iicOk, value, bus>>
    BY <1>4 DEF vars, bus
  <2> QED
    BY <2>1, Undisturbed DEF IInv
<1> QED
  BY <1>1, <1>2, <1>3, <1>4 DEF Next

(* The holder of the lock is where its call says, for any number of threads *)
(* (iic_handler.cpp 16-174).                                                *)
THEOREM Invariance == Spec => []IInv
<1>1. IInv /\ [Next]_vars => IInv'
  BY TypeStep, CacheStep, HolderStep, ProgressStep DEF IInv
<1> QED
  BY InitIInv, <1>1, PTL DEF Spec

-----------------------------------------------------------------------------
(* The values of the handler's and the callers' variables                   *)
(* (iic_handler.cpp 16-174).                                                *)
THEOREM TypeCorrect == Spec => []TypeOK
<1>1. IInv => TypeOK
  BY DEF IInv
<1> QED
  BY Invariance, <1>1, PTL

(* The remembered address is wrong only after an ioctl that failed, for any *)
(* number of threads and devices (iic_handler.cpp 46-50).                   *)
THEOREM AddressIsTrue == Spec => []CachedAddressTrue
<1>1. IInv => CachedAddressTrue
  BY DEF IInv
<1> QED
  BY Invariance, <1>1, PTL

(* A call that reports success moved the bytes of its own device and        *)
(* register, whatever other threads call meanwhile (iic_handler.cpp 95-174).*)
THEOREM CallsAreExact == Spec => []GoodCallMovedItsRegister
<1>1. IInv => GoodCallMovedItsRegister
  BY DEF IInv, Progress, GoodCallMovedItsRegister
<1> QED
  BY Invariance, <1>1, PTL

-----------------------------------------------------------------------------
(* The drivers on the port.  A step of theirs is a step of the handler or   *)
(* leaves it alone, so its invariant holds under them; beside it, what each *)
(* thread has heard so far is what it asked for, or undefined (Hearing),    *)
(* and so is what the readings are made of.                                 *)

\* What a call leaves in the caller's variable when all went well.
Due(c, i) == Wanted(Program[c][i])

Words == {<<>>, <<Undefined>>} \cup [1..1 -> Bytes] \cup [1..2 -> Bytes]

Hearing(c) ==
    /\ next[c] \in (IF c = imu THEN 0 ELSE 1) .. Len(Program[c]) + 1
    /\ heard[c] \in Seq(Words)
    /\ Len(heard[c]) = IF next[c] = 0 THEN 0 ELSE next[c] - 1
    /\ pc[c] # "idle" => /\ next[c] <= Len(Program[c])
                         /\ next[c] > 0 => call[c] = Program[c][next[c]]
    /\ sure[c] => \A i \in 1 .. Len(heard[c]) : heard[c][i] \in {Due(c, i), <<Undefined>>}
    /\ sure[c] /\ good[c] => \A i \in 1 .. Len(heard[c]) : heard[c][i] = Due(c, i)

Threads ==
    /\ next \in [Client -> Nat] /\ DOMAIN heard = Client
    /\ good \in [Client -> BOOLEAN] /\ sure \in [Client -> BOOLEAN]
    /\ raw.shifts \in 0 .. MaxShifts

BusInv ==
    /\ IInv
    /\ Threads
    /\ \A c \in Client : Hearing(c)
    /\ AxesFromOwnRegisters /\ GoodReadingIsWhole /\ AngleFromConverter

LEMMA Programs ==
    /\ Len(Program[imu]) = 5 /\ Len(Program[adc]) = 1
    /\ Program[imu][1] = Ask(acc, lsb, "byte") /\ Program[imu][2] = Ask(acc, msb, "byte")
    /\ Program[imu][3] = Ask(gyro, msb, "byte") /\ Program[imu][4] = Ask(gyro, lsb, "byte")
    /\ Program[imu][5] = Ask(mag, lsb, "wordLE")
    /\ Program[adc][1] = Ask(ads, lsb, "wordBE")
<1> DEFINE A == ReadAccAxis  G == ReadGyroAxis  M == ReadMag
           S == {Ask(d, r, k) : d \in Device, r \in Register, k \in Kinds}
<1>1. /\ Program[imu] = (A \o G) \o M /\ Program[adc] = ReadSingleChannel
  BY BusAssumption DEF Program
<1>2. /\ A \in Seq(S) /\ Len(A) = 2 /\ A[1] = Ask(acc, lsb, "byte") /\ A[2] = Ask(acc, msb, "byte")
      /\ G \in Seq(S) /\ Len(G) = 2 /\ G[1] = Ask(gyro, msb, "byte") /\ G[2] = Ask(gyro, lsb, "byte")
      /\ M \in Seq(S) /\ Len(M) = 1 /\ M[1] = Ask(mag, lsb, "wordLE")
  BY BusAssumption DEF ReadAccAxis, ReadGyroAxis, ReadMag, Kinds
<1>3. /\ A \o G \in Seq(S) /\ Len(A \o G) = 4
      /\ (A \o G)[1] = A[1] /\ (A \o G)[2] = A[2] /\ (A \o G)[3] = G[1] /\ (A \o G)[4] = G[2]
  <2> HIDE DEF A, G, S
  <2> QED BY <1>2, ConcatProperties
<1>4. /\ Len((A \o G) \o M) = 5
      /\ \A i \in 1 .. 4 : ((A \o G) \o M)[i] = (A \o G)[i]
      /\ ((A \o G) \o M)[5] = M[1]
  <2> HIDE DEF A, G, S, M
  <2>1. PICK B : B = A \o G
    OBVIOUS
  <2> QED BY <1>2, <1>3, <2>1, ConcatProperties
<1> QED BY <1>1, <1>2, <1>3, <1>4 DEF ReadSingleChannel

LEMMA DueValues ==
    /\ Due(imu, 1) = <<Byte(acc, lsb, 1)>> /\ Due(imu, 2) = <<Byte(acc, msb, 1)>>
    /\ Due(imu, 3) = <<Byte(gyro, msb, 1)>> /\ Due(imu, 4) = <<Byte(gyro, lsb, 1)>>
    /\ Due(imu, 5) = <<Byte(mag, lsb, 2), Byte(mag, lsb, 1)>>
    /\ Due(adc, 1) = <<Byte(ads, lsb, 1), Byte(ads, lsb, 2)>>
<1>1. \A d, r : /\ Wanted(Ask(d, r, "byte")) = <<Byte(d, r, 1)>>
                /\ Wanted(Ask(d, r, "wordLE")) = <<Byte(d, r, 2), Byte(d, r, 1)>>
                /\ Wanted(Ask(d, r, "wordBE")) = <<Byte(d, r, 1), Byte(d, r, 2)>>
  <2> TAKE d, r
  <2> DEFINE b == Ask(d, r, "byte")  l == Ask(d, r, "wordLE")  w == Ask(d, r, "wordBE")
  <2>1. /\ b.dev = d /\ b.reg = r /\ b.kind = "byte"
        /\ l.dev = d /\ l.reg = r /\ l.kind = "wordLE"
        /\ w.dev = d /\ w.reg = r /\ w.kind = "wordBE"
    BY DEF Ask
  <2> QED BY <2>1 DEF Wanted
<1> QED BY <1>1, Programs DEF Due

LEMMA InitBusInv == BusInit => BusInv
<1> SUFFICES ASSUME BusInit PROVE BusInv
  OBVIOUS
<1>1. IInv
  BY InitIInv DEF BusInit
<1>2. /\ next = [c \in Client |-> IF c = imu THEN 0 ELSE 1]
      /\ heard = [c \in Client |-> <<>>]
      /\ pc = [c \in Client |-> "idle"]
      /\ raw.acc = <<>> /\ raw.gyro = <<>> /\ raw.shifts = 0 /\ angle.word = <<>>
  BY DEF BusInit, Init
<1>3. good \in [Client -> BOOLEAN] /\ sure \in [Client -> BOOLEAN]
  BY DEF BusInit
<1>4. Threads
  <2>1. next \in [Client -> Nat] /\ DOMAIN heard = Client /\ raw.shifts \in 0 .. MaxShifts
    BY <1>2, BusAssumption
  <2> QED BY <1>3, <2>1, Zenon DEF Threads
<1>5. ASSUME NEW c \in Client PROVE Hearing(c)
  <2>1. heard[c] \in Seq(Words) /\ Len(heard[c]) = 0 /\ pc[c] = "idle"
    BY <1>2, EmptySeq
  <2>2. /\ next[c] \in (IF c = imu THEN 0 ELSE 1) .. Len(Program[c]) + 1
        /\ Len(heard[c]) = IF next[c] = 0 THEN 0 ELSE next[c] - 1
    BY <1>2, <2>1, Programs, BusAssumption
  <2> QED BY <2>1, <2>2 DEF Hearing
<1>6. AxesFromOwnRegisters /\ GoodReadingIsWhole /\ AngleFromConverter
  BY <1>2 DEF AxesFromOwnRegisters, GoodReadingIsWhole, AngleFromConverter, Axis
<1> QED
  BY <1>1, <1>4, <1>5, <1>6 DEF BusInv

\* Every call of the programs is one of a device, a register and a kind.
LEMMA AskIsCall ==
  ASSUME NEW c \in Client, next[c] \in Nat, next[c] <= Len(Program[c])
  PROVE  (IF next[c] = 0 THEN ResetGyro ELSE Program[c][next[c]]) \in Calls
<1>1. \A d \in Device, r \in Register, k \in Kinds : Ask(d, r, k) \in Calls
  BY DEF Ask, Calls
<1>2. ResetGyro \in Calls
  BY <1>1, BusAssumption DEF ResetGyro, Kinds
<1>3. CASE c = imu /\ next[c] > 0
  <2>1. Program[c][next[c]] \in Calls
    BY <1>1, <1>3, Programs, BusAssumption DEF Kinds
  <2> QED BY <1>3, <2>1
<1>4. CASE c = adc /\ next[c] > 0
  <2>1. Program[c][next[c]] \in Calls
    BY <1>1, <1>4, Programs, BusAssumption DEF Kinds
  <2> QED BY <1>4, <2>1
<1> QED BY <1>2, <1>3, <1>4, BusAssumption

LEMMA BusStepIsAStep ==
  ASSUME BusInv, [BusNext]_busVars
  PROVE  [Next]_vars
<1>1. ASSUME NEW c \in Client, Ask1(c) PROVE Next
  <2> DEFINE q == IF next[c] = 0 THEN ResetGyro ELSE Program[c][next[c]]
  <2>1. q \in Calls
    BY <1>1, AskIsCall DEF Ask1, BusInv, Threads
  <2>2. q.dev \in Device /\ q.reg \in Register /\ q.kind \in Kinds
    BY <2>1 DEF Calls
  <2>3. Call(c, q.dev, q.reg, q.kind)
    BY <1>1 DEF Ask1
  <2> QED BY <2>2, <2>3, Zenon DEF Next
<1>2. ASSUME NEW c \in Client, Advance(c) \/ Return(c) PROVE Next
  BY <1>2, Zenon DEF Advance, Return, Transfer, Next
<1>3. CASE ReadData \/ ReturnAngle
  BY <1>3, Zenon DEF ReadData, ReturnAngle, Again
<1>4. CASE UNCHANGED busVars
  BY <1>4, Zenon DEF busVars
<1> QED
  BY <1>1, <1>2, <1>3, <1>4, Zenon DEF BusNext

(* The thread that does not move hears nothing.                             *)
LEMMA OtherHearing ==
  ASSUME NEW c \in Client, Hearing(c), next'[c] = next[c], heard'[c] = heard[c],
         pc'[c] = pc[c], call'[c] = call[c], good'[c] = good[c], sure'[c] = sure[c]
  PROVE  Hearing(c)'
<1>1. /\ sure'[c] => \A i \in 1 .. Len(heard[c]) : heard[c][i] \in {Due(c, i), <<Undefined>>}
      /\ sure'[c] /\ good'[c] => \A i \in 1 .. Len(heard[c]) : heard[c][i] = Due(c, i)
  BY Zenon DEF Hearing
<1> QED
  BY <1>1 DEF Hearing, Due

(* A step inside a call.                                                    *)
LEMMA AskHearing ==
  ASSUME BusInv, NEW c \in Client, Ask1(c) \/ Advance(c), NEW d \in Client
  PROVE  Hearing(d)'
<1>1. /\ UNCHANGED <<next, heard, good, sure>>
      /\ pc \in [Client -> {"idle", "lock", "select", "address", "read", "copy", "unlock"}]
      /\ call \in [Client -> Calls]
      /\ Hearing(d) /\ Hearing(c)
  BY DEF Ask1, Advance, BusInv, IInv, TypeOK
<1>2. CASE d # c
  <2>1. pc'[d] = pc[d] /\ call'[d] = call[d]
    BY <1>1, <1>2 DEF Ask1, Advance, Call, Lock, Select, SendRegAddr, Read, Copy, Goto
  <2> QED BY <1>1, <2>1, OtherHearing
<1>3. CASE d = c
  <2>1. /\ sure'[c] => \A i \in 1 .. Len(heard[c]) : heard[c][i] \in {Due(c, i), <<Undefined>>}
        /\ sure'[c] /\ good'[c] => \A i \in 1 .. Len(heard[c]) : heard[c][i] = Due(c, i)
    BY <1>1, Zenon DEF Hearing
  <2>2. /\ next[c] <= Len(Program[c])
        /\ next[c] > 0 => call'[c] = Program[c][next[c]]
    <3>1. CASE Ask1(c)
      <4> DEFINE q == IF next[c] = 0 THEN ResetGyro ELSE Program[c][next[c]]
      <4>1. q \in Calls /\ next[c] <= Len(Program[c])
        BY <3>1, AskIsCall DEF Ask1, BusInv, Threads
      <4>2. [dev |-> q.dev, reg |-> q.reg, kind |-> q.kind] = q
        BY <4>1 DEF Calls
      <4>3. call' = [call EXCEPT ![c] = q]
        BY <3>1, <4>2 DEF Ask1, Call
      <4> QED BY <1>1, <4>1, <4>3
    <3>2. CASE Advance(c)
      <4>1. pc[c] # "idle" /\ call' = call
        BY <3>2 DEF Advance, Lock, Select, SendRegAddr, Read, Copy
      <4> QED BY <1>1, <4>1 DEF Hearing
    <3> QED BY <3>1, <3>2
  <2> QED BY <1>1, <1>3, <2>1, <2>2 DEF Hearing, Due
<1> QED BY <1>2, <1>3

(* A call that returns: what it leaves is what was asked for, or undefined. *)
LEMMA ReturnHearing ==
  ASSUME BusInv, NEW c \in Client, Return(c), NEW d \in Client
  PROVE  Hearing(d)'
<1> Threads /\ Hearing(c) /\ Hearing(d) /\ TypeOK /\ Progress(c)
  BY DEF BusInv, IInv
<1>1. /\ pc[c] = "unlock" /\ pc' = [pc EXCEPT ![c] = "idle"] /\ call' = call
      /\ next' = [next EXCEPT ![c] = @ + 1]
      /\ pc \in [Client -> {"idle", "lock", "select", "address", "read", "copy", "unlock"}]
      /\ next \in [Client -> Nat] /\ DOMAIN heard = Client
      /\ next[c] <= Len(Program[c]) /\ Len(Program[c]) \in Nat
  BY Programs, BusAssumption DEF Return, Unlock, Goto, TypeOK, Threads, Hearing
<1> DEFINE w == IF iicOk[c] THEN value[c] ELSE <<Undefined>>
<1>2. CASE d # c
  <2>1. /\ next'[d] = next[d] /\ pc'[d] = pc[d] /\ call'[d] = call[d]
    BY <1>1, <1>2
  <2>2. heard'[d] = heard[d]
    BY <1>1, <1>2 DEF Return
  <2>3. good'[d] = good[d]
    <3>1. good' = good \/ \E x : good' = [good EXCEPT ![c] = x]
      BY Zenon DEF Return
    <3> QED BY <1>2, <3>1, Zenon DEF Threads
  <2>4. sure'[d] = sure[d]
    <3>1. sure' = sure \/ \E x : sure' = [sure EXCEPT ![c] = x]
      BY Zenon DEF Return
    <3> QED BY <1>2, <3>1, Zenon DEF Threads
  <2> QED BY <2>1, <2>2, <2>3, <2>4, OtherHearing
<1>3. CASE d = c /\ next[c] = 0
  <2>1. UNCHANGED <<heard, good, sure>>
    BY <1>3 DEF Return
  <2>2. /\ heard'[c] = heard[c] /\ Len(heard[c]) = 0 /\ next'[c] = 1 /\ pc'[c] = "idle"
    BY <1>1, <1>3, <2>1 DEF Hearing
  <2> QED BY <1>1, <1>3, <2>2 DEF Hearing
<1>4. CASE d = c /\ next[c] > 0
  <2>1. /\ heard' = [heard EXCEPT ![c] = Append(@, w)]
        /\ good' = [good EXCEPT ![c] = @ /\ iicOk[c]]
        /\ sure' = [sure EXCEPT ![c] = @ /\ selected]
    BY <1>4 DEF Return
  <2>2. w \in Words
    BY DEF Words, TypeOK
  <2> DEFINE n == Len(heard[c])
  <2>3. n \in Nat /\ n + 1 = next[c] /\ heard[c] \in Seq(Words)
    BY <1>1, <1>4 DEF Hearing
  <2>4. heard'[c] = Append(heard[c], w)
    BY <1>1, <2>1
  <2>5. /\ heard'[c] \in Seq(Words) /\ Len(heard'[c]) = n + 1
        /\ \A i \in 1 .. n : heard'[c][i] = heard[c][i]
        /\ heard'[c][n + 1] = w
    BY <2>2, <2>3, <2>4, AppendProperties
  <2>6. (sure'[c] => sure[c] /\ selected) /\ (good'[c] => good[c] /\ iicOk[c])
    BY <2>1, Zenon DEF Threads
  <2>7. selected => w \in {Due(c, n + 1), <<Undefined>>}
    BY <1>1, <1>4, <2>3 DEF Progress, Hearing, Due
  <2>8. selected /\ iicOk[c] => w = Due(c, n + 1)
    BY <1>1, <1>4, <2>3 DEF Progress, Hearing, Due
  <2>9. sure'[c] => \A i \in 1 .. n + 1 : heard'[c][i] \in {Due(c, i), <<Undefined>>}
    <3> SUFFICES ASSUME sure'[c], NEW i \in 1 .. n + 1
                 PROVE  heard'[c][i] \in {Due(c, i), <<Undefined>>}
      OBVIOUS
    <3>1. sure[c] /\ selected
      BY <2>6, Zenon
    <3>2. i \in 1 .. n => heard[c][i] \in {Due(c, i), <<Undefined>>}
      BY <3>1, Zenon DEF Hearing
    <3>3. i = n + 1 => heard'[c][i] \in {Due(c, i), <<Undefined>>}
      BY <2>5, <2>7, <3>1
    <3> QED BY <2>3, <2>5, <3>2, <3>3
  <2>10. sure'[c] /\ good'[c] => \A i \in 1 .. n + 1 : heard'[c][i] = Due(c, i)
    <3> SUFFICES ASSUME sure'[c], good'[c], NEW i \in 1 .. n + 1
                 PROVE  heard'[c][i] = Due(c, i)
      OBVIOUS
    <3>1. sure[c] /\ selected /\ good[c] /\ iicOk[c]
      BY <2>6, Zenon
    <3>2. i \in 1 .. n => heard[c][i] = Due(c, i)
      BY <3>1, Zenon DEF Hearing
    <3>3. i = n + 1 => heard'[c][i] = Due(c, i)
      BY <2>5, <2>8, <3>1
    <3> QED BY <2>3, <2>5, <3>2, <3>3
  <2>11. next'[c] = next[c] + 1 /\ pc'[c] = "idle"
    BY <1>1
  <2>12. \A i : Due(c, i)' = Due(c, i)
    BY DEF Due
  <2> HIDE DEF n, w
  <2> QED BY <1>1, <1>4, <2>3, <2>5, <2>9, <2>10, <2>11, <2>12 DEF Hearing
<1> QED BY <1>1, <1>2, <1>3, <1>4

(* The program starts over.                                                 *)
LEMMA AgainHearing ==
  ASSUME BusInv, NEW c \in Client, Again(c), next[c] > Len(Program[c]), NEW d \in Client
  PROVE  Hearing(d)'
<1> Threads /\ Hearing(c) /\ Hearing(d)
  BY DEF BusInv
<1>1. /\ next' = [next EXCEPT ![c] = 1] /\ heard' = [heard EXCEPT ![c] = <<>>]
      /\ pc' = pc /\ call' = call
      /\ next \in [Client -> Nat] /\ DOMAIN heard = Client
  BY DEF Again, vars, Threads
<1>2. CASE d # c
  <2>1. /\ next'[d] = next[d] /\ pc'[d] = pc[d] /\ call'[d] = call[d]
        /\ heard'[d] = heard[d]
    BY <1>1, <1>2
  <2>2. good'[d] = good[d] /\ sure'[d] = sure[d]
    BY <1>2 DEF Again
  <2> QED BY <2>1, <2>2, OtherHearing
<1>3. CASE d = c
  <2>1. heard'[c] = <<>> /\ next'[c] = 1 /\ pc'[c] = pc[c]
    BY <1>1
  <2>2. pc[c] = "idle"
    BY Programs, BusAssumption DEF Hearing, Threads
  <2>3. heard'[c] \in Seq(Words) /\ Len(heard'[c]) = 0
    BY <2>1, EmptySeq
  <2>4. Len(Program[c]) \in Nat
    BY Programs, BusAssumption
  <2> QED BY <1>3, <2>1, <2>2, <2>3, <2>4 DEF Hearing
<1> QED BY <1>2, <1>3

LEMMA ThreadsStep == BusInv /\ [BusNext]_busVars => Threads'
<1> SUFFICES ASSUME BusInv, [BusNext]_busVars PROVE Threads'
  OBVIOUS
<1> Threads
  BY DEF BusInv
<1>1. next' \in [Client -> Nat] /\ DOMAIN heard' = Client
  <2>1. ASSUME NEW c \in Client, Return(c) PROVE next' \in [Client -> Nat] /\ DOMAIN heard' = Client
    <3>1. heard' = heard \/ \E h : heard' = [heard EXCEPT ![c] = h]
      BY <2>1, Zenon DEF Return
    <3>2. next' = [next EXCEPT ![c] = @ + 1]
      BY <2>1 DEF Return
    <3> QED BY <3>1, <3>2 DEF Threads
  <2>2. ASSUME NEW c \in Client, Again(c) PROVE next' \in [Client -> Nat] /\ DOMAIN heard' = Client
    BY <2>2 DEF Again, Threads
  <2>3. CASE UNCHANGED <<next, heard>>
    BY <2>3 DEF Threads
  <2> QED
    BY <2>1, <2>2, <2>3, BusAssumption, Zenon
       DEF BusNext, busVars, Ask1, Advance, ReadData, ReturnAngle
<1>4. raw'.shifts \in 0 .. MaxShifts
  <2>1. CASE ReadData
    <3>1. raw'.shifts \in {1, raw.shifts, raw.shifts + 1, MaxShifts} /\ raw'.shifts <= MaxShifts
      BY <2>1, BusAssumption DEF ReadData, Threads
    <3> QED BY <3>1, BusAssumption DEF Threads
  <2>2. CASE raw' = raw
    BY <2>2 DEF Threads
  <2> QED BY <2>1, <2>2, Zenon DEF BusNext, busVars, Ask1, Advance, Return, ReturnAngle
<1>2. good' \in [Client -> BOOLEAN]
  BY Zenon DEF Threads, BusNext, busVars, Ask1, Advance, Return, ReadData, ReturnAngle, Again, BusInv, IInv, TypeOK
<1>3. sure' \in [Client -> BOOLEAN]
  BY Zenon DEF Threads, BusNext, busVars, Ask1, Advance, Return, ReadData, ReturnAngle, Again, BusInv, IInv, TypeOK
<1> QED BY <1>1, <1>2, <1>3, <1>4, Zenon DEF Threads

LEMMA Pairs == \A a, b : <<a>> \o <<b>> = <<a, b>>
<1> TAKE a, b
<1> DEFINE S == {a, b}
<1>1. <<a>> \in Seq(S) /\ <<b>> \in Seq(S) /\ <<a, b>> \in Seq(S)
  OBVIOUS
<1>2. PICK x, y, p : x = <<a>> /\ y = <<b>> /\ p = <<a, b>>
  OBVIOUS
<1>3. /\ x \in Seq(S) /\ Len(x) = 1 /\ x[1] = a
      /\ y \in Seq(S) /\ Len(y) = 1 /\ y[1] = b
      /\ p \in Seq(S) /\ Len(p) = 2 /\ p[1] = a /\ p[2] = b
  BY <1>1, <1>2
<1>4. PICK s : s = x \o y
  OBVIOUS
<1> HIDE DEF S
<1>5. s \in Seq(S) /\ Len(s) = 2 /\ s[1] = a /\ s[2] = b
  BY <1>3, <1>4, ConcatProperties
<1>6. s = p
  BY <1>3, <1>5, SeqEqual
<1> QED BY <1>2, <1>4, <1>6

\* What readData finds in its locals.
LEMMA HeardByImu ==
  ASSUME BusInv, next[imu] > Len(Program[imu]), sure[imu]
  PROVE  /\ \A i \in 1 .. 5 : heard[imu][i] \in {Due(imu, i), <<Undefined>>}
         /\ good[imu] => \A i \in 1 .. 5 : heard[imu][i] = Due(imu, i)
<1>1. Hearing(imu) /\ imu \in Client
  BY BusAssumption DEF BusInv
<1>2. Len(heard[imu]) = 5
  BY <1>1, Programs DEF Hearing
<1> QED BY <1>1, <1>2, Zenon DEF Hearing

LEMMA RawStep ==
  BusInv /\ [BusNext]_busVars => AxesFromOwnRegisters' /\ GoodReadingIsWhole'
<1> SUFFICES ASSUME BusInv, [BusNext]_busVars
             PROVE  AxesFromOwnRegisters' /\ GoodReadingIsWhole'
  OBVIOUS
<1>1. CASE ReadData
  <2> DEFINE h == heard[imu]
  <2>1. /\ raw'.acc = h[2] \o h[1] /\ raw'.gyro = h[3] \o h[4]
        /\ h[5] # <<Undefined>> => raw'.mag = h[5] /\ raw'.shifts = 1
        /\ next[imu] > Len(Program[imu])
    BY <1>1 DEF ReadData
  <2>2. raw'.sure => sure[imu]
    BY <1>1, Zenon DEF ReadData
  <2>3. raw'.good => good[imu]
    BY <1>1, Zenon DEF ReadData
  <2>4. AxesFromOwnRegisters'
    <3> SUFFICES ASSUME raw'.sure
                 PROVE  raw'.acc \in Axis(acc) /\ raw'.gyro \in Axis(gyro)
      BY DEF AxesFromOwnRegisters, Axis
    <3>1. \A i \in 1 .. 5 : h[i] \in {Due(imu, i), <<Undefined>>}
      BY <2>1, <2>2, HeardByImu
    <3>2. /\ h[1] \in {<<Byte(acc, lsb, 1)>>, <<Undefined>>}
          /\ h[2] \in {<<Byte(acc, msb, 1)>>, <<Undefined>>}
          /\ h[3] \in {<<Byte(gyro, msb, 1)>>, <<Undefined>>}
          /\ h[4] \in {<<Byte(gyro, lsb, 1)>>, <<Undefined>>}
      BY <3>1, DueValues
    <3>3. /\ \E a \in {Byte(acc, msb, 1), Undefined}, b \in {Byte(acc, lsb, 1), Undefined} :
                raw'.acc = <<a>> \o <<b>>
          /\ \E a \in {Byte(gyro, msb, 1), Undefined}, b \in {Byte(gyro, lsb, 1), Undefined} :
                raw'.gyro = <<a>> \o <<b>>
      BY <2>1, <3>2, Zenon
    <3>4. raw'.acc \in Axis(acc) /\ raw'.gyro \in Axis(gyro)
      <4>1. PICK A, G : A = raw'.acc /\ G = raw'.gyro
        OBVIOUS
      <4>2. A \in Axis(acc)
        <5>1. PICK a \in {Byte(acc, msb, 1), Undefined}, b \in {Byte(acc, lsb, 1), Undefined} :
                 A = <<a>> \o <<b>>
          BY <3>3, <4>1, Zenon
        <5>2. A = <<a, b>>
          BY <5>1, Pairs, Zenon
        <5> QED BY <5>2 DEF Axis
      <4>3. G \in Axis(gyro)
        <5>1. PICK a \in {Byte(gyro, msb, 1), Undefined}, b \in {Byte(gyro, lsb, 1), Undefined} :
                 G = <<a>> \o <<b>>
          BY <3>3, <4>1, Zenon
        <5>2. G = <<a, b>>
          BY <5>1, Pairs, Zenon
        <5> QED BY <5>2 DEF Axis
      <4> QED BY <4>1, <4>2, <4>3
    <3> QED BY <3>4
  <2>5. GoodReadingIsWhole'
    <3> SUFFICES ASSUME raw'.sure, raw'.good
                 PROVE  /\ raw'.acc = <<Byte(acc, msb, 1), Byte(acc, lsb, 1)>>
                        /\ raw'.gyro = <<Byte(gyro, msb, 1), Byte(gyro, lsb, 1)>>
                        /\ raw'.mag = <<Byte(mag, lsb, 2), Byte(mag, lsb, 1)>>
                        /\ raw'.shifts = 1
      BY DEF GoodReadingIsWhole
    <3>1. \A i \in 1 .. 5 : h[i] = Due(imu, i)
      BY <2>1, <2>2, <2>3, HeardByImu
    <3>2. /\ h[1] = <<Byte(acc, lsb, 1)>> /\ h[2] = <<Byte(acc, msb, 1)>>
          /\ h[3] = <<Byte(gyro, msb, 1)>> /\ h[4] = <<Byte(gyro, lsb, 1)>>
          /\ h[5] = <<Byte(mag, lsb, 2), Byte(mag, lsb, 1)>>
      BY <3>1, DueValues
    <3>3. h[5] # <<Undefined>>
      BY <3>2
    <3> QED BY <2>1, <3>2, <3>3, Pairs
  <2> QED BY <2>4, <2>5
<1>2. CASE UNCHANGED raw
  <2>1. AxesFromOwnRegisters /\ GoodReadingIsWhole
    BY DEF BusInv
  <2>2. AxesFromOwnRegisters'
    BY <1>2, <2>1, Zenon DEF AxesFromOwnRegisters
  <2>3. GoodReadingIsWhole'
    BY <1>2, <2>1, Zenon DEF GoodReadingIsWhole
  <2> QED BY <2>2, <2>3
<1> QED BY <1>1, <1>2, Zenon DEF BusNext, busVars, Ask1, Advance, Return, ReturnAngle

LEMMA AngleStep == BusInv /\ [BusNext]_busVars => AngleFromConverter'
<1> SUFFICES ASSUME BusInv, [BusNext]_busVars PROVE AngleFromConverter'
  OBVIOUS
<1>1. CASE ReturnAngle
  <2>1. angle'.word = heard[adc][1] /\ next[adc] > Len(Program[adc])
    BY <1>1 DEF ReturnAngle
  <2>2. angle'.sure => sure[adc]
    BY <1>1, Zenon DEF ReturnAngle
  <2>3. Hearing(adc) /\ adc # imu
    BY BusAssumption DEF BusInv
  <2>4. Len(heard[adc]) = 1
    BY <2>1, <2>3, Programs DEF Hearing
  <2>5. sure[adc] => heard[adc][1] \in {Due(adc, 1), <<Undefined>>}
    <3>1. 1 \in 1 .. 1
      OBVIOUS
    <3> QED BY <2>3, <2>4, <3>1, Zenon DEF Hearing
  <2>6. heard[adc][1] \in {Due(adc, 1), <<Undefined>>} =>
           angle'.word \in {<<>>, <<Undefined>>, <<Byte(ads, lsb, 1), Byte(ads, lsb, 2)>>}
    BY <2>1, DueValues
  <2> QED BY <2>2, <2>5, <2>6, Zenon DEF AngleFromConverter, Byte
<1>2. CASE UNCHANGED angle
  BY <1>2, Zenon DEF BusInv, AngleFromConverter, Byte
<1> QED BY <1>1, <1>2, Zenon DEF BusNext, busVars, Ask1, Advance, Return, ReadData

LEMMA HearingStep ==
  ASSUME BusInv, [BusNext]_busVars, NEW d \in Client
  PROVE  Hearing(d)'
<1>1. ASSUME NEW c \in Client, Ask1(c) \/ Advance(c) PROVE Hearing(d)'
  BY <1>1, AskHearing
<1>2. ASSUME NEW c \in Client, Return(c) PROVE Hearing(d)'
  BY <1>2, ReturnHearing
<1>3. CASE ReadData
  BY <1>3, AgainHearing, BusAssumption DEF ReadData
<1>4. CASE ReturnAngle
  BY <1>4, AgainHearing, BusAssumption DEF ReturnAngle
<1>5. CASE UNCHANGED busVars
  <2>1. UNCHANGED <<next, heard, pc, call, good, sure>>
    BY <1>5, Zenon DEF busVars, vars
  <2> QED BY <2>1, OtherHearing, Zenon DEF BusInv
<1> QED BY <1>1, <1>2, <1>3, <1>4, <1>5, Zenon DEF BusNext

(* The holder's progress, what the threads have heard, and the readings.    *)
THEOREM BusInvHolds == BusSpec => []BusInv
<1>1. BusInv /\ [BusNext]_busVars => BusInv'
  <2> SUFFICES ASSUME BusInv, [BusNext]_busVars PROVE BusInv'
    OBVIOUS
  <2>1. IInv'
    BY BusStepIsAStep, TypeStep, CacheStep, HolderStep, ProgressStep, Zenon DEF BusInv, IInv
  <2>2. \A c \in Client : Hearing(c)'
    BY HearingStep
  <2> QED BY <2>1, <2>2, ThreadsStep, RawStep, AngleStep, Zenon DEF BusInv
<1> QED BY InitBusInv, <1>1, PTL DEF BusSpec

(* What the drivers put together from single transfers comes from their own *)
(* device and registers, for any failures and any interleaving of the two   *)
(* threads' calls (bmx055_driver.cpp 163-230, ads7828_driver.cpp).          *)
THEOREM ReadingsAreSound == BusSpec => []ReadingsSound
<1>1. BusInv => ReadingsSound
  <2> SUFFICES ASSUME BusInv PROVE ReadingsSound
    OBVIOUS
  <2>1. BusTypeOK
    <3>1. Hearing(imu) /\ Hearing(adc) /\ imu # adc
      BY BusAssumption DEF BusInv
    <3>2. next[imu] \in 0 .. Len(Program[imu]) + 1 /\ next[adc] \in 1 .. 2
      BY <3>1, Programs DEF Hearing
    <3>3. \A c \in Client : Len(heard[c]) = IF next[c] = 0 THEN 0 ELSE next[c] - 1
      BY DEF BusInv, Hearing
    <3> QED BY <3>2, <3>3, Zenon DEF BusTypeOK, BusInv, IInv, Threads
  <2> QED BY <2>1, Zenon DEF ReadingsSound, BusInv, IInv
<1> QED BY BusInvHolds, <1>1, PTL

(* The calls of these threads are exact too: their programs are calls of    *)
(* the handler (iic_handler.cpp 95-174).                                    *)
THEOREM DriversCallsAreExact == BusSpec => []GoodCallMovedItsRegister
<1>1. BusInv => GoodCallMovedItsRegister
  BY DEF BusInv, IInv, Progress, GoodCallMovedItsRegister
<1> QED BY BusInvHolds, <1>1, PTL

=============================================================================
