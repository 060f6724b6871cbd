----------------------------- MODULE IicHandler -----------------------------
(* The I2C port of chicken/device/driver/io/iic_handler.cpp, shared by the  *)
(* sensor drivers: one file, one mutex, one buffer, and the address of the  *)
(* device the file was last told to talk to.  The devices on the bus keep a *)
(* register pointer: a transfer is a write of the register number followed, *)
(* for a read, by a read of one or two bytes.                               *)
EXTENDS Naturals, Sequences

CONSTANTS
    Client,          \* the threads that call the handler
    Device,          \* the addresses on the bus
    Register,        \* the registers of a device
    NoClient,        \* holder of the mutex when it is free
    NoDevice,        \* address 0x00, nobody's
    Busy             \* the devices that a driver of the kernel may hold, so
                     \* that selecting them can fail

ASSUME ConstantsAssumption ==
    /\ NoClient \notin Client
    /\ NoDevice \notin Device
    /\ Busy \subseteq Device

VARIABLES
    mMutex,              \* the client holding the mutex
    mCurrentDeviceAddr,  \* the address the handler believes selected
    slave,               \* the address the kernel has for the file
    mBuffer,             \* two cells: register number or received bytes
    pointer,             \* the register pointer of each device
    pc,                  \* where each client is in its call
    call,                \* the call: device, register and kind
    iicOk,               \* what the call returns
    value,               \* where the bytes it moved came from or went to
    selected             \* history: whether the last selection worked

vars == <<mMutex, mCurrentDeviceAddr, slave, mBuffer, pointer, pc, call,
          iicOk, value, selected>>

bus == <<mCurrentDeviceAddr, slave, mBuffer, pointer, selected>>

\* writeByte, readU8 and readS8, readU16BE, readS16LE.
Kinds == {"write", "byte", "wordBE", "wordLE"}
Calls == [dev : Device, reg : Register, kind : Kinds]

\* The byte number k of register r of device d, by its origin.
Byte(d, r, k) == [dev |-> d, reg |-> r, byte |-> k]
\* A register number in the buffer.
Number(r) == [dev |-> NoDevice, reg |-> r, byte |-> 0]
Bytes == [dev : Device, reg : Register, byte : 1..2]
Cells == [dev : Device \cup {NoDevice}, reg : Register, byte : 0..2]

\* What a caller should find in its value: the most significant byte first.
Wanted(c) ==
    CASE c.kind \in {"write", "byte"} -> <<Byte(c.dev, c.reg, 1)>>
      [] c.kind = "wordBE" -> <<Byte(c.dev, c.reg, 1), Byte(c.dev, c.reg, 2)>>
      [] c.kind = "wordLE" -> <<Byte(c.dev, c.reg, 2), Byte(c.dev, c.reg, 1)>>

Init ==
    /\ mMutex = NoClient
    /\ mCurrentDeviceAddr = NoDevice
    /\ slave = NoDevice
    /\ mBuffer \in [1..2 -> {Number(r) : r \in Register}]
    /\ pointer \in [Device -> Register]
    /\ pc = [c \in Client |-> "idle"]
    /\ call \in [Client -> Calls]
    /\ iicOk = [c \in Client |-> FALSE]
    /\ value = [c \in Client |-> <<>>]
    /\ selected = TRUE

Goto(c, label) == pc' = [pc EXCEPT ![c] = label]

-----------------------------------------------------------------------------
Call(c, d, r, k) ==
    /\ pc[c] = "idle"
    /\ call' = [call EXCEPT ![c] = [dev |-> d, reg |-> r, kind |-> k]]
    /\ iicOk' = [iicOk EXCEPT ![c] = FALSE]
    /\ value' = [value EXCEPT ![c] = <<>>]
    /\ Goto(c, "lock")
    /\ UNCHANGED <<mMutex, bus>>

\* An error the invariants exclude: the call does not wait for the mutex.
LockWithoutMutex(c) ==
    /\ pc[c] = "lock"
    /\ mMutex' = c
    /\ Goto(c, "select")
    /\ UNCHANGED <<bus, call, iicOk, value>>

Lock(c) ==
    /\ pc[c] = "lock"
    /\ mMutex = NoClient
    /\ mMutex' = c
    /\ Goto(c, "select")
    /\ UNCHANGED <<bus, call, iicOk, value>>

\* The address is remembered before the ioctl, whose result is not read.
Select(c) ==
    /\ pc[c] = "select"
    /\ IF call[c].dev = mCurrentDeviceAddr
       THEN UNCHANGED <<mCurrentDeviceAddr, slave, selected>>
       ELSE /\ mCurrentDeviceAddr' = call[c].dev
            /\ \/ /\ slave' = call[c].dev
                  /\ selected' = TRUE
               \/ /\ call[c].dev \in Busy
                  /\ selected' = FALSE
                  /\ UNCHANGED slave
    /\ Goto(c, "address")
    /\ UNCHANGED <<mMutex, mBuffer, pointer, call, iicOk, value>>

\* The register number goes to the selected device, alone or, for writeByte,
\* with the byte to store; the device may not acknowledge it.
SendRegAddr(c) ==
    LET r == call[c].reg IN
    /\ pc[c] = "address"
    /\ mBuffer' = [mBuffer EXCEPT ![1] = Number(r)]
    /\ \/ /\ slave # NoDevice
          /\ pointer' = [pointer EXCEPT ![slave] = r]
          /\ IF call[c].kind = "write"
             THEN /\ value' = [value EXCEPT ![c] = <<Byte(slave, r, 1)>>]
                  /\ iicOk' = [iicOk EXCEPT ![c] = TRUE]
                  /\ Goto(c, "unlock")
             ELSE Goto(c, "read") /\ UNCHANGED <<iicOk, value>>
       \/ /\ Goto(c, "unlock")
          /\ UNCHANGED <<pointer, iicOk, value>>
    /\ UNCHANGED <<mMutex, mCurrentDeviceAddr, slave, call, selected>>

\* read() fills the buffer, or returns less than was asked for.
Read(c) ==
    /\ pc[c] = "read"
    /\ \/ /\ mBuffer' = IF call[c].kind = "byte"
                        THEN [mBuffer EXCEPT ![1] = Byte(slave, pointer[slave], 1)]
                        ELSE [k \in 1..2 |-> Byte(slave, pointer[slave], k)]
          /\ Goto(c, "copy")
       \/ /\ Goto(c, "unlock")
          /\ UNCHANGED mBuffer
    /\ UNCHANGED <<mMutex, mCurrentDeviceAddr, slave, pointer, call, iicOk,
                   value, selected>>

\* The value is put together from the shared buffer.
Copy(c) ==
    /\ pc[c] = "copy"
    /\ value' = [value EXCEPT ![c] =
                    CASE call[c].kind = "byte"   -> <<mBuffer[1]>>
                      [] call[c].kind = "wordBE" -> <<mBuffer[1], mBuffer[2]>>
                      [] call[c].kind = "wordLE" -> <<mBuffer[2], mBuffer[1]>>]
    /\ iicOk' = [iicOk EXCEPT ![c] = TRUE]
    /\ Goto(c, "unlock")
    /\ UNCHANGED <<mMutex, bus, call>>

Unlock(c) ==
    /\ pc[c] = "unlock"
    /\ mMutex' = NoClient
    /\ Goto(c, "idle")
    /\ UNCHANGED <<bus, call, iicOk, value>>

Transfer(c) == \/ Lock(c) \/ Select(c) \/ SendRegAddr(c)
               \/ Read(c) \/ Copy(c) \/ Unlock(c)

Next == \E c \in Client :
    \/ \E d \in Device, r \in Register, k \in Kinds : Call(c, d, r, k)
    \/ Transfer(c)

Spec == Init /\ [][Next]_vars

-----------------------------------------------------------------------------
TypeOK ==
    /\ mMutex \in Client \cup {NoClient}
    /\ mCurrentDeviceAddr \in Device \cup {NoDevice}
    /\ slave \in Device \cup {NoDevice}
    /\ mBuffer \in [1..2 -> Cells]
    /\ pointer \in [Device -> Register]
    /\ pc \in [Client -> {"idle", "lock", "select", "address", "read", "copy", "unlock"}]
    /\ call \in [Client -> Calls]
    /\ iicOk \in [Client -> BOOLEAN]
    /\ value \in [Client -> {<<>>} \cup [1..1 -> Bytes] \cup [1..2 -> Bytes]]
    /\ selected \in BOOLEAN

\* A call that reports success moved the bytes of the register of the device
\* it was given, in the order it was given (readU8, readU16BE, readS16LE,
\* writeByte), however the calls of other threads fall between, as long as
\* the last selection of a device worked.
GoodCallMovedItsRegister ==
    \A c \in Client :
        pc[c] = "unlock" /\ iicOk[c] /\ selected => value[c] = Wanted(call[c])

\* The address the handler remembers differs from the one the file has only
\* after an ioctl that failed: a wrong device is never the doing of another
\* thread's call.
CachedAddressTrue == slave # mCurrentDeviceAddr => ~selected
=============================================================================
