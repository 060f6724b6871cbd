------------------------------ MODULE SaModem ------------------------------
(***************************************************************************)
(* The byte demodulator of the head-rest link: class SaModem of            *)
(* chicken/utils/sa_modem.cpp.  It is called with one byte at a time and   *)
(* answers TRUE on the byte that completes a packet                        *)
(*                                                                         *)
(*    'S'  'A'  payloadSize  payload ...  crc                              *)
(*                                                                         *)
(* The state is the object's fields.  The time stamp lastDecodeTime is     *)
(* written by every call and only ever compared with the present: it is    *)
(* abstracted to a Boolean input, late, true when more than                *)
(* SA_PACKET_TIMEOUT milliseconds separate this byte from the last one.    *)
(***************************************************************************)
EXTENDS Integers, Sequences, FiniteSets

CONSTANTS
    ByteBits,         \* width of a byte (8 in the code)
    BufferSize,       \* bytes in mPayloadBuffer (1024 in the code)
    SA_LEADING_BYTE,  \* 'S'
    SA_CHECK_BYTE     \* 'A'

ASSUME ByteAssumption == ByteBits \in Nat

\* The powers of two.
Weight[i \in 0 .. ByteBits] == IF i = 0 THEN 1 ELSE 2 * Weight[i - 1]

Byte == 0 .. Weight[ByteBits] - 1

ASSUME FramingAssumption ==
    /\ SA_LEADING_BYTE \in Byte
    /\ SA_CHECK_BYTE \in Byte
    /\ SA_LEADING_BYTE # SA_CHECK_BYTE
ASSUME BufferAssumption ==
    /\ BufferSize \in Nat
    /\ \A b \in Byte : b <= BufferSize

VARIABLES
    isPacketLocked,   \* mIsPacketLocked
    packetIndex,      \* mPacketIndex: the part of the packet expected next
    payloadIndex,     \* mPayloadIndex
    payloadSize,      \* mPayloadSize
    payloadBuffer,    \* mPayloadBuffer
    decoded           \* the value the last call of demodulateByte returned

modemVars == <<isPacketLocked, packetIndex, payloadIndex, payloadSize,
               payloadBuffer, decoded>>

(***************************************************************************)
(* The checksum: the exclusive or of the payload's bytes, that is, in each *)
(* bit the parity of the bytes that have it.                               *)
(***************************************************************************)
\* x shifted to the right by each number of bits.
Shifted(x) ==
    LET half[i \in 0 .. ByteBits] == IF i = 0 THEN x ELSE half[i - 1] \div 2
    IN  half

Bit(x, i) == Shifted(x)[i] % 2

\* The number with these bits, and with the lower ones of them only.
LowerBits(bits) ==
    LET number[i \in 0 .. ByteBits] ==
            IF i = 0 THEN 0 ELSE number[i - 1] + Weight[i - 1] * bits[i - 1]
    IN  number

Parity(payload, i) ==
    Cardinality({k \in DOMAIN payload : Bit(payload[k], i) = 1}) % 2

\* Bug: the loop over the payload starts at its second byte.
CrcSkipsFirst(payload) ==
    LowerBits([i \in 0 .. ByteBits - 1 |->
        Cardinality({k \in DOMAIN payload : k > 1 /\ Bit(payload[k], i) = 1}) % 2])[ByteBits]

Crc(payload) ==
    LowerBits([i \in 0 .. ByteBits - 1 |-> Parity(payload, i)])[ByteBits]

\* What getLastPayload copies out: the first mPayloadSize bytes of the buffer.
LastPayload == [i \in 1 .. payloadSize |-> payloadBuffer[i - 1]]

-----------------------------------------------------------------------------

\* The buffer is not initialised by the constructor: any contents.
ModemInit ==
    /\ isPacketLocked = FALSE
    /\ packetIndex = 0
    /\ payloadIndex = 0
    /\ payloadSize = 0
    /\ payloadBuffer \in [0 .. BufferSize - 1 -> Byte]
    /\ decoded = FALSE

ResetStatus ==
    /\ packetIndex' = 0
    /\ payloadIndex' = 0
    /\ isPacketLocked' = FALSE
    /\ payloadSize' = 0
    /\ decoded' = FALSE
    /\ UNCHANGED payloadBuffer

\* Bug: the time is looked at before the lock is.
TimeoutAlsoUnlocked(late) ==
    /\ late
    /\ ResetStatus

\* A byte that comes too late unlocks the packet and is itself dropped.
Timeout(late) ==
    /\ isPacketLocked /\ late
    /\ ResetStatus

Hunt(byte) ==
    /\ ~isPacketLocked
    /\ byte = SA_LEADING_BYTE
    /\ packetIndex' = 1
    /\ payloadIndex' = 0
    /\ isPacketLocked' = TRUE
    /\ decoded' = FALSE
    /\ UNCHANGED <<payloadSize, payloadBuffer>>

SkipNoise(byte) ==
    /\ ~isPacketLocked
    /\ byte # SA_LEADING_BYTE
    /\ ResetStatus

ReadCheckByte(byte, late) ==
    /\ isPacketLocked /\ ~late
    /\ packetIndex = 1
    /\ byte = SA_CHECK_BYTE
    /\ packetIndex' = 2
    /\ decoded' = FALSE
    /\ UNCHANGED <<isPacketLocked, payloadIndex, payloadSize, payloadBuffer>>

\* Bug: no test for an empty payload.
ReadPayloadSizeNoEmpty(byte, late) ==
    /\ isPacketLocked /\ ~late
    /\ \/ packetIndex = 1 /\ byte # SA_CHECK_BYTE
       \/ packetIndex = 2
    /\ payloadSize' = byte
    /\ payloadIndex' = 0
    /\ packetIndex' = 3
    /\ decoded' = FALSE
    /\ UNCHANGED <<isPacketLocked, payloadBuffer>>

\* case (1) has no return for a byte other than the check byte: it falls
\* through to case (2), which takes that byte as the payload's size.
ReadPayloadSize(byte, late) ==
    /\ isPacketLocked /\ ~late
    /\ \/ packetIndex = 1 /\ byte # SA_CHECK_BYTE
       \/ packetIndex = 2
    /\ payloadSize' = byte
    /\ payloadIndex' = 0
    /\ packetIndex' = IF byte = 0 THEN 4 ELSE 3
    /\ decoded' = FALSE
    /\ UNCHANGED <<isPacketLocked, payloadBuffer>>

ReadPayload(byte, late) ==
    /\ isPacketLocked /\ ~late
    /\ packetIndex = 3
    /\ payloadBuffer' = [payloadBuffer EXCEPT ![payloadIndex] = byte]
    /\ payloadIndex' = payloadIndex + 1
    /\ packetIndex' = IF payloadIndex + 1 = payloadSize THEN 4 ELSE 3
    /\ decoded' = FALSE
    /\ UNCHANGED <<isPacketLocked, payloadSize>>

\* The packet is released but the index and the size stay: getLastPayload
\* still needs the size.
AcceptPacket(byte, late) ==
    /\ isPacketLocked /\ ~late
    /\ packetIndex = 4
    /\ byte = Crc(LastPayload)
    /\ isPacketLocked' = FALSE
    /\ decoded' = TRUE
    /\ UNCHANGED <<packetIndex, payloadIndex, payloadSize, payloadBuffer>>

\* Bug: a packet with a wrong checksum stays locked, its payload goes on.
RejectPacketStaysLocked(byte, late) ==
    /\ isPacketLocked /\ ~late
    /\ packetIndex = 4
    /\ byte # Crc(LastPayload)
    /\ packetIndex' = 1
    /\ decoded' = FALSE
    /\ UNCHANGED <<isPacketLocked, payloadIndex, payloadSize, payloadBuffer>>

RejectPacket(byte, late) ==
    /\ isPacketLocked /\ ~late
    /\ packetIndex = 4
    /\ byte # Crc(LastPayload)
    /\ ResetStatus

DemodulateByte(byte, late) ==
    \/ Timeout(late)
    \/ Hunt(byte)
    \/ SkipNoise(byte)
    \/ ReadCheckByte(byte, late)
    \/ ReadPayloadSize(byte, late)
    \/ ReadPayload(byte, late)
    \/ AcceptPacket(byte, late)
    \/ RejectPacket(byte, late)

=============================================================================
