--------------------------- MODULE SaModemStream ---------------------------
(***************************************************************************)
(* The demodulator fed by any stream of bytes, each arriving in time or    *)
(* late.  No assumption is made about who sends them: a line that loses,   *)
(* damages or duplicates bytes is one such stream.                         *)
(*                                                                         *)
(* heard is a history variable: the bytes taken in since the packet now    *)
(* being read was locked.  It is what relates the object's indices to the  *)
(* bytes that really arrived.  arrived is a history of the calls' input:   *)
(* the byte, whether it was late, and a turn that every call flips, so     *)
(* that no two calls look like one and none looks like no step at all.     *)
(***************************************************************************)
EXTENDS SaModem

VARIABLES arrived, heard

streamVars == <<modemVars, arrived, heard>>

Call(byte, late, turn) == [byte |-> byte, late |-> late, turn |-> turn]

\* No call yet.
Init ==
    /\ ModemInit
    /\ arrived = Call(0, FALSE, FALSE)
    /\ heard = <<>>

Hear(byte, late) ==
    /\ DemodulateByte(byte, late)
    /\ arrived' = Call(byte, late, ~arrived.turn)
    /\ heard' = IF isPacketLocked' THEN Append(heard, byte) ELSE <<>>

Next == \E byte \in Byte, late \in BOOLEAN : Hear(byte, late)

Spec == Init /\ [][Next]_streamVars

-----------------------------------------------------------------------------

FlagsOK == isPacketLocked \in BOOLEAN /\ decoded \in BOOLEAN

DataOK ==
    /\ packetIndex \in 0 .. 4
    /\ payloadIndex \in 0 .. BufferSize
    /\ payloadSize \in Byte
    /\ payloadBuffer \in [0 .. BufferSize - 1 -> Byte]
    /\ heard \in Seq(Byte)

TypeOK == FlagsOK /\ DataOK

PR == INSTANCE PacketReceiver WITH
        Leading <- SA_LEADING_BYTE,
        Check <- SA_CHECK_BYTE,
        CrcOf <- Crc,
        delivered <- IF decoded THEN << LastPayload >> ELSE <<>>

(***************************************************************************)
(* The demodulator delivers exactly the packets of the grammar: a payload  *)
(* it reports was received, contiguously and in order, behind a leading    *)
(* byte and a matching size, with its checksum right behind it; and no     *)
(* complete packet is passed over: a candidate is given up only for a late *)
(* byte or for one that makes it no packet, and a late byte between        *)
(* packets still counts.  (demodulateByte, getLastPayload.)                *)
(***************************************************************************)
DeliversWhatWasHeard == PR!PRSpec

(***************************************************************************)
(* The buffer is never written or read outside its bounds, and the test    *)
(* payloadIndex == payloadSize, an equality, is never overshot: while a    *)
(* payload is being read the index is strictly below the size.             *)
(***************************************************************************)
PayloadFits ==
    /\ payloadSize <= BufferSize
    /\ isPacketLocked /\ packetIndex = 3 =>
         payloadIndex < payloadSize /\ payloadIndex < BufferSize

(***************************************************************************)
(* The fields agree with the bytes that were read: the part expected next  *)
(* is the one the bytes heard so far call for, and the buffer holds the    *)
(* payload bytes heard, in place.  This is the inductive invariant behind  *)
(* the two properties above.                                               *)
(***************************************************************************)
Unlocked ==
    /\ heard = <<>>
    /\ packetIndex \in {0, 4}

AwaitingCheckByte ==
    /\ packetIndex = 1
    /\ Len(heard) = 1 /\ heard[1] = SA_LEADING_BYTE

AwaitingSize ==
    /\ packetIndex = 2
    /\ Len(heard) = 2 /\ heard[1] = SA_LEADING_BYTE /\ heard[2] = SA_CHECK_BYTE

HeaderHeard ==
    /\ heard[1] = SA_LEADING_BYTE
    /\ PR!HasHeader(heard)
    /\ PR!SizeOf(heard) = payloadSize
    /\ Len(heard) = PR!HeaderLength(heard) + payloadIndex
    /\ \A i \in 0 .. payloadIndex - 1 :
         payloadBuffer[i] = heard[PR!HeaderLength(heard) + 1 + i]

AwaitingPayload ==
    /\ packetIndex = 3
    /\ payloadIndex < payloadSize
    /\ HeaderHeard

AwaitingCrc ==
    /\ packetIndex = 4
    /\ payloadIndex = payloadSize
    /\ HeaderHeard

FieldsMatchBytes ==
    IF isPacketLocked
      THEN \/ AwaitingCheckByte
           \/ AwaitingSize
           \/ AwaitingPayload
           \/ AwaitingCrc
      ELSE Unlocked

(***************************************************************************)
(* The packet as the comment in demodulateByte lists it, "1. S  2. A       *)
(* 3. payloadSize  4. payload  5 crc": while a payload is being read, the  *)
(* second byte heard was the check byte.                                   *)
(***************************************************************************)
CheckByteRequired ==
    isPacketLocked /\ packetIndex = 3 => heard[2] = SA_CHECK_BYTE

=============================================================================
