------------------------------- MODULE HrLink -------------------------------
(***************************************************************************)
(* One direction of the head-rest link, byte by byte: the packets the      *)
(* firmware writes (arduino/hr/hr.ino), a serial line that loses, damages  *)
(* and delays bytes, the demodulator (SaModem), and the decoding of a      *)
(* payload by HrDriver::readData.                                          *)
(*                                                                         *)
(* The six payload bytes (position and two distances, low byte first) are  *)
(* PayloadLength bytes here; a reading is the sequence of these bytes.     *)
(***************************************************************************)
EXTENDS SaModem

CONSTANTS
    PayloadLength,    \* 6 in the code
    CR, LF,           \* the two bytes written behind the checksum
    Reading,          \* what the sensors and the position can read
    MaxFaults         \* bound: bytes lost, damaged or stalled

ASSUME LinkAssumption ==
    /\ PayloadLength \in Byte
    /\ PayloadLength \notin {SA_LEADING_BYTE, SA_CHECK_BYTE}
    /\ {CR, LF} \subseteq Byte \ {SA_LEADING_BYTE}
    /\ Reading \subseteq [1 .. PayloadLength -> Byte]
    /\ MaxFaults \in Nat

VARIABLES
    packet,       \* the reading being sent
    next,         \* which byte of it is sent next
    dataBuffer,   \* mReadDataBuffer: the bytes readData decodes
    faults,       \* how many there have been
    synced,       \* history: the modem was unlocked when this packet began
    damage        \* history: what has happened to this packet's bytes

linkVars == <<modemVars, packet, next, dataBuffer, faults, synced, damage>>

\* What loop() writes for a reading.
Frame(reading) ==
    <<SA_LEADING_BYTE, SA_CHECK_BYTE, PayloadLength>>
        \o reading \o <<Crc(reading), CR, LF>>

CrcAt == PayloadLength + 4

\* The two buffers start as zeros; the code leaves them uninitialised, but
\* what was not received is read from mReadDataBuffer only, after a payload
\* that is too short (SaModemStream starts from every contents).
LinkInit ==
    /\ payloadBuffer = [i \in 0 .. BufferSize - 1 |-> 0]
    /\ ModemInit
    /\ packet \in Reading
    /\ next = 1
    /\ dataBuffer = [i \in 1 .. PayloadLength |-> 0]
    /\ faults = 0
    /\ synced = TRUE
    /\ damage = {}

\* The firmware goes on to the next byte, or takes a new reading.
Advance ==
    IF next < Len(Frame(packet))
      THEN /\ next' = next + 1
           /\ UNCHANGED <<packet, synced>>
      ELSE /\ next' = 1
           /\ packet' \in Reading
           /\ synced' = ~isPacketLocked'

\* Bug: a payload shorter than its size is taken from the end of the buffer.
DecodeShifted ==
    dataBuffer' = IF decoded'
                    THEN [i \in 1 .. PayloadLength |->
                            IF i < payloadSize' THEN LastPayload'[i] ELSE dataBuffer[i]]
                    ELSE dataBuffer

\* getLastPayload copies payloadSize bytes; readData decodes six, whatever
\* the size was: bytes beyond the payload are those of an earlier one.
Decode ==
    dataBuffer' = IF decoded'
                    THEN [i \in 1 .. PayloadLength |->
                            IF i <= payloadSize' THEN LastPayload'[i] ELSE dataBuffer[i]]
                    ELSE dataBuffer

\* What has happened to the bytes of the packet up to and including this one.
Record(kind) ==
    damage' = (IF next = 1 THEN {} ELSE damage) \cup (IF kind = "none" THEN {} ELSE {kind})

\* The byte arrives as it was sent.  Between two packets any time may pass:
\* the firmware is silent while it homes the carriage.
Arrive ==
    /\ \E late \in BOOLEAN :
         /\ late => next = 1
         /\ DemodulateByte(Frame(packet)[next], late)
    /\ Decode /\ Advance /\ Record("none")
    /\ UNCHANGED faults

Lose ==
    /\ faults < MaxFaults
    /\ faults' = faults + 1
    /\ decoded' = FALSE
    /\ UNCHANGED <<isPacketLocked, packetIndex, payloadIndex, payloadSize, payloadBuffer>>
    /\ Decode /\ Advance /\ Record("lost")

Damage ==
    /\ faults < MaxFaults
    /\ faults' = faults + 1
    /\ \E byte \in Byte \ {Frame(packet)[next]} : DemodulateByte(byte, FALSE)
    /\ Decode /\ Advance
    /\ Record(IF next \in 4 .. CrcAt
                THEN IF "data" \in damage THEN "more" ELSE "data"
                ELSE "frame")

\* The reader gets to a byte inside a packet more than 500 ms after the last.
Stall ==
    /\ faults < MaxFaults
    /\ next > 1
    /\ faults' = faults + 1
    /\ DemodulateByte(Frame(packet)[next], TRUE)
    /\ Decode /\ Advance /\ Record("stalled")

LinkNext == Arrive \/ Lose \/ Damage \/ Stall

\* The firmware keeps sending.
LinkSpec == LinkInit /\ [][LinkNext]_linkVars /\ WF_linkVars(LinkNext)

-----------------------------------------------------------------------------

LinkTypeOK ==
    /\ isPacketLocked \in BOOLEAN
    /\ packetIndex \in 0 .. 4
    /\ payloadIndex \in 0 .. BufferSize
    /\ payloadSize \in Byte
    /\ packet \in Reading
    /\ next \in 1 .. PayloadLength + 6
    /\ dataBuffer \in [1 .. PayloadLength -> Byte]
    /\ faults \in 0 .. MaxFaults
    /\ damage \subseteq {"lost", "data", "more", "frame", "stalled"}

\* The checksum has just been dealt with.
PacketOver == next = CrcAt + 1

(***************************************************************************)
(* A packet that finds the demodulator between packets and arrives whole   *)
(* is published, and it is its own reading that is: nothing left over from *)
(* an earlier packet, not even from one given up half way, gets into it.   *)
(***************************************************************************)
WholePacketPublished ==
    /\ LinkTypeOK
    /\ PacketOver /\ synced /\ damage = {} => decoded /\ dataBuffer = packet

(***************************************************************************)
(* A packet with one payload byte or the checksum changed is not           *)
(* published, whatever it was changed to.                                  *)
(***************************************************************************)
DamagedPacketRejected ==
    PacketOver /\ synced /\ damage = {"data"} => ~decoded

NoLeadingByte ==
    /\ Crc(packet) # SA_LEADING_BYTE
    /\ \A i \in 1 .. PayloadLength : packet[i] # SA_LEADING_BYTE

(***************************************************************************)
(* After the last fault whole packets are published again, if from some    *)
(* time on no byte of a packet but the first can be taken for its first.   *)
(***************************************************************************)
Resynchronises ==
    <>[]NoLeadingByte => []<>(PacketOver /\ decoded /\ dataBuffer = packet)

=============================================================================
