-------------------------------- MODULE Mavlink --------------------------------
(* mavlink_parse_char of inc/mavlink/mavlink_helpers.h, which takes the     *)
(* bytes from the radio and from the servo board one at a time and returns  *)
(* 1 on the byte that completes a message                                   *)
(*    STX  length  seq sysid compid msgid  payload ...  crc low, crc high   *)
(* fed by any stream of bytes.  Of the counters in the status only those a  *)
(* property needs are kept.  The checksum is any function of a word and the *)
(* bytes accumulated into it; the parser compares its two halves.           *)
EXTENDS Naturals, Sequences

CONSTANTS
    Byte, STX,
    Crc,             \* the values of the checksum
    Start,           \* crc_init
    Accumulate,      \* crc_accumulate: Accumulate[crc][byte]
    Low, High,       \* the two bytes of a checksum
    Extra            \* MAVLINK_MESSAGE_CRC of a message number

ASSUME ByteAssumption ==
    /\ Byte \subseteq Nat /\ 0 \in Byte /\ STX \in Byte
    /\ \A b \in Byte : 0 .. b \subseteq Byte
ASSUME CrcAssumption ==
    /\ Start \in Crc
    /\ Accumulate \in [Crc -> [Byte -> Crc]]
    /\ Low \in [Crc -> Byte] /\ High \in [Crc -> Byte]
    /\ Extra \in [Byte -> Byte]

VARIABLES
    parse_state,
    len, msgid,      \* of rxmsg; seq, sysid and compid are left out
    checksum,
    packet_idx,
    payload,         \* of rxmsg, with room for two bytes of checksum
    msg_received,    \* what the last call returned
    heard            \* history: the message in the stream that is under way
                     \* or has just ended, see Heard

vars == <<parse_state, len, msgid, checksum, packet_idx, payload, msg_received, heard>>

Header == <<"GOT_STX", "GOT_LENGTH", "GOT_SEQ", "GOT_SYSID", "GOT_COMPID">>
States == {Header[i] : i \in 1 .. 5} \cup {"IDLE", "GOT_MSGID", "GOT_PAYLOAD", "GOT_CRC1"}

-----------------------------------------------------------------------------
(* The messages of a stream, told from its bytes alone: the measure of what *)
(* the parser returns.                                                      *)

\* The checksum of the bytes of h from the length to each of its bytes.
Sums(h) ==
    LET sum[i \in 0 .. Len(h)] ==
            IF i < 2 THEN Start ELSE Accumulate[sum[i - 1]][h[i]]
    IN  sum

\* The checksum of a message: of the bytes from the length to the last of the
\* payload, and of the extra byte of its number.
SumOf(h) == Accumulate[Sums(h)[6 + h[2]]][Extra[h[6]]]

IsMessage(h) ==
    /\ Len(h) > 7 /\ Len(h) = 8 + h[2]
    /\ h[1] = STX
    /\ h[7 + h[2]] = Low[SumOf(h)] /\ h[8 + h[2]] = High[SumOf(h)]

\* c is where h has a byte of its checksum, and is not that byte.
BreaksChecksum(h, c) ==
    /\ Len(h) > 5
    /\ \/ Len(h) = 6 + h[2] /\ c # Low[SumOf(h)]
       \/ Len(h) = 7 + h[2] /\ c # High[SumOf(h)]

\* An STX begins a message where none is under way and in place of a byte of
\* the checksum, which ends the one that was.
Begun(c) == IF c = STX THEN <<STX>> ELSE <<>>

Heard(h, c) ==
    IF h = <<>> \/ IsMessage(h) \/ BreaksChecksum(h, c) THEN Begun(c) ELSE Append(h, c)

-----------------------------------------------------------------------------
\* The bytes of payload64.
Cell == Byte \cup {b + 1 : b \in Byte} \cup {b + 2 : b \in Byte}

Init ==
    /\ parse_state = "IDLE"
    /\ len = 0 /\ msgid = 0 /\ checksum = Start /\ packet_idx = 0
    /\ payload = [i \in Cell |-> 0]
    /\ msg_received = FALSE
    /\ heard = <<>>

Goto(state) == parse_state' = state

\* A packet begins, in idle or in place of a checksum byte that does not fit.
BeginPacket ==
    /\ Goto("GOT_STX")
    /\ len' = 0 /\ checksum' = Start
    /\ UNCHANGED <<msgid, packet_idx, payload>>

Idle(c) ==
    /\ parse_state = "IDLE"
    /\ IF c = STX THEN BeginPacket
       ELSE UNCHANGED <<parse_state, len, msgid, checksum, packet_idx, payload>>

Take(c) == checksum' = Accumulate[checksum][c]

Length(c) ==
    /\ parse_state = "GOT_STX"
    /\ len' = c /\ packet_idx' = 0 /\ Take(c)
    /\ Goto("GOT_LENGTH")
    /\ UNCHANGED <<msgid, payload>>

\* seq, sysid, compid
Address(c) ==
    /\ \E i \in 2 .. 4 : parse_state = Header[i] /\ Goto(Header[i + 1])
    /\ Take(c)
    /\ UNCHANGED <<len, msgid, packet_idx, payload>>

\* Bug: a message without a payload is expected to have some.
MsgIdNeverEmpty(c) ==
    /\ parse_state = "GOT_COMPID"
    /\ msgid' = c /\ Take(c)
    /\ Goto("GOT_MSGID")
    /\ UNCHANGED <<len, packet_idx, payload>>

MsgId(c) ==
    /\ parse_state = "GOT_COMPID"
    /\ msgid' = c /\ Take(c)
    /\ Goto(IF len = 0 THEN "GOT_PAYLOAD" ELSE "GOT_MSGID")
    /\ UNCHANGED <<len, packet_idx, payload>>

Payload(c) ==
    /\ parse_state = "GOT_MSGID"
    /\ payload' = [payload EXCEPT ![packet_idx] = c]
    /\ packet_idx' = packet_idx + 1
    /\ Take(c)
    /\ Goto(IF packet_idx' = len THEN "GOT_PAYLOAD" ELSE "GOT_MSGID")
    /\ UNCHANGED <<len, msgid>>

Crc1(c) ==
    /\ parse_state = "GOT_PAYLOAD"
    /\ LET sum == Accumulate[checksum][Extra[msgid]] IN
       IF c = Low[sum]
       THEN /\ Goto("GOT_CRC1")
            /\ checksum' = sum
            /\ payload' = [payload EXCEPT ![packet_idx] = c]
            /\ UNCHANGED <<len, msgid, packet_idx>>
       ELSE IF c = STX THEN BeginPacket
       ELSE /\ Goto("IDLE") /\ checksum' = sum
            /\ UNCHANGED <<len, msgid, packet_idx, payload>>

\* Bug: an STX in place of the second checksum byte is lost.
Crc2LosesSTX(c) ==
    /\ parse_state = "GOT_CRC1"
    /\ msg_received' = (c = High[checksum])
    /\ Goto("IDLE")
    /\ payload' = IF c = High[checksum] THEN [payload EXCEPT ![packet_idx + 1] = c] ELSE payload
    /\ UNCHANGED <<len, msgid, checksum, packet_idx>>

Crc2(c) ==
    /\ parse_state = "GOT_CRC1"
    /\ msg_received' = (c = High[checksum])
    /\ IF c = High[checksum]
       THEN /\ Goto("IDLE")
            /\ payload' = [payload EXCEPT ![packet_idx + 1] = c]
            /\ UNCHANGED <<len, msgid, checksum, packet_idx>>
       ELSE IF c = STX THEN BeginPacket
       ELSE /\ Goto("IDLE")
            /\ UNCHANGED <<len, msgid, checksum, packet_idx, payload>>

\* Of the seven only the last lets msg_received be 1, which the call begins
\* by setting to 0.
mavlink_parse_char(c) ==
    /\ \/ /\ Idle(c) \/ Length(c) \/ Address(c) \/ MsgId(c) \/ Payload(c) \/ Crc1(c)
          /\ msg_received' = FALSE
       \/ Crc2(c)
    /\ heard' = Heard(heard, c)

Next == \E c \in Byte : mavlink_parse_char(c)

Spec == Init /\ [][Next]_vars

-----------------------------------------------------------------------------
TypeOK ==
    /\ parse_state \in States
    /\ len \in Byte /\ msgid \in Byte /\ checksum \in Crc
    /\ packet_idx \in Byte
    /\ payload \in [Cell -> Byte]
    /\ msg_received \in BOOLEAN
    /\ heard \in Seq(Byte)

(* 1 is returned for whole messages, received in one piece, and for every   *)
(* message of the stream: none is passed over because of what was in the    *)
(* buffer before, nor because its STX came in place of a checksum byte, and *)
(* the message returned is the one received, also when it has no payload.   *)
ReturnsMessages ==
    /\ msg_received <=> IsMessage(heard)
    /\ msg_received => /\ len = heard[2] /\ msgid = heard[6]
                       /\ \A i \in 1 .. len : payload[i - 1] = heard[6 + i]

(* The test packet_idx == len, an equality, is not overshot, and neither    *)
(* the payload nor the two bytes of checksum behind it leave the buffer.    *)
PayloadFits ==
    /\ parse_state = "GOT_MSGID" => packet_idx < len
    /\ parse_state = "GOT_PAYLOAD" => packet_idx = len
    /\ packet_idx + 1 \in Cell
=============================================================================
