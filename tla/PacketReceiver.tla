--------------------------- MODULE PacketReceiver ---------------------------
(***************************************************************************)
(* What the demodulator promises, without its fields and indices: it       *)
(* keeps the bytes of one candidate packet and delivers a payload exactly  *)
(* when the bytes it holds are a whole packet by the grammar below.  Bytes *)
(* that cannot begin a packet, a candidate whose checksum is wrong and a   *)
(* candidate interrupted by a timeout are dropped as a whole.  It has no   *)
(* choice of its own: the call, recorded in arrived, and the bytes held    *)
(* decide what happens, so nothing else may be dropped.                    *)
(*                                                                         *)
(* The grammar is the one the code accepts: the check byte may be missing. *)
(***************************************************************************)
EXTENDS Integers, Sequences

CONSTANTS Byte, Leading, Check, CrcOf(_)

VARIABLES
    arrived,     \* the call: its byte, whether it is late, whose turn it is
    heard,       \* bytes of the current candidate, <<>> between packets
    delivered    \* <<payload>> when the last byte completed it, else <<>>

prVars == <<arrived, heard, delivered>>

\* Bytes before the payload; the last of them is the payload's size.
HeaderLength(h) == IF h[2] = Check THEN 3 ELSE 2

HasHeader(h) == Len(h) >= 2 /\ Len(h) >= HeaderLength(h)

SizeOf(h) == h[HeaderLength(h)]

PayloadOf(h) == [i \in 1 .. SizeOf(h) |-> h[HeaderLength(h) + i]]

FullLength(h) == HeaderLength(h) + SizeOf(h) + 1

\* The bytes could still become a packet.
IsCandidate(h) ==
    /\ Len(h) >= 1
    /\ h[1] = Leading
    /\ HasHeader(h) => Len(h) < FullLength(h)

IsPacket(h) ==
    /\ Len(h) >= 1
    /\ h[1] = Leading
    /\ HasHeader(h)
    /\ Len(h) = FullLength(h)
    /\ h[Len(h)] = CrcOf(PayloadOf(h))

Call(byte, late, turn) == [byte |-> byte, late |-> late, turn |-> turn]

PRInit ==
    /\ arrived = Call(0, FALSE, FALSE)
    /\ heard = <<>>
    /\ delivered = <<>>

Extend(h) ==
    /\ IsCandidate(h)
    /\ heard' = h
    /\ delivered' = <<>>

Deliver(h) ==
    /\ IsPacket(h)
    /\ heard' = <<>>
    /\ delivered' = << PayloadOf(h) >>

Discard(h) ==
    /\ ~IsCandidate(h)
    /\ ~IsPacket(h)
    /\ heard' = <<>>
    /\ delivered' = <<>>

Abandon ==
    /\ heard' = <<>>
    /\ delivered' = <<>>

Receive(byte) ==
    LET h == Append(heard, byte)
    IN  Extend(h) \/ Deliver(h) \/ Discard(h)

\* Only an open candidate can time out, and then it does.
PRNext ==
    \E byte \in Byte, late \in BOOLEAN :
        /\ arrived' = Call(byte, late, ~arrived.turn)
        /\ IF late /\ heard # <<>> THEN Abandon ELSE Receive(byte)

PRSpec == PRInit /\ [][PRNext]_prVars

=============================================================================
