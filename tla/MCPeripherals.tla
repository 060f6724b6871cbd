----------------------------- MODULE MCPeripherals -----------------------------
(* Bytes 0 to 2, so payloads of up to two bytes, and a checksum of two such *)
(* bytes that any single change of a byte changes.  A buffer of eight       *)
(* entries that a longer infra-red code overflows.  Four keys, two of them  *)
(* not in the table, which share pin 0, and lists of up to five pins.       *)
EXTENDS Peripherals

MCByte == 0 .. 2
MCCrc == 0 .. 8
MCAccumulate == [crc \in MCCrc |-> [b \in MCByte |-> (2 * crc + b + 1) % 9]]
MCLow == [crc \in MCCrc |-> crc % 3]
MCHigh == [crc \in MCCrc |-> crc \div 3]
MCExtra == [b \in MCByte |-> (b + 1) % 3]

MCKey == {"P9_42", "P8_3", "P0_0", "P0_1"}
MCPinOf == [k \in MCKey |-> CASE k = "P9_42" -> 7 [] k = "P8_3" -> 38 [] OTHER -> 0]
=============================================================================
