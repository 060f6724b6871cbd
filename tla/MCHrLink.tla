------------------------------ MODULE MCHrLink ------------------------------
(***************************************************************************)
(* Bytes of three bits and payloads of three of them: 'S' is 5, 'A' is 6.  *)
(* One reading has no 'S' in the payload or the checksum, though it could  *)
(* be taken for the rest of a packet behind its 'S'.  Of the others one    *)
(* begins and ends with 'S', and one has it for a checksum.                *)
(***************************************************************************)
EXTENDS HrLink

MCReading == { <<6, 2, 3>>, <<5, 6, 5>>, <<1, 0, 4>> }

=============================================================================
