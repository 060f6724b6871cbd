-------------------------- MODULE MCSaModemStream --------------------------
(***************************************************************************)
(* SaModemStream with bytes of two bits: 'S' is 3, 'A' is 2, a payload has *)
(* at most three bytes.  Every stream over these bytes is explored; the    *)
(* state space is finite because a candidate packet is.                    *)
(***************************************************************************)
EXTENDS SaModemStream

=============================================================================
