----------------------------- MODULE MCHeadRest -----------------------------
(***************************************************************************)
(* A carriage with two steps between its switches, a serial buffer of two  *)
(* bytes that can overflow, and four commands: enough for a move, a reset  *)
(* and commands queued behind it, from every height at power-up.           *)
(***************************************************************************)
EXTENDS HeadRestBench

=============================================================================
