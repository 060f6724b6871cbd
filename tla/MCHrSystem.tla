----------------------------- MODULE MCHrSystem -----------------------------
(***************************************************************************)
(* Two messages, each a move or a reset: the second can reach the host     *)
(* while the reader is blocked by the homing the first one started, or     *)
(* while the first is still being compared, and be obeyed twice.  One step *)
(* of travel is enough for a homing that lasts; the kernel holds a report. *)
(***************************************************************************)
EXTENDS HrSystem

=============================================================================
