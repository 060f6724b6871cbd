------------------------------ MODULE MCHrHost ------------------------------
(***************************************************************************)
(* Four reports through a kernel buffer of two, which can overflow, and    *)
(* four messages, so that one can be overtaken by the next while the loop  *)
(* is at any step with the one before and a flag is pending.  The last     *)
(* text is no command.  Many of both at once tell no more than many of one *)
(* and a few of the other: the two sides share only the port's lock.       *)
(***************************************************************************)
EXTENDS HrHost

FewOfOne == reports <= 1 \/ messages <= 1

=============================================================================
