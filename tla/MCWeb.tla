-------------------------------- MODULE MCWeb --------------------------------
(***************************************************************************)
(* The handler with four contexts, so that an entry left behind by an      *)
(* attempt refused at once has contexts before and after it.  The server   *)
(* with five browsers: three for a departure from the middle, one more     *)
(* behind to depart later and cut the others off, and one to connect       *)
(* afterwards; and three connections of the host: one, its successor, and  *)
(* one after both.                                                         *)
(***************************************************************************)
EXTENDS Web

=============================================================================
