-------------------------- MODULE MCShredListener --------------------------
(***************************************************************************)
(* ShredListener for TLC.  Slots are few, so the distances of the code     *)
(* (3-slot window, blacklist 50 slots deeper, jumps of a million) shrink   *)
(* with them; their order is kept.                                         *)
(***************************************************************************)
EXTENDS ShredListener
=============================================================================
