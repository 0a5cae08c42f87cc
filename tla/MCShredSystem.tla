--------------------------- MODULE MCShredSystem ---------------------------
(***************************************************************************)
(* ShredSystem for TLC: slot Focus is the batches 0 and 1..2 and its last  *)
(* shred, in one FEC set with one coding shred; two buffers, so that slots *)
(* are given up for want of buffers as well as by age.                     *)
(***************************************************************************)
EXTENDS ShredSystem, TLC

TwoSets      == {0, 2}
PairsOfData  == [f \in TwoSets |-> 2]
OneCoding    == [f \in TwoSets |-> 1]
ThreeEndsIn  == [t0 |-> 0, t1 |-> 1, t2 |-> 2]
ThreeTxs     == DOMAIN ThreeEndsIn

Symmetry == Permutations(Buffers)
=============================================================================
