------------------------- MODULE MCSlotAccumulator -------------------------
(***************************************************************************)
(* The slots on which TLC checks SlotAccumulator.                          *)
(***************************************************************************)
EXTENDS SlotAccumulator, TLC

\* Batches 0..1, 2..3, 4 and the last shred; no coding shreds.
ShortBoundary == {1, 3, 4}
ShortEnds     == {1, 3, 4, 5}
ShortData     == [f \in {0} |-> 6]

\* Batches 0..1 and 2..3.
PlainBoundary == {1, 3}
PlainEnds     == {1, 3, 5}
PlainEndsIn   == [t0 |-> 0, t1 |-> 1, t2 |-> 2, t3 |-> 3, t4 |-> 4]
PlainTxs      == DOMAIN PlainEndsIn
OneSet        == {0}
OneSetCoding  == [f \in {0} |-> 0]

\* Batches 0..1, 2..3 and 4..5, so that several can be overdue at once.
TimeoutBoundary == {1, 3, 5}
TimeoutEnds     == {1, 3, 5}
SevenData       == [f \in {0} |-> 7]

\* The same with one FEC set per batch and one for the last shred.
AlignedSets    == {0, 2, 4}
AlignedData    == (0 :> 2) @@ (2 :> 2) @@ (4 :> 2)
AlignedCoding  == [f \in AlignedSets |-> 1]
AlignedEndsIn  == [t0 |-> 0, t1 |-> 1, t3 |-> 3, t4 |-> 4]
AlignedTxs     == DOMAIN AlignedEndsIn

\* Batches 0 and 1..3 under FEC sets 0..2 and 3..5, which straddle them: a gap
\* at 2 can only be filled by a set that began before its batch.
\* The shreds 3 and 5 are padding, so batch 4..5 is whole without a boundary.
StraddleBoundary == {0, 3}
StraddleEnds     == {0, 2, 4}
StraddleSets     == {0, 3}
StraddleData     == [f \in StraddleSets |-> 3]
StraddleCoding   == (0 :> 2) @@ (3 :> 1)
StraddleEndsIn   == [t1 |-> 1, t2 |-> 2, t4 |-> 4]
StraddleTxs      == DOMAIN StraddleEndsIn
=============================================================================
