--------------------------- MODULE MCShredParser ---------------------------
(***************************************************************************)
(* ShredParser for TLC: every kind of variant byte with the smallest, a    *)
(* middle and the largest proof size, and lengths and sizes on both sides  *)
(* of every limit the parser compares them with.                           *)
(***************************************************************************)
EXTENDS ShredParser

Lengths == {64, 87, 88, 89, 1202, 1203, 1227, 1228, 2048}

Variants == {165, 90, 66, 130} \cup {16 * nibble + size : nibble \in {6, 7, 9, 11}, size \in {0, 5, 15}}

Places == {<<0, 0>>, <<3, 2>>, <<2, 3>>}   \* index and fec_set_index

Raw(len, variant, place, b) ==
  [len |-> len, sent |-> len, variant |-> variant, index |-> place[1],
   fec_set_index |-> place[2], b |-> b]

Lo(n) == n % 256
Hi(n) == n \div 256

Sizes == {0, 88, 89, 807, 808, 871, 872, 1000, 1107, 1108, 1171, 1172, 1203, 1204, 1228, 1229, 65535}

DataPackets ==
  {Raw(len, variant, place,
       [o \in Header |-> IF o = 85 THEN flags ELSE IF o = 86 THEN Lo(size)
                         ELSE IF o = 87 THEN Hi(size) ELSE 0]) :
     len \in Lengths, variant \in Variants, place \in Places,
     flags \in {0, 64, 192}, size \in Sizes}

CodePackets ==
  {Raw(len, variant, place,
       [o \in Header |-> IF o = 83 THEN data ELSE IF o = 85 THEN Lo(coding)
                         ELSE IF o = 86 THEN Hi(coding) ELSE IF o = 87 THEN position ELSE 0]) :
     len \in Lengths, variant \in Variants, place \in Places,
     data \in {0, 32}, coding \in {0, 1, 32, 256}, position \in {0, 31, 32}}

AllPackets == DataPackets \cup CodePackets
=============================================================================
