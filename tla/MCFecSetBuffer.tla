--------------------------- MODULE MCFecSetBuffer ---------------------------
(***************************************************************************)
(* FecSetBuffer for TLC: one set of each shape the cache is to tell apart, *)
(* one too large for the codec (big) and one whose coding shreds are at    *)
(* odds over its size and its variant (odd).  In set b shreds also come    *)
(* too short, in any order with the whole ones.                            *)
(***************************************************************************)
EXTENDS FecSetBuffer

SetSizes == ("a" :> 1) @@ ("b" :> 2) @@ ("c" :> 1) @@ ("big" :> 1) @@ ("odd" :> 2)

DataOf(f, wholes) ==
  {[set |-> f, position |-> p, whole |-> w] : p \in 0 .. (SetSizes[f] - 1), w \in wholes}

CodingOf(f, nd, nc, wholes) ==
  {[set |-> f, position |-> p, num_data |-> nd, num_coding |-> nc,
    variant |-> "CodeMerkle", whole |-> w] : p \in 0 .. (nc - 1), w \in wholes}

AllDataShreds == DataOf("b", BOOLEAN)

\* Of a set that is only there for its shape one coding shred, the last, will do.
LastOf(f, nd, nc) == {c \in CodingOf(f, nd, nc, {TRUE}) : c.position = nc - 1}

AllCodingShreds ==
  CodingOf("a", 1, 1, {TRUE}) \cup CodingOf("b", 2, 2, BOOLEAN)
    \cup LastOf("c", 1, 2) \cup LastOf("big", 1, 4) \cup LastOf("odd", 1, 1)
    \cup {[c EXCEPT !.variant = "other"] : c \in LastOf("odd", 2, 2)}
=============================================================================
