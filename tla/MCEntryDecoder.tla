--------------------------- MODULE MCEntryDecoder ---------------------------
(***************************************************************************)
(* EntryDecoder for TLC: a count of two bytes, entries of three to five.   *)
(* The first batch is cut in every way into up to three shreds, the second *)
(* into one or two, and a third, short one follows.                        *)
(***************************************************************************)
EXTENDS EntryDecoder, SequencesExt

Total(sizes) == FoldLeft(+, 0, sizes)

Sizes == {<<>>, <<3>>, <<5>>, <<3, 3>>}

\* The payloads a batch of n bytes is cut into; some may be empty.
Cuts(n) ==
  {<<n>>} \cup {<<i, n - i>> : i \in 1 .. n}
    \cup {<<c[1], c[2], n - c[1] - c[2]>> : c \in {d \in (1 .. n) \X (0 .. n) : d[1] + d[2] <= n}}

FirstBatches ==
  UNION {{[sizes |-> sizes, cuts |-> cuts] : cuts \in Cuts(PrefixLen + Total(sizes))} : sizes \in Sizes}

LaterBatches ==
  {[sizes |-> <<>>, cuts |-> <<2>>], [sizes |-> <<4>>, cuts |-> <<5, 1>>],
   [sizes |-> <<3>>, cuts |-> <<1, 4, 0>>]}

LastBatch == [sizes |-> <<3>>, cuts |-> <<5>>]

Feeds == {<<a, b, LastBatch>> : a \in FirstBatches, b \in LaterBatches}

-----------------------------------------------------------------------------
(* Feeds laid out as slots.                                                *)

\* Bytes, and shreds, of the first k batches of a feed.
BytesOf(feed, k) == Total([j \in 1 .. k |-> PrefixLen + Total(feed[j].sizes)])

ShredsOf(feed, k) == Total([j \in 1 .. k |-> Len(feed[j].cuts)])

Batch(feed, k) ==
  [from  |-> ShredsOf(feed, k - 1),
   to    |-> ShredsOf(feed, k) - 1,
   count |-> Len(feed[k].sizes),
   marks |-> [n \in 0 .. Len(feed[k].sizes) |->
                BytesOf(feed, k - 1) + PrefixLen + Total(SubSeq(feed[k].sizes, 1, n))]]

Slot(feed) ==
  LET payloads == FlattenSeq([k \in DOMAIN feed |-> feed[k].cuts])
  IN  [length  |-> Len(payloads),
       offset  |-> [i \in 0 .. Len(payloads) |-> Total(SubSeq(payloads, 1, i))],
       batches |-> {Batch(feed, k) : k \in DOMAIN feed}]

\* Where a count of zero may be read: the first byte of an entry is none, nor is
\* a count that is as it was sent.
Zeros(s, garbled) ==
  {o \in 0 .. s.offset[s.length] :
     \A b \in s.batches :
       /\ \A n \in 1 .. b.count : b.marks[n - 1] \notin o .. (o + PrefixLen - 1)
       /\ o = s.offset[b.from] =>
            b.count > 0 /\ \E g \in garbled : s.offset[g] < o + PrefixLen /\ o < s.offset[g + 1]}

\* At most one shred is garbled, and only one with something in it.  No count of
\* zero is read, or one at the beginning of some shred, or all that may be.
Received(s) ==
  UNION {{[length |-> s.length, offset |-> s.offset, batches |-> s.batches,
           garbled |-> g, zeros |-> z] :
            z \in {{}, Zeros(s, g)} \cup
                   {{s.offset[i]} : i \in {j \in 0 .. s.length : s.offset[j] \in Zeros(s, g)}}} :
         g \in {{}} \cup {{i} : i \in {j \in 0 .. (s.length - 1) : s.offset[j] < s.offset[j + 1]}}}

AllSlots == UNION {Received(Slot(feed)) : feed \in Feeds}
=============================================================================
