----------------------------- MODULE SlotLedger -----------------------------
(***************************************************************************)
(* One slot as the feed sends it, and what the decoders make of its bytes. *)
(*                                                                         *)
(* A slot is the data shreds 0 .. LastIdx.  A shred flagged DATA_COMPLETE  *)
(* closes an entry batch (one serialized Vec<Entry>); the last shred of    *)
(* the slot carries LAST_IN_SLOT.  Bytes are abstracted to the indices of  *)
(* the shreds that hold them: a buffer is the set of indices whose         *)
(* payloads were appended to it, always in ascending order.                *)
(***************************************************************************)
EXTENDS Integers, FiniteSets

CONSTANTS
  LastIdx,     \* index of the data shred flagged LAST_IN_SLOT
  Boundary,    \* the other shreds flagged DATA_COMPLETE: each closes a batch
  BatchEnds,   \* shreds that hold the last byte of a batch; what follows them
               \* up to the boundary is padding, shreds with an empty payload
  Txs,         \* the signed transactions of the slot
  EndsIn,      \* [Txs -> DataIdx]: the shred holding the last byte of the
               \* entry the transaction is in
  Garbled,     \* shreds whose payload does not deserialize
  ZeroCounts,  \* first shreds of the batches whose count arrived garbled as zero
  ZeroTails,   \* shreds from which the rest of the batch reads as counts of zero
  FecIds,      \* fec_set_index of each FEC set of the slot
  NumData,     \* [FecIds -> 1..]: data shreds of the set (num_data_shreds)
  NumCoding,   \* [FecIds -> 0..]: coding shreds of the set the feed sends
  Unbuildable  \* sets whose Reed-Solomon reconstruction returns Err

DataIdx == 0 .. LastIdx

\* The data shreds a FEC set covers.
FecRange(f) == f .. (f + NumData[f] - 1)

ASSUME LedgerAssumption ==
  /\ LastIdx \in Nat
  /\ Boundary \subseteq 0 .. (LastIdx - 1)
  /\ EndsIn \in [Txs -> DataIdx]
  /\ Garbled \subseteq DataIdx
  /\ BatchEnds \subseteq DataIdx

ASSUME FecAssumption ==
  /\ FecIds \subseteq DataIdx
  /\ NumData \in [FecIds -> Nat \ {0}]
  /\ NumCoding \in [FecIds -> Nat]
  /\ Unbuildable \subseteq FecIds
  /\ \A f \in FecIds : FecRange(f) \subseteq DataIdx
  /\ \A f, g \in FecIds : f # g => FecRange(f) \cap FecRange(g) = {}
  /\ DataIdx = UNION {FecRange(f) : f \in FecIds}

-----------------------------------------------------------------------------
(* Batches.                                                                *)

StartsBatch(i) == i = 0 \/ i - 1 \in Boundary

\* The shreds lo .. hi all belong to the batch lo is in.
SameBatch(lo, hi) == (lo .. (hi - 1)) \cap Boundary = {}

\* Shreds behind the last byte of their batch: their payload is empty.
Padding == {i \in DataIdx : \E e \in BatchEnds : e < i /\ SameBatch(e, i)}

\* Every closed batch, and the batch of every transaction, has a last byte.
ASSUME BatchAssumption ==
  /\ \A b \in Boundary : \E e \in BatchEnds : e <= b /\ SameBatch(e, b)
  /\ \A t \in Txs : \E e \in BatchEnds : EndsIn[t] <= e /\ SameBatch(EndsIn[t], e)
  /\ Padding \cap Garbled = {}

\* A count as it was sent is not in question, and no batch is all zero.
ASSUME ZeroAssumption ==
  /\ \A i \in ZeroCounts : StartsBatch(i) /\ \E g \in Garbled : i <= g /\ SameBatch(i, g)
  /\ ZeroTails \subseteq {i \in DataIdx : ~ StartsBatch(i)}

\* Transactions of entries that become whole in one of the shreds S.
EndingIn(S) == {t \in Txs : EndsIn[t] \in S}

-----------------------------------------------------------------------------
(* decoder.rs                                                              *)

\* StreamingDecoder::push of shred i, the buffer being B with i included,
\* yields the entries that i completes exactly when B is a clean prefix of
\* one batch.  Otherwise the entry count or an entry is read from the wrong
\* bytes: the push yields nothing, and may or may not notice the corruption.
StreamReads(B, i) ==
  /\ B \cap Garbled = {}
  /\ \E lo \in 0 .. i : B = lo .. i /\ StartsBatch(lo) /\ SameBatch(lo, i)

\* decode_batch on the payloads of lo .. hi deserializes one Vec<Entry> from
\* the front and ignores what follows it; None when that Vec is not readable.
\* A count of zero is an empty Vec.  Asked of a run that ends a batch.
BatchReads(lo, hi) ==
  /\ StartsBatch(lo)
  /\ \/ lo \in ZeroCounts
     \/ \E e \in BatchEnds \cap (lo .. hi) :
          SameBatch(lo, e) /\ (lo .. e) \cap Garbled = {}

\* Mutant: the payload of the last shred is left out.
decode_batch_short(lo, hi) ==
  {t \in EndingIn(lo .. (hi - 1)) :
      /\ StartsBatch(lo)
      /\ \E e \in BatchEnds \cap (EndsIn[t] .. hi) :
            SameBatch(lo, e) /\ (lo .. e) \cap Garbled = {}}

decode_batch(lo, hi) ==
  {t \in EndingIn(lo .. hi) :
      /\ StartsBatch(lo)
      /\ \E e \in BatchEnds \cap (EndsIn[t] .. hi) :
            SameBatch(lo, e) /\ (lo .. e) \cap Garbled = {}}

\* Where reading gets to the beginning of a batch from the front of shred lo:
\* at once, or past what is left of the batch before, padding, which adds no
\* bytes, or bytes that are read as one empty Vec after the other.
ReadFrom(lo) ==
  {s \in DataIdx : /\ StartsBatch(s)
                   /\ s = lo \/ (lo < s /\ lo \in Padding \cup ZeroTails /\ SameBatch(lo, s - 1))}

\* decode_concatenated on the payloads of lo .. hi reads one Vec<Entry> after
\* the other, and stops at the first that is cut short or unreadable.
decode_concatenated(lo, hi) ==
  {t \in EndingIn(lo .. hi) :
      \E s \in ReadFrom(lo), e \in BatchEnds \cap (EndsIn[t] .. hi) :
        /\ s <= EndsIn[t]
        /\ SameBatch(EndsIn[t], e) /\ (s .. e) \cap Garbled = {}}
=============================================================================
