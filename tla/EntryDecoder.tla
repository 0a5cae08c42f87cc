---------------------------- MODULE EntryDecoder ----------------------------
(***************************************************************************)
(* decoder.rs byte by byte: StreamingDecoder, decode_batch and             *)
(* decode_concatenated over a slot whose batches are cut into shreds       *)
(* anywhere, through counts and entries, with empty shreds where the feed  *)
(* puts them.  SlotLedger says what these decoders make of whole shreds;   *)
(* here that is checked against the bytes.                                 *)
(*                                                                         *)
(* A byte is its offset in the slot.  A batch is a serialized Vec<Entry>:  *)
(* a count of PrefixLen bytes, then the entries.  A position in a buffer   *)
(* is the offset of the byte there.                                        *)
(***************************************************************************)
EXTENDS Integers

CONSTANTS
  Slots,           \* slots as sent, and the shreds of them that arrived garbled
  PrefixLen,       \* bytes of the count (8)
  MinEntry,        \* bytes of the smallest entry (48)
  MAX_ENTRY_COUNT

\* The shreds 0 .. length - 1 cut the bytes of the slot: shred i begins at
\* offset[i], what it holds ends before offset[i + 1].
Cut(s) ==
  /\ s.length \in Nat \ {0}
  /\ s.offset \in [0 .. s.length -> Nat]
  /\ \A i, j \in 0 .. s.length : i <= j => s.offset[i] <= s.offset[j]
  /\ \A o \in s.offset[0] .. (s.offset[s.length] - 1) :
       \E i \in 0 .. (s.length - 1) : s.offset[i] <= o /\ o < s.offset[i + 1]

\* A batch is the shreds from .. to: its count ends at marks[0], its n-th entry
\* at marks[n].  Shreds with nothing in them come behind its first bytes.
Serialized(s, b) ==
  /\ b.from \in 0 .. (s.length - 1) /\ b.to \in b.from .. (s.length - 1)
  /\ s.offset[b.from] < s.offset[b.from + 1]
  /\ b.count \in 0 .. MAX_ENTRY_COUNT
  /\ b.marks \in [0 .. b.count -> Nat]
  /\ b.marks[0] = s.offset[b.from] + PrefixLen
  /\ b.marks[b.count] = s.offset[b.to + 1]
  /\ \A m, n \in 0 .. b.count : m <= n => b.marks[m] + (n - m) * MinEntry <= b.marks[n]

ASSUME SizeAssumption ==
  PrefixLen \in Nat \ {0} /\ MinEntry \in Nat \ {0} /\ MAX_ENTRY_COUNT \in Nat

\* Every shred is in one batch.  Only bytes can be garbled.
ASSUME SlotAssumption ==
  \A s \in Slots :
    /\ Cut(s)
    /\ \A b \in s.batches : Serialized(s, b)
    /\ \A i \in 0 .. (s.length - 1) : \E b \in s.batches : i \in b.from .. b.to
    /\ \A b, c \in s.batches : b # c => (b.from .. b.to) \cap (c.from .. c.to) = {}
    /\ s.garbled \subseteq {i \in 0 .. (s.length - 1) : s.offset[i] < s.offset[i + 1]}

\* Bytes that read as a count of zero where no such count was sent: a count that
\* is garbled, or the tail of a tick entry.  Each entry has a byte, of its hash,
\* that no count of zero reaches over.
ASSUME ZeroAssumption ==
  \A s \in Slots :
    /\ s.zeros \subseteq Nat
    /\ \A b \in s.batches :
         /\ s.offset[b.from] \in s.zeros =>
              /\ b.count > 0
              /\ \E g \in s.garbled : /\ s.offset[b.from] < s.offset[g + 1]
                                     /\ s.offset[g] < s.offset[b.from] + PrefixLen
         /\ \A n \in 1 .. b.count :
              \E z \in b.marks[n - 1] .. (b.marks[n] - 1) :
                \A o \in s.zeros : z < o \/ o + PrefixLen <= z

VARIABLES
  slot,            \* the slot being received
  first, next,     \* buffer: the payloads of the shreds first .. next - 1
  cursor,          \* first byte of the buffer that has not been read
  expected_count,  \* entries of the batch; None before the count is read
  entries_yielded,
  txs,             \* entries whose transactions the last push returned
  pc               \* where the running push is

vars == <<slot, first, next, cursor, expected_count, entries_yielded, txs, pc>>

None == -1

-----------------------------------------------------------------------------
(* The slot.                                                               *)

Shreds == 0 .. (slot.length - 1)

\* The last shred of each batch.
last == {b.to : b \in slot.batches}

BatchAt(b) == slot.offset[b.from]

BatchEnd(b) == slot.offset[b.to + 1]

Entries ==
  UNION {{[at |-> b.marks[n - 1], end |-> b.marks[n]] : n \in 1 .. b.count} : b \in slot.batches}

\* The bytes from .. to - 1 are as they were sent.
Clean(from, to) ==
  \A g \in slot.garbled : slot.offset[g + 1] <= from \/ to <= slot.offset[g]

-----------------------------------------------------------------------------
(* wincode.                                                                *)

\* What the count at o may read as.  A garbled count is zero or implausible;
\* bytes that are no count may pass for one, but not the last before an entry.
CountsAt(o) ==
  LET B == {b \in slot.batches : BatchAt(b) = o}
  IN  IF B # {} /\ Clean(o, o + PrefixLen) THEN {b.count : b \in B}
      ELSE IF o \in slot.zeros THEN {0}
      ELSE {MAX_ENTRY_COUNT + 1}
             \cup (IF \E e \in Entries : e.at = o + PrefixLen THEN {} ELSE {1})

\* Deserializing an Entry from the bytes o .. end - 1 gives the entry that is
\* there, or one of two errors.  Other bytes never pass for an entry.
EntryReads(o, end) == {e \in Entries : e.at = o /\ e.end <= end /\ Clean(o, e.end)}

ReadErrors(o, end) ==
  IF EntryReads(o, end) # {} THEN {}
  ELSE IF Clean(o, end) /\ \E e \in Entries : e.at = o THEN {"truncated"}
  ELSE {"truncated", "corrupt"}

-----------------------------------------------------------------------------
(* StreamingDecoder.                                                       *)

End == slot.offset[next]

Return(label) == pc' = label /\ UNCHANGED <<slot, first, next>>

\* Mutant: entries_yielded is not set back.
reset_partly(shred) ==
  /\ first' = shred /\ next' = shred
  /\ cursor' = slot.offset[shred]
  /\ expected_count' = None
  /\ entries_yielded' = entries_yielded

\* The buffer is emptied; the next shred pushed will be its first.
reset(shred) ==
  /\ first' = shred /\ next' = shred
  /\ cursor' = slot.offset[shred]
  /\ expected_count' = None
  /\ entries_yielded' = 0

\* The accumulator feeds the shreds of one batch in order.
push ==
  /\ pc = "idle"
  /\ next \in Shreds
  /\ (first .. (next - 1)) \cap last = {}
  /\ next' = next + 1
  /\ txs' = {}
  /\ pc' = "count"
  /\ UNCHANGED <<slot, first, cursor, expected_count, entries_yielded>>

\* The count of the batch is read once; a push without one returns nothing.
ReadCount ==
  /\ pc = "count"
  /\ IF expected_count = None /\ End >= cursor + PrefixLen
       THEN \E count \in CountsAt(cursor) :
              IF count > MAX_ENTRY_COUNT
                THEN Return("failed") /\ UNCHANGED <<cursor, expected_count>>
                ELSE /\ cursor' = cursor + PrefixLen
                     /\ expected_count' = count
                     /\ Return("entries")
       ELSE /\ Return(IF expected_count = None THEN "idle" ELSE "entries")
            /\ UNCHANGED <<cursor, expected_count>>
  /\ UNCHANGED <<entries_yielded, txs>>

\* Mutant: one entry more than the count is read.
MoreEntries_inclusive == entries_yielded <= expected_count /\ cursor < End

MoreEntries == entries_yielded < expected_count /\ cursor < End

ReadEntry ==
  /\ pc = "entries"
  /\ MoreEntries
  /\ \E e \in EntryReads(cursor, End) : cursor' = e.end /\ txs' = txs \cup {e.at}
  /\ entries_yielded' = entries_yielded + 1
  /\ UNCHANGED <<slot, first, next, expected_count, pc>>

\* The rest of the entry is not there yet.
EntryTruncated ==
  /\ pc = "entries"
  /\ MoreEntries
  /\ "truncated" \in ReadErrors(cursor, End)
  /\ Return("idle")
  /\ UNCHANGED <<cursor, expected_count, entries_yielded, txs>>

\* An error loses what the same push has read before it.
EntryCorrupt ==
  /\ pc = "entries"
  /\ MoreEntries
  /\ "corrupt" \in ReadErrors(cursor, End)
  /\ txs' = {}
  /\ Return("failed")
  /\ UNCHANGED <<cursor, expected_count, entries_yielded>>

EntriesDone ==
  /\ pc = "entries"
  /\ ~ MoreEntries
  /\ Return("idle")
  /\ UNCHANGED <<cursor, expected_count, entries_yielded, txs>>

\* advance_streaming drops the buffer after an error and goes on behind it ...
ResetAfterError ==
  /\ pc = "failed"
  /\ reset(next)
  /\ pc' = "idle"
  /\ txs' = {}
  /\ UNCHANGED slot

\* ... complete_batch drops it to go on at a batch behind what was fed.
ResetForBatch ==
  /\ pc = "idle"
  /\ \E b \in last : b + 1 >= next /\ reset(b + 1)
  /\ txs' = {}
  /\ UNCHANGED <<slot, pc>>

Init ==
  /\ slot \in Slots
  /\ first = 0 /\ next = 0
  /\ cursor = slot.offset[0]
  /\ expected_count = None
  /\ entries_yielded = 0
  /\ txs = {}
  /\ pc = "idle"

Next ==
  \/ push \/ ReadCount \/ ReadEntry \/ EntryTruncated \/ EntryCorrupt \/ EntriesDone
  \/ ResetAfterError \/ ResetForBatch

Spec == Init /\ [][Next]_vars

-----------------------------------------------------------------------------
(* decode_batch and decode_concatenated.                                   *)

\* Mutant: entries are taken to hold a transaction, which doubles them.
validate_vec_prefix_large(count, len) ==
  len >= PrefixLen /\ count <= MAX_ENTRY_COUNT /\ count * 2 * MinEntry <= len

validate_vec_prefix(count, len) ==
  len >= PrefixLen /\ count <= MAX_ENTRY_COUNT /\ count * MinEntry <= len

extract_txs(b) == {e.at : e \in {x \in Entries : BatchAt(b) <= x.at /\ x.at < BatchEnd(b)}}

\* The Vec<Entry> that can be deserialized from the bytes o .. end - 1, if any:
\* where it ends and its transactions.  A count of zero is all of an empty Vec.
VecReads(o, end) ==
  {[end |-> BatchEnd(b), txs |-> extract_txs(b)] :
     b \in {c \in slot.batches :
              /\ BatchAt(c) = o /\ BatchEnd(c) <= end /\ Clean(o, BatchEnd(c))
              /\ validate_vec_prefix(c.count, end - o)}}
  \cup {[end |-> z + PrefixLen, txs |-> {}] :
          z \in {x \in slot.zeros : x = o /\ validate_vec_prefix(0, end - o)}}

decode_batch(o, end) == UNION {v.txs : v \in VecReads(o, end)}

\* Mutant: a Vec without entries ends the loop.
decode_concatenated_nonempty(o, end) ==
  LET rest[p \in o .. end] ==
        UNION {v.txs \cup rest[v.end] : v \in {w \in VecReads(p, end) : w.txs # {}}}
  IN  rest[o]

decode_concatenated(o, end) ==
  LET rest[p \in o .. end] == UNION {v.txs \cup rest[v.end] : v \in VecReads(p, end)}
  IN  rest[o]

-----------------------------------------------------------------------------
(* Properties.                                                             *)

\* The shred that holds byte o.
Holding(o) == CHOOSE i \in Shreds : slot.offset[i] <= o /\ o < slot.offset[i + 1]

LastShred == CHOOSE i \in Shreds : i + 1 \notin Shreds

\* The bytes o .. q - 1 read as one count of zero after the other.
ZeroRun(o, q) ==
  \E n \in 0 .. (q - o) :
    q = o + n * PrefixLen /\ \A k \in 0 .. (n - 1) : o + k * PrefixLen \in slot.zeros

\* The same slot shred by shred: one transaction per entry.
Ledger == INSTANCE SlotLedger WITH
  LastIdx     <- LastShred,
  Boundary    <- last \ {LastShred},
  BatchEnds   <- {Holding(BatchEnd(b) - 1) : b \in slot.batches},
  Txs         <- {e.at : e \in Entries},
  EndsIn      <- [t \in {e.at : e \in Entries} |->
                    Holding((CHOOSE e \in Entries : e.at = t).end - 1)],
  Garbled     <- slot.garbled,
  ZeroCounts  <- {b.from : b \in {c \in slot.batches : BatchAt(c) \in slot.zeros}},
  ZeroTails   <- {i \in Shreds : \E b \in slot.batches :
                    i \in (b.from + 1) .. b.to /\ ZeroRun(slot.offset[i], BatchEnd(b))},
  FecIds      <- {},
  NumData     <- [f \in {} |-> 1],
  NumCoding   <- [f \in {} |-> 0],
  Unbuildable <- {}

\* However the batch is cut, a push returns the entries that its shred
\* completes, no more and no less, as long as the buffer is a clean prefix of
\* the batch, and nothing otherwise; a clean prefix is never an error.
PushYields ==
  LET held == first .. (next - 1)
  IN  /\ (pc = "idle" /\ held # {}) =>
           txs = IF Ledger!StreamReads(held, next - 1) THEN Ledger!EndingIn({next - 1}) ELSE {}
      /\ pc = "failed" => ~ Ledger!StreamReads(held, next - 1) /\ txs = {}

\* decode_batch on the payloads of a run of shreds that starts a batch reads
\* that batch if it is clean and whole in it, whatever follows.  Otherwise it
\* hands over nothing; it returns an empty vector and not None, which counts as
\* decoded, if the count is garbled as zero.
BatchReadsWhole ==
  next = 0 =>
    \A lo, hi \in Shreds :
      (lo <= hi /\ Ledger!StartsBatch(lo)) =>
        LET o == slot.offset[lo]
            end == slot.offset[hi + 1]
        IN  /\ decode_batch(o, end) = Ledger!decode_batch(lo, hi)
            /\ hi \in last => (VecReads(o, end) # {} <=> Ledger!BatchReads(lo, hi))

\* decode_concatenated on the payloads of any run of shreds reads the batches
\* at its front that are clean and whole, past empty batches and empty shreds.
\* Of a run that begins inside a batch it reads them only if what is left of that
\* batch reads as counts of zero.
ConcatReadsFront ==
  next = 0 =>
    \A lo, hi \in Shreds :
      lo <= hi =>
        decode_concatenated(slot.offset[lo], slot.offset[hi + 1]) =
          Ledger!decode_concatenated(lo, hi)

-----------------------------------------------------------------------------
(* The invariant behind PushYields.                                        *)

Held == first .. (next - 1)

TypeOK ==
  /\ first \in 0 .. slot.length /\ next \in first .. slot.length
  /\ cursor \in Nat /\ entries_yielded \in Nat
  /\ expected_count \in Nat \cup {None}
  /\ pc \in {"idle", "count", "entries", "failed"}

\* The buffer holds the first shreds of batch b as they were sent.
Prefix(b) == b.from = first /\ Held \cap slot.garbled = {}

\* A push past a shred that ends a batch is preceded by a reset.
OneBatch == (first .. (next - 2)) \cap last = {}

\* What is read next has been tried with the shreds before this one.
Tried == IF pc \in {"count", "entries"} THEN next - 1 ELSE next

\* Nothing is read of an empty buffer, and nothing before the count.
CountFirst ==
  /\ pc \in {"count", "entries"} => Held # {}
  /\ expected_count = None =>
       /\ pc # "entries" /\ txs = {}
       /\ cursor = slot.offset[first] /\ entries_yielded = 0
       /\ pc # "failed" => slot.offset[Tried] < cursor + PrefixLen

\* Of a prefix of a batch, the entries read are the first ones, those that the
\* shreds tried complete, and the push has read the ones of its own shred.
ReadsInOrder ==
  \A b \in slot.batches :
    (Prefix(b) /\ expected_count # None) =>
      /\ pc # "failed"
      /\ expected_count = b.count
      /\ entries_yielded <= b.count
      /\ cursor = b.marks[entries_yielded] /\ cursor <= End
      /\ \A n \in 1 .. b.count : n > entries_yielded => b.marks[n] > slot.offset[Tried]
      /\ txs = {b.marks[n - 1] : n \in {m \in 1 .. entries_yielded :
                                            b.marks[m] > slot.offset[next - 1]}}

\* Of anything else, nothing is read and nothing will be: the entries counted
\* have been read, or no entry as it was sent begins at the cursor.
Stuck ==
  (expected_count # None /\ \A b \in slot.batches : ~ Prefix(b)) =>
    /\ txs = {}
    /\ \/ entries_yielded >= expected_count
       \/ \A e \in Entries : e.at = cursor => ~ Clean(e.at, e.end)

\* The cursor, the count and the number of entries read agree with the shreds in
\* the buffer: try_deserialize reads each entry once, in order, and not from bytes
\* that arrived garbled or that follow a reset in the middle of a batch.
DecoderInv ==
  /\ TypeOK /\ OneBatch /\ CountFirst /\ ReadsInOrder /\ Stuck
  /\ pc = "failed" => txs = {} /\ \A b \in slot.batches : ~ Prefix(b)
=============================================================================
