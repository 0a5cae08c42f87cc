------------------------- MODULE EntryDecoderProofs -------------------------
(***************************************************************************)
(* What StreamingDecoder and decode_batch make of the bytes of a slot is   *)
(* what SlotLedger says they make of its shreds, for every slot, however   *)
(* its batches are cut and whichever shreds arrived garbled.               *)
(***************************************************************************)
EXTENDS EntryDecoder, TLAPS, WellFoundedInduction

-----------------------------------------------------------------------------
(* The layout of a slot.                                                   *)

\* The assumption about the slots, for the one being received.
LEMMA SlotFits ==
  ASSUME slot \in Slots
  PROVE  /\ slot.length \in Nat \ {0}
         /\ slot.offset \in [0 .. slot.length -> Nat]
         /\ \A i, j \in 0 .. slot.length : i <= j => slot.offset[i] <= slot.offset[j]
         /\ \A b \in slot.batches : Serialized(slot, b)
         /\ \A i \in Shreds : \E b \in slot.batches : i \in b.from .. b.to
         /\ \A g \in slot.garbled : g \in Shreds /\ slot.offset[g] < slot.offset[g + 1]
BY SlotAssumption DEF Cut, Shreds

\* The first and the last shred of a batch, its count and the marks in it.
LEMMA BatchFits ==
  ASSUME slot \in Slots, NEW b \in slot.batches
  PROVE  /\ b.from \in Nat /\ b.to \in Nat /\ b.from <= b.to /\ b.to < slot.length
         /\ slot.offset[b.from] < slot.offset[b.from + 1]
         /\ b.count \in Nat /\ b.count <= MAX_ENTRY_COUNT
         /\ \A n \in 0 .. b.count : b.marks[n] \in Nat
         /\ b.marks[0] = BatchAt(b) + PrefixLen /\ b.marks[b.count] = BatchEnd(b)
         /\ BatchAt(b) \in Nat /\ BatchEnd(b) \in Nat
<1>1. Serialized(slot, b) /\ slot.length \in Nat \ {0} /\ slot.offset \in [0 .. slot.length -> Nat]
  BY SlotFits
<1>2. b.from \in Nat /\ b.to \in Nat /\ b.from <= b.to /\ b.to < slot.length
  <2>1. b.from \in 0 .. (slot.length - 1) /\ b.to \in b.from .. (slot.length - 1)
    BY <1>1 DEF Serialized
  <2> QED
    BY <1>1, <2>1
<1>3. BatchAt(b) \in Nat /\ BatchEnd(b) \in Nat
  <2>1. b.from \in 0 .. slot.length /\ b.to + 1 \in 0 .. slot.length
    BY <1>1, <1>2
  <2> QED
    BY <1>1, <2>1 DEF BatchAt, BatchEnd
<1>4. b.count \in Nat /\ b.count <= MAX_ENTRY_COUNT
  <2>1. b.count \in 0 .. MAX_ENTRY_COUNT
    BY <1>1 DEF Serialized
  <2> QED
    BY <2>1, SizeAssumption
<1>5. \A n \in 0 .. b.count : b.marks[n] \in Nat
  <2>1. b.marks \in [0 .. b.count -> Nat]
    BY <1>1 DEF Serialized
  <2> QED
    BY <2>1
<1>6. /\ slot.offset[b.from] < slot.offset[b.from + 1]
      /\ b.marks[0] = BatchAt(b) + PrefixLen /\ b.marks[b.count] = BatchEnd(b)
  BY <1>1 DEF Serialized, BatchAt, BatchEnd
<1> QED
  BY <1>2, <1>3, <1>4, <1>5, <1>6

\* Entries follow each other: a later mark is a greater one.
LEMMA MarksRise ==
  ASSUME slot \in Slots, NEW b \in slot.batches,
         NEW m \in 0 .. b.count, NEW n \in 0 .. b.count, m < n
  PROVE  b.marks[m] < b.marks[n]
<1>1. b.marks[m] + (n - m) * MinEntry <= b.marks[n]
  BY SlotFits, BatchFits DEF Serialized
<1>2. \A x \in Nat \ {0}, y \in Nat \ {0} : x * y \in Nat /\ x * y >= 1
  OBVIOUS
<1>3. n - m \in Nat \ {0}
  BY BatchFits
<1>4. (n - m) * MinEntry \in Nat /\ (n - m) * MinEntry >= 1
  BY <1>2, <1>3, SizeAssumption
<1> QED
  BY <1>1, <1>4, BatchFits

\* Two batches share no shred.
LEMMA BatchesApart ==
  ASSUME slot \in Slots, NEW b \in slot.batches, NEW c \in slot.batches, b # c
  PROVE  b.to < c.from \/ c.to < b.from
<1>1. (b.from .. b.to) \cap (c.from .. c.to) = {}
  BY SlotAssumption
<1>2. /\ b.from \in Int /\ b.to \in Int /\ b.from <= b.to
      /\ c.from \in Int /\ c.to \in Int /\ c.from <= c.to
  BY BatchFits
<1>3. SUFFICES ASSUME b.to >= c.from, c.to >= b.from
               PROVE  FALSE
  BY <1>2
<1>4. CASE b.from <= c.from
  BY <1>1, <1>2, <1>3, <1>4, c.from \in (b.from .. b.to) \cap (c.from .. c.to)
<1>5. CASE c.from <= b.from
  BY <1>1, <1>2, <1>3, <1>5, b.from \in (b.from .. b.to) \cap (c.from .. c.to)
<1> QED
  BY <1>2, <1>4, <1>5

\* Offsets do not fall.
LEMMA OffsetsRise ==
  ASSUME slot \in Slots, NEW i \in 0 .. slot.length, NEW j \in 0 .. slot.length, i <= j
  PROVE  slot.offset[i] \in Nat /\ slot.offset[j] \in Nat /\ slot.offset[i] <= slot.offset[j]
BY SlotFits

\* Two batches share no byte, and each has at least the bytes of its count.
LEMMA BytesApart ==
  ASSUME slot \in Slots, NEW b \in slot.batches, NEW c \in slot.batches
  PROVE  /\ BatchAt(b) + PrefixLen <= BatchEnd(b)
         /\ b # c => BatchEnd(b) <= BatchAt(c) \/ BatchEnd(c) <= BatchAt(b)
         /\ b.to < c.from => BatchEnd(b) <= BatchAt(c)
<1>1. \A d, x \in slot.batches : d.to < x.from => BatchEnd(d) <= BatchAt(x)
  <2> TAKE d, x \in slot.batches
  <2>1. HAVE d.to < x.from
  <2>0. slot.length \in Nat
    BY SlotFits
  <2>2. d.to \in Nat /\ d.to < slot.length /\ x.from \in Nat /\ x.from <= x.to /\ x.to \in Nat /\ x.to < slot.length
    BY BatchFits
  <2>3. d.to + 1 \in 0 .. slot.length /\ x.from \in 0 .. slot.length /\ d.to + 1 <= x.from
    BY <2>0, <2>1, <2>2
  <2> QED
    BY <2>3, OffsetsRise DEF BatchEnd, BatchAt
<1>2. b.marks[0] <= b.marks[b.count]
  <2>1. CASE b.count = 0
    BY <2>1, BatchFits
  <2>2. CASE b.count # 0
    BY <2>2, BatchFits, MarksRise
  <2> QED
    BY <2>1, <2>2
<1> QED
  BY <1>1, <1>2, BatchesApart, BatchFits

\* A batch, and what lies before and behind its first byte, is told by its offset.
LEMMA SameStart ==
  ASSUME slot \in Slots, NEW b \in slot.batches, NEW c \in slot.batches,
         BatchAt(b) = BatchAt(c)
  PROVE  b = c
BY BytesApart, BatchFits, SizeAssumption

\* Where an entry lies.
LEMMA EntryFits ==
  ASSUME slot \in Slots, NEW b \in slot.batches, NEW n \in 1 .. b.count
  PROVE  /\ [at |-> b.marks[n - 1], end |-> b.marks[n]] \in Entries
         /\ b.marks[n - 1] \in Nat /\ b.marks[n] \in Nat
         /\ BatchAt(b) + PrefixLen <= b.marks[n - 1]
         /\ b.marks[n - 1] < b.marks[n] /\ b.marks[n] <= BatchEnd(b)
<1>1. b.count \in Nat /\ n - 1 \in 0 .. b.count /\ n \in 0 .. b.count /\ n - 1 < n
  BY BatchFits
<1>2. [at |-> b.marks[n - 1], end |-> b.marks[n]] \in Entries
  BY DEF Entries
<1>3. b.marks[n - 1] < b.marks[n] /\ b.marks[n - 1] \in Nat /\ b.marks[n] \in Nat
  BY <1>1, MarksRise, BatchFits
<1>4. b.marks[0] <= b.marks[n - 1]
  <2>1. CASE n = 1
    BY <2>1, <1>3
  <2>2. CASE n # 1
    <3>1. 0 \in 0 .. b.count /\ 0 < n - 1
      BY <1>1, <2>2
    <3>2. b.marks[0] < b.marks[n - 1]
      BY <1>1, <3>1, MarksRise
    <3> QED
      BY <1>1, <3>2, <3>1, BatchFits
  <2> QED
    BY <2>1, <2>2
<1>5. b.marks[n] <= b.marks[b.count]
  <2>1. CASE n = b.count
    BY <2>1, <1>3
  <2>2. CASE n # b.count
    <3>1. b.count \in 0 .. b.count /\ n < b.count
      BY <1>1, <2>2
    <3>2. b.marks[n] < b.marks[b.count]
      BY <1>1, <3>1, MarksRise
    <3> QED
      BY <1>1, <3>2, <3>1, BatchFits
  <2> QED
    BY <2>1, <2>2
<1> QED
  BY <1>2, <1>3, <1>4, <1>5, BatchFits

\* Every entry is one of a batch.
LEMMA EntryIn ==
  ASSUME NEW e \in Entries
  PROVE  \E b \in slot.batches : \E n \in 1 .. b.count :
           e = [at |-> b.marks[n - 1], end |-> b.marks[n]]
BY DEF Entries

\* An entry that begins where batch b has bytes is an entry of b.
LEMMA EntryOfBatch ==
  ASSUME slot \in Slots, NEW b \in slot.batches, NEW e \in Entries,
         BatchAt(b) < e.end, e.at < BatchEnd(b)
  PROVE  \E n \in 1 .. b.count : e = [at |-> b.marks[n - 1], end |-> b.marks[n]]
<1>0. PICK c \in slot.batches : \E k \in 1 .. c.count :
        e = [at |-> c.marks[k - 1], end |-> c.marks[k]]
  BY EntryIn
<1>1. PICK n \in 1 .. c.count : e = [at |-> c.marks[n - 1], end |-> c.marks[n]]
  BY <1>0
<1>2. BatchAt(c) + PrefixLen <= e.at /\ e.at < e.end /\ e.end <= BatchEnd(c)
      /\ e.at \in Nat /\ e.end \in Nat
  BY <1>1, EntryFits
<1>3. b = c
  BY <1>2, BytesApart, BatchFits, SizeAssumption
<1> QED
  BY <1>1, <1>3

\* Two entries do not begin at the same byte.
LEMMA EntryThere ==
  ASSUME slot \in Slots, NEW b \in slot.batches, NEW n \in 1 .. b.count,
         NEW e \in Entries, e.at = b.marks[n - 1]
  PROVE  e = [at |-> b.marks[n - 1], end |-> b.marks[n]]
<1>0. PICK c \in slot.batches : \E k \in 1 .. c.count :
        e = [at |-> c.marks[k - 1], end |-> c.marks[k]]
  BY EntryIn
<1>1. PICK m \in 1 .. c.count : e = [at |-> c.marks[m - 1], end |-> c.marks[m]]
  BY <1>0
<1>2. /\ BatchAt(c) + PrefixLen <= e.at /\ e.at < e.end /\ e.end <= BatchEnd(c)
      /\ e.at \in Nat /\ e.end \in Nat
  BY <1>1, EntryFits
<1>3. /\ BatchAt(b) + PrefixLen <= b.marks[n - 1] /\ b.marks[n - 1] < b.marks[n]
      /\ b.marks[n] <= BatchEnd(b) /\ b.marks[n] \in Nat
  BY EntryFits
<1>4. b = c
  BY <1>2, <1>3, BytesApart, BatchFits, SizeAssumption
<1>5. /\ b.count \in Nat /\ m \in Nat /\ n \in Nat
      /\ m - 1 \in 0 .. b.count /\ n - 1 \in 0 .. b.count
  BY <1>4, BatchFits
<1>6. ~ (m - 1 < n - 1) /\ ~ (n - 1 < m - 1)
  <2>1. \A i, j \in 0 .. b.count : i < j => b.marks[i] < b.marks[j]
    BY MarksRise
  <2>2. b.marks[m - 1] = b.marks[n - 1] /\ b.marks[n - 1] \in Nat
    BY <1>1, <1>2, <1>4
  <2> QED
    BY <1>5, <2>1, <2>2
<1>7. m = n
  BY <1>5, <1>6
<1> QED
  BY <1>1, <1>4, <1>7

-----------------------------------------------------------------------------
(* The same slot shred by shred.                                           *)

\* The last shred of the slot.
LEMMA LastShredIs ==
  ASSUME slot \in Slots
  PROVE  LastShred = slot.length - 1
<1>1. slot.length \in Nat \ {0}
  BY SlotFits
<1>2. \A i \in Shreds : i + 1 \notin Shreds <=> i = slot.length - 1
  BY <1>1 DEF Shreds
<1>3. slot.length - 1 \in Shreds
  BY <1>1 DEF Shreds
<1> QED
  BY <1>2, <1>3 DEF LastShred

\* A shred behind the last one of a batch is the first one of a batch.
LEMMA Starts ==
  ASSUME slot \in Slots, NEW i \in Shreds
  PROVE  Ledger!StartsBatch(i) <=> \E b \in slot.batches : b.from = i
<1>1. slot.length \in Nat \ {0} /\ i \in Nat /\ i < slot.length
  BY SlotFits DEF Shreds
<1>2. Ledger!StartsBatch(i) <=> i = 0 \/ i - 1 \in last
  BY <1>1, LastShredIs DEF Ledger!StartsBatch
<1>3. PICK b \in slot.batches : i \in b.from .. b.to
  BY SlotFits
<1>4. b.from \in Nat /\ b.to \in Nat /\ b.from <= i /\ i <= b.to
  BY <1>1, <1>3, BatchFits
<1>5. ASSUME i = 0 PROVE b.from = i
  BY <1>4, <1>5
<1>6. ASSUME i - 1 \in last PROVE b.from = i
  <2>1. PICK c \in slot.batches : c.to = i - 1
    BY <1>6 DEF last
  <2>2. c # b /\ c.from \in Nat /\ c.from <= c.to
    BY <1>1, <1>4, <2>1, BatchFits
  <2> QED
    BY <1>1, <1>4, <2>1, <2>2, BatchesApart
<1>7. ASSUME NEW c \in slot.batches, c.from = i, i # 0 PROVE i - 1 \in last
  <2>1. i - 1 \in Shreds
    BY <1>1, <1>7 DEF Shreds
  <2>2. PICK d \in slot.batches : i - 1 \in d.from .. d.to
    BY <2>1, SlotFits
  <2>3. d.from \in Nat /\ d.to \in Nat /\ d.from <= i - 1 /\ i - 1 <= d.to
    BY <1>1, <2>2, BatchFits
  <2>4. d # c /\ c.to \in Nat /\ c.from <= c.to
    BY <1>1, <1>7, <2>3, BatchFits
  <2>5. d.to = i - 1
    BY <1>1, <1>7, <2>3, <2>4, BatchesApart
  <2> QED
    BY <2>5 DEF last
<1> QED
  BY <1>2, <1>5, <1>6, <1>7

\* Shreds behind lo are in the batch of lo as far as its last one.
LEMMA Together ==
  ASSUME slot \in Slots, NEW b \in slot.batches,
         NEW lo \in Shreds, NEW hi \in Shreds, b.from <= lo, lo <= b.to, lo <= hi
  PROVE  Ledger!SameBatch(lo, hi) <=> hi <= b.to
<1>1. slot.length \in Nat \ {0} /\ lo \in Nat /\ hi \in Nat /\ hi < slot.length
  BY SlotFits DEF Shreds
<1>2. b.from \in Nat /\ b.to \in Nat
  BY BatchFits
<1>3. Ledger!SameBatch(lo, hi) <=> \A i \in lo .. (hi - 1) : i \notin last
  BY <1>1, LastShredIs DEF Ledger!SameBatch
<1>4. ASSUME hi <= b.to, NEW i \in lo .. (hi - 1), i \in last PROVE FALSE
  <2>1. PICK c \in slot.batches : c.to = i
    BY <1>4 DEF last
  <2>2. b.from <= c.to /\ c.to < b.to /\ c.from \in Nat /\ c.to \in Nat /\ c.from <= c.to
    BY <1>1, <1>2, <1>4, <2>1, BatchFits
  <2> QED
    BY <1>2, <2>2, BatchesApart
<1>5. ASSUME hi > b.to PROVE b.to \in lo .. (hi - 1) /\ b.to \in last
  BY <1>1, <1>2, <1>5 DEF last
<1> QED
  BY <1>1, <1>2, <1>3, <1>4, <1>5

\* The shred that holds a byte is the one that begins at it or before it and
\* ends behind it.
LEMMA HoldingIs ==
  ASSUME slot \in Slots, NEW o \in Nat,
         slot.offset[0] <= o, o < slot.offset[slot.length]
  PROVE  /\ Holding(o) \in Shreds
         /\ slot.offset[Holding(o)] <= o /\ o < slot.offset[Holding(o) + 1]
<1>1. slot.length \in Nat \ {0} /\ slot.offset[0] \in Nat /\ slot.offset[slot.length] \in Nat
  BY SlotFits
<1>2. o \in slot.offset[0] .. (slot.offset[slot.length] - 1)
  BY <1>1
<1>3. \E i \in Shreds : slot.offset[i] <= o /\ o < slot.offset[i + 1]
  BY <1>2, SlotAssumption DEF Cut, Shreds
<1> QED
  BY <1>3 DEF Holding

\* Shreds up to hi hold the bytes up to the end of hi.
LEMMA HeldUpTo ==
  ASSUME slot \in Slots, NEW o \in Nat,
         slot.offset[0] <= o, o < slot.offset[slot.length], NEW i \in 0 .. slot.length
  PROVE  Holding(o) < i <=> o < slot.offset[i]
<1>1. slot.length \in Nat /\ Holding(o) \in Nat /\ i \in Nat /\ Holding(o) < slot.length
  BY HoldingIs, SlotFits DEF Shreds
<1>2. slot.offset[Holding(o)] <= o /\ o < slot.offset[Holding(o) + 1]
  BY HoldingIs
<1>3. /\ slot.offset[Holding(o)] \in Nat /\ slot.offset[Holding(o) + 1] \in Nat
      /\ slot.offset[i] \in Nat
  BY <1>1, OffsetsRise
<1>4. ASSUME Holding(o) < i PROVE slot.offset[Holding(o) + 1] <= slot.offset[i]
  BY <1>1, <1>4, OffsetsRise
<1>5. ASSUME i <= Holding(o) PROVE slot.offset[i] <= slot.offset[Holding(o)]
  BY <1>1, <1>5, OffsetsRise
<1> QED
  BY <1>1, <1>2, <1>3, <1>4, <1>5

-----------------------------------------------------------------------------
(* The buffer.                                                             *)

\* Where the shreds of the buffer begin and end.
LEMMA Buffer ==
  ASSUME slot \in Slots, TypeOK
  PROVE  /\ slot.length \in Nat \ {0}
         /\ first \in Nat /\ next \in Nat /\ first <= next /\ next <= slot.length
         /\ Held # {} <=> first < next
         /\ slot.offset[first] \in Nat /\ End \in Nat /\ slot.offset[first] <= End
         /\ first < next => /\ slot.offset[next - 1] \in Nat
                            /\ slot.offset[first] <= slot.offset[next - 1]
                            /\ slot.offset[next - 1] <= End
<1>1. slot.length \in Nat \ {0}
  BY SlotFits
<1>2. first \in Nat /\ next \in Nat /\ first <= next /\ next <= slot.length
  BY <1>1 DEF TypeOK
<1>3. Held # {} <=> first < next
  BY <1>2 DEF Held
<1>4. slot.offset[first] \in Nat /\ End \in Nat /\ slot.offset[first] <= End
  BY <1>1, <1>2, OffsetsRise DEF End
<1>5. ASSUME first < next
      PROVE  /\ slot.offset[next - 1] \in Nat
             /\ slot.offset[first] <= slot.offset[next - 1]
             /\ slot.offset[next - 1] <= End
  BY <1>1, <1>2, <1>5, OffsetsRise DEF End
<1> QED
  BY <1>1, <1>2, <1>3, <1>4, <1>5

\* Bytes from before a garbled shred to behind its beginning are not clean.
LEMMA Spoilt ==
  ASSUME slot \in Slots, NEW g \in slot.garbled, NEW from \in Nat, NEW to \in Nat,
         from <= slot.offset[g], slot.offset[g] < to
  PROVE  ~ Clean(from, to)
<1>1. slot.offset[g] < slot.offset[g + 1] /\ g \in Shreds /\ slot.length \in Nat
  BY SlotFits
<1>2. slot.offset[g] \in Nat /\ slot.offset[g + 1] \in Nat
  BY <1>1, OffsetsRise DEF Shreds
<1> QED
  BY <1>1, <1>2 DEF Clean

\* The bytes of a buffer without garbled shreds are clean.
LEMMA HeldClean ==
  ASSUME slot \in Slots, TypeOK, Held \cap slot.garbled = {},
         NEW from \in Nat, NEW to \in Nat, slot.offset[first] <= from, to <= End
  PROVE  Clean(from, to)
<1> SUFFICES ASSUME NEW g \in slot.garbled
             PROVE  slot.offset[g + 1] <= from \/ to <= slot.offset[g]
  BY DEF Clean
<1>1. g \in Nat /\ g < slot.length /\ slot.length \in Nat
  BY SlotFits DEF Shreds
<1>2. g < first \/ next <= g
  BY <1>1, Buffer DEF Held
<1>3. slot.offset[g] \in Nat /\ slot.offset[g + 1] \in Nat
  BY <1>1, OffsetsRise
<1>4. ASSUME g < first PROVE slot.offset[g + 1] <= slot.offset[first]
  BY <1>1, <1>4, Buffer, OffsetsRise
<1>5. ASSUME next <= g PROVE End <= slot.offset[g]
  BY <1>1, <1>5, Buffer, OffsetsRise DEF End
<1> QED
  BY <1>2, <1>3, <1>4, <1>5, Buffer

\* The buffer does not reach past the batch it begins in.
LEMMA WithinBatch ==
  ASSUME slot \in Slots, TypeOK, OneBatch, first < next,
         NEW b \in slot.batches, b.from <= first, first <= b.to
  PROVE  next <= b.to + 1 /\ End <= BatchEnd(b)
<1>1. b.to \in Nat /\ b.from \in Nat /\ b.to < slot.length
  BY BatchFits
<1>2. b.to \in last
  BY DEF last
<1>3. next <= b.to + 1
  <2>1. SUFFICES ASSUME b.to + 1 < next PROVE FALSE
    BY <1>1, Buffer
  <2>2. b.to \in first .. (next - 2)
    BY <1>1, <2>1, Buffer
  <2> QED
    BY <1>2, <2>2 DEF OneBatch
<1>4. End <= BatchEnd(b)
  BY <1>1, <1>3, Buffer, OffsetsRise DEF End, BatchEnd
<1> QED
  BY <1>3, <1>4

\* The count at the beginning of a clean prefix is read as it was sent.
LEMMA CountAtStart ==
  ASSUME slot \in Slots, TypeOK, NEW b \in slot.batches, Prefix(b),
         cursor = slot.offset[first], End >= cursor + PrefixLen
  PROVE  CountsAt(cursor) = {b.count}
<1>1. cursor \in Nat /\ cursor + PrefixLen \in Nat
  BY SizeAssumption DEF TypeOK
<1>2. Clean(cursor, cursor + PrefixLen)
  BY <1>1, HeldClean, Buffer DEF Prefix
<1>3. BatchAt(b) = cursor
  BY DEF Prefix, BatchAt
<1>4. {c \in slot.batches : BatchAt(c) = cursor} = {b}
  BY <1>3, SameStart
<1> QED
  BY <1>2, <1>4 DEF CountsAt

\* Anywhere else the count is zero or implausible, or no entry follows it.
LEMMA CountElsewhere ==
  ASSUME slot \in Slots, TypeOK, OneBatch, first < next,
         \A b \in slot.batches : ~ Prefix(b),
         cursor = slot.offset[first], slot.offset[next - 1] < cursor + PrefixLen,
         End >= cursor + PrefixLen,
         NEW count \in CountsAt(cursor), count <= MAX_ENTRY_COUNT
  PROVE  count = 0 \/ (count = 1 /\ \A e \in Entries : e.at # cursor + PrefixLen)
<1>1. cursor \in Nat /\ cursor + PrefixLen \in Nat /\ PrefixLen \in Nat \ {0}
      /\ MAX_ENTRY_COUNT \in Nat
  BY SizeAssumption DEF TypeOK
<1>2. ASSUME NEW b \in slot.batches, b.from = first
      PROVE  ~ Clean(cursor, cursor + PrefixLen)
  <2>1. PICK g \in slot.garbled : g \in Held
    BY <1>2 DEF Prefix
  <2>2. g \in Nat /\ first <= g /\ g <= next - 1 /\ next - 1 \in Nat /\ next - 1 <= slot.length
    BY <2>1, Buffer DEF Held
  <2>3. slot.offset[first] <= slot.offset[g] /\ slot.offset[g] <= slot.offset[next - 1]
        /\ slot.offset[g] \in Nat
    BY <2>2, Buffer, OffsetsRise
  <2> QED
    BY <1>1, <2>3, Spoilt, Buffer
<1>3. ASSUME \A b \in slot.batches : b.from # first, NEW c \in slot.batches, BatchAt(c) = cursor
      PROVE  FALSE
  <2>1. first \in Shreds
    BY Buffer DEF Shreds
  <2>2. PICK b \in slot.batches : first \in b.from .. b.to
    BY <2>1, SlotFits
  <2>3. b.from \in Nat /\ b.to \in Nat /\ b.from < first /\ b.from <= first /\ first <= b.to
    BY <1>3, <2>2, BatchFits, Buffer
  <2>4. End <= BatchEnd(b)
    BY <2>3, WithinBatch
  <2>5. BatchAt(b) < cursor
    <3>1. slot.offset[b.from] < slot.offset[b.from + 1]
      BY BatchFits
    <3>2. slot.offset[b.from + 1] <= slot.offset[first] /\ slot.offset[b.from + 1] \in Nat
      BY <2>3, Buffer, OffsetsRise
    <3> QED
      BY <3>1, <3>2, Buffer, BatchFits DEF BatchAt
  <2>6. BatchEnd(b) <= BatchAt(c) \/ BatchEnd(c) <= BatchAt(b)
    BY <1>1, <1>3, <2>5, BytesApart, BatchFits
  <2> QED
    BY <1>1, <1>3, <2>4, <2>5, <2>6, BytesApart, BatchFits, Buffer
<1>4. ~ ({b \in slot.batches : BatchAt(b) = cursor} # {} /\ Clean(cursor, cursor + PrefixLen))
  BY <1>2, <1>3
<1>5. count \in {0, MAX_ENTRY_COUNT + 1}
        \cup (IF \E e \in Entries : e.at = cursor + PrefixLen THEN {} ELSE {1})
  BY <1>4 DEF CountsAt
<1> QED
  BY <1>1, <1>5

-----------------------------------------------------------------------------
(* DecoderInv is inductive.                                                *)

Inv == slot \in Slots /\ DecoderInv

\* Nothing that is said of the slot alone changes.
LEMMA SlotKept ==
  ASSUME slot' = slot
  PROVE  /\ Shreds' = Shreds /\ last' = last /\ Entries' = Entries
         /\ \A from, to : Clean(from, to)' <=> Clean(from, to)
BY DEF Shreds, last, Entries, Clean

\* Being the prefix of a batch depends on the shreds of the buffer only.
LEMMA PrefixKept ==
  ASSUME slot' = slot, first' = first, next' = next
  PROVE  Held' = Held /\ End' = End /\ \A b : Prefix(b)' <=> Prefix(b)
BY DEF Held, End, Prefix

\* An empty buffer satisfies the invariant.
LEMMA EmptyBuffer ==
  ASSUME slot \in Slots, NEW s \in 0 .. slot.length,
         first = s, next = s, cursor = slot.offset[s],
         expected_count = None, entries_yielded = 0, txs = {}, pc = "idle"
  PROVE  DecoderInv
<1>1. s \in Nat /\ slot.length \in Nat /\ slot.offset[s] \in Nat /\ PrefixLen \in Nat \ {0}
  BY SlotFits, SizeAssumption
<1>2. TypeOK
  BY <1>1 DEF TypeOK
<1>3. OneBatch
  BY <1>1 DEF OneBatch
<1>4. CountFirst
  BY <1>1 DEF CountFirst, Tried
<1>5. ReadsInOrder /\ Stuck
  BY DEF ReadsInOrder, Stuck
<1> QED
  BY <1>2, <1>3, <1>4, <1>5 DEF DecoderInv

\* The next unread entry, if there is one, is whole no earlier than in the shreds
\* that have not been tried; it begins at the cursor.
LEMMA NextEntry ==
  ASSUME Inv, NEW b \in slot.batches, Prefix(b), expected_count # None,
         entries_yielded < expected_count
  PROVE  /\ entries_yielded + 1 \in 1 .. b.count
         /\ b.marks[entries_yielded + 1] > slot.offset[Tried]
         /\ b.marks[entries_yielded + 1] \in Nat
         /\ cursor < b.marks[entries_yielded + 1]
         /\ slot.offset[first] <= cursor
         /\ [at |-> cursor, end |-> b.marks[entries_yielded + 1]] \in Entries
         /\ \A e \in Entries : e.at = cursor =>
              e = [at |-> cursor, end |-> b.marks[entries_yielded + 1]]
         /\ \A n \in 1 .. b.count : n > entries_yielded =>
              b.marks[n] \in Nat /\ b.marks[entries_yielded + 1] <= b.marks[n]
<1>1. /\ slot \in Slots /\ entries_yielded \in Nat /\ cursor \in Nat /\ b.from = first
      /\ expected_count = b.count /\ cursor = b.marks[entries_yielded]
      /\ \A n \in 1 .. b.count : n > entries_yielded => b.marks[n] > slot.offset[Tried]
  BY DEF Inv, DecoderInv, TypeOK, ReadsInOrder, Prefix
<1>2. b.count \in Nat
  BY <1>1, BatchFits
<1>3. entries_yielded + 1 \in 1 .. b.count /\ entries_yielded + 1 > entries_yielded
  BY <1>1, <1>2
<1>4. entries_yielded = (entries_yielded + 1) - 1
  BY <1>1
<1> DEFINE k == entries_yielded + 1
<1>5. /\ [at |-> b.marks[k - 1], end |-> b.marks[k]] \in Entries
      /\ b.marks[k] \in Nat /\ b.marks[k - 1] < b.marks[k]
      /\ BatchAt(b) + PrefixLen <= b.marks[k - 1]
      /\ \A e \in Entries : e.at = b.marks[k - 1] => e = [at |-> b.marks[k - 1], end |-> b.marks[k]]
  <2>1. k \in 1 .. b.count
    BY <1>3
  <2> QED
    BY <1>1, <2>1, EntryFits, EntryThere
<1>6. slot.offset[first] <= cursor
  BY <1>1, <1>4, <1>5, BatchFits, SizeAssumption DEF BatchAt
<1>7. ASSUME NEW n \in 1 .. b.count, n > entries_yielded
      PROVE  b.marks[n] \in Nat /\ b.marks[k] <= b.marks[n]
  <2>1. n \in 0 .. b.count /\ k \in 0 .. b.count /\ n \in Nat /\ k \in Nat /\ k <= n
    BY <1>1, <1>2, <1>3, <1>7
  <2>2. b.marks[n] \in Nat
    BY <1>1, <2>1, BatchFits
  <2>3. CASE n = k
    BY <2>2, <2>3
  <2>4. CASE k < n
    BY <1>1, <1>5, <2>1, <2>2, <2>4, MarksRise
  <2> QED
    BY <2>1, <2>2, <2>3, <2>4
<1> QED
  BY <1>1, <1>3, <1>4, <1>5, <1>6, <1>7

\* push: the shred that is appended is one of the batch, or nothing of the buffer
\* was a prefix.  A garbled one spoils the entry that is read next.
LEMMA PushKeeps ==
  ASSUME Inv, push
  PROVE  Inv'
<1> USE DEF Inv, DecoderInv
<1>1. /\ slot' = slot /\ first' = first /\ next' = next + 1 /\ cursor' = cursor
      /\ expected_count' = expected_count /\ entries_yielded' = entries_yielded
      /\ txs' = {} /\ pc = "idle" /\ pc' = "count" /\ next \in Shreds
      /\ (first .. (next - 1)) \cap last = {}
  BY DEF push
<1>2. /\ slot \in Slots /\ slot.length \in Nat /\ first \in Nat /\ next \in Nat
      /\ first <= next /\ next + 1 <= slot.length
  BY <1>1, Buffer DEF Shreds
<1>3. TypeOK'
  BY <1>1, <1>2 DEF TypeOK
<1>4. OneBatch'
  BY <1>1, <1>2, SlotKept DEF OneBatch
<1>5. Held \subseteq Held' /\ next \in Held' /\ \A i \in Held' : i \in Held \/ i = next
  BY <1>1, <1>2 DEF Held
<1>6. Tried = next /\ Tried' = next
  BY <1>1, <1>2 DEF Tried
<1>7. /\ slot.offset[next] \in Nat /\ End = slot.offset[next]
      /\ End' = slot.offset[next + 1] /\ End' \in Nat /\ End <= End'
  BY <1>1, <1>2, OffsetsRise DEF End
<1>8. CountFirst'
  BY <1>1, <1>5, <1>6 DEF CountFirst
<1>9. ReadsInOrder'
  <2> SUFFICES ASSUME NEW b \in slot.batches, Prefix(b)', expected_count # None
               PROVE  /\ expected_count = b.count
                      /\ entries_yielded <= b.count
                      /\ cursor = b.marks[entries_yielded] /\ cursor <= End'
                      /\ \A n \in 1 .. b.count : n > entries_yielded => b.marks[n] > slot.offset[next]
                      /\ {} = {b.marks[n - 1] : n \in {m \in 1 .. entries_yielded :
                                                        b.marks[m] > slot.offset[next]}}
    <3>1. (next + 1) - 1 = next
      BY <1>2
    <3> QED
      BY <1>1, <1>6, <3>1 DEF ReadsInOrder
  <2>1. Prefix(b)
    BY <1>1, <1>5 DEF Prefix
  <2>2. /\ expected_count = b.count /\ entries_yielded <= b.count
        /\ cursor = b.marks[entries_yielded] /\ cursor <= End
        /\ \A n \in 1 .. b.count : n > entries_yielded => b.marks[n] > slot.offset[next]
    BY <1>6, <2>1 DEF ReadsInOrder
  <2>3. ASSUME NEW m \in 1 .. entries_yielded PROVE ~ (b.marks[m] > slot.offset[next])
    <3>1. /\ entries_yielded \in Nat /\ cursor \in Nat /\ b.count \in Nat
      BY <1>2, BatchFits DEF TypeOK
    <3>2. m \in 0 .. b.count /\ entries_yielded \in 0 .. b.count /\ m <= entries_yielded /\ m \in Nat
      BY <2>2, <2>3, <3>1
    <3>3. b.marks[m] \in Nat
      BY <1>2, <3>2, BatchFits
    <3>4. m < entries_yielded => b.marks[m] < b.marks[entries_yielded]
      BY <1>2, <3>2, MarksRise
    <3> QED
      BY <1>7, <2>2, <3>1, <3>2, <3>3, <3>4
  <2>4. cursor <= End'
    BY <1>2, <1>7, <2>2 DEF TypeOK
  <2> QED
    BY <2>2, <2>3, <2>4
<1>10. Stuck'
  <2> SUFFICES ASSUME expected_count # None, \A b \in slot.batches : ~ Prefix(b)'
               PROVE  \/ entries_yielded >= expected_count
                      \/ \A e \in Entries : e.at = cursor => ~ Clean(e.at, e.end)
    BY <1>1, SlotKept DEF Stuck
  <2>1. CASE \A b \in slot.batches : ~ Prefix(b)
    BY <2>1 DEF Stuck
  <2>2. ASSUME NEW b \in slot.batches, Prefix(b), entries_yielded < expected_count,
               NEW e \in Entries, e.at = cursor
        PROVE  ~ Clean(e.at, e.end)
    <3>1. next \in slot.garbled
      BY <1>1, <1>5, <2>2 DEF Prefix
    <3>2. e.end > slot.offset[next] /\ e.end \in Nat
      <4>1. /\ b.marks[entries_yielded + 1] > slot.offset[Tried]
            /\ b.marks[entries_yielded + 1] \in Nat
            /\ e = [at |-> cursor, end |-> b.marks[entries_yielded + 1]]
        BY <2>2, NextEntry
      <4> QED
        BY <1>6, <4>1
    <3>3. cursor <= slot.offset[next] /\ cursor \in Nat
      BY <1>7, <2>2 DEF ReadsInOrder, TypeOK
    <3> QED
      BY <1>2, <1>7, <2>2, <3>1, <3>2, <3>3, Spoilt
  <2>3. expected_count \in Nat /\ entries_yielded \in Nat
    BY DEF TypeOK
  <2> QED
    BY <2>1, <2>2, <2>3
<1> QED
  BY <1>1, <1>3, <1>4, <1>8, <1>9, <1>10

\* A plausible count is read: that of the batch if the buffer is a prefix of it.
LEMMA CountRead ==
  ASSUME Inv, ReadCount, expected_count = None, End >= cursor + PrefixLen,
         NEW count \in CountsAt(cursor), count <= MAX_ENTRY_COUNT,
         cursor' = cursor + PrefixLen, expected_count' = count, pc' = "entries",
         slot' = slot, first' = first, next' = next
  PROVE  Inv'
<1> USE DEF Inv, DecoderInv
<1>1. /\ entries_yielded' = entries_yielded /\ txs' = txs /\ pc = "count"
      /\ entries_yielded = 0 /\ txs = {} /\ cursor = slot.offset[first]
      /\ Held # {} /\ slot.offset[Tried] < cursor + PrefixLen
  BY DEF ReadCount, CountFirst
<1>2. /\ slot \in Slots /\ first < next /\ Tried = next - 1 /\ Tried' = next - 1
      /\ slot.offset[next - 1] \in Nat /\ cursor \in Nat /\ PrefixLen \in Nat
      /\ End \in Nat /\ MAX_ENTRY_COUNT \in Nat
  BY <1>1, Buffer, SizeAssumption DEF Tried, TypeOK
<1>3. count \in Nat
  <2>1. \A b \in slot.batches : b.count \in Nat
    BY BatchFits
  <2> QED
    BY <1>2, <2>1 DEF CountsAt
<1>4. TypeOK'
  BY <1>1, <1>2, <1>3 DEF TypeOK
<1>5. OneBatch'
  BY SlotKept DEF OneBatch
<1>6. CountFirst'
  BY <1>1, <1>3, PrefixKept DEF CountFirst, None
<1>7. ReadsInOrder'
  <2> SUFFICES ASSUME NEW b \in slot.batches, Prefix(b)
               PROVE  /\ count = b.count
                      /\ 0 <= b.count
                      /\ cursor + PrefixLen = b.marks[0] /\ cursor + PrefixLen <= End
                      /\ \A n \in 1 .. b.count : n > 0 => b.marks[n] > slot.offset[next - 1]
                      /\ {} = {b.marks[n - 1] : n \in {m \in 1 .. 0 :
                                                        b.marks[m] > slot.offset[next - 1]}}
    BY <1>1, <1>2, PrefixKept DEF ReadsInOrder
  <2>1. count = b.count
    BY <1>1, CountAtStart
  <2>2. 0 <= b.count /\ cursor + PrefixLen = b.marks[0]
    BY <1>1, BatchFits DEF Prefix, BatchAt
  <2>3. ASSUME NEW n \in 1 .. b.count PROVE b.marks[n] > slot.offset[next - 1]
    <3>1. /\ b.marks[n - 1] \in Nat /\ b.marks[n] \in Nat
          /\ BatchAt(b) + PrefixLen <= b.marks[n - 1] /\ b.marks[n - 1] < b.marks[n]
      BY <1>2, EntryFits
    <3>2. BatchAt(b) = cursor
      BY <1>1 DEF Prefix, BatchAt
    <3> QED
      BY <1>1, <1>2, <3>1, <3>2
  <2> QED
    BY <2>1, <2>2, <2>3
<1>8. Stuck'
  <2> SUFFICES ASSUME \A b \in slot.batches : ~ Prefix(b)
               PROVE  \/ entries_yielded >= count
                      \/ \A e \in Entries : e.at = cursor + PrefixLen => ~ Clean(e.at, e.end)
    BY <1>1, PrefixKept, SlotKept DEF Stuck
  <2>1. count = 0 \/ (count = 1 /\ \A e \in Entries : e.at # cursor + PrefixLen)
    BY <1>1, <1>2, CountElsewhere
  <2> QED
    BY <1>1, <2>1
<1> QED
  BY <1>4, <1>5, <1>6, <1>7, <1>8

\* An implausible count is not that of a prefix of a batch.
LEMMA CountRefused ==
  ASSUME Inv, ReadCount, expected_count = None, End >= cursor + PrefixLen,
         NEW count \in CountsAt(cursor), count > MAX_ENTRY_COUNT,
         cursor' = cursor, expected_count' = expected_count, pc' = "failed",
         slot' = slot, first' = first, next' = next
  PROVE  Inv'
<1> USE DEF Inv, DecoderInv
<1>1. /\ entries_yielded' = entries_yielded /\ txs' = txs
      /\ entries_yielded = 0 /\ txs = {} /\ cursor = slot.offset[first]
  BY DEF ReadCount, CountFirst
<1>2. TypeOK'
  BY <1>1 DEF TypeOK
<1>3. OneBatch'
  BY SlotKept DEF OneBatch
<1>4. CountFirst'
  BY <1>1 DEF CountFirst
<1>5. ReadsInOrder' /\ Stuck'
  BY DEF ReadsInOrder, Stuck
<1>6. \A b \in slot.batches : ~ Prefix(b)
  <2> SUFFICES ASSUME NEW b \in slot.batches, Prefix(b) PROVE FALSE
    OBVIOUS
  <2>1. count = b.count
    BY <1>1, CountAtStart
  <2> QED
    BY <2>1, BatchFits, SizeAssumption
<1> QED
  BY <1>1, <1>2, <1>3, <1>4, <1>5, <1>6, PrefixKept

\* No count is read: the bytes are too few, or it was read by an earlier push.
LEMMA CountSkipped ==
  ASSUME Inv, pc = "count", expected_count # None \/ ~ (End >= cursor + PrefixLen),
         pc' = (IF expected_count = None THEN "idle" ELSE "entries"),
         slot' = slot, first' = first, next' = next, cursor' = cursor,
         expected_count' = expected_count, entries_yielded' = entries_yielded, txs' = txs
  PROVE  Inv'
<1> USE DEF Inv, DecoderInv
<1>1. TypeOK'
  BY DEF TypeOK
<1>2. OneBatch'
  BY SlotKept DEF OneBatch
<1>3. first < next /\ End \in Nat /\ cursor \in Nat /\ PrefixLen \in Nat
  BY Buffer, SizeAssumption DEF CountFirst, TypeOK
<1>4. CASE expected_count = None
  <2>1. pc' = "idle" /\ Tried' = next /\ slot.offset[next] < cursor + PrefixLen
    BY <1>3, <1>4 DEF Tried, End
  <2>2. CountFirst'
    BY <1>4, <2>1, PrefixKept DEF CountFirst
  <2>3. ReadsInOrder' /\ Stuck'
    BY <1>4 DEF ReadsInOrder, Stuck
  <2> QED
    BY <1>1, <1>2, <2>1, <2>2, <2>3
<1>5. CASE expected_count # None
  <2>1. pc' = "entries" /\ Tried' = Tried
    BY <1>5 DEF Tried
  <2>2. CountFirst'
    BY <1>5, <2>1, PrefixKept DEF CountFirst
  <2>3. ReadsInOrder'
    BY <2>1, PrefixKept DEF ReadsInOrder
  <2>4. Stuck'
    BY PrefixKept, SlotKept DEF Stuck
  <2> QED
    BY <1>1, <1>2, <2>1, <2>2, <2>3, <2>4
<1> QED
  BY <1>4, <1>5

\* Reading the count of a batch keeps the invariant, whatever is read.
LEMMA ReadCountKeeps ==
  ASSUME Inv, ReadCount
  PROVE  Inv'
<1>1. /\ slot' = slot /\ first' = first /\ next' = next /\ pc = "count"
      /\ entries_yielded' = entries_yielded /\ txs' = txs
  BY DEF ReadCount, Return
<1>2. CASE expected_count = None /\ End >= cursor + PrefixLen
  <2>1. PICK count \in CountsAt(cursor) :
          IF count > MAX_ENTRY_COUNT
            THEN pc' = "failed" /\ UNCHANGED <<cursor, expected_count>>
            ELSE cursor' = cursor + PrefixLen /\ expected_count' = count /\ pc' = "entries"
    BY <1>2 DEF ReadCount, Return
  <2>2. CASE count > MAX_ENTRY_COUNT
    BY <1>1, <1>2, <2>1, <2>2, CountRefused
  <2>3. CASE ~ (count > MAX_ENTRY_COUNT)
    <3>1. \A b \in slot.batches : b.count \in Nat
      BY BatchFits DEF Inv
    <3>2. count \in Nat /\ MAX_ENTRY_COUNT \in Nat
      BY <3>1, SizeAssumption DEF CountsAt
    <3>3. count <= MAX_ENTRY_COUNT
      BY <2>3, <3>2
    <3> QED
      BY <1>1, <1>2, <2>1, <2>3, <3>3, CountRead
  <2> QED
    BY <2>2, <2>3
<1>3. CASE ~ (expected_count = None /\ End >= cursor + PrefixLen)
  <2>1. /\ pc' = (IF expected_count = None THEN "idle" ELSE "entries")
        /\ cursor' = cursor /\ expected_count' = expected_count
    BY <1>3 DEF ReadCount, Return
  <2> QED
    BY <1>1, <1>3, <2>1, CountSkipped
<1> QED
  BY <1>2, <1>3

\* An entry is only read of a prefix of a batch, and is the next one of it.
LEMMA ReadEntryKeeps ==
  ASSUME Inv, ReadEntry
  PROVE  Inv'
<1> USE DEF Inv, DecoderInv
<1>1. PICK e \in EntryReads(cursor, End) : cursor' = e.end /\ txs' = txs \cup {e.at}
  BY DEF ReadEntry
<1>2. /\ slot' = slot /\ first' = first /\ next' = next /\ pc = "entries" /\ pc' = pc
      /\ expected_count' = expected_count /\ entries_yielded' = entries_yielded + 1
      /\ entries_yielded < expected_count
  BY DEF ReadEntry, MoreEntries
<1>3. e \in Entries /\ e.at = cursor /\ e.end <= End /\ Clean(e.at, e.end)
  BY <1>1 DEF EntryReads
<1>4. /\ expected_count # None /\ expected_count \in Nat /\ entries_yielded \in Nat
      /\ Tried = next - 1 /\ Tried' = next - 1
  BY <1>2 DEF CountFirst, TypeOK, Tried
<1>5. PICK b \in slot.batches : Prefix(b)
  BY <1>2, <1>3, <1>4 DEF Stuck
<1>6. /\ entries_yielded + 1 \in 1 .. b.count
      /\ b.marks[entries_yielded + 1] > slot.offset[next - 1]
      /\ e = [at |-> cursor, end |-> b.marks[entries_yielded + 1]]
      /\ b.marks[entries_yielded + 1] \in Nat
  BY <1>2, <1>3, <1>4, <1>5, NextEntry
<1>7. TypeOK'
  BY <1>1, <1>2, <1>4, <1>6 DEF TypeOK
<1>8. OneBatch'
  BY <1>2, SlotKept DEF OneBatch
<1>9. CountFirst'
  BY <1>2, <1>4, PrefixKept DEF CountFirst
<1>10. ReadsInOrder'
  <2> SUFFICES ASSUME NEW c \in slot.batches, Prefix(c)
               PROVE  /\ expected_count = c.count
                      /\ entries_yielded + 1 <= c.count
                      /\ cursor' = c.marks[entries_yielded + 1] /\ cursor' <= End
                      /\ \A n \in 1 .. c.count :
                           n > entries_yielded + 1 => c.marks[n] > slot.offset[next - 1]
                      /\ txs' = {c.marks[n - 1] : n \in {m \in 1 .. (entries_yielded + 1) :
                                                          c.marks[m] > slot.offset[next - 1]}}
    BY <1>2, <1>4, PrefixKept DEF ReadsInOrder
  <2>1. c = b
    BY <1>5, SameStart DEF Prefix, BatchAt
  <2>2. /\ expected_count = b.count /\ cursor = b.marks[entries_yielded]
        /\ \A n \in 1 .. b.count : n > entries_yielded => b.marks[n] > slot.offset[next - 1]
        /\ txs = {b.marks[n - 1] : n \in {m \in 1 .. entries_yielded :
                                           b.marks[m] > slot.offset[next - 1]}}
    BY <1>4, <1>5 DEF ReadsInOrder
  <2>3. entries_yielded + 1 <= b.count /\ b.count \in Nat
    BY <1>2, <1>4, <2>2
  <2>4. cursor' = b.marks[entries_yielded + 1] /\ cursor' <= End
    BY <1>1, <1>3, <1>6
  <2>5. {m \in 1 .. (entries_yielded + 1) : b.marks[m] > slot.offset[next - 1]} =
          {m \in 1 .. entries_yielded : b.marks[m] > slot.offset[next - 1]}
            \cup {entries_yielded + 1}
    BY <1>4, <1>6
  <2>6. e.at = b.marks[(entries_yielded + 1) - 1]
    BY <1>3, <1>4, <2>2
  <2>7. txs' = {b.marks[n - 1] : n \in {m \in 1 .. (entries_yielded + 1) :
                                         b.marks[m] > slot.offset[next - 1]}}
    BY <1>1, <2>2, <2>5, <2>6
  <2>8. \A n \in 1 .. b.count :
          n > entries_yielded + 1 => b.marks[n] > slot.offset[next - 1]
    BY <1>4, <2>2, <2>3
  <2> QED
    BY <2>1, <2>2, <2>3, <2>4, <2>7, <2>8
<1>11. Stuck'
  BY <1>2, <1>5, PrefixKept DEF Stuck
<1> QED
  BY <1>2, <1>7, <1>8, <1>9, <1>10, <1>11

\* The loop over the entries ends without an error: the next entry of a prefix of
\* a batch does not end in the buffer.
LEMMA EntriesEnd ==
  ASSUME Inv, pc = "entries", pc' = "idle",
         slot' = slot, first' = first, next' = next, cursor' = cursor,
         expected_count' = expected_count, entries_yielded' = entries_yielded, txs' = txs,
         \A b \in slot.batches : Prefix(b) =>
           \A n \in 1 .. b.count : n > entries_yielded => b.marks[n] > End
  PROVE  Inv'
<1> USE DEF Inv, DecoderInv
<1>1. Tried' = next /\ End = slot.offset[next]
  BY DEF Tried, End
<1>2. TypeOK' /\ OneBatch' /\ CountFirst'
  BY <1>1, SlotKept, PrefixKept DEF TypeOK, OneBatch, CountFirst
<1>3. ReadsInOrder'
  BY <1>1, PrefixKept DEF ReadsInOrder
<1>4. Stuck'
  BY SlotKept, PrefixKept DEF Stuck
<1> QED
  BY <1>2, <1>3, <1>4

\* What of the rest of a clean prefix is whole is read without an error; what is
\* not is truncated, and not corrupt.
LEMMA ErrorsInPrefix ==
  ASSUME Inv, pc = "entries", MoreEntries, NEW b \in slot.batches, Prefix(b),
         NEW error \in ReadErrors(cursor, End)
  PROVE  error = "truncated" /\ b.marks[entries_yielded + 1] > End
<1>1. /\ slot \in Slots /\ TypeOK /\ Held \cap slot.garbled = {}
      /\ entries_yielded < expected_count /\ expected_count # None /\ cursor \in Nat
  BY DEF Inv, DecoderInv, MoreEntries, CountFirst, TypeOK, Prefix
<1> DEFINE e == [at |-> cursor, end |-> b.marks[entries_yielded + 1]]
<1>2. e \in Entries /\ slot.offset[first] <= cursor /\ e.end \in Nat /\ e.at = cursor
  BY <1>1, NextEntry
<1>3. EntryReads(cursor, End) = {}
  BY DEF ReadErrors
<1>4. e.end <= End => Clean(cursor, e.end)
  BY <1>1, <1>2, HeldClean
<1>5. ~ (e.end <= End)
  BY <1>2, <1>3, <1>4 DEF EntryReads
<1>6. Clean(cursor, End)
  BY <1>1, <1>2, HeldClean, Buffer
<1>7. ReadErrors(cursor, End) = {"truncated"}
  BY <1>2, <1>3, <1>6 DEF ReadErrors
<1> QED
  BY <1>1, <1>2, <1>5, <1>7, Buffer

\* A push that ends within an entry keeps the invariant.
LEMMA TruncatedKeeps ==
  ASSUME Inv, EntryTruncated
  PROVE  Inv'
<1>1. \A b \in slot.batches : Prefix(b) =>
        \A n \in 1 .. b.count : n > entries_yielded => b.marks[n] > End
  <2> SUFFICES ASSUME NEW b \in slot.batches, Prefix(b),
                      NEW n \in 1 .. b.count, n > entries_yielded
               PROVE  b.marks[n] > End
    OBVIOUS
  <2>1. b.marks[entries_yielded + 1] > End
    BY ErrorsInPrefix DEF EntryTruncated
  <2>2. expected_count # None /\ entries_yielded < expected_count
    BY DEF EntryTruncated, MoreEntries, Inv, DecoderInv, CountFirst
  <2>3. /\ b.marks[n] \in Nat /\ b.marks[entries_yielded + 1] <= b.marks[n]
        /\ b.marks[entries_yielded + 1] \in Nat
    BY <2>2, NextEntry
  <2> QED
    BY <2>1, <2>3, Buffer DEF Inv, DecoderInv
<1> QED
  BY <1>1, EntriesEnd DEF EntryTruncated, Return

\* A push that has used up its bytes, or the count, keeps the invariant.
LEMMA DoneKeeps ==
  ASSUME Inv, EntriesDone
  PROVE  Inv'
<1>1. \A b \in slot.batches : Prefix(b) =>
        \A n \in 1 .. b.count : n > entries_yielded => b.marks[n] > End
  <2> SUFFICES ASSUME NEW b \in slot.batches, Prefix(b),
                      NEW n \in 1 .. b.count, n > entries_yielded
               PROVE  b.marks[n] > End
    OBVIOUS
  <2>1. /\ expected_count # None /\ slot \in Slots /\ TypeOK /\ entries_yielded \in Nat
        /\ expected_count = b.count /\ cursor \in Nat /\ b.count \in Nat
    BY BatchFits DEF EntriesDone, Inv, DecoderInv, CountFirst, TypeOK, ReadsInOrder
  <2>2. entries_yielded < expected_count /\ ~ (cursor < End)
    BY <2>1 DEF EntriesDone, MoreEntries
  <2>3. /\ b.marks[n] \in Nat /\ b.marks[entries_yielded + 1] <= b.marks[n]
        /\ b.marks[entries_yielded + 1] \in Nat /\ cursor < b.marks[entries_yielded + 1]
    BY <2>1, <2>2, NextEntry
  <2> QED
    BY <2>1, <2>2, <2>3, Buffer
<1> QED
  BY <1>1, EntriesEnd DEF EntriesDone, Return

\* An entry that is refused was not in a prefix of a batch.
LEMMA CorruptKeeps ==
  ASSUME Inv, EntryCorrupt
  PROVE  Inv'
<1> USE DEF Inv, DecoderInv
<1>1. /\ slot' = slot /\ first' = first /\ next' = next /\ pc' = "failed" /\ txs' = {}
      /\ cursor' = cursor /\ expected_count' = expected_count
      /\ entries_yielded' = entries_yielded /\ expected_count # None
  BY DEF EntryCorrupt, Return, CountFirst
<1>2. \A b \in slot.batches : ~ Prefix(b)
  BY ErrorsInPrefix DEF EntryCorrupt
<1>3. TypeOK' /\ OneBatch' /\ CountFirst'
  BY <1>1, SlotKept DEF TypeOK, OneBatch, CountFirst
<1>4. ReadsInOrder'
  BY <1>1, <1>2, PrefixKept DEF ReadsInOrder
<1>5. Stuck'
  BY <1>1, <1>2, PrefixKept, SlotKept DEF Stuck
<1> QED
  BY <1>1, <1>2, <1>3, <1>4, <1>5, PrefixKept

\* reset leaves an empty buffer.
LEMMA ResetKeeps ==
  ASSUME Inv, NEW s \in 0 .. slot.length, reset(s), txs' = {}, pc' = "idle", slot' = slot
  PROVE  Inv'
<1>1. /\ slot \in Slots /\ s \in Nat /\ slot.length \in Nat /\ slot.offset[s] \in Nat
      /\ PrefixLen \in Nat \ {0}
  BY SlotFits, SizeAssumption DEF Inv
<1>2. /\ first' = s /\ next' = s /\ cursor' = slot.offset[s]
      /\ expected_count' = None /\ entries_yielded' = 0
  BY DEF reset
<1>3. TypeOK' /\ OneBatch'
  BY <1>1, <1>2 DEF TypeOK, OneBatch
<1>4. CountFirst'
  BY <1>1, <1>2 DEF CountFirst, Tried
<1>5. ReadsInOrder' /\ Stuck'
  BY <1>2 DEF ReadsInOrder, Stuck
<1> QED
  BY <1>1, <1>3, <1>4, <1>5 DEF Inv, DecoderInv

\* StreamingDecoder::new leaves an empty buffer.
LEMMA InitEmpty == Init => Inv
<1> SUFFICES ASSUME Init PROVE Inv
  OBVIOUS
<1>1. /\ slot \in Slots /\ first = 0 /\ next = 0 /\ cursor = slot.offset[0]
      /\ expected_count = None /\ entries_yielded = 0 /\ txs = {} /\ pc = "idle"
  BY DEF Init
<1>2. slot.length \in Nat /\ 0 \in 0 .. slot.length
  BY <1>1, SlotFits
<1> QED
  BY <1>1, <1>2, EmptyBuffer DEF Inv

\* A step of the decoder keeps the invariant.
LEMMA StepKeeps == Inv /\ [Next]_vars => Inv'
<1> SUFFICES ASSUME Inv, [Next]_vars PROVE Inv'
  OBVIOUS
<1>1. CASE push
  BY <1>1, PushKeeps
<1>2. CASE ReadCount
  BY <1>2, ReadCountKeeps
<1>3. CASE ReadEntry
  BY <1>3, ReadEntryKeeps
<1>4. CASE EntryTruncated
  BY <1>4, TruncatedKeeps
<1>5. CASE EntryCorrupt
  BY <1>5, CorruptKeeps
<1>6. CASE EntriesDone
  BY <1>6, DoneKeeps
<1>7. CASE ResetAfterError
  <2>1. next \in 0 .. slot.length
    BY Buffer DEF Inv, DecoderInv
  <2> QED
    BY <1>7, <2>1, ResetKeeps DEF ResetAfterError
<1>8. CASE ResetForBatch
  <2>1. PICK b \in last : reset(b + 1)
    BY <1>8 DEF ResetForBatch
  <2>2. PICK c \in slot.batches : c.to = b
    BY <2>1 DEF last
  <2>3. slot.length \in Nat /\ b \in Nat /\ b < slot.length
    BY <2>2, BatchFits, SlotFits DEF Inv
  <2>4. b + 1 \in 0 .. slot.length
    BY <2>3
  <2> QED
    BY <1>8, <2>1, <2>4, ResetKeeps DEF ResetForBatch
<1>9. CASE UNCHANGED vars
  <2>1. /\ slot' = slot /\ first' = first /\ next' = next /\ cursor' = cursor /\ txs' = txs
        /\ expected_count' = expected_count /\ entries_yielded' = entries_yielded /\ pc' = pc
    BY <1>9 DEF vars
  <2>2. TypeOK' /\ OneBatch' /\ Tried' = Tried /\ Held' = Held /\ End' = End
    BY <2>1, SlotKept, PrefixKept DEF Inv, DecoderInv, TypeOK, OneBatch, Tried
  <2>3. CountFirst' /\ ReadsInOrder'
    BY <2>1, <2>2, PrefixKept DEF Inv, DecoderInv, CountFirst, ReadsInOrder
  <2>4. Stuck'
    BY <2>1, PrefixKept, SlotKept DEF Inv, DecoderInv, Stuck
  <2> QED
    BY <2>1, <2>2, <2>3, <2>4, PrefixKept DEF Inv, DecoderInv
<1> QED
  BY <1>1, <1>2, <1>3, <1>4, <1>5, <1>6, <1>7, <1>8, <1>9 DEF Next

\* However the batches of a slot are cut into shreds and whichever of these are
\* garbled: the cursor, the count and the number of entries read of
\* StreamingDecoder always agree with the shreds in its buffer.
THEOREM Invariance == Spec => []DecoderInv
<1>1. Inv => DecoderInv
  BY DEF Inv
<1> QED
  BY <1>1, InitEmpty, StepKeeps, PTL DEF Spec

-----------------------------------------------------------------------------
(* Bytes and shreds.                                                       *)

\* The buffer is what SlotLedger calls readable.
LEMMA StreamReadsPrefix ==
  ASSUME Inv, first < next
  PROVE  Ledger!StreamReads(Held, next - 1) <=> \E b \in slot.batches : Prefix(b)
<1>1. /\ slot \in Slots /\ TypeOK /\ OneBatch /\ slot.length \in Nat
      /\ first \in Nat /\ next \in Nat /\ next <= slot.length
  BY Buffer DEF Inv, DecoderInv
<1>2. first \in Shreds /\ next - 1 \in Shreds /\ first <= next - 1 /\ first \in 0 .. (next - 1)
  BY <1>1 DEF Shreds
<1>3. ASSUME NEW b \in slot.batches, Prefix(b)
      PROVE  Ledger!StreamReads(Held, next - 1)
  <2>1. Ledger!StartsBatch(first)
    BY <1>1, <1>2, <1>3, Starts DEF Prefix
  <2>2. b.from <= first /\ first <= b.to /\ next - 1 <= b.to
    <3>1. b.from = first /\ b.to \in Nat /\ b.from <= b.to
      BY <1>1, <1>3, BatchFits DEF Prefix
    <3>2. next <= b.to + 1
      BY <1>1, <3>1, WithinBatch
    <3> QED
      BY <1>1, <3>1, <3>2
  <2>3. Ledger!SameBatch(first, next - 1)
    BY <1>1, <1>2, <2>2, Together
  <2>4. Held \cap slot.garbled = {} /\ Held = first .. (next - 1)
    BY <1>3 DEF Prefix, Held
  <2> QED
    BY <1>2, <2>1, <2>3, <2>4 DEF Ledger!StreamReads
<1>4. ASSUME Ledger!StreamReads(Held, next - 1)
      PROVE  \E b \in slot.batches : Prefix(b)
  <2>1. PICK lo \in 0 .. (next - 1) : Held = lo .. (next - 1) /\ Ledger!StartsBatch(lo)
    BY <1>4 DEF Ledger!StreamReads
  <2>2. lo = first
    <3>1. first \in lo .. (next - 1) /\ lo \in first .. (next - 1)
      BY <1>1, <1>2, <2>1 DEF Held
    <3> QED
      BY <1>1, <2>1, <3>1
  <2>3. Held \cap slot.garbled = {}
    BY <1>4 DEF Ledger!StreamReads
  <2> QED
    BY <1>1, <1>2, <2>1, <2>2, <2>3, Starts DEF Prefix
<1> QED
  BY <1>3, <1>4

\* The shred an entry ends in, by its last byte.
LEMMA EndsInShred ==
  ASSUME slot \in Slots, NEW e \in Entries
  PROVE  /\ (CHOOSE x \in Entries : x.at = e.at) = e
         /\ e.end - 1 \in Nat /\ e.end \in Nat /\ e.at \in Nat
         /\ slot.offset[0] <= e.end - 1 /\ e.end - 1 < slot.offset[slot.length]
<1>1. PICK b \in slot.batches : \E k \in 1 .. b.count :
        e = [at |-> b.marks[k - 1], end |-> b.marks[k]]
  BY EntryIn
<1>2. PICK n \in 1 .. b.count : e = [at |-> b.marks[n - 1], end |-> b.marks[n]]
  BY <1>1
<1>3. /\ BatchAt(b) + PrefixLen <= e.at /\ e.at < e.end /\ e.end <= BatchEnd(b)
      /\ e.at \in Nat /\ e.end \in Nat
  BY <1>2, EntryFits
<1>4. \A x \in Entries : x.at = e.at => x = e
  BY <1>2, EntryThere
<1>5. slot.offset[0] <= BatchAt(b) /\ slot.offset[0] \in Nat
  <2>1. 0 \in 0 .. slot.length /\ b.from \in 0 .. slot.length /\ 0 <= b.from
    BY BatchFits, SlotFits
  <2> QED
    BY <2>1, OffsetsRise DEF BatchAt
<1>6. BatchEnd(b) <= slot.offset[slot.length] /\ slot.offset[slot.length] \in Nat
  <2>1. slot.length \in Nat /\ b.to \in Nat /\ b.to < slot.length
    BY BatchFits, SlotFits
  <2>2. b.to + 1 \in 0 .. slot.length /\ slot.length \in 0 .. slot.length /\ b.to + 1 <= slot.length
    BY <2>1
  <2> QED
    BY <2>2, OffsetsRise DEF BatchEnd
<1>7. (CHOOSE x \in Entries : x.at = e.at) = e
  BY <1>4
<1> QED
  BY <1>3, <1>5, <1>6, <1>7, BatchFits, SizeAssumption

\* The transactions that become whole in the shreds lo .. hi are those of the
\* entries that end in their bytes.
LEMMA EndingInIs ==
  ASSUME slot \in Slots, NEW lo \in Shreds, NEW hi \in Shreds, lo <= hi
  PROVE  Ledger!EndingIn(lo .. hi) =
           {e.at : e \in {x \in Entries : slot.offset[lo] < x.end /\ x.end <= slot.offset[hi + 1]}}
<1>1. slot.length \in Nat /\ lo \in Nat /\ hi \in Nat /\ lo < slot.length /\ hi < slot.length
  BY SlotFits DEF Shreds
<1>2. ASSUME NEW e \in Entries
      PROVE  Holding(e.end - 1) \in lo .. hi <=>
               slot.offset[lo] < e.end /\ e.end <= slot.offset[hi + 1]
  <2>1. /\ e.end - 1 \in Nat /\ e.end \in Nat /\ slot.offset[0] <= e.end - 1
        /\ e.end - 1 < slot.offset[slot.length]
    BY EndsInShred
  <2>2. lo \in 0 .. slot.length /\ hi + 1 \in 0 .. slot.length
    BY <1>1
  <2>3. /\ Holding(e.end - 1) < lo <=> e.end - 1 < slot.offset[lo]
        /\ Holding(e.end - 1) < hi + 1 <=> e.end - 1 < slot.offset[hi + 1]
    BY <2>1, <2>2, HeldUpTo
  <2>4. Holding(e.end - 1) \in Shreds
    BY <2>1, HoldingIs
  <2>5. Holding(e.end - 1) \in Nat
    BY <1>1, <2>4 DEF Shreds
  <2>6. slot.offset[lo] \in Nat /\ slot.offset[hi + 1] \in Nat
    BY <2>2, SlotFits
  <2> QED
    BY <1>1, <2>1, <2>3, <2>5, <2>6
<1> DEFINE EI == [t \in {e.at : e \in Entries} |->
                    Holding((CHOOSE e \in Entries : e.at = t).end - 1)]
<1>3. \A e \in Entries : EI[e.at] = Holding(e.end - 1)
  BY EndsInShred
<1>4. Ledger!EndingIn(lo .. hi) = {t \in {e.at : e \in Entries} : EI[t] \in lo .. hi}
  BY DEF Ledger!EndingIn
<1> HIDE DEF EI
<1> QED
  BY <1>2, <1>3, <1>4

\* The entries that end in the last shred pushed are those of a clean prefix that
\* were read since it was pushed.
LEMMA YieldsOfPrefix ==
  ASSUME Inv, pc = "idle", first < next, NEW b \in slot.batches, Prefix(b)
  PROVE  txs = Ledger!EndingIn({next - 1})
<1>1. /\ slot \in Slots /\ TypeOK /\ OneBatch /\ slot.length \in Nat
      /\ first \in Nat /\ next \in Nat /\ next <= slot.length /\ End \in Nat
      /\ slot.offset[first] <= slot.offset[next - 1] /\ slot.offset[next - 1] \in Nat
      /\ slot.offset[first] \in Nat /\ Tried = next /\ cursor \in Nat /\ entries_yielded \in Nat
      /\ PrefixLen \in Nat \ {0}
  BY Buffer, SizeAssumption DEF Inv, DecoderInv, TypeOK, Tried
<1>2. BatchAt(b) = slot.offset[first] /\ End <= BatchEnd(b) /\ BatchEnd(b) \in Nat
  <2>1. b.from = first /\ b.from <= first /\ first <= b.to
    BY <1>1, BatchFits DEF Prefix
  <2> QED
    BY <1>1, <2>1, WithinBatch, BatchFits DEF BatchAt
<1> DEFINE Ending == {x \in Entries : slot.offset[next - 1] < x.end /\ x.end <= End}
<1>3. Ledger!EndingIn({next - 1}) = {e.at : e \in Ending}
  <2> DEFINE i == next - 1
  <2>1. {i} = i .. i /\ i \in Shreds /\ i <= i /\ i + 1 = next
    BY <1>1 DEF Shreds
  <2> HIDE DEF i
  <2>2. Ledger!EndingIn(i .. i) =
          {e.at : e \in {x \in Entries : slot.offset[i] < x.end /\ x.end <= slot.offset[i + 1]}}
    BY <1>1, <2>1, EndingInIs
  <2> QED
    BY <2>1, <2>2 DEF End, i
<1>4. ASSUME NEW e \in Ending
      PROVE  \E n \in 1 .. b.count : e = [at |-> b.marks[n - 1], end |-> b.marks[n]]
  <2>1. e \in Entries /\ slot.offset[next - 1] < e.end /\ e.end <= End
    BY <1>4
  <2>2. PICK c \in slot.batches : \E k \in 1 .. c.count :
          e = [at |-> c.marks[k - 1], end |-> c.marks[k]]
    BY <2>1, EntryIn
  <2>3. e.at < e.end /\ e.at \in Nat /\ e.end \in Nat
    BY <1>1, <2>2, EntryFits
  <2> QED
    BY <1>1, <1>2, <2>1, <2>3, EntryOfBatch
<1>5. CASE expected_count = None
  <2>1. txs = {} /\ cursor = slot.offset[first] /\ End < cursor + PrefixLen
    BY <1>1, <1>5 DEF Inv, DecoderInv, CountFirst, End
  <2>2. ASSUME NEW e \in Ending PROVE FALSE
    <3>1. PICK n \in 1 .. b.count : e = [at |-> b.marks[n - 1], end |-> b.marks[n]]
      BY <1>4, <2>2
    <3>2. BatchAt(b) + PrefixLen <= e.at /\ e.at < e.end /\ e.at \in Nat /\ e.end \in Nat
      BY <1>1, <3>1, EntryFits
    <3>3. e.end <= End
      BY <2>2
    <3> QED
      BY <1>1, <1>2, <2>1, <3>2, <3>3
  <2> QED
    BY <1>3, <2>1, <2>2
<1>6. CASE expected_count # None
  <2>1. /\ entries_yielded <= b.count /\ cursor = b.marks[entries_yielded] /\ cursor <= End
        /\ \A n \in 1 .. b.count : n > entries_yielded => b.marks[n] > End
        /\ txs = {b.marks[n - 1] : n \in {m \in 1 .. entries_yielded :
                                           b.marks[m] > slot.offset[next - 1]}}
    BY <1>1, <1>6 DEF Inv, DecoderInv, ReadsInOrder, End
  <2>2. b.count \in Nat
    BY <1>1, BatchFits
  <2>3. ASSUME NEW n \in 1 .. entries_yielded, b.marks[n] > slot.offset[next - 1]
        PROVE  [at |-> b.marks[n - 1], end |-> b.marks[n]] \in Ending
    <3>1. n \in 1 .. b.count /\ n \in 0 .. b.count /\ entries_yielded \in 0 .. b.count
          /\ n \in Nat /\ n <= entries_yielded
      BY <1>1, <2>1, <2>2, <2>3
    <3>2. [at |-> b.marks[n - 1], end |-> b.marks[n]] \in Entries /\ b.marks[n] \in Nat
      BY <1>1, <3>1, EntryFits
    <3>3. n < entries_yielded => b.marks[n] < b.marks[entries_yielded]
      BY <1>1, <3>1, MarksRise
    <3>4. b.marks[n] <= End
      BY <1>1, <2>1, <3>1, <3>2, <3>3
    <3> QED
      BY <2>3, <3>2, <3>4
  <2>4. ASSUME NEW e \in Ending
        PROVE  \E n \in {m \in 1 .. entries_yielded : b.marks[m] > slot.offset[next - 1]} :
                 e.at = b.marks[n - 1]
    <3>1. PICK n \in 1 .. b.count : e = [at |-> b.marks[n - 1], end |-> b.marks[n]]
      BY <1>4, <2>4
    <3>2. slot.offset[next - 1] < e.end /\ e.end <= End /\ e.end = b.marks[n] /\ e.at = b.marks[n - 1]
      BY <2>4, <3>1
    <3>3. e.end \in Nat /\ n \in Nat
      BY <1>1, <2>2, <3>1, <3>2, EntryFits
    <3>4. n <= entries_yielded
      BY <1>1, <2>1, <3>2, <3>3
    <3> QED
      BY <1>1, <3>2, <3>3, <3>4
  <2> HIDE DEF Ending
  <2>5. \A t \in txs : \E e \in Ending : t = e.at
    <3> SUFFICES ASSUME NEW t \in txs PROVE \E e \in Ending : t = e.at
      OBVIOUS
    <3>1. PICK n \in 1 .. entries_yielded :
            b.marks[n] > slot.offset[next - 1] /\ t = b.marks[n - 1]
      BY <2>1
    <3> QED
      BY <2>3, <3>1
  <2>6. \A e \in Ending : e.at \in txs
    BY <2>1, <2>4
  <2> QED
    BY <1>3, <2>5, <2>6
<1> QED
  BY <1>5, <1>6

\* A push returns the entries its shred completes as long as the buffer is a clean
\* prefix of a batch, and nothing otherwise; a clean prefix is never an error.
THEOREM YieldsExact == Spec => []PushYields
<1>1. ASSUME Inv PROVE PushYields
  <2>1. first \in Nat /\ next \in Nat /\ first <= next /\ (Held # {} <=> first < next)
    BY <1>1, Buffer DEF Inv, DecoderInv
  <2>2. ASSUME first < next PROVE Ledger!StreamReads(Held, next - 1) <=> \E b \in slot.batches : Prefix(b)
    BY <1>1, <2>2, StreamReadsPrefix
  <2>3. ASSUME ~ (first < next) PROVE ~ Ledger!StreamReads(Held, next - 1)
    <3>1. Held = {}
      BY <2>1, <2>3
    <3>2. \A lo \in 0 .. (next - 1) : next - 1 \in lo .. (next - 1)
      BY <2>1
    <3> QED
      BY <3>1, <3>2 DEF Ledger!StreamReads
  <2>4. ASSUME pc = "idle", Held # {}, Ledger!StreamReads(Held, next - 1)
        PROVE  txs = Ledger!EndingIn({next - 1})
    BY <1>1, <2>1, <2>2, <2>4, YieldsOfPrefix
  <2>5. ASSUME pc = "idle", Held # {}, ~ Ledger!StreamReads(Held, next - 1)
        PROVE  txs = {}
    BY <1>1, <2>1, <2>2, <2>5 DEF Inv, DecoderInv, CountFirst, Stuck
  <2>6. ASSUME pc = "failed" PROVE ~ Ledger!StreamReads(Held, next - 1) /\ txs = {}
    BY <1>1, <2>2, <2>3, <2>6 DEF Inv, DecoderInv
  <2> QED
    BY <2>4, <2>5, <2>6 DEF PushYields, Held
<1> QED
  BY <1>1, InitEmpty, StepKeeps, PTL DEF Spec

-----------------------------------------------------------------------------
(* decode_batch.                                                           *)

\* The shred that holds the last byte of a batch.
LastOf(b) == Holding(BatchEnd(b) - 1)

\* It is a shred of the batch; what lies behind it begins behind the batch.
LEMMA LastByte ==
  ASSUME slot \in Slots, NEW b \in slot.batches
  PROVE  /\ LastOf(b) \in Nat /\ LastOf(b) \in Shreds
         /\ b.from <= LastOf(b) /\ LastOf(b) <= b.to
         /\ \A i \in 0 .. slot.length : LastOf(b) < i <=> BatchEnd(b) <= slot.offset[i]
         /\ slot.offset[LastOf(b)] \in Nat /\ slot.offset[LastOf(b)] < BatchEnd(b)
<1>1. slot.length \in Nat /\ b.from \in Nat /\ b.to \in Nat /\ b.from <= b.to /\ b.to < slot.length
  BY BatchFits, SlotFits
<1>2. /\ 0 \in 0 .. slot.length /\ b.from \in 0 .. slot.length /\ b.to + 1 \in 0 .. slot.length
      /\ slot.length \in 0 .. slot.length /\ 0 <= b.from /\ b.to + 1 <= slot.length
  BY <1>1
<1>3. /\ slot.offset[0] \in Nat /\ slot.offset[0] <= BatchAt(b)
      /\ slot.offset[slot.length] \in Nat /\ BatchEnd(b) <= slot.offset[slot.length]
  BY <1>2, OffsetsRise DEF BatchAt, BatchEnd
<1> DEFINE o == BatchEnd(b) - 1
<1>4. BatchAt(b) < BatchEnd(b) /\ BatchAt(b) \in Nat /\ BatchEnd(b) \in Nat
  BY BytesApart, BatchFits, SizeAssumption
<1>5. o \in Nat /\ slot.offset[0] <= o /\ o < slot.offset[slot.length] /\ BatchAt(b) <= o
  BY <1>3, <1>4
<1>6. \A i \in 0 .. slot.length : LastOf(b) < i <=> o < slot.offset[i]
  BY <1>5, HeldUpTo DEF LastOf
<1>7. LastOf(b) \in Shreds /\ slot.offset[LastOf(b)] <= o
  BY <1>5, HoldingIs DEF LastOf
<1>8. LastOf(b) \in Nat /\ LastOf(b) \in 0 .. slot.length
  BY <1>1, <1>7 DEF Shreds
<1>9. slot.offset[LastOf(b)] \in Nat
  BY <1>8, SlotFits
<1>10. ~ (LastOf(b) < b.from)
  BY <1>2, <1>4, <1>5, <1>6 DEF BatchAt
<1>11. LastOf(b) < b.to + 1
  BY <1>2, <1>4, <1>6 DEF BatchEnd
<1>12. \A i \in 0 .. slot.length : LastOf(b) < i <=> BatchEnd(b) <= slot.offset[i]
  <2> TAKE i \in 0 .. slot.length
  <2>1. slot.offset[i] \in Nat
    BY SlotFits
  <2> QED
    BY <1>4, <1>6, <2>1
<1> QED
  BY <1>1, <1>4, <1>7, <1>8, <1>9, <1>10, <1>11, <1>12

\* Of the shreds that end batches, one is in the batch of lo.
LEMMA OneEnd ==
  ASSUME slot \in Slots, NEW b \in slot.batches, NEW lo \in Shreds, b.from <= lo, lo <= b.to,
         NEW c \in slot.batches, lo <= LastOf(c)
  PROVE  Ledger!SameBatch(lo, LastOf(c)) <=> c = b
<1>1. /\ LastOf(c) \in Shreds /\ LastOf(c) \in Nat
      /\ c.from <= LastOf(c) /\ LastOf(c) <= c.to
  BY LastByte
<1>2. Ledger!SameBatch(lo, LastOf(c)) <=> LastOf(c) <= b.to
  BY <1>1, Together
<1>3. /\ b.from \in Nat /\ b.to \in Nat /\ c.from \in Nat /\ c.to \in Nat /\ lo \in Nat
  BY BatchFits, SlotFits DEF Shreds
<1>4. ASSUME LastOf(c) <= b.to, c # b PROVE FALSE
  BY <1>1, <1>3, <1>4, BatchesApart
<1> QED
  BY <1>1, <1>2, <1>4

\* The bytes from the beginning of a shred to the end of a batch are clean if the
\* shreds are.
LEMMA CleanShreds ==
  ASSUME slot \in Slots, NEW b \in slot.batches, NEW s \in Shreds, s <= LastOf(b)
  PROVE  Clean(slot.offset[s], BatchEnd(b)) <=> (s .. LastOf(b)) \cap slot.garbled = {}
<1>1. /\ slot.length \in Nat /\ s \in Nat /\ s < slot.length /\ s \in 0 .. slot.length
      /\ LastOf(b) \in Nat /\ LastOf(b) \in 0 .. slot.length
  BY LastByte, SlotFits DEF Shreds
<1>2. slot.offset[s] \in Nat /\ BatchEnd(b) \in Nat
  BY <1>1, SlotFits, BatchFits
<1>3. ASSUME NEW g \in slot.garbled
      PROVE  /\ g \in Nat /\ g \in 0 .. slot.length /\ g + 1 \in 0 .. slot.length
             /\ slot.offset[g] \in Nat /\ slot.offset[g + 1] \in Nat
             /\ slot.offset[g] < slot.offset[g + 1]
  <2>1. g \in Shreds /\ slot.offset[g] < slot.offset[g + 1]
    BY SlotFits
  <2>2. g \in Nat /\ g \in 0 .. slot.length /\ g + 1 \in 0 .. slot.length /\ g <= g + 1
    BY <1>1, <2>1 DEF Shreds
  <2> QED
    BY <2>1, <2>2, OffsetsRise
<1>4. ASSUME NEW g \in slot.garbled, g \in s .. LastOf(b)
      PROVE  ~ Clean(slot.offset[s], BatchEnd(b))
  <2>1. s <= g /\ g <= LastOf(b)
    BY <1>1, <1>4
  <2>2. slot.offset[s] <= slot.offset[g] /\ slot.offset[g] <= slot.offset[LastOf(b)]
    BY <1>1, <1>3, <2>1, OffsetsRise
  <2>3. slot.offset[g] < BatchEnd(b)
    BY <1>2, <1>3, <2>2, LastByte
  <2> QED
    BY <1>2, <2>2, <2>3, Spoilt
<1>5. ASSUME NEW g \in slot.garbled, g \notin s .. LastOf(b)
      PROVE  slot.offset[g + 1] <= slot.offset[s] \/ BatchEnd(b) <= slot.offset[g]
  <2>1. g < s \/ LastOf(b) < g
    BY <1>1, <1>3, <1>5
  <2>2. ASSUME g < s PROVE slot.offset[g + 1] <= slot.offset[s]
    BY <1>1, <1>3, <2>2, OffsetsRise
  <2>3. ASSUME LastOf(b) < g PROVE BatchEnd(b) <= slot.offset[g]
    BY <1>3, <2>3, LastByte
  <2> QED
    BY <2>1, <2>2, <2>3
<1>6. ASSUME (s .. LastOf(b)) \cap slot.garbled = {} PROVE Clean(slot.offset[s], BatchEnd(b))
  BY <1>5, <1>6 DEF Clean
<1> QED
  BY <1>4, <1>6

\* The 48 bytes an entry is taken to have at least never keep a batch that is
\* there from being read.
LEMMA CountValid ==
  ASSUME slot \in Slots, NEW b \in slot.batches, NEW end \in Nat, BatchEnd(b) <= end
  PROVE  validate_vec_prefix(b.count, end - BatchAt(b))
<1>1. /\ b.count \in Nat /\ b.count <= MAX_ENTRY_COUNT /\ 0 \in 0 .. b.count /\ b.count \in 0 .. b.count
      /\ b.marks[0] = BatchAt(b) + PrefixLen /\ b.marks[b.count] = BatchEnd(b)
      /\ BatchAt(b) \in Nat /\ BatchEnd(b) \in Nat /\ PrefixLen \in Nat
  BY BatchFits, SizeAssumption
<1>2. b.marks[0] + (b.count - 0) * MinEntry <= b.marks[b.count]
  BY <1>1, SlotFits DEF Serialized
<1>3. b.count * MinEntry \in Nat /\ b.count - 0 = b.count
  BY <1>1, SizeAssumption
<1> DEFINE bytes == b.count * MinEntry
<1>4. bytes \in Nat /\ BatchAt(b) + PrefixLen + bytes <= BatchEnd(b)
  BY <1>1, <1>2, <1>3
<1> HIDE DEF bytes
<1>5. PrefixLen <= end - BatchAt(b) /\ bytes <= end - BatchAt(b)
  BY <1>1, <1>4
<1> QED
  BY <1>1, <1>5 DEF validate_vec_prefix, bytes

\* A count of zero is read at the first byte of a batch only if its count is garbled.
LEMMA GarbledCount ==
  ASSUME slot \in Slots, NEW b \in slot.batches, BatchAt(b) \in slot.zeros
  PROVE  /\ b.count \in Nat \ {0}
         /\ ~ Clean(BatchAt(b), BatchAt(b) + PrefixLen)
         /\ ~ Clean(BatchAt(b), BatchEnd(b))
<1>1. /\ b.count > 0
      /\ \E g \in slot.garbled : /\ BatchAt(b) < slot.offset[g + 1]
                                 /\ slot.offset[g] < BatchAt(b) + PrefixLen
  BY ZeroAssumption DEF BatchAt
<1>2. PICK g \in slot.garbled : /\ BatchAt(b) < slot.offset[g + 1]
                                /\ slot.offset[g] < BatchAt(b) + PrefixLen
  BY <1>1
<1>3. g \in Shreds /\ slot.length \in Nat
  BY SlotFits
<1>4. g \in 0 .. slot.length /\ g + 1 \in 0 .. slot.length
  BY <1>3 DEF Shreds
<1>5. slot.offset[g] \in Nat /\ slot.offset[g + 1] \in Nat
  BY <1>4, SlotFits
<1>6. BatchAt(b) + PrefixLen <= BatchEnd(b) /\ BatchAt(b) \in Nat /\ BatchEnd(b) \in Nat
  BY BytesApart, BatchFits
<1>7. /\ ~ (slot.offset[g + 1] <= BatchAt(b) \/ BatchAt(b) + PrefixLen <= slot.offset[g])
      /\ ~ (slot.offset[g + 1] <= BatchAt(b) \/ BatchEnd(b) <= slot.offset[g])
  BY <1>2, <1>5, <1>6, SizeAssumption
<1> QED
  BY <1>1, <1>2, <1>7, BatchFits DEF Clean

\* An empty Vec is its count.
LEMMA EmptyVec ==
  ASSUME NEW o \in Nat, NEW end \in Nat
  PROVE  validate_vec_prefix(0, end - o) <=> o + PrefixLen <= end
BY SizeAssumption DEF validate_vec_prefix

\* At the first byte of a batch that batch is read if it is whole and clean, and an
\* empty Vec if its count is garbled as zero.
LEMMA VecReadsIs ==
  ASSUME slot \in Slots, NEW b \in slot.batches, NEW end \in Nat
  PROVE  VecReads(BatchAt(b), end) =
           IF BatchEnd(b) <= end /\ Clean(BatchAt(b), BatchEnd(b))
             THEN {[end |-> BatchEnd(b), txs |-> extract_txs(b)]}
           ELSE IF BatchAt(b) \in slot.zeros /\ BatchAt(b) + PrefixLen <= end
             THEN {[end |-> BatchAt(b) + PrefixLen, txs |-> {}]} ELSE {}
<1> DEFINE whole == {c \in slot.batches :
                      /\ BatchAt(c) = BatchAt(b) /\ BatchEnd(c) <= end
                      /\ Clean(BatchAt(b), BatchEnd(c))
                      /\ validate_vec_prefix(c.count, end - BatchAt(b))}
           zero == {x \in slot.zeros : x = BatchAt(b) /\ validate_vec_prefix(0, end - BatchAt(b))}
<1>1. whole = IF BatchEnd(b) <= end /\ Clean(BatchAt(b), BatchEnd(b)) THEN {b} ELSE {}
  <2>1. \A c \in whole : c = b /\ BatchEnd(b) <= end /\ Clean(BatchAt(b), BatchEnd(b))
    BY SameStart
  <2>2. ASSUME BatchEnd(b) <= end, Clean(BatchAt(b), BatchEnd(b)) PROVE b \in whole
    BY <2>2, CountValid
  <2> QED
    BY <2>1, <2>2
<1>2. zero = IF BatchAt(b) \in slot.zeros /\ BatchAt(b) + PrefixLen <= end
               THEN {BatchAt(b)} ELSE {}
  BY EmptyVec, BatchFits
<1>3. VecReads(BatchAt(b), end) =
        {[end |-> BatchEnd(c), txs |-> extract_txs(c)] : c \in whole}
          \cup {[end |-> z + PrefixLen, txs |-> {}] : z \in zero}
  BY DEF VecReads
<1> HIDE DEF whole, zero
<1>4. CASE BatchEnd(b) <= end /\ Clean(BatchAt(b), BatchEnd(b))
  <2>1. BatchAt(b) \notin slot.zeros
    BY <1>4, GarbledCount
  <2>2. whole = {b} /\ zero = {}
    BY <1>1, <1>2, <1>4, <2>1
  <2> QED
    BY <1>3, <1>4, <2>2
<1>5. CASE ~ (BatchEnd(b) <= end /\ Clean(BatchAt(b), BatchEnd(b)))
  <2>1. whole = {}
    BY <1>1, <1>5
  <2> QED
    BY <1>2, <1>3, <1>5, <2>1
<1> QED
  BY <1>4, <1>5

\* Elsewhere nothing is read but an empty Vec.
LEMMA VecReadsElse ==
  ASSUME slot \in Slots, NEW p \in Nat, \A c \in slot.batches : BatchAt(c) # p, NEW end \in Nat
  PROVE  VecReads(p, end) = IF p \in slot.zeros /\ p + PrefixLen <= end
                              THEN {[end |-> p + PrefixLen, txs |-> {}]} ELSE {}
<1>1. {c \in slot.batches : /\ BatchAt(c) = p /\ BatchEnd(c) <= end /\ Clean(p, BatchEnd(c))
                            /\ validate_vec_prefix(c.count, end - p)} = {}
  OBVIOUS
<1>2. {x \in slot.zeros : x = p /\ validate_vec_prefix(0, end - p)} =
        IF p \in slot.zeros /\ p + PrefixLen <= end THEN {p} ELSE {}
  BY EmptyVec
<1> QED
  BY <1>1, <1>2 DEF VecReads

\* The entries of a batch are those whose last byte is in it.
LEMMA EntriesOf ==
  ASSUME slot \in Slots, NEW b \in slot.batches
  PROVE  /\ extract_txs(b) =
              {e.at : e \in {x \in Entries : BatchAt(b) < x.end /\ x.end <= BatchEnd(b)}}
         /\ \A e \in Entries : (BatchAt(b) < e.end /\ e.end <= BatchEnd(b)) =>
              b.from <= Holding(e.end - 1) /\ Holding(e.end - 1) <= LastOf(b)
<1>1. ASSUME NEW e \in Entries
      PROVE  (BatchAt(b) <= e.at /\ e.at < BatchEnd(b)) <=>
               (BatchAt(b) < e.end /\ e.end <= BatchEnd(b))
  <2>1. PICK c \in slot.batches : \E k \in 1 .. c.count :
          e = [at |-> c.marks[k - 1], end |-> c.marks[k]]
    BY EntryIn
  <2>2. /\ BatchAt(c) + PrefixLen <= e.at /\ e.at < e.end /\ e.end <= BatchEnd(c)
        /\ e.at \in Nat /\ e.end \in Nat
    BY <2>1, EntryFits
  <2> QED
    BY <2>2, BytesApart, BatchFits, SizeAssumption
<1>2. ASSUME NEW e \in Entries, BatchAt(b) < e.end, e.end <= BatchEnd(b)
      PROVE  b.from <= Holding(e.end - 1) /\ Holding(e.end - 1) <= LastOf(b)
  <2>1. /\ e.end - 1 \in Nat /\ e.end \in Nat /\ slot.offset[0] <= e.end - 1
        /\ e.end - 1 < slot.offset[slot.length]
    BY EndsInShred
  <2>2. /\ slot.length \in Nat /\ b.from \in Nat /\ b.from \in 0 .. slot.length
        /\ LastOf(b) \in Nat /\ LastOf(b) + 1 \in 0 .. slot.length
    BY LastByte, BatchFits, SlotFits DEF Shreds
  <2>3. Holding(e.end - 1) \in Shreds
    BY <2>1, HoldingIs
  <2>4. Holding(e.end - 1) \in Nat
    BY <2>2, <2>3 DEF Shreds
  <2>5. ~ (Holding(e.end - 1) < b.from)
    BY <1>2, <2>1, <2>2, HeldUpTo, BatchFits DEF BatchAt
  <2>6. e.end - 1 < slot.offset[LastOf(b) + 1]
    <3>1. BatchEnd(b) <= slot.offset[LastOf(b) + 1] /\ slot.offset[LastOf(b) + 1] \in Nat
      BY <2>2, LastByte, SlotFits
    <3> QED
      BY <1>2, <2>1, <3>1, BatchFits
  <2>7. Holding(e.end - 1) < LastOf(b) + 1
    BY <2>1, <2>2, <2>6, HeldUpTo
  <2> QED
    BY <2>2, <2>4, <2>5, <2>7
<1> QED
  BY <1>1, <1>2 DEF extract_txs

\* The shreds lo .. hi hold batch b to its end if they hold its bytes to the end.
LEMMA WholeIn ==
  ASSUME slot \in Slots, NEW b \in slot.batches, NEW hi \in Shreds
  PROVE  LastOf(b) <= hi <=> BatchEnd(b) <= slot.offset[hi + 1]
<1>1. hi \in Nat /\ hi + 1 \in 0 .. slot.length /\ LastOf(b) \in Nat
  BY LastByte, SlotFits DEF Shreds
<1>2. LastOf(b) < hi + 1 <=> BatchEnd(b) <= slot.offset[hi + 1]
  BY <1>1, LastByte
<1> QED
  BY <1>1, <1>2

\* A batch begins where its first shred does.
LEMMA FirstShred ==
  ASSUME slot \in Slots, NEW b \in slot.batches
  PROVE  b.from \in Shreds /\ b.from \in Nat /\ b.from <= b.to
<1>1. b.from \in Nat /\ b.to \in Nat /\ b.from <= b.to /\ b.to < slot.length /\ slot.length \in Nat
  BY BatchFits, SlotFits
<1> QED
  BY <1>1 DEF Shreds

\* SlotLedger reads a batch when its bytes are there and clean, or its count is
\* garbled as zero.
LEMMA BatchReadsIs ==
  ASSUME slot \in Slots, NEW b \in slot.batches, NEW hi \in Shreds, b.from <= hi
  PROVE  Ledger!BatchReads(b.from, hi) <=>
           \/ BatchAt(b) \in slot.zeros
           \/ BatchEnd(b) <= slot.offset[hi + 1] /\ Clean(BatchAt(b), BatchEnd(b))
<1>1. /\ b.from \in Shreds /\ b.from \in Nat /\ b.from <= b.to /\ hi \in Nat
      /\ b.from <= LastOf(b) /\ LastOf(b) \in Nat
  BY FirstShred, LastByte, SlotFits DEF Shreds
<1>2. Ledger!StartsBatch(b.from)
  BY <1>1, Starts
<1> DEFINE Zeroed == b.from \in {c.from : c \in {x \in slot.batches : BatchAt(x) \in slot.zeros}}
           Whole == \E e \in {LastOf(c) : c \in slot.batches} \cap (b.from .. hi) :
                      Ledger!SameBatch(b.from, e) /\ (b.from .. e) \cap slot.garbled = {}
<1>3. Ledger!BatchReads(b.from, hi) <=> Zeroed \/ Whole
  BY <1>2 DEF Ledger!BatchReads, LastOf
<1>4. ASSUME NEW c \in slot.batches, LastOf(c) \in b.from .. hi,
             Ledger!SameBatch(b.from, LastOf(c))
      PROVE  c = b
  <2>1. b.from <= LastOf(c)
    BY <1>1, <1>4, LastByte
  <2> QED
    BY <1>1, <1>4, <2>1, OneEnd
<1>5. Ledger!SameBatch(b.from, LastOf(b))
  BY <1>1, OneEnd
<1>6. Clean(BatchAt(b), BatchEnd(b)) <=> (b.from .. LastOf(b)) \cap slot.garbled = {}
  BY <1>1, CleanShreds DEF BatchAt
<1>7. LastOf(b) \in b.from .. hi <=> BatchEnd(b) <= slot.offset[hi + 1]
  BY <1>1, WholeIn
<1>8. Whole <=> BatchEnd(b) <= slot.offset[hi + 1] /\ Clean(BatchAt(b), BatchEnd(b))
  BY <1>4, <1>5, <1>6, <1>7
<1>9. Zeroed <=> BatchAt(b) \in slot.zeros
  BY DEF BatchAt
<1> HIDE DEF Zeroed, Whole
<1> QED
  BY <1>3, <1>8, <1>9

\* Where in SlotLedger a transaction ends.
LEMMA EndsInIs ==
  ASSUME slot \in Slots, NEW e \in Entries
  PROVE  [t \in {x.at : x \in Entries} |->
           Holding((CHOOSE x \in Entries : x.at = t).end - 1)][e.at] = Holding(e.end - 1)
BY EndsInShred

\* What decode_batch of SlotLedger hands over is what ends in the batch.
LEMMA DecodeBatchIs ==
  ASSUME slot \in Slots, NEW b \in slot.batches, NEW hi \in Shreds, b.from <= hi
  PROVE  Ledger!decode_batch(b.from, hi) =
           IF BatchEnd(b) <= slot.offset[hi + 1] /\ Clean(BatchAt(b), BatchEnd(b))
             THEN extract_txs(b) ELSE {}
<1>1. /\ b.from \in Shreds /\ b.from \in Nat /\ b.from <= b.to /\ hi \in Nat
      /\ b.from <= LastOf(b) /\ LastOf(b) \in Nat
  BY FirstShred, LastByte, SlotFits DEF Shreds
<1>2. Ledger!StartsBatch(b.from) /\ Ledger!SameBatch(b.from, LastOf(b))
  BY <1>1, Starts, OneEnd
<1> DEFINE EI == [t \in {x.at : x \in Entries} |->
                    Holding((CHOOSE x \in Entries : x.at = t).end - 1)]
           Ends(t) == \E e \in {LastOf(c) : c \in slot.batches} \cap (EI[t] .. hi) :
                        Ledger!SameBatch(b.from, e) /\ (b.from .. e) \cap slot.garbled = {}
<1>3. Ledger!decode_batch(b.from, hi) = {t \in Ledger!EndingIn(b.from .. hi) : Ends(t)}
  BY <1>2 DEF Ledger!decode_batch, LastOf
<1>4. Ledger!EndingIn(b.from .. hi) =
        {e.at : e \in {x \in Entries : BatchAt(b) < x.end /\ x.end <= slot.offset[hi + 1]}}
  BY <1>1, EndingInIs DEF BatchAt
<1>5. Clean(BatchAt(b), BatchEnd(b)) <=> (b.from .. LastOf(b)) \cap slot.garbled = {}
  BY <1>1, CleanShreds DEF BatchAt
<1>6. LastOf(b) <= hi <=> BatchEnd(b) <= slot.offset[hi + 1]
  BY WholeIn
<1>7. ASSUME NEW e \in Entries, BatchAt(b) < e.end, e.end <= slot.offset[hi + 1]
      PROVE  Ends(e.at) <=>
               /\ BatchEnd(b) <= slot.offset[hi + 1] /\ Clean(BatchAt(b), BatchEnd(b))
               /\ e.end <= BatchEnd(b)
  <2>1. EI[e.at] = Holding(e.end - 1)
    BY EndsInIs
  <2> HIDE DEF EI
  <2>2. /\ e.end - 1 \in Nat /\ e.end \in Nat /\ slot.offset[0] <= e.end - 1
        /\ e.end - 1 < slot.offset[slot.length]
    BY EndsInShred
  <2>3. Holding(e.end - 1) \in Shreds
    BY <2>2, HoldingIs
  <2>4. Holding(e.end - 1) \in Nat /\ slot.length \in Nat
    BY <2>3, SlotFits DEF Shreds
  <2>5. ~ (Holding(e.end - 1) < b.from)
    <3>1. b.from \in 0 .. slot.length
      BY <1>1, BatchFits, <2>4
    <3> QED
      BY <1>7, <2>2, <3>1, HeldUpTo, BatchFits DEF BatchAt
  <2>6. Holding(e.end - 1) <= LastOf(b) => e.end <= BatchEnd(b)
    <3>1. LastOf(b) + 1 \in 0 .. slot.length /\ LastOf(b) <= b.to /\ b.to \in Nat
          /\ b.to + 1 \in 0 .. slot.length /\ LastOf(b) + 1 <= b.to + 1
      BY <1>1, <2>4, LastByte, BatchFits DEF Shreds
    <3>2. Holding(e.end - 1) < LastOf(b) + 1 <=> e.end - 1 < slot.offset[LastOf(b) + 1]
      BY <2>2, <3>1, HeldUpTo
    <3>3. /\ slot.offset[LastOf(b) + 1] <= BatchEnd(b) /\ slot.offset[LastOf(b) + 1] \in Nat
          /\ BatchEnd(b) \in Nat
      BY <3>1, OffsetsRise DEF BatchEnd
    <3> QED
      BY <1>1, <2>2, <2>4, <3>2, <3>3
  <2>7. e.end <= BatchEnd(b) => Holding(e.end - 1) <= LastOf(b)
    BY <1>7, EntriesOf
  <2>8. ASSUME NEW c \in slot.batches, LastOf(c) \in Holding(e.end - 1) .. hi,
               Ledger!SameBatch(b.from, LastOf(c))
        PROVE  c = b
    <3>1. b.from <= LastOf(c)
      BY <1>1, <2>4, <2>5, <2>8, LastByte
    <3> QED
      BY <1>1, <2>8, <3>1, OneEnd
  <2>9. LastOf(b) \in Holding(e.end - 1) .. hi <=>
          BatchEnd(b) <= slot.offset[hi + 1] /\ e.end <= BatchEnd(b)
    BY <1>1, <1>6, <2>4, <2>6, <2>7
  <2> QED
    BY <1>2, <1>5, <2>1, <2>8, <2>9
<1> HIDE DEF EI, Ends
<1>8. CASE BatchEnd(b) <= slot.offset[hi + 1] /\ Clean(BatchAt(b), BatchEnd(b))
  <2>1. slot.offset[hi + 1] \in Nat /\ BatchEnd(b) \in Nat /\ \A e \in Entries : e.end \in Nat
    <3>1. hi + 1 \in 0 .. slot.length
      BY SlotFits DEF Shreds
    <3> QED
      BY <3>1, SlotFits, BatchFits, EndsInShred
  <2>2. \A e \in Entries : e.end <= BatchEnd(b) => e.end <= slot.offset[hi + 1]
    BY <1>8, <2>1
  <2>3. extract_txs(b) =
          {e.at : e \in {x \in Entries : BatchAt(b) < x.end /\ x.end <= BatchEnd(b)}}
    BY EntriesOf
  <2> DEFINE all == {x \in Entries : BatchAt(b) < x.end /\ x.end <= slot.offset[hi + 1]}
             own == {x \in Entries : BatchAt(b) < x.end /\ x.end <= BatchEnd(b)}
  <2>4. own \subseteq all /\ \A e \in all : Ends(e.at) <=> e \in own
    BY <1>7, <1>8, <2>2
  <2> HIDE DEF all, own
  <2>5. {t \in {e.at : e \in all} : Ends(t)} = {e.at : e \in own}
    BY <2>4
  <2> QED
    BY <1>3, <1>4, <1>8, <2>3, <2>5 DEF all, own
<1>9. CASE ~ (BatchEnd(b) <= slot.offset[hi + 1] /\ Clean(BatchAt(b), BatchEnd(b)))
  <2>1. \A t \in Ledger!EndingIn(b.from .. hi) : ~ Ends(t)
    BY <1>4, <1>7, <1>9
  <2> QED
    BY <1>3, <1>9, <2>1
<1> QED
  BY <1>8, <1>9

\* decode_batch on shreds that begin with a batch reads it if it is whole and
\* clean in them, takes it for an empty one if its count is garbled as zero, and
\* reads nothing else.
THEOREM BatchExact == Spec => []BatchReadsWhole
<1>1. ASSUME Inv PROVE BatchReadsWhole
  <2> SUFFICES ASSUME NEW lo \in Shreds, NEW hi \in Shreds, lo <= hi, Ledger!StartsBatch(lo)
               PROVE  /\ decode_batch(slot.offset[lo], slot.offset[hi + 1]) =
                           Ledger!decode_batch(lo, hi)
                      /\ hi \in last => (VecReads(slot.offset[lo], slot.offset[hi + 1]) # {} <=>
                                           Ledger!BatchReads(lo, hi))
    BY DEF BatchReadsWhole
  <2>1. slot \in Slots
    BY <1>1 DEF Inv
  <2>2. PICK b \in slot.batches : b.from = lo
    BY <2>1, Starts
  <2>3. slot.offset[hi + 1] \in Nat /\ slot.offset[lo] = BatchAt(b)
    <3>1. hi + 1 \in 0 .. slot.length
      BY <2>1, SlotFits DEF Shreds
    <3> QED
      BY <2>1, <2>2, <3>1, SlotFits DEF BatchAt
  <2> DEFINE end == slot.offset[hi + 1]
             reads == BatchEnd(b) <= end /\ Clean(BatchAt(b), BatchEnd(b))
             zeroed == BatchAt(b) \in slot.zeros
             fits == BatchAt(b) + PrefixLen <= end
             vec == [end |-> BatchEnd(b), txs |-> extract_txs(b)]
             empty == [end |-> BatchAt(b) + PrefixLen, txs |-> {}]
  <2>4. VecReads(BatchAt(b), end) =
          IF reads THEN {vec} ELSE IF zeroed /\ fits THEN {empty} ELSE {}
    BY <2>1, <2>3, VecReadsIs
  <2>5. Ledger!BatchReads(lo, hi) <=> zeroed \/ reads
    BY <2>1, <2>2, BatchReadsIs
  <2>6. Ledger!decode_batch(lo, hi) = IF reads THEN extract_txs(b) ELSE {}
    BY <2>1, <2>2, DecodeBatchIs
  <2>7. hi \in last => fits
    <3>1. SUFFICES ASSUME NEW c \in slot.batches, hi = c.to PROVE fits
      BY DEF last
    <3>2. /\ b.from \in Nat /\ b.to \in Nat /\ b.from <= b.to
          /\ c.from \in Nat /\ c.to \in Nat /\ b.from <= c.to
      BY <2>1, <2>2, <3>1, BatchFits
    <3>3. ~ (c.to < b.from)
      BY <3>2
    <3>4. c = b \/ b.to < c.from
      BY <2>1, <3>3, BatchesApart
    <3>5. BatchAt(b) + PrefixLen <= BatchEnd(b) /\ BatchEnd(c) = end /\ BatchEnd(c) \in Nat
          /\ BatchAt(c) + PrefixLen <= BatchEnd(c) /\ BatchAt(c) \in Nat /\ BatchAt(b) \in Nat
          /\ BatchEnd(b) \in Nat
      BY <2>1, <3>1, BytesApart, BatchFits DEF BatchEnd
    <3>6. b.to < c.from => BatchEnd(b) <= BatchAt(c)
      BY <2>1, BytesApart
    <3> HIDE DEF end
    <3> QED
      BY <3>4, <3>5, <3>6, SizeAssumption
  <2> HIDE DEF reads, end, zeroed, fits
  <2>8. decode_batch(BatchAt(b), end) = IF reads THEN extract_txs(b) ELSE {}
    <3>1. vec.txs = extract_txs(b) /\ empty.txs = {}
      OBVIOUS
    <3> HIDE DEF vec, empty
    <3> QED
      BY <2>4, <3>1 DEF decode_batch
  <2>9. hi \in last => (VecReads(BatchAt(b), end) # {} <=> Ledger!BatchReads(lo, hi))
    BY <2>4, <2>5, <2>7
  <2> QED
    BY <2>3, <2>6, <2>8, <2>9 DEF end
<1> QED
  BY <1>1, InitEmpty, StepKeeps, PTL DEF Spec

-----------------------------------------------------------------------------
(* decode_concatenated.                                                    *)

\* A set of natural numbers has a least element: this is what induction over the
\* length of the buffer comes down to.
LEMMA Least ==
  ASSUME NEW T, T \subseteq Nat, T # {}
  PROVE  \E n \in T : \A m \in T : n <= m
<1> DEFINE R == {p \in Nat \X Nat : p[1] < p[2]}
<1>1. IsWellFoundedOn(R, Nat)
  BY NatLessThanWellFounded DEF OpToRel
<1>2. \A m, k \in Nat : m < k => <<m, k>> \in R
  OBVIOUS
<1> HIDE DEF R
<1>3. PICK n \in T : \A m \in T : ~ (<<m, n>> \in R)
  BY <1>1, WFMin
<1>4. \A m \in T : m \in Nat /\ n \in Nat /\ ~ (m < n)
  BY <1>2, <1>3
<1>5. \A m \in T : n <= m
  BY <1>4
<1> QED
  BY <1>5

\* The batches that are read from byte p on: the first one that counts of zero lead
\* to, and those behind it, as far as the bytes are clean.
InFront(p, end) ==
  {b \in slot.batches :
     /\ BatchEnd(b) <= end
     /\ \E c \in slot.batches : /\ ZeroRun(p, BatchAt(c)) /\ BatchAt(c) <= BatchAt(b)
                                /\ Clean(BatchAt(c), BatchEnd(b))}

Front(p, end) == UNION {extract_txs(b) : b \in InFront(p, end)}

\* Steps of the length of a count.
LEMMA Steps ==
  ASSUME NEW n \in Nat
  PROVE  /\ n * PrefixLen \in Nat /\ n <= n * PrefixLen
         /\ (n + 1) * PrefixLen = n * PrefixLen + PrefixLen
<1>1. \A x, y \in Nat : y >= 1 => x * y \in Nat /\ x <= x * y /\ (x + 1) * y = x * y + y
  OBVIOUS
<1> QED
  BY <1>1, SizeAssumption

\* Counts of zero are read one at a time.
LEMMA ZeroRunStep ==
  ASSUME NEW o \in Nat, NEW q \in Nat
  PROVE  ZeroRun(o, q) <=> q = o \/ (o \in slot.zeros /\ ZeroRun(o + PrefixLen, q))
<1>0. PrefixLen \in Nat \ {0} /\ 0 * PrefixLen = 0
  BY SizeAssumption
<1>1. ASSUME ZeroRun(o, q), q # o PROVE o \in slot.zeros /\ ZeroRun(o + PrefixLen, q)
  <2>1. PICK n \in 0 .. (q - o) :
          q = o + n * PrefixLen /\ \A k \in 0 .. (n - 1) : o + k * PrefixLen \in slot.zeros
    BY <1>1 DEF ZeroRun
  <2>2. n \in Nat /\ n # 0
    BY <1>0, <1>1, <2>1
  <2> DEFINE m == n - 1
  <2>3. m \in Nat /\ n = m + 1
    BY <2>2
  <2> HIDE DEF m
  <2>4. n * PrefixLen = m * PrefixLen + PrefixLen /\ m * PrefixLen \in Nat /\ m <= m * PrefixLen
    BY <2>3, Steps
  <2>5. q = o + PrefixLen + m * PrefixLen /\ m \in 0 .. (q - (o + PrefixLen))
    BY <1>0, <2>1, <2>3, <2>4
  <2>6. o \in slot.zeros
    <3>1. 0 \in 0 .. (n - 1)
      BY <2>2
    <3>2. o + 0 * PrefixLen = o
      BY <1>0
    <3> QED
      BY <2>1, <3>1, <3>2
  <2>7. ASSUME NEW k \in 0 .. (m - 1) PROVE o + PrefixLen + k * PrefixLen \in slot.zeros
    <3>1. k \in Nat /\ k + 1 \in 0 .. (n - 1)
      BY <2>3
    <3>2. o + (k + 1) * PrefixLen \in slot.zeros
      BY <2>1, <3>1
    <3>3. (k + 1) * PrefixLen = k * PrefixLen + PrefixLen /\ k * PrefixLen \in Nat
      BY <3>1, Steps
    <3>4. o + (k + 1) * PrefixLen = o + PrefixLen + k * PrefixLen
      BY <1>0, <3>3
    <3> QED
      BY <3>2, <3>4
  <2> QED
    BY <2>5, <2>6, <2>7 DEF ZeroRun
<1>2. ASSUME q = o PROVE ZeroRun(o, q)
  <2>1. 0 \in 0 .. (q - o) /\ q = o + 0 * PrefixLen /\ 0 .. (0 - 1) = {}
    BY <1>0, <1>2
  <2> QED
    BY <2>1 DEF ZeroRun
<1>3. ASSUME o \in slot.zeros, ZeroRun(o + PrefixLen, q) PROVE ZeroRun(o, q)
  <2>1. PICK m \in 0 .. (q - (o + PrefixLen)) :
          /\ q = o + PrefixLen + m * PrefixLen
          /\ \A k \in 0 .. (m - 1) : o + PrefixLen + k * PrefixLen \in slot.zeros
    BY <1>3 DEF ZeroRun
  <2>2. m \in Nat /\ m + 1 \in Nat
    BY <1>0
  <2>3. (m + 1) * PrefixLen = m * PrefixLen + PrefixLen /\ m * PrefixLen \in Nat
        /\ m + 1 <= (m + 1) * PrefixLen
    BY <2>2, Steps
  <2>4. q = o + (m + 1) * PrefixLen /\ m + 1 \in 0 .. (q - o)
    BY <1>0, <2>1, <2>2, <2>3
  <2>5. ASSUME NEW k \in 0 .. ((m + 1) - 1) PROVE o + k * PrefixLen \in slot.zeros
    <3>1. CASE k = 0
      BY <1>0, <1>3, <3>1
    <3>2. CASE k # 0
      <4> DEFINE j == k - 1
      <4>1. j \in 0 .. (m - 1) /\ j \in Nat /\ k = j + 1
        BY <2>2, <3>2
      <4> HIDE DEF j
      <4>2. o + PrefixLen + j * PrefixLen \in slot.zeros
        BY <2>1, <4>1
      <4>3. k * PrefixLen = j * PrefixLen + PrefixLen /\ j * PrefixLen \in Nat
        BY <4>1, Steps
      <4>4. o + k * PrefixLen = o + PrefixLen + j * PrefixLen
        BY <1>0, <4>3
      <4> QED
        BY <4>2, <4>4
    <3> QED
      BY <3>1, <3>2
  <2> QED
    BY <2>4, <2>5 DEF ZeroRun
<1> QED
  BY <1>1, <1>2, <1>3

\* Each byte of a run is reached over by a count of zero, the last of which begins a
\* count before the end.
LEMMA ZeroRunOver ==
  ASSUME NEW o \in Nat, NEW q \in Nat, ZeroRun(o, q)
  PROVE  /\ o <= q
         /\ q # o => o + PrefixLen <= q /\ q - PrefixLen \in slot.zeros
         /\ \A z \in Nat : (o <= z /\ z < q) =>
              \E x \in slot.zeros : x \in Nat /\ x <= z /\ z < x + PrefixLen
<1>0. PrefixLen \in Nat \ {0} /\ 0 * PrefixLen = 0
  BY SizeAssumption
<1>1. PICK n \in 0 .. (q - o) :
        q = o + n * PrefixLen /\ \A k \in 0 .. (n - 1) : o + k * PrefixLen \in slot.zeros
  BY DEF ZeroRun
<1>2. n \in Nat /\ n * PrefixLen \in Nat
  BY <1>1, Steps
<1>3. ASSUME q # o PROVE o + PrefixLen <= q /\ q - PrefixLen \in slot.zeros
  <2> DEFINE m == n - 1
  <2>1. m \in Nat /\ n = m + 1 /\ m \in 0 .. (n - 1)
    BY <1>0, <1>1, <1>2, <1>3
  <2> HIDE DEF m
  <2>2. n * PrefixLen = m * PrefixLen + PrefixLen /\ m * PrefixLen \in Nat
    BY <2>1, Steps
  <2>3. o + m * PrefixLen \in slot.zeros
    BY <1>1, <2>1
  <2>4. q - PrefixLen = o + m * PrefixLen
    BY <1>0, <1>1, <2>2
  <2> QED
    BY <1>0, <1>1, <2>2, <2>3, <2>4
<1>4. ASSUME NEW z \in Nat, o <= z, z < q
      PROVE  \E x \in slot.zeros : x \in Nat /\ x <= z /\ z < x + PrefixLen
  <2> DEFINE T == {k \in Nat : z < o + k * PrefixLen}
  <2>1. n \in T /\ T \subseteq Nat
    BY <1>1, <1>2, <1>4
  <2>2. \E m \in T : \A k \in T : m <= k
    <3> HIDE DEF T
    <3> QED
      BY <2>1, Least
  <2>3. PICK m \in T : \A k \in T : m <= k
    BY <2>2
  <2>4. m \in Nat /\ z < o + m * PrefixLen /\ m <= n
    BY <2>1, <2>3
  <2>5. m # 0
    BY <1>0, <1>4, <2>4
  <2> DEFINE j == m - 1
  <2>6. j \in Nat /\ m = j + 1 /\ j \in 0 .. (n - 1) /\ ~ (m <= j)
    BY <1>2, <2>4, <2>5
  <2>7. j \notin T
    BY <2>3, <2>6
  <2> HIDE DEF j
  <2>8. m * PrefixLen = j * PrefixLen + PrefixLen /\ j * PrefixLen \in Nat
    BY <2>6, Steps
  <2>9. ~ (z < o + j * PrefixLen)
    BY <2>6, <2>7
  <2> DEFINE x == o + j * PrefixLen
  <2>10. x \in slot.zeros
    BY <1>1, <2>6
  <2>11. m * PrefixLen \in Nat
    BY <2>4, Steps
  <2>12. x \in Nat /\ x <= z /\ z < x + PrefixLen
    BY <1>0, <2>4, <2>8, <2>9, <2>11
  <2> HIDE DEF x
  <2> QED
    BY <2>10, <2>12
<1> QED
  BY <1>1, <1>2, <1>3, <1>4

\* No run of counts of zero leads over a batch to the beginning of the next.
LEMMA NotOverBatch ==
  ASSUME slot \in Slots, NEW b \in slot.batches, NEW q \in Nat, q = BatchEnd(b),
         NEW o \in Nat, o <= BatchAt(b), ZeroRun(o, q)
  PROVE  FALSE
<1>1. /\ BatchAt(b) \in Nat /\ BatchAt(b) + PrefixLen <= q /\ b.count \in Nat
      /\ b.marks[0] = BatchAt(b) + PrefixLen /\ b.marks[b.count] = q
      /\ PrefixLen \in Nat \ {0}
  BY BytesApart, BatchFits, SizeAssumption
<1>2. q # o
  BY <1>1
<1>3. CASE b.count = 0
  <2>1. q - PrefixLen = BatchAt(b)
    BY <1>1, <1>3
  <2>2. q - PrefixLen \in slot.zeros
    BY <1>2, ZeroRunOver
  <2> QED
    BY <1>3, <2>1, <2>2, GarbledCount
<1>4. CASE b.count # 0
  <2>1. b.count \in 1 .. b.count
    BY <1>1, <1>4
  <2>2. /\ b.marks[b.count - 1] \in Nat /\ BatchAt(b) + PrefixLen <= b.marks[b.count - 1]
    BY <2>1, EntryFits
  <2>3. PICK z \in b.marks[b.count - 1] .. (b.marks[b.count] - 1) :
          \A x \in slot.zeros : z < x \/ x + PrefixLen <= z
    BY <2>1, ZeroAssumption
  <2>4. z \in Nat /\ o <= z /\ z < q
    BY <1>1, <2>2, <2>3
  <2>5. PICK x \in slot.zeros : x \in Nat /\ x <= z /\ z < x + PrefixLen
    BY <2>4, ZeroRunOver
  <2> QED
    BY <1>1, <2>3, <2>4, <2>5
<1> QED
  BY <1>3, <1>4

\* No shred, garbled or not, lies across two stretches of bytes.
LEMMA CleanSplit ==
  ASSUME slot \in Slots, NEW p \in Nat, NEW q \in Nat, NEW r \in Nat, p <= q, q <= r
  PROVE  Clean(p, r) <=> Clean(p, q) /\ Clean(q, r)
<1>1. ASSUME NEW g \in slot.garbled
      PROVE  (slot.offset[g + 1] <= p \/ r <= slot.offset[g]) <=>
               /\ slot.offset[g + 1] <= p \/ q <= slot.offset[g]
               /\ slot.offset[g + 1] <= q \/ r <= slot.offset[g]
  <2>1. g \in Shreds /\ slot.offset[g] < slot.offset[g + 1] /\ slot.length \in Nat
    BY SlotFits
  <2>2. g \in 0 .. slot.length /\ g + 1 \in 0 .. slot.length
    BY <2>1 DEF Shreds
  <2>3. slot.offset[g] \in Nat /\ slot.offset[g + 1] \in Nat
    BY <2>2, SlotFits
  <2> QED
    BY <2>1, <2>3
<1> QED
  BY <1>1 DEF Clean

\* A batch that is not the last is followed by one.
LEMMA NextBatch ==
  ASSUME slot \in Slots, NEW b \in slot.batches, NEW c \in slot.batches,
         BatchEnd(b) <= BatchAt(c)
  PROVE  \E d \in slot.batches : BatchAt(d) = BatchEnd(b)
<1>1. /\ b.from \in Nat /\ b.to \in Nat /\ b.from <= b.to /\ b.to < slot.length
      /\ c.from \in Nat /\ c.to \in Nat /\ c.from <= c.to /\ c.to < slot.length
      /\ slot.length \in Nat
  BY BatchFits, SlotFits
<1>2. b # c /\ ~ (c.to < b.from)
  BY BytesApart, BatchFits, SizeAssumption
<1>3. b.to < c.from
  BY <1>2, BatchesApart
<1>4. b.to + 1 \in Shreds
  BY <1>1, <1>3 DEF Shreds
<1>5. PICK d \in slot.batches : b.to + 1 \in d.from .. d.to
  BY <1>4, SlotFits
<1>6. d.from \in Nat /\ d.to \in Nat /\ d.from <= b.to + 1 /\ b.to + 1 <= d.to
  BY <1>1, <1>5, BatchFits
<1>7. d # b
  BY <1>1, <1>6
<1>8. d.from = b.to + 1
  BY <1>1, <1>6, <1>7, BatchesApart
<1> QED
  BY <1>8 DEF BatchAt, BatchEnd

\* A batch that is not the first follows one.
LEMMA BatchBefore ==
  ASSUME slot \in Slots, NEW c \in slot.batches, NEW d \in slot.batches, d.to < c.from
  PROVE  \E b \in slot.batches : /\ b.to + 1 = c.from /\ d.from <= b.from
                                 /\ BatchEnd(b) = BatchAt(c) /\ BatchAt(d) <= BatchAt(b)
<1>1. /\ d.from \in Nat /\ d.to \in Nat /\ d.from <= d.to /\ d.to < slot.length
      /\ c.from \in Nat /\ c.to \in Nat /\ c.from <= c.to /\ c.to < slot.length
      /\ slot.length \in Nat
  BY BatchFits, SlotFits
<1>2. c.from - 1 \in Shreds /\ c.from - 1 \in Nat
  BY <1>1 DEF Shreds
<1>3. PICK b \in slot.batches : c.from - 1 \in b.from .. b.to
  BY <1>2, SlotFits
<1>4. /\ b.from \in Nat /\ b.to \in Nat /\ b.from <= c.from - 1 /\ c.from - 1 <= b.to
      /\ b.to < slot.length
  BY <1>1, <1>3, BatchFits
<1>5. b # c
  BY <1>1, <1>4
<1>6. b.to + 1 = c.from
  BY <1>1, <1>4, <1>5, BatchesApart
<1>7. d.from <= b.from
  BY <1>1, <1>4, <1>6, BatchesApart
<1>8. d.from \in 0 .. slot.length /\ b.from \in 0 .. slot.length
  BY <1>1, <1>4
<1>9. BatchAt(d) <= BatchAt(b)
  BY <1>7, <1>8, OffsetsRise DEF BatchAt
<1> QED
  BY <1>6, <1>7, <1>9 DEF BatchEnd, BatchAt

\* From the beginning of a batch counts of zero do not lead to another.
LEMMA ZeroAtStart ==
  ASSUME slot \in Slots, NEW b \in slot.batches, NEW c \in slot.batches
  PROVE  ZeroRun(BatchAt(b), BatchAt(c)) <=> c = b
<1>1. BatchAt(b) \in Nat /\ BatchAt(c) \in Nat
  BY BatchFits
<1>2. c = b => ZeroRun(BatchAt(b), BatchAt(c))
  BY <1>1, ZeroRunStep
<1>3. ASSUME ZeroRun(BatchAt(b), BatchAt(c)), c # b PROVE FALSE
  <2>1. BatchAt(b) <= BatchAt(c)
    BY <1>1, <1>3, ZeroRunOver
  <2>2. b.to < c.from
    <3>1. c.to < b.from => BatchEnd(c) <= BatchAt(b)
      BY BytesApart
    <3> QED
      BY <1>3, <2>1, <3>1, BatchesApart, BytesApart, BatchFits, SizeAssumption
  <2>3. PICK d \in slot.batches : BatchEnd(d) = BatchAt(c) /\ BatchAt(b) <= BatchAt(d)
    BY <2>2, BatchBefore
  <2> QED
    BY <1>1, <1>3, <2>3, NotOverBatch
<1> QED
  BY <1>2, <1>3

\* What is read from the beginning of a batch, and from its end, whether or not
\* another batch begins there.
LEMMA InFrontAtStart ==
  ASSUME slot \in Slots, NEW b \in slot.batches, NEW x \in slot.batches, NEW end \in Nat
  PROVE  x \in InFront(BatchAt(b), end) <=>
           BatchAt(b) <= BatchAt(x) /\ BatchEnd(x) <= end /\ Clean(BatchAt(b), BatchEnd(x))
BY ZeroAtStart DEF InFront

LEMMA InFrontAtEnd ==
  ASSUME slot \in Slots, NEW b \in slot.batches, NEW x \in slot.batches, NEW end \in Nat
  PROVE  x \in InFront(BatchEnd(b), end) <=>
           BatchEnd(b) <= BatchAt(x) /\ BatchEnd(x) <= end /\ Clean(BatchEnd(b), BatchEnd(x))
<1>1. CASE \E d \in slot.batches : BatchAt(d) = BatchEnd(b)
  <2>1. PICK d \in slot.batches : BatchAt(d) = BatchEnd(b)
    BY <1>1
  <2>2. x \in InFront(BatchAt(d), end) <=>
          BatchAt(d) <= BatchAt(x) /\ BatchEnd(x) <= end /\ Clean(BatchAt(d), BatchEnd(x))
    BY InFrontAtStart
  <2> QED
    BY <2>1, <2>2
<1>2. CASE ~ \E d \in slot.batches : BatchAt(d) = BatchEnd(b)
  <2>1. \A c \in slot.batches : BatchEnd(b) > BatchAt(c)
    BY <1>2, NextBatch, BatchFits
  <2>2. \A c \in slot.batches : ~ ZeroRun(BatchEnd(b), BatchAt(c))
    <3> TAKE c \in slot.batches
    <3>1. BatchEnd(b) \in Nat /\ BatchAt(c) \in Nat
      BY BatchFits
    <3> QED
      BY <2>1, <3>1, ZeroRunOver
  <2>3. ~ (BatchEnd(b) <= BatchAt(x))
    BY <2>1, BatchFits
  <2> QED
    BY <2>2, <2>3 DEF InFront
<1> QED
  BY <1>1, <1>2

\* A count of zero that is no count of a batch is passed over.
LEMMA FrontPastZero ==
  ASSUME slot \in Slots, NEW p \in Nat, NEW end \in Nat, \A c \in slot.batches : BatchAt(c) # p
  PROVE  InFront(p, end) =
           IF p \in slot.zeros /\ p + PrefixLen <= end THEN InFront(p + PrefixLen, end) ELSE {}
<1>0. p + PrefixLen \in Nat
  BY SizeAssumption
<1>1. \A c \in slot.batches :
        ZeroRun(p, BatchAt(c)) <=> p \in slot.zeros /\ ZeroRun(p + PrefixLen, BatchAt(c))
  BY ZeroRunStep, BatchFits
<1>2. p \in slot.zeros => InFront(p, end) = InFront(p + PrefixLen, end)
  BY <1>1 DEF InFront
<1>3. p \notin slot.zeros => InFront(p, end) = {}
  BY <1>1 DEF InFront
<1>4. ASSUME NEW x \in InFront(p + PrefixLen, end) PROVE p + PrefixLen <= end
  <2>1. x \in slot.batches /\ BatchEnd(x) <= end
    BY DEF InFront
  <2>2. PICK c \in slot.batches : ZeroRun(p + PrefixLen, BatchAt(c)) /\ BatchAt(c) <= BatchAt(x)
    BY DEF InFront
  <2>3. BatchAt(c) \in Nat /\ BatchAt(x) \in Nat /\ BatchEnd(x) \in Nat /\ BatchAt(x) <= BatchEnd(x)
    BY <2>1, BatchFits, BytesApart, SizeAssumption
  <2>4. p + PrefixLen <= BatchAt(c)
    BY <1>0, <2>2, <2>3, ZeroRunOver
  <2> QED
    BY <1>0, <2>1, <2>2, <2>3, <2>4
<1> QED
  BY <1>2, <1>3, <1>4

\* Nothing is in front behind a count garbled as zero.
LEMMA NoneBehindZero ==
  ASSUME slot \in Slots, NEW b \in slot.batches, BatchAt(b) \in slot.zeros, NEW end \in Nat
  PROVE  InFront(BatchAt(b) + PrefixLen, end) = {}
<1>1. SUFFICES ASSUME NEW c \in slot.batches, ZeroRun(BatchAt(b) + PrefixLen, BatchAt(c)) PROVE FALSE
  BY DEF InFront
<1>2. BatchAt(b) \in Nat /\ BatchAt(c) \in Nat /\ BatchAt(b) + PrefixLen \in Nat
  BY BatchFits, SizeAssumption
<1>3. ZeroRun(BatchAt(b), BatchAt(c))
  BY <1>1, <1>2, ZeroRunStep
<1>4. c = b
  BY <1>3, ZeroAtStart
<1>5. BatchAt(b) + PrefixLen <= BatchAt(b)
  BY <1>1, <1>2, <1>4, ZeroRunOver
<1> QED
  BY <1>2, <1>5, SizeAssumption

\* Reading what is in front: one Vec, and then what is in front of the rest.
LEMMA FrontStep ==
  ASSUME slot \in Slots, NEW p \in Nat, NEW end \in Nat
  PROVE  Front(p, end) = UNION {v.txs \cup Front(v.end, end) : v \in VecReads(p, end)}
<1> DEFINE empty == [end |-> p + PrefixLen, txs |-> {}]
<1>0. empty.end = p + PrefixLen /\ empty.txs = {}
  OBVIOUS
<1> HIDE DEF empty
<1>1. CASE \A c \in slot.batches : BatchAt(c) # p
  <2>1. VecReads(p, end) = IF p \in slot.zeros /\ p + PrefixLen <= end THEN {empty} ELSE {}
    BY <1>1, VecReadsElse DEF empty
  <2>2. InFront(p, end) =
          IF p \in slot.zeros /\ p + PrefixLen <= end THEN InFront(p + PrefixLen, end) ELSE {}
    BY <1>1, FrontPastZero
  <2>3. CASE p \in slot.zeros /\ p + PrefixLen <= end
    <3>1. Front(p, end) = Front(p + PrefixLen, end)
      BY <2>2, <2>3 DEF Front
    <3>2. VecReads(p, end) = {empty}
      BY <2>1, <2>3
    <3> QED
      BY <1>0, <3>1, <3>2
  <2>4. CASE ~ (p \in slot.zeros /\ p + PrefixLen <= end)
    <3>1. InFront(p, end) = {} /\ VecReads(p, end) = {}
      BY <2>1, <2>2, <2>4
    <3> QED
      BY <3>1 DEF Front
  <2> QED
    BY <2>3, <2>4
<1>2. ASSUME NEW b \in slot.batches, BatchAt(b) = p
      PROVE  Front(p, end) = UNION {v.txs \cup Front(v.end, end) : v \in VecReads(p, end)}
  <2>1. \A c \in slot.batches :
          /\ BatchAt(c) \in Nat /\ BatchEnd(c) \in Nat /\ BatchAt(c) < BatchEnd(c)
          /\ c # b => BatchEnd(b) <= BatchAt(c) \/ BatchEnd(c) <= BatchAt(b)
    BY BytesApart, BatchFits, SizeAssumption
  <2>2. ASSUME NEW c \in slot.batches, p <= BatchAt(c), c # b
        PROVE  BatchEnd(b) <= BatchAt(c)
    BY <1>2, <2>1, <2>2
  <2> DEFINE vec == [end |-> BatchEnd(b), txs |-> extract_txs(b)]
  <2>0. vec.end = BatchEnd(b) /\ vec.txs = extract_txs(b)
    OBVIOUS
  <2> HIDE DEF vec
  <2>3. VecReads(p, end) =
          IF BatchEnd(b) <= end /\ Clean(p, BatchEnd(b)) THEN {vec}
          ELSE IF p \in slot.zeros /\ p + PrefixLen <= end THEN {empty} ELSE {}
    BY <1>2, VecReadsIs DEF vec, empty
  <2>4. CASE BatchEnd(b) <= end /\ Clean(p, BatchEnd(b))
    <3>1. b \in InFront(p, end)
      BY <1>2, <2>1, <2>4, InFrontAtStart
    <3>2. ASSUME NEW c \in InFront(p, end), c # b
          PROVE  c \in InFront(BatchEnd(b), end)
      <4>0. c \in slot.batches
        BY DEF InFront
      <4>1. p <= BatchAt(c) /\ BatchEnd(c) <= end /\ Clean(p, BatchEnd(c))
        BY <1>2, <4>0, InFrontAtStart
      <4>2. BatchEnd(b) <= BatchAt(c)
        BY <2>2, <3>2, <4>0, <4>1
      <4>3. p <= BatchEnd(b) /\ BatchEnd(b) <= BatchEnd(c) /\ BatchEnd(b) \in Nat /\ BatchEnd(c) \in Nat
        BY <1>2, <2>1, <4>0, <4>2
      <4>4. Clean(BatchEnd(b), BatchEnd(c))
        BY <4>1, <4>3, CleanSplit
      <4> QED
        BY <4>0, <4>1, <4>2, <4>4, InFrontAtEnd
    <3>3. ASSUME NEW c \in InFront(BatchEnd(b), end)
          PROVE  c \in InFront(p, end)
      <4>0. c \in slot.batches
        BY DEF InFront
      <4>1. BatchEnd(b) <= BatchAt(c) /\ BatchEnd(c) <= end /\ Clean(BatchEnd(b), BatchEnd(c))
        BY <4>0, InFrontAtEnd
      <4>2. /\ p <= BatchAt(c) /\ p <= BatchEnd(b) /\ BatchEnd(b) <= BatchEnd(c)
            /\ BatchEnd(b) \in Nat /\ BatchEnd(c) \in Nat
        BY <1>2, <2>1, <4>0, <4>1
      <4>3. Clean(p, BatchEnd(c))
        BY <2>4, <4>1, <4>2, CleanSplit
      <4> QED
        BY <1>2, <4>0, <4>1, <4>2, <4>3, InFrontAtStart
    <3>4. InFront(p, end) = {b} \cup InFront(BatchEnd(b), end)
      BY <3>1, <3>2, <3>3
    <3>5. VecReads(p, end) = {vec}
      BY <2>3, <2>4
    <3>6. Front(p, end) = extract_txs(b) \cup Front(BatchEnd(b), end)
      BY <3>4 DEF Front
    <3> QED
      BY <2>0, <3>5, <3>6
  <2>5. CASE ~ (BatchEnd(b) <= end /\ Clean(p, BatchEnd(b)))
    <3>1. ASSUME NEW c \in InFront(p, end) PROVE FALSE
      <4>0. c \in slot.batches
        BY DEF InFront
      <4>1. p <= BatchAt(c) /\ BatchEnd(c) <= end /\ Clean(p, BatchEnd(c))
        BY <1>2, <4>0, InFrontAtStart
      <4>2. c # b
        BY <2>5, <4>1
      <4>3. BatchEnd(b) <= BatchAt(c)
        BY <2>2, <4>0, <4>1, <4>2
      <4>4. /\ p <= BatchEnd(b) /\ BatchEnd(b) <= BatchEnd(c) /\ BatchEnd(b) <= end
            /\ BatchEnd(b) \in Nat /\ BatchEnd(c) \in Nat
        BY <1>2, <2>1, <4>0, <4>1, <4>3
      <4>5. Clean(p, BatchEnd(b))
        BY <4>1, <4>4, CleanSplit
      <4> QED
        BY <2>5, <4>4, <4>5
    <3>2. InFront(p, end) = {}
      BY <3>1
    <3>3. VecReads(p, end) = {} \/ (p \in slot.zeros /\ VecReads(p, end) = {empty})
      BY <2>3, <2>5
    <3>4. p \in slot.zeros => InFront(p + PrefixLen, end) = {}
      BY <1>2, NoneBehindZero
    <3>5. ASSUME p \in slot.zeros, VecReads(p, end) = {empty}
          PROVE  UNION {v.txs \cup Front(v.end, end) : v \in VecReads(p, end)} = {}
      <4>1. Front(p + PrefixLen, end) = {}
        BY <3>4, <3>5 DEF Front
      <4> QED
        BY <1>0, <3>5, <4>1
    <3> QED
      BY <3>2, <3>3, <3>5 DEF Front
  <2> QED
    BY <2>4, <2>5
<1> QED
  BY <1>1, <1>2

\* The loop of decode_concatenated moves on.
LEMMA ReadsOn ==
  ASSUME slot \in Slots, NEW p \in Nat, NEW end \in Nat, NEW v \in VecReads(p, end)
  PROVE  v.end \in Nat /\ p < v.end /\ v.end <= end
<1>1. CASE \A c \in slot.batches : BatchAt(c) # p
  BY <1>1, VecReadsElse, SizeAssumption
<1>2. ASSUME NEW b \in slot.batches, BatchAt(b) = p PROVE v.end \in Nat /\ p < v.end /\ v.end <= end
  <2>1. BatchEnd(b) \in Nat /\ p < BatchEnd(b)
    BY <1>2, BytesApart, BatchFits, SizeAssumption
  <2>2. \/ v = [end |-> BatchEnd(b), txs |-> extract_txs(b)] /\ BatchEnd(b) <= end
        \/ v = [end |-> p + PrefixLen, txs |-> {}] /\ p + PrefixLen <= end
    BY <1>2, VecReadsIs
  <2> QED
    BY <2>1, <2>2, SizeAssumption
<1> QED
  BY <1>1, <1>2

\* There is one function that satisfies the recursion, by induction on the bytes
\* that are left.
LEMMA LoopIs ==
  ASSUME slot \in Slots, NEW o \in Nat, NEW end \in Nat, NEW rest,
         rest = [p \in o .. end |->
                   UNION {v.txs \cup rest[v.end] : v \in VecReads(p, end)}]
  PROVE  \A p \in o .. end : rest[p] = Front(p, end)
<1> DEFINE T == {n \in Nat : \E p \in o .. end : n = end - p /\ rest[p] # Front(p, end)}
<1>1. SUFFICES ASSUME NEW p0 \in o .. end, rest[p0] # Front(p0, end) PROVE FALSE
  OBVIOUS
<1>2. end - p0 \in T
  BY <1>1
<1>3. T \subseteq Nat /\ T # {}
  BY <1>2
<1>4. \E n \in T : \A m \in T : n <= m
  <2> HIDE DEF T
  <2> QED
    BY <1>3, Least
<1>5. PICK n \in T : \A m \in T : n <= m
  BY <1>4
<1>6. PICK p \in o .. end : n = end - p /\ rest[p] # Front(p, end)
  OBVIOUS
<1>7. p \in Nat /\ o <= p /\ p <= end
  BY <1>6
<1>8. ASSUME NEW v \in VecReads(p, end)
      PROVE  rest[v.end] = Front(v.end, end)
  <2>1. v.end \in Nat /\ p < v.end /\ v.end <= end
    BY <1>7, ReadsOn
  <2> DEFINE q == v.end
  <2> HIDE DEF q
  <2>2. q \in Nat /\ p < q /\ q <= end
    BY <2>1 DEF q
  <2>3. q \in o .. end /\ end - q \in Nat /\ ~ (n <= end - q)
    BY <1>6, <1>7, <2>2
  <2>4. end - q \notin T
    BY <1>5, <2>3
  <2>5. rest[q] = Front(q, end)
    BY <2>3, <2>4
  <2> QED
    BY <2>5 DEF q
<1>9. rest[p] = UNION {v.txs \cup rest[v.end] : v \in VecReads(p, end)}
  BY <1>6
<1>10. rest[p] = UNION {v.txs \cup Front(v.end, end) : v \in VecReads(p, end)}
  <2> DEFINE A(v) == v.txs \cup rest[v.end]
             B(v) == v.txs \cup Front(v.end, end)
  <2>1. \A v \in VecReads(p, end) : A(v) = B(v)
    BY <1>8
  <2>2. rest[p] = UNION {A(v) : v \in VecReads(p, end)}
    BY <1>9
  <2> HIDE DEF A, B
  <2>3. {A(v) : v \in VecReads(p, end)} = {B(v) : v \in VecReads(p, end)}
    BY <2>1
  <2>4. rest[p] = UNION {B(v) : v \in VecReads(p, end)}
    BY <2>2, <2>3
  <2> QED
    BY <2>4 DEF B
<1>11. rest[p] = Front(p, end)
  BY <1>7, <1>10, FrontStep
<1> QED
  BY <1>6, <1>11

\* The recursion is satisfied, so that the loop returns what is in front.
LEMMA ConcatenatedIs ==
  ASSUME slot \in Slots, NEW o \in Nat, NEW end \in Nat, o <= end
  PROVE  decode_concatenated(o, end) = Front(o, end)
<1> DEFINE Loops(f) == f = [p \in o .. end |->
                              UNION {v.txs \cup f[v.end] : v \in VecReads(p, end)}]
           all == [p \in o .. end |-> Front(p, end)]
           rest == CHOOSE f : Loops(f)
<1>1. Loops(all)
  <2>1. ASSUME NEW p \in o .. end
        PROVE  all[p] = UNION {v.txs \cup all[v.end] : v \in VecReads(p, end)}
    <3>1. p \in Nat /\ o <= p
      BY <2>1
    <3>2. ASSUME NEW v \in VecReads(p, end) PROVE all[v.end] = Front(v.end, end)
      <4>1. v.end \in Nat /\ p < v.end /\ v.end <= end
        BY <3>1, ReadsOn
      <4>2. v.end \in o .. end
        BY <3>1, <4>1
      <4> QED
        BY <4>2
    <3>3. all[p] = Front(p, end)
      BY <2>1
    <3> HIDE DEF all
    <3>4. Front(p, end) = UNION {v.txs \cup Front(v.end, end) : v \in VecReads(p, end)}
      BY <3>1, FrontStep
    <3> QED
      BY <3>2, <3>3, <3>4
  <2> QED
    BY <2>1
<1>2. Loops(rest)
  <2> HIDE DEF Loops, all
  <2> QED
    BY <1>1
<1>3. decode_concatenated(o, end) = rest[o]
  BY DEF decode_concatenated
<1> HIDE DEF rest
<1>4. \A p \in o .. end : rest[p] = Front(p, end)
  BY <1>2, LoopIs
<1> QED
  BY <1>3, <1>4

\* Padding is what lies behind the last byte of a batch.
LEMMA PaddingIs ==
  ASSUME slot \in Slots, NEW b \in slot.batches, NEW i \in Shreds, b.from <= i, i <= b.to
  PROVE  i \in Ledger!Padding <=> BatchEnd(b) <= slot.offset[i]
<1>0. slot.length \in Nat \ {0} /\ i \in Nat /\ i < slot.length /\ i \in 0 .. slot.length
  BY SlotFits DEF Shreds
<1>1. /\ b.from \in Nat /\ b.to \in Nat
      /\ LastOf(b) \in Nat /\ b.from <= LastOf(b) /\ LastOf(b) <= b.to /\ LastOf(b) \in Shreds
  BY <1>0, BatchFits, LastByte
<1>2. 0 .. LastShred = Shreds
  BY LastShredIs DEF Shreds
<1>3. i \in Ledger!Padding <=>
        \E c \in slot.batches : LastOf(c) < i /\ Ledger!SameBatch(LastOf(c), i)
  BY <1>2 DEF Ledger!Padding, Ledger!DataIdx, LastOf
<1>4. ASSUME NEW c \in slot.batches, LastOf(c) < i, Ledger!SameBatch(LastOf(c), i)
      PROVE  c = b
  <2>1. /\ c.from \in Nat /\ c.to \in Nat /\ LastOf(c) \in Nat /\ LastOf(c) \in Shreds
        /\ c.from <= LastOf(c) /\ LastOf(c) <= c.to
    BY BatchFits, LastByte
  <2>2. i <= c.to
    BY <1>0, <1>1, <1>4, <2>1, Together
  <2> QED
    BY <1>0, <1>1, <1>4, <2>1, <2>2, BatchesApart
<1>5. LastOf(b) < i => Ledger!SameBatch(LastOf(b), i)
  BY <1>0, <1>1, Together
<1>6. LastOf(b) < i <=> BatchEnd(b) <= slot.offset[i]
  BY <1>0, <1>1, LastByte
<1> QED
  BY <1>3, <1>4, <1>5, <1>6

\* Reading gets from the front of a shred to the beginning of a batch if counts of
\* zero lead there, or nothing lies between.
LEMMA ReadFromIs ==
  ASSUME slot \in Slots, NEW lo \in Shreds, NEW c \in slot.batches
  PROVE  c.from \in Ledger!ReadFrom(lo) <=> ZeroRun(slot.offset[lo], BatchAt(c))
<1>1. /\ slot.length \in Nat \ {0} /\ lo \in Nat /\ lo < slot.length
      /\ c.from \in Nat /\ c.to \in Nat /\ c.from <= c.to /\ c.to < slot.length
      /\ c.from \in 0 .. slot.length /\ lo \in 0 .. slot.length /\ c.from \in Shreds
      /\ 0 .. LastShred = Shreds
  BY BatchFits, SlotFits, LastShredIs DEF Shreds
<1>2. slot.offset[lo] \in Nat /\ BatchAt(c) \in Nat
  BY <1>1, OffsetsRise DEF BatchAt
<1>3. Ledger!StartsBatch(c.from)
  BY <1>1, Starts
<1>4. PICK d \in slot.batches : lo \in d.from .. d.to
  BY SlotFits
<1>5. d.from \in Nat /\ d.to \in Nat /\ d.from <= lo /\ lo <= d.to /\ d.from \in 0 .. slot.length
      /\ BatchAt(d) <= slot.offset[lo]
  <2>1. d.from \in Nat /\ d.to \in Nat /\ d.from <= lo /\ lo <= d.to
    BY <1>1, <1>4, BatchFits
  <2>2. d.from \in 0 .. slot.length
    BY <1>1, <2>1
  <2> QED
    BY <1>1, <2>1, <2>2, OffsetsRise DEF BatchAt
<1> DEFINE Tails == {i \in Shreds : \E b \in slot.batches :
                       i \in (b.from + 1) .. b.to /\ ZeroRun(slot.offset[i], BatchEnd(b))}
<1>6. c.from \in Ledger!ReadFrom(lo) <=>
        \/ c.from = lo
        \/ lo < c.from /\ lo \in Ledger!Padding \cup Tails /\ Ledger!SameBatch(lo, c.from - 1)
  BY <1>1, <1>3 DEF Ledger!ReadFrom, Ledger!DataIdx
<1>7. CASE c.from = lo
  <2>1. slot.offset[lo] = BatchAt(c)
    BY <1>7 DEF BatchAt
  <2> QED
    BY <1>2, <1>6, <1>7, <2>1, ZeroRunStep
<1>8. CASE c.from < lo
  <2>1. c.from + 1 \in 0 .. slot.length /\ c.from + 1 <= lo
    BY <1>1, <1>8
  <2>2. slot.offset[c.from + 1] <= slot.offset[lo] /\ slot.offset[c.from + 1] \in Nat
    BY <1>1, <2>1, OffsetsRise
  <2>3. BatchAt(c) < slot.offset[lo]
    BY <1>2, <2>2, BatchFits DEF BatchAt
  <2>4. ~ ZeroRun(slot.offset[lo], BatchAt(c))
    BY <1>2, <2>3, ZeroRunOver
  <2> QED
    BY <1>1, <1>6, <1>8, <2>4
<1>9. CASE lo < c.from
  <2>1. d.to < c.from
    BY <1>1, <1>5, <1>9, BatchesApart
  <2>2. slot.offset[lo] <= BatchAt(c)
    BY <1>1, <1>9, OffsetsRise DEF BatchAt
  <2>3. Ledger!SameBatch(lo, c.from - 1) <=> d.to + 1 = c.from
    <3>1. c.from - 1 \in Shreds /\ c.from - 1 \in Nat /\ lo <= c.from - 1
      BY <1>1, <1>9 DEF Shreds
    <3>2. Ledger!SameBatch(lo, c.from - 1) <=> c.from - 1 <= d.to
      BY <1>5, <3>1, Together
    <3> QED
      BY <1>1, <1>5, <2>1, <3>2
  <2>4. d.to + 1 = c.from => BatchEnd(d) = BatchAt(c)
    BY DEF BatchEnd, BatchAt
  <2>5. lo \in Ledger!Padding <=> BatchEnd(d) <= slot.offset[lo]
    BY <1>5, PaddingIs
  <2>6. ASSUME lo \in Ledger!Padding, d.to + 1 = c.from
        PROVE  ZeroRun(slot.offset[lo], BatchAt(c))
    <3>1. slot.offset[lo] = BatchAt(c)
      BY <1>2, <2>2, <2>4, <2>5, <2>6
    <3> QED
      BY <1>2, <3>1, ZeroRunStep
  <2>7. ASSUME lo \in Tails, d.to + 1 = c.from
        PROVE  ZeroRun(slot.offset[lo], BatchAt(c))
    <3>1. PICK b \in slot.batches :
            lo \in (b.from + 1) .. b.to /\ ZeroRun(slot.offset[lo], BatchEnd(b))
      BY <2>7
    <3>2. b.from \in Nat /\ b.to \in Nat
      BY BatchFits
    <3>3. b.from <= lo /\ lo <= b.to
      BY <1>1, <3>1, <3>2
    <3>4. b = d
      BY <1>1, <1>5, <3>2, <3>3, BatchesApart
    <3> QED
      BY <2>4, <2>7, <3>1, <3>4
  <2>8. ASSUME ZeroRun(slot.offset[lo], BatchAt(c))
        PROVE  lo \in Tails /\ d.to + 1 = c.from
    <3>1. PICK b \in slot.batches : /\ b.to + 1 = c.from /\ d.from <= b.from
                                    /\ BatchEnd(b) = BatchAt(c) /\ BatchAt(d) <= BatchAt(b)
      BY <2>1, BatchBefore
    <3>2. b.from \in Nat /\ b.to \in Nat /\ b.from <= b.to /\ BatchAt(b) \in Nat
      BY BatchFits
    <3>3. ~ (slot.offset[lo] <= BatchAt(b))
      BY <1>2, <2>8, <3>1, NotOverBatch
    <3>4. ~ (lo <= b.from)
      <4>1. b.from \in 0 .. slot.length
        BY <1>1, <3>1, <3>2
      <4>2. lo <= b.from => slot.offset[lo] <= BatchAt(b)
        BY <1>1, <4>1, OffsetsRise DEF BatchAt
      <4> QED
        BY <3>3, <4>2
    <3>5. lo \in (b.from + 1) .. b.to
      BY <1>1, <1>9, <3>1, <3>2, <3>4
    <3>6. b = d
      BY <1>1, <1>5, <3>2, <3>4, <3>5, BatchesApart
    <3>7. ZeroRun(slot.offset[lo], BatchEnd(b))
      BY <2>8, <3>1
    <3>8. lo \in Tails
      BY <3>5, <3>7
    <3> QED
      BY <3>1, <3>6, <3>8
  <2> HIDE DEF Tails
  <2>9. c.from # lo
    BY <1>1, <1>9
  <2> QED
    BY <1>6, <1>9, <2>9, <2>3, <2>6, <2>7, <2>8
<1> QED
  BY <1>1, <1>7, <1>8, <1>9

\* What is in front of the bytes of lo .. hi is what SlotLedger says of lo .. hi.
LEMMA FrontIs ==
  ASSUME slot \in Slots, NEW lo \in Shreds, NEW hi \in Shreds, lo <= hi
  PROVE  Ledger!decode_concatenated(lo, hi) = Front(slot.offset[lo], slot.offset[hi + 1])
<1> DEFINE EI == [t \in {x.at : x \in Entries} |->
                    Holding((CHOOSE x \in Entries : x.at = t).end - 1)]
           Ends == {LastOf(c) : c \in slot.batches}
           from == slot.offset[lo]
           to == slot.offset[hi + 1]
           Read(h) == h \in lo .. hi /\
             \E s \in Ledger!ReadFrom(lo) : \E e \in Ends \cap (h .. hi) :
               s <= h /\ Ledger!SameBatch(h, e) /\ (s .. e) \cap slot.garbled = {}
<1>1. Ledger!decode_concatenated(lo, hi) = {t \in {x.at : x \in Entries} : Read(EI[t])}
  BY DEF Ledger!decode_concatenated, Ledger!EndingIn, LastOf
<1>2. /\ slot.length \in Nat \ {0} /\ lo \in Nat /\ hi \in Nat /\ lo < slot.length
      /\ hi < slot.length /\ lo \in 0 .. slot.length
  BY SlotFits DEF Shreds
<1>3. from \in Nat
  BY <1>2, SlotFits
<1>4. ASSUME NEW b \in slot.batches, NEW h \in Shreds, b.from <= h, h <= LastOf(b)
      PROVE  Read(h) <=> b \in InFront(from, to)
  <2>1. /\ b.from \in Nat /\ b.to \in Nat /\ h \in Nat /\ b.from \in 0 .. slot.length
        /\ LastOf(b) \in Nat /\ LastOf(b) <= b.to /\ b.from < slot.length
    BY <1>2, BatchFits, LastByte DEF Shreds
  <2>2. h <= b.to
    BY <1>4, <2>1
  <2>3. LastOf(b) <= hi <=> BatchEnd(b) <= to
    BY WholeIn
  <2>4. ASSUME Read(h) PROVE b \in InFront(from, to)
    <3>1. PICK s \in Ledger!ReadFrom(lo) : \E e \in Ends \cap (h .. hi) :
            s <= h /\ Ledger!SameBatch(h, e) /\ (s .. e) \cap slot.garbled = {}
      BY <2>4
    <3>2. PICK c2 \in slot.batches :
            /\ LastOf(c2) \in h .. hi
            /\ Ledger!SameBatch(h, LastOf(c2)) /\ (s .. LastOf(c2)) \cap slot.garbled = {}
      BY <3>1
    <3>3. h <= LastOf(c2) /\ LastOf(c2) <= hi /\ LastOf(c2) \in Nat
      BY <1>2, <2>1, <3>2, LastByte
    <3>4. c2 = b
      BY <1>4, <2>2, <3>2, <3>3, OneEnd
    <3>5. s \in Nat /\ s <= h /\ s \in Shreds /\ Ledger!StartsBatch(s)
      <4>1. 0 .. LastShred = Shreds
        BY <1>2, LastShredIs DEF Shreds
      <4>2. s \in Shreds /\ Ledger!StartsBatch(s)
        BY <4>1 DEF Ledger!ReadFrom, Ledger!DataIdx
      <4> QED
        BY <3>1, <4>2 DEF Shreds
    <3>6. PICK c \in slot.batches : c.from = s
      BY <3>5, Starts
    <3>7. ZeroRun(from, BatchAt(c))
      BY <3>6, ReadFromIs
    <3>8. BatchEnd(b) <= to
      BY <2>3, <3>3, <3>4
    <3>9. Clean(BatchAt(c), BatchEnd(b))
      <4>1. s <= LastOf(b)
        BY <1>4, <2>1, <3>5
      <4>2. Clean(slot.offset[s], BatchEnd(b))
        BY <3>2, <3>4, <3>5, <4>1, CleanShreds
      <4> QED
        BY <3>6, <4>2 DEF BatchAt
    <3>10. s <= b.from
      <4>1. c.to \in Nat /\ c.from <= c.to
        BY BatchFits
      <4> QED
        BY <2>1, <2>2, <3>5, <3>6, <4>1, BatchesApart
    <3>11. BatchAt(c) <= BatchAt(b)
      <4>1. s \in 0 .. slot.length
        BY <1>2, <3>5 DEF Shreds
      <4> QED
        BY <2>1, <3>6, <3>10, <4>1, OffsetsRise DEF BatchAt
    <3> QED
      BY <3>7, <3>8, <3>9, <3>11 DEF InFront
  <2>5. ASSUME b \in InFront(from, to) PROVE Read(h)
    <3>1. BatchEnd(b) <= to
      BY <2>5 DEF InFront
    <3>2. PICK c \in slot.batches : /\ ZeroRun(from, BatchAt(c)) /\ BatchAt(c) <= BatchAt(b)
                                    /\ Clean(BatchAt(c), BatchEnd(b))
      BY <2>5 DEF InFront
    <3>3. /\ c.from \in Nat /\ c.to \in Nat /\ c.from <= c.to /\ c.to < slot.length
          /\ c.from \in Shreds /\ c.from \in Ledger!ReadFrom(lo)
      BY <1>2, <3>2, BatchFits, ReadFromIs DEF Shreds
    <3>4. lo <= c.from
      <4>1. SUFFICES ASSUME c.from < lo PROVE FALSE
        BY <1>2, <3>3
      <4>2. c.from + 1 \in 0 .. slot.length /\ c.from + 1 <= lo
        BY <1>2, <3>3, <4>1
      <4>3. slot.offset[c.from + 1] <= from /\ slot.offset[c.from + 1] \in Nat
        BY <1>2, <4>2, OffsetsRise
      <4>4. from <= BatchAt(c) /\ BatchAt(c) \in Nat
        BY <1>3, <3>2, ZeroRunOver, BatchFits
      <4> QED
        BY <1>3, <4>3, <4>4, BatchFits DEF BatchAt
    <3>5. c.from <= b.from
      <4>1. SUFFICES ASSUME b.from < c.from PROVE FALSE
        BY <2>1, <3>3
      <4>2. b.to < c.from
        BY <2>1, <3>3, <4>1, BatchesApart
      <4> QED
        BY <3>2, <4>2, BytesApart, BatchFits, SizeAssumption
    <3>6. c.from \in lo .. h /\ c.from <= LastOf(b)
      BY <1>2, <1>4, <2>1, <3>3, <3>4, <3>5
    <3>7. LastOf(b) \in h .. hi /\ LastOf(b) \in Ends
      BY <1>2, <1>4, <2>1, <2>3, <3>1
    <3>8. h \in lo .. hi
      BY <1>2, <2>1, <3>3, <3>6, <3>7
    <3>9. c.from <= h
      BY <1>2, <2>1, <3>3, <3>6
    <3>10. Ledger!SameBatch(h, LastOf(b))
      BY <1>4, <2>2, OneEnd
    <3>11. (c.from .. LastOf(b)) \cap slot.garbled = {}
      BY <3>2, <3>3, <3>6, CleanShreds DEF BatchAt
    <3> HIDE DEF Ends
    <3> QED
      BY <3>3, <3>7, <3>8, <3>9, <3>10, <3>11
  <2> QED
    BY <2>4, <2>5
<1> HIDE DEF Read, from, to, Ends
<1>5. ASSUME NEW x \in Entries, NEW b \in slot.batches, BatchAt(b) < x.end, x.end <= BatchEnd(b)
      PROVE  Read(EI[x.at]) <=> b \in InFront(from, to)
  <2>1. EI[x.at] = Holding(x.end - 1)
    BY EndsInIs
  <2> HIDE DEF EI
  <2>2. b.from <= Holding(x.end - 1) /\ Holding(x.end - 1) <= LastOf(b)
    BY <1>5, EntriesOf
  <2>3. Holding(x.end - 1) \in Shreds
    BY EndsInShred, HoldingIs
  <2> QED
    BY <1>4, <2>1, <2>2, <2>3
<1> HIDE DEF EI
<1>6. ASSUME NEW x \in Entries
      PROVE  \E b \in slot.batches : BatchAt(b) < x.end /\ x.end <= BatchEnd(b)
  <2>1. PICK c \in slot.batches : \E k \in 1 .. c.count :
          x = [at |-> c.marks[k - 1], end |-> c.marks[k]]
    BY EntryIn
  <2>2. /\ BatchAt(c) + PrefixLen <= x.at /\ x.at < x.end /\ x.end <= BatchEnd(c)
        /\ x.at \in Nat /\ x.end \in Nat
    BY <2>1, EntryFits
  <2> QED
    BY <2>2, BatchFits, SizeAssumption
<1>7. \A t \in Front(from, to) : \E x \in Entries : t = x.at /\ Read(EI[t])
  <2> SUFFICES ASSUME NEW t \in Front(from, to)
               PROVE  \E x \in Entries : t = x.at /\ Read(EI[t])
    OBVIOUS
  <2>1. PICK b \in InFront(from, to) : t \in extract_txs(b)
    BY DEF Front
  <2>2. b \in slot.batches
    BY DEF InFront
  <2>3. PICK x \in Entries : t = x.at /\ BatchAt(b) < x.end /\ x.end <= BatchEnd(b)
    BY <2>1, <2>2, EntriesOf
  <2> QED
    BY <1>5, <2>1, <2>2, <2>3
<1>8. \A x \in Entries : Read(EI[x.at]) => x.at \in Front(from, to)
  <2> SUFFICES ASSUME NEW x \in Entries, Read(EI[x.at]) PROVE x.at \in Front(from, to)
    OBVIOUS
  <2>1. PICK b \in slot.batches : BatchAt(b) < x.end /\ x.end <= BatchEnd(b)
    BY <1>6
  <2>2. b \in InFront(from, to)
    BY <1>5, <2>1
  <2>3. x.at \in extract_txs(b)
    BY <2>1, EntriesOf
  <2> QED
    BY <2>2, <2>3 DEF Front
<1> QED
  BY <1>1, <1>7, <1>8 DEF from, to

\* decode_concatenated on any run of shreds reads the batches at its front that are
\* whole and clean, past batches without entries, shreds without bytes and counts of
\* zero in front, and nothing else.
THEOREM ConcatenatedExact == Spec => []ConcatReadsFront
<1>1. ASSUME Inv PROVE ConcatReadsFront
  <2> SUFFICES ASSUME NEW lo \in Shreds, NEW hi \in Shreds, lo <= hi
               PROVE  decode_concatenated(slot.offset[lo], slot.offset[hi + 1]) =
                        Ledger!decode_concatenated(lo, hi)
    BY DEF ConcatReadsFront
  <2>1. slot \in Slots
    BY <1>1 DEF Inv
  <2>2. slot.length \in Nat /\ lo \in 0 .. slot.length /\ hi + 1 \in 0 .. slot.length /\ lo <= hi + 1
    BY <2>1, SlotFits DEF Shreds
  <2>3. /\ slot.offset[lo] \in Nat /\ slot.offset[hi + 1] \in Nat
        /\ slot.offset[lo] <= slot.offset[hi + 1]
    BY <2>1, <2>2, OffsetsRise
  <2> QED
    BY <2>1, <2>3, ConcatenatedIs, FrontIs
<1> QED
  BY <1>1, InitEmpty, StepKeeps, PTL DEF Spec
=============================================================================
