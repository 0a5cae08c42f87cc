---------------------------- MODULE FecSetBuffer ----------------------------
(***************************************************************************)
(* fec.rs: the coding shreds buffered for each FEC set, what try_          *)
(* reconstruct makes of them and of the data shreds at hand, and the cache *)
(* of Reed-Solomon codecs all sets share.                                  *)
(*                                                                         *)
(* A shred is its position in the set and whether it is whole: long enough *)
(* to hold its shard.  The erasure code itself is external: from as many   *)
(* shards as the set has data shreds it rebuilds all of those.             *)
(***************************************************************************)
EXTENDS Integers, FiniteSets, SequencesExt

CONSTANTS
  Size,           \* [set -> how many data shreds it has]
  DataShreds,     \* what may arrive: records with set, position, whole
  CodingShreds,   \* and these with num_data, num_coding and variant as well
  MAX_SHARDS,     \* data and coding shards the codec can work with (256)
  CACHE_CAPACITY

Sets == DOMAIN Size

ASSUME FeedAssumption ==
  /\ Size \in [Sets -> Nat \ {0}]
  /\ \A d \in DataShreds : d.set \in Sets /\ d.position \in 0 .. (Size[d.set] - 1)
  /\ \A c \in CodingShreds :
       /\ c.set \in Sets /\ c.num_data \in Nat \ {0} /\ c.num_coding \in Nat \ {0}
       /\ c.position \in 0 .. (c.num_coding - 1)
       /\ c.variant \in {"CodeMerkle", "other"}
  /\ CACHE_CAPACITY \in Nat \ {0, 1}

VARIABLES
  header,    \* [Sets -> <<num_data, num_coding, variant>> of the buffer, or Unset]
  code,      \* [Sets -> buffered coding positions -> whole?]
  received,  \* [Sets -> data positions pending -> whole?]
  entries,   \* keys of the cached codecs, oldest first
  returned   \* what try_reconstruct last returned, for which set and pending shreds

vars == <<header, code, received, entries, returned>>

Unset    == <<0, 0, "none">>
NoShreds == [p \in {} |-> TRUE]
Nothing  == [set |-> CHOOSE f \in Sets : TRUE, failed |-> TRUE, positions |-> {},
             missing |-> {}, whole |-> FALSE]

num_data(f)   == header[f][1]
num_coding(f) == header[f][2]
variant(f)    == header[f][3]

-----------------------------------------------------------------------------
(* ReedSolomonCache.                                                       *)

\* Mutant: the codec asked for stays where it was.
get_or_build_copied(key) ==
  LET kept == IF Len(entries) >= CACHE_CAPACITY THEN Tail(entries) ELSE entries
  IN  entries' = Append(kept, key)

\* Mutant: a full cache drops the codec used last.
get_or_build_pop(key) ==
  LET kept == IF key \in ToSet(entries)
                THEN LET pos  == CHOOSE i \in DOMAIN entries : entries[i] = key
                         last == Len(entries)
                     IN  SubSeq([entries EXCEPT ![pos] = entries[last]], 1, last - 1)
              ELSE IF Len(entries) >= CACHE_CAPACITY THEN Front(entries) ELSE entries
  IN  entries' = Append(kept, key)

\* The codec asked for moves to the end, the last one taking its place; a full
\* cache drops the first.
get_or_build(key) ==
  LET kept == IF key \in ToSet(entries)
                THEN LET pos  == CHOOSE i \in DOMAIN entries : entries[i] = key
                         last == Len(entries)
                     IN  SubSeq([entries EXCEPT ![pos] = entries[last]], 1, last - 1)
              ELSE IF Len(entries) >= CACHE_CAPACITY THEN Tail(entries) ELSE entries
  IN  entries' = Append(kept, key)

-----------------------------------------------------------------------------
(* FecSetBuffer.                                                           *)

Init ==
  /\ header = [f \in Sets |-> Unset]
  /\ code = [f \in Sets |-> NoShreds]
  /\ received = [f \in Sets |-> NoShreds]
  /\ entries = <<>>
  /\ returned = Nothing

\* BTreeMap::entry(p).or_insert(whole), for the positions in S.
or_insert(map, S, whole) ==
  [p \in DOMAIN map \cup S |-> IF p \in DOMAIN map THEN map[p] ELSE whole]

\* push_data: a data shred becomes pending.
ReceiveData(d) ==
  /\ d.position \notin DOMAIN received[d.set]
  /\ received' = [received EXCEPT ![d.set] = or_insert(@, {d.position}, d.whole)]
  /\ UNCHANGED <<header, code, entries, returned>>

\* The first shred of a set says what the set is like, for good, and the first
\* copy of a coding shred is kept.
record_code(c) ==
  /\ header' = [header EXCEPT ![c.set] =
                  IF @ = Unset THEN <<c.num_data, c.num_coding, c.variant>> ELSE @]
  /\ code' = [code EXCEPT ![c.set] = or_insert(@, {c.position}, c.whole)]
  /\ UNCHANGED <<received, entries, returned>>

can_recover_with(f) ==
  /\ num_data(f) > 0
  /\ Cardinality(DOMAIN received[f] \cap 0 .. (num_data(f) - 1))
       + Cardinality(DOMAIN code[f]) >= num_data(f)

\* Mutant: coding shards are put at their position instead of behind the data.
shards_overlaid(f) ==
  {p \in DOMAIN code[f] : code[f][p]}
    \cup {p \in DOMAIN received[f] : received[f][p] /\ p < num_data(f)}

\* The places that are filled before reconstruction: a coding shred belongs
\* behind the data shreds, and a shred too short for its shard fills nothing.
shards(f) ==
  {num_data(f) + p : p \in {q \in DOMAIN code[f] : code[f][q] /\ q < num_coding(f)}}
    \cup {p \in DOMAIN received[f] : received[f][p] /\ p < num_data(f)}

Missing(f) == (0 .. (num_data(f) - 1)) \ DOMAIN received[f]

AllWhole(f) ==
  /\ \A p \in DOMAIN code[f] : code[f][p]
  /\ \A p \in DOMAIN received[f] : received[f][p]

Answer(f, failed, positions) ==
  returned' = [set |-> f, failed |-> failed, positions |-> positions,
               missing |-> Missing(f), whole |-> AllWhole(f)]

\* The codec is asked only for shards as Merkle shreds have them, all cut as the
\* first coding shred of the set has its own, and only for enough of them.
Enough(f) == variant(f) = "CodeMerkle" /\ Cardinality(shards(f)) >= num_data(f)

\* Otherwise nothing is returned, and the set stays as it is.
ReturnNothing(f) ==
  /\ can_recover_with(f)
  /\ ~ Enough(f)
  /\ Answer(f, FALSE, {})
  /\ UNCHANGED <<header, code, received, entries>>

\* The codec cannot be built for so many shards: an error.
NoCodec(f) ==
  /\ can_recover_with(f)
  /\ Enough(f)
  /\ num_data(f) + num_coding(f) > MAX_SHARDS
  /\ Answer(f, TRUE, {})
  /\ UNCHANGED <<header, code, received, entries>>

\* The data shreds that were not at hand are returned; try_fec_fill makes them
\* pending and drops the buffer of the set.
Reconstruct(f) ==
  /\ can_recover_with(f)
  /\ Enough(f)
  /\ num_data(f) + num_coding(f) <= MAX_SHARDS
  /\ get_or_build(<<num_data(f), num_coding(f)>>)
  /\ Answer(f, FALSE, Missing(f))
  /\ received' = [received EXCEPT ![f] = or_insert(@, Missing(f), TRUE)]
  /\ IF Missing(f) = {}
       THEN UNCHANGED <<header, code>>
       ELSE /\ header' = [header EXCEPT ![f] = Unset]
            /\ code' = [code EXCEPT ![f] = NoShreds]

try_reconstruct(f) == ReturnNothing(f) \/ NoCodec(f) \/ Reconstruct(f)

\* push_code at the cap of the accumulator drops the buffer of an older set.
Evict(f) ==
  /\ header[f] # Unset
  /\ header' = [header EXCEPT ![f] = Unset]
  /\ code' = [code EXCEPT ![f] = NoShreds]
  /\ UNCHANGED <<received, entries, returned>>

Next ==
  \/ \E d \in DataShreds : ReceiveData(d)
  \/ \E c \in CodingShreds : record_code(c)
  \/ \E f \in Sets : try_reconstruct(f) \/ Evict(f)

Spec == Init /\ [][Next]_vars

-----------------------------------------------------------------------------
(* Properties.                                                             *)

\* All coding shreds of the set describe it as it is, a set of Merkle shreds.
Honest(f) ==
  \A c, d \in {x \in CodingShreds : x.set = f} :
    c.num_data = Size[f] /\ c.num_coding = d.num_coding /\ c.variant = "CodeMerkle"

\* What SlotAccumulator assumes of a set that can be recovered: can_recover_with
\* counts coding and data shreds, and wherever it counts enough, whole shreds of
\* a set described as it is fill as many places of the array try_reconstruct
\* hands to the codec; so exactly the data shreds that are not pending come
\* back, unless the codec cannot deal with so many.
MissingReturned ==
  LET r == returned
  IN  (Honest(r.set) /\ r.whole /\ ~ r.failed) => r.positions = r.missing

\* A codec is cached at most once, and the cache stays within its capacity
\* although a hit reorders it.
CodecsDistinct ==
  /\ Len(entries) <= CACHE_CAPACITY
  /\ \A i, j \in DOMAIN entries : entries[i] = entries[j] => i = j

\* The codec of the set just rebuilt is still cached after the next rebuild, so
\* two shapes of sets that alternate are both built once.
LastUsedStays ==
  [][entries # <<>> => Last(entries) \in ToSet(entries')]_entries
=============================================================================
