------------------------- MODULE FecSetBufferProofs -------------------------
(***************************************************************************)
(* The codec cache and the FEC set buffer, for any feed, any capacity of   *)
(* the cache and any limit of the codec: the cache keeps its codecs apart  *)
(* and the one used last, and whatever can be recovered of a set described *)
(* as it is comes back whole.                                              *)
(***************************************************************************)
EXTENDS FecSetBuffer, FiniteSetTheorems, TLAPS

Keys == Nat \X Nat
Variants == {"CodeMerkle", "other", "none"}
Headers == Nat \X Nat \X Variants

-----------------------------------------------------------------------------
(* The cache.                                                              *)

\* A hit only reorders the cache: the key asked for goes to the end and the
\* last one takes its place.
LEMMA HitReorders ==
  ASSUME entries \in Seq(Keys), NEW key, key \in ToSet(entries), get_or_build(key)
  PROVE  \E pos \in 1 .. Len(entries) :
           /\ entries[pos] = key
           /\ entries' \in Seq(Keys) /\ Len(entries') = Len(entries)
           /\ \A i \in 1 .. Len(entries) :
                entries'[i] = IF i = Len(entries) THEN key
                              ELSE IF i = pos THEN entries[Len(entries)] ELSE entries[i]
<1> DEFINE pos  == CHOOSE i \in DOMAIN entries : entries[i] = key
           last == Len(entries)
           swapped == [entries EXCEPT ![pos] = entries[last]]
           kept == SubSeq(swapped, 1, last - 1)
<1>1. pos \in 1 .. last /\ entries[pos] = key /\ last \in Nat
  BY DEF ToSet
<1>2. key \in Keys /\ last \in 1 .. last
  BY <1>1
<1>3. entries' = Append(kept, key)
  BY DEF get_or_build
<1> HIDE DEF pos
<1>4. /\ swapped \in Seq(Keys) /\ Len(swapped) = last
      /\ \A i \in 1 .. last : swapped[i] = IF i = pos THEN entries[last] ELSE entries[i]
  BY <1>1, <1>2
<1> HIDE DEF swapped
<1>5. /\ kept \in Seq(Keys) /\ Len(kept) = last - 1
      /\ \A i \in 1 .. (last - 1) : kept[i] = swapped[i]
  BY <1>1, <1>2, <1>4
<1> HIDE DEF kept
<1>6. /\ entries' \in Seq(Keys) /\ Len(entries') = last
      /\ \A i \in 1 .. (last - 1) : entries'[i] = kept[i]
      /\ entries'[last] = key
  BY <1>1, <1>2, <1>3, <1>5
<1>7. \A i \in 1 .. last : entries'[i] = IF i = last THEN key
                                         ELSE IF i = pos THEN entries[last] ELSE entries[i]
  BY <1>1, <1>4, <1>5, <1>6
<1> QED BY <1>1, <1>6, <1>7

\* A miss appends the key, behind what was there, or behind all but the first
\* of it when the cache is full.
LEMMA MissAppends ==
  ASSUME entries \in Seq(Keys), NEW key \in Keys, key \notin ToSet(entries),
         get_or_build(key), Len(entries) <= CACHE_CAPACITY
  PROVE  \E dropped \in {0, 1} :
           /\ dropped = 1 => Len(entries) = CACHE_CAPACITY
           /\ dropped = 0 => Len(entries) < CACHE_CAPACITY
           /\ entries' \in Seq(Keys) /\ Len(entries') = Len(entries) - dropped + 1
           /\ \A i \in 1 .. (Len(entries) - dropped) : entries'[i] = entries[i + dropped]
           /\ entries'[Len(entries) - dropped + 1] = key
<1>1. CACHE_CAPACITY \in Nat /\ CACHE_CAPACITY >= 2 /\ Len(entries) \in Nat
  BY FeedAssumption
<1>2. CASE Len(entries) >= CACHE_CAPACITY
  <2>1. entries' = Append(Tail(entries), key)
    BY <1>2 DEF get_or_build
  <2>2. /\ Tail(entries) \in Seq(Keys) /\ Len(Tail(entries)) = Len(entries) - 1
        /\ \A i \in 1 .. (Len(entries) - 1) : Tail(entries)[i] = entries[i + 1]
    BY <1>1, <1>2
  <2>3. Len(entries) = CACHE_CAPACITY
    BY <1>1, <1>2
  <2>4. /\ entries' \in Seq(Keys) /\ Len(entries') = Len(entries) - 1 + 1
        /\ \A i \in 1 .. (Len(entries) - 1) : entries'[i] = entries[i + 1]
        /\ entries'[Len(entries) - 1 + 1] = key
    BY <1>1, <2>1, <2>2, <2>3
  <2> QED BY <2>3, <2>4
<1>3. CASE ~ Len(entries) >= CACHE_CAPACITY
  <2>1. entries' = Append(entries, key)
    BY <1>3 DEF get_or_build
  <2>2. /\ entries' \in Seq(Keys) /\ Len(entries') = Len(entries) - 0 + 1
        /\ \A i \in 1 .. (Len(entries) - 0) : entries'[i] = entries[i + 0]
        /\ entries'[Len(entries) - 0 + 1] = key
    BY <1>1, <2>1
  <2> QED BY <1>1, <1>3, <2>2
<1> QED BY <1>2, <1>3

\* A codec is in the cache at most once, within its capacity, whatever shapes
\* are asked for in which order; and the one asked for before stays.
LEMMA CacheKeeps ==
  ASSUME entries \in Seq(Keys), CodecsDistinct, NEW key \in Keys, get_or_build(key)
  PROVE  /\ entries' \in Seq(Keys) /\ CodecsDistinct'
         /\ entries # <<>> => Last(entries) \in ToSet(entries')
<1> DEFINE n == Len(entries)
<1>1. /\ CACHE_CAPACITY \in Nat /\ CACHE_CAPACITY >= 2 /\ n \in Nat /\ n <= CACHE_CAPACITY
      /\ \A i, j \in 1 .. n : entries[i] = entries[j] => i = j
  BY FeedAssumption DEF CodecsDistinct
<1>2. entries # <<>> => n \in 1 .. n /\ Last(entries) = entries[n]
  BY <1>1 DEF Last
<1>3. CASE key \in ToSet(entries)
  <2>1. PICK pos \in 1 .. n :
           /\ entries[pos] = key
           /\ entries' \in Seq(Keys) /\ Len(entries') = n
           /\ \A i \in 1 .. n :
                entries'[i] = IF i = n THEN key ELSE IF i = pos THEN entries[n] ELSE entries[i]
    BY <1>3, HitReorders
  <2>2. \A i, j \in 1 .. n : entries'[i] = entries'[j] => i = j
    BY <1>1, <2>1
  <2>3. CodecsDistinct'
    BY <1>1, <2>1, <2>2, FeedAssumption DEF CodecsDistinct
  <2>4. entries'[pos] = entries[n]
    BY <2>1
  <2>5. entries[n] \in ToSet(entries')
    BY <2>1, <2>4 DEF ToSet
  <2> QED BY <1>2, <2>1, <2>3, <2>5
<1>4. CASE key \notin ToSet(entries)
  <2>1. PICK d \in {0, 1} :
           /\ d = 1 => n = CACHE_CAPACITY
           /\ d = 0 => n < CACHE_CAPACITY
           /\ entries' \in Seq(Keys) /\ Len(entries') = n - d + 1
           /\ \A i \in 1 .. (n - d) : entries'[i] = entries[i + d]
           /\ entries'[n - d + 1] = key
    BY <1>1, <1>4, MissAppends
  <2>2. \A i \in 1 .. n : entries[i] # key
    BY <1>4 DEF ToSet
  <2>3. \A i, j \in 1 .. (n - d + 1) : entries'[i] = entries'[j] => i = j
    <3> SUFFICES ASSUME NEW i \in 1 .. (n - d + 1), NEW j \in 1 .. (n - d + 1),
                        entries'[i] = entries'[j]
                 PROVE  i = j
      OBVIOUS
    <3>1. ASSUME NEW k \in 1 .. (n - d + 1)
          PROVE  \/ k = n - d + 1 /\ entries'[k] = key
                 \/ k + d \in 1 .. n /\ entries'[k] = entries[k + d] /\ entries'[k] # key
      <4>1. CASE k = n - d + 1
        BY <4>1, <2>1
      <4>2. CASE k # n - d + 1
        <5>1. k \in 1 .. (n - d) /\ k + d \in 1 .. n
          BY <4>2, <1>1, <2>1
        <5> QED BY <5>1, <2>1, <2>2
      <4> QED BY <4>1, <4>2
    <3>2. i \in Int /\ j \in Int /\ d \in Int
      BY <1>1
    <3>3. CASE i + d \in 1 .. n /\ j + d \in 1 .. n /\ entries[i + d] = entries[j + d]
      BY <3>2, <3>3, <1>1
    <3> QED BY <3>1, <3>3
  <2>4. CodecsDistinct'
    BY <1>1, <2>1, <2>3, FeedAssumption DEF CodecsDistinct
  <2>5. entries # <<>> => n - d \in 1 .. Len(entries') /\ entries'[n - d] = entries[n]
    BY <1>1, <1>2, <2>1
  <2>6. entries # <<>> => entries[n] \in ToSet(entries')
    BY <2>1, <2>5 DEF ToSet
  <2> QED BY <1>2, <2>1, <2>4, <2>6
<1> QED BY <1>3, <1>4

-----------------------------------------------------------------------------
(* The sets.                                                               *)

\* What is buffered of a set came with its coding shreds.
BufferInv(f) ==
  /\ header[f] \in Headers
  /\ header[f] # Unset =>
       \E c \in CodingShreds :
         c.set = f /\ header[f] = <<c.num_data, c.num_coding, c.variant>>
  /\ \A p \in DOMAIN code[f] : \E c \in CodingShreds : c.set = f /\ c.position = p
  /\ DOMAIN received[f] \subseteq Nat

IInv ==
  /\ DOMAIN header = Sets /\ DOMAIN code = Sets /\ DOMAIN received = Sets
  /\ \A f \in Sets : BufferInv(f)
  /\ entries \in Seq(Keys) /\ CodecsDistinct
  /\ MissingReturned

\* The pending data shreds that can serve as shards of the set.
AtHand(f) == DOMAIN received[f] \cap 0 .. (num_data(f) - 1)

\* As many shards as counted by can_recover_with: coding shreds are put behind
\* the data shreds, so none of them takes the place of another.
LEMMA AllShredsAreShards ==
  ASSUME IInv, NEW f \in Sets, Honest(f), AllWhole(f), num_data(f) > 0
  PROVE  /\ Cardinality(shards(f)) = Cardinality(AtHand(f)) + Cardinality(DOMAIN code[f])
         /\ Cardinality(shards(f)) \in Nat /\ variant(f) = "CodeMerkle"
<1> DEFINE nd == num_data(f)
           behind == {nd + p : p \in DOMAIN code[f]}
<1>1. nd \in Nat /\ num_coding(f) \in Nat
  BY DEF IInv, BufferInv, Headers, num_data, num_coding
<1>2. PICK c \in CodingShreds :
        c.set = f /\ header[f] = <<c.num_data, c.num_coding, c.variant>>
  <2>1. header[f] # Unset
    BY <1>1 DEF num_data, Unset
  <2> QED BY <2>1 DEF IInv, BufferInv
<1>3. \A p \in DOMAIN code[f] : p \in Nat /\ p < num_coding(f)
  <2> SUFFICES ASSUME NEW p \in DOMAIN code[f]
               PROVE  p \in Nat /\ p < num_coding(f)
    OBVIOUS
  <2>1. PICK d \in CodingShreds : d.set = f /\ d.position = p
    BY DEF IInv, BufferInv
  <2>2. d.num_coding = num_coding(f)
    BY <1>2, <2>1 DEF Honest, num_coding
  <2>3. d.position \in 0 .. (d.num_coding - 1) /\ d.num_coding \in Nat
    BY FeedAssumption
  <2> QED BY <2>1, <2>2, <2>3
<1>4. IsFiniteSet(DOMAIN code[f])
  <2>1. DOMAIN code[f] \in SUBSET Nat /\ \A p \in DOMAIN code[f] : p <= num_coding(f)
    BY <1>1, <1>3
  <2> QED BY <1>1, <2>1, FS_BoundedSetOfNaturals
<1>5. IsFiniteSet(behind) /\ Cardinality(behind) = Cardinality(DOMAIN code[f])
  <2> DEFINE shift == [p \in DOMAIN code[f] |-> nd + p]
  <2>1. shift \in [DOMAIN code[f] -> behind]
    OBVIOUS
  <2>2. \A p, q \in DOMAIN code[f] : shift[p] = shift[q] => p = q
    BY <1>1, <1>3
  <2>3. \A b \in behind : \E p \in DOMAIN code[f] : shift[p] = b
    OBVIOUS
  <2>4. shift \in Bijection(DOMAIN code[f], behind)
    BY <2>1, <2>2, <2>3 DEF Bijection, Injection, Surjection, IsInjective
  <2> QED BY <1>4, <2>4, FS_Bijection DEF ExistsBijection
<1>6. IsFiniteSet(AtHand(f)) /\ Cardinality(AtHand(f)) \in Nat
  <2>1. IsFiniteSet(0 .. (nd - 1))
    BY <1>1, FS_Interval
  <2>2. IsFiniteSet(AtHand(f))
    BY <2>1, FS_Intersection DEF AtHand
  <2> QED BY <2>2, FS_CardinalityType
<1>7. shards(f) = behind \cup AtHand(f)
  <2>1. {q \in DOMAIN code[f] : code[f][q] /\ q < num_coding(f)} = DOMAIN code[f]
    BY <1>3 DEF AllWhole
  <2>2. {p \in DOMAIN received[f] : received[f][p] /\ p < nd} = AtHand(f)
    BY <1>1 DEF AllWhole, AtHand, IInv, BufferInv
  <2> QED BY <2>1, <2>2 DEF shards
<1>8. behind \cap AtHand(f) = {}
  BY <1>1, <1>3 DEF AtHand
<1>9. Cardinality(behind \cap AtHand(f)) = 0
  BY <1>8, FS_EmptySet
<1>10. Cardinality(behind \cup AtHand(f)) =
         Cardinality(behind) + Cardinality(AtHand(f)) - Cardinality(behind \cap AtHand(f))
  BY <1>5, <1>6, FS_Union
<1>11. Cardinality(behind) \in Nat
  BY <1>5, FS_CardinalityType
<1>12. variant(f) = "CodeMerkle"
  BY <1>2 DEF Honest, variant
<1> QED BY <1>5, <1>6, <1>7, <1>9, <1>10, <1>11, <1>12

LEMMA InitEstablishes == Init => IInv
<1> SUFFICES ASSUME Init PROVE IInv
  OBVIOUS
<1>1. \A f \in Sets : BufferInv(f)
  BY DEF Init, BufferInv, Headers, Variants, Unset, NoShreds
<1>2. entries \in Seq(Keys) /\ CodecsDistinct
  BY FeedAssumption DEF Init, CodecsDistinct
<1>3. MissingReturned
  BY DEF Init, MissingReturned, Nothing
<1> QED BY <1>1, <1>2, <1>3 DEF Init, IInv

\* What the call returns when it succeeds, or when it may not.
LEMMA AnswerRight ==
  ASSUME NEW f \in Sets, NEW failed \in BOOLEAN, NEW positions,
         Answer(f, failed, positions),
         (Honest(f) /\ AllWhole(f) /\ ~ failed) => positions = Missing(f)
  PROVE  MissingReturned'
<1>1. returned' = [set |-> f, failed |-> failed, positions |-> positions,
                   missing |-> Missing(f), whole |-> AllWhole(f)]
  BY DEF Answer
<1>2. returned'.set = f /\ returned'.positions = positions /\ returned'.missing = Missing(f)
  BY <1>1
<1>3. returned'.failed = failed
  BY <1>1
<1>4. returned'.whole = AllWhole(f)
  BY <1>1
<1> QED BY <1>2, <1>3, <1>4 DEF MissingReturned, Honest

LEMMA NextPreserves ==
  ASSUME IInv, [Next]_vars
  PROVE  IInv'
<1>1. /\ DOMAIN header = Sets /\ DOMAIN code = Sets /\ DOMAIN received = Sets
      /\ \A f \in Sets : BufferInv(f)
      /\ entries \in Seq(Keys) /\ CodecsDistinct /\ MissingReturned
  BY DEF IInv
<1>2. \A S, whole : \A f \in Sets : DOMAIN or_insert(code[f], S, whole) = DOMAIN code[f] \cup S
  BY DEF or_insert
<1>3. \A S, whole : \A f \in Sets : DOMAIN or_insert(received[f], S, whole) = DOMAIN received[f] \cup S
  BY DEF or_insert
<1>4. Unset \in Headers /\ DOMAIN NoShreds = {}
  BY DEF Unset, Headers, Variants, NoShreds
<1>5. UNCHANGED returned => MissingReturned'
  BY <1>1 DEF MissingReturned, Honest
<1>6. UNCHANGED entries => entries' \in Seq(Keys) /\ CodecsDistinct'
  BY <1>1 DEF CodecsDistinct
<1>7. ASSUME NEW d \in DataShreds, ReceiveData(d)
      PROVE  IInv'
  <2>1. d.set \in Sets /\ d.position \in Nat
    BY FeedAssumption
  <2>2. /\ UNCHANGED <<header, code>> /\ DOMAIN received' = Sets
        /\ DOMAIN received'[d.set] = DOMAIN received[d.set] \cup {d.position}
        /\ \A f \in Sets \ {d.set} : received'[f] = received[f]
    BY <1>1, <1>3, <1>7, <2>1 DEF ReceiveData
  <2>3. ASSUME NEW f \in Sets PROVE BufferInv(f)'
    BY <1>1, <2>1, <2>2 DEF BufferInv
  <2> QED BY <1>1, <1>5, <1>6, <1>7, <2>2, <2>3 DEF ReceiveData, IInv
<1>8. ASSUME NEW c \in CodingShreds, record_code(c)
      PROVE  IInv'
  <2>1. c.set \in Sets /\ <<c.num_data, c.num_coding, c.variant>> \in Headers
    BY FeedAssumption DEF Headers, Variants
  <2>2. /\ UNCHANGED received /\ DOMAIN header' = Sets /\ DOMAIN code' = Sets
        /\ header'[c.set] = IF header[c.set] = Unset THEN <<c.num_data, c.num_coding, c.variant>>
                         ELSE header[c.set]
        /\ DOMAIN code'[c.set] = DOMAIN code[c.set] \cup {c.position}
        /\ \A f \in Sets \ {c.set} : header'[f] = header[f] /\ code'[f] = code[f]
    BY <1>1, <1>2, <1>8, <2>1 DEF record_code
  <2>3. ASSUME NEW f \in Sets PROVE BufferInv(f)'
    <3>1. CASE f = c.set
      BY <1>1, <2>1, <2>2, <3>1 DEF BufferInv
    <3>2. CASE f # c.set
      BY <1>1, <2>2, <3>2 DEF BufferInv
    <3> QED BY <3>1, <3>2
  <2> QED BY <1>1, <1>5, <1>6, <1>8, <2>2, <2>3 DEF record_code, IInv
<1>9. ASSUME NEW f \in Sets, header' = [header EXCEPT ![f] = Unset],
             code' = [code EXCEPT ![f] = NoShreds]
      PROVE  /\ DOMAIN header' = Sets /\ DOMAIN code' = Sets
             /\ \A g \in Sets : /\ DOMAIN received'[g] \subseteq Nat => BufferInv(g)'
  BY <1>1, <1>4, <1>9 DEF BufferInv
<1>10. ASSUME NEW f \in Sets, try_reconstruct(f)
       PROVE  IInv'
  <2>1. num_data(f) \in Nat /\ <<num_data(f), num_coding(f)>> \in Keys
    BY <1>1 DEF BufferInv, Headers, Keys, num_data, num_coding
  <2>2. CASE ReturnNothing(f)
    <3>1. ~ (Honest(f) /\ AllWhole(f))
      <4> SUFFICES ASSUME Honest(f), AllWhole(f) PROVE FALSE
        OBVIOUS
      <4>1. /\ num_data(f) > 0 /\ ~ Enough(f)
            /\ Cardinality(AtHand(f)) + Cardinality(DOMAIN code[f]) >= num_data(f)
        BY <2>2 DEF ReturnNothing, can_recover_with, AtHand
      <4>2. /\ Cardinality(shards(f)) = Cardinality(AtHand(f)) + Cardinality(DOMAIN code[f])
            /\ Cardinality(shards(f)) \in Nat /\ variant(f) = "CodeMerkle"
        BY <4>1, AllShredsAreShards
      <4> QED BY <4>1, <4>2 DEF Enough
    <3>2. MissingReturned'
      <4>1. Answer(f, FALSE, {})
        BY <2>2 DEF ReturnNothing
      <4> QED BY <3>1, <4>1, AnswerRight
    <3> QED BY <1>1, <1>6, <2>2, <3>2 DEF ReturnNothing, IInv, BufferInv
  <2>3. CASE NoCodec(f)
    <3>1. MissingReturned'
      <4>1. Answer(f, TRUE, {})
        BY <2>3 DEF NoCodec
      <4> QED BY <4>1, AnswerRight
    <3> QED BY <1>1, <1>6, <2>3, <3>1 DEF NoCodec, IInv, BufferInv
  <2>4. CASE Reconstruct(f)
    <3>1. MissingReturned'
      BY <2>4, AnswerRight DEF Reconstruct
    <3>2. entries' \in Seq(Keys) /\ CodecsDistinct'
      BY <1>1, <2>1, <2>4, CacheKeeps DEF Reconstruct
    <3>3. /\ DOMAIN received' = Sets
          /\ DOMAIN received'[f] = DOMAIN received[f] \cup Missing(f)
          /\ \A g \in Sets \ {f} : received'[g] = received[g]
      BY <1>1, <1>3, <2>4 DEF Reconstruct
    <3>4. Missing(f) \subseteq Nat
      BY <2>1 DEF Missing
    <3>5. \A g \in Sets : DOMAIN received'[g] \subseteq Nat
      BY <1>1, <3>3, <3>4 DEF BufferInv
    <3>6. /\ DOMAIN header' = Sets /\ DOMAIN code' = Sets
          /\ \A g \in Sets : BufferInv(g)'
      <4>1. CASE Missing(f) = {}
        <5>1. UNCHANGED <<header, code>>
          BY <2>4, <4>1 DEF Reconstruct
        <5> QED BY <1>1, <3>5, <5>1 DEF BufferInv
      <4>2. CASE Missing(f) # {}
        <5>1. header' = [header EXCEPT ![f] = Unset] /\ code' = [code EXCEPT ![f] = NoShreds]
          BY <2>4, <4>2 DEF Reconstruct
        <5> QED BY <1>9, <3>5, <5>1
      <4> QED BY <4>1, <4>2
    <3> QED BY <3>1, <3>2, <3>3, <3>6 DEF IInv
  <2> QED BY <1>10, <2>2, <2>3, <2>4 DEF try_reconstruct
<1>11. ASSUME NEW f \in Sets, Evict(f)
       PROVE  IInv'
  <2>1. \A g \in Sets : DOMAIN received'[g] \subseteq Nat
    BY <1>1, <1>11 DEF Evict, BufferInv
  <2> QED BY <1>1, <1>5, <1>6, <1>9, <1>11, <2>1 DEF Evict, IInv
<1>12. CASE UNCHANGED vars
  BY <1>1, <1>5, <1>6, <1>12 DEF vars, IInv, BufferInv
<1> QED BY <1>7, <1>8, <1>10, <1>11, <1>12 DEF Next

LEMMA Invariance == Spec => []IInv
<1> QED BY InitEstablishes, NextPreserves, PTL DEF Spec

-----------------------------------------------------------------------------
(* The properties.                                                         *)

\* MissingReturned: what can_recover_with promises try_reconstruct keeps, for
\* sets of any size: where the former counts enough shreds of a set described as
\* it is, whole ones, the latter returns every data shred that is not at hand.
THEOREM RecoversMissing == Spec => []MissingReturned
<1>1. IInv => MissingReturned
  BY DEF IInv
<1> QED BY <1>1, Invariance, PTL

\* CodecsDistinct: no codec is built twice, and the cache stays in its bounds.
THEOREM CodecsApart == Spec => []CodecsDistinct
<1>1. IInv => CodecsDistinct
  BY DEF IInv
<1> QED BY <1>1, Invariance, PTL

\* LastUsedStays: the codec used last survives the next use of the cache.
THEOREM LastUsedKept == Spec => LastUsedStays
<1>1. ASSUME IInv, [Next]_vars
      PROVE  [entries # <<>> => Last(entries) \in ToSet(entries')]_entries
  <2> SUFFICES ASSUME entries' # entries
               PROVE  entries # <<>> => Last(entries) \in ToSet(entries')
    OBVIOUS
  <2>1. PICK f \in Sets : Reconstruct(f)
    BY <1>1 DEF Next, vars, ReceiveData, record_code, try_reconstruct, ReturnNothing, NoCodec, Evict
  <2>2. /\ <<num_data(f), num_coding(f)>> \in Keys
        /\ entries \in Seq(Keys) /\ CodecsDistinct
    BY <1>1 DEF IInv, BufferInv, Headers, Keys, num_data, num_coding
  <2> QED BY <2>1, <2>2, CacheKeeps DEF Reconstruct
<1> QED BY <1>1, Invariance, PTL DEF Spec, LastUsedStays
=============================================================================
