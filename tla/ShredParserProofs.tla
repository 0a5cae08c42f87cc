------------------------- MODULE ShredParserProofs -------------------------
(***************************************************************************)
(* What is read out of a packet, for every packet: PayloadInPacket,        *)
(* RebuiltAlike and CodeShardWhole are invariants whatever arrives.        *)
(*                                                                         *)
(* All of it rests on one invariant: a parsed shred is what parse_kind     *)
(* makes of the bytes at hand, and the bytes at hand are those of a packet *)
(* or those Reed-Solomon gives back for one.                               *)
(***************************************************************************)
EXTENDS ShredParser, TLAPS

Variants == [kind : {"data", "code", "unknown"}, merkle : BOOLEAN,
             proof_size : 0 .. 15, resigned : BOOLEAN]

-----------------------------------------------------------------------------
(* The operators.                                                          *)

\* Every byte is the variant of some shred, or of none.
LEMMA ClassifyType ==
  ASSUME NEW byte \in Byte
  PROVE  classify_variant(byte) \in Variants
<1>1. byte % 16 \in 0 .. 15 /\ byte \div 16 \in 0 .. 15
  BY DEF Byte
<1>2. \A kind \in {"data", "code", "unknown"}, merkle, resigned \in BOOLEAN, size \in 0 .. 15 :
        Variant(kind, merkle, size, resigned) \in Variants
  BY DEF Variant, Variants
<1> DEFINE nibble == byte \div 16  size == byte % 16
<1> HIDE DEF nibble, size
<1>3. classify_variant(byte) =
        CASE byte = 165  -> Variant("data", FALSE, 0, FALSE)
          [] byte = 90   -> Variant("code", FALSE, 0, FALSE)
          [] nibble = 6  -> Variant("code", TRUE, size, FALSE)
          [] nibble = 7  -> Variant("code", TRUE, size, TRUE)
          [] nibble = 9  -> Variant("data", TRUE, size, FALSE)
          [] nibble = 11 -> Variant("data", TRUE, size, TRUE)
          [] OTHER       -> Unknown
  BY DEF classify_variant, nibble, size
<1>4. size \in 0 .. 15 /\ 0 \in 0 .. 15
  BY <1>1 DEF size
<1> QED BY <1>2, <1>3, <1>4 DEF Unknown

\* A field of two bytes of the packet fits sixteen bits.
LEMMA ReadU16 ==
  ASSUME NEW p \in Packet, NEW o \in 83 .. 87
  PROVE  read_u16(p, o) \in Nat /\ read_u16(p, o) <= 65535
<1>1. p.b[o] \in 0 .. 255 /\ p.b[o + 1] \in 0 .. 255
  BY DEF Packet, Header, Byte
<1>2. \A x, y \in Int : (0 <= x /\ x <= 255 /\ 0 <= y /\ y <= 255) =>
        x + 256 * y \in Nat /\ x + 256 * y <= 65535
  OBVIOUS
<1>3. /\ p.b[o] \in Int /\ 0 <= p.b[o] /\ p.b[o] <= 255
      /\ p.b[o + 1] \in Int /\ 0 <= p.b[o + 1] /\ p.b[o + 1] <= 255
  BY <1>1
<1> QED BY <1>2, <1>3 DEF read_u16

\* Where the part of a data shred that is erasure-coded ends: behind the
\* headers, and where the Merkle trailer of the shred begins.
LEMMA ShardEnds ==
  ASSUME NEW v \in Variants, v.merkle
  PROVE  /\ SIZE_OF_SIGNATURE + shard_size(v) \in 807 .. 1171
         /\ SIZE_OF_SIGNATURE + shard_size(v) = DATA_SHRED_PAYLOAD_LEN - merkle_suffix(v)
         /\ SIZE_OF_CODING_SHRED_HEADERS + shard_size(v) = CODE_SHRED_PAYLOAD_LEN - merkle_suffix(v)
         /\ merkle_suffix(v) \in 32 .. 396
<1>1. v.proof_size \in 0 .. 15 /\ v.resigned \in BOOLEAN
  BY DEF Variants
<1>2. CASE v.resigned
  BY <1>1, <1>2 DEF shard_size, merkle_suffix, SIZE_OF_SIGNATURE, SIZE_OF_CODING_SHRED_HEADERS,
     CODE_SHRED_PAYLOAD_LEN, DATA_SHRED_PAYLOAD_LEN, SIZE_OF_MERKLE_ROOT, SIZE_OF_MERKLE_PROOF_ENTRY
<1>3. CASE ~ v.resigned
  BY <1>1, <1>3 DEF shard_size, merkle_suffix, SIZE_OF_SIGNATURE, SIZE_OF_CODING_SHRED_HEADERS,
     CODE_SHRED_PAYLOAD_LEN, DATA_SHRED_PAYLOAD_LEN, SIZE_OF_MERKLE_ROOT, SIZE_OF_MERKLE_PROOF_ENTRY
<1> QED BY <1>2, <1>3

\* The two ways in which a packet is read as a data shred.  Both hold the
\* size against the packet; the fallback forgets the variant.
Exact(p, d) ==
  /\ classify_variant(p.variant).kind = "data"
  /\ p.fec_set_index <= p.index
  /\ read_u16(p, DATA_SIZE_OFFSET) <= MAX_DATA_SHRED_SIZE
  /\ d = Data(p, read_u16(p, DATA_SIZE_OFFSET), p.fec_set_index, classify_variant(p.variant))

Fallback(p, d) ==
  d = Data(p, read_u16(p, DATA_SIZE_OFFSET), p.index, Variant("data", FALSE, 0, FALSE))

LEMMA ReadAsData ==
  ASSUME NEW p \in Packet, parse_kind(p).kind = "data"
  PROVE  /\ p.len >= DATA_HEADER_SIZE
         /\ read_u16(p, DATA_SIZE_OFFSET) <= p.len
         /\ Exact(p, parse_kind(p)) \/ Fallback(p, parse_kind(p))
<1> DEFINE v == classify_variant(p.variant)
           size == read_u16(p, DATA_SIZE_OFFSET)
<1>1. size \in Nat /\ p.len \in Nat /\ p.fec_set_index \in Nat /\ p.index \in Nat
  <2>1. size \in Nat
    BY ReadU16 DEF DATA_SIZE_OFFSET
  <2> QED BY <2>1 DEF Packet
<1>2. \A why : Error(why).kind # "data"
  BY DEF Error
<1>3. p.len >= DATA_HEADER_SIZE
  <2>1. SUFFICES ASSUME p.len < DATA_HEADER_SIZE PROVE FALSE
    BY <1>1 DEF DATA_HEADER_SIZE
  <2> QED BY <1>2, <2>1 DEF parse_kind
<1>4. ASSUME parse_data_legacy_fallback(p).kind = "data"
      PROVE  size <= p.len /\ Fallback(p, parse_data_legacy_fallback(p))
  <2>1. parse_data_legacy_fallback(p) =
          IF size > p.len THEN Error("PayloadInvalid")
                          ELSE Data(p, size, p.index, Variant("data", FALSE, 0, FALSE))
    BY DEF parse_data_legacy_fallback
  <2>2. ~ size > p.len
    <3> SUFFICES ASSUME size > p.len PROVE FALSE
      OBVIOUS
    <3>1. parse_data_legacy_fallback(p) = Error("PayloadInvalid")
      BY <2>1
    <3> QED BY <3>1, <1>2, <1>4
  <2>3. Fallback(p, parse_data_legacy_fallback(p))
    BY <2>1, <2>2 DEF Fallback
  <2> HIDE DEF size
  <2> QED BY <1>1, <2>2, <2>3
<1>5. CASE v.kind = "data"
  <2>1. parse_kind(p) = parse_data_with_kind(p, v)
    BY <1>1, <1>3, <1>5 DEF parse_kind, DATA_HEADER_SIZE
  <2>2. CASE p.fec_set_index > p.index \/ size > MAX_DATA_SHRED_SIZE
    <3>1. parse_kind(p) = parse_data_legacy_fallback(p)
      BY <2>1, <2>2 DEF parse_data_with_kind
    <3> QED BY <3>1, <1>3, <1>4
  <2>3. CASE ~ (p.fec_set_index > p.index \/ size > MAX_DATA_SHRED_SIZE)
    <3>1. parse_kind(p) = IF size > p.len THEN Error("PayloadInvalid") ELSE Data(p, size, p.fec_set_index, v)
      BY <2>1, <2>3 DEF parse_data_with_kind
    <3>2. size <= p.len
      BY <3>1, <1>1, <1>2
    <3> QED BY <3>1, <3>2, <2>3, <1>1, <1>3, <1>5 DEF Exact, MAX_DATA_SHRED_SIZE
  <2> QED BY <2>2, <2>3
<1>6. CASE v.kind = "code"
  <2>1. parse_kind(p) = parse_code_with_kind(p, v)
    BY <1>1, <1>3, <1>6 DEF parse_kind, DATA_HEADER_SIZE
  <2>2. parse_code_with_kind(p, v).kind # "data"
    BY <1>2 DEF parse_code_with_kind
  <2> QED BY <2>1, <2>2
<1>7. CASE v.kind \notin {"data", "code"}
  <2>1. parse_kind(p) = IF parse_data_legacy_fallback(p).kind = "error"
                          THEN Error("UnknownVariant") ELSE parse_data_legacy_fallback(p)
    BY <1>1, <1>3, <1>7 DEF parse_kind, DATA_HEADER_SIZE
  <2> QED BY <2>1, <1>2, <1>3, <1>4
<1> QED BY <1>5, <1>6, <1>7

\* A packet read as a coding shred keeps its variant, and what is coded in it
\* ends before the Merkle trailer.
LEMMA ReadAsCode ==
  ASSUME NEW p \in Packet, parse_kind(p).kind = "code"
  PROVE  /\ parse_kind(p).variant = classify_variant(p.variant)
         /\ parse_kind(p).coded = p.len - merkle_suffix(classify_variant(p.variant))
<1> DEFINE v == classify_variant(p.variant)
<1>1. \A why : Error(why).kind = "error"
  BY DEF Error
<1>2. \A size, fec_set_index, w : Data(p, size, fec_set_index, w).kind = "data"
  BY DEF Data
<1>3. parse_data_legacy_fallback(p).kind \in {"error", "data"}
  BY <1>1, <1>2 DEF parse_data_legacy_fallback
<1>4. parse_data_with_kind(p, v).kind \in {"error", "data"}
  BY <1>1, <1>2, <1>3 DEF parse_data_with_kind
<1>5. parse_kind(p) = parse_code_with_kind(p, v)
  BY <1>1, <1>3, <1>4 DEF parse_kind
<1> QED BY <1>1, <1>5 DEF parse_code_with_kind

\* What Reed-Solomon gives back for a data shred is a packet again.
LEMMA RebuiltType ==
  ASSUME NEW p \in Packet, NEW v \in Variants, v.merkle
  PROVE  /\ Rebuilt(p, v) \in Packet
         /\ Rebuilt(p, v).len = DATA_SHRED_PAYLOAD_LEN
         /\ Rebuilt(p, v).sent = SIZE_OF_SIGNATURE + shard_size(v)
         /\ Rebuilt(p, v).b = p.b
         /\ Rebuilt(p, v).variant = p.variant
         /\ Rebuilt(p, v).index = p.index
         /\ Rebuilt(p, v).fec_set_index = p.fec_set_index
<1> DEFINE end == SIZE_OF_SIGNATURE + shard_size(v)
           header == [o \in Header |-> IF o < end THEN p.b[o] ELSE 0]
<1>1. end \in 807 .. 1171
  BY ShardEnds
<1>2. p.b \in [Header -> Byte]
  BY DEF Packet
<1>3. header = p.b
  <2>1. \A o \in Header : header[o] = p.b[o]
    BY <1>1 DEF Header
  <2> QED BY <1>2, <2>1
<1>4. Rebuilt(p, v) = [p EXCEPT !.len = DATA_SHRED_PAYLOAD_LEN, !.sent = end, !.b = p.b]
  BY <1>3 DEF Rebuilt
<1> HIDE DEF end
<1>5. DATA_SHRED_PAYLOAD_LEN \in 0 .. BUF_SIZE /\ end \in 0 .. BUF_SIZE
  BY <1>1 DEF DATA_SHRED_PAYLOAD_LEN, BUF_SIZE
<1> QED BY <1>2, <1>4, <1>5 DEF Packet, end
-----------------------------------------------------------------------------
(* The invariant.                                                          *)

\* A packet, or what Reed-Solomon gave back for one of the packets.
RawInv ==
  /\ raw \in Packet
  /\ stage \in {"received", "parsed", "rebuilt", "reparsed"}
  /\ stage \in {"parsed", "reparsed"} => parsed = parse_kind(raw)
  /\ stage \in {"rebuilt", "reparsed"} =>
       \E p \in Packet :
         /\ original = parse_kind(p) /\ original.kind = "data"
         /\ HasDataShard(p.len, original.variant)
         /\ raw = Rebuilt(p, original.variant)

\* Only a shred that was read exactly can be rebuilt: the fallback leaves no
\* Merkle variant behind, and with it no shard.
LEMMA ShardMeansExact ==
  ASSUME NEW p \in Packet, parse_kind(p).kind = "data",
         HasDataShard(p.len, parse_kind(p).variant)
  PROVE  /\ Exact(p, parse_kind(p))
         /\ parse_kind(p).variant = classify_variant(p.variant)
         /\ parse_kind(p).variant \in Variants
         /\ parse_kind(p).variant.merkle
<1>1. parse_kind(p).variant.merkle
  BY DEF HasDataShard
<1>2. ~ Fallback(p, parse_kind(p))
  BY <1>1 DEF Fallback, Data, Variant
<1>3. Exact(p, parse_kind(p))
  BY <1>2, ReadAsData
<1>4. parse_kind(p).variant = classify_variant(p.variant)
  BY <1>3 DEF Exact, Data
<1>5. p.variant \in Byte
  BY DEF Packet
<1> QED BY <1>1, <1>3, <1>4, <1>5, ClassifyType

LEMMA RawInvariance == Spec => []RawInv
<1>1. Init => RawInv
  BY PacketAssumption DEF Init, RawInv
<1>2. ASSUME RawInv, [Next]_vars
      PROVE  RawInv'
  <2>1. CASE Parse
    BY <1>2, <2>1 DEF Parse, RawInv
  <2>2. CASE Rebuild
    <3>1. raw \in Packet /\ parsed = parse_kind(raw) /\ parsed.kind = "data"
          /\ HasDataShard(raw.len, parsed.variant)
      BY <1>2, <2>2 DEF Rebuild, RawInv
    <3>2. raw' \in Packet
      BY <2>2, <3>1, ShardMeansExact, RebuiltType DEF Rebuild
    <3> QED BY <2>2, <3>1, <3>2 DEF Rebuild, RawInv
  <2>3. CASE Reparse
    BY <1>2, <2>3 DEF Reparse, RawInv
  <2>4. CASE UNCHANGED vars
    BY <1>2, <2>4 DEF vars, RawInv
  <2> QED BY <1>2, <2>1, <2>2, <2>3, <2>4 DEF Next
<1> QED BY <1>1, <1>2, PTL DEF Spec

-----------------------------------------------------------------------------
(* The properties.                                                         *)

\* PayloadInPacket: the payload of a data shred lies inside its packet.  Both
\* ways of reading hold the size against the packet, and the header is there.
THEOREM PayloadBounded == Spec => []PayloadInPacket
<1>1. RawInv => PayloadInPacket
  <2> SUFFICES ASSUME RawInv, stage \in {"parsed", "reparsed"}, parsed.kind = "data"
               PROVE  /\ DATA_HEADER_SIZE <= parsed.payload_end
                      /\ parsed.payload_end <= raw.len
                      /\ parsed.payload_end < 65536
    BY DEF PayloadInPacket
  <2> DEFINE size == read_u16(raw, DATA_SIZE_OFFSET)
  <2>1. raw \in Packet /\ parsed = parse_kind(raw)
    BY DEF RawInv
  <2>2. size \in Nat /\ size <= 65535
    BY <2>1, ReadU16 DEF DATA_SIZE_OFFSET
  <2>3. raw.len >= DATA_HEADER_SIZE /\ size <= raw.len /\ raw.len \in Nat
    BY <2>1, ReadAsData DEF Packet
  <2>4. parsed.payload_end = IF size > DATA_HEADER_SIZE THEN size ELSE DATA_HEADER_SIZE
    <3>1. \E f, v : parsed = Data(raw, size, f, v)
      BY <2>1, ReadAsData DEF Exact, Fallback
    <3> HIDE DEF size
    <3> QED BY <3>1 DEF Data
  <2> HIDE DEF size
  <2> QED BY <2>2, <2>3, <2>4 DEF DATA_HEADER_SIZE
<1> QED BY <1>1, RawInvariance, PTL

\* RebuiltAlike: a shard has the header of its shred in it and ends where the
\* Merkle trailer begins, so the rebuilt shred is read as the sent one was.
THEOREM RebuiltEqual == Spec => []RebuiltAlike
<1>1. RawInv => RebuiltAlike
  <2> SUFFICES ASSUME RawInv, stage = "reparsed",
                      original.payload_end <= DATA_SHRED_PAYLOAD_LEN - merkle_suffix(original.variant)
               PROVE  parsed = original /\ parsed.payload_end <= raw.sent
    BY DEF RebuiltAlike
  <2>1. PICK p \in Packet : /\ original = parse_kind(p) /\ original.kind = "data"
                            /\ HasDataShard(p.len, original.variant)
                            /\ raw = Rebuilt(p, original.variant)
    BY DEF RawInv
  <2> DEFINE v == classify_variant(p.variant)
  <2>2. /\ Exact(p, original) /\ original.variant = v
        /\ v \in Variants /\ v.merkle
    BY <2>1, ShardMeansExact
  <2>3. /\ raw \in Packet /\ raw.len = DATA_SHRED_PAYLOAD_LEN
        /\ raw.sent = SIZE_OF_SIGNATURE + shard_size(v)
        /\ raw.b = p.b /\ raw.variant = p.variant
        /\ raw.index = p.index /\ raw.fec_set_index = p.fec_set_index
    BY <2>1, <2>2, RebuiltType
  <2>4. read_u16(raw, DATA_SIZE_OFFSET) = read_u16(p, DATA_SIZE_OFFSET)
    BY <2>3 DEF read_u16
  <2>5. parsed = parse_kind(raw)
    BY DEF RawInv
  <2>6. parse_kind(raw) = Data(raw, read_u16(raw, DATA_SIZE_OFFSET), raw.fec_set_index, v)
    <3> DEFINE size == read_u16(raw, DATA_SIZE_OFFSET)
    <3>1. size \in Nat /\ raw.fec_set_index \in Nat /\ raw.index \in Nat
      BY <2>3, ReadU16 DEF DATA_SIZE_OFFSET, Packet
    <3>2. v.kind = "data" /\ raw.fec_set_index <= raw.index /\ size <= 1203 /\ raw.len = 1203
      BY <2>2, <2>3, <2>4 DEF Exact, MAX_DATA_SHRED_SIZE, DATA_SHRED_PAYLOAD_LEN
    <3>3. parse_kind(raw) = parse_data_with_kind(raw, v)
      BY <2>3, <3>2 DEF parse_kind, DATA_HEADER_SIZE
    <3>4. /\ ~ (raw.fec_set_index > raw.index \/ size > MAX_DATA_SHRED_SIZE)
          /\ ~ size > raw.len
      BY <3>1, <3>2 DEF MAX_DATA_SHRED_SIZE
    <3> QED BY <3>3, <3>4 DEF parse_data_with_kind
  <2>7. parsed = original
    BY <2>2, <2>3, <2>4, <2>5, <2>6 DEF Exact, Data
  <2>8. original.payload_end <= raw.sent
    BY <2>2, <2>3, ShardEnds
  <2> QED BY <2>7, <2>8
<1> QED BY <1>1, RawInvariance, PTL

\* CodeShardWhole: whatever the proof size, the shard of a coding shred of
\* full length ends at its Merkle trailer and is as long as a data shard.
THEOREM CodeShardExact == Spec => []CodeShardWhole
<1>1. RawInv => CodeShardWhole
  <2> SUFFICES ASSUME RawInv, stage = "parsed", parsed.kind = "code", parsed.variant.merkle
               PROVE  LET v == parsed.variant
                      IN  /\ shard_size(v) > 0
                          /\ HasCodeShard(parsed.coded, v) <=> raw.len >= CODE_SHRED_PAYLOAD_LEN
                          /\ raw.len = CODE_SHRED_PAYLOAD_LEN =>
                               parsed.coded = SIZE_OF_CODING_SHRED_HEADERS + shard_size(v)
                          /\ SIZE_OF_SIGNATURE + shard_size(v)
                               = DATA_SHRED_PAYLOAD_LEN - merkle_suffix(v)
    BY DEF CodeShardWhole
  <2> DEFINE v == parsed.variant
             len == raw.len
             coded == parsed.coded
             suffix == merkle_suffix(v)
             shard == shard_size(v)
  <2>1. raw \in Packet /\ parsed = parse_kind(raw)
    BY DEF RawInv
  <2>2. v = classify_variant(raw.variant) /\ coded = len - suffix
    BY <2>1, ReadAsCode
  <2>3. v \in Variants /\ v.merkle /\ len \in Nat
    BY <2>1, <2>2, ClassifyType DEF Packet
  <2>4. v.proof_size \in Nat /\ v.proof_size <= 15
    BY <2>3 DEF Variants
  <2>5. shard \in Int
    BY <2>3, <2>4 DEF shard_size, SIZE_OF_CODING_SHRED_HEADERS, CODE_SHRED_PAYLOAD_LEN,
       SIZE_OF_MERKLE_ROOT, SIZE_OF_MERKLE_PROOF_ENTRY, SIZE_OF_SIGNATURE
  <2>6. /\ 64 + shard >= 807 /\ 64 + shard = 1203 - suffix /\ 89 + shard = 1228 - suffix
        /\ suffix \in Int
    BY <2>3, ShardEnds DEF SIZE_OF_CODING_SHRED_HEADERS, CODE_SHRED_PAYLOAD_LEN,
       SIZE_OF_SIGNATURE, DATA_SHRED_PAYLOAD_LEN
  <2>7. HasCodeShard(coded, v) <=> 89 + shard <= coded
    BY <2>3 DEF HasCodeShard, SIZE_OF_CODING_SHRED_HEADERS
  <2> HIDE DEF len, coded, suffix, shard, v
  <2>8. /\ shard > 0
        /\ 89 + shard <= coded <=> len >= 1228
        /\ len = 1228 => coded = 89 + shard
    BY <2>2, <2>3, <2>5, <2>6
  <2> QED BY <2>6, <2>7, <2>8 DEF v, len, coded, suffix, shard, SIZE_OF_CODING_SHRED_HEADERS,
          CODE_SHRED_PAYLOAD_LEN, SIZE_OF_SIGNATURE, DATA_SHRED_PAYLOAD_LEN
<1> QED BY <1>1, RawInvariance, PTL
=============================================================================
