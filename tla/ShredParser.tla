---------------------------- MODULE ShredParser ----------------------------
(***************************************************************************)
(* parser.rs, variant.rs and the shard slices of fec.rs: what is read out  *)
(* of a packet, and what is read again out of a data shred that            *)
(* Reed-Solomon has rebuilt from it.                                       *)
(*                                                                         *)
(* A packet is its length, its header fields up to the FEC set index, and  *)
(* the six bytes in which the data header (parent offset, flags, size) and *)
(* the coding header (num_data, num_coding, position) overlap.  Payload    *)
(* bytes are ranges of offsets; `sent' counts the leading bytes that are   *)
(* as the sender wrote them.                                               *)
(***************************************************************************)
EXTENDS Integers

CONSTANT Packets       \* the packets that arrive

Byte == 0 .. 255

\* Offsets of the fields, and what Solana fixes about sizes.
DATA_PARENT_OFFSET == 83
DATA_FLAGS_OFFSET  == 85
DATA_SIZE_OFFSET   == 86
DATA_HEADER_SIZE   == 88
CODE_NUM_DATA_OFFSET   == 83
CODE_NUM_CODING_OFFSET == 85
CODE_POSITION_OFFSET   == 87
CODE_HEADER_SIZE       == 89
MAX_DATA_SHRED_SIZE    == 1203
SIZE_OF_SIGNATURE      == 64
SIZE_OF_MERKLE_ROOT    == 32
SIZE_OF_MERKLE_PROOF_ENTRY   == 20
SIZE_OF_CODING_SHRED_HEADERS == 89
DATA_SHRED_PAYLOAD_LEN == 1203
CODE_SHRED_PAYLOAD_LEN == 1228
BUF_SIZE == 2048

Header == 83 .. 88

Packet == [len : 0 .. BUF_SIZE, sent : 0 .. BUF_SIZE, variant : Byte,
           index : Nat, fec_set_index : Nat, b : [Header -> Byte]]

ASSUME PacketAssumption == Packets \subseteq Packet

VARIABLES
  raw,       \* the packet, or the data shred rebuilt from it
  parsed,    \* what parse_kind made of raw
  original,  \* once the shred was rebuilt: what it made of the packet
  stage      \* "received", "parsed", "rebuilt", "reparsed"

vars == <<raw, parsed, original, stage>>

-----------------------------------------------------------------------------
(* variant.rs                                                              *)

Variant(kind, merkle, proof_size, resigned) ==
  [kind |-> kind, merkle |-> merkle, proof_size |-> proof_size, resigned |-> resigned]

Unknown == Variant("unknown", FALSE, 0, FALSE)

\* The high nibble of the byte tells the kind, the low one the proof size.
classify_variant(byte) ==
  LET nibble == byte \div 16
      size   == byte % 16
  IN  CASE byte = 165   -> Variant("data", FALSE, 0, FALSE)
        [] byte = 90    -> Variant("code", FALSE, 0, FALSE)
        [] nibble = 6   -> Variant("code", TRUE, size, FALSE)
        [] nibble = 7   -> Variant("code", TRUE, size, TRUE)
        [] nibble = 9   -> Variant("data", TRUE, size, FALSE)
        [] nibble = 11  -> Variant("data", TRUE, size, TRUE)
        [] OTHER        -> Unknown

\* Mutant: the root of the Merkle tree is not counted.
merkle_suffix_rootless(v) ==
  IF v.merkle THEN 20 * v.proof_size + IF v.resigned THEN 64 ELSE 0 ELSE 0

merkle_suffix(v) ==
  IF v.merkle THEN 20 * v.proof_size + 32 + IF v.resigned THEN 64 ELSE 0 ELSE 0

-----------------------------------------------------------------------------
(* parser.rs                                                               *)

read_u16(p, offset) == p.b[offset] + 256 * p.b[offset + 1]

Error(why) == [kind |-> "error", why |-> why]

\* LAST_IN_SLOT is two bits, one of which is DATA_COMPLETE.
Data(p, size, fec_set_index, v) ==
  [kind |-> "data", index |-> p.index, fec_set_index |-> fec_set_index, variant |-> v,
   payload_end    |-> IF size > DATA_HEADER_SIZE THEN size ELSE DATA_HEADER_SIZE,
   batch_complete |-> (p.b[DATA_FLAGS_OFFSET] \div 64) % 2 = 1,
   last_in_slot   |-> p.b[DATA_FLAGS_OFFSET] \div 64 = 3]

\* Mutant: the size is not held against the packet.
parse_data_legacy_fallback_unbounded(p) ==
  Data(p, read_u16(p, DATA_SIZE_OFFSET), p.index, Variant("data", FALSE, 0, FALSE))

\* The FEC header is ignored: the shred is a set of its own.
parse_data_legacy_fallback(p) ==
  LET size == read_u16(p, DATA_SIZE_OFFSET)
  IN  IF size > p.len THEN Error("PayloadInvalid")
                      ELSE Data(p, size, p.index, Variant("data", FALSE, 0, FALSE))

parse_data_with_kind(p, v) ==
  LET size == read_u16(p, DATA_SIZE_OFFSET)
  IN  IF p.fec_set_index > p.index \/ size > MAX_DATA_SHRED_SIZE
        THEN parse_data_legacy_fallback(p)
        ELSE IF size > p.len THEN Error("PayloadInvalid")
                             ELSE Data(p, size, p.fec_set_index, v)

parse_code_with_kind(p, v) ==
  LET num_data   == read_u16(p, CODE_NUM_DATA_OFFSET)
      num_coding == read_u16(p, CODE_NUM_CODING_OFFSET)
      position   == read_u16(p, CODE_POSITION_OFFSET)
  IN  IF p.len < CODE_HEADER_SIZE THEN Error("TooShort")
      ELSE IF num_data = 0 \/ num_coding = 0 \/ position >= num_coding
                \/ merkle_suffix(v) >= p.len
        THEN Error("PayloadInvalid")
        ELSE [kind |-> "code", index |-> p.index, fec_set_index |-> p.fec_set_index,
              variant |-> v, num_data |-> num_data, num_coding |-> num_coding,
              position |-> position, coded |-> p.len - merkle_suffix(v)]

parse_kind(p) ==
  LET v == classify_variant(p.variant)
  IN  IF p.len < DATA_HEADER_SIZE THEN Error("TooShort")
      ELSE IF v.kind = "data" THEN parse_data_with_kind(p, v)
      ELSE IF v.kind = "code" THEN parse_code_with_kind(p, v)
      ELSE LET d == parse_data_legacy_fallback(p)
           IN  IF d.kind = "error" THEN Error("UnknownVariant") ELSE d

-----------------------------------------------------------------------------
(* fec.rs: the part of a shred that takes part in erasure coding.          *)

\* Mutant: the retransmitter's signature is always subtracted.
shard_size_signed(v) ==
  CODE_SHRED_PAYLOAD_LEN - SIZE_OF_CODING_SHRED_HEADERS - SIZE_OF_MERKLE_ROOT
    - v.proof_size * SIZE_OF_MERKLE_PROOF_ENTRY - SIZE_OF_SIGNATURE

shard_size(v) ==
  CODE_SHRED_PAYLOAD_LEN - SIZE_OF_CODING_SHRED_HEADERS - SIZE_OF_MERKLE_ROOT
    - v.proof_size * SIZE_OF_MERKLE_PROOF_ENTRY - (IF v.resigned THEN SIZE_OF_SIGNATURE ELSE 0)

\* The slice begins behind the signature, or behind the coding headers; there
\* is none when the packet, or what parse_code_with_kind left of it, is short.
HasDataShard(len, v) == v.merkle /\ SIZE_OF_SIGNATURE + shard_size(v) <= len

HasCodeShard(coded, v) == v.merkle /\ SIZE_OF_CODING_SHRED_HEADERS + shard_size(v) <= coded

\* try_reconstruct puts a rebuilt shard behind 64 zero bytes and in front of
\* zero bytes up to the length of a data shred.
Rebuilt(p, v) ==
  LET end == SIZE_OF_SIGNATURE + shard_size(v)
  IN  [p EXCEPT !.len = DATA_SHRED_PAYLOAD_LEN,
                !.sent = end,
                !.b = [o \in Header |-> IF o < end THEN p.b[o] ELSE 0]]

-----------------------------------------------------------------------------
(* The way of a data shred that is lost and rebuilt from its set.          *)

None == Error("none")

Init ==
  /\ raw \in Packets
  /\ parsed = None /\ original = None
  /\ stage = "received"

Parse ==
  /\ stage = "received"
  /\ parsed' = parse_kind(raw)
  /\ stage' = "parsed"
  /\ UNCHANGED <<raw, original>>

Rebuild ==
  /\ stage = "parsed"
  /\ parsed.kind = "data"
  /\ HasDataShard(raw.len, parsed.variant)
  /\ raw' = Rebuilt(raw, parsed.variant)
  /\ original' = parsed
  /\ stage' = "rebuilt"
  /\ UNCHANGED parsed

Reparse ==
  /\ stage = "rebuilt"
  /\ parsed' = parse_kind(raw)
  /\ stage' = "reparsed"
  /\ UNCHANGED <<raw, original>>

Next == Parse \/ Rebuild \/ Reparse

Spec == Init /\ [][Next]_vars

-----------------------------------------------------------------------------
(* Properties.                                                             *)

\* What the accumulator later cuts out of the buffer, DATA_HEADER_SIZE up to
\* payload_end, lies inside the packet, whichever of the two ways of reading
\* the header was taken, and payload_end fits its u16.  PendingShred::payload
\* is therefore never None, and the branch of advance_streaming for it dead.
PayloadInPacket ==
  (stage \in {"parsed", "reparsed"} /\ parsed.kind = "data") =>
    /\ DATA_HEADER_SIZE <= parsed.payload_end
    /\ parsed.payload_end <= raw.len
    /\ parsed.payload_end < 65536

\* A data shred whose payload ends before its Merkle trailer comes back from
\* the erasure code as it was sent: same place, same flags, same payload.
RebuiltAlike ==
  (stage = "reparsed" /\ original.payload_end <= DATA_SHRED_PAYLOAD_LEN - merkle_suffix(original.variant)) =>
    parsed = original /\ parsed.payload_end <= raw.sent

\* A coding shred of full length carries a whole shard, which ends exactly
\* where its Merkle trailer begins and is as long as that of the data shreds
\* of its set; a shorter one carries none.
CodeShardWhole ==
  (stage = "parsed" /\ parsed.kind = "code" /\ parsed.variant.merkle) =>
    LET v == parsed.variant
    IN  /\ shard_size(v) > 0
        /\ HasCodeShard(parsed.coded, v) <=> raw.len >= CODE_SHRED_PAYLOAD_LEN
        /\ raw.len = CODE_SHRED_PAYLOAD_LEN =>
             parsed.coded = SIZE_OF_CODING_SHRED_HEADERS + shard_size(v)
        /\ SIZE_OF_SIGNATURE + shard_size(v) = DATA_SHRED_PAYLOAD_LEN - merkle_suffix(v)
=============================================================================
