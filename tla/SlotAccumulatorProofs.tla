----------------------- MODULE SlotAccumulatorProofs -----------------------
(***************************************************************************)
(* Proofs about SlotAccumulator, for every slot layout, FEC layout and     *)
(* configuration.  IInv is inductive; the properties the runs check on     *)
(* small slots follow from it.                                             *)
(***************************************************************************)
EXTENDS SlotAccumulator, TLAPS

-----------------------------------------------------------------------------
(* What the decoders hand over is new.                                     *)

\* No boundary lies behind the cursor, so closing a batch never rewinds it.
LEMMA CursorBeforeBoundary ==
  ASSUME IInv, NEW b \in Boundary, b >= batch_start
  PROVE  b >= streaming_cursor - 1
BY LedgerAssumption DEF IInv, TypeOK, CursorInv, SameBatch, DataIdx

\* decode_batch yields transactions of the closed range only, and those that
\* streaming has not handed over end at or behind the streaming cursor.
LEMMA BatchIsFresh ==
  ASSUME IInv, NEW b \in Boundary \cap pending,
         NEW t \in decode_batch(batch_start, b)
  PROVE  /\ t \in Txs
         /\ EndsIn[t] \in batch_start .. b
         /\ t \notin yielded_sigs => EndsIn[t] >= streaming_cursor
<1> USE LedgerAssumption DEF DataIdx
<1>1. t \in Txs /\ EndsIn[t] \in batch_start .. b
  BY DEF decode_batch, EndingIn
<1>2. PICK c \in BatchEnds \cap (EndsIn[t] .. b) : (batch_start .. c) \cap Garbled = {}
  BY DEF decode_batch
<1>3. (batch_start .. EndsIn[t]) \cap Garbled = {}
  BY <1>1, <1>2 DEF IInv, TypeOK
<1>4. EndsIn[t] \in Streamed => t \in yielded_sigs
  BY <1>1, <1>3 DEF IInv, DecoderInv, EndingIn
<1> QED BY <1>1, <1>4 DEF Streamed, IInv, TypeOK

\* The same for salvage: what can be read of a run of pending shreds starts
\* where a batch starts, at batch_start or behind a boundary streaming has not
\* met.
LEMMA SalvageIsFresh ==
  ASSUME IInv, NEW b \in batch_start .. LastIdx,
         NEW t \in salvage_contiguous_runs_in(batch_start, b)
  PROVE  /\ t \in Txs
         /\ EndsIn[t] \in batch_start .. b
         /\ t \notin yielded_sigs => EndsIn[t] >= streaming_cursor
<1> USE LedgerAssumption DEF DataIdx
<1>0. PICK r \in RunStarts(batch_start, b) :
        \E e \in RunFrom(r, b) : t \in decode_concatenated(r, e)
  BY DEF salvage_contiguous_runs_in
<1>1. PICK e \in RunFrom(r, b) : t \in decode_concatenated(r, e)
  BY <1>0
<1>2. r \in batch_start .. b /\ e \in r .. b
  BY <1>1 DEF RunStarts, RunFrom
<1>3. t \in Txs /\ EndsIn[t] \in r .. e
  BY <1>1 DEF decode_concatenated, EndingIn
<1>4. PICK s \in r .. EndsIn[t] : \E c \in BatchEnds \cap (EndsIn[t] .. e) :
        StartsBatch(s) /\ (s .. c) \cap Garbled = {}
  <2>1. PICK s \in ReadFrom(r) : \E c \in BatchEnds \cap (EndsIn[t] .. e) :
          s <= EndsIn[t] /\ (s .. c) \cap Garbled = {}
    BY <1>1 DEF decode_concatenated
  <2>2. StartsBatch(s) /\ s \in DataIdx /\ (s = r \/ r < s)
    BY DEF ReadFrom
  <2>3. s \in r .. EndsIn[t]
    <3>1. batch_start \in Int /\ s \in Int /\ EndsIn[t] \in Int /\ s <= EndsIn[t]
      BY <1>3, <2>1, <2>2 DEF IInv, TypeOK
    <3> HIDE LedgerAssumption
    <3> QED BY <1>2, <2>2, <3>1
  <2>4. PICK c \in BatchEnds \cap (EndsIn[t] .. e) : (s .. c) \cap Garbled = {}
    BY <2>1
  <2> QED BY <2>2, <2>3, <2>4
<1>5. EndsIn[t] \in batch_start .. b /\ s \in batch_start .. EndsIn[t]
  BY <1>2, <1>3 DEF IInv, TypeOK
<1>6. CASE s = batch_start
  <2>1. (batch_start .. EndsIn[t]) \cap Garbled = {}
    BY <1>3, <1>4, <1>6 DEF IInv, TypeOK
  <2>2. EndsIn[t] \in Streamed => t \in yielded_sigs
    BY <1>3, <2>1 DEF IInv, DecoderInv, EndingIn
  <2>3. t \notin yielded_sigs => EndsIn[t] >= streaming_cursor
    BY <1>5, <2>2 DEF Streamed, IInv, TypeOK
  <2> QED BY <1>3, <1>5, <2>3
<1>7. CASE s # batch_start
  <2>1. s - 1 \in Boundary /\ s - 1 >= batch_start
    BY <1>4, <1>5, <1>7 DEF StartsBatch, IInv, TypeOK
  <2>2. s - 1 >= streaming_cursor - 1
    BY <2>1, CursorBeforeBoundary
  <2>3. EndsIn[t] >= streaming_cursor
    BY <2>2, <1>3, <1>5 DEF IInv, TypeOK
  <2> QED BY <1>3, <1>5, <2>3
<1> QED BY <1>6, <1>7

-----------------------------------------------------------------------------
(* IInv is inductive.                                                      *)

\* A new accumulator satisfies the invariant, whenever it is made.
LEMMA NewEstablishes == with_config /\ now \in Nat => IInv
<1> SUFFICES ASSUME with_config, now \in Nat PROVE IInv
  OBVIOUS
<1> USE LedgerAssumption DEF with_config, DataIdx
<1>1. TypeOK
  <2>1. stats \in BatchStats
    BY DEF BatchStats
  <2>2. /\ fec_sets \in [FecIds -> SUBSET Nat] /\ delivered \in [Txs -> Nat]
        /\ DOMAIN batch_complete_indices = {}
        /\ batch_complete_indices \in [{} -> Nat]
    OBVIOUS
  <2>3. batch_complete_indices \in [DOMAIN batch_complete_indices -> Nat]
    BY <2>2
  <2>4. /\ pool = {} /\ recovered = {} /\ streaming_buffer = {} /\ yielded_sigs = {}
        /\ hints = {} /\ slot_complete = FALSE /\ now \in Nat /\ pc = "idle"
        /\ streaming_cursor = 0 /\ batch_start = 0 /\ index = 0 /\ bc_idx = 0 /\ hint = 0
    OBVIOUS
  <2> HIDE DEF with_config
  <2>5. /\ pool \subseteq 0 .. (LastIdx - 1) /\ recovered \subseteq 0 .. (LastIdx - 1)
        /\ streaming_buffer \subseteq DataIdx /\ yielded_sigs \subseteq Txs
        /\ hints \subseteq FecIds
    BY <2>4
  <2>6. 0 \in DataIdx /\ hint \in FecIds \cup {0}
    BY <2>4
  <2>7. DOMAIN batch_complete_indices \subseteq Boundary
    BY <2>2
  <2> QED BY <2>1, <2>2, <2>3, <2>4, <2>5, <2>6, <2>7 DEF TypeOK
<1>2. WindowInv
  BY DEF WindowInv, StartsBatch, pending
<1>3. CursorInv
  BY DEF CursorInv, Streamed, SameBatch
<1>4. FlushedInv
  BY DEF FlushedInv, Settled, Whole
<1>5. DecoderInv
  BY DEF DecoderInv, Streamed, EndingIn
<1>6. DeliveredInv
  BY DEF DeliveredInv
<1> QED BY <1>1, <1>2, <1>3, <1>4, <1>5, <1>6 DEF IInv

\* complete_batch(b) at a pending boundary b, with transactions D of the closed
\* range handed over in the same step, starts a new batch in good order.
LEMMA CloseBatch ==
  ASSUME IInv,
         NEW b \in Boundary \cap pending,
         NEW D, D \subseteq Txs, \A t \in D : EndsIn[t] \in batch_start .. b,
         record_sig(D), complete_batch(b),
         stats' \in BatchStats, pc # "retired", pc' \in {"flush", "harvest"},
         UNCHANGED <<slot_complete, now, locals>>
  PROVE  IInv'
<1> USE LedgerAssumption DEF DataIdx, complete_batch
<1>0. /\ b \in Int /\ b >= batch_start /\ b < LastIdx
      /\ batch_start \in Int /\ batch_start >= 0 /\ LastIdx \in Int
      /\ streaming_cursor \in Int
  BY DEF IInv, TypeOK, WindowInv
<1>1. b >= streaming_cursor - 1
  BY <1>0, CursorBeforeBoundary
<1>2. streaming_cursor' = b + 1 /\ batch_start' = b + 1
  BY <1>0, <1>1
<1>3. Streamed' = {}
  BY <1>0, <1>2 DEF Streamed
<1>4. TypeOK'
  <2>1. /\ pool' \subseteq 0 .. (LastIdx - 1) /\ recovered' \subseteq 0 .. (LastIdx - 1)
        /\ DOMAIN batch_complete_indices' \subseteq Boundary
        /\ batch_complete_indices' \in [DOMAIN batch_complete_indices' -> Nat]
    BY DEF IInv, TypeOK
  <2>2. fec_sets' \in [FecIds -> SUBSET Nat]
    BY DEF IInv, TypeOK
  <2>3. delivered' \in [Txs -> Nat]
    BY DEF IInv, TypeOK, record_sig
  <2>4. streaming_cursor' \in DataIdx /\ batch_start' \in DataIdx
    BY <1>0, <1>2
  <2> QED BY <2>1, <2>2, <2>3, <2>4 DEF IInv, TypeOK, locals
<1>5. WindowInv'
  <2>1. pending' = {i \in pending : i >= b + 1}
    BY DEF pending
  <2>2. DOMAIN batch_complete_indices' = {k \in DOMAIN batch_complete_indices : k >= b + 1}
    OBVIOUS
  <2>3. StartsBatch(batch_start')
    BY <1>0, <1>2 DEF StartsBatch
  <2>4. pool' \cap recovered' = {}
    BY DEF IInv, WindowInv
  <2>5. DOMAIN batch_complete_indices' = Boundary \cap pending'
    BY <2>1, <2>2 DEF IInv, WindowInv
  <2>6. pending' \subseteq batch_start' .. (LastIdx - 1)
    <3> SUFFICES ASSUME NEW i \in pending' PROVE i \in (b + 1) .. (LastIdx - 1)
      BY <1>2
    <3>1. i \in pending /\ i >= b + 1
      BY <2>1
    <3>2. i \in batch_start .. (LastIdx - 1)
      BY <3>1 DEF IInv, WindowInv
    <3> QED BY <1>0, <3>1, <3>2
  <2> QED BY <2>3, <2>4, <2>5, <2>6 DEF WindowInv
<1>6. CursorInv'
  BY <1>0, <1>2, <1>3 DEF CursorInv, SameBatch
<1>7. FlushedInv'
  BY DEF FlushedInv, Settled
<1>8. DecoderInv'
  BY <1>3 DEF DecoderInv, EndingIn
<1>9. DeliveredInv'
  <2>1. \A t \in Txs : delivered'[t] = delivered[t] + (IF t \in D \ yielded_sigs THEN 1 ELSE 0)
    BY DEF record_sig
  <2>2. \A t \in Txs : EndsIn[t] \in Int
    OBVIOUS
  <2>3. \A t \in Txs : delivered'[t] \in {0, 1}
    BY <2>1, <2>2, <1>0 DEF IInv, DeliveredInv
  <2>4. \A t \in Txs : b + 1 <= EndsIn[t] => delivered'[t] = delivered[t]
    BY <2>1, <2>2, <1>0 DEF IInv, DeliveredInv
  <2>5. \A t \in Txs : b + 1 <= EndsIn[t] => t \notin yielded_sigs
    <3>1. \A t \in yielded_sigs : EndsIn[t] \in batch_start .. (streaming_cursor - 1)
      BY DEF IInv, DecoderInv, Streamed
    <3> QED BY <3>1, <2>2, <1>0, <1>1
  <2>6. \A t \in Txs : b + 1 <= EndsIn[t] => delivered[t] # 1
    BY <2>5, <2>2, <1>0 DEF IInv, DeliveredInv
  <2> QED BY <2>3, <2>4, <2>6, <1>2 DEF DeliveredInv
<1> QED BY <1>4, <1>5, <1>6, <1>7, <1>8, <1>9 DEF IInv

\* A step that moves nothing but the control state and bookkeeping keeps IInv
\* when the label it goes to is entitled to what IInv says of it.
LEMMA QuietStep ==
  ASSUME IInv, TypeOK',
         UNCHANGED <<window, stream, output, batch_start>>,
         pc = "retired" => pc' = "retired",
         pc' = "flushfill" => bc_idx' \in Boundary \cap pending,
         pc' \in {"idle", "known", "flushfill"} => Whole = {},
         pc' = "stream" => UNCHANGED <<pc, index>>,
         pc' # "flush" => (batch_start < streaming_cursor => streaming_cursor - 1 \notin Boundary)
  PROVE  IInv'
<1> USE DEF window, stream, output
<1>1. Streamed' = Streamed /\ Whole' = Whole /\ pending' = pending
  BY DEF Streamed, Whole, pending
<1>2. WindowInv'
  BY <1>1 DEF IInv, WindowInv, StartsBatch
<1>3. CursorInv'
  BY <1>1 DEF IInv, CursorInv, SameBatch
<1>4. FlushedInv'
  BY <1>1 DEF IInv, FlushedInv, Settled
<1>5. DecoderInv'
  BY <1>1 DEF IInv, DecoderInv, EndingIn
<1>6. DeliveredInv'
  BY DEF IInv, DeliveredInv
<1> QED BY <1>2, <1>3, <1>4, <1>5, <1>6 DEF IInv

\* Behind a boundary that streaming has crossed, the whole batch was received.
LEMMA CrossedIsWhole ==
  ASSUME IInv, batch_start < streaming_cursor, streaming_cursor - 1 \in Boundary
  PROVE  streaming_cursor - 1 \in Whole /\ streaming_cursor - 1 \in DOMAIN batch_complete_indices
<1> USE LedgerAssumption DEF DataIdx
<1>1. batch_start .. (streaming_cursor - 1) \subseteq pool
  BY DEF IInv, CursorInv, Streamed
<1>2. streaming_cursor - 1 >= batch_start /\ streaming_cursor - 1 \in pool
  BY <1>1 DEF IInv, TypeOK
<1> QED BY <1>1, <1>2 DEF Whole, pending, IInv, WindowInv

\* A batch received whole has its boundary among the known ones.
LEMMA WholeIsKnown ==
  ASSUME IInv, NEW b \in Whole
  PROVE  b \in DOMAIN batch_complete_indices
BY LedgerAssumption DEF IInv, TypeOK, WindowInv, Whole, pending, DataIdx

\* FEC recovery only adds to the window: it neither streams nor flushes.
LEMMA FillStep ==
  ASSUME IInv, NEW h, try_fec_fill(h),
         pc \in {"fill", "flushfill", "harvestfill"},
         pc' = pc \/ pc' \in {"restream", "flush"},
         UNCHANGED <<index, hint, bc_idx>>, hints' \subseteq FecIds
  PROVE  IInv'
<1> USE LedgerAssumption, FecAssumption DEF DataIdx, stream, output
<1>1. Inserted(h) \subseteq (batch_start .. (LastIdx - 1)) \ pending
  <2> SUFFICES ASSUME NEW i \in Inserted(h)
               PROVE  i \in batch_start .. (LastIdx - 1) /\ i \notin pending
    OBVIOUS
  <2>1. i \in Rebuilt(h) /\ i >= batch_start /\ i # LastIdx
    BY DEF Inserted
  <2>2. PICK f \in select_recoverable_set(h) : i \in FecRange(f) /\ i \notin pending
    BY <2>1 DEF Rebuilt
  <2>3. f \in FecIds
    BY <2>2 DEF select_recoverable_set
  <2>4. i \in 0 .. LastIdx
    BY <2>2, <2>3
  <2>5. batch_start \in Int /\ LastIdx \in Int
    BY DEF IInv, TypeOK
  <2> HIDE LedgerAssumption, FecAssumption
  <2> QED BY <2>1, <2>2, <2>4, <2>5
<1> USE DEF try_fec_fill
<1>2. pending' = pending \cup Inserted(h)
  BY DEF pending
<1>3. /\ DOMAIN batch_complete_indices' = DOMAIN batch_complete_indices \cup (Inserted(h) \cap Boundary)
      /\ batch_complete_indices' \in [DOMAIN batch_complete_indices' -> Nat]
  BY DEF NoteBoundaries, IInv, TypeOK
<1>4. TypeOK'
  <2>1. recovered' \subseteq 0 .. (LastIdx - 1)
    BY <1>1 DEF IInv, TypeOK
  <2>2. fec_sets' \in [FecIds -> SUBSET Nat]
    BY DEF IInv, TypeOK
  <2>3. slot_complete' \in BOOLEAN
    BY DEF IInv, TypeOK
  <2> HIDE DEF try_fec_fill
  <2>4. UNCHANGED <<pool, streaming_cursor, streaming_buffer, yielded_sigs, delivered,
                    batch_start, stats, now>>
    BY DEF try_fec_fill
  <2>5. DOMAIN batch_complete_indices' \subseteq Boundary
    BY <1>3 DEF IInv, TypeOK
  <2> QED BY <2>1, <2>2, <2>3, <2>4, <2>5, <1>3 DEF IInv, TypeOK
<1>5. WindowInv'
  BY <1>1, <1>2, <1>3 DEF IInv, WindowInv, StartsBatch, pending
<1>6. Streamed' = Streamed /\ Whole' = Whole
  BY DEF Streamed, Whole
<1>7. CursorInv'
  BY <1>6 DEF IInv, CursorInv, SameBatch
<1>8. FlushedInv'
  BY <1>6 DEF IInv, FlushedInv, Settled
<1>9. DecoderInv' /\ DeliveredInv'
  BY <1>6 DEF IInv, DecoderInv, DeliveredInv, EndingIn
<1> QED BY <1>4, <1>5, <1>7, <1>8, <1>9 DEF IInv

\* A pushed shred may make batches whole, all of which contain it.
LEMMA PushDataStep ==
  ASSUME IInv, NEW i \in DataIdx, push_data(i)
  PROVE  IInv'
<1> USE LedgerAssumption DEF DataIdx, push_data, stream, output
<1>1. i \in batch_start .. (LastIdx - 1) /\ i \notin pending
  BY DEF IInv, TypeOK
<1>2. pending' = pending \cup {i}
  BY DEF pending
<1>3. /\ DOMAIN batch_complete_indices' = DOMAIN batch_complete_indices \cup ({i} \cap Boundary)
      /\ batch_complete_indices' \in [DOMAIN batch_complete_indices' -> Nat]
  BY DEF NoteBoundaries, IInv, TypeOK
<1>4. TypeOK'
  <2>1. pool' \subseteq 0 .. (LastIdx - 1)
    BY <1>1 DEF IInv, TypeOK
  <2>2. DOMAIN batch_complete_indices' \subseteq Boundary
    BY <1>3 DEF IInv, TypeOK
  <2>3. hint' \in FecIds
    OBVIOUS
  <2>4. /\ index' = i /\ pc' = "stream"
        /\ UNCHANGED <<recovered, streaming_cursor, streaming_buffer, yielded_sigs,
              delivered, fec_sets, batch_start, slot_complete, stats, now, bc_idx, hints>>
    OBVIOUS
  <2> HIDE DEF push_data
  <2> QED BY <2>1, <2>2, <2>3, <2>4, <1>3 DEF IInv, TypeOK
<1>5. WindowInv'
  BY <1>1, <1>2, <1>3 DEF IInv, WindowInv, StartsBatch, pending
<1>6. Streamed' = Streamed
  BY DEF Streamed
<1>7. CursorInv'
  BY <1>6 DEF IInv, CursorInv, SameBatch
<1>8. FlushedInv'
  <2> SUFFICES ASSUME NEW b \in Whole' PROVE i <= b
    BY DEF FlushedInv, Settled
  <2>1. b \in Boundary /\ b >= batch_start /\ batch_start .. b \subseteq pool \cup {i}
    BY DEF Whole
  <2>2. Whole = {}
    BY DEF IInv, FlushedInv, Settled
  <2>3. i \in batch_start .. b
    BY <2>1, <2>2 DEF Whole
  <2> QED BY <2>1, <2>3, <1>1 DEF IInv, TypeOK
<1>9. DecoderInv' /\ DeliveredInv'
  BY <1>6 DEF IInv, DecoderInv, DeliveredInv, EndingIn
<1> QED BY <1>4, <1>5, <1>7, <1>8, <1>9 DEF IInv

\* Where streaming goes next when it stops after having crossed a boundary.
LEMMA CrossingFlushes ==
  ASSUME IInv, pc \in {"stream", "restream"}, streaming_cursor \in pool,
         streaming_cursor \in Boundary
  PROVE  AfterStreaming(streaming_cursor + 1) = "flush"
<1> USE LedgerAssumption DEF DataIdx
<1>1. batch_start .. streaming_cursor \subseteq pool /\ streaming_cursor >= batch_start
  BY DEF IInv, TypeOK, CursorInv, Streamed
<1>2. streaming_cursor \in Whole
  BY <1>1 DEF Whole
<1>3. pc = "stream" => index <= streaming_cursor
  BY <1>2 DEF IInv, FlushedInv, Settled
<1> QED BY <1>3 DEF AfterStreaming, IInv, TypeOK

\* One shred is fed to the streaming decoder.
LEMMA StreamStep ==
  ASSUME IInv, StreamShred
  PROVE  IInv'
<1> USE LedgerAssumption DEF DataIdx
<1> DEFINE i == streaming_cursor
           B == streaming_buffer \cup {i}
           D == IF StreamReads(B, i) THEN EndingIn({i}) ELSE {}
<1>1. PICK error \in BOOLEAN :
        /\ error => ~ StreamReads(B, i)
        /\ record_sig(D)
        /\ yielded_sigs' = yielded_sigs \cup D
        /\ streaming_buffer' = IF error THEN {} ELSE B
        /\ streaming_cursor' = i + 1
        /\ pc' = IF error \/ i \in Boundary THEN AfterStreaming(i + 1) ELSE pc
  BY DEF StreamShred
<1>2. /\ pc \in {"stream", "restream"} /\ i \in pool
      /\ UNCHANGED <<pool, recovered, batch_complete_indices, index, hint, bc_idx,
                     hints, fec_sets, batch_start, slot_complete, stats, now>>
  BY DEF StreamShred, window, locals
<1>3. /\ i \in 0 .. (LastIdx - 1) /\ batch_start \in Nat /\ LastIdx \in Nat
      /\ i >= batch_start
  BY <1>2 DEF IInv, TypeOK, CursorInv
<1>4. Streamed' = Streamed \cup {i} /\ Streamed = batch_start .. (i - 1)
  BY <1>1, <1>2, <1>3 DEF Streamed
<1>5. (batch_start .. (i - 1)) \cap Boundary = {}
  <2>1. i > batch_start => i - 1 \notin Boundary
    BY <1>2, <1>3 DEF IInv, CursorInv
  <2> QED BY <2>1, <1>3 DEF IInv, CursorInv, SameBatch
<1>6. D \subseteq Txs /\ \A t \in D : EndsIn[t] = i
  <2>1. D = {} \/ D = EndingIn({i})
    OBVIOUS
  <2> HIDE DEF D
  <2> QED BY <2>1 DEF EndingIn
<1>7. \A t \in D : t \notin yielded_sigs
  <2>1. \A t \in yielded_sigs : EndsIn[t] \in batch_start .. (i - 1)
    BY <1>2, <1>4 DEF IInv, DecoderInv
  <2>2. i \notin batch_start .. (i - 1)
    BY <1>3
  <2> HIDE DEF D, i
  <2> QED BY <2>1, <2>2, <1>6
<1>8. pc' \in {"stream", "restream", "fill", "flush"}
      /\ (pc' = "stream" => pc = "stream") /\ (i \in Boundary => pc' = "flush")
  BY <1>1, <1>2, CrossingFlushes DEF AfterStreaming
<1>9. \A t \in Txs : delivered'[t] = delivered[t] + (IF t \in D \ yielded_sigs THEN 1 ELSE 0)
  BY <1>1 DEF record_sig
<1>10. TypeOK'
  <2>1. delivered' \in [Txs -> Nat]
    BY <1>1 DEF record_sig, IInv, TypeOK
  <2>2. streaming_buffer' \subseteq DataIdx /\ streaming_cursor' \in DataIdx
    BY <1>1, <1>3 DEF IInv, TypeOK
  <2>3. yielded_sigs' \subseteq Txs
    BY <1>1, <1>6 DEF IInv, TypeOK
  <2> HIDE DEF B, D, i
  <2> QED BY <2>1, <2>2, <2>3, <1>2, <1>8 DEF IInv, TypeOK
<1>11. WindowInv'
  BY <1>2, <1>8 DEF IInv, WindowInv, StartsBatch, pending
<1>12. CursorInv'
  <2>1. batch_start' <= streaming_cursor'
    BY <1>1, <1>2, <1>3
  <2>2. Streamed' \subseteq pool'
    BY <1>2, <1>4 DEF IInv, CursorInv
  <2>3. streaming_cursor' - 1 = i
    BY <1>1, <1>3
  <2>4. SameBatch(batch_start, streaming_cursor - 1)' 
    BY <1>2, <2>3, <1>5 DEF SameBatch
  <2> QED BY <2>1, <2>2, <2>3, <2>4, <1>8 DEF CursorInv
<1>13. FlushedInv'
  BY <1>2, <1>8 DEF IInv, FlushedInv, Settled, Whole
<1>14. DecoderInv'
  <2>1. streaming_buffer' \subseteq Streamed'
    BY <1>1, <1>4 DEF IInv, DecoderInv
  <2>2. Streamed' \cap Garbled = {} => B = batch_start .. i /\ StreamReads(B, i)
    <3> SUFFICES ASSUME Streamed' \cap Garbled = {}
                 PROVE  B = batch_start .. i /\ StreamReads(B, i)
      OBVIOUS
    <3>1. streaming_buffer = Streamed
      BY <1>4 DEF IInv, DecoderInv
    <3>2. B = batch_start .. i
      BY <3>1, <1>3, <1>4
    <3>3. B \cap Garbled = {}
      BY <3>1, <1>4
    <3>4. StartsBatch(batch_start) /\ SameBatch(batch_start, i) /\ batch_start \in 0 .. i
      BY <1>3, <1>5 DEF IInv, WindowInv, SameBatch
    <3> QED BY <3>2, <3>3, <3>4 DEF StreamReads
  <2>3. Streamed' \cap Garbled = {} => streaming_buffer' = Streamed'
    BY <2>2, <1>1, <1>3, <1>4
  <2>4. \A t \in yielded_sigs' : EndsIn[t] \in Streamed'
    BY <1>1, <1>2, <1>4, <1>6 DEF IInv, DecoderInv
  <2>5. \A t \in EndingIn(Streamed') :
          (batch_start .. EndsIn[t]) \cap Garbled = {} => t \in yielded_sigs'
    <3> SUFFICES ASSUME NEW t \in EndingIn(Streamed'),
                        (batch_start .. EndsIn[t]) \cap Garbled = {}
                 PROVE  t \in yielded_sigs'
      OBVIOUS
    <3>1. CASE EndsIn[t] = i
      <4>1. Streamed' \cap Garbled = {}
        BY <3>1, <1>3, <1>4
      <4>2. D = EndingIn({i})
        BY <4>1, <2>2
      <4>3. t \in EndingIn({i})
        BY <3>1 DEF EndingIn
      <4> QED BY <4>2, <4>3, <1>1
    <3>2. CASE EndsIn[t] # i
      <4>1. t \in EndingIn(Streamed)
        BY <3>2, <1>4 DEF EndingIn
      <4> QED BY <4>1, <1>1 DEF IInv, DecoderInv
    <3> QED BY <3>1, <3>2
  <2> QED BY <2>1, <2>3, <2>4, <2>5, <1>2 DEF DecoderInv
<1>15. DeliveredInv'
  <2> HIDE DEF D
  <2>1. \A t \in D : delivered[t] = 0
    BY <1>3, <1>6, <1>7 DEF IInv, DeliveredInv
  <2>2. \A t \in Txs : delivered'[t] = IF t \in D THEN 1 ELSE delivered[t]
    BY <2>1, <1>7, <1>9 DEF IInv, DeliveredInv
  <2>3. yielded_sigs' = yielded_sigs \cup D /\ batch_start' = batch_start
    BY <1>1, <1>2
  <2>4. yielded_sigs \subseteq Txs
    BY DEF IInv, TypeOK
  <2> QED BY <2>2, <2>3, <2>4, <1>6 DEF IInv, DeliveredInv
<1> QED BY <1>10, <1>11, <1>12, <1>13, <1>14, <1>15 DEF IInv

\* A salvaged batch is counted, and nothing is taken off a counter.
LEMMA SalvageCounted ==
  ASSUME stats \in BatchStats, NEW new, NEW late \in BOOLEAN, CountSalvaged(new, late)
  PROVE  /\ stats' \in BatchStats
         /\ \A k \in {"streaming", "fallback", "skipped", "timeout"} : stats'[k] >= stats[k]
<1> DEFINE x == IF new # {} THEN 1 ELSE 0
           y == IF new = {} THEN 1 ELSE 0
           z == IF late THEN 1 ELSE 0
<1>1. x \in Nat /\ y \in Nat /\ z \in Nat
  OBVIOUS
<1>2. stats' = [stats EXCEPT !.fallback = @ + x, !.skipped = @ + y, !.timeout = @ + z]
  BY DEF CountSalvaged
<1> HIDE DEF x, y, z
<1>3. stats' = [streaming |-> stats.streaming, fallback |-> stats.fallback + x,
                skipped |-> stats.skipped + y, timeout |-> stats.timeout + z]
  BY <1>2 DEF BatchStats
<1>4. /\ stats.streaming \in Nat /\ stats.fallback + x \in Nat
      /\ stats.skipped + y \in Nat /\ stats.timeout + z \in Nat
  BY <1>1 DEF BatchStats
<1>5. stats' \in BatchStats
  BY ONLY <1>3, <1>4 DEF BatchStats
<1>6. /\ stats.fallback + x >= stats.fallback /\ stats.skipped + y >= stats.skipped
      /\ stats.timeout + z >= stats.timeout /\ stats.streaming >= stats.streaming
  BY <1>1 DEF BatchStats
<1> QED BY ONLY <1>3, <1>5, <1>6

\* Closing a batch by decoding it in one piece or by salvage: IInv again, and
\* what is handed over lies strictly behind everything handed over before.
LEMMA FinishStep ==
  ASSUME IInv, NEW b \in Boundary \cap pending,
         FinishWhole(b) \/ (\E late \in BOOLEAN : FinishBroken(b, late)),
         pc # "retired", pc' \in {"flush", "harvest"},
         UNCHANGED <<slot_complete, now, locals>>
  PROVE  /\ IInv'
         /\ \E D \in SUBSET Txs :
              record_sig(D) /\ \A t \in D \ yielded_sigs : EndsIn[t] >= streaming_cursor
<1> DEFINE W == decode_batch(batch_start, b)
           S == salvage_contiguous_runs_in(batch_start, b)
<1>1. b \in batch_start .. LastIdx
  BY LedgerAssumption DEF IInv, TypeOK, WindowInv, DataIdx
<1>2. /\ W \subseteq Txs /\ \A t \in W : EndsIn[t] \in batch_start .. b
      /\ \A t \in W \ yielded_sigs : EndsIn[t] >= streaming_cursor
  BY BatchIsFresh
<1>3. /\ S \subseteq Txs /\ \A t \in S : EndsIn[t] \in batch_start .. b
      /\ \A t \in S \ yielded_sigs : EndsIn[t] >= streaming_cursor
  BY <1>1, SalvageIsFresh
<1> HIDE DEF W, S
<1>4. /\ complete_batch(b)
      /\ record_sig(W) \/ record_sig(S)
  BY DEF FinishWhole, FinishBroken, W, S
<1>5. stats' \in BatchStats
  <2>1. stats \in BatchStats
    BY DEF IInv, TypeOK
  <2>2. \/ \E new : CountDecoded(new) \/ CountSkipped
        \/ \E new : \E late \in BOOLEAN : CountSalvaged(new, late)
    BY DEF FinishWhole, FinishBroken
  <2>3. ASSUME NEW new, CountDecoded(new) PROVE stats' \in BatchStats
    BY <2>1, <2>3 DEF CountDecoded, BatchStats
  <2>4. CountSkipped => stats' \in BatchStats
    BY <2>1 DEF CountSkipped, BatchStats
  <2>5. ASSUME NEW new, NEW late \in BOOLEAN, CountSalvaged(new, late) PROVE stats' \in BatchStats
    BY <2>1, <2>5, SalvageCounted
  <2> QED BY <2>2, <2>3, <2>4, <2>5
<1>6. CASE record_sig(W)
  BY <1>2, <1>4, <1>5, <1>6, CloseBatch
<1>7. CASE record_sig(S)
  BY <1>3, <1>4, <1>5, <1>7, CloseBatch
<1> QED BY <1>4, <1>6, <1>7

\* The tail of a slot: nothing is closed, and what it hands over lies behind
\* the cursor as well.
LEMMA TailStep ==
  ASSUME IInv, HarvestTail
  PROVE  /\ IInv'
         /\ pc # "retired"
         /\ \E D \in SUBSET Txs :
              record_sig(D) /\ \A t \in D \ yielded_sigs : EndsIn[t] >= streaming_cursor
<1> USE LedgerAssumption DEF DataIdx
<1> DEFINE D == salvage_contiguous_runs_in(batch_start, LastIdx)
<1>1. LastIdx \in batch_start .. LastIdx
  BY DEF IInv, TypeOK
<1>2. /\ D \subseteq Txs /\ \A t \in D : EndsIn[t] \in batch_start .. LastIdx
      /\ \A t \in D \ yielded_sigs : EndsIn[t] >= streaming_cursor
  BY <1>1, SalvageIsFresh
<1>3. record_sig(D) /\ yielded_sigs' = yielded_sigs \cup D
  BY DEF HarvestTail
<1> HIDE DEF D
<1>4. /\ pc = "harvest" /\ pc' = "retired"
      /\ index' = 0 /\ hint' = 0 /\ bc_idx' = 0 /\ hints' = {}
      /\ UNCHANGED <<window, stream, fec_sets, batch_start, slot_complete, stats, now>>
  BY DEF HarvestTail, Return
<1>5. UNCHANGED <<pool, recovered, pending, batch_complete_indices, streaming_cursor,
                  streaming_buffer, batch_start, Streamed, fec_sets, slot_complete, stats, now>>
  BY <1>4 DEF window, stream, pending, Streamed
<1>6. delivered' \in [Txs -> Nat]
  BY <1>3 DEF record_sig, IInv, TypeOK
<1>7. yielded_sigs' \subseteq Txs
  BY <1>2, <1>3 DEF IInv, TypeOK
<1>8. TypeOK'
  BY <1>4, <1>5, <1>6, <1>7 DEF IInv, TypeOK
<1>9. WindowInv'
  BY <1>4, <1>5 DEF IInv, WindowInv, StartsBatch
<1>10. CursorInv'
  BY <1>4, <1>5 DEF IInv, CursorInv, SameBatch
<1>11. FlushedInv'
  BY <1>4 DEF FlushedInv, Settled
<1>12. DecoderInv'
  BY <1>3, <1>4, <1>5 DEF IInv, DecoderInv
<1>13. DeliveredInv'
  <2>1. \A t \in Txs : delivered'[t] = delivered[t] + (IF t \in D \ yielded_sigs THEN 1 ELSE 0)
    BY <1>3 DEF record_sig
  <2>2. \A t \in D \ yielded_sigs : delivered[t] = 0
    <3> SUFFICES ASSUME NEW t \in D \ yielded_sigs PROVE delivered[t] = 0
      OBVIOUS
    <3>1. t \in Txs /\ batch_start <= EndsIn[t]
      BY <1>2 DEF IInv, TypeOK
    <3> QED BY <3>1 DEF IInv, DeliveredInv
  <2>3. \A t \in Txs : delivered[t] \in {0, 1}
    BY DEF IInv, DeliveredInv
  <2>4. \A t \in Txs : t \in D \ yielded_sigs => delivered'[t] = 1
    BY <2>1, <2>2
  <2>5. \A t \in Txs : t \notin D \ yielded_sigs => delivered'[t] = delivered[t]
    BY <2>1, <2>3
  <2> QED BY <1>2, <1>3, <1>5, <2>3, <2>4, <2>5 DEF IInv, DeliveredInv, TypeOK
<1>14. \E E \in SUBSET Txs :
         record_sig(E) /\ \A t \in E \ yielded_sigs : EndsIn[t] >= streaming_cursor
  BY <1>2, <1>3
<1> QED BY <1>4, <1>8, <1>9, <1>10, <1>11, <1>12, <1>13, <1>14 DEF IInv

\* No step of Next leaves IInv.
LEMMA NextPreserves ==
  ASSUME IInv, [Next]_vars
  PROVE  IInv'
<1> USE LedgerAssumption, FecAssumption DEF DataIdx
<1>1. \A x \in DataIdx : x \in Int
  OBVIOUS
<1>2. CASE push_last
  <2>1. /\ UNCHANGED <<window, stream, output, batch_start>> /\ pc' = "flush"
        /\ pc = "idle" /\ TypeOK'
    BY <1>2 DEF push_last, Goto, IInv, TypeOK, window, stream, output, locals
  <2> QED BY <2>1, QuietStep
<1>3. CASE \E i \in DataIdx : push_data(i)
  BY <1>3, PushDataStep
<1>20. CASE (\E i \in DataIdx : push_known(i)) \/ KnownReturn
  <2>1. /\ UNCHANGED <<window, stream, output, batch_start>> /\ pc \in {"idle", "known"}
        /\ pc' \in {"idle", "known"}
    BY <1>20 DEF push_known, KnownReturn, Goto, Return
  <2>2. TypeOK'
    <3>1. CASE \E i \in DataIdx : push_known(i)
      BY <3>1 DEF push_known, Goto, IInv, TypeOK, window, stream, output, locals
    <3>2. CASE KnownReturn
      BY <3>2 DEF KnownReturn, Return, IInv, TypeOK, window, stream, output
    <3> QED BY <1>20, <3>1, <3>2
  <2>3. Whole = {}
    BY <2>1 DEF IInv, FlushedInv, Settled
  <2>4. batch_start < streaming_cursor => streaming_cursor - 1 \notin Boundary
    BY <2>3, CrossedIsWhole
  <2> QED BY <2>1, <2>2, <2>3, <2>4, QuietStep
<1>4. CASE \E f \in FecIds : \E p \in Positions(f) : push_code(f, p)
  <2>1. PICK f \in FecIds : \E p \in Positions(f) : push_code(f, p)
    BY <1>4
  <2>2. PICK p \in Positions(f) : push_code(f, p)
    BY <2>1
  <2>3. fec_sets' \in [FecIds -> SUBSET Nat]
    <3>1. p \in Nat
      BY DEF Positions
    <3> QED BY <2>2, <3>1 DEF push_code, IInv, TypeOK
  <2>4. /\ UNCHANGED <<window, stream, output, batch_start>> /\ pc = "idle" /\ pc' = "fill"
        /\ TypeOK'
    BY <2>2, <2>3 DEF push_code, IInv, TypeOK, window, stream, output
  <2>5. batch_start < streaming_cursor => streaming_cursor - 1 \notin Boundary
    BY <2>4 DEF IInv, CursorInv
  <2> QED BY <2>4, <2>5, QuietStep
<1>5. CASE try_harvest_tail
  <2>1. /\ UNCHANGED <<window, stream, output, batch_start>> /\ pc' = "harvestfill"
        /\ pc = "idle" /\ TypeOK'
    BY <1>5 DEF try_harvest_tail, FecKeys, IInv, TypeOK, window, stream, output
  <2>2. batch_start < streaming_cursor => streaming_cursor - 1 \notin Boundary
    BY <2>1 DEF IInv, CursorInv
  <2> QED BY <2>1, <2>2, QuietStep
<1>6. CASE StreamShred
  BY <1>6, StreamStep
<1>7. CASE StreamBlocked
  <2>1. /\ UNCHANGED <<window, stream, output, batch_start>> /\ pc \in {"stream", "restream"}
        /\ pc' \in {"fill", "flush"} /\ TypeOK'
    BY <1>7 DEF StreamBlocked, AfterStreaming, Goto, IInv, TypeOK, window, stream, output, locals
  <2>2. batch_start < streaming_cursor => streaming_cursor - 1 \notin Boundary
    BY <2>1 DEF IInv, CursorInv
  <2> QED BY <2>1, <2>2, QuietStep
<1>8. CASE Fill
  <2>1. /\ try_fec_fill(hint) /\ pc = "fill" /\ pc' \in {"restream", "flush"}
        /\ UNCHANGED <<index, hint, bc_idx, hints>> /\ hints \subseteq FecIds
    BY <1>8 DEF Fill, Goto, locals, IInv, TypeOK
  <2> QED BY <2>1, FillStep
<1>9. CASE FlushReturn
  <2>1. /\ UNCHANGED <<window, stream, output, batch_start>> /\ pc = "flush" /\ pc' = "idle"
        /\ DOMAIN batch_complete_indices = {}
    BY <1>9 DEF FlushReturn, Return
  <2>2. TypeOK'
    <3>1. /\ pc' = "idle" /\ index' = 0 /\ hint' = 0 /\ bc_idx' = 0 /\ hints' = {}
          /\ UNCHANGED <<window, stream, output, fec_sets, batch_start, slot_complete, stats, now>>
      BY <1>9 DEF FlushReturn, Return
    <3> QED BY <3>1 DEF IInv, TypeOK, window, stream, output
  <2>3. Whole = {}
    BY <2>1, WholeIsKnown
  <2>4. batch_start < streaming_cursor => streaming_cursor - 1 \notin Boundary
    BY <2>3, CrossedIsWhole
  <2> QED BY <2>1, <2>2, <2>3, <2>4, QuietStep
<1>10. CASE FlushWhole
  <2>1. PICK b \in Least(DOMAIN batch_complete_indices) : FinishWhole(b)
    BY <1>10 DEF FlushWhole
  <2>2. b \in Boundary \cap pending
    BY DEF Least, IInv, WindowInv
  <2>3. pc = "flush" /\ pc' = "flush" /\ UNCHANGED <<slot_complete, now, locals>>
    BY <1>10 DEF FlushWhole, Goto
  <2> QED BY <2>1, <2>2, <2>3, FinishStep
<1>11. CASE FlushGap
  <2>1. PICK b \in Least(DOMAIN batch_complete_indices) :
          /\ Missing(batch_start, b) # {} /\ bc_idx' = b
          /\ hints' = {f \in FecKeys : f + NumData[f] > batch_start /\ f <= b}
    BY <1>11 DEF FlushGap
  <2>2. b \in Boundary \cap pending
    BY DEF Least, IInv, WindowInv
  <2>3. Whole = {}
    <3> SUFFICES ASSUME NEW w \in Whole PROVE FALSE
      OBVIOUS
    <3>1. b <= w
      BY WholeIsKnown DEF Least
    <3>2. batch_start .. w \subseteq pending /\ w \in Int /\ b \in Int /\ batch_start \in Int
      BY <2>2 DEF Whole, pending, IInv, TypeOK
    <3>3. batch_start .. b \subseteq pending
      BY <3>1, <3>2
    <3> QED BY <3>3, <2>1 DEF Missing
  <2>4. batch_start < streaming_cursor => streaming_cursor - 1 \notin Boundary
    BY <2>3, CrossedIsWhole
  <2>5. /\ UNCHANGED <<window, stream, output, batch_start>> /\ pc = "flush" /\ pc' = "flushfill"
        /\ UNCHANGED <<fec_sets, slot_complete, stats, now, index, hint>>
    BY <1>11 DEF FlushGap
  <2>6. b \in DataIdx /\ hints' \subseteq FecIds
    <3>1. hints' \subseteq FecIds
      BY <2>1 DEF FecKeys
    <3>2. b \in 0 .. (LastIdx - 1) /\ LastIdx \in Nat
      BY <2>2
    <3>3. b \in DataIdx
      BY <3>2
    <3> QED BY <3>1, <3>3
  <2>7. TypeOK'
    BY <2>1, <2>5, <2>6 DEF IInv, TypeOK, window, stream, output
  <2> QED BY <2>1, <2>2, <2>3, <2>4, <2>5, <2>7, QuietStep
<1>12. CASE FlushFill
  <2>1. PICK h \in Least(hints) : try_fec_fill(h) /\ hints' = hints \ {h}
    BY <1>12 DEF FlushFill
  <2>2. pc = "flushfill" /\ UNCHANGED <<pc, index, hint, bc_idx>> /\ hints \subseteq FecIds
    BY <1>12 DEF FlushFill, IInv, TypeOK
  <2> QED BY <2>1, <2>2, FillStep
<1>13. CASE FlushFilled \/ FlushTimeout
  <2>1. /\ FinishWhole(bc_idx) \/ FinishBroken(bc_idx, TRUE)
        /\ pc = "flushfill" /\ pc' = "flush" /\ UNCHANGED <<slot_complete, now, locals>>
    BY <1>13 DEF FlushFilled, FlushTimeout, Goto
  <2>2. bc_idx \in Boundary \cap pending
    BY <2>1 DEF IInv, WindowInv
  <2> QED BY <2>1, <2>2, FinishStep
<1>14. CASE FlushWait
  <2>1. /\ UNCHANGED <<window, stream, output, batch_start>> /\ pc' = "idle"
        /\ pc = "flushfill" /\ TypeOK'
    BY <1>14 DEF FlushWait, Return, IInv, TypeOK, window, stream, output
  <2>2. Whole = {}
    BY <2>1 DEF IInv, FlushedInv, Settled
  <2>3. batch_start < streaming_cursor => streaming_cursor - 1 \notin Boundary
    BY <2>2, CrossedIsWhole
  <2> QED BY <2>1, <2>2, <2>3, QuietStep
<1>15. CASE HarvestFill
  <2>1. PICK h \in Least(hints) : try_fec_fill(h) /\ hints' = hints \ {h}
    BY <1>15 DEF HarvestFill
  <2>2. pc = "harvestfill" /\ UNCHANGED <<pc, index, hint, bc_idx>> /\ hints \subseteq FecIds
    BY <1>15 DEF HarvestFill, IInv, TypeOK
  <2> QED BY <2>1, <2>2, FillStep
<1>16. CASE HarvestFilled
  <2>1. /\ UNCHANGED <<window, stream, output, batch_start>> /\ pc = "harvestfill"
        /\ pc' = "harvest" /\ TypeOK'
    BY <1>16 DEF HarvestFilled, Goto, IInv, TypeOK, window, stream, output, locals
  <2>2. batch_start < streaming_cursor => streaming_cursor - 1 \notin Boundary
    BY <2>1 DEF IInv, CursorInv
  <2> QED BY <2>1, <2>2, QuietStep
<1>17. CASE HarvestBatch
  <2>1. PICK b \in Least(pending \cap Boundary) : FinishWhole(b) \/ FinishBroken(b, FALSE)
    BY <1>17 DEF HarvestBatch
  <2>2. pc = "harvest" /\ UNCHANGED <<pc, locals, slot_complete, now>>
    BY <1>17 DEF HarvestBatch
  <2>3. b \in Boundary \cap pending
    BY DEF Least
  <2> QED BY <2>1, <2>2, <2>3, FinishStep
<1>18. CASE HarvestTail
  BY <1>18, TailStep
<1>19. CASE Tick \/ UNCHANGED vars
  <2>1. /\ UNCHANGED <<window, stream, output, locals, batch_start, pc>> /\ TypeOK'
    BY <1>19 DEF Tick, vars, IInv, TypeOK, window, stream, output, locals
  <2> QED BY <2>1, QuietStep DEF IInv, WindowInv, CursorInv, FlushedInv, Settled, locals
<1> QED
  BY <1>2, <1>3, <1>4, <1>5, <1>6, <1>7, <1>8, <1>9, <1>10, <1>11, <1>12, <1>13,
     <1>14, <1>15, <1>16, <1>17, <1>18, <1>19, <1>20 DEF Next, Step, Call

\* IInv holds in every reachable state.
THEOREM Invariance == Spec => []IInv
<1>1. Init => IInv
  BY NewEstablishes DEF Init
<1>2. IInv /\ [Next]_vars => IInv'
  BY NextPreserves
<1> QED BY <1>1, <1>2, PTL DEF Spec

-----------------------------------------------------------------------------
(* What follows from IInv.                                                 *)

\* Every variable keeps its type: indices stay inside the slot, the last shred
\* is never pending, counters count.
THEOREM TypeCorrect == Spec => []TypeOK
<1>1. IInv => TypeOK
  BY DEF IInv
<1> QED BY <1>1, Invariance, PTL

\* The streaming cursor never falls behind batch_start, and the streaming
\* decoder never holds bytes of two batches.
THEOREM DecoderSafe == Spec => []DecoderInStep
<1>1. IInv => DecoderInStep
  BY DEF IInv, CursorInv, DecoderInv, DecoderInStep
<1> QED BY <1>1, Invariance, PTL

\* A batch received whole has been flushed by the time the call returns.
THEOREM NothingWaits == Spec => []NoBatchWaits
<1>1. IInv => NoBatchWaits
  BY DEF IInv, FlushedInv, Settled, Whole, NoBatchWaits
<1> QED BY <1>1, Invariance, PTL

\* A step that hands over transactions which end behind the streaming cursor
\* is a step of the abstract specification.
LEMMA FreshIsDelivery ==
  ASSUME IInv, pc # "retired", NEW D \in SUBSET Txs, record_sig(D),
         \A t \in D \ yielded_sigs : EndsIn[t] >= streaming_cursor
  PROVE  Abs!Next
<1> USE LedgerAssumption DEF DataIdx
<1> DEFINE N == D \ yielded_sigs
<1>1. /\ batch_start \in Int /\ streaming_cursor \in Int /\ batch_start <= streaming_cursor
      /\ \A t \in Txs : EndsIn[t] \in Int
      /\ delivered \in [Txs -> Nat]
  BY DEF IInv, TypeOK, CursorInv
<1>2. N \subseteq Txs /\ \A t \in N : EndsIn[t] >= streaming_cursor
  OBVIOUS
<1>3. \A t \in N : delivered[t] = 0
  BY <1>1, <1>2 DEF IInv, DeliveredInv
<1>4. \A u \in Txs : delivered[u] # 0 => EndsIn[u] < streaming_cursor
  <2> SUFFICES ASSUME NEW u \in Txs, delivered[u] # 0 PROVE EndsIn[u] < streaming_cursor
    OBVIOUS
  <2>1. delivered[u] = 1
    BY DEF IInv, DeliveredInv
  <2>2. EndsIn[u] < batch_start \/ u \in yielded_sigs
    BY <2>1, <1>1 DEF IInv, DeliveredInv
  <2>3. u \in yielded_sigs => EndsIn[u] \in batch_start .. (streaming_cursor - 1)
    BY DEF IInv, DecoderInv, Streamed
  <2> QED BY <2>2, <2>3, <1>1
<1>5. \A t \in N, u \in Txs : delivered[u] # 0 => EndsIn[u] < EndsIn[t]
  BY <1>1, <1>2, <1>4
<1>6. \A t \in Txs : delivered[t] + (IF t \in N THEN 1 ELSE 0) = IF t \in N THEN 1 ELSE delivered[t]
  BY <1>1, <1>3
<1>7. delivered' = [t \in Txs |-> IF t \in N THEN 1 ELSE delivered[t]]
  BY <1>6 DEF record_sig
<1>8. Abs!Deliver(N)
  BY <1>3, <1>5, <1>7 DEF Abs!Deliver
<1> QED BY <1>2, <1>8 DEF Abs!Next

\* Every step of the accumulator is a delivery in ledger order, or hands over
\* nothing.
LEMMA StepDelivers ==
  ASSUME IInv, [Next]_vars
  PROVE  [Abs!Next]_delivered
<1>1. CASE StreamShred
  <2> DEFINE i == streaming_cursor
             D == IF StreamReads(streaming_buffer \cup {i}, i) THEN EndingIn({i}) ELSE {}
  <2>1. record_sig(D)
    BY <1>1 DEF StreamShred
  <2>2. D \in SUBSET Txs /\ \A t \in D : EndsIn[t] = i
    <3>1. D = {} \/ D = EndingIn({i})
      OBVIOUS
    <3> HIDE DEF D
    <3> QED BY <3>1 DEF EndingIn
  <2>3. i \in Int /\ pc # "retired"
    <3>1. pc # "retired"
      BY <1>1 DEF StreamShred
    <3>2. i \in Int
      BY LedgerAssumption DEF IInv, TypeOK, DataIdx
    <3> QED BY <3>1, <3>2
  <2> HIDE DEF D
  <2>4. \A t \in D \ yielded_sigs : EndsIn[t] >= streaming_cursor
    BY <2>2, <2>3
  <2> QED BY <2>1, <2>2, <2>3, <2>4, FreshIsDelivery
<1>2. CASE FlushWhole
  <2>1. PICK b \in Least(DOMAIN batch_complete_indices) : FinishWhole(b)
    BY <1>2 DEF FlushWhole
  <2>2. b \in Boundary \cap pending
    BY DEF Least, IInv, WindowInv
  <2>3. pc = "flush" /\ pc' = "flush" /\ UNCHANGED <<slot_complete, now, locals>>
    BY <1>2 DEF FlushWhole, Goto
  <2> QED BY <2>1, <2>2, <2>3, FinishStep, FreshIsDelivery
<1>3. CASE FlushFilled \/ FlushTimeout
  <2>1. /\ FinishWhole(bc_idx) \/ FinishBroken(bc_idx, TRUE)
        /\ pc = "flushfill" /\ pc' = "flush" /\ UNCHANGED <<slot_complete, now, locals>>
    BY <1>3 DEF FlushFilled, FlushTimeout, Goto
  <2>2. bc_idx \in Boundary \cap pending
    BY <2>1 DEF IInv, WindowInv
  <2> QED BY <2>1, <2>2, FinishStep, FreshIsDelivery
<1>4. CASE HarvestBatch
  <2>1. PICK b \in Least(pending \cap Boundary) : FinishWhole(b) \/ FinishBroken(b, FALSE)
    BY <1>4 DEF HarvestBatch
  <2>2. pc = "harvest" /\ UNCHANGED <<pc, locals, slot_complete, now>>
    BY <1>4 DEF HarvestBatch
  <2>3. b \in Boundary \cap pending
    BY DEF Least
  <2> QED BY <2>1, <2>2, <2>3, FinishStep, FreshIsDelivery
<1>5. CASE HarvestTail
  BY <1>5, TailStep, FreshIsDelivery
<1>6. CASE Call \/ Tick \/ UNCHANGED vars
  BY <1>6 DEF Call, push_last, push_data, push_known, push_code, try_harvest_tail, Tick, vars, output
<1>7. CASE Fill \/ FlushFill \/ HarvestFill
  BY <1>7 DEF Fill, FlushFill, HarvestFill, try_fec_fill, output
<1>8. CASE KnownReturn \/ StreamBlocked \/ FlushReturn \/ FlushGap \/ FlushWait \/ HarvestFilled
  BY <1>8 DEF KnownReturn, StreamBlocked, FlushReturn, FlushGap, FlushWait, HarvestFilled, output
<1> QED BY <1>1, <1>2, <1>3, <1>4, <1>5, <1>6, <1>7, <1>8 DEF Next, Step

\* The accumulator implements OrderedDelivery: each transaction is handed over
\* at most once and never behind a later one, for every slot, every feed and
\* every configuration.
THEOREM Refinement == Spec => ImplementsOrderedDelivery
<1>1. Init => Abs!Init
  BY DEF Init, with_config, Abs!Init
<1>2. IInv /\ [Next]_vars => [Abs!Next]_delivered
  BY StepDelivers
<1> QED BY <1>1, <1>2, Invariance, PTL DEF Spec, Abs!Spec, ImplementsOrderedDelivery

-----------------------------------------------------------------------------
(* What a caller of the accumulator needs to know of it.                   *)

\* A running call takes in no received shred, never unsets slot_complete, takes
\* nothing off the batch counters, and a harvest stays a harvest to its end.
LEMMA StepFrame ==
  ASSUME IInv, Step
  PROVE  /\ pool' \subseteq pool
         /\ slot_complete => slot_complete'
         /\ \A k \in {"streaming", "fallback", "skipped", "timeout"} : stats'[k] >= stats[k]
         /\ pc \in {"harvestfill", "harvest", "retired"} <=>
              pc' \in {"harvestfill", "harvest", "retired"}
<1> DEFINE Grows == stats' \in BatchStats /\ \A k \in {"streaming", "fallback", "skipped", "timeout"} : stats'[k] >= stats[k]
<1>0. stats \in BatchStats
  BY DEF IInv, TypeOK
<1>1. ASSUME UNCHANGED stats PROVE Grows
  BY <1>0, <1>1 DEF BatchStats
<1>2. ASSUME NEW new, CountDecoded(new) \/ CountSkipped PROVE Grows
  BY <1>0, <1>2 DEF BatchStats, CountDecoded, CountSkipped
<1>3. ASSUME NEW new, NEW late \in BOOLEAN, CountSalvaged(new, late) PROVE Grows
  BY <1>0, <1>3, SalvageCounted
<1>4. ASSUME NEW bc, FinishWhole(bc) \/ (\E late \in BOOLEAN : FinishBroken(bc, late))
      PROVE  Grows /\ pool' \subseteq pool
  BY <1>4, <1>2, <1>3 DEF FinishWhole, FinishBroken, complete_batch
<1> HIDE DEF Grows
<1>5. ASSUME NEW h, try_fec_fill(h)
      PROVE  Grows /\ pool' \subseteq pool /\ (slot_complete => slot_complete')
  BY <1>5, <1>1 DEF try_fec_fill
<1>6. Grows /\ pool' \subseteq pool /\ (slot_complete => slot_complete')
  <2>1. CASE StreamShred \/ StreamBlocked
    BY <2>1, <1>1 DEF StreamShred, StreamBlocked, window
  <2>2. CASE Fill \/ FlushFill \/ HarvestFill
    BY <2>2, <1>5 DEF Fill, FlushFill, HarvestFill
  <2>3. CASE KnownReturn \/ FlushReturn \/ FlushGap \/ FlushWait
    BY <2>3, <1>1 DEF KnownReturn, FlushReturn, FlushGap, FlushWait, window
  <2>4. CASE FlushWhole \/ FlushFilled
    BY <2>4, <1>4 DEF FlushWhole, FlushFilled
  <2>5. CASE FlushTimeout
    BY <2>5, <1>4 DEF FlushTimeout
  <2>6. CASE HarvestFilled \/ HarvestTail
    BY <2>6, <1>1 DEF HarvestFilled, HarvestTail, window
  <2>7. CASE HarvestBatch
    BY <2>7, <1>4 DEF HarvestBatch
  <2> QED BY <2>1, <2>2, <2>3, <2>4, <2>5, <2>6, <2>7 DEF Step
<1>7. pc \in {"harvestfill", "harvest", "retired"} <=>
        pc' \in {"harvestfill", "harvest", "retired"}
  BY DEF Step, KnownReturn, StreamShred, StreamBlocked, AfterStreaming, Fill, FlushReturn, FlushWhole, FlushGap,
         FlushFill, FlushFilled, FlushTimeout, FlushWait, HarvestFill, HarvestFilled, HarvestBatch,
         HarvestTail, Goto, Return, locals
<1> QED BY <1>6, <1>7 DEF Grows
=============================================================================
