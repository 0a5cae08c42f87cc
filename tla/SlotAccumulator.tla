-------------------------- MODULE SlotAccumulator --------------------------
(***************************************************************************)
(* SlotAccumulator (accumulator.rs): reassembles the entry batches of one  *)
(* slot from data and coding shreds that UDP loses, repeats and reorders,  *)
(* and hands over their transactions.                                      *)
(*                                                                         *)
(* The accumulator is sequential.  A call (push_data, push_code,           *)
(* try_harvest_tail) starts when pc = "idle" and its loops run one         *)
(* iteration per step, driven by pc; nothing but the clock moves in        *)
(* between.                                                                *)
(***************************************************************************)
EXTENDS SlotLedger

CONSTANTS
  MaxFecSets,    \* AccumulatorConfig::max_fec_sets_per_slot
  StuckTimeout,  \* AccumulatorConfig::stuck_batch_timeout, in clock ticks
  MaxTime        \* bound of the model: the clock stops there

ASSUME ConfigAssumption ==
  MaxFecSets \in Nat /\ StuckTimeout \in Nat /\ MaxTime \in Nat

VARIABLES
  pool,          \* pending: indices whose PayloadSource is a pool buffer
  recovered,     \* pending: indices rebuilt by Reed-Solomon
  fec_sets,      \* [FecIds -> coding positions buffered]; {} means no entry
  batch_complete_indices, \* pending boundary -> time it was first seen
  streaming_cursor,       \* next index to feed to the streaming decoder
  streaming_buffer,       \* indices fed to it since its last reset
  yielded_sigs,  \* transactions handed over since the last completed batch
  batch_start,   \* first index of the batch being assembled
  slot_complete,
  stats,         \* batch counters: streaming, fallback, skipped, timeout
  delivered,     \* [Txs -> Nat]: what the returned vectors contained so far
  now,           \* the clock read by Instant::now
  pc,            \* where the running call is
  index,         \* push_data: the index pushed
  hint,          \* the FEC set try_fec_fill is asked for first
  bc_idx,        \* try_flush_batches: the boundary chosen in this iteration
  hints          \* FEC sets still to be tried by the running loop

window  == <<pool, recovered, batch_complete_indices>>
stream  == <<streaming_cursor, streaming_buffer>>
output  == <<yielded_sigs, delivered>>
locals  == <<index, hint, bc_idx, hints>>
vars    == <<window, stream, output, locals, fec_sets, batch_start,
             slot_complete, stats, now, pc>>

pending == pool \cup recovered

FecKeys == {f \in FecIds : fec_sets[f] # {}}

Positions(f) == 0 .. (NumCoding[f] - 1)

BatchStats == [streaming : Nat, fallback : Nat, skipped : Nat, timeout : Nat]

TypeOK ==
  /\ pool \subseteq 0 .. (LastIdx - 1)
  /\ recovered \subseteq 0 .. (LastIdx - 1)
  /\ fec_sets \in [FecIds -> SUBSET Nat]
  /\ DOMAIN batch_complete_indices \subseteq Boundary
  /\ batch_complete_indices \in [DOMAIN batch_complete_indices -> Nat]
  /\ streaming_cursor \in DataIdx
  /\ streaming_buffer \subseteq DataIdx
  /\ yielded_sigs \subseteq Txs
  /\ batch_start \in DataIdx
  /\ slot_complete \in BOOLEAN
  /\ stats \in BatchStats
  /\ delivered \in [Txs -> Nat]
  /\ now \in Nat
  /\ pc \in {"idle", "known", "stream", "fill", "restream", "flush", "flushfill",
             "harvestfill", "harvest", "retired"}
  /\ index \in DataIdx
  /\ hint \in FecIds \cup {0}
  /\ bc_idx \in DataIdx
  /\ hints \subseteq FecIds

\* SlotAccumulator::with_config: a new accumulator, at any time.
with_config ==
  /\ pool = {} /\ recovered = {}
  /\ fec_sets = [f \in FecIds |-> {}]
  /\ batch_complete_indices = [b \in {} |-> 0]
  /\ streaming_cursor = 0 /\ streaming_buffer = {} /\ yielded_sigs = {}
  /\ batch_start = 0 /\ slot_complete = FALSE
  /\ stats = [streaming |-> 0, fallback |-> 0, skipped |-> 0, timeout |-> 0]
  /\ delivered = [t \in Txs |-> 0]
  /\ pc = "idle" /\ index = 0 /\ hint = 0 /\ bc_idx = 0 /\ hints = {}

Init == with_config /\ now = 0

-----------------------------------------------------------------------------
(* Helpers of the calls.                                                   *)

\* The running call returns; its locals go out of scope.
Return(label) ==
  /\ pc' = label
  /\ index' = 0 /\ hint' = 0 /\ bc_idx' = 0 /\ hints' = {}

Goto(label) == pc' = label /\ UNCHANGED locals

Least(S) == {x \in S : \A y \in S : x <= y}

\* batch_complete_indices.entry(b).or_insert_with(Instant::now)
NoteBoundaries(S) ==
  batch_complete_indices' =
    [b \in DOMAIN batch_complete_indices \cup (S \cap Boundary) |->
       IF b \in DOMAIN batch_complete_indices
         THEN batch_complete_indices[b] ELSE now]

\* Mutant: what a decoder yields is handed over without the duplicate check.
record_sig_unchecked(D) ==
  delivered' = [t \in Txs |-> delivered[t] + (IF t \in D THEN 1 ELSE 0)]

\* Transactions D come out of a decoder: those whose signature is not in
\* yielded_sigs are appended to the vector the call returns (record_sig).
record_sig(D) ==
  delivered' = [t \in Txs |-> delivered[t] + (IF t \in D \ yielded_sigs THEN 1 ELSE 0)]

Missing(lo, hi) == (lo .. hi) \ pending

\* Mutant: the streaming decoder is not reset behind a batch.
complete_batch_no_reset(bc) ==
  /\ pool' = {i \in pool : i >= bc + 1}
  /\ recovered' = {i \in recovered : i >= bc + 1}
  /\ batch_complete_indices' =
       [b \in {k \in DOMAIN batch_complete_indices : k >= bc + 1} |->
          batch_complete_indices[b]]
  /\ fec_sets' = [f \in FecIds |-> IF f + NumData[f] <= bc + 1 THEN {} ELSE fec_sets[f]]
  /\ batch_start' = bc + 1
  /\ streaming_cursor' = IF streaming_cursor >= bc + 1 THEN streaming_cursor ELSE bc + 1
  /\ streaming_buffer' = streaming_buffer
  /\ yielded_sigs' = {}

\* The batch ends at bc: forget everything up to bc and start over behind it.
complete_batch(bc) ==
  /\ pool' = {i \in pool : i >= bc + 1}
  /\ recovered' = {i \in recovered : i >= bc + 1}
  /\ batch_complete_indices' =
       [b \in {k \in DOMAIN batch_complete_indices : k >= bc + 1} |->
          batch_complete_indices[b]]
  /\ fec_sets' = [f \in FecIds |-> IF f + NumData[f] <= bc + 1 THEN {} ELSE fec_sets[f]]
  /\ batch_start' = bc + 1
  /\ streaming_cursor' = IF streaming_cursor >= bc + 1 THEN streaming_cursor ELSE bc + 1
  /\ streaming_buffer' = {}
  /\ yielded_sigs' = {}

\* salvage_contiguous_runs_in, and the tail loop of try_harvest_tail: every
\* maximal run of pending shreds in lo .. hi is decoded on its own.
RunStarts(lo, hi) == {r \in (lo .. hi) \cap pending : r = lo \/ r - 1 \notin pending}

RunFrom(r, hi) == {e \in r .. hi : r .. e \subseteq pending}

\* Mutant: only the first run is decoded.
salvage_first_run(lo, hi) ==
  {t \in Txs : \E r \in Least(RunStarts(lo, hi)) : \E e \in RunFrom(r, hi) :
                t \in decode_concatenated(r, e)}

salvage_contiguous_runs_in(lo, hi) ==
  {t \in Txs : \E r \in RunStarts(lo, hi) : \E e \in RunFrom(r, hi) :
                t \in decode_concatenated(r, e)}

\* How a completed batch is counted; new: transactions not handed over before.
CountDecoded(new) ==
  stats' = IF new # {} THEN [stats EXCEPT !.fallback = @ + 1]
                       ELSE [stats EXCEPT !.streaming = @ + 1]

CountSkipped == stats' = [stats EXCEPT !.skipped = @ + 1]

CountSalvaged(new, timedOut) ==
  stats' = [stats EXCEPT !.fallback = @ + (IF new # {} THEN 1 ELSE 0),
                         !.skipped  = @ + (IF new = {} THEN 1 ELSE 0),
                         !.timeout  = @ + (IF timedOut THEN 1 ELSE 0)]

\* All of batch_start .. bc is pending: decode it in one piece and close it.
FinishWhole(bc) ==
  LET D == decode_batch(batch_start, bc)
  IN  /\ record_sig(D)
      /\ IF BatchReads(batch_start, bc) THEN CountDecoded(D \ yielded_sigs)
                                        ELSE CountSkipped
      /\ complete_batch(bc)

\* Something of batch_start .. bc is missing: salvage what is whole, close it.
FinishBroken(bc, timedOut) ==
  LET D == salvage_contiguous_runs_in(batch_start, bc)
  IN  /\ record_sig(D)
      /\ CountSalvaged(D \ yielded_sigs, timedOut)
      /\ complete_batch(bc)

-----------------------------------------------------------------------------
(* FEC recovery.                                                           *)

can_recover_with(f) ==
  /\ fec_sets[f] # {}
  /\ Cardinality(pending \cap FecRange(f)) + Cardinality(fec_sets[f]) >= NumData[f]

\* The set asked for if it can be recovered, else the one under the cursor.
select_recoverable_set(h) ==
  IF h \in FecIds /\ can_recover_with(h)
    THEN {h}
    ELSE {f \in FecIds : streaming_cursor \in FecRange(f) /\ can_recover_with(f)}

\* Reed-Solomon rebuilds every data shred of the set that is not pending.
Rebuilt(h) ==
  UNION {FecRange(f) \ pending : f \in select_recoverable_set(h) \ Unbuildable}

\* The rebuilt shreds that become pending; LAST_IN_SLOT only sets a flag.
Inserted(h) == {i \in Rebuilt(h) : i >= batch_start /\ i # LastIdx}

try_fec_fill(h) ==
  /\ recovered' = recovered \cup Inserted(h)
  /\ NoteBoundaries(Inserted(h))
  /\ slot_complete' = (slot_complete \/ LastIdx \in Rebuilt(h))
  /\ fec_sets' = IF Inserted(h) # {}
                   THEN [f \in FecIds |-> IF f \in select_recoverable_set(h)
                                            THEN {} ELSE fec_sets[f]]
                   ELSE fec_sets
  /\ UNCHANGED <<pool, stream, output, batch_start, stats, now>>
-----------------------------------------------------------------------------
(* push_data and push_code.                                                *)

\* Mutant: the last shred is kept like any other.
push_last_kept ==
  /\ pc = "idle"
  /\ slot_complete' = TRUE
  /\ pool' = pool \cup {LastIdx}
  /\ Goto("flush")
  /\ UNCHANGED <<recovered, batch_complete_indices, stream, output, fec_sets,
                 batch_start, stats, now>>

\* The last shred of the slot is not kept: it only marks the slot complete.
push_last ==
  /\ pc = "idle"
  /\ slot_complete' = TRUE
  /\ Goto("flush")
  /\ UNCHANGED <<window, stream, output, fec_sets, batch_start, stats, now>>

push_data(i) ==
  /\ pc = "idle"
  /\ i # LastIdx
  /\ i >= batch_start
  /\ i \notin pending
  /\ pool' = pool \cup {i}
  /\ NoteBoundaries({i})
  /\ \E f \in FecIds : i \in FecRange(f) /\ hint' = f
  /\ index' = i
  /\ pc' = "stream"
  /\ UNCHANGED <<recovered, stream, output, fec_sets, batch_start,
                 slot_complete, stats, now, bc_idx, hints>>

\* A shred that is pending or already passed: push_data returns at once.
push_known(i) ==
  /\ pc = "idle"
  /\ i # LastIdx
  /\ i < batch_start \/ i \in pending
  /\ Goto("known")
  /\ UNCHANGED <<window, stream, output, fec_sets, batch_start, slot_complete,
                 stats, now>>

KnownReturn ==
  /\ pc = "known"
  /\ Return("idle")
  /\ UNCHANGED <<window, stream, output, fec_sets, batch_start, slot_complete,
                 stats, now>>

\* At the cap a new set pushes out the oldest one, if that one is older.
Displaced(f) ==
  IF Cardinality(FecKeys) >= MaxFecSets /\ f \notin FecKeys
    THEN {g \in Least(FecKeys) : g < f}
    ELSE {}

push_code(f, p) ==
  /\ pc = "idle"
  /\ fec_sets' = [g \in FecIds |-> IF g = f THEN fec_sets[f] \cup {p}
                                   ELSE IF g \in Displaced(f) THEN {} ELSE fec_sets[g]]
  /\ hint' = f
  /\ pc' = "fill"
  /\ UNCHANGED <<window, stream, output, batch_start, slot_complete, stats,
                 now, index, bc_idx, hints>>

\* Mutant: FEC is tried although streaming has passed the pushed shred.
AfterStreaming_always(cursor) == IF pc = "stream" THEN "fill" ELSE "flush"

\* push_data tries FEC only if streaming has not passed the pushed shred; the
\* second round of streaming always goes on to flush.
AfterStreaming(cursor) ==
  IF pc = "stream" /\ cursor <= index THEN "fill" ELSE "flush"

\* advance_streaming, one iteration: feed the shred at the cursor.  A decode
\* error resets the decoder and ends the loop, so does a batch boundary.
StreamShred ==
  /\ pc \in {"stream", "restream"}
  /\ streaming_cursor \in pool
  /\ LET i == streaming_cursor
         B == streaming_buffer \cup {i}
         D == IF StreamReads(B, i) THEN EndingIn({i}) ELSE {}
     IN  \E error \in BOOLEAN :
           /\ error => ~ StreamReads(B, i)
           /\ record_sig(D)
           /\ yielded_sigs' = yielded_sigs \cup D
           /\ streaming_buffer' = IF error THEN {} ELSE B
           /\ streaming_cursor' = i + 1
           /\ pc' = IF error \/ i \in Boundary THEN AfterStreaming(i + 1) ELSE pc
  /\ UNCHANGED <<window, locals, fec_sets, batch_start, slot_complete, stats, now>>

\* ... and the loop ends at a gap or at a recovered shred.
StreamBlocked ==
  /\ pc \in {"stream", "restream"}
  /\ streaming_cursor \notin pool
  /\ Goto(AfterStreaming(streaming_cursor))
  /\ UNCHANGED <<window, stream, output, fec_sets, batch_start, slot_complete,
                 stats, now>>

Fill ==
  /\ pc = "fill"
  /\ try_fec_fill(hint)
  /\ Goto(IF Inserted(hint) # {} THEN "restream" ELSE "flush")

-----------------------------------------------------------------------------
(* try_flush_batches: one step per iteration, with the FEC attempts of an  *)
(* iteration as steps of their own.                                        *)

FlushReturn ==
  /\ pc = "flush"
  /\ DOMAIN batch_complete_indices = {}
  /\ Return("idle")
  /\ UNCHANGED <<window, stream, output, fec_sets, batch_start, slot_complete,
                 stats, now>>

\* Mutant: only one batch is flushed per call.
FlushWhole_once ==
  /\ pc = "flush"
  /\ \E b \in Least(DOMAIN batch_complete_indices) :
       /\ Missing(batch_start, b) = {}
       /\ FinishWhole(b)
  /\ Return("idle")
  /\ UNCHANGED <<slot_complete, now>>

\* The first known boundary closes a batch of which everything is pending.
FlushWhole ==
  /\ pc = "flush"
  /\ \E b \in Least(DOMAIN batch_complete_indices) :
       /\ Missing(batch_start, b) = {}
       /\ FinishWhole(b)
  /\ Goto("flush")
  /\ UNCHANGED <<slot_complete, now>>

\* Mutant: a set that began before batch_start is not asked.
FlushGap_inside ==
  /\ pc = "flush"
  /\ \E b \in Least(DOMAIN batch_complete_indices) :
       /\ Missing(batch_start, b) # {}
       /\ bc_idx' = b
       /\ hints' = {f \in FecKeys : f >= batch_start /\ f <= b}
  /\ pc' = "flushfill"
  /\ UNCHANGED <<window, stream, output, fec_sets, batch_start, slot_complete,
                 stats, now, index, hint>>

\* Something is missing: ask FEC for every set that overlaps the batch.
FlushGap ==
  /\ pc = "flush"
  /\ \E b \in Least(DOMAIN batch_complete_indices) :
       /\ Missing(batch_start, b) # {}
       /\ bc_idx' = b
       /\ hints' = {f \in FecKeys : f + NumData[f] > batch_start /\ f <= b}
  /\ pc' = "flushfill"
  /\ UNCHANGED <<window, stream, output, fec_sets, batch_start, slot_complete,
                 stats, now, index, hint>>

FlushFill ==
  /\ pc = "flushfill"
  /\ \E h \in Least(hints) : try_fec_fill(h) /\ hints' = hints \ {h}
  /\ UNCHANGED <<pc, index, hint, bc_idx>>

\* The boundary chosen before the FEC attempts decides what happens next.
FlushFilled ==
  /\ pc = "flushfill"
  /\ hints = {}
  /\ Missing(batch_start, bc_idx) = {}
  /\ FinishWhole(bc_idx)
  /\ Goto("flush")
  /\ UNCHANGED <<slot_complete, now>>

\* Mutant: one overdue batch is released per call.
FlushTimeout_once ==
  /\ pc = "flushfill"
  /\ hints = {}
  /\ Missing(batch_start, bc_idx) # {}
  /\ now - batch_complete_indices[bc_idx] >= StuckTimeout
  /\ FinishBroken(bc_idx, TRUE)
  /\ Return("idle")
  /\ UNCHANGED <<slot_complete, now>>

FlushTimeout ==
  /\ pc = "flushfill"
  /\ hints = {}
  /\ Missing(batch_start, bc_idx) # {}
  /\ now - batch_complete_indices[bc_idx] >= StuckTimeout
  /\ FinishBroken(bc_idx, TRUE)
  /\ Goto("flush")
  /\ UNCHANGED <<slot_complete, now>>

\* Mutant: the loop polls the gap instead of returning.
FlushWait_spin ==
  /\ pc = "flushfill"
  /\ hints = {}
  /\ Missing(batch_start, bc_idx) # {}
  /\ now - batch_complete_indices[bc_idx] < StuckTimeout
  /\ Goto("flush")
  /\ UNCHANGED <<window, stream, output, fec_sets, batch_start, slot_complete,
                 stats, now>>

FlushWait ==
  /\ pc = "flushfill"
  /\ hints = {}
  /\ Missing(batch_start, bc_idx) # {}
  /\ now - batch_complete_indices[bc_idx] < StuckTimeout
  /\ Return("idle")
  /\ UNCHANGED <<window, stream, output, fec_sets, batch_start, slot_complete,
                 stats, now>>

-----------------------------------------------------------------------------
(* try_harvest_tail: the listener evicts the slot and drops it afterwards. *)

\* Mutant: a set that began before batch_start is not asked.
try_harvest_tail_inside ==
  /\ pc = "idle"
  /\ hints' = {f \in FecKeys : f >= batch_start}
  /\ pc' = "harvestfill"
  /\ UNCHANGED <<window, stream, output, fec_sets, batch_start, slot_complete,
                 stats, now, index, hint, bc_idx>>

try_harvest_tail ==
  /\ pc = "idle"
  /\ hints' = FecKeys
  /\ pc' = "harvestfill"
  /\ UNCHANGED <<window, stream, output, fec_sets, batch_start, slot_complete,
                 stats, now, index, hint, bc_idx>>

HarvestFill ==
  /\ pc = "harvestfill"
  /\ \E h \in Least(hints) : try_fec_fill(h) /\ hints' = hints \ {h}
  /\ UNCHANGED <<pc, index, hint, bc_idx>>

HarvestFilled ==
  /\ pc = "harvestfill"
  /\ hints = {}
  /\ Goto("harvest")
  /\ UNCHANGED <<window, stream, output, fec_sets, batch_start, slot_complete,
                 stats, now>>

HarvestBatch ==
  /\ pc = "harvest"
  /\ \E b \in Least(pending \cap Boundary) :
       IF Missing(batch_start, b) = {} THEN FinishWhole(b)
                                       ELSE FinishBroken(b, FALSE)
  /\ UNCHANGED <<pc, locals, slot_complete, now>>

HarvestTail ==
  /\ pc = "harvest"
  /\ pending \cap Boundary = {}
  /\ LET D == salvage_contiguous_runs_in(batch_start, LastIdx)
     IN  record_sig(D) /\ yielded_sigs' = yielded_sigs \cup D
  /\ Return("retired")
  /\ UNCHANGED <<window, stream, fec_sets, batch_start, slot_complete, stats, now>>

-----------------------------------------------------------------------------
\* Time passes, also while a call runs.
Tick ==
  /\ now < MaxTime
  /\ pc # "retired"
  /\ now' = now + 1
  /\ UNCHANGED <<window, stream, output, locals, fec_sets, batch_start,
                 slot_complete, stats, pc>>

\* The steps of a running call.
Step ==
  \/ KnownReturn \/ StreamShred \/ StreamBlocked \/ Fill
  \/ FlushReturn \/ FlushWhole \/ FlushGap \/ FlushFill
  \/ FlushFilled \/ FlushTimeout \/ FlushWait
  \/ HarvestFill \/ HarvestFilled \/ HarvestBatch \/ HarvestTail

\* What the listener does to the accumulator, in any order and any number of
\* times: every loss, repetition and reordering of the feed.
Call ==
  \/ push_last
  \/ \E i \in DataIdx : push_data(i) \/ push_known(i)
  \/ \E f \in FecIds : \E p \in Positions(f) : push_code(f, p)
  \/ try_harvest_tail

Next == Step \/ Call \/ Tick

Spec == Init /\ [][Next]_vars

\* A call, once made, is executed: the accumulator runs on the caller's thread.
FairSpec == Spec /\ WF_vars(Step)

\* A feed that loses nothing for good: every data shred that is still wanted
\* is pushed at some time, after any repetition and in any order.
LosslessSpec == FairSpec /\ \A i \in DataIdx : SF_vars(push_data(i))

-----------------------------------------------------------------------------
(* Properties.                                                             *)

\* No call is running that could change anything.
Settled == pc \in {"idle", "known"}

\* Shreds of the current batch the streaming decoder has been fed.
Streamed == batch_start .. (streaming_cursor - 1)

\* lo .. b is one batch of the slot.
IsBatch(lo, b) == StartsBatch(lo) /\ b \in Boundary /\ lo <= b /\ SameBatch(lo, b)

\* The streaming cursor never falls behind batch_start (the debug_assert of
\* advance_streaming), and the streaming decoder only ever holds shreds of
\* the batch being assembled, never bytes of two batches.
DecoderInStep ==
  /\ batch_start <= streaming_cursor
  /\ streaming_buffer \subseteq Streamed
  /\ SameBatch(batch_start, streaming_cursor - 1)

\* Whatever order the shreds came in, a call does not return (try_flush_batches
\* does not leave its loop) while a batch that was received whole is waiting.
NoBatchWaits ==
  Settled => \A b \in Boundary : b >= batch_start => ~ (batch_start .. b \subseteq pool)

\* When a call has returned, a gap before the first known boundary is one that
\* no buffered FEC set can fill: try_flush_batches has tried every set that
\* overlaps the batch, the ones that began before it included.
NoRecoverableGap ==
  Settled =>
    \A b \in Least(DOMAIN batch_complete_indices), f \in FecIds \ Unbuildable :
      can_recover_with(f) => Missing(batch_start, b) \cap FecRange(f) = {}

\* The harvest decodes with nothing left to recover: what push_data left out
\* because streaming had passed the pushed shred and no boundary was known is
\* rebuilt now, in whatever order the sets are tried.
HarvestRecoversAll ==
  pc = "harvest" =>
    \A f \in FecIds \ Unbuildable :
      can_recover_with(f) =>
        \A i \in FecRange(f) \ pending : i < batch_start \/ i = LastIdx

\* No call that flushes returns while the batch at the head is overdue: after
\* stuck_batch_timeout the next shred of the slot that is new, the last one, or
\* a coding shred releases it, and every overdue batch behind it as well.  Only
\* push_data of a shred that is pending or passed returns before it gets to
\* try_flush_batches, and leaves an overdue batch where it is.
NoOverdueBatch ==
  [][(~ Settled /\ pc' = "idle") =>
       \A b \in Least(DOMAIN batch_complete_indices') :
         now' - batch_complete_indices'[b] < StuckTimeout]_vars

\* Each transaction is returned at most once, in ledger order: streaming, the
\* decode of a whole batch, salvage and tail harvest never hand over the same
\* transaction twice although yielded_sigs is cleared with every batch.
Abs == INSTANCE OrderedDelivery WITH Position <- EndsIn

ImplementsOrderedDelivery == Abs!Spec

\* The batches this step closes are handed over if they are pending as a whole
\* and readable.
BatchDelivered ==
  \A lo, b \in batch_start .. (batch_start' - 1) :
    (IsBatch(lo, b) /\ lo .. b \subseteq pending \ Garbled) =>
      \A t \in EndingIn(lo .. b) : delivered'[t] = 1

\* A batch that is pending as a whole and readable is handed over before
\* complete_batch forgets its shreds, also when it lies behind a gap.
CompleteBatchDelivered == [][BatchDelivered]_vars

\* The boundary chosen by the running iteration is no longer the first one: FEC
\* has recovered an earlier one since.
StaleChoice == pc = "flushfill" /\ bc_idx \notin Least(DOMAIN batch_complete_indices)

\* A step that drops a batch it could have handed over is one of
\* try_flush_batches at a stale choice: nothing else loses whole batches.
LostByStaleChoiceOnly == [][StaleChoice \/ BatchDelivered]_vars

\* batches_decoded_streaming counts only batches of which streaming missed
\* nothing: all their transactions had been handed over already.  The exception
\* is a batch whose count arrived garbled as zero: it decodes as an empty Vec,
\* in which nothing is new either.
StreamingCountHonest ==
  [][stats'.streaming > stats.streaming =>
       \/ batch_start \in ZeroCounts
       \/ \A t \in EndingIn(batch_start .. (batch_start' - 1)) : delivered[t] = 1]_vars

\* try_flush_batches and the FEC loops end: every call returns.
CallsReturn == (pc \notin {"idle", "retired"}) ~> (pc \in {"idle", "retired"})

\* try_flush_batches is about to force-finalize lo .. b, of which something is
\* missing, because the boundary it waits at has been known for too long.
GivenUp(lo, b) ==
  /\ pc = "flushfill" /\ hints = {}
  /\ batch_start <= lo /\ b <= bc_idx
  /\ Missing(lo, b) # {}
  /\ now - batch_complete_indices[bc_idx] >= StuckTimeout

\* On a feed that loses nothing, every readable batch is handed over in the
\* end, in whatever order and however often its shreds arrive, unless the
\* listener evicts the slot before, or one of its shreds is so late that the
\* batch is force-finalized without it.
EveryBatchDelivered ==
  \A lo, b \in DataIdx :
    (IsBatch(lo, b) /\ lo .. b \cap Garbled = {}) =>
      <>(\/ pc = "retired" \/ GivenUp(lo, b)
         \/ \A t \in EndingIn(lo .. b) : delivered[t] = 1)

-----------------------------------------------------------------------------
(* The inductive invariant behind DecoderInStep, NoBatchWaits and          *)
(* ImplementsOrderedDelivery.                                              *)

\* What is pending lies in the window behind batch_start, is either received
\* or recovered, and its boundaries are exactly the known ones.
WindowInv ==
  /\ StartsBatch(batch_start)
  /\ pending \subseteq batch_start .. (LastIdx - 1)
  /\ pool \cap recovered = {}
  /\ DOMAIN batch_complete_indices = Boundary \cap pending
  /\ pc = "flushfill" => bc_idx \in Boundary \cap pending

\* Everything behind the cursor was received, and streaming crosses a boundary
\* only to have the batch flushed next.
CursorInv ==
  /\ batch_start <= streaming_cursor
  /\ Streamed \subseteq pool
  /\ SameBatch(batch_start, streaming_cursor - 1)
  /\ (pc # "flush" /\ batch_start < streaming_cursor) => streaming_cursor - 1 \notin Boundary

\* Boundaries that close a batch received whole.
Whole == {b \in Boundary : b >= batch_start /\ batch_start .. b \subseteq pool}

\* Only the shred pushed by the running call can have made a batch whole.
FlushedInv ==
  /\ Settled \/ pc = "flushfill" => Whole = {}
  /\ pc = "stream" => \A b \in Whole : index <= b

\* Until a garbled shred is met, the streaming decoder holds all of Streamed
\* and has yielded everything that ends there.
DecoderInv ==
  /\ streaming_buffer \subseteq Streamed
  /\ Streamed \cap Garbled = {} => streaming_buffer = Streamed
  /\ pc # "retired" => \A t \in yielded_sigs : EndsIn[t] \in Streamed
  /\ \A t \in EndingIn(Streamed) :
        (batch_start .. EndsIn[t]) \cap Garbled = {} => t \in yielded_sigs

\* In the batch being assembled, handed over means yielded.
DeliveredInv ==
  /\ \A t \in Txs : delivered[t] \in {0, 1}
  /\ \A t \in yielded_sigs : delivered[t] = 1
  /\ \A t \in Txs : (delivered[t] = 1 /\ batch_start <= EndsIn[t]) => t \in yielded_sigs

\* The inductive invariant of the accumulator: window, cursor, flushing,
\* decoder and delivery agree on where the current batch stands.
IInv == TypeOK /\ WindowInv /\ CursorInv /\ FlushedInv /\ DecoderInv /\ DeliveredInv

-----------------------------------------------------------------------------
(* What is added to IInv for NoOverdueBatch, NoRecoverableGap and          *)
(* HarvestRecoversAll.                                                     *)

\* No boundary was seen in the future, and one that FEC recovers before the
\* chosen boundary was seen after it, so it is overdue no sooner.
TimeInv ==
  /\ \A b \in DOMAIN batch_complete_indices : batch_complete_indices[b] <= now
  /\ pc = "flushfill" =>
       \A b \in DOMAIN batch_complete_indices :
         b < bc_idx => batch_complete_indices[bc_idx] <= batch_complete_indices[b]

\* Only coding shreds that the feed sends are buffered.
BufferedInv == \A f \in FecIds : fec_sets[f] \subseteq Positions(f)

\* FEC can add nothing of S to what is pending of the set f.
Spent(f, S) == can_recover_with(f) => S \cap FecRange(f) \subseteq pending

\* What try_harvest_tail can still use.
Wanted == (batch_start .. LastIdx) \ {LastIdx}

\* The sets a FEC loop has behind it, or never had to try, are spent, and stay
\* so while the others are tried: a set takes nothing from another.
SpentInv ==
  /\ NoRecoverableGap
  /\ pc = "flushfill" =>
       \A f \in FecIds \ (Unbuildable \cup hints) : Spent(f, batch_start .. bc_idx)
  /\ pc = "harvestfill" => \A f \in FecIds \ (Unbuildable \cup hints) : Spent(f, Wanted)
  /\ pc = "harvest" => \A f \in FecIds \ Unbuildable : Spent(f, Wanted)

\* With IInv, inductive.
RecoveryInv == TimeInv /\ BufferedInv /\ SpentInv

-----------------------------------------------------------------------------
\* README: max_fec_sets_per_slot is the "Per-slot FEC buffer cap".
FecBufferCapped == Cardinality(FecKeys) <= MaxFecSets
=============================================================================
