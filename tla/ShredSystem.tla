---------------------------- MODULE ShredSystem ----------------------------
(***************************************************************************)
(* The listener with a real accumulator inside: ShredListener as it is,    *)
(* except that what happens to the accumulator of the slot Focus is not    *)
(* chosen freely but is what SlotAccumulator does.  The other slots stay   *)
(* as abstract as they are in ShredListener: they compete with Focus for   *)
(* buffers and push it out of the window.                                  *)
(*                                                                         *)
(* The listener's call and the accumulator's run on one thread: while a    *)
(* call into the accumulator runs (call # "none") the listener stands      *)
(* still, and what the call returned is handed on when it returns.         *)
(***************************************************************************)
EXTENDS Integers, Sequences, FiniteSets

CONSTANTS
  MaxSlot, MAX_PLAUSIBLE_SLOT, MAX_SLOT_JUMP_FORWARD, MAX_BOOTSTRAP_SLOT,
  BLACKLIST_EXTRA_SLOTS, COMPLETED_RETENTION_SLOTS, max_age, enable_fec,
  disable_salvage_delivery, Buffers, MaxPending,
  LastIdx, Boundary, BatchEnds, Txs, EndsIn, Garbled, ZeroCounts, ZeroTails, FecIds,
  NumData, NumCoding, Unbuildable, MaxFecSets, StuckTimeout, MaxTime,
  Focus,           \* the slot whose accumulator is modelled in full
  MaxOpen          \* bound of the model: how often Focus may be opened

VARIABLES
  \* ShredListener
  slots, recently_seen_slots, pending_batches, last_slot, free, handle, lpc,
  cont, packet, to_evict, closed, harvested, handed,
  \* SlotAccumulator, for Focus
  pool, recovered, fec_sets, batch_complete_indices, streaming_cursor,
  streaming_buffer, yielded_sigs, batch_start, slot_complete, stats, delivered,
  now, pc, index, hint, bc_idx, hints,
  \* between them
  call,            \* the call into the accumulator that is running
  base,            \* delivered when that call was made
  source,          \* PayloadSource::Pool: the buffer of each pooled shred
  rolled,          \* what rollup_accumulator has added to the listener's totals
  tails,           \* the batches of Focus in pending_batches
  \* history
  received,        \* [Txs -> Nat]: what the consumer got, over all of Focus
  opened           \* how often Focus was opened

\* The two components, with what is proved of them.
L == INSTANCE ShredListenerProofs WITH pc <- lpc
A == INSTANCE SlotAccumulatorProofs

ASSUME SystemAssumption ==
  /\ L!ListenerAssumption
  /\ A!LedgerAssumption /\ A!FecAssumption /\ A!BatchAssumption /\ A!ZeroAssumption
  /\ A!ConfigAssumption
  /\ Focus \in L!Slot

listener    == <<slots, recently_seen_slots, pending_batches, last_slot, free, handle, lpc,
                 cont, packet, to_evict, closed, harvested, handed>>
accumulator == <<pool, recovered, fec_sets, batch_complete_indices, streaming_cursor,
                 streaming_buffer, yielded_sigs, batch_start, slot_complete, stats,
                 delivered, now, pc, index, hint, bc_idx, hints>>
between     == <<call, base, source, rolled, tails, received, opened>>
vars        == <<listener, accumulator, between>>

live == DOMAIN slots

Counters == {"streaming", "fallback", "skipped", "timeout"}

Nothing == [t \in Txs |-> 0]

Init ==
  /\ L!Init
  /\ A!Init
  /\ call = "none"
  /\ base = Nothing
  /\ source = [i \in {} |-> 0]
  /\ rolled = [k \in Counters |-> 0]
  /\ tails = <<>>
  /\ received = Nothing
  /\ opened = 0

\* What the running call has returned so far.
Returned == [t \in Txs |-> delivered[t] - base[t]]

Plus(f, g) == [t \in Txs |-> f[t] + g[t]]

-----------------------------------------------------------------------------
(* Steps of the listener that do not reach into the accumulator of Focus.  *)

Admit(s, kind) ==
  /\ call = "none"
  /\ s = Focus /\ s \notin live => opened < MaxOpen
  /\ L!Admit(s, kind)
  /\ UNCHANGED <<accumulator, between>>

ListenerStep ==
  /\ call = "none"
  /\ \/ \E s \in L!Slot \ {Focus}, tail \in BOOLEAN :
          L!EvictSlot(s, tail) \/ L!force_evict_oldest_slot(s, tail)
     \/ L!EvictDone \/ L!Reacquire \/ L!Exhausted \/ L!Discard
     \/ /\ packet.slot # Focus
        /\ \E held \in SUBSET Buffers, complete \in BOOLEAN : L!Push(held, complete)
  /\ UNCHANGED <<accumulator, between>>

\* The consumer takes a harvested batch of Focus, or of another slot.
TakePending ==
  /\ L!TakePending
  /\ IF Head(pending_batches) = Focus
       THEN received' = Plus(received, Head(tails)) /\ tails' = Tail(tails)
       ELSE UNCHANGED <<received, tails>>
  /\ UNCHANGED <<accumulator, call, base, source, rolled, opened>>

recv_one ==
  \/ TakePending
  \/ /\ pending_batches = <<>>
     /\ L!acquire_buffer_with_fallback
     /\ UNCHANGED <<accumulator, between>>

handle_packet == L!handle_packet /\ UNCHANGED <<accumulator, between>>

-----------------------------------------------------------------------------
(* A shred of Focus is pushed.                                             *)

AtPush(kind) == call = "none" /\ lpc = "push" /\ packet = [slot |-> Focus, kind |-> kind]

CallStarts(name) ==
  /\ call' = name
  /\ base' = delivered
  /\ UNCHANGED <<listener, source, rolled, tails, received, opened>>

PushData(i) ==
  /\ AtPush("data")
  /\ IF i = LastIdx THEN A!push_last ELSE A!push_data(i) \/ A!push_known(i)
  /\ CallStarts("push")

PushCode ==
  /\ AtPush("code")
  /\ \E f \in FecIds : \E p \in A!Positions(f) : A!push_code(f, p)
  /\ CallStarts("push")

\* The buffers of the shreds f.
Held(f) == {f[i] : i \in DOMAIN f}

\* Mutant: the buffer of the packet goes back to the pool and stays in use.
Settle_released(f) ==
  /\ source' = f
  /\ slots' = [r \in live \cup {Focus} |->
                 IF r = Focus THEN [complete |-> slot_complete, held |-> Held(f)] ELSE slots[r]]
  /\ free' = free \cup handle \cup (Held(source) \ Held(f))
  /\ L!Return
  /\ UNCHANGED <<recently_seen_slots, pending_batches, last_slot, closed, harvested, handed>>

\* handle_packet_owned returns with the pooled shreds f: the accumulator is one
\* of the live slots, and every buffer that no shred keeps, the packet's own
\* among them, has been dropped and is back in the pool.
Settle(f) ==
  /\ source' = f
  /\ slots' = [r \in live \cup {Focus} |->
                 IF r = Focus THEN [complete |-> slot_complete, held |-> Held(f)] ELSE slots[r]]
  /\ free' = free \cup ((Held(source) \cup handle) \ Held(f))
  /\ L!Return
  /\ UNCHANGED <<recently_seen_slots, pending_batches, last_slot, closed, harvested, handed>>

\* The buffer that came with the packet is kept by a shred that is new in the
\* window; every other shred keeps the buffer it has.
Sources == [i \in pool |-> IF i \in DOMAIN source THEN source[i] ELSE CHOOSE b \in handle : TRUE]

\* The call returns its transactions to the consumer.
PushReturns ==
  /\ call = "push" /\ pc = "idle"
  /\ Settle(Sources)
  /\ received' = Plus(received, Returned)
  /\ opened' = IF Focus \in live THEN opened ELSE opened + 1
  /\ call' = "none" /\ base' = Nothing
  /\ UNCHANGED <<accumulator, rolled, tails>>

-----------------------------------------------------------------------------
(* Focus is given up.                                                      *)

StartHarvest ==
  /\ call = "none"
  /\ \/ lpc = "evict" /\ Focus \in to_evict
     \/ lpc = "reacquire" /\ free = {} /\ L!oldest(Focus)
  /\ A!try_harvest_tail
  /\ CallStarts("harvest")

\* Mutant: a slot evicted for its buffers is not rolled up.
rollup_accumulator_aged ==
  rolled' = [k \in Counters |-> rolled[k] + IF lpc = "evict" THEN stats[k] ELSE 0]

rollup_accumulator == rolled' = [k \in Counters |-> rolled[k] + stats[k]]

\* The next time the slot is opened it gets a new accumulator.
with_config ==
  /\ pool' = {} /\ recovered' = {}
  /\ fec_sets' = [f \in FecIds |-> {}]
  /\ batch_complete_indices' = [b \in {} |-> 0]
  /\ streaming_cursor' = 0 /\ streaming_buffer' = {} /\ yielded_sigs' = {}
  /\ batch_start' = 0 /\ slot_complete' = FALSE
  /\ stats' = [streaming |-> 0, fallback |-> 0, skipped |-> 0, timeout |-> 0]
  /\ delivered' = Nothing
  /\ pc' = "idle" /\ index' = 0 /\ hint' = 0 /\ bc_idx' = 0 /\ hints' = {}
  /\ UNCHANGED now

\* The tail is queued for the consumer, the counters are rolled up, and the
\* accumulator is dropped.
HarvestReturns ==
  /\ call = "harvest" /\ pc = "retired"
  /\ LET tail == Returned # Nothing
     IN  /\ L!EvictSlot(Focus, tail) \/ L!force_evict_oldest_slot(Focus, tail)
         /\ tails' = IF tail /\ ~ disable_salvage_delivery
                       THEN Append(tails, Returned) ELSE tails
  /\ rollup_accumulator
  /\ with_config
  /\ source' = [i \in {} |-> 0]
  /\ call' = "none" /\ base' = Nothing
  /\ UNCHANGED <<received, opened>>

-----------------------------------------------------------------------------
AccumulatorStep ==
  /\ call # "none"
  /\ A!Step
  /\ UNCHANGED <<listener, between>>

Tick == A!Tick /\ UNCHANGED <<listener, between>>

Step ==
  \/ ListenerStep
  \/ \E s \in L!Slot, kind \in {"data", "code"} : Admit(s, kind)
  \/ AccumulatorStep
  \/ \E i \in A!DataIdx : PushData(i)
  \/ PushCode \/ PushReturns
  \/ StartHarvest \/ HarvestReturns

Next == Step \/ recv_one \/ handle_packet \/ Tick

Spec == Init /\ [][Next]_vars

\* As in ShredListener: calls run to their end, and the consumer iterates.
FairSpec == Spec /\ WF_vars(Step) /\ SF_vars(recv_one)

\* A feed that keeps sending the data shreds of Focus until they have arrived;
\* the last one closes no batch and may be lost.
LosslessSpec ==
  /\ FairSpec
  /\ SF_vars(Admit(Focus, "data"))
  /\ \A i \in A!DataIdx \ {LastIdx} : SF_vars(PushData(i))

-----------------------------------------------------------------------------
(* Properties.                                                             *)

\* The accumulator of Focus does to the listener's buffers, its slot_complete
\* flag and the call's handle only what ShredListener allows any accumulator
\* to do, so what is shown there holds with the real one inside.
ImplementsListener == L!Spec

\* Over the life of the listener (pushes, evictions, the queue of harvested
\* batches, a slot opened again) a transaction of the slot reaches the
\* consumer at most once and after everything it got before, unless the slot
\* lies below the blacklist floor and its first life is forgotten.
ReceivedInOrder ==
  [][\A t \in Txs :
       received'[t] > received[t] =>
         \/ Focus < L!blacklist_floor
         \/ received'[t] = 1 /\ \A u \in Txs : received[u] > 0 => EndsIn[u] < EndsIn[t]]_vars

\* What an accumulator hands over reaches the consumer: as the answer to a
\* push, or through the queue when it was harvested.
NothingLostOnTheWay == \A t \in Txs : (delivered[t] > 0) ~> (received[t] > 0)


\* A public total: rolled up plus live.
Total(k) == rolled[k] + stats[k]

\* A total moves only while a call into the accumulator runs, and only up: when
\* a slot ends, by age or for its buffers, its counts are neither lost nor
\* counted twice.
TotalsCountOnce ==
  [][\A k \in Counters :
       Total(k)' = Total(k) \/ (Total(k)' > Total(k) /\ call # "none" /\ call' = call)]_vars

-----------------------------------------------------------------------------
(* The inductive invariant behind ImplementsListener, ReceivedInOrder and  *)
(* TotalsCountOnce.                                                        *)

\* The listener waits where the call was made until it returns.
CallInv ==
  /\ call \in {"none", "push", "harvest"}
  /\ call = "none" => pc = "idle"
  /\ call = "push" => /\ lpc = "push" /\ packet.slot = Focus
                      /\ pc \notin {"harvestfill", "harvest", "retired"}
  /\ call = "harvest" => /\ lpc \in {"evict", "reacquire"} /\ Focus \in live
                         /\ pc \in {"harvestfill", "harvest", "retired"}

\* Every pooled shred has a buffer of its own, all but the one being pushed;
\* together they are what the listener thinks the accumulator holds.
SourceInv ==
  /\ source \in [DOMAIN source -> Buffers]
  /\ \A i, j \in DOMAIN source : source[i] = source[j] => i = j
  /\ L!AccumulatorOf(Focus).held = Held(source)
  /\ call = "none" => pool = DOMAIN source
  /\ \A i, j \in pool \ DOMAIN source : i = j /\ call = "push" /\ packet.kind = "data"

\* The listener looks at slot_complete between calls only; it is never unset.
FlagInv ==
  /\ L!AccumulatorOf(Focus).complete => slot_complete
  /\ call = "none" => L!AccumulatorOf(Focus).complete = slot_complete

\* t lies behind everything f contains.
Behind(t, f) == \A u \in Txs : f[u] > 0 => EndsIn[u] < EndsIn[t]

\* What the running call returns is new and lies behind what was there.
ReturnInv ==
  /\ base \in [Txs -> {0, 1}]
  /\ call # "none" =>
       \A t \in Txs : base[t] = delivered[t] \/ (base[t] = 0 /\ delivered[t] = 1 /\ Behind(t, base))

\* No batch of Focus is in the queue.
Absent == \A n \in 1 .. Len(pending_batches) : pending_batches[n] # Focus

\* The harvested tail of Focus waits at one place of the queue, and what it
\* contains is new to the consumer; or it has been taken, or there was none.
Queued ==
  \/ tails = <<>> /\ Absent
  \/ /\ \E tail \in [Txs -> {0, 1}] :
          /\ tails = <<tail>>
          /\ \A t \in Txs : tail[t] = 1 => received[t] = 0 /\ Behind(t, received)
     /\ \E n \in 1 .. Len(pending_batches) :
          \A m \in 1 .. Len(pending_batches) : pending_batches[m] = Focus <=> m = n

\* As long as the slot is remembered: while it has not been given up the
\* consumer has all the accumulator has handed over; once it has been given
\* up it is not live again, and what remains is in the queue.
ReceivedInv ==
  Focus >= L!blacklist_floor =>
    /\ received \in [Txs -> {0, 1}]
    /\ Focus \in closed => Focus \notin live /\ Queued
    /\ Focus \notin closed =>
         /\ tails = <<>> /\ Absent
         /\ received = IF call = "none" THEN delivered ELSE base

RolledInv == rolled \in [Counters -> Nat]

\* The inductive invariant of the system: those of the two components, and
\* what ties them together.
SystemInv ==
  /\ L!IInv /\ A!IInv
  /\ CallInv /\ SourceInv /\ FlagInv /\ ReturnInv /\ ReceivedInv /\ RolledInv
=============================================================================
