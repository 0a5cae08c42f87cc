------------------------- MODULE ShredSystemProofs -------------------------
(***************************************************************************)
(* Proofs about ShredSystem: with a real accumulator inside, the listener  *)
(* still does only what ShredListener allows, and what the consumer        *)
(* receives of a slot over its whole life is in order.  They use what is   *)
(* proved of the two components and hold for every setting of both.        *)
(***************************************************************************)
EXTENDS ShredSystem, TLAPS

-----------------------------------------------------------------------------
(* The buffers of a push.                                                  *)

\* The buffer in the hands of a call is not one of the accumulator of Focus.
LEMMA HandleIsNew ==
  ASSUME SystemInv
  PROVE  Held(source) \cap (free \cup handle) = {}
<1>1. CASE Focus \in live
  <2>1. L!AccumulatorOf(Focus) = slots[Focus]
    BY <1>1 DEF L!AccumulatorOf, L!live, live
  <2> QED BY <1>1, <2>1 DEF SystemInv, SourceInv, L!IInv, L!BuffersConserved, L!live, live
<1>2. CASE Focus \notin live
  <2>1. L!AccumulatorOf(Focus).held = {}
    BY <1>2 DEF L!AccumulatorOf, L!live, live
  <2> QED BY <2>1 DEF SystemInv, SourceInv
<1> QED BY <1>1, <1>2

\* When a push returns, each pooled shred has a buffer of its own, taken from
\* what the accumulator held and, for a data shred, the packet's buffer.
LEMMA SourcesDistinct ==
  ASSUME SystemInv, call = "push"
  PROVE  /\ Sources \in [pool -> Buffers]
         /\ \A i, j \in pool : Sources[i] = Sources[j] => i = j
         /\ Held(Sources) \subseteq IF packet.kind = "data" THEN Held(source) \cup handle
                                                           ELSE Held(source)
<1>1. PICK b \in Buffers : handle = {b}
  BY DEF SystemInv, CallInv, L!IInv, L!CallInv, L!Admitted
<1>2. Sources = [i \in pool |-> IF i \in DOMAIN source THEN source[i] ELSE b]
  BY <1>1 DEF Sources
<1>3. b \notin Held(source)
  BY <1>1, HandleIsNew
<1>4. /\ source \in [DOMAIN source -> Buffers]
      /\ \A i, j \in DOMAIN source : source[i] = source[j] => i = j
      /\ \A i, j \in pool \ DOMAIN source : i = j /\ packet.kind = "data"
  BY DEF SystemInv, SourceInv
<1>5. Sources \in [pool -> Buffers]
  BY <1>1, <1>2, <1>4
<1>6. \A i, j \in pool : Sources[i] = Sources[j] => i = j
  BY <1>2, <1>3, <1>4 DEF Held
<1>7. ASSUME NEW x \in Held(Sources)
      PROVE  x \in IF packet.kind = "data" THEN Held(source) \cup handle ELSE Held(source)
  BY <1>1, <1>2, <1>4, <1>7 DEF Held
<1> QED BY <1>5, <1>6, <1>7

\* What handle_packet_owned leaves behind is one of the outcomes ShredListener
\* allows for a push.
LEMMA SettleIsPush ==
  ASSUME SystemInv, lpc = "push", packet.slot = Focus, NEW f, Settle(f),
         Held(f) \subseteq IF packet.kind = "data" THEN Held(source) \cup handle ELSE Held(source)
  PROVE  L!Push(Held(f), slot_complete)
<1>1. /\ L!AccumulatorOf(Focus).held = Held(source)
      /\ L!AccumulatorOf(Focus).complete => slot_complete
  BY DEF SystemInv, SourceInv, FlagInv
<1> QED BY <1>1 DEF Settle, L!Push, L!live, live, L!history

LEMMA ReturnsIsPush ==
  ASSUME SystemInv, PushReturns
  PROVE  L!Push(Held(Sources), slot_complete)
<1>1. call = "push" /\ Settle(Sources) /\ lpc = "push" /\ packet.slot = Focus
  BY DEF PushReturns, SystemInv, CallInv
<1> QED BY <1>1, SourcesDistinct, SettleIsPush

-----------------------------------------------------------------------------
(* Each component makes its own steps.                                     *)

\* Every step of the system is one of ShredListener or leaves it alone.
LEMMA ListenerMoves ==
  ASSUME SystemInv, [Next]_vars
  PROVE  [L!Next]_(L!vars)
<1>1. UNCHANGED listener => UNCHANGED L!vars
  BY DEF listener, L!vars, L!frame, L!history
<1>2. slot_complete \in BOOLEAN
  BY DEF SystemInv, A!IInv, A!TypeOK
<1>3. CASE ListenerStep
  <2>1. \/ \E s \in L!Slot, tail \in BOOLEAN :
             L!EvictSlot(s, tail) \/ L!force_evict_oldest_slot(s, tail)
        \/ L!EvictDone \/ L!Reacquire \/ L!Exhausted \/ L!Discard
        \/ \E held \in SUBSET Buffers, complete \in BOOLEAN : L!Push(held, complete)
    BY <1>3 DEF ListenerStep
  <2> QED BY <2>1 DEF L!Next, L!Step
<1>4. CASE \E s \in L!Slot, kind \in {"data", "code"} : Admit(s, kind)
  BY <1>4 DEF Admit, L!Next, L!Step
<1>5. CASE AccumulatorStep \/ (\E i \in A!DataIdx : PushData(i)) \/ PushCode \/ StartHarvest \/ Tick
  BY <1>5, <1>1 DEF AccumulatorStep, PushData, PushCode, StartHarvest, Tick, CallStarts
<1>7. CASE PushReturns
  <2>1. L!Push(Held(Sources), slot_complete)
    BY <1>7, ReturnsIsPush
  <2>2. Held(Sources) \in SUBSET Buffers
    BY <1>7, SourcesDistinct DEF PushReturns, Held
  <2> QED BY <2>1, <2>2, <1>2 DEF L!Next, L!Step
<1>8. CASE HarvestReturns
  <2>1. \E tail \in BOOLEAN : L!EvictSlot(Focus, tail) \/ L!force_evict_oldest_slot(Focus, tail)
    BY <1>8 DEF HarvestReturns
  <2>2. Focus \in L!Slot
    BY SystemAssumption
  <2> QED BY <2>1, <2>2 DEF L!Next, L!Step
<1>9. CASE recv_one \/ handle_packet
  <2>1. CASE TakePending
    BY <2>1 DEF TakePending, L!Next, L!recv_one
  <2>2. CASE pending_batches = <<>> /\ L!acquire_buffer_with_fallback
    BY <2>2 DEF L!Next, L!recv_one
  <2>3. CASE handle_packet
    BY <2>3 DEF handle_packet, L!Next
  <2> QED BY <1>9, <2>1, <2>2, <2>3 DEF recv_one
<1>10. CASE UNCHANGED vars
  BY <1>10, <1>1 DEF vars
<1> QED BY <1>3, <1>4, <1>5, <1>7, <1>8, <1>9, <1>10 DEF Next, Step

\* The accumulator of Focus makes one of its own steps, or none, or it has been
\* replaced by a new one.
LEMMA AccumulatorMoves ==
  ASSUME SystemInv, [Next]_vars
  PROVE  [A!Next]_(A!vars) \/ (A!with_config' /\ UNCHANGED now)
<1>1. UNCHANGED accumulator => UNCHANGED A!vars
  BY DEF accumulator, A!vars, A!window, A!stream, A!output, A!locals
<1>2. CASE ListenerStep \/ (\E s \in L!Slot, kind \in {"data", "code"} : Admit(s, kind))
             \/ PushReturns \/ recv_one \/ handle_packet \/ UNCHANGED vars
  BY <1>2, <1>1 DEF ListenerStep, Admit, PushReturns, recv_one, TakePending,
                    handle_packet, vars
<1>3. CASE AccumulatorStep \/ Tick
  BY <1>3 DEF AccumulatorStep, Tick, A!Next
<1>4. CASE \E i \in A!DataIdx : PushData(i)
  <2>1. A!push_last \/ \E i \in A!DataIdx : A!push_data(i) \/ A!push_known(i)
    BY <1>4 DEF PushData
  <2> QED BY <2>1 DEF A!Next, A!Call
<1>5. CASE PushCode \/ StartHarvest
  <2>1. (\E f \in FecIds : \E p \in A!Positions(f) : A!push_code(f, p)) \/ A!try_harvest_tail
    BY <1>5 DEF PushCode, StartHarvest
  <2> QED BY <2>1 DEF A!Next, A!Call
<1>6. CASE HarvestReturns
  BY <1>6 DEF HarvestReturns, with_config, Nothing, A!with_config
<1> QED BY <1>2, <1>3, <1>4, <1>5, <1>6 DEF Next, Step

\* A new accumulator satisfies its invariant, also in the next state.
LEMMA NewAccumulator == (A!with_config /\ now \in Nat => A!IInv)'
<1>1. A!with_config /\ now \in Nat => A!IInv
  BY SystemAssumption, A!NewEstablishes
<1> QED BY <1>1, PTL

\* Both keep their invariants.
LEMMA ComponentsKeep ==
  ASSUME SystemInv, [Next]_vars
  PROVE  L!IInv' /\ A!IInv'
<1>1. L!IInv /\ A!IInv
  BY DEF SystemInv
<1>2. L!IInv'
  BY <1>1, ListenerMoves, L!NextPreserves, SystemAssumption
<1>3. CASE [A!Next]_(A!vars)
  BY <1>1, <1>2, <1>3, A!NextPreserves, SystemAssumption
<1>4. CASE A!with_config' /\ UNCHANGED now
  <2>1. now \in Nat
    BY <1>1 DEF A!IInv, A!TypeOK
  <2> QED BY <1>2, <1>4, <2>1, NewAccumulator
<1> QED BY <1>2, <1>3, <1>4, AccumulatorMoves

-----------------------------------------------------------------------------
(* Steps of the listener that do not concern the accumulator of Focus.     *)

\* While a call into the accumulator runs, no other call begins.
LEMMA IdleMeansNone == SystemInv /\ lpc = "idle" => call = "none"
BY DEF SystemInv, CallInv

\* The queue loses nothing of Focus but what the consumer takes, and what it
\* takes is new: the part of ReceivedInv that the listener's own steps touch.
LEMMA QueueKept ==
  ASSUME SystemInv, call = "none", call' = "none", UNCHANGED delivered,
         Focus >= L!blacklist_floor' => Focus >= L!blacklist_floor,
         Focus \in live' <=> Focus \in live, Focus \in closed' <=> Focus \in closed,
         \/ UNCHANGED <<pending_batches, tails, received>>
         \/ /\ \E s \in L!Slot \ {Focus} : pending_batches' = Append(pending_batches, s)
            /\ UNCHANGED <<tails, received>>
         \/ L!TakePending /\ TakePending
  PROVE  ReceivedInv'
<1> SUFFICES ASSUME Focus >= L!blacklist_floor
             PROVE  /\ received' \in [Txs -> {0, 1}]
                    /\ Focus \in closed => Focus \notin live' /\ Queued'
                    /\ Focus \notin closed => tails' = <<>> /\ Absent' /\ received' = delivered'
  BY DEF ReceivedInv
<1>1. /\ received \in [Txs -> {0, 1}]
      /\ Focus \in closed => Focus \notin live /\ Queued
      /\ Focus \notin closed => tails = <<>> /\ Absent /\ received = delivered
  BY DEF SystemInv, ReceivedInv
<1>2. pending_batches \in Seq(L!Slot)
  BY DEF SystemInv, L!IInv, L!TypeOK
<1>3. CASE UNCHANGED <<pending_batches, tails, received>>
  BY <1>1, <1>3 DEF Queued, Absent, Behind
<1>4. ASSUME NEW s \in L!Slot \ {Focus}, pending_batches' = Append(pending_batches, s),
             UNCHANGED <<tails, received>>
      PROVE  /\ received' \in [Txs -> {0, 1}]
             /\ Focus \in closed => Focus \notin live' /\ Queued'
             /\ Focus \notin closed => tails' = <<>> /\ Absent' /\ received' = delivered'
  <2>1. /\ Len(pending_batches') = Len(pending_batches) + 1
        /\ \A n \in 1 .. Len(pending_batches) : pending_batches'[n] = pending_batches[n]
        /\ pending_batches'[Len(pending_batches) + 1] # Focus
    BY <1>2, <1>4
  <2>2. Len(pending_batches) \in Nat
    BY <1>2
  <2>3. Absent => Absent'
    BY <2>1, <2>2 DEF Absent
  <2>4. ASSUME NEW n \in 1 .. Len(pending_batches),
               \A m \in 1 .. Len(pending_batches) : pending_batches[m] = Focus <=> m = n
        PROVE  \E k \in 1 .. Len(pending_batches') :
                 \A m \in 1 .. Len(pending_batches') : pending_batches'[m] = Focus <=> m = k
    <3>1. n \in 1 .. Len(pending_batches')
      BY <2>1, <2>2
    <3>2. \A m \in 1 .. Len(pending_batches') : pending_batches'[m] = Focus <=> m = n
      BY <2>1, <2>2, <2>4
    <3> QED BY <3>1, <3>2
  <2>5. Queued => Queued'
    BY <1>4, <2>3, <2>4 DEF Queued, Behind
  <2> QED BY <1>1, <1>4, <2>3, <2>5
<1>5. CASE L!TakePending /\ TakePending
  <2>1. /\ pending_batches # <<>> /\ pending_batches' = Tail(pending_batches)
        /\ IF Head(pending_batches) = Focus
             THEN received' = Plus(received, Head(tails)) /\ tails' = Tail(tails)
             ELSE UNCHANGED <<received, tails>>
    BY <1>5 DEF L!TakePending, TakePending
  <2>2. /\ Len(pending_batches) \in Nat \ {0} /\ Len(pending_batches') = Len(pending_batches) - 1
        /\ \A n \in 1 .. Len(pending_batches') : pending_batches'[n] = pending_batches[n + 1]
        /\ Head(pending_batches) = pending_batches[1]
    BY <1>2, <2>1
  <2>3. Absent => Head(pending_batches) # Focus /\ Absent'
    BY <2>2 DEF Absent
  <2>4. CASE Absent
    BY <1>1, <2>1, <2>3, <2>4 DEF Queued, Absent
  <2>5. CASE ~ Absent
    <3>1. Focus \in closed /\ Focus \notin live /\ Queued
      BY <1>1, <2>5
    <3>2. PICK tail \in [Txs -> {0, 1}] :
             /\ tails = <<tail>>
             /\ \A t \in Txs : tail[t] = 1 => received[t] = 0 /\ Behind(t, received)
      BY <2>5, <3>1 DEF Queued
    <3>3. PICK n \in 1 .. Len(pending_batches) :
             \A m \in 1 .. Len(pending_batches) : pending_batches[m] = Focus <=> m = n
      BY <2>5, <3>1 DEF Queued
    <3>4. CASE n = 1
      <4>1. Absent'
        BY <2>2, <3>3, <3>4 DEF Absent
      <4>2. received' = [t \in Txs |-> received[t] + tail[t]] /\ tails' = <<>>
        <5>1. Head(pending_batches) = Focus
          BY <2>2, <3>3, <3>4
        <5>2. Head(tails) = tail /\ Tail(tails) = <<>>
          BY <3>2
        <5> QED BY <2>1, <5>1, <5>2 DEF Plus
      <4>3. received' \in [Txs -> {0, 1}]
        <5>1. ASSUME NEW t \in Txs PROVE received[t] + tail[t] \in {0, 1}
          <6>1. received[t] \in {0, 1} /\ tail[t] \in {0, 1} /\ (tail[t] = 1 => received[t] = 0)
            BY <1>1, <3>2
          <6> QED BY <6>1
        <5> QED BY <4>2, <5>1
      <4> QED BY <3>1, <4>1, <4>2, <4>3 DEF Queued
    <3>5. CASE n # 1
      <4>1. Head(pending_batches) # Focus
        BY <2>2, <3>3, <3>5
      <4>2. n - 1 \in 1 .. Len(pending_batches')
        BY <2>2, <3>5
      <4>3. \A m \in 1 .. Len(pending_batches') : pending_batches'[m] = Focus <=> m = n - 1
        BY <2>2, <3>3, <3>5
      <4>4. UNCHANGED <<received, tails>>
        BY <2>1, <4>1
      <4>5. Queued'
        BY <3>2, <4>2, <4>3, <4>4 DEF Queued, Behind
      <4> QED BY <1>1, <3>1, <4>4, <4>5
    <3> QED BY <3>4, <3>5
  <2> QED BY <2>4, <2>5
<1> QED BY <1>3, <1>4, <1>5

\* The floor only rises: a slot that is remembered after a step was before.
LEMMA StillAbove ==
  ASSUME SystemInv, [Next]_vars
  PROVE  Focus >= L!blacklist_floor' => Focus >= L!blacklist_floor
<1>1. /\ L!blacklist_floor \in Int /\ L!blacklist_floor' \in Int
      /\ L!blacklist_floor' >= L!blacklist_floor
  BY ListenerMoves, L!FloorRises, SystemAssumption DEF SystemInv
<1>2. Focus \in Int
  BY SystemAssumption DEF L!Slot, L!ListenerAssumption
<1>3. \A a, b, c \in Int : a >= b /\ b >= c => a >= c
  OBVIOUS
<1> QED BY <1>1, <1>2, <1>3

\* What a step that leaves the accumulator of Focus alone must not change.
FocusUnchanged ==
  /\ L!AccumulatorOf(Focus)' = L!AccumulatorOf(Focus)
  /\ Focus \in live' <=> Focus \in live
  /\ Focus \in closed' <=> Focus \in closed

\* Closing another slot leaves Focus alone and may append to the queue.
LEMMA OtherClosed ==
  ASSUME NEW s \in L!Slot \ {Focus}, NEW tail \in BOOLEAN, L!close(s, tail)
  PROVE  /\ FocusUnchanged
         /\ pending_batches' = pending_batches \/ pending_batches' = Append(pending_batches, s)
<1>1. slots' = [r \in live \ {s} |-> slots[r]]
  BY DEF L!close, L!live, live
<1>2. Focus \in live' <=> Focus \in live
  BY <1>1 DEF live
<1>3. L!AccumulatorOf(Focus)' = L!AccumulatorOf(Focus)
  BY <1>1, <1>2 DEF L!AccumulatorOf, L!live, live
<1> QED BY <1>2, <1>3 DEF FocusUnchanged, L!close

\* A step of the listener on its own.
LEMMA ListenerStepPreserves ==
  ASSUME SystemInv, [Next]_vars,
         ListenerStep \/ (\E s \in L!Slot, kind \in {"data", "code"} : Admit(s, kind))
           \/ recv_one \/ handle_packet
  PROVE  SystemInv'
<1>1. UNCHANGED <<accumulator, call, base, source, rolled>> /\ call = "none"
  <2>1. recv_one \/ handle_packet => lpc = "idle"
    BY DEF recv_one, handle_packet, TakePending, L!TakePending, L!handle_packet,
           L!acquire_buffer_with_fallback
  <2> QED BY <2>1, IdleMeansNone DEF ListenerStep, Admit, recv_one, TakePending, handle_packet, between
<1>2. /\ UNCHANGED <<pool, slot_complete, delivered, pc>>
      /\ call' = "none" /\ pc = "idle"
  BY <1>1 DEF accumulator, SystemInv, CallInv
<1>3. ASSUME UNCHANGED <<slots, closed>> PROVE FocusUnchanged
  BY <1>3 DEF FocusUnchanged, L!AccumulatorOf, L!live, live
<1>4. /\ FocusUnchanged
      /\ \/ UNCHANGED <<pending_batches, tails, received>>
         \/ /\ \E s \in L!Slot \ {Focus} : pending_batches' = Append(pending_batches, s)
            /\ UNCHANGED <<tails, received>>
         \/ L!TakePending /\ TakePending
  <2>1. CASE ListenerStep
    <3>1. UNCHANGED <<tails, received>>
      BY <2>1 DEF ListenerStep, between
    <3>2. ASSUME NEW s \in L!Slot \ {Focus}, NEW tail \in BOOLEAN,
                 L!EvictSlot(s, tail) \/ L!force_evict_oldest_slot(s, tail)
          PROVE  /\ FocusUnchanged
                 /\ \/ UNCHANGED pending_batches
                    \/ pending_batches' = Append(pending_batches, s)
      BY <3>2, OtherClosed DEF L!EvictSlot, L!force_evict_oldest_slot
    <3>3. CASE L!EvictDone \/ L!Reacquire \/ L!Exhausted \/ L!Discard
      BY <3>1, <3>3, <1>3 DEF L!EvictDone, L!Reacquire, L!acquire, L!Exhausted, L!Discard, L!history
    <3>4. ASSUME packet.slot # Focus, NEW held, NEW complete, L!Push(held, complete)
          PROVE  FocusUnchanged /\ UNCHANGED pending_batches
      <4>1. /\ slots' = [r \in live \cup {packet.slot} |->
                          IF r = packet.slot THEN [complete |-> complete, held |-> held] ELSE slots[r]]
            /\ UNCHANGED <<pending_batches, closed>>
        BY <3>4 DEF L!Push, L!live, live, L!history
      <4>2. Focus \in live' <=> Focus \in live
        BY <3>4, <4>1 DEF live
      <4>3. L!AccumulatorOf(Focus)' = L!AccumulatorOf(Focus)
        BY <3>4, <4>1, <4>2 DEF L!AccumulatorOf, L!live, live
      <4> QED BY <4>1, <4>2, <4>3 DEF FocusUnchanged
    <3>5. \/ \E s \in L!Slot \ {Focus}, tail \in BOOLEAN :
               L!EvictSlot(s, tail) \/ L!force_evict_oldest_slot(s, tail)
          \/ L!EvictDone \/ L!Reacquire \/ L!Exhausted \/ L!Discard
          \/ packet.slot # Focus /\ \E held, complete : L!Push(held, complete)
      BY <2>1 DEF ListenerStep
    <3> QED BY <3>1, <3>2, <3>3, <3>4, <3>5
  <2>2. CASE \E s \in L!Slot, kind \in {"data", "code"} : Admit(s, kind)
    BY <2>2, <1>3 DEF Admit, L!Admit, L!history, between
  <2>3. CASE TakePending
    BY <2>3, <1>3 DEF TakePending, L!TakePending
  <2>4. CASE L!acquire_buffer_with_fallback /\ UNCHANGED between
    BY <2>4, <1>3 DEF L!acquire_buffer_with_fallback, L!acquire, L!history, between
  <2> QED BY <2>1, <2>2, <2>3, <2>4 DEF recv_one, handle_packet, L!handle_packet
<1>5. ReceivedInv'
  BY <1>1, <1>2, <1>4, StillAbove, QueueKept DEF FocusUnchanged
<1>6. CallInv' /\ SourceInv' /\ FlagInv' /\ ReturnInv' /\ RolledInv'
  <2>1. CallInv'
    BY <1>2 DEF CallInv
  <2>2. SourceInv'
    BY <1>1, <1>2, <1>4 DEF SystemInv, SourceInv, FocusUnchanged, Held
  <2>3. FlagInv'
    BY <1>1, <1>2, <1>4 DEF SystemInv, FlagInv, FocusUnchanged
  <2>4. ReturnInv' /\ RolledInv'
    BY <1>1, <1>2 DEF SystemInv, ReturnInv, RolledInv
  <2> QED BY <2>1, <2>2, <2>3, <2>4
<1> QED BY <1>5, <1>6, ComponentsKeep DEF SystemInv

-----------------------------------------------------------------------------
(* The life of a call into the accumulator.                                *)

\* A call starts: what has been delivered so far is what the consumer has.
LEMMA StartPreserves ==
  ASSUME SystemInv, [Next]_vars,
         (\E i \in A!DataIdx : PushData(i)) \/ PushCode \/ StartHarvest
  PROVE  SystemInv'
<1>1. PICK name : CallStarts(name)
  BY DEF PushData, PushCode, StartHarvest
<1>2. /\ call' = name /\ base' = delivered
      /\ UNCHANGED <<listener, source, rolled, tails, received>>
  BY <1>1 DEF CallStarts
<1>3. UNCHANGED <<slots, pending_batches, last_slot, lpc, packet, closed>>
  BY <1>2 DEF listener
<1>4. call = "none"
  BY DEF PushData, PushCode, AtPush, StartHarvest
<1>5. /\ UNCHANGED L!AccumulatorOf(Focus) /\ UNCHANGED <<live, L!blacklist_floor, Queued, Absent>>
      /\ UNCHANGED Held(source)
  BY <1>2, <1>3 DEF L!AccumulatorOf, L!live, live, L!blacklist_floor, Queued, Absent, Behind, Held
<1>6. /\ UNCHANGED delivered /\ (slot_complete => slot_complete')
      /\ \/ /\ \E i \in A!DataIdx : pool' = pool \cup {i} \/ pool' = pool
            /\ call' = "push" /\ lpc = "push" /\ packet.slot = Focus /\ packet.kind = "data"
            /\ pc' \in {"flush", "stream", "known"}
         \/ /\ pool' = pool /\ call' = "push" /\ lpc = "push" /\ packet.slot = Focus
            /\ pc' = "fill"
         \/ /\ pool' = pool /\ call' = "harvest" /\ pc' = "harvestfill"
            /\ (lpc = "evict" /\ Focus \in to_evict) \/ (lpc = "reacquire" /\ L!oldest(Focus))
  <2>1. ASSUME NEW i \in A!DataIdx, PushData(i)
        PROVE  /\ UNCHANGED delivered /\ (slot_complete => slot_complete')
               /\ pool' = pool \cup {i} \/ pool' = pool
               /\ call' = "push" /\ lpc = "push" /\ packet.slot = Focus /\ packet.kind = "data"
               /\ pc' \in {"flush", "stream", "known"}
    <3>1. /\ A!push_last \/ A!push_data(i) \/ A!push_known(i)
          /\ lpc = "push" /\ packet = [slot |-> Focus, kind |-> "data"] /\ call' = "push"
      BY <2>1 DEF PushData, AtPush, CallStarts
    <3> QED BY <3>1 DEF A!push_last, A!push_data, A!push_known, A!Goto, A!window, A!output
  <2>2. ASSUME PushCode
        PROVE  /\ UNCHANGED <<delivered, slot_complete, pool>> /\ call' = "push"
               /\ lpc = "push" /\ packet.slot = Focus /\ pc' = "fill"
    BY <2>2 DEF PushCode, AtPush, CallStarts, A!push_code, A!window, A!output
  <2>3. ASSUME StartHarvest
        PROVE  /\ UNCHANGED <<delivered, slot_complete, pool>> /\ call' = "harvest"
               /\ pc' = "harvestfill"
               /\ (lpc = "evict" /\ Focus \in to_evict) \/ (lpc = "reacquire" /\ L!oldest(Focus))
    BY <2>3 DEF StartHarvest, CallStarts, A!try_harvest_tail, A!window, A!output
  <2> QED BY <2>1, <2>2, <2>3
<1>7. CallInv'
  <2>1. ASSUME (lpc = "evict" /\ Focus \in to_evict) \/ (lpc = "reacquire" /\ L!oldest(Focus))
        PROVE  Focus \in live
    BY <2>1 DEF SystemInv, L!IInv, L!EvictInv, L!Overdue, L!oldest, L!live, live
  <2> QED BY <1>3, <1>5, <1>6, <2>1 DEF CallInv
<1>8. SourceInv'
  <2>1. pool = DOMAIN source
    BY <1>4 DEF SystemInv, SourceInv
  <2>2. /\ source' \in [DOMAIN source' -> Buffers]
        /\ \A i, j \in DOMAIN source' : source'[i] = source'[j] => i = j
        /\ L!AccumulatorOf(Focus)'.held = Held(source)'
    BY <1>2, <1>5 DEF SystemInv, SourceInv
  <2>3. \A i, j \in pool' \ DOMAIN source' : i = j /\ call' = "push" /\ packet'.kind = "data"
    BY <1>2, <1>3, <1>6, <2>1
  <2>4. call' # "none"
    BY <1>6
  <2> QED BY <2>2, <2>3, <2>4 DEF SourceInv
<1>9. FlagInv'
  BY <1>5, <1>6 DEF SystemInv, FlagInv
<1>10. ReturnInv' /\ RolledInv'
  BY <1>2, <1>6 DEF SystemInv, ReturnInv, RolledInv, A!IInv, A!TypeOK, A!DeliveredInv
<1>11. ReceivedInv'
  BY <1>2, <1>3, <1>4, <1>5, <1>6 DEF SystemInv, ReceivedInv
<1> QED BY <1>7, <1>8, <1>9, <1>10, <1>11, ComponentsKeep DEF SystemInv

\* While a call runs, what it hands over is new and lies behind what the
\* consumer has: the accumulator delivers in order.
LEMMA RunningPreserves ==
  ASSUME SystemInv, [Next]_vars, AccumulatorStep
  PROVE  SystemInv'
<1>1. A!Step /\ call # "none" /\ UNCHANGED <<listener, between>>
  BY DEF AccumulatorStep
<1>2. /\ UNCHANGED <<slots, pending_batches, last_slot, lpc, packet, closed>>
      /\ UNCHANGED <<call, base, source, rolled, tails, received>>
  BY <1>1 DEF listener, between
<1>3. /\ UNCHANGED L!AccumulatorOf(Focus) /\ UNCHANGED <<live, L!blacklist_floor, Queued, Absent>>
      /\ UNCHANGED Held(source)
  BY <1>2 DEF L!AccumulatorOf, L!live, live, L!blacklist_floor, Queued, Absent, Behind, Held
<1>4. /\ pool' \subseteq pool /\ (slot_complete => slot_complete')
      /\ pc \in {"harvestfill", "harvest", "retired"} <=>
           pc' \in {"harvestfill", "harvest", "retired"}
  BY <1>1, A!StepFrame, SystemAssumption DEF SystemInv
<1>5. CallInv'
  BY <1>1, <1>2, <1>3, <1>4 DEF SystemInv, CallInv
<1>6. SourceInv' /\ FlagInv' /\ RolledInv'
  BY <1>1, <1>2, <1>3, <1>4 DEF SystemInv, SourceInv, FlagInv, RolledInv
<1>7. ReturnInv'
  <2>1. [A!Abs!Next]_delivered
    BY <1>1, A!StepDelivers, SystemAssumption DEF SystemInv, A!Next
  <2>2. base \in [Txs -> {0, 1}] /\ delivered \in [Txs -> Nat]
    BY DEF SystemInv, ReturnInv, A!IInv, A!TypeOK
  <2>3. \A t \in Txs : base[t] = delivered[t] \/ (base[t] = 0 /\ delivered[t] = 1 /\ Behind(t, base))
    BY <1>1 DEF SystemInv, ReturnInv
  <2>4. ASSUME NEW D \in SUBSET Txs, A!Abs!Deliver(D), NEW t \in Txs
        PROVE  base[t] = delivered'[t] \/ (base[t] = 0 /\ delivered'[t] = 1 /\ Behind(t, base))
    <3>1. /\ \A d \in D : delivered[d] = 0
          /\ \A d \in D, u \in Txs : delivered[u] # 0 => EndsIn[u] < EndsIn[d]
          /\ delivered' = [d \in Txs |-> IF d \in D THEN 1 ELSE delivered[d]]
      BY <2>4 DEF A!Abs!Deliver
    <3>2. CASE t \in D
      <4>1. delivered[t] = 0 /\ delivered'[t] = 1 /\ base[t] = 0
        BY <2>2, <2>3, <3>1, <3>2
      <4>2. ASSUME NEW u \in Txs, base[u] > 0 PROVE EndsIn[u] < EndsIn[t]
        BY <2>2, <2>3, <3>1, <3>2, <4>2
      <4> QED BY <4>1, <4>2 DEF Behind
    <3>3. CASE t \notin D
      BY <2>3, <3>1, <3>3
    <3> QED BY <3>2, <3>3
  <2>5. CASE UNCHANGED delivered
    BY <1>2, <2>2, <2>3, <2>5 DEF ReturnInv, Behind
  <2>6. CASE A!Abs!Next
    BY <1>2, <2>2, <2>4, <2>6 DEF ReturnInv, Behind, A!Abs!Next
  <2> QED BY <2>1, <2>5, <2>6
<1>8. ReceivedInv'
  BY <1>1, <1>2, <1>3 DEF SystemInv, ReceivedInv
<1> QED BY <1>5, <1>6, <1>7, <1>8, ComponentsKeep DEF SystemInv

\* A slot that has been given up and is remembered is neither pushed to nor
\* harvested a second time.
LEMMA ClosedIsQuiet ==
  ASSUME SystemInv, Focus \in closed, Focus >= L!blacklist_floor
  PROVE  call # "harvest" /\ ~ (lpc = "push" /\ packet.slot = Focus)
<1>1. Focus \notin live
  BY DEF SystemInv, ReceivedInv
<1>2. Focus \in recently_seen_slots
  <2>1. L!blacklist_floor \in Int
    BY SystemAssumption DEF L!blacklist_floor, SystemInv, L!IInv, L!TypeOK, L!ListenerAssumption
  <2>2. ~ (Focus < L!blacklist_floor)
    BY <2>1, SystemAssumption DEF L!Slot, L!ListenerAssumption
  <2> QED BY <1>1, <2>2 DEF SystemInv, L!IInv, L!ClosedInv, L!live, live
<1> QED BY <1>1, <1>2 DEF SystemInv, CallInv, L!IInv, L!AdmittedInv, L!Admitted

\* The listener's entry for Focus after a push.
LEMMA SettledFocus ==
  ASSUME NEW f, Settle(f)
  PROVE  /\ L!AccumulatorOf(Focus)' = [complete |-> slot_complete, held |-> Held(f)]
         /\ source' = f
         /\ UNCHANGED <<pending_batches, last_slot, closed>>
         /\ lpc' = "idle"
<1>1. /\ slots' = [r \in live \cup {Focus} |->
                     IF r = Focus THEN [complete |-> slot_complete, held |-> Held(f)] ELSE slots[r]]
      /\ source' = f /\ UNCHANGED <<pending_batches, last_slot, closed>> /\ lpc' = "idle"
  BY DEF Settle, L!Return
<1>2. Focus \in DOMAIN slots' /\ slots'[Focus] = [complete |-> slot_complete, held |-> Held(f)]
  BY <1>1
<1> QED BY <1>1, <1>2 DEF L!AccumulatorOf, L!live

\* A push returns: the consumer has what the accumulator has delivered.
LEMMA ReturnPreserves ==
  ASSUME SystemInv, [Next]_vars, PushReturns
  PROVE  SystemInv'
<1>1. /\ call = "push" /\ pc = "idle" /\ Settle(Sources)
      /\ received' = Plus(received, Returned)
      /\ call' = "none" /\ base' = Nothing
      /\ UNCHANGED <<pool, slot_complete, delivered, pc, rolled, tails>>
  BY DEF PushReturns, accumulator
<1>2. /\ L!AccumulatorOf(Focus)' = [complete |-> slot_complete, held |-> Held(Sources)]
      /\ source' = Sources /\ UNCHANGED <<pending_batches, last_slot, closed>>
  BY <1>1, SettledFocus
<1>3. CallInv'
  BY <1>1 DEF CallInv
<1>4. SourceInv'
  <2>1. /\ Sources \in [pool -> Buffers]
        /\ \A i, j \in pool : Sources[i] = Sources[j] => i = j
    BY <1>1, SourcesDistinct
  <2>2. Held(source)' = Held(Sources)
    BY <1>2 DEF Held
  <2>3. DOMAIN source' = pool'
    BY <1>1, <1>2, <2>1
  <2> QED BY <1>1, <1>2, <2>1, <2>2, <2>3 DEF SourceInv
<1>5. FlagInv' /\ RolledInv'
  BY <1>1, <1>2 DEF SystemInv, FlagInv, RolledInv
<1>6. ReturnInv'
  BY <1>1 DEF ReturnInv, Nothing
<1>7. ReceivedInv'
  <2> SUFFICES ASSUME Focus >= L!blacklist_floor
               PROVE  /\ received' \in [Txs -> {0, 1}]
                      /\ Focus \notin closed' /\ tails' = <<>> /\ Absent'
                      /\ received' = delivered'
    BY <1>1, StillAbove DEF ReceivedInv
  <2>1. Focus \notin closed
    BY <1>1, ClosedIsQuiet DEF SystemInv, CallInv
  <2>2. received = base /\ tails = <<>> /\ Absent
    BY <1>1, <2>1 DEF SystemInv, ReceivedInv
  <2>3. base \in [Txs -> {0, 1}] /\ delivered \in [Txs -> {0, 1}]
    BY DEF SystemInv, ReturnInv, A!IInv, A!TypeOK, A!DeliveredInv
  <2>4. received' = [t \in Txs |-> base[t] + (delivered[t] - base[t])]
    BY <1>1, <2>2 DEF Plus, Returned
  <2>5. \A t \in Txs : base[t] + (delivered[t] - base[t]) = delivered[t]
    BY <2>3
  <2>6. received' = delivered
    BY <2>3, <2>4, <2>5
  <2> QED BY <1>1, <1>2, <2>1, <2>2, <2>3, <2>6 DEF Absent
<1> QED BY <1>3, <1>4, <1>5, <1>6, <1>7, ComponentsKeep DEF SystemInv

\* A harvest returns: its batch is queued at one place and a new accumulator
\* takes the place of the old one.
LEMMA HarvestPreserves ==
  ASSUME SystemInv, [Next]_vars, HarvestReturns
  PROVE  SystemInv'
<1> DEFINE tail == Returned # Nothing
<1>1. /\ call = "harvest"
      /\ L!close(Focus, tail)
      /\ last_slot' = last_slot
      /\ tails' = IF tail /\ ~ disable_salvage_delivery THEN Append(tails, Returned) ELSE tails
      /\ rollup_accumulator /\ with_config
      /\ source' = [i \in {} |-> 0]
      /\ call' = "none" /\ base' = Nothing /\ UNCHANGED received
  BY DEF HarvestReturns, L!EvictSlot, L!force_evict_oldest_slot
<1>2. /\ pool' = {} /\ slot_complete' = FALSE /\ delivered' = Nothing /\ pc' = "idle"
  BY <1>1 DEF with_config
<1>3. /\ Focus \notin live' /\ closed' = closed \cup {Focus}
      /\ pending_batches' = IF tail /\ ~ disable_salvage_delivery
                              THEN Append(pending_batches, Focus) ELSE pending_batches
  BY <1>1 DEF L!close, live
<1>4. L!AccumulatorOf(Focus)' = [complete |-> FALSE, held |-> {}]
  BY <1>3 DEF L!AccumulatorOf, L!live, live
<1>5. CallInv' /\ FlagInv' /\ ReturnInv'
  <2>1. CallInv' /\ ReturnInv'
    BY <1>1, <1>2 DEF CallInv, ReturnInv, Nothing
  <2>2. L!AccumulatorOf(Focus)'.complete = FALSE
    BY <1>4
  <2> QED BY <1>2, <2>1, <2>2 DEF FlagInv
<1>6. SourceInv'
  <2>1. DOMAIN source' = {} /\ Held(source)' = {}
    BY <1>1 DEF Held
  <2>2. source' \in [{} -> Buffers]
    BY <1>1
  <2> QED BY <1>1, <1>2, <1>4, <2>1, <2>2 DEF SourceInv
<1>7. RolledInv'
  <2>1. \A k \in Counters : rolled[k] \in Nat /\ stats[k] \in Nat
    BY DEF SystemInv, RolledInv, Counters, A!IInv, A!TypeOK, A!BatchStats
  <2> QED BY <1>1, <2>1 DEF rollup_accumulator, RolledInv
<1>8. ReceivedInv'
  <2> SUFFICES ASSUME Focus >= L!blacklist_floor
               PROVE  received' \in [Txs -> {0, 1}] /\ Queued'
    BY <1>3, StillAbove DEF ReceivedInv
  <2>1. Focus \notin closed
    BY <1>1, ClosedIsQuiet
  <2>2. received = base /\ tails = <<>> /\ Absent /\ received \in [Txs -> {0, 1}]
    BY <1>1, <2>1 DEF SystemInv, ReceivedInv
  <2>3. pending_batches \in Seq(L!Slot) /\ Focus \in L!Slot
    BY SystemAssumption DEF SystemInv, L!IInv, L!TypeOK
  <2>4. CASE tail /\ ~ disable_salvage_delivery
    <3>1. tails' = <<Returned>>
      BY <1>1, <2>2, <2>4
    <3>2. \A t \in Txs : /\ base[t] \in {0, 1} /\ delivered[t] \in {0, 1}
                         /\ base[t] = delivered[t] \/ (base[t] = 0 /\ delivered[t] = 1 /\ Behind(t, base))
      BY <1>1 DEF SystemInv, ReturnInv, A!IInv, A!TypeOK, A!DeliveredInv
    <3>3. Returned \in [Txs -> {0, 1}]
      BY <3>2 DEF Returned
    <3>4. \A t \in Txs : Returned[t] = 1 => base[t] = 0 /\ Behind(t, base)
      BY <3>2 DEF Returned
    <3>5. \A t \in Txs : Returned[t] = 1 => received'[t] = 0 /\ Behind(t, received')
      BY <1>1, <2>2, <3>4
    <3>6. Len(pending_batches) \in Nat /\ pending_batches' = Append(pending_batches, Focus)
      BY <1>3, <2>3, <2>4
    <3>7. /\ Len(pending_batches') = Len(pending_batches) + 1
          /\ \A m \in 1 .. Len(pending_batches) : pending_batches'[m] = pending_batches[m]
          /\ pending_batches'[Len(pending_batches) + 1] = Focus
      BY <2>3, <3>6
    <3>8. \A m \in 1 .. Len(pending_batches') :
             pending_batches'[m] = Focus <=> m = Len(pending_batches) + 1
      BY <2>2, <3>6, <3>7 DEF Absent
    <3>9. Len(pending_batches) + 1 \in 1 .. Len(pending_batches')
      BY <3>6, <3>7
    <3> QED BY <1>1, <2>2, <3>1, <3>3, <3>5, <3>8, <3>9 DEF Queued, Behind
  <2>5. CASE ~ (tail /\ ~ disable_salvage_delivery)
    BY <1>1, <1>3, <2>2, <2>5 DEF Queued, Absent
  <2> QED BY <2>4, <2>5
<1> QED BY <1>5, <1>6, <1>7, <1>8, ComponentsKeep DEF SystemInv

\* Time passes, or nothing happens.
LEMMA PausePreserves ==
  ASSUME SystemInv, [Next]_vars, Tick \/ UNCHANGED vars
  PROVE  SystemInv'
<1>1. /\ UNCHANGED <<slots, pending_batches, last_slot, lpc, packet, closed>>
      /\ UNCHANGED <<call, base, source, rolled, tails, received>>
      /\ UNCHANGED <<pool, slot_complete, delivered, pc>>
  BY DEF Tick, A!Tick, vars, listener, accumulator, between, A!window, A!output
<1>2. /\ UNCHANGED L!AccumulatorOf(Focus) /\ UNCHANGED <<live, L!blacklist_floor, Queued, Absent>>
      /\ UNCHANGED Held(source)
  BY <1>1 DEF L!AccumulatorOf, L!live, live, L!blacklist_floor, Queued, Absent, Behind, Held
<1>3. CallInv' /\ FlagInv' /\ RolledInv'
  BY <1>1, <1>2 DEF SystemInv, CallInv, FlagInv, RolledInv
<1>4. SourceInv'
  BY <1>1, <1>2 DEF SystemInv, SourceInv
<1>5. ReturnInv' /\ ReceivedInv'
  BY <1>1, <1>2 DEF SystemInv, ReturnInv, ReceivedInv, Behind
<1> QED BY <1>3, <1>4, <1>5, ComponentsKeep DEF SystemInv

-----------------------------------------------------------------------------
(* The theorems.                                                           *)

\* Initially nothing is live, queued, delivered or received.
LEMMA InitEstablishes == Init => SystemInv
<1> SUFFICES ASSUME Init PROVE SystemInv
  OBVIOUS
<1>1. L!IInv
  BY L!InitEstablishes, SystemAssumption DEF Init
<1>2. A!with_config /\ now = 0
  BY DEF Init, A!Init
<1>3. A!IInv
  BY <1>2, A!NewEstablishes, SystemAssumption
<1>4. slots = [s \in {} |-> [complete |-> FALSE, held |-> {}]] /\ pending_batches = <<>> /\ closed = {}
  BY DEF Init, L!Init
<1>5. live = {} /\ L!AccumulatorOf(Focus) = [complete |-> FALSE, held |-> {}]
  BY <1>4 DEF live, L!AccumulatorOf, L!live
<1>6. /\ pool = {} /\ slot_complete = FALSE /\ delivered = Nothing /\ pc = "idle"
      /\ call = "none" /\ base = Nothing /\ source = [i \in {} |-> 0]
      /\ rolled = [k \in Counters |-> 0] /\ tails = <<>> /\ received = Nothing
  BY <1>2 DEF Init, A!with_config, Nothing
<1>7. CallInv /\ FlagInv /\ RolledInv
  <2>1. CallInv /\ RolledInv
    BY <1>6 DEF CallInv, RolledInv
  <2>2. L!AccumulatorOf(Focus).complete = FALSE
    BY <1>5
  <2> QED BY <1>6, <2>1, <2>2 DEF FlagInv
<1>8. SourceInv
  <2>1. DOMAIN source = {} /\ Held(source) = {} /\ source \in [{} -> Buffers]
    BY <1>6 DEF Held
  <2> QED BY <1>5, <1>6, <2>1 DEF SourceInv
<1>9. ReturnInv
  BY <1>6 DEF ReturnInv, Nothing
<1>10. ReceivedInv
  <2>1. Absent
    BY <1>4 DEF Absent
  <2>2. received \in [Txs -> {0, 1}]
    BY <1>6 DEF Nothing
  <2> QED BY <1>4, <1>6, <2>1, <2>2 DEF ReceivedInv
<1> QED BY <1>1, <1>3, <1>7, <1>8, <1>9, <1>10 DEF SystemInv

\* Every step keeps the invariant.
LEMMA NextPreserves == SystemInv /\ [Next]_vars => SystemInv'
<1> SUFFICES ASSUME SystemInv, [Next]_vars PROVE SystemInv'
  OBVIOUS
<1>1. CASE ListenerStep \/ (\E s \in L!Slot, kind \in {"data", "code"} : Admit(s, kind))
             \/ recv_one \/ handle_packet
  BY <1>1, ListenerStepPreserves
<1>2. CASE (\E i \in A!DataIdx : PushData(i)) \/ PushCode \/ StartHarvest
  BY <1>2, StartPreserves
<1>3. CASE AccumulatorStep
  BY <1>3, RunningPreserves
<1>4. CASE PushReturns
  BY <1>4, ReturnPreserves
<1>6. CASE HarvestReturns
  BY <1>6, HarvestPreserves
<1>7. CASE Tick \/ UNCHANGED vars
  BY <1>7, PausePreserves
<1> QED BY <1>1, <1>2, <1>3, <1>4, <1>6, <1>7 DEF Next, Step

\* In every reachable state listener and accumulator are each in order, and
\* agree on who holds which buffer and on what has been handed over.
THEOREM Invariance == Spec => []SystemInv
<1> QED BY InitEstablishes, NextPreserves, PTL DEF Spec

\* With the real accumulator inside, the listener does nothing that
\* ShredListener does not allow.
THEOREM ListenerImplemented == Spec => ImplementsListener
<1>1. Init => L!Init
  BY DEF Init
<1>2. SystemInv /\ [Next]_vars => [L!Next]_(L!vars)
  BY ListenerMoves
<1> QED BY <1>1, <1>2, Invariance, PTL DEF Spec, ImplementsListener, L!Spec

\* So what is proved of ShredListener holds of the listener with the real
\* accumulator: no buffer is lost, shared or freed twice.
THEOREM PoolIntact == Spec => []L!BuffersConserved
<1>1. L!Spec => []L!BuffersConserved
  BY L!PoolIntact, SystemAssumption
<1> QED BY <1>1, ListenerImplemented, PTL DEF ImplementsListener

\* And no slot above the blacklist floor is opened again.
THEOREM NoReopening == Spec => L!ClosedStaysClosed
<1>1. L!Spec => L!ClosedStaysClosed
  BY L!NoReopening, SystemAssumption
<1> QED BY <1>1, ListenerImplemented, PTL DEF ImplementsListener

\* Over pushes, evictions, the queue and later lives of the slot, the consumer
\* gets each transaction at most once and in ledger order.
THEOREM InOrder == Spec => ReceivedInOrder
<1>1. ASSUME SystemInv, [Next]_vars, NEW t \in Txs, received'[t] > received[t],
             ~ (Focus < L!blacklist_floor)
      PROVE  received'[t] = 1 /\ \A u \in Txs : received[u] > 0 => EndsIn[u] < EndsIn[t]
  <2>1. Focus >= L!blacklist_floor
    <3>1. L!blacklist_floor \in Int
      BY SystemAssumption, <1>1 DEF L!blacklist_floor, SystemInv, L!IInv, L!TypeOK, L!ListenerAssumption
    <3> QED BY <1>1, <3>1, SystemAssumption DEF L!Slot, L!ListenerAssumption
  <2>2. received \in [Txs -> {0, 1}]
    BY <1>1, <2>1 DEF SystemInv, ReceivedInv
  <2>3. received # received'
    BY <1>1, <2>2
  <2>4. PushReturns \/ TakePending
    BY <1>1, <2>3 DEF Next, Step, ListenerStep, Admit, AccumulatorStep, PushData, PushCode,
         StartHarvest, HarvestReturns, recv_one, handle_packet, Tick, CallStarts, between, vars
  <2>5. CASE PushReturns
    <3>1. call = "push" /\ received' = Plus(received, Returned)
      BY <2>5 DEF PushReturns
    <3>2. Focus \notin closed
      BY <1>1, <2>1, <3>1, ClosedIsQuiet DEF SystemInv, CallInv
    <3>3. received = base
      BY <1>1, <2>1, <3>1, <3>2 DEF SystemInv, ReceivedInv
    <3>4. /\ base[t] \in {0, 1} /\ delivered[t] \in {0, 1}
          /\ base[t] = delivered[t] \/ (base[t] = 0 /\ delivered[t] = 1 /\ Behind(t, base))
      BY <1>1, <3>1 DEF SystemInv, ReturnInv, A!IInv, A!TypeOK, A!DeliveredInv
    <3>5. received'[t] = base[t] + (delivered[t] - base[t])
      BY <3>1, <3>3 DEF Plus, Returned
    <3>6. received'[t] = delivered[t]
      BY <3>4, <3>5
    <3>7. base[t] = 0 /\ delivered[t] = 1 /\ Behind(t, base)
      BY <1>1, <3>3, <3>4, <3>6
    <3> QED BY <3>3, <3>6, <3>7 DEF Behind
  <2>6. CASE TakePending
    <3>1. /\ pending_batches # <<>> /\ Head(pending_batches) = Focus
          /\ received' = Plus(received, Head(tails))
      BY <2>3, <2>6 DEF TakePending, L!TakePending
    <3>2. ~ Absent
      BY <1>1, <3>1 DEF Absent, SystemInv, L!IInv, L!TypeOK
    <3>3. Queued
      BY <1>1, <2>1, <3>2 DEF SystemInv, ReceivedInv
    <3>4. PICK tail \in [Txs -> {0, 1}] :
             /\ tails = <<tail>>
             /\ \A u \in Txs : tail[u] = 1 => received[u] = 0 /\ Behind(u, received)
      BY <3>2, <3>3 DEF Queued
    <3>5. received'[t] = received[t] + tail[t]
      BY <3>1, <3>4 DEF Plus
    <3>6. tail[t] = 1
      BY <1>1, <2>2, <3>4, <3>5
    <3>7. received[t] = 0 /\ Behind(t, received)
      BY <3>4, <3>6
    <3> QED BY <3>5, <3>6, <3>7 DEF Behind
  <2> QED BY <2>4, <2>5, <2>6
<1>2. SystemInv /\ [Next]_vars =>
        [\A t \in Txs : received'[t] > received[t] =>
           \/ Focus < L!blacklist_floor
           \/ received'[t] = 1 /\ \A u \in Txs : received[u] > 0 => EndsIn[u] < EndsIn[t]]_vars
  BY <1>1
<1> QED BY <1>2, Invariance, PTL DEF Spec, ReceivedInOrder

\* The public totals count up, and only while a call into the accumulator runs:
\* a slot that ends neither takes its counts with it nor is counted twice.
THEOREM TotalsKept == Spec => TotalsCountOnce
<1>1. ASSUME SystemInv, [Next]_vars, NEW k \in Counters
      PROVE  Total(k)' = Total(k) \/ (Total(k)' > Total(k) /\ call # "none" /\ call' = call)
  <2>1. rolled[k] \in Nat /\ stats[k] \in Nat
    BY <1>1 DEF SystemInv, RolledInv, Counters, A!IInv, A!TypeOK, A!BatchStats
  <2>2. stats'[k] \in Nat
    BY <1>1, ComponentsKeep DEF Counters, A!IInv, A!TypeOK, A!BatchStats
  <2>3. CASE AccumulatorStep
    <3>1. stats'[k] >= stats[k] /\ rolled' = rolled /\ call # "none" /\ call' = call
      BY <1>1, <2>3, A!StepFrame, SystemAssumption DEF AccumulatorStep, SystemInv, Counters, between
    <3> QED BY <2>1, <2>2, <3>1 DEF Total
  <2>4. CASE HarvestReturns
    <3>1. stats'[k] = 0
      BY <2>4 DEF HarvestReturns, with_config, Counters
    <3>2. rolled'[k] = rolled[k] + stats[k]
      BY <2>4 DEF HarvestReturns, rollup_accumulator
    <3> QED BY <2>1, <3>1, <3>2 DEF Total
  <2>5. CASE ~ AccumulatorStep /\ ~ HarvestReturns
    <3>1. stats' = stats /\ rolled' = rolled
      BY <1>1, <2>5 DEF Next, Step, ListenerStep, Admit, PushData, PushCode, PushReturns,
           StartHarvest, recv_one, TakePending, handle_packet, Tick, CallStarts, accumulator, between, vars,
           A!push_last, A!push_data, A!push_known, A!push_code, A!try_harvest_tail, A!Tick
    <3> QED BY <2>1, <3>1 DEF Total
  <2> QED BY <2>3, <2>4, <2>5
<1>2. SystemInv /\ [Next]_vars =>
        [\A k \in Counters :
           Total(k)' = Total(k) \/ (Total(k)' > Total(k) /\ call # "none" /\ call' = call)]_vars
  BY <1>1
<1> QED BY <1>2, Invariance, PTL DEF Spec, TotalsCountOnce
=============================================================================
