------------------------ MODULE ShredListenerProofs ------------------------
(***************************************************************************)
(* Proofs about ShredListener, for every number of slots and buffers and   *)
(* every setting of its limits.                                            *)
(***************************************************************************)
EXTENDS ShredListener, TLAPS

-----------------------------------------------------------------------------
(* Type correctness.                                                       *)

\* An accumulator that is overdue is live and lies strictly behind last.
LEMMA OverdueIsBehind ==
  ASSUME TypeOK, NEW last \in Nat, NEW s \in Overdue(last)
  PROVE  s \in live /\ s \in Slot /\ s < last
BY ListenerAssumption DEF TypeOK, Overdue, Threshold, Slot, live

\* Harvesting and dropping the accumulator of a live slot keeps the types, hands
\* its buffers to the pool and remembers the slot.
LEMMA CloseKeeps ==
  ASSUME IInv, NEW s \in live, NEW tail \in BOOLEAN, close(s, tail),
         handle' = handle, last_slot' = last_slot
  PROVE  /\ live' = live \ {s}
         /\ \A r \in live' : slots'[r] = slots[r]
         /\ slots' \in [live' -> Accumulator]
         /\ free' \subseteq Buffers
         /\ recently_seen_slots' = recently_seen_slots \cup {s}
         /\ recently_seen_slots' \subseteq Slot
         /\ pending_batches' \in Seq(Slot)
         /\ closed' \subseteq Slot /\ harvested' \subseteq Slot
         /\ BuffersConserved'
         /\ ClosedInv'
<1>1. s \in Slot /\ slots[s] \in Accumulator
  BY DEF IInv, TypeOK, live
<1>2. slots' = [r \in live \ {s} |-> slots[r]]
  BY DEF close
<1>3. live' = live \ {s} /\ \A r \in live' : slots'[r] = slots[r]
  BY <1>2 DEF live
<1>4. slots' \in [live' -> Accumulator]
  BY <1>2, <1>3 DEF IInv, TypeOK, live
<1>5. free' = free \cup slots[s].held
  BY DEF close
<1>6. free' \subseteq Buffers
  BY <1>1, <1>5 DEF IInv, TypeOK, Accumulator
<1>7. pending_batches' \in Seq(Slot)
  BY <1>1 DEF close, IInv, TypeOK
<1>8. recently_seen_slots' = recently_seen_slots \cup {s} /\ recently_seen_slots' \subseteq Slot
  BY <1>1 DEF close, IInv, TypeOK
<1>9. closed' = closed \cup {s} /\ closed' \subseteq Slot /\ harvested' \subseteq Slot
  BY <1>1 DEF close, IInv, TypeOK
<1>10. BuffersConserved'
  BY <1>3, <1>5 DEF IInv, BuffersConserved
<1>11. ClosedInv'
  BY <1>3, <1>8, <1>9 DEF IInv, ClosedInv, blacklist_floor
<1> QED BY <1>3, <1>4, <1>6, <1>7, <1>8, <1>9, <1>10, <1>11

-----------------------------------------------------------------------------
(* The inductive invariant, action by action.                              *)

\* Initially no slot is live and every buffer is free.
LEMMA InitEstablishes == Init => IInv
<1> SUFFICES ASSUME Init PROVE IInv
  OBVIOUS
<1> USE ListenerAssumption
<1>1. live = {} /\ slots \in [live -> Accumulator]
  BY DEF Init, live
<1>2. TypeOK
  BY <1>1 DEF Init, TypeOK, Slot, NoPacket
<1>3. BuffersConserved
  BY <1>1 DEF Init, BuffersConserved
<1>4. CallInv /\ EvictInv /\ AdmittedInv /\ ClosedInv
  BY DEF Init, CallInv, EvictInv, AdmittedInv, Admitted, ClosedInv
<1> QED BY <1>2, <1>3, <1>4 DEF IInv

\* Evicting one slot of the list: the rest of the list stays overdue, and the
\* slot of an admitted packet, being the newest, is not among the evicted.
LEMMA EvictSlotPreserves ==
  ASSUME IInv, NEW s \in Slot, NEW tail \in BOOLEAN, EvictSlot(s, tail)
  PROVE  IInv'
<1> USE ListenerAssumption
<1>1. s \in to_evict /\ close(s, tail) /\ to_evict' = to_evict \ {s}
  BY DEF EvictSlot
<1>2. /\ pc = "evict" /\ pc' = "evict"
      /\ UNCHANGED <<last_slot, handle, cont, packet, handed>>
  BY DEF EvictSlot
<1>3. to_evict = Overdue(last_slot) /\ last_slot \in Nat
  BY <1>2 DEF IInv, EvictInv, TypeOK
<1>4. s \in live /\ s < last_slot
  BY <1>1, <1>3, OverdueIsBehind DEF IInv
<1>5. /\ live' = live \ {s}
      /\ \A r \in live' : slots'[r] = slots[r]
      /\ slots' \in [live' -> Accumulator]
      /\ free' \subseteq Buffers
      /\ recently_seen_slots' = recently_seen_slots \cup {s}
      /\ recently_seen_slots' \subseteq Slot
      /\ pending_batches' \in Seq(Slot)
      /\ closed' \subseteq Slot /\ harvested' \subseteq Slot
      /\ BuffersConserved'
      /\ ClosedInv'
  BY <1>1, <1>2, <1>4, CloseKeeps
<1>6. TypeOK'
  BY <1>1, <1>2, <1>5 DEF IInv, TypeOK
<1>7. EvictInv'
  BY <1>1, <1>2, <1>3, <1>5 DEF EvictInv, Overdue, Threshold
<1>8. CallInv'
  BY <1>2 DEF IInv, CallInv, Admitted
<1>9. AdmittedInv'
  BY <1>2, <1>4, <1>5 DEF IInv, AdmittedInv, Admitted, CallInv, TypeOK, Slot
<1> QED BY <1>5, <1>6, <1>7, <1>8, <1>9 DEF IInv

\* Pruning the blacklist forgets only what lies below the floor.
LEMMA EvictDonePreserves == IInv /\ EvictDone => IInv'
<1> SUFFICES ASSUME IInv, EvictDone PROVE IInv'
  OBVIOUS
<1>1. /\ pc = "evict" /\ pc' = cont
      /\ recently_seen_slots' = {s \in recently_seen_slots : s >= blacklist_floor}
      /\ UNCHANGED <<slots, pending_batches, last_slot, free, handle, frame, history>>
  BY DEF EvictDone
<1>2. UNCHANGED <<live, blacklist_floor, cont, packet, to_evict, closed, harvested, handed>>
  BY <1>1 DEF live, blacklist_floor, frame, history
<1>3. TypeOK'
  BY <1>1, <1>2 DEF IInv, TypeOK
<1>4. BuffersConserved'
  BY <1>1, <1>2 DEF IInv, BuffersConserved
<1>5. CallInv' /\ EvictInv'
  BY <1>1, <1>2 DEF IInv, CallInv, EvictInv, Admitted, TypeOK
<1>6. AdmittedInv'
  BY <1>1, <1>2 DEF IInv, AdmittedInv, Admitted
<1>7. ClosedInv'
  <2>1. blacklist_floor \in Int
    BY ListenerAssumption DEF IInv, TypeOK, blacklist_floor
  <2> QED BY <2>1, <1>1, <1>2 DEF IInv, ClosedInv, TypeOK, Slot
<1> QED BY <1>3, <1>4, <1>5, <1>6, <1>7 DEF IInv

\* The forced eviction closes a live slot.
LEMMA ForceEvictPreserves ==
  ASSUME IInv, NEW s \in Slot, NEW tail \in BOOLEAN, force_evict_oldest_slot(s, tail)
  PROVE  IInv'
<1>1. /\ pc = "reacquire" /\ pc' = "lastchance"
      /\ s \in live /\ close(s, tail)
      /\ UNCHANGED <<last_slot, handle, cont, packet, to_evict, handed>>
  BY DEF force_evict_oldest_slot, oldest, frame
<1>2. CallInv' /\ EvictInv' /\ AdmittedInv'
  BY <1>1 DEF IInv, CallInv, EvictInv, AdmittedInv, Admitted
<1>3. /\ slots' \in [live' -> Accumulator]
      /\ live' = live \ {s}
      /\ free' \subseteq Buffers
      /\ recently_seen_slots' \subseteq Slot
      /\ pending_batches' \in Seq(Slot)
      /\ closed' \subseteq Slot /\ harvested' \subseteq Slot
      /\ BuffersConserved' /\ ClosedInv'
  BY <1>1, CloseKeeps
<1>4. TypeOK'
  BY <1>1, <1>3 DEF IInv, TypeOK
<1> QED BY <1>2, <1>3, <1>4 DEF IInv

\* A buffer moves from the free list into the hands of the call, which had none.
LEMMA AcquirePreserves ==
  ASSUME IInv, pc \in {"idle", "reacquire", "lastchance"}, acquire
  PROVE  IInv'
<1>1. PICK b \in free : free' = free \ {b} /\ handle' = {b}
  BY DEF acquire
<1>2. /\ pc' = "packet"
      /\ UNCHANGED <<slots, recently_seen_slots, pending_batches, last_slot, frame, history>>
  BY DEF acquire
<1>3. UNCHANGED <<live, blacklist_floor, cont, packet, to_evict, closed, harvested, handed>>
  BY <1>2 DEF live, blacklist_floor, frame, history
<1>4. handle = {}
  BY DEF IInv, CallInv
<1>5. TypeOK'
  BY <1>1, <1>2, <1>3 DEF IInv, TypeOK
<1>6. BuffersConserved'
  BY <1>1, <1>2, <1>3, <1>4 DEF IInv, BuffersConserved
<1>7. EvictInv' /\ AdmittedInv' /\ ClosedInv'
  BY <1>2, <1>3 DEF IInv, EvictInv, AdmittedInv, Admitted, ClosedInv
<1>8. CallInv'
  BY <1>1, <1>2 DEF IInv, TypeOK, CallInv, Admitted
<1> QED BY <1>5, <1>6, <1>7, <1>8 DEF IInv

\* A call begins: with a buffer, or with the eviction that is to free one.
LEMMA FallbackPreserves ==
  ASSUME IInv, acquire_buffer_with_fallback
  PROVE  IInv'
<1>0. pc = "idle"
  BY DEF acquire_buffer_with_fallback
<1>1. CASE acquire
  BY <1>0, <1>1, AcquirePreserves
<1>2. CASE /\ to_evict' = Overdue(last_slot)
           /\ pc' = "evict" /\ cont' = "reacquire"
           /\ UNCHANGED <<slots, recently_seen_slots, pending_batches, last_slot,
                          free, handle, packet, history>>
  <2>1. UNCHANGED <<live, blacklist_floor, closed, harvested, handed>>
    BY <1>2 DEF live, blacklist_floor, history
  <2>2. Overdue(last_slot)' = Overdue(last_slot) /\ Overdue(last_slot) \subseteq live
    BY <1>2, <2>1 DEF Overdue, Threshold
  <2>3. TypeOK'
    BY <1>2, <2>1, <2>2 DEF IInv, TypeOK
  <2>4. BuffersConserved'
    BY <1>2, <2>1 DEF IInv, BuffersConserved
  <2>5. CallInv' /\ EvictInv' /\ AdmittedInv' /\ ClosedInv'
    BY <1>0, <1>2, <2>1, <2>2 DEF IInv, CallInv, EvictInv, AdmittedInv, Admitted, ClosedInv
  <2> QED BY <2>3, <2>4, <2>5 DEF IInv
<1> QED BY <1>1, <1>2 DEF acquire_buffer_with_fallback

\* The consumer takes the oldest harvested batch.
LEMMA TakePendingPreserves == IInv /\ TakePending => IInv'
<1> SUFFICES ASSUME IInv, TakePending PROVE IInv'
  OBVIOUS
<1>1. /\ pending_batches # <<>>
      /\ pending_batches' = Tail(pending_batches)
      /\ UNCHANGED <<slots, recently_seen_slots, last_slot, free, handle, pc,
                     frame, closed, harvested>>
      /\ handed' = handed \cup {Head(pending_batches)}
  BY DEF TakePending
<1>2. UNCHANGED <<live, blacklist_floor, cont, packet, to_evict>>
  BY <1>1 DEF live, blacklist_floor, frame
<1>3. pending_batches' \in Seq(Slot) /\ handed' \subseteq Slot
  BY <1>1 DEF IInv, TypeOK
<1>4. TypeOK'
  BY <1>1, <1>2, <1>3 DEF IInv, TypeOK
<1>5. BuffersConserved'
  BY <1>1, <1>2 DEF IInv, BuffersConserved
<1>6. CallInv' /\ AdmittedInv' /\ ClosedInv'
  BY <1>1, <1>2 DEF IInv, CallInv, AdmittedInv, Admitted, ClosedInv
<1>7. EvictInv'
  BY <1>1, <1>2 DEF IInv, EvictInv, Overdue, Threshold
<1> QED BY <1>4, <1>5, <1>6, <1>7 DEF IInv

\* A call that returns without a push gives its buffer back.
LEMMA ReturnPreserves ==
  ASSUME IInv, Return, free' = free \cup handle,
         UNCHANGED <<slots, recently_seen_slots, pending_batches, last_slot, history>>
  PROVE  IInv'
<1>1. UNCHANGED <<live, blacklist_floor, closed, harvested, handed>>
  BY DEF live, blacklist_floor, history
<1>2. TypeOK'
  BY <1>1, ListenerAssumption DEF IInv, TypeOK, Return, NoPacket, Slot
<1>3. BuffersConserved'
  BY <1>1 DEF IInv, BuffersConserved, Return
<1>4. CallInv' /\ EvictInv' /\ AdmittedInv' /\ ClosedInv'
  BY <1>1 DEF IInv, CallInv, EvictInv, AdmittedInv, Admitted, ClosedInv, Return
<1> QED BY <1>2, <1>3, <1>4 DEF IInv

\* A packet is admitted: last_slot may advance, and the floor with it.
LEMMA AdmitPreserves ==
  ASSUME IInv, NEW s \in Slot, NEW kind \in {"data", "code"}, Admit(s, kind)
  PROVE  IInv'
<1> USE ListenerAssumption
<1>1. /\ pc = "packet" /\ InRange(s) /\ s \notin recently_seen_slots
      /\ packet' = [slot |-> s, kind |-> kind]
      /\ UNCHANGED <<slots, recently_seen_slots, pending_batches, free, handle, history>>
  BY DEF Admit
<1>2. UNCHANGED <<live, closed, harvested, handed>>
  BY <1>1 DEF live, history
<1>3. BuffersConserved'
  BY <1>1, <1>2 DEF IInv, BuffersConserved
<1>4. AdmittedInv'
  BY <1>1 DEF AdmittedInv
<1>5. CASE s > last_slot
  <2>1. /\ last_slot' = s /\ to_evict' = Overdue(s)
        /\ pc' = "evict" /\ cont' = "push"
    BY <1>5 DEF Admit
  <2>2. Overdue(s) \subseteq live /\ Overdue(last_slot)' = Overdue(s)
    BY <1>1, <1>2, <2>1 DEF Overdue, Threshold
  <2>3. last_slot' \in 0 .. MAX_PLAUSIBLE_SLOT
    BY <1>1, <2>1 DEF InRange, Slot
  <2>4. TypeOK'
    BY <1>1, <1>2, <2>1, <2>2, <2>3 DEF IInv, TypeOK
  <2>5. CallInv' /\ EvictInv'
    BY <1>1, <2>1, <2>2 DEF IInv, CallInv, EvictInv, Admitted
  <2>6. ClosedInv'
    <3>1. \A r \in Slot : r < blacklist_floor => r < blacklist_floor'
      BY <1>5, <2>1 DEF blacklist_floor, IInv, TypeOK, Slot
    <3> QED BY <3>1, <1>1, <1>2 DEF IInv, ClosedInv, TypeOK
  <2> QED BY <1>3, <1>4, <2>4, <2>5, <2>6 DEF IInv
<1>6. CASE ~ (s > last_slot)
  <2>1. pc' = "push" /\ UNCHANGED <<last_slot, to_evict, cont>>
    BY <1>6 DEF Admit
  <2>2. TypeOK'
    BY <1>1, <1>2, <2>1 DEF IInv, TypeOK
  <2>3. CallInv' /\ EvictInv' /\ ClosedInv'
    BY <1>1, <1>2, <2>1 DEF IInv, CallInv, EvictInv, ClosedInv, blacklist_floor
  <2> QED BY <1>3, <1>4, <2>2, <2>3 DEF IInv
<1> QED BY <1>5, <1>6

\* The push distributes the buffers of the call and of one accumulator between
\* that accumulator and the pool.
LEMMA PushPreserves ==
  ASSUME IInv, NEW held \in SUBSET Buffers, NEW complete \in BOOLEAN, Push(held, complete)
  PROVE  IInv'
<1> DEFINE s == packet.slot
           a == AccumulatorOf(s)
           all == a.held \cup handle
           keep == IF packet.kind = "data" THEN all ELSE a.held
<1>1. held \subseteq keep
        /\ slots' = [r \in live \cup {s} |->
                       IF r = s THEN [complete |-> complete, held |-> held] ELSE slots[r]]
        /\ free' = free \cup (all \ held)
  BY DEF Push
<1>2. pc = "push" /\ Return
      /\ UNCHANGED <<recently_seen_slots, pending_batches, last_slot, history>>
  BY DEF Push
<1>3. UNCHANGED <<blacklist_floor, closed, harvested, handed>>
  BY <1>2 DEF blacklist_floor, history
<1>4. s \in Slot /\ a.held \subseteq Buffers
  BY DEF IInv, TypeOK, AccumulatorOf, Accumulator, live
<1>5. held \subseteq all /\ all \subseteq Buffers
  BY <1>1, <1>4 DEF IInv, TypeOK
<1>6. /\ live' = live \cup {s}
      /\ slots'[s].held = held
      /\ \A r \in live \ {s} : slots'[r] = slots[r]
  BY <1>1 DEF live
<1>7. slots' \in [live' -> Accumulator]
  BY <1>1, <1>5, <1>6 DEF IInv, TypeOK, Accumulator, live
<1>8. TypeOK'
  <2>1. live' \subseteq Slot /\ free' \subseteq Buffers
    BY <1>1, <1>4, <1>5, <1>6 DEF IInv, TypeOK
  <2>2. /\ pc' = "idle" /\ cont' = "idle" /\ handle' = {} /\ to_evict' = {}
        /\ packet' \in [slot : Slot, kind : {"data", "code"}]
    BY <1>2, ListenerAssumption DEF Return, NoPacket, Slot
  <2> HIDE DEF s, a, all, keep
  <2> QED BY <1>2, <1>3, <1>7, <2>1, <2>2 DEF IInv, TypeOK
<1>9. BuffersConserved'
  <2>1. a.held = IF s \in live THEN slots[s].held ELSE {}
    BY DEF AccumulatorOf
  <2>2. /\ all \cap free = {}
        /\ \A r \in live \ {s} : slots[r].held \cap (all \cup free) = {}
    BY <2>1 DEF IInv, BuffersConserved
  <2>3. free \cup all \cup UNION {slots[r].held : r \in live \ {s}} = Buffers
    BY <2>1 DEF IInv, BuffersConserved
  <2>4. UNION {slots'[r].held : r \in live'} = held \cup UNION {slots[r].held : r \in live \ {s}}
    BY <1>6
  <2>5. free' \cup handle' \cup UNION {slots'[r].held : r \in live'} = Buffers
    BY <1>1, <1>2, <1>5, <2>3, <2>4 DEF Return
  <2>6. free' \cap handle' = {} /\ handle' = {}
    BY <1>2 DEF Return
  <2>7. \A r \in live' : slots'[r].held \cap free' = {}
    <3>1. held \cap free' = {}
      BY <1>1, <1>5, <2>2
    <3>2. \A r \in live \ {s} : slots[r].held \cap free' = {}
      BY <1>1, <2>2
    <3> QED BY <3>1, <3>2, <1>6
  <2>8. \A q, r \in live' : q # r => slots'[q].held \cap slots'[r].held = {}
    BY <1>5, <1>6, <2>2 DEF IInv, BuffersConserved
  <2> QED BY <2>5, <2>6, <2>7, <2>8 DEF BuffersConserved
<1>10. CallInv' /\ EvictInv' /\ AdmittedInv'
  BY <1>2 DEF CallInv, EvictInv, AdmittedInv, Admitted, Return
<1>11. ClosedInv'
  BY <1>2, <1>3, <1>6 DEF IInv, ClosedInv
<1> QED BY <1>8, <1>9, <1>10, <1>11 DEF IInv

\* Every step of the listener preserves the invariant.
LEMMA NextPreserves == IInv /\ [Next]_vars => IInv'
<1> SUFFICES ASSUME IInv, [Next]_vars PROVE IInv'
  OBVIOUS
<1>1. ASSUME NEW s \in Slot, NEW tail \in BOOLEAN, EvictSlot(s, tail) PROVE IInv'
  BY <1>1, EvictSlotPreserves
<1>2. CASE EvictDone
  BY <1>2, EvictDonePreserves
<1>3. ASSUME NEW s \in Slot, NEW tail \in BOOLEAN, force_evict_oldest_slot(s, tail)
      PROVE  IInv'
  BY <1>3, ForceEvictPreserves
<1>4. CASE Reacquire
  BY <1>4, AcquirePreserves DEF Reacquire
<1>5. CASE Exhausted
  <2>1. free' = free \cup handle
    BY <1>5 DEF Exhausted, IInv, CallInv
  <2> QED BY <1>5, <2>1, ReturnPreserves DEF Exhausted
<1>6. CASE Discard
  BY <1>6, ReturnPreserves DEF Discard
<1>7. ASSUME NEW s \in Slot, NEW kind \in {"data", "code"}, Admit(s, kind) PROVE IInv'
  BY <1>7, AdmitPreserves
<1>8. ASSUME NEW held \in SUBSET Buffers, NEW complete \in BOOLEAN, Push(held, complete)
      PROVE  IInv'
  BY <1>8, PushPreserves
<1>9. CASE recv_one
  BY <1>9, TakePendingPreserves, FallbackPreserves DEF recv_one
<1>10. CASE handle_packet
  BY <1>10, FallbackPreserves DEF handle_packet
<1>11. CASE UNCHANGED vars
  <2>1. UNCHANGED <<live, blacklist_floor, cont, packet, to_evict, closed, harvested, handed>>
        /\ UNCHANGED <<slots, recently_seen_slots, pending_batches, last_slot, free, handle, pc>>
    BY <1>11 DEF vars, live, blacklist_floor, frame, history
  <2>2. TypeOK' /\ BuffersConserved' /\ CallInv' /\ AdmittedInv' /\ ClosedInv'
    BY <2>1 DEF IInv, TypeOK, BuffersConserved, CallInv, AdmittedInv, Admitted, ClosedInv
  <2>3. EvictInv'
    BY <2>1 DEF IInv, EvictInv, Overdue, Threshold
  <2> QED BY <2>2, <2>3 DEF IInv
<1> QED
  BY <1>1, <1>2, <1>3, <1>4, <1>5, <1>6, <1>7, <1>8, <1>9, <1>10, <1>11 DEF Next, Step

-----------------------------------------------------------------------------
(* Theorems.                                                               *)

\* The inductive invariant holds in every reachable state.
THEOREM Invariance == Spec => []IInv
<1> QED BY InitEstablishes, NextPreserves, PTL DEF Spec

\* Every variable keeps its type: last_slot, in particular, never passes
\* MAX_PLAUSIBLE_SLOT (the debug_assert of handle_packet_owned).
THEOREM TypeCorrect == Spec => []TypeOK
<1>1. IInv => TypeOK
  BY DEF IInv
<1> QED BY <1>1, Invariance, PTL

\* No early return, eviction or push loses a buffer of the pool or leaves it
\* with two owners.
THEOREM PoolIntact == Spec => []BuffersConserved
<1>1. IInv => BuffersConserved
  BY DEF IInv
<1> QED BY <1>1, Invariance, PTL

\* The blacklist floor only rises.
LEMMA FloorRises ==
  ASSUME IInv, [Next]_vars
  PROVE  /\ blacklist_floor \in Int /\ blacklist_floor' \in Int
         /\ blacklist_floor' >= blacklist_floor
<1>1. last_slot \in Int
  BY DEF IInv, TypeOK
<1>2. last_slot' \in Int
  BY NextPreserves DEF IInv, TypeOK
<1>3. last_slot' >= last_slot
  BY <1>1 DEF Next, Step, EvictSlot, EvictDone, force_evict_oldest_slot, Reacquire, acquire,
         Exhausted, Discard, Admit, Push, recv_one, TakePending, handle_packet,
         acquire_buffer_with_fallback, vars, Slot
<1>4. \A a, b, d \in Int : a >= b => a - d >= b - d
  OBVIOUS
<1>5. max_age + BLACKLIST_EXTRA_SLOTS \in Int
  BY ListenerAssumption
<1>6. last_slot' - (max_age + BLACKLIST_EXTRA_SLOTS) >= last_slot - (max_age + BLACKLIST_EXTRA_SLOTS)
  BY <1>1, <1>2, <1>3, <1>4, <1>5
<1> QED BY <1>1, <1>2, <1>5, <1>6 DEF blacklist_floor

\* A slot given up is opened again only below the blacklist floor.
THEOREM NoReopening == Spec => ClosedStaysClosed
<1>1. ASSUME IInv, [Next]_vars, NEW s \in closed \ live, s \in live'
      PROVE  s < blacklist_floor
  <2>1. s \in Slot
    BY <1>1 DEF IInv, TypeOK
  <2>2. ASSUME NEW held \in SUBSET Buffers, NEW complete \in BOOLEAN, Push(held, complete)
        PROVE  s < blacklist_floor
    <3>1. live' = live \cup {packet.slot}
      BY <2>2 DEF Push, live
    <3>2. s \notin recently_seen_slots
      BY <1>1, <2>2, <3>1 DEF IInv, AdmittedInv, Admitted, Push
    <3> QED BY <1>1, <3>2 DEF IInv, ClosedInv
  <2>3. ASSUME NEW r \in Slot, NEW tail \in BOOLEAN,
               EvictSlot(r, tail) \/ force_evict_oldest_slot(r, tail)
        PROVE  FALSE
    <3>1. live' = live \ {r}
      BY <2>3 DEF EvictSlot, force_evict_oldest_slot, close, live
    <3> QED BY <1>1, <3>1
  <2>4. CASE UNCHANGED slots
    BY <1>1, <2>4 DEF live
  <2>5. \/ \E r \in Slot, tail \in BOOLEAN :
              EvictSlot(r, tail) \/ force_evict_oldest_slot(r, tail)
        \/ \E held \in SUBSET Buffers, complete \in BOOLEAN : Push(held, complete)
        \/ UNCHANGED slots
    BY <1>1
    DEF Next, Step, EvictDone, Reacquire, acquire, Exhausted, Discard, Admit,
        recv_one, handle_packet, TakePending, acquire_buffer_with_fallback, vars
  <2> QED BY <2>2, <2>3, <2>4, <2>5
<1>2. IInv /\ [Next]_vars =>
        [\A s \in closed \ live : s \in DOMAIN slots' => s < blacklist_floor]_vars
  BY <1>1 DEF live
<1> QED BY <1>2, Invariance, PTL DEF Spec, ClosedStaysClosed

\* Only its age ends a slot, or an empty pool when it is the oldest.
THEOREM Retention == Spec => RetentionKept
<1>1. ASSUME IInv, [Next]_vars, NEW s \in live, s \notin live'
      PROVE  last_slot > s + Threshold(s) \/ (free = {} /\ oldest(s))
  <2>1. \/ \E r \in Slot, tail \in BOOLEAN :
              EvictSlot(r, tail) \/ force_evict_oldest_slot(r, tail)
        \/ live \subseteq live'
    BY <1>1
    DEF Next, Step, EvictDone, Reacquire, acquire, Exhausted, Discard, Admit,
        recv_one, Push, handle_packet, TakePending, acquire_buffer_with_fallback, vars, live
  <2>2. ASSUME NEW r \in Slot, NEW tail \in BOOLEAN, EvictSlot(r, tail)
        PROVE  last_slot > s + Threshold(s)
    <3>1. s = r
      BY <1>1, <2>2 DEF EvictSlot, close, live
    <3>2. r \in Overdue(last_slot)
      BY <1>1, <2>2 DEF IInv, EvictInv, EvictSlot
    <3> QED BY <3>1, <3>2 DEF Overdue
  <2>3. ASSUME NEW r \in Slot, NEW tail \in BOOLEAN, force_evict_oldest_slot(r, tail)
        PROVE  free = {} /\ oldest(s)
    <3>1. s = r
      BY <1>1, <2>3 DEF force_evict_oldest_slot, close, live
    <3> QED BY <2>3, <3>1 DEF force_evict_oldest_slot
  <2> QED BY <1>1, <2>1, <2>2, <2>3
<1>2. IInv /\ [Next]_vars =>
        [\A s \in live \ DOMAIN slots' :
           last_slot > s + Threshold(s) \/ (free = {} /\ oldest(s))]_vars
  BY <1>1 DEF live
<1> QED BY <1>2, Invariance, PTL DEF Spec, RetentionKept

\* evict_old_slots leaves no slot behind its retention window.
THEOREM AgedOut == Spec => WindowKept
<1>1. ASSUME IInv, [Next]_vars, pc = "evict", pc' # "evict"
      PROVE  Overdue(last_slot)' = {}
  <2>1. EvictDone
    BY <1>1
    DEF Next, Step, EvictSlot, force_evict_oldest_slot, Reacquire, Exhausted,
        Discard, Admit, Push, recv_one, handle_packet, TakePending,
        acquire_buffer_with_fallback, vars
  <2>2. to_evict = {} /\ UNCHANGED <<slots, last_slot>>
    BY <2>1 DEF EvictDone
  <2>3. Overdue(last_slot) = {}
    BY <1>1, <2>2 DEF IInv, EvictInv
  <2> QED BY <2>2, <2>3 DEF Overdue, Threshold, live
<1>2. IInv /\ [Next]_vars =>
        [(pc = "evict" /\ pc' # "evict") => Overdue(last_slot)' = {}]_vars
  BY <1>1
<1> QED BY <1>2, Invariance, PTL DEF Spec, WindowKept
=============================================================================
