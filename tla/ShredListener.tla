--------------------------- MODULE ShredListener ---------------------------
(***************************************************************************)
(* ShredListener (listener.rs) and its buffer pool (pool.rs): which slots  *)
(* are live, when they are given up, where the pool's buffers are, and how *)
(* harvested tails reach the consumer.                                     *)
(*                                                                         *)
(* The listener is single-threaded.  The consumer calls transactions().next*)
(* (recv_one) or handle_packet when pc = "idle"; the loops of the call run *)
(* step by step.  Any packet may arrive at any time: shreds of any slot,   *)
(* old or new, data or coding, and packets that do not parse.  The         *)
(* accumulator of a slot is reduced to what the listener sees of it: the   *)
(* pool buffers it holds and its slot_complete flag; what a call to it     *)
(* changes is chosen freely within what accumulator.rs can do.  Buffers    *)
(* have an identity, so that it can be said who owns which.                *)
(***************************************************************************)
EXTENDS Integers, Sequences

CONSTANTS
  MaxSlot,         \* bound of the model: slots offered by the feed
  MAX_PLAUSIBLE_SLOT, MAX_SLOT_JUMP_FORWARD, MAX_BOOTSTRAP_SLOT,
  BLACKLIST_EXTRA_SLOTS, COMPLETED_RETENTION_SLOTS,
  max_age, enable_fec, disable_salvage_delivery, \* ListenerOptions
  Buffers,         \* the buffers of the pool, pool_size many
  MaxPending       \* bound of the model: handle_packet is not called when
                   \* that many harvested batches wait for transactions()

Slot == 0 .. MaxSlot

ASSUME ListenerAssumption ==
  /\ MaxSlot \in Nat /\ MAX_PLAUSIBLE_SLOT \in Nat
  /\ MAX_SLOT_JUMP_FORWARD \in Nat /\ MAX_BOOTSTRAP_SLOT \in Nat
  /\ BLACKLIST_EXTRA_SLOTS \in Nat /\ COMPLETED_RETENTION_SLOTS \in Nat
  /\ max_age \in Nat
  /\ Buffers # {}
  /\ enable_fec \in BOOLEAN /\ disable_salvage_delivery \in BOOLEAN
  /\ MaxPending \in Nat

VARIABLES
  slots,                \* live slot -> its accumulator [complete, held]
  recently_seen_slots,
  pending_batches,      \* slots whose harvested tail awaits the consumer
  last_slot,
  free,                 \* the pool's free list
  handle,               \* the buffer held by the running call, if any
  pc,
  cont,                 \* where evict_old_slots returns to
  packet,               \* the admitted shred: [slot, kind]
  to_evict,             \* slots evict_old_slots has still to remove
  closed,               \* history: slots removed so far
  harvested,            \* history: slots that left a non-empty tail
  handed                \* history: slots whose tail the consumer was given

history == <<closed, harvested, handed>>
frame   == <<cont, packet, to_evict>>
vars    == <<slots, recently_seen_slots, pending_batches, last_slot, free,
             handle, pc, frame, history>>

Accumulator == [complete : BOOLEAN, held : SUBSET Buffers]

live == DOMAIN slots

TypeOK ==
  /\ live \subseteq Slot
  /\ slots \in [live -> Accumulator]
  /\ recently_seen_slots \subseteq Slot
  /\ pending_batches \in Seq(Slot)
  /\ last_slot \in 0 .. MAX_PLAUSIBLE_SLOT
  /\ free \subseteq Buffers
  /\ handle \subseteq Buffers
  /\ pc \in {"idle", "evict", "reacquire", "lastchance", "packet", "push"}
  /\ cont \in {"idle", "reacquire", "push"}
  /\ packet \in [slot : Slot, kind : {"data", "code"}]
  /\ to_evict \subseteq Slot
  /\ closed \subseteq Slot /\ harvested \subseteq Slot /\ handed \subseteq Slot

NoPacket == [slot |-> 0, kind |-> "data"]

Init ==
  /\ slots = [s \in {} |-> [complete |-> FALSE, held |-> {}]]
  /\ recently_seen_slots = {}
  /\ pending_batches = <<>>
  /\ last_slot = 0
  /\ free = Buffers
  /\ handle = {}
  /\ pc = "idle"
  /\ cont = "idle" /\ packet = NoPacket /\ to_evict = {}
  /\ closed = {} /\ harvested = {} /\ handed = {}

\* The running call returns: the buffer it still holds goes back to the pool.
Return ==
  /\ pc' = "idle"
  /\ handle' = {}
  /\ cont' = "idle" /\ packet' = NoPacket /\ to_evict' = {}

-----------------------------------------------------------------------------
(* Giving up slots.                                                        *)

Threshold(s) == IF slots[s].complete THEN COMPLETED_RETENTION_SLOTS ELSE max_age

\* Mutant: a slot is overdue one slot early.
Overdue_early(last) == {s \in live : last >= s + Threshold(s)}

Overdue(last) == {s \in live : last > s + Threshold(s)}

\* Mutant: a slot given up is not remembered.
close_forgotten(s, tail) ==
  /\ slots' = [r \in live \ {s} |-> slots[r]]
  /\ free' = free \cup slots[s].held
  /\ recently_seen_slots' = recently_seen_slots
  /\ pending_batches' = IF tail /\ ~ disable_salvage_delivery
                          THEN Append(pending_batches, s) ELSE pending_batches
  /\ closed' = closed \cup {s}
  /\ harvested' = IF tail THEN harvested \cup {s} ELSE harvested

\* Mutant: a harvested tail is only counted.
close_undelivered(s, tail) ==
  /\ slots' = [r \in live \ {s} |-> slots[r]]
  /\ free' = free \cup slots[s].held
  /\ recently_seen_slots' = recently_seen_slots \cup {s}
  /\ pending_batches' = pending_batches
  /\ closed' = closed \cup {s}
  /\ harvested' = IF tail THEN harvested \cup {s} ELSE harvested

\* The accumulator of s is harvested and dropped; tail: it returned something.
close(s, tail) ==
  /\ slots' = [r \in live \ {s} |-> slots[r]]
  /\ free' = free \cup slots[s].held
  /\ recently_seen_slots' = recently_seen_slots \cup {s}
  /\ pending_batches' = IF tail /\ ~ disable_salvage_delivery
                          THEN Append(pending_batches, s) ELSE pending_batches
  /\ closed' = closed \cup {s}
  /\ harvested' = IF tail THEN harvested \cup {s} ELSE harvested

\* evict_old_slots, one slot of its list; the hash map fixes no order.
EvictSlot(s, tail) ==
  /\ pc = "evict"
  /\ s \in to_evict
  /\ close(s, tail)
  /\ to_evict' = to_evict \ {s}
  /\ UNCHANGED <<last_slot, handle, pc, cont, packet, handed>>

blacklist_floor == last_slot - (max_age + BLACKLIST_EXTRA_SLOTS)

\* Mutant: the pruning drops the slot on the floor as well.
EvictDone_strict ==
  /\ pc = "evict"
  /\ to_evict = {}
  /\ recently_seen_slots' = {s \in recently_seen_slots : s > blacklist_floor}
  /\ pc' = cont
  /\ UNCHANGED <<slots, pending_batches, last_slot, free, handle, frame, history>>

EvictDone ==
  /\ pc = "evict"
  /\ to_evict = {}
  /\ recently_seen_slots' = {s \in recently_seen_slots : s >= blacklist_floor}
  /\ pc' = cont
  /\ UNCHANGED <<slots, pending_batches, last_slot, free, handle, frame, history>>

oldest(s) == s \in live /\ \A r \in live : s <= r

\* Mutant: the oldest slot is looked at and not removed.
force_evict_oldest_slot_kept(s, tail) ==
  /\ pc = "reacquire"
  /\ free = {}
  /\ oldest(s)
  /\ pc' = "lastchance"
  /\ UNCHANGED <<slots, recently_seen_slots, pending_batches, last_slot, free,
                 handle, frame, history>>

\* The oldest slot is sacrificed for its buffers.  There is one: with no buffer
\* free and none in the hands of the call, live slots hold them all.
force_evict_oldest_slot(s, tail) ==
  /\ pc = "reacquire"
  /\ free = {}
  /\ oldest(s)
  /\ close(s, tail)
  /\ pc' = "lastchance"
  /\ UNCHANGED <<last_slot, handle, frame, handed>>

-----------------------------------------------------------------------------
(* Calls: a buffer is acquired before the packet is looked at.             *)

\* recv_one: a harvested batch goes first.
TakePending ==
  /\ pc = "idle"
  /\ pending_batches # <<>>
  /\ handed' = handed \cup {Head(pending_batches)}
  /\ pending_batches' = Tail(pending_batches)
  /\ UNCHANGED <<slots, recently_seen_slots, last_slot, free, handle, pc,
                 frame, closed, harvested>>

\* pool.acquire
acquire ==
  /\ \E b \in free : free' = free \ {b} /\ handle' = {b}
  /\ pc' = "packet"
  /\ UNCHANGED <<slots, recently_seen_slots, pending_batches, last_slot, frame, history>>

\* acquire_buffer_with_fallback: first attempt, then evict_old_slots.
acquire_buffer_with_fallback ==
  /\ pc = "idle"
  /\ \/ acquire
     \/ /\ free = {}
        /\ to_evict' = Overdue(last_slot)
        /\ pc' = "evict" /\ cont' = "reacquire"
        /\ UNCHANGED <<slots, recently_seen_slots, pending_batches, last_slot,
                       free, handle, packet, history>>

recv_one == TakePending \/ (pending_batches = <<>> /\ acquire_buffer_with_fallback)

handle_packet == Len(pending_batches) < MaxPending /\ acquire_buffer_with_fallback

Reacquire == pc \in {"reacquire", "lastchance"} /\ acquire

\* No buffer to be had: the packet is dropped.
Exhausted ==
  /\ pc = "lastchance"
  /\ free = {}
  /\ Return
  /\ UNCHANGED <<slots, recently_seen_slots, pending_batches, last_slot, free, history>>

-----------------------------------------------------------------------------
(* handle_packet_owned.                                                    *)

\* Mutant: a bootstrap slot is not range-checked.
InRange_unchecked(s) ==
  last_slot > 0 => s <= MAX_PLAUSIBLE_SLOT /\ s <= last_slot + MAX_SLOT_JUMP_FORWARD

InRange(s) ==
  /\ s <= MAX_PLAUSIBLE_SLOT
  /\ last_slot = 0 => s <= MAX_BOOTSTRAP_SLOT
  /\ last_slot > 0 => s <= last_slot + MAX_SLOT_JUMP_FORWARD

\* Mutant: a packet that is not for the accumulator keeps its buffer.
Discard_leaking ==
  /\ pc = "packet"
  /\ Return
  /\ UNCHANGED <<free, slots, recently_seen_slots, pending_batches, last_slot, history>>

\* Nothing comes of the packet: it does not parse, its slot is out of range or
\* recently seen, it is a coding shred and FEC is off, or recv failed.
Discard ==
  /\ pc = "packet"
  /\ free' = free \cup handle
  /\ Return
  /\ UNCHANGED <<slots, recently_seen_slots, pending_batches, last_slot, history>>

\* Mutant: the list is made with the last_slot of before.
Admit_stale(s, kind) ==
  /\ pc = "packet"
  /\ InRange(s)
  /\ s \notin recently_seen_slots
  /\ kind = "code" => enable_fec
  /\ packet' = [slot |-> s, kind |-> kind]
  /\ IF s > last_slot
       THEN /\ last_slot' = s
            /\ to_evict' = Overdue(last_slot)
            /\ pc' = "evict" /\ cont' = "push"
       ELSE /\ pc' = "push"
            /\ UNCHANGED <<last_slot, to_evict, cont>>
  /\ UNCHANGED <<slots, recently_seen_slots, pending_batches, free, handle, history>>

\* A shred of an acceptable slot; a new highest slot evicts old ones first.
Admit(s, kind) ==
  /\ pc = "packet"
  /\ InRange(s)
  /\ s \notin recently_seen_slots
  /\ kind = "code" => enable_fec
  /\ packet' = [slot |-> s, kind |-> kind]
  /\ IF s > last_slot
       THEN /\ last_slot' = s
            /\ to_evict' = Overdue(s)
            /\ pc' = "evict" /\ cont' = "push"
       ELSE /\ pc' = "push"
            /\ UNCHANGED <<last_slot, to_evict, cont>>
  /\ UNCHANGED <<slots, recently_seen_slots, pending_batches, free, handle, history>>

\* The accumulator of the slot, created when there is none.
AccumulatorOf(s) == IF s \in live THEN slots[s] ELSE [complete |-> FALSE, held |-> {}]

\* push_data keeps the buffer or drops it, push_code always drops it; either
\* may complete batches, which frees buffers, and may complete the slot.
Push(held, complete) ==
  /\ pc = "push"
  /\ LET s == packet.slot
         a == AccumulatorOf(s)
         all == a.held \cup handle
     IN  /\ held \subseteq IF packet.kind = "data" THEN all ELSE a.held
         /\ a.complete => complete
         /\ slots' = [r \in live \cup {s} |->
                        IF r = s THEN [complete |-> complete, held |-> held] ELSE slots[r]]
         /\ free' = free \cup (all \ held)
  /\ Return
  /\ UNCHANGED <<recently_seen_slots, pending_batches, last_slot, history>>

-----------------------------------------------------------------------------
Step ==
  \/ \E s \in Slot, tail \in BOOLEAN : EvictSlot(s, tail) \/ force_evict_oldest_slot(s, tail)
  \/ EvictDone \/ Reacquire \/ Exhausted \/ Discard
  \/ \E s \in Slot, kind \in {"data", "code"} : Admit(s, kind)
  \/ \E held \in SUBSET Buffers, complete \in BOOLEAN : Push(held, complete)

Next == Step \/ recv_one \/ handle_packet

Spec == Init /\ [][Next]_vars

\* Calls run to their end (the feed does not dry up while recv blocks), and the
\* consumer keeps iterating transactions(), whatever it injects with
\* handle_packet in between.
FairSpec == Spec /\ WF_vars(Step) /\ SF_vars(recv_one)

-----------------------------------------------------------------------------
(* Properties.                                                             *)

\* No buffer is lost, shared or freed twice: each is in the free list, in the
\* hands of the running call, or in the accumulator of one live slot.
BuffersConserved ==
  /\ free \cup handle \cup UNION {slots[s].held : s \in live} = Buffers
  /\ free \cap handle = {}
  /\ \A s \in live : slots[s].held \cap (free \cup handle) = {}
  /\ \A r, s \in live : r # s => slots[r].held \cap slots[s].held = {}

\* A slot given up is not opened again, and its transactions not delivered
\* twice, as long as it lies above the blacklist floor.
ClosedStaysClosed ==
  [][\A s \in closed \ live : s \in DOMAIN slots' => s < blacklist_floor]_vars

\* A slot inside its retention window is given up only for want of buffers, and
\* then it is the oldest: the current slot goes, and is blacklisted, only when
\* no other slot is live, whatever evict_old_slots has removed just before.
RetentionKept ==
  [][\A s \in live \ DOMAIN slots' :
       last_slot > s + Threshold(s) \/ (free = {} /\ oldest(s))]_vars

\* When evict_old_slots returns, on the way to a push or to a second try for a
\* buffer, no slot is left behind its retention window.
WindowKept ==
  [][(pc = "evict" /\ pc' # "evict") => Overdue(last_slot)' = {}]_vars

\* A pool that has run dry recovers: packets are dropped at most until the
\* forced evictions reach a slot that holds buffers.
PoolRecovers == (free = {}) ~> (free # {})

\* The harvested tail of a slot reaches a consumer that keeps iterating.
TailsDelivered == \A s \in Slot : (s \in harvested) ~> (s \in handed)

-----------------------------------------------------------------------------
(* The inductive invariant behind BuffersConserved, ClosedStaysClosed,     *)
(* RetentionKept and WindowKept.                                           *)

\* The admitted packet is on its way to an accumulator.
Admitted == pc = "push" \/ (pc = "evict" /\ cont = "push")

\* A call looks for a buffer before it has one, and the calls that are past
\* that point hold exactly one.
CallInv ==
  /\ pc \in {"idle", "reacquire", "lastchance"} => handle = {}
  /\ (pc = "evict" /\ cont # "push") => handle = {}
  /\ (pc = "packet" \/ Admitted) => \E b \in Buffers : handle = {b}
  /\ (pc = "evict" /\ cont = "push") => packet.slot = last_slot

\* The list evict_old_slots works through stays the list of the overdue slots,
\* although slots are removed under it.
EvictInv == pc = "evict" => to_evict = Overdue(last_slot)

\* Between the look at recently_seen_slots and the push nothing puts the slot
\* of the packet there.
AdmittedInv == Admitted => packet.slot \notin recently_seen_slots

\* What was given up is remembered as long as it lies above the floor.
ClosedInv ==
  \A s \in closed : s \in live \/ s \in recently_seen_slots \/ s < blacklist_floor

\* The inductive invariant of the listener.
IInv == TypeOK /\ BuffersConserved /\ CallInv /\ EvictInv /\ AdmittedInv /\ ClosedInv

=============================================================================
