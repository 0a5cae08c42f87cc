--------------------- MODULE SlotAccumulatorFlushProofs ---------------------
(***************************************************************************)
(* What the flush and the harvest of SlotAccumulator leave behind, for     *)
(* every slot layout, FEC layout and configuration: no batch overdue, no   *)
(* gap that FEC could fill, and no whole batch forgotten.                  *)
(***************************************************************************)
EXTENDS SlotAccumulatorProofs, FiniteSetTheorems

-----------------------------------------------------------------------------
(* Boundaries and the clock.                                               *)

\* A boundary seen before keeps its time, one seen now gets the current one.
LEMMA NotedTimes ==
  ASSUME IInv, TimeInv, NEW S, NoteBoundaries(S), now' = now
  PROVE  /\ DOMAIN batch_complete_indices' = DOMAIN batch_complete_indices \cup (S \cap Boundary)
         /\ \A b \in DOMAIN batch_complete_indices' : batch_complete_indices'[b] <= now'
         /\ \A b \in DOMAIN batch_complete_indices :
              batch_complete_indices'[b] = batch_complete_indices[b]
         /\ \A b \in DOMAIN batch_complete_indices' \ DOMAIN batch_complete_indices :
              batch_complete_indices'[b] = now
BY DEF NoteBoundaries, TimeInv, IInv, TypeOK

\* FEC recovery in a running loop keeps the order of the times.
LEMMA FillKeepsTimes ==
  ASSUME IInv, TimeInv, NEW h, try_fec_fill(h), UNCHANGED bc_idx, pc' = "flushfill" => pc = "flushfill"
  PROVE  TimeInv'
<1>1. /\ DOMAIN batch_complete_indices \subseteq DOMAIN batch_complete_indices'
      /\ \A b \in DOMAIN batch_complete_indices' : batch_complete_indices'[b] <= now'
      /\ \A b \in DOMAIN batch_complete_indices :
           batch_complete_indices'[b] = batch_complete_indices[b]
      /\ \A b \in DOMAIN batch_complete_indices' \ DOMAIN batch_complete_indices :
           batch_complete_indices'[b] = now
  BY NotedTimes DEF try_fec_fill
<1>2. ASSUME pc' = "flushfill", NEW b \in DOMAIN batch_complete_indices', b < bc_idx
      PROVE  batch_complete_indices'[bc_idx] <= batch_complete_indices'[b]
  <2>1. bc_idx \in DOMAIN batch_complete_indices
    BY <1>2 DEF IInv, WindowInv
  <2>2. batch_complete_indices'[bc_idx] = batch_complete_indices[bc_idx]
    BY <1>1, <2>1
  <2>3. CASE b \in DOMAIN batch_complete_indices
    BY <1>1, <1>2, <2>2, <2>3 DEF TimeInv
  <2>4. CASE b \notin DOMAIN batch_complete_indices
    BY <1>1, <2>1, <2>2, <2>4 DEF TimeInv
  <2> QED BY <2>3, <2>4
<1> QED BY <1>1, <1>2 DEF TimeInv

\* What a closed batch leaves was seen when it was seen.
LEMMA CloseKeepsTimes ==
  ASSUME IInv, TimeInv, NEW b, complete_batch(b), now' = now, pc' # "flushfill"
  PROVE  TimeInv'
BY DEF complete_batch, TimeInv

\* No step leaves TimeInv.
LEMMA TimeStep ==
  ASSUME IInv, TimeInv, [Next]_vars
  PROVE  TimeInv'
<1>1. CASE \E i \in DataIdx : push_data(i)
  <2>1. PICK i \in DataIdx : push_data(i)
    BY <1>1
  <2> QED BY <2>1, NotedTimes DEF push_data, TimeInv
<1>2. CASE Fill
  <2>1. try_fec_fill(hint) /\ UNCHANGED bc_idx /\ pc' \in {"restream", "flush"}
    BY <1>2 DEF Fill, Goto, locals
  <2> QED BY <2>1, FillKeepsTimes
<1>3. CASE FlushFill \/ HarvestFill
  <2>1. PICK h : try_fec_fill(h)
    BY <1>3 DEF FlushFill, HarvestFill
  <2>2. UNCHANGED <<bc_idx, pc>>
    BY <1>3 DEF FlushFill, HarvestFill
  <2> QED BY <2>1, <2>2, FillKeepsTimes
<1>4. CASE FlushWhole \/ FlushFilled \/ FlushTimeout \/ HarvestBatch
  <2>1. PICK b : complete_batch(b)
    BY <1>4 DEF FlushWhole, FlushFilled, FlushTimeout, HarvestBatch, FinishWhole, FinishBroken
  <2>2. now' = now /\ pc' \in {"flush", "harvest"}
    BY <1>4 DEF FlushWhole, FlushFilled, FlushTimeout, HarvestBatch, Goto
  <2> QED BY <2>1, <2>2, CloseKeepsTimes
<1>5. CASE FlushGap
  <2>1. PICK b \in Least(DOMAIN batch_complete_indices) : bc_idx' = b
    BY <1>5 DEF FlushGap
  <2>2. UNCHANGED <<batch_complete_indices, now>>
    BY <1>5 DEF FlushGap, window
  <2>3. \A c \in DOMAIN batch_complete_indices : c \in Int /\ b <= c /\ b \in Int
    BY <2>1, LedgerAssumption DEF Least, IInv, TypeOK
  <2> QED BY <2>1, <2>2, <2>3 DEF TimeInv
<1>6. CASE Tick
  <2>1. UNCHANGED <<batch_complete_indices, pc, bc_idx>> /\ now' = now + 1
    BY <1>6 DEF Tick, window, locals
  <2>2. \A b \in DOMAIN batch_complete_indices : batch_complete_indices[b] \in Nat
    BY DEF IInv, TypeOK
  <2> QED BY <2>1, <2>2 DEF TimeInv, IInv, TypeOK
<1>7. CASE \/ push_last \/ try_harvest_tail
           \/ \E f \in FecIds : \E p \in Positions(f) : push_code(f, p)
           \/ (\E i \in DataIdx : push_known(i)) \/ KnownReturn
           \/ StreamShred \/ StreamBlocked \/ FlushReturn \/ FlushWait
           \/ HarvestFilled \/ HarvestTail
  <2>1. UNCHANGED <<batch_complete_indices, now>> /\ pc' # "flushfill"
    BY <1>7 DEF push_last, try_harvest_tail, push_code, push_known, KnownReturn, StreamShred, StreamBlocked, AfterStreaming,
       FlushReturn, FlushWait, HarvestFilled, HarvestTail, Goto, Return, window
  <2> QED BY <2>1 DEF TimeInv
<1>8. CASE UNCHANGED vars
  BY <1>8 DEF vars, window, locals, TimeInv
<1> QED BY <1>1, <1>2, <1>3, <1>4, <1>5, <1>6, <1>7, <1>8 DEF Next, Step, Call

-----------------------------------------------------------------------------
(* What FEC can still do.                                                  *)

\* The buffered coding shreds stay among those the feed sends.
LEMMA BufferedStep ==
  ASSUME IInv, BufferedInv, [Next]_vars
  PROVE  BufferedInv'
<1>1. CASE \E f \in FecIds : \E p \in Positions(f) : push_code(f, p)
  BY <1>1 DEF push_code, BufferedInv, Positions
<1>2. CASE \/ push_last \/ try_harvest_tail \/ (\E i \in DataIdx : push_data(i) \/ push_known(i))
           \/ KnownReturn
           \/ StreamShred \/ StreamBlocked \/ FlushReturn \/ FlushGap \/ FlushWait
           \/ HarvestFilled \/ HarvestTail \/ Tick \/ UNCHANGED vars
  <2>1. UNCHANGED fec_sets
    BY <1>2 DEF push_last, try_harvest_tail, push_data, push_known, KnownReturn, StreamShred, StreamBlocked,
       FlushReturn, FlushGap, FlushWait, HarvestFilled, HarvestTail, Tick, vars
  <2> QED BY <2>1 DEF BufferedInv, Positions
<1>3. CASE Fill \/ FlushFill \/ HarvestFill
  BY <1>3 DEF Fill, FlushFill, HarvestFill, try_fec_fill, BufferedInv, Positions
<1>4. CASE FlushWhole \/ FlushFilled \/ FlushTimeout \/ HarvestBatch
  <2>1. PICK b : complete_batch(b)
    BY <1>4 DEF FlushWhole, FlushFilled, FlushTimeout, HarvestBatch, FinishWhole, FinishBroken
  <2> QED BY <2>1 DEF complete_batch, BufferedInv, Positions
<1> QED BY <1>1, <1>2, <1>3, <1>4 DEF Next, Step, Call

\* A set that has gained neither data nor coding shreds can be recovered only
\* if it could before.
LEMMA NothingGained ==
  ASSUME BufferedInv, BufferedInv', NEW f \in FecIds,
         pending' \cap FecRange(f) \subseteq pending \cap FecRange(f),
         fec_sets'[f] \in {fec_sets[f], {}},
         can_recover_with(f)'
  PROVE  can_recover_with(f)
<1> USE LedgerAssumption, FecAssumption DEF DataIdx
<1>1. fec_sets'[f] # {} /\ fec_sets'[f] = fec_sets[f]
  BY DEF can_recover_with
<1>2. IsFiniteSet(FecRange(f))
  <2>1. f \in Int /\ f + NumData[f] - 1 \in Int
    OBVIOUS
  <2> QED BY <2>1, FS_Interval DEF FecRange
<1>3. IsFiniteSet(pending \cap FecRange(f))
  BY <1>2, FS_Intersection
<1>4. /\ IsFiniteSet(pending' \cap FecRange(f))
      /\ Cardinality(pending' \cap FecRange(f)) <= Cardinality(pending \cap FecRange(f))
  <2> DEFINE T == pending' \cap FecRange(f)
             U == pending \cap FecRange(f)
  <2>1. T \in SUBSET U
    OBVIOUS
  <2>2. IsFiniteSet(U)
    BY <1>3
  <2> HIDE DEF T, U
  <2>3. IsFiniteSet(T) /\ Cardinality(T) <= Cardinality(U)
    BY <2>1, <2>2, FS_Subset
  <2> QED BY <2>3 DEF T, U
<1>5. IsFiniteSet(fec_sets[f])
  <2>1. NumCoding[f] - 1 \in Int /\ 0 \in Int
    OBVIOUS
  <2>2. IsFiniteSet(0 .. (NumCoding[f] - 1))
    BY <2>1, FS_Interval
  <2>3. fec_sets[f] \in SUBSET (0 .. (NumCoding[f] - 1))
    BY DEF BufferedInv, Positions
  <2> QED BY <2>2, <2>3, FS_Subset
<1>6. /\ Cardinality(pending \cap FecRange(f)) \in Nat
      /\ Cardinality(pending' \cap FecRange(f)) \in Nat
      /\ Cardinality(fec_sets[f]) \in Nat
  BY <1>3, <1>4, <1>5, FS_CardinalityType
<1>7. Cardinality(pending' \cap FecRange(f)) + Cardinality(fec_sets[f]) >= NumData[f]
  BY <1>1 DEF can_recover_with
<1>8. NumData[f] \in Nat
  BY FecAssumption
<1>9. Cardinality(pending \cap FecRange(f)) + Cardinality(fec_sets[f]) >= NumData[f]
  BY <1>4, <1>6, <1>7, <1>8
<1> QED BY <1>1, <1>9 DEF can_recover_with

\* A recovery takes nothing from other sets, and the set it asks for is spent
\* afterwards: what of it is wanted is pending.
LEMMA FillSpends ==
  ASSUME IInv, BufferedInv, BufferedInv', NEW h, try_fec_fill(h)
  PROVE  /\ pending \subseteq pending'
         /\ \A f \in FecIds : can_recover_with(f)' => can_recover_with(f)
         /\ (h \in FecIds \ Unbuildable /\ can_recover_with(h)) =>
              (FecRange(h) \cap (batch_start .. LastIdx)) \ {LastIdx} \subseteq pending'
<1> USE LedgerAssumption, FecAssumption DEF DataIdx
<1>1. pending' = pending \cup Inserted(h)
  BY DEF try_fec_fill, pending
<1>2. ASSUME NEW f \in FecIds, can_recover_with(f)'
      PROVE  can_recover_with(f)
  <2>1. CASE f \in select_recoverable_set(h)
    BY <2>1 DEF select_recoverable_set
  <2>2. CASE f \notin select_recoverable_set(h)
    <3>1. Inserted(h) \cap FecRange(f) = {}
      <4> SUFFICES ASSUME NEW i \in Inserted(h) \cap FecRange(f) PROVE FALSE
        OBVIOUS
      <4>1. PICK g \in select_recoverable_set(h) : i \in FecRange(g)
        BY DEF Inserted, Rebuilt
      <4>2. g \in FecIds /\ g # f
        BY <2>2, <4>1 DEF select_recoverable_set
      <4> QED BY <4>1, <4>2
    <3>2. pending' \cap FecRange(f) \subseteq pending \cap FecRange(f)
      BY <1>1, <3>1
    <3>3. fec_sets'[f] \in {fec_sets[f], {}}
      BY DEF try_fec_fill
    <3> QED BY <1>2, <3>2, <3>3, NothingGained
  <2> QED BY <2>1, <2>2
<1>3. ASSUME h \in FecIds \ Unbuildable, can_recover_with(h),
             NEW i \in FecRange(h) \cap (batch_start .. LastIdx), i # LastIdx
      PROVE  i \in pending'
  <2>1. select_recoverable_set(h) \ Unbuildable = {h}
    BY <1>3 DEF select_recoverable_set
  <2>2. i \notin pending => i \in Rebuilt(h)
    BY <1>3, <2>1 DEF Rebuilt
  <2>3. i >= batch_start
    BY DEF IInv, TypeOK
  <2> QED BY <1>1, <1>3, <2>2, <2>3 DEF Inserted
<1> QED BY <1>1, <1>2, <1>3

\* Closing a batch makes no set recoverable.
LEMMA CloseGainsNothing ==
  ASSUME BufferedInv, BufferedInv', NEW b, complete_batch(b), NEW f \in FecIds, can_recover_with(f)'
  PROVE  can_recover_with(f)
<1>1. pending' \subseteq pending /\ fec_sets'[f] \in {fec_sets[f], {}}
  BY DEF complete_batch, pending
<1> QED BY <1>1, NothingGained

\* A FEC loop gets one set further.
LEMMA FillKeepsSpent ==
  ASSUME IInv, BufferedInv, BufferedInv', SpentInv,
         NEW h \in hints, try_fec_fill(h), hints' = hints \ {h},
         UNCHANGED <<pc, bc_idx>>, pc \in {"flushfill", "harvestfill"}
  PROVE  SpentInv'
<1> USE LedgerAssumption DEF DataIdx
<1>1. /\ pending \subseteq pending'
      /\ \A f \in FecIds : can_recover_with(f)' => can_recover_with(f)
      /\ (h \in FecIds \ Unbuildable /\ can_recover_with(h)) =>
           (FecRange(h) \cap (batch_start .. LastIdx)) \ {LastIdx} \subseteq pending'
  BY FillSpends
<1>2. UNCHANGED batch_start
  BY DEF try_fec_fill
<1>3. bc_idx \in 0 .. LastIdx /\ (pc = "flushfill" => bc_idx < LastIdx)
  BY DEF IInv, TypeOK, WindowInv
<1>4. ASSUME pc = "flushfill", NEW f \in FecIds \ (Unbuildable \cup hints'), can_recover_with(f)'
      PROVE  (batch_start .. bc_idx) \cap FecRange(f) \subseteq pending'
  <2>1. can_recover_with(f)
    BY <1>1, <1>4
  <2>2. CASE f = h
    <3>1. (FecRange(h) \cap (batch_start .. LastIdx)) \ {LastIdx} \subseteq pending'
      BY <1>1, <1>4, <2>1, <2>2
    <3>2. batch_start .. bc_idx \subseteq (batch_start .. LastIdx) \ {LastIdx}
      BY <1>3, <1>4 DEF IInv, TypeOK
    <3> QED BY <2>2, <3>1, <3>2
  <2>3. CASE f # h
    BY <1>1, <1>4, <2>1, <2>3 DEF SpentInv, Spent
  <2> QED BY <2>2, <2>3
<1>5. ASSUME pc = "harvestfill", NEW f \in FecIds \ (Unbuildable \cup hints'), can_recover_with(f)'
      PROVE  Wanted \cap FecRange(f) \subseteq pending'
  <2>1. can_recover_with(f)
    BY <1>1, <1>5
  <2>2. CASE f = h
    BY <1>1, <1>5, <2>1, <2>2 DEF Wanted
  <2>3. CASE f # h
    BY <1>1, <1>5, <2>1, <2>3 DEF SpentInv, Spent
  <2> QED BY <2>2, <2>3
<1> QED BY <1>2, <1>4, <1>5 DEF SpentInv, Spent, Wanted, NoRecoverableGap, Settled

\* No step leaves SpentInv.
LEMMA SpentStep ==
  ASSUME IInv, IInv', BufferedInv, BufferedInv', SpentInv, [Next]_vars
  PROVE  SpentInv'
<1> USE LedgerAssumption, FecAssumption DEF DataIdx
<1>1. CASE pc' \notin {"idle", "known", "flushfill", "harvestfill", "harvest"}
  BY <1>1 DEF SpentInv, NoRecoverableGap, Settled
<1>2. CASE Tick \/ UNCHANGED vars
  <2>1. UNCHANGED <<pool, recovered, fec_sets, batch_complete_indices, batch_start, pc, bc_idx, hints>>
    BY <1>2 DEF Tick, vars, window, locals
  <2>2. /\ \A f \in FecIds : can_recover_with(f)' <=> can_recover_with(f)
        /\ UNCHANGED <<pending, Wanted>>
    BY <2>1 DEF can_recover_with, pending, Wanted
  <2>3. NoRecoverableGap' <=> NoRecoverableGap
    BY <2>1, <2>2 DEF NoRecoverableGap, Settled, Missing, Least
  <2> QED BY <2>1, <2>2, <2>3 DEF SpentInv, Spent
<1>12. CASE (\E i \in DataIdx : push_known(i)) \/ KnownReturn
  <2>1. /\ UNCHANGED <<pool, recovered, fec_sets, batch_complete_indices, batch_start>>
        /\ pc \in {"idle", "known"} /\ pc' \in {"idle", "known"}
    BY <1>12 DEF push_known, KnownReturn, Goto, Return, window
  <2>2. \A f \in FecIds : can_recover_with(f)' <=> can_recover_with(f)
    BY <2>1 DEF can_recover_with, pending
  <2>3. NoRecoverableGap' <=> NoRecoverableGap
    BY <2>1, <2>2 DEF NoRecoverableGap, Settled, Missing, Least, pending
  <2> QED BY <2>1, <2>3 DEF SpentInv
<1>3. CASE try_harvest_tail
  <2>1. hints' = FecKeys /\ pc' = "harvestfill" /\ UNCHANGED fec_sets
    BY <1>3 DEF try_harvest_tail
  <2>2. \A f \in FecIds \ hints' : ~ can_recover_with(f)'
    BY <2>1 DEF FecKeys, can_recover_with
  <2> QED BY <2>1, <2>2 DEF SpentInv, Spent, NoRecoverableGap, Settled
<1>4. CASE FlushReturn
  <2>1. pc' = "idle" /\ DOMAIN batch_complete_indices' = {}
    BY <1>4 DEF FlushReturn, Return, window
  <2> QED BY <2>1 DEF SpentInv, NoRecoverableGap, Least
<1>5. CASE FlushGap
  <2>1. PICK b \in Least(DOMAIN batch_complete_indices) :
          bc_idx' = b /\ hints' = {f \in FecKeys : f + NumData[f] > batch_start /\ f <= b}
    BY <1>5 DEF FlushGap
  <2>2. pc' = "flushfill" /\ UNCHANGED <<fec_sets, batch_start, pool, recovered>>
    BY <1>5 DEF FlushGap, window
  <2>3. b \in Int /\ batch_start \in Int
    BY <2>1 DEF Least, IInv, TypeOK
  <2>4. ASSUME NEW f \in FecIds \ hints', can_recover_with(f)'
        PROVE  (batch_start .. b) \cap FecRange(f) = {}
    <3>1. f \in FecKeys
      BY <2>2, <2>4 DEF can_recover_with, FecKeys
    <3>2. f + NumData[f] <= batch_start \/ f > b
      BY <2>1, <2>3, <2>4, <3>1
    <3> QED BY <2>3, <3>2 DEF FecRange
  <2> QED BY <2>1, <2>2, <2>4 DEF SpentInv, Spent, NoRecoverableGap, Settled
<1>6. CASE FlushFill
  <2>1. PICK h \in hints : try_fec_fill(h) /\ hints' = hints \ {h}
    BY <1>6 DEF FlushFill, Least
  <2> QED BY <1>6, <2>1, FillKeepsSpent DEF FlushFill
<1>7. CASE HarvestFill
  <2>1. PICK h \in hints : try_fec_fill(h) /\ hints' = hints \ {h}
    BY <1>7 DEF HarvestFill, Least
  <2> QED BY <1>7, <2>1, FillKeepsSpent DEF HarvestFill
<1>8. CASE FlushWait
  <2>1. /\ pc = "flushfill" /\ hints = {} /\ pc' = "idle"
        /\ UNCHANGED <<pool, recovered, fec_sets, batch_complete_indices, batch_start>>
    BY <1>8 DEF FlushWait, Return, window
  <2>2. bc_idx \in DOMAIN batch_complete_indices
    BY <2>1 DEF IInv, WindowInv
  <2>3. SUFFICES ASSUME NEW b \in Least(DOMAIN batch_complete_indices),
                        NEW f \in FecIds \ Unbuildable, can_recover_with(f)'
                 PROVE  Missing(batch_start, b) \cap FecRange(f) = {}
    BY <2>1 DEF SpentInv, NoRecoverableGap, Missing, pending
  <2>4. b <= bc_idx /\ b \in Int /\ bc_idx \in Int /\ batch_start \in Int
    BY <2>2 DEF Least, IInv, TypeOK
  <2>5. can_recover_with(f)
    BY <2>1, <2>3 DEF can_recover_with, pending
  <2>6. (batch_start .. bc_idx) \cap FecRange(f) \subseteq pending
    BY <2>1, <2>5 DEF SpentInv, Spent
  <2>7. batch_start .. b \subseteq batch_start .. bc_idx
    BY <2>4
  <2> QED BY <2>6, <2>7 DEF Missing
<1>9. CASE HarvestFilled
  <2>1. /\ pc = "harvestfill" /\ hints = {} /\ pc' = "harvest"
        /\ UNCHANGED <<pool, recovered, fec_sets, batch_start>>
    BY <1>9 DEF HarvestFilled, Goto, window
  <2>2. \A f \in FecIds : can_recover_with(f)' <=> can_recover_with(f)
    BY <2>1 DEF can_recover_with, pending
  <2> QED BY <2>1, <2>2 DEF SpentInv, Spent, Wanted, pending, NoRecoverableGap, Settled
<1>10. CASE HarvestBatch
  <2>1. PICK b : b \in pending \cap Boundary /\ complete_batch(b)
    BY <1>10 DEF HarvestBatch, FinishWhole, FinishBroken, Least
  <2>2. pc = "harvest" /\ pc' = "harvest"
    BY <1>10 DEF HarvestBatch
  <2>3. ASSUME NEW f \in FecIds \ Unbuildable, can_recover_with(f)',
               NEW i \in Wanted' \cap FecRange(f)
        PROVE  i \in pending'
    <3>1. can_recover_with(f)
      BY <2>1, <2>3, CloseGainsNothing
    <3>2. batch_start' = b + 1 /\ b >= batch_start /\ b \in Int /\ batch_start \in Int
      BY <2>1 DEF complete_batch, IInv, TypeOK, WindowInv
    <3>3. i \in Wanted /\ i >= b + 1
      BY <3>2 DEF Wanted
    <3>4. i \in pending
      BY <2>2, <3>1, <3>3 DEF SpentInv, Spent
    <3> QED BY <2>1, <3>3, <3>4 DEF complete_batch, pending
  <2> QED BY <2>2, <2>3 DEF SpentInv, Spent, NoRecoverableGap, Settled
<1>11. CASE \/ push_last \/ \E i \in DataIdx : push_data(i)
            \/ \E f \in FecIds : \E p \in Positions(f) : push_code(f, p)
            \/ StreamShred \/ StreamBlocked \/ Fill
            \/ FlushWhole \/ FlushFilled \/ FlushTimeout \/ HarvestTail
  <2>1. pc' \in {"stream", "restream", "fill", "flush", "retired"}
    BY <1>11 DEF push_last, push_data, push_code, StreamShred, StreamBlocked, AfterStreaming, Fill,
       FlushWhole, FlushFilled, FlushTimeout, HarvestTail, Goto, Return
  <2> QED BY <1>1, <2>1
<1> QED BY <1>2, <1>3, <1>4, <1>5, <1>6, <1>7, <1>8, <1>9, <1>10, <1>11, <1>12
  DEF Next, Step, Call

\* The additions hold in every reachable state as well.
THEOREM RecoveryInvariance == Spec => []RecoveryInv
<1>1. Init => RecoveryInv
  <2> SUFFICES ASSUME Init PROVE RecoveryInv
    OBVIOUS
  <2>1. TimeInv
    BY DEF Init, with_config, TimeInv
  <2>2. BufferedInv
    BY DEF Init, with_config, BufferedInv
  <2>3. SpentInv
    BY DEF Init, with_config, SpentInv, NoRecoverableGap, Least
  <2> QED BY <2>1, <2>2, <2>3 DEF RecoveryInv
<1>2. IInv /\ IInv' /\ RecoveryInv /\ [Next]_vars => RecoveryInv'
  BY TimeStep, BufferedStep, SpentStep DEF RecoveryInv
<1> QED BY <1>1, <1>2, Invariance, PTL DEF Spec

\* When a call has returned, FEC can fill no gap before the first known
\* boundary.
THEOREM GapsFilled == Spec => []NoRecoverableGap
<1>1. RecoveryInv => NoRecoverableGap
  BY DEF RecoveryInv, SpentInv, NoRecoverableGap
<1> QED BY <1>1, RecoveryInvariance, PTL

\* The harvest decodes with nothing left to recover.
THEOREM HarvestComplete == Spec => []HarvestRecoversAll
<1>1. ASSUME IInv, RecoveryInv PROVE HarvestRecoversAll
  <2> SUFFICES ASSUME pc = "harvest", NEW f \in FecIds \ Unbuildable, can_recover_with(f),
                      NEW i \in FecRange(f) \ pending, i # LastIdx
               PROVE  i < batch_start
    BY DEF HarvestRecoversAll
  <2>1. i \in 0 .. LastIdx
    BY FecAssumption DEF DataIdx
  <2>2. i \notin Wanted
    BY <1>1 DEF RecoveryInv, SpentInv, Spent
  <2> QED BY <1>1, <2>1, <2>2, LedgerAssumption DEF Wanted, IInv, TypeOK, DataIdx
<1> QED BY <1>1, Invariance, RecoveryInvariance, PTL

\* A call that flushes leaves no overdue batch at the head when it returns; the
\* only one that does not flush is push_data of a shred pending or passed.
THEOREM OverdueReleased == Spec => NoOverdueBatch
<1>1. ASSUME IInv, RecoveryInv, [Next]_vars, ~ Settled, pc' = "idle",
             NEW b \in Least(DOMAIN batch_complete_indices')
      PROVE  now' - batch_complete_indices'[b] < StuckTimeout
  <2>1. FlushReturn \/ FlushWait
    BY <1>1 DEF Settled, Next, Step, Call, push_last, push_data, push_known, push_code,
       try_harvest_tail, Tick, vars, KnownReturn,
       StreamShred, StreamBlocked, AfterStreaming, Fill, FlushWhole, FlushGap, FlushFill, FlushFilled,
       FlushTimeout, HarvestFill, HarvestFilled, HarvestBatch, HarvestTail, Goto, Return
  <2>2. CASE FlushReturn
    BY <1>1, <2>2 DEF FlushReturn, window, Least
  <2>3. CASE FlushWait
    <3>1. /\ pc = "flushfill" /\ UNCHANGED <<batch_complete_indices, now>>
          /\ now - batch_complete_indices[bc_idx] < StuckTimeout
      BY <2>3 DEF FlushWait, window
    <3>2. bc_idx \in DOMAIN batch_complete_indices /\ b \in DOMAIN batch_complete_indices
      BY <1>1, <3>1 DEF IInv, WindowInv, Least
    <3>3. /\ batch_complete_indices[bc_idx] \in Nat /\ batch_complete_indices[b] \in Nat
          /\ now \in Nat /\ b \in Int /\ bc_idx \in Int
      BY <1>1, <3>2, LedgerAssumption DEF IInv, TypeOK
    <3>4. b <= bc_idx
      BY <1>1, <3>1, <3>2 DEF Least
    <3>5. batch_complete_indices[bc_idx] <= batch_complete_indices[b]
      BY <1>1, <3>1, <3>2, <3>3, <3>4 DEF RecoveryInv, TimeInv
    <3> QED BY <3>1, <3>3, <3>5, ConfigAssumption
  <2> QED BY <2>1, <2>2, <2>3
<1>2. IInv /\ RecoveryInv /\ [Next]_vars =>
        [(~ Settled /\ pc' = "idle") =>
           \A b \in Least(DOMAIN batch_complete_indices') :
             now' - batch_complete_indices'[b] < StuckTimeout]_vars
  BY <1>1
<1> QED BY <1>2, Invariance, RecoveryInvariance, PTL DEF Spec, NoOverdueBatch

-----------------------------------------------------------------------------
(* Whole batches are handed over, and counted as what they were.           *)

\* The last byte of the batch a transaction is in lies in that batch.
LEMMA EndInBatch ==
  ASSUME NEW b \in Boundary, NEW t \in Txs, EndsIn[t] <= b
  PROVE  \E e \in BatchEnds \cap (EndsIn[t] .. b) : SameBatch(EndsIn[t], e)
<1>1. PICK e \in BatchEnds : EndsIn[t] <= e /\ SameBatch(EndsIn[t], e)
  BY BatchAssumption
<1>2. e \in Int /\ b \in Int /\ EndsIn[t] \in Int
  BY LedgerAssumption DEF DataIdx
<1>3. e <= b
  BY <1>1, <1>2 DEF SameBatch
<1> QED BY <1>1, <1>2, <1>3

\* decode_batch reads a clean batch whole, whatever lies behind it.
LEMMA BatchReadWhole ==
  ASSUME NEW lo \in DataIdx, NEW b, IsBatch(lo, b), lo .. b \cap Garbled = {},
         NEW t \in EndingIn(lo .. b)
  PROVE  t \in decode_batch(lo, b)
<1> USE LedgerAssumption DEF DataIdx
<1>1. t \in Txs /\ EndsIn[t] \in lo .. b /\ b \in Boundary /\ b \in Int
  BY DEF EndingIn, IsBatch
<1>2. PICK e \in BatchEnds \cap (EndsIn[t] .. b) : SameBatch(EndsIn[t], e)
  BY <1>1, EndInBatch
<1>3. e \in lo .. b
  BY <1>1, <1>2
<1>4. SameBatch(lo, e) /\ (lo .. e) \cap Garbled = {}
  BY <1>1, <1>3 DEF IsBatch, SameBatch
<1> QED BY <1>2, <1>4 DEF decode_batch, IsBatch

\* decode_concatenated reads a clean batch whole that stands at its front.
LEMMA FrontReadWhole ==
  ASSUME NEW lo \in DataIdx, NEW b, IsBatch(lo, b), lo .. b \cap Garbled = {},
         NEW t \in EndingIn(lo .. b)
  PROVE  t \in decode_concatenated(lo, b)
<1> USE LedgerAssumption DEF DataIdx
<1>1. t \in Txs /\ EndsIn[t] \in lo .. b /\ b \in Boundary /\ b \in Int
  BY DEF EndingIn, IsBatch
<1>2. PICK e \in BatchEnds \cap (EndsIn[t] .. b) : SameBatch(EndsIn[t], e)
  BY <1>1, EndInBatch
<1>3. e \in lo .. b /\ lo .. e \subseteq lo .. b
  BY <1>1, <1>2
<1>4. lo \in ReadFrom(lo) /\ lo <= EndsIn[t]
  BY <1>1 DEF IsBatch, ReadFrom
<1>5. (lo .. e) \cap Garbled = {}
  BY <1>3
<1> QED BY <1>2, <1>4, <1>5 DEF decode_concatenated

\* A transaction at or behind batch_start that comes out of a decoder has been
\* handed over exactly once then.
LEMMA DecodedIsDelivered ==
  ASSUME IInv, NEW D, record_sig(D), NEW t \in D, t \in Txs, batch_start <= EndsIn[t]
  PROVE  delivered'[t] = 1
BY DEF record_sig, IInv, DeliveredInv

\* Closing the batch at the first pending boundary hands it over.
LEMMA CloseDelivers ==
  ASSUME IInv, NEW c \in Boundary \cap pending, \A d \in Boundary \cap pending : c <= d,
         \/ Missing(batch_start, c) = {} /\ FinishWhole(c)
         \/ \E timedOut \in BOOLEAN : FinishBroken(c, timedOut)
  PROVE  BatchDelivered
<1> USE LedgerAssumption DEF DataIdx
<1>0. batch_start' = c + 1
  BY DEF FinishWhole, FinishBroken, complete_batch
<1>1. batch_start' = c + 1 /\ c \in Int /\ batch_start \in 0 .. LastIdx /\ c < LastIdx
  BY <1>0 DEF IInv, TypeOK
<1>2. SUFFICES ASSUME NEW lo \in batch_start .. c, NEW b \in batch_start .. c,
                      IsBatch(lo, b), lo .. b \subseteq pending \ Garbled,
                      NEW t \in EndingIn(lo .. b)
               PROVE  delivered'[t] = 1
  <2>1. batch_start .. (batch_start' - 1) = batch_start .. c
    BY <1>1
  <2> QED BY <2>1, <1>2 DEF BatchDelivered
<1>3. lo \in Int /\ b \in Int /\ lo <= b
  BY <1>2 DEF IsBatch
<1>4. b = c /\ lo \in DataIdx
  <2>1. b \in Boundary \cap pending
    BY <1>2, <1>3 DEF IsBatch
  <2>2. c <= b /\ b <= c
    BY <1>1, <2>1
  <2> QED BY <1>1, <1>3, <2>2
<1>5. t \in Txs /\ batch_start <= EndsIn[t] /\ lo .. b \cap Garbled = {}
  <2>1. t \in Txs /\ EndsIn[t] \in lo .. b
    BY DEF EndingIn
  <2>2. batch_start <= EndsIn[t]
    BY <1>1, <1>3, <2>1
  <2> QED BY <1>2, <2>1, <2>2
<1>6. lo = batch_start \/ (lo - 1 \in Boundary /\ lo - 1 \in batch_start .. (c - 1))
  BY <1>1, <1>2 DEF IsBatch, StartsBatch
<1>7. lo # batch_start => lo - 1 \notin pending
  BY <1>1, <1>6
<1>8. CASE Missing(batch_start, c) = {} /\ FinishWhole(c)
  <2>1. lo = batch_start
    BY <1>1, <1>6, <1>7, <1>8 DEF Missing
  <2>2. t \in decode_batch(batch_start, c)
    BY <1>2, <1>4, <1>5, <2>1, BatchReadWhole
  <2>3. record_sig(decode_batch(batch_start, c))
    BY <1>8 DEF FinishWhole
  <2> QED BY <1>5, <2>2, <2>3, DecodedIsDelivered
<1>9. CASE \E timedOut \in BOOLEAN : FinishBroken(c, timedOut)
  <2>1. t \in decode_concatenated(lo, c)
    BY <1>2, <1>4, <1>5, FrontReadWhole
  <2>2. lo \in RunStarts(batch_start, c)
    BY <1>2, <1>3, <1>7 DEF RunStarts
  <2>3. c \in RunFrom(lo, c)
    BY <1>2, <1>3, <1>4 DEF RunFrom
  <2>4. t \in salvage_contiguous_runs_in(batch_start, c)
    BY <1>5, <2>1, <2>2, <2>3 DEF salvage_contiguous_runs_in
  <2>5. record_sig(salvage_contiguous_runs_in(batch_start, c))
    BY <1>9 DEF FinishBroken
  <2> QED BY <1>5, <2>4, <2>5, DecodedIsDelivered
<1> QED BY <1>8, <1>9

\* The first known boundary is the first pending one.
LEMMA FirstKnown ==
  ASSUME IInv, NEW c \in Least(DOMAIN batch_complete_indices)
  PROVE  c \in Boundary \cap pending /\ \A d \in Boundary \cap pending : c <= d
BY DEF IInv, WindowInv, Least

\* How a step closes a batch whose boundary was not chosen too early.
LEMMA ClosingStep ==
  ASSUME IInv, [Next]_vars, ~ StaleChoice, batch_start' # batch_start \/ stats' # stats
  PROVE  \E c \in Boundary \cap pending :
           /\ \A d \in Boundary \cap pending : c <= d
           /\ \/ Missing(batch_start, c) = {} /\ FinishWhole(c)
              \/ \E timedOut \in BOOLEAN : FinishBroken(c, timedOut)
<1>1. CASE FlushWhole
  BY <1>1, FirstKnown DEF FlushWhole
<1>2. CASE FlushFilled \/ FlushTimeout
  <2>1. bc_idx \in Least(DOMAIN batch_complete_indices)
    BY <1>2 DEF FlushFilled, FlushTimeout, StaleChoice
  <2> QED BY <1>2, <2>1, FirstKnown DEF FlushFilled, FlushTimeout
<1>3. CASE HarvestBatch
  BY <1>3 DEF HarvestBatch, Least
<1>4. CASE ~ (FlushWhole \/ FlushFilled \/ FlushTimeout \/ HarvestBatch)
  <2>1. UNCHANGED <<batch_start, stats>>
    BY <1>4 DEF Next, Step, Call, push_last, push_data, push_known, push_code, try_harvest_tail,
       Tick, vars, KnownReturn, StreamShred, StreamBlocked, Fill, FlushReturn, FlushGap, FlushFill, FlushWait,
       HarvestFill, HarvestFilled, HarvestTail, try_fec_fill
  <2> QED BY <2>1
<1> QED BY <1>1, <1>2, <1>3, <1>4

\* Only a stale choice of try_flush_batches drops a batch that is pending as a
\* whole and readable; whatever FEC recovers, when, and in whatever order.
THEOREM WholeBatchesKept == Spec => LostByStaleChoiceOnly
<1>1. ASSUME IInv, [Next]_vars, ~ StaleChoice
      PROVE  BatchDelivered
  <2>1. CASE batch_start' = batch_start
    <3>1. batch_start .. (batch_start' - 1) = {}
      BY <1>1, <2>1, LedgerAssumption DEF IInv, TypeOK, DataIdx
    <3> QED BY <3>1 DEF BatchDelivered
  <2>2. CASE batch_start' # batch_start
    <3>1. PICK c \in Boundary \cap pending :
            /\ \A d \in Boundary \cap pending : c <= d
            /\ \/ Missing(batch_start, c) = {} /\ FinishWhole(c)
               \/ \E timedOut \in BOOLEAN : FinishBroken(c, timedOut)
      BY <1>1, <2>2, ClosingStep
    <3> QED BY <1>1, <3>1, CloseDelivers
  <2> QED BY <2>1, <2>2
<1>2. IInv /\ [Next]_vars => [StaleChoice \/ BatchDelivered]_vars
  BY <1>1
<1> QED BY <1>2, Invariance, PTL DEF Spec, LostByStaleChoiceOnly

\* A batch that decode_batch reads whole without a new transaction had been
\* streamed whole, or was read as an empty Vec.
LEMMA CloseCountsHonestly ==
  ASSUME IInv, NEW c \in Boundary \cap pending, \A d \in Boundary \cap pending : c <= d,
         Missing(batch_start, c) = {}, BatchReads(batch_start, c), batch_start \notin ZeroCounts,
         decode_batch(batch_start, c) \ yielded_sigs = {},
         NEW t \in EndingIn(batch_start .. c)
  PROVE  delivered[t] = 1
<1> USE LedgerAssumption DEF DataIdx
<1>1. /\ c \in Int /\ batch_start \in 0 .. LastIdx /\ c < LastIdx
      /\ t \in Txs /\ EndsIn[t] \in batch_start .. c
  BY DEF IInv, TypeOK, EndingIn
<1>2. SameBatch(batch_start, c)
  <2> SUFFICES ASSUME NEW d \in Boundary \cap (batch_start .. (c - 1)) PROVE FALSE
    BY DEF SameBatch
  <2>1. d \in pending
    BY <1>1 DEF Missing
  <2> QED BY <1>1, <2>1
<1>3. PICK g \in BatchEnds \cap (batch_start .. c) : (batch_start .. g) \cap Garbled = {}
  BY DEF BatchReads
<1>4. PICK e \in BatchEnds \cap (EndsIn[t] .. c) : SameBatch(EndsIn[t], e)
  BY <1>1, EndInBatch
<1>5. SameBatch(batch_start, e)
  BY <1>1, <1>2 DEF SameBatch
<1>6. ASSUME NEW i \in batch_start .. e, i > g
      PROVE  i \notin Garbled
  <2>1. i \in DataIdx
    BY <1>1
  <2>2. SameBatch(g, i)
    BY <1>1, <1>2, <1>6 DEF SameBatch
  <2>3. i \in Padding
    BY <1>6, <2>1, <2>2 DEF Padding
  <2> QED BY <2>3, BatchAssumption
<1>7. (batch_start .. e) \cap Garbled = {}
  BY <1>1, <1>3, <1>6
<1>8. t \in decode_batch(batch_start, c)
  BY <1>1, <1>4, <1>5, <1>7 DEF decode_batch, EndingIn, BatchReads
<1> QED BY <1>8 DEF IInv, DeliveredInv

\* A salvaged batch is never counted as streaming.
LEMMA SalvageCountsNoStreaming ==
  ASSUME stats \in BatchStats, NEW new, NEW timedOut \in BOOLEAN, CountSalvaged(new, timedOut)
  PROVE  stats'.streaming = stats.streaming
<1> DEFINE a == IF new # {} THEN 1 ELSE 0
           b == IF new = {} THEN 1 ELSE 0
           c == IF timedOut THEN 1 ELSE 0
<1>1. stats' = [stats EXCEPT !.fallback = @ + a, !.skipped = @ + b, !.timeout = @ + c]
  BY DEF CountSalvaged
<1> HIDE DEF a, b, c
<1> QED BY <1>1 DEF BatchStats

\* A batch is counted as streaming only when streaming missed nothing of it,
\* unless the choice was stale or the count arrived garbled as zero.
LEMMA HonestStep ==
  ASSUME IInv, [Next]_vars, ~ StaleChoice, stats'.streaming > stats.streaming,
         batch_start \notin ZeroCounts,
         NEW t \in EndingIn(batch_start .. (batch_start' - 1))
  PROVE  delivered[t] = 1
<1>1. stats \in BatchStats
  BY DEF IInv, TypeOK
<1>2. stats' # stats
  BY <1>1 DEF BatchStats
<1>3. PICK c \in Boundary \cap pending :
        /\ \A d \in Boundary \cap pending : c <= d
        /\ \/ Missing(batch_start, c) = {} /\ FinishWhole(c)
           \/ \E timedOut \in BOOLEAN : FinishBroken(c, timedOut)
  BY <1>2, ClosingStep
<1>4. ~ \E timedOut \in BOOLEAN : FinishBroken(c, timedOut)
  <2> SUFFICES ASSUME NEW timedOut \in BOOLEAN, FinishBroken(c, timedOut) PROVE FALSE
    OBVIOUS
  <2>1. CountSalvaged(salvage_contiguous_runs_in(batch_start, c) \ yielded_sigs, timedOut)
    BY DEF FinishBroken
  <2>2. stats'.streaming = stats.streaming
    BY <1>1, <2>1, SalvageCountsNoStreaming
  <2>3. stats.streaming \in Nat
    BY <1>1 DEF BatchStats
  <2> QED BY <2>2, <2>3
<1>5. /\ BatchReads(batch_start, c) /\ decode_batch(batch_start, c) \ yielded_sigs = {}
      /\ batch_start' = c + 1
  BY <1>1, <1>3, <1>4 DEF FinishWhole, CountDecoded, CountSkipped, complete_batch, BatchStats
<1>6. c \in Int
  BY LedgerAssumption
<1>7. t \in EndingIn(batch_start .. c)
  BY <1>5, <1>6
<1> QED BY <1>3, <1>4, <1>5, <1>7, CloseCountsHonestly

-----------------------------------------------------------------------------
(* Slots without coding shreds: no choice is ever stale.                   *)

\* The feed sends no coding shred.
NoCodingShreds == \A f \in FecIds : NumCoding[f] = 0

\* Without coding shreds nothing is recovered.
LEMMA NothingRecovered ==
  ASSUME NoCodingShreds, BufferedInv, NEW h, try_fec_fill(h)
  PROVE  UNCHANGED DOMAIN batch_complete_indices
<1>1. \A f \in FecIds : fec_sets[f] = {}
  BY DEF NoCodingShreds, BufferedInv, Positions
<1>2. Inserted(h) = {}
  BY <1>1 DEF Inserted, Rebuilt, select_recoverable_set, can_recover_with
<1> QED BY <1>2 DEF try_fec_fill, NoteBoundaries

\* So the boundary chosen stays the first one while FEC is tried.
LEMMA NeverStale ==
  ASSUME NoCodingShreds
  PROVE  Spec => []~ StaleChoice
<1>1. Init => ~ StaleChoice
  BY DEF Init, with_config, StaleChoice
<1>2. ASSUME BufferedInv, ~ StaleChoice, [Next]_vars
      PROVE  ~ StaleChoice'
  <2>1. CASE pc' # "flushfill"
    BY <2>1 DEF StaleChoice
  <2>2. CASE FlushGap
    BY <2>2 DEF FlushGap, StaleChoice, window
  <2>3. CASE FlushFill
    <3>1. UNCHANGED <<DOMAIN batch_complete_indices, bc_idx, pc>>
      BY <1>2, <2>3, NothingRecovered DEF FlushFill
    <3> QED BY <1>2, <3>1 DEF StaleChoice, Least
  <2>4. CASE Tick \/ UNCHANGED vars
    BY <1>2, <2>4 DEF Tick, vars, window, locals, StaleChoice, Least
  <2>5. CASE pc' = "flushfill" /\ ~ (FlushGap \/ FlushFill \/ Tick \/ UNCHANGED vars)
    BY <1>2, <2>5 DEF Next, Step, Call, push_last, push_data, push_known, push_code,
       try_harvest_tail, KnownReturn, StreamShred, StreamBlocked, AfterStreaming, Fill, FlushReturn, FlushWhole, FlushFilled,
       FlushTimeout, FlushWait, HarvestFill, HarvestFilled, HarvestBatch, HarvestTail, Goto, Return
  <2> QED BY <2>1, <2>2, <2>3, <2>4, <2>5
<1>3. RecoveryInv => BufferedInv
  BY DEF RecoveryInv
<1> QED BY <1>1, <1>2, <1>3, RecoveryInvariance, PTL DEF Spec

\* Without coding shreds no whole and readable batch is ever dropped.
THEOREM CompleteDelivery ==
  ASSUME NoCodingShreds
  PROVE  Spec => CompleteBatchDelivered
<1>1. ~ StaleChoice /\ [StaleChoice \/ BatchDelivered]_vars => [BatchDelivered]_vars
  OBVIOUS
<1> QED BY <1>1, NeverStale, WholeBatchesKept, PTL DEF LostByStaleChoiceOnly, CompleteBatchDelivered

\* Without coding shreds batches_decoded_streaming counts only batches handed
\* over as a whole, and batches whose count arrived garbled as zero.
THEOREM CountHonest ==
  ASSUME NoCodingShreds
  PROVE  Spec => StreamingCountHonest
<1>1. IInv /\ ~ StaleChoice /\ [Next]_vars =>
        [stats'.streaming > stats.streaming =>
           \/ batch_start \in ZeroCounts
           \/ \A t \in EndingIn(batch_start .. (batch_start' - 1)) : delivered[t] = 1]_vars
  BY HonestStep
<1> QED BY <1>1, NeverStale, Invariance, PTL DEF Spec, StreamingCountHonest
=============================================================================
