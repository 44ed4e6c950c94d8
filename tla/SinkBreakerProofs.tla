------------------------- MODULE SinkBreakerProofs -------------------------
(***************************************************************************)
(* Proofs about SinkBreaker for every threshold, recovery time and bound.  *)
(***************************************************************************)
EXTENDS SinkBreaker, TLAPS

\* While closed, the breaker counts exactly the failures since the last success.
StreakCounted == state = "closed" => streak = consecutive

IInv == BreakerTypeOK /\ HalfOpenIsProbing /\ StreakCounted

\* What RecordFailure() does, whoever failed: it keeps the types, and never
\* leaves a breaker half-open.
LEMMA FailureKeeps ==
  ASSUME IInv, NEW counters \in SUBSET Totals, RecordFailure(counters)
  PROVE  /\ state' \in {"closed", "open"} /\ cooldown' \in 0..Recovery
         /\ consecutive' \in 0..(FailureThreshold - 1) /\ streak' \in 0..FailureThreshold
         /\ totals' \in [Totals -> Nat]
         /\ StreakCounted'
         /\ state = "open" => state' = "open"
         /\ state = "closed" /\ state' = "open" => streak' = FailureThreshold
<1> USE SinkBreakerAssumption DEF SinkBreakerAssumption, IInv, BreakerTypeOK, HalfOpenIsProbing,
        StreakCounted
<1>1. \A cs \in SUBSET Totals : Count(cs) => totals' \in [Totals -> Nat]
  BY DEF Count
<1>2. totals' \in [Totals -> Nat]  BY <1>1 DEF RecordFailure, Totals
<1>3. streak' = IF streak < FailureThreshold THEN streak + 1 ELSE streak
  BY DEF RecordFailure
<1>4. CASE state = "half_open" \/ consecutive + 1 >= FailureThreshold
  BY <1>2, <1>3, <1>4 DEF RecordFailure
<1>5. CASE ~(state = "half_open" \/ consecutive + 1 >= FailureThreshold)
  BY <1>2, <1>3, <1>5 DEF RecordFailure
<1>6. QED BY <1>4, <1>5

LEMMA Inductive == IInv /\ [BreakerNext]_breakerVars => IInv'
<1> SUFFICES ASSUME IInv, [BreakerNext]_breakerVars PROVE IInv'
  OBVIOUS
<1> USE SinkBreakerAssumption DEF SinkBreakerAssumption
<1>0. \A cs \in SUBSET Totals : Count(cs) => totals' \in [Totals -> Nat]
  BY DEF Count, IInv, BreakerTypeOK
<1>1. CASE Offer \/ Skip
  BY <1>0, <1>1 DEF Offer, Skip, IInv, BreakerTypeOK, HalfOpenIsProbing, StreakCounted, Totals
<1>2. CASE Probe
  BY <1>0, <1>2 DEF Probe, IInv, BreakerTypeOK, HalfOpenIsProbing, StreakCounted, Totals
<1>3. CASE EmitFails
  BY <1>3, FailureKeeps DEF EmitFails, IInv, BreakerTypeOK, HalfOpenIsProbing
<1>4. CASE EmitSucceeds
  <2>1. totals' \in [Totals -> Nat]
    BY <1>0, <1>4 DEF EmitSucceeds, Totals
  <2>2. /\ consecutive' = 0 /\ streak' = 0 /\ emitting' = FALSE /\ repaired' = repaired
        /\ \/ state' = "closed" /\ cooldown' = 0
           \/ state # "half_open" /\ state' = state /\ cooldown' = cooldown
    BY <1>4 DEF EmitSucceeds
  <2>3. 0 \in 0..(FailureThreshold - 1) /\ 0 \in 0..FailureThreshold /\ 0 \in 0..Recovery
    OBVIOUS
  <2>4. BreakerTypeOK'  BY <2>1, <2>2, <2>3 DEF IInv, BreakerTypeOK
  <2>5. QED BY <2>2, <2>4 DEF IInv, BreakerTypeOK, HalfOpenIsProbing, StreakCounted
<1>5. CASE FlushFails
  <2>1. {"flush_failures"} \in SUBSET Totals  BY DEF Totals
  <2>2. QED BY <1>5, <2>1, FailureKeeps DEF FlushFails, IInv, BreakerTypeOK, HalfOpenIsProbing
<1>6. CASE Cool
  BY <1>6 DEF Cool, IInv, BreakerTypeOK, HalfOpenIsProbing, StreakCounted
<1>9. CASE Repair
  BY <1>9 DEF Repair, IInv, BreakerTypeOK, HalfOpenIsProbing, StreakCounted
<1>7. CASE UNCHANGED breakerVars
  BY <1>7 DEF breakerVars, IInv, BreakerTypeOK, HalfOpenIsProbing, StreakCounted
<1>8. QED BY <1>1, <1>2, <1>3, <1>4, <1>5, <1>6, <1>7, <1>9 DEF BreakerNext, Emit, EmitEnds

LEMMA Invariant == BreakerSpec => []IInv
<1>1. ASSUME BreakerInit PROVE IInv
  <2>1. 0 \in 0..(FailureThreshold - 1) /\ 0 \in 0..FailureThreshold /\ 0 \in 0..Recovery
    BY SinkBreakerAssumption DEF SinkBreakerAssumption
  <2>2. totals \in [Totals -> Nat]  BY <1>1 DEF BreakerInit
  <2>3. BreakerTypeOK  BY <1>1, <2>1, <2>2 DEF BreakerInit, BreakerTypeOK
  <2>4. QED BY <1>1, <2>3 DEF BreakerInit, IInv, HalfOpenIsProbing, StreakCounted
<1>2. QED BY <1>1, Inductive, PTL DEF BreakerSpec

(* The breaker's variables keep their types: above all, the count of the    *)
(* failures in a row stays below the threshold.                             *)
THEOREM TypeCorrect == BreakerSpec => []BreakerTypeOK
<1>1. IInv => BreakerTypeOK  BY DEF IInv
<1>2. QED BY <1>1, Invariant, PTL

(* A half-open breaker always has its probe under way.                      *)
THEOREM NeverLeftHalfOpen == BreakerSpec => []HalfOpenIsProbing
<1>1. IInv => HalfOpenIsProbing  BY DEF IInv
<1>2. QED BY <1>1, Invariant, PTL

(* The breaker leaves the open state only after the cooldown, for a probe.  *)
THEOREM CooldownServed == BreakerSpec => CooldownIsServed
<1>1. IInv /\ [BreakerNext]_breakerVars =>
        [state = "open" /\ state' # "open" => cooldown = 0 /\ state' = "half_open"]_breakerVars
  <2> SUFFICES ASSUME IInv, BreakerNext, state = "open", state' # "open"
               PROVE  cooldown = 0 /\ state' = "half_open"
    OBVIOUS
  <2>1. \A cs \in {{}, {"flush_failures"}} : ~RecordFailure(cs)
    BY FailureKeeps DEF Totals
  <2>2. QED BY <2>1 DEF BreakerNext, Emit, EmitEnds, Offer, Probe, Skip, EmitFails, EmitSucceeds,
                        FlushFails, Cool, Repair
<1>2. QED BY <1>1, Invariant, PTL DEF BreakerSpec, CooldownIsServed

(* A closed breaker opens at the FailureThreshold-th failure in a row, not before  *)
(* and not later.                                                           *)
THEOREM OpensExactlyOnThreshold == BreakerSpec => OpensOnThreshold
<1>1. IInv /\ [BreakerNext]_breakerVars =>
        [state = "closed" /\ state' = "open" => streak' = FailureThreshold]_breakerVars
  <2> SUFFICES ASSUME IInv, BreakerNext, state = "closed", state' = "open"
               PROVE  streak' = FailureThreshold
    OBVIOUS
  <2>1. \A cs \in {{}, {"flush_failures"}} : RecordFailure(cs) => streak' = FailureThreshold
    BY FailureKeeps DEF Totals
  <2>2. QED BY <2>1 DEF BreakerNext, Emit, EmitEnds, Offer, Probe, Skip, EmitFails, EmitSucceeds,
                        FlushFails, Cool, Repair
<1>2. IInv => (state = "closed" => streak < FailureThreshold)
  BY SinkBreakerAssumption DEF SinkBreakerAssumption, IInv, BreakerTypeOK, StreakCounted
<1>3. QED BY <1>1, <1>2, Invariant, PTL DEF BreakerSpec, OpensOnThreshold

-----------------------------------------------------------------------------
(* The totals: each step adds one to the counters it names, and what it     *)
(* names keeps the equations of TotalsAgree.                                *)

LEMMA CountAdds ==
  ASSUME KeepTotals, totals \in [Totals -> Nat], NEW cs \in SUBSET Totals, Count(cs)
  PROVE  /\ totals' \in [Totals -> Nat]
         /\ \A c \in Totals : totals[c] \in Nat
         /\ \A c \in cs : totals'[c] = totals[c] + 1
         /\ \A c \in Totals \ cs : totals'[c] = totals[c]
  BY DEF Count

LEMMA FailureAgrees ==
  ASSUME IInv, TotalsAgree, KeepTotals, NEW cs \in {{}, {"flush_failures"}},
         RecordFailure(cs), emitting' = (IF cs = {} THEN FALSE ELSE emitting),
         cs = {} => emitting
  PROVE  TotalsAgree'
<1>1. totals \in [Totals -> Nat] /\ state' # "half_open"
  <2>1. cs \in SUBSET Totals  BY DEF Totals
  <2>2. QED BY <2>1, FailureKeeps DEF IInv, BreakerTypeOK
<1>2. CASE Count(cs \cup {"failures", "opens"})
  <2>1. cs \cup {"failures", "opens"} \in SUBSET Totals  BY DEF Totals
  <2>2. QED
    BY <1>1, <1>2, <2>1, CountAdds
    DEF Totals, TotalsAgree, IInv, BreakerTypeOK, HalfOpenIsProbing
<1>3. CASE Count(cs \cup {"failures"}) /\ state' = state
  <2>1. cs \cup {"failures"} \in SUBSET Totals  BY DEF Totals
  <2>2. QED
    BY <1>1, <1>3, <2>1, CountAdds
    DEF Totals, TotalsAgree, IInv, BreakerTypeOK, HalfOpenIsProbing
<1>4. QED BY <1>2, <1>3 DEF RecordFailure

LEMMA TotalsInductive == IInv /\ TotalsAgree /\ [BreakerNext]_breakerVars => TotalsAgree'
<1> SUFFICES ASSUME IInv, TotalsAgree, KeepTotals, [BreakerNext]_breakerVars PROVE TotalsAgree'
  BY DEF TotalsAgree
<1>0. totals \in [Totals -> Nat]  BY DEF IInv, BreakerTypeOK
<1>1. CASE Offer
  <2>1. {"offered"} \in SUBSET Totals  BY DEF Totals
  <2>2. QED BY <1>0, <1>1, <2>1, CountAdds DEF Offer, Totals, TotalsAgree
<1>2. CASE Probe
  <2>1. {"offered", "half_open"} \in SUBSET Totals  BY DEF Totals
  <2>2. QED BY <1>0, <1>2, <2>1, CountAdds DEF Probe, Totals, TotalsAgree
<1>3. CASE Skip
  <2>1. {"offered", "skipped"} \in SUBSET Totals  BY DEF Totals
  <2>2. QED BY <1>0, <1>3, <2>1, CountAdds DEF Skip, Totals, TotalsAgree
<1>4. CASE EmitFails
  BY <1>4, FailureAgrees DEF EmitFails
<1>5. CASE EmitSucceeds
  <2>1. {"handled"} \in SUBSET Totals /\ {"handled", "closes"} \in SUBSET Totals
    BY DEF Totals
  <2>2. CASE state = "half_open"
    BY <1>0, <1>5, <2>1, <2>2, CountAdds DEF EmitSucceeds, Totals, TotalsAgree
  <2>3. CASE state # "half_open"
    BY <1>0, <1>5, <2>1, <2>3, CountAdds DEF EmitSucceeds, Totals, TotalsAgree
  <2>4. QED BY <2>2, <2>3
<1>6. CASE FlushFails
  BY <1>6, FailureAgrees DEF FlushFails
<1>7. CASE Cool \/ Repair \/ UNCHANGED breakerVars
  BY <1>7 DEF Cool, Repair, breakerVars, TotalsAgree
<1>8. QED BY <1>1, <1>2, <1>3, <1>4, <1>5, <1>6, <1>7 DEF BreakerNext, Emit, EmitEnds

(* The exported totals agree with each other and with the records offered.  *)
THEOREM TotalsSound == BreakerSpec => []TotalsAgree
<1>1. BreakerInit => TotalsAgree  BY DEF BreakerInit, TotalsAgree, Totals
<1>2. QED BY <1>1, TotalsInductive, Invariant, PTL DEF BreakerSpec

=============================================================================
