---------------------------- MODULE SinkBreaker ----------------------------
(***************************************************************************)
(* SinkCircuitBreakerHandler: the breaker around one output handler. The   *)
(* listener thread emits, one record at a time; flush() is called by the   *)
(* listener thread and by anyone who takes the handler from                *)
(* get_managed_output_handlers(), also while a record is being written.    *)
(* The breaker's own lock makes _should_skip(), _record_failure() and      *)
(* _record_success() atomic; the delegate's write lies between them.       *)
(***************************************************************************)
EXTENDS Naturals

CONSTANTS
  FailureThreshold, \* sink_circuit_breaker_failure_threshold
  Recovery,    \* sink_circuit_breaker_recovery_timeout_seconds, in ticks of the clock
  KeepTotals,  \* FALSE leaves the totals of the metrics out (they grow for ever)
  MaxEvents    \* bound: records offered and flush failures while totals are kept

ASSUME SinkBreakerAssumption ==
  /\ FailureThreshold \in Nat \ {0}
  /\ Recovery \in Nat \ {0}
  /\ KeepTotals \in BOOLEAN
  /\ MaxEvents \in Nat

VARIABLES
  state,      \* _state
  cooldown,   \* _opened_until - now, or 0 once that has passed
  consecutive,\* _consecutive_failures
  totals,     \* the totals of the snapshot; "offered" and "flush_failures" are history
  emitting,   \* emit() is between _should_skip() and _record_*()
  repaired,   \* environment: the sink works from now on
  streak      \* history: failures since the last success, up to FailureThreshold

breakerVars == <<state, cooldown, consecutive, totals, emitting, repaired, streak>>

Totals == {"offered", "handled", "failures", "skipped", "opens", "half_open",
           "closes", "flush_failures"}

\* The totals in which a step counts.
Count(counters) ==
  totals' = IF KeepTotals
            THEN [c \in Totals |-> IF c \in counters THEN totals[c] + 1 ELSE totals[c]]
            ELSE totals
Room == KeepTotals => totals["offered"] + totals["flush_failures"] < MaxEvents

BreakerInit ==
  /\ state = "closed"
  /\ cooldown = 0
  /\ consecutive = 0
  /\ totals = [c \in Totals |-> 0]
  /\ emitting = FALSE
  /\ repaired = FALSE
  /\ streak = 0

-----------------------------------------------------------------------------
Offer ==
  /\ ~emitting /\ state # "open" /\ Room
  /\ emitting' = TRUE
  /\ Count({"offered"})
  /\ UNCHANGED <<state, cooldown, consecutive, repaired, streak>>

Probe ==
  /\ ~emitting /\ state = "open" /\ cooldown = 0 /\ Room
  /\ state' = "half_open"
  /\ emitting' = TRUE
  /\ Count({"offered", "half_open"})
  /\ UNCHANGED <<cooldown, consecutive, repaired, streak>>

\* Mutation of Skip: a record that comes while the breaker is open prolongs it.
SkipProlongs ==
  /\ ~emitting /\ state = "open" /\ cooldown > 0 /\ Room
  /\ cooldown' = Recovery
  /\ Count({"offered", "skipped"})
  /\ UNCHANGED <<state, consecutive, emitting, repaired, streak>>

Skip ==
  /\ ~emitting /\ state = "open" /\ cooldown > 0 /\ Room
  /\ Count({"offered", "skipped"})
  /\ UNCHANGED <<state, cooldown, consecutive, emitting, repaired, streak>>

\* An open breaker that fails again (a flush) opens once more, from now.
RecordFailure(counters) ==
  /\ streak' = IF streak < FailureThreshold THEN streak + 1 ELSE streak
  /\ IF state = "half_open" \/ consecutive + 1 >= FailureThreshold
     THEN /\ state' = "open"
          /\ cooldown' = Recovery
          /\ consecutive' = 0
          /\ Count(counters \cup {"failures", "opens"})
     ELSE /\ consecutive' = consecutive + 1
          /\ Count(counters \cup {"failures"})
          /\ UNCHANGED <<state, cooldown>>

\* The delegate raises, or reports a write error to its handleError().
EmitFails ==
  /\ emitting /\ ~repaired
  /\ emitting' = FALSE
  /\ RecordFailure({})
  /\ UNCHANGED repaired

\* Mutations of EmitSucceeds: any success closes; the failures are not forgotten.
AnySuccessCloses ==
  /\ emitting /\ emitting' = FALSE
  /\ consecutive' = 0 /\ streak' = 0 /\ cooldown' = 0
  /\ state' = "closed"
  /\ Count(IF state = "closed" THEN {"handled"} ELSE {"handled", "closes"})
  /\ UNCHANGED repaired
SuccessForgetsNothing ==
  /\ emitting /\ emitting' = FALSE
  /\ streak' = 0
  /\ IF state = "half_open"
     THEN state' = "closed" /\ cooldown' = 0 /\ Count({"handled", "closes"})
     ELSE UNCHANGED <<state, cooldown>> /\ Count({"handled"})
  /\ UNCHANGED <<consecutive, repaired>>

EmitSucceeds ==
  /\ emitting
  /\ emitting' = FALSE
  /\ consecutive' = 0
  /\ streak' = 0
  /\ IF state = "half_open"
     THEN state' = "closed" /\ cooldown' = 0 /\ Count({"handled", "closes"})
     ELSE UNCHANGED <<state, cooldown>> /\ Count({"handled"})
  /\ UNCHANGED repaired

\* A flush that succeeds leaves the breaker alone; one that raises is a failure.
FlushFails ==
  /\ ~repaired /\ Room
  /\ RecordFailure({"flush_failures"})
  /\ UNCHANGED <<emitting, repaired>>

Cool ==
  /\ cooldown > 0
  /\ cooldown' = cooldown - 1
  /\ UNCHANGED <<state, consecutive, totals, emitting, repaired, streak>>

Repair ==
  /\ ~repaired
  /\ repaired' = TRUE
  /\ UNCHANGED <<state, cooldown, consecutive, totals, emitting, streak>>

Emit == Offer \/ Probe \/ Skip
EmitEnds == EmitFails \/ EmitSucceeds

BreakerNext == Emit \/ EmitEnds \/ FlushFails \/ Cool \/ Repair

BreakerSpec == BreakerInit /\ [][BreakerNext]_breakerVars

\* Records keep coming, a write returns, and time passes.
BreakerFairness ==
  WF_breakerVars(Emit) /\ WF_breakerVars(EmitEnds) /\ WF_breakerVars(Cool)

-----------------------------------------------------------------------------
BreakerTypeOK ==
  /\ state \in {"closed", "open", "half_open"}
  /\ cooldown \in 0..Recovery
  /\ consecutive \in 0..(FailureThreshold - 1)
  /\ totals \in [Totals -> Nat]
  /\ emitting \in BOOLEAN
  /\ repaired \in BOOLEAN
  /\ streak \in 0..FailureThreshold

(* A half-open breaker is always testing its sink: whatever the probe's     *)
(* result, and whatever a flush does meanwhile, the breaker cannot be left  *)
(* half-open, where it would let every record through.                      *)
HalfOpenIsProbing == state = "half_open" => emitting

(* "Open-state cooldown before half-open probe" (docs/configuration.md:64): *)
(* the breaker leaves the open state only when the cooldown is over, and    *)
(* then for a probe; a write that began before the breaker opened and       *)
(* succeeds after it does not close it.                                     *)
CooldownIsServed ==
  [][state = "open" /\ state' # "open" => cooldown = 0 /\ state' = "half_open"]_breakerVars

(* "Consecutive sink failures before opening circuit"                       *)
(* (docs/configuration.md:63): a closed breaker opens at the FailureThreshold-th   *)
(* failure since the last success and not before.                           *)
OpensOnThreshold ==
  /\ [][state = "closed" /\ state' = "open" => streak' = FailureThreshold]_breakerVars
  /\ [](state = "closed" => streak < FailureThreshold)

(* The exported totals tell one story: every record offered was written,    *)
(* failed or skipped, the breaker closed only from half-open and was        *)
(* half-open only after it opened, and it never opened without a failure.   *)
TotalsAgree ==
  KeepTotals =>
    /\ totals["offered"] + totals["flush_failures"] =
         totals["handled"] + totals["failures"] + totals["skipped"]
           + (IF emitting THEN 1 ELSE 0)
    /\ totals["half_open"] >= totals["closes"] + (IF state = "half_open" THEN 1 ELSE 0)
    /\ totals["opens"] >= totals["half_open"] + (IF state = "open" THEN 1 ELSE 0)
    /\ totals["failures"] >= totals["opens"]

(* A sink that works again is written to again, for good, if records keep   *)
(* coming: neither skipped records nor earlier failures prolong the outage. *)
RecoversOnceRepaired == repaired ~> [](state = "closed")

=============================================================================
