------------------------------ MODULE MCTimers ------------------------------
(***************************************************************************)
(* The two machines that wait for time to pass, for TLC: a behaviour is one *)
(* of SinkBreaker or one of LoopWatchdog, as "machine" says, and the other  *)
(* rests in its initial state.                                              *)
(***************************************************************************)
EXTENDS SinkBreaker, LoopWatchdog

VARIABLE machine  \* "breaker" or "watchdog"

TimersVars == <<breakerVars, vars, machine>>

MCInit == machine \in {"breaker", "watchdog"} /\ BreakerInit /\ Init

MCNext ==
  \/ machine = "breaker" /\ BreakerNext /\ UNCHANGED <<vars, machine>>
  \/ machine = "watchdog" /\ Next /\ UNCHANGED <<breakerVars, machine>>

MCSpec ==
  /\ MCInit /\ [][MCNext]_TimersVars
  /\ machine = "breaker" => BreakerFairness
  /\ machine = "watchdog" => Fairness

=============================================================================
