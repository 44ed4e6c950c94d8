--------------------------- MODULE MCInstallation ---------------------------
(* Instances of Installation for TLC.                                       *)
EXTENDS Installation

CONSTANTS a, b, d, e  \* two apps and two engines

Plain == [configure |-> TRUE, otlp |-> FALSE, tracing |-> FALSE, meters |-> FALSE,
          metrics |-> TRUE, nested |-> FALSE, engine |-> None, fault |-> "none"]
Full  == [configure |-> TRUE, otlp |-> TRUE, tracing |-> TRUE, meters |-> FALSE,
          metrics |-> TRUE, nested |-> TRUE, engine |-> d, fault |-> "none"]
Other == [Full EXCEPT !.engine = e, !.otlp = FALSE, !.meters = TRUE, !.nested = FALSE]
Bare  == [Plain EXCEPT !.configure = FALSE, !.metrics = FALSE, !.nested = TRUE]

\* Installs that raise on their way, with as little set up besides as the fault needs.
Raising ==
  {[Plain EXCEPT !.otlp = TRUE, !.fault = f] : f \in {"otlp", "setup", "metrics"}} \cup
  {[Plain EXCEPT !.tracing = TRUE, !.engine = d, !.fault = f] :
     f \in {"tracing", "instrument", "engine", "refused", "sqlalchemy"}}

MCConfigs == {Plain, Full, Other, Bare} \cup Raising
Symmetry  == Permutations(Apps)  \* the apps differ in their settings only
TwoPlain  == {Plain, [Plain EXCEPT !.engine = d]}

=============================================================================
