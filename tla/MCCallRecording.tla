--------------------------- MODULE MCCallRecording ---------------------------
(* An instance of CallRecording for TLC: a request and an operation, one    *)
(* SQLAlchemy call finished twice at once, a call recorded by hand in each, *)
(* and two sampled spans for one place in the tracking.                     *)
EXTENDS CallRecording, TLC

CONSTANTS request, operation, query, f1, f2, s1, s2

MCOwners     == {request, operation}
MCOperations == {operation}
MCCallOf     == [a \in Attempts |-> query]

MCSymmetry == Permutations({f1, f2}) \cup Permutations({s1, s2})

=============================================================================
