----------------------------- MODULE MCLogQueue -----------------------------
(* Instances of LogQueue for TLC.                                           *)
EXTENDS LogQueue, TLC

CONSTANTS a, b, s, f  \* two calls of the application, one of a sink, one flush

MCRecords     == {a, b, s}
MCSinkRecords == {s}
MCFlushes     == {f}

AllSettings == [overflow_policy : {"drop_oldest", "drop_newest", "block"},
                breaker_enabled : BOOLEAN]

\* The two application calls are interchangeable (safety runs only).
Symmetry == Permutations({a, b})

=============================================================================
