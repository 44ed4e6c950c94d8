---------------------------- MODULE MCRequestLog ----------------------------
(* An instance of RequestLog for TLC: the event loop and a worker thread,   *)
(* three records and room to hold two.                                      *)
EXTENDS RequestLog, TLC

CONSTANTS loop, worker

MCThreads  == {loop, worker}
MCSymmetry == Permutations(MCThreads)

=============================================================================
