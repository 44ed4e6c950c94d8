------------------------------ MODULE LogQueue ------------------------------
(***************************************************************************)
(* The log pipeline of one setup_logging() call: the calls that log a      *)
(* record, OverflowPolicyQueueHandler with its overflow policy and its     *)
(* lock, the bounded queue.Queue, the DrainingQueueListener thread, the    *)
(* flush_logging() calls and the thread that sets logging up and tears it  *)
(* down (_teardown_handlers_locked and DrainingQueueListener.stop).        *)
(*                                                                         *)
(* A step is what one thread does between two points at which another      *)
(* thread can interfere: an operation on queue.Queue or on the counters is *)
(* atomic (each has its own mutex), and a call in enqueue() holds the      *)
(* handler's lock from Enter to the step that ends the call.               *)
(***************************************************************************)
EXTENDS Naturals, Sequences, FiniteSets

CONSTANTS
  Records,        \* the calls that log: each is one record, logged by one thread
  SinkRecords,    \* those of them made on the listener thread, by a sink that logs
  Flushes,        \* the calls of flush_logging(), each with its _FlushRecord
  Sentinel,       \* QueueListener._sentinel
  MaxSize,        \* log_queue_max_size
  Settings,       \* the ObservabilitySettings to consider: overflow_policy and breaker_enabled
  MaxTeardowns    \* bound: the teardowns attempted (shutdowns and reconfigurations)

ASSUME LogQueueAssumption ==
  /\ IsFiniteSet(Records) /\ SinkRecords \subseteq Records
  /\ Records \cap Flushes = {}
  /\ Sentinel \notin Records \cup Flushes
  /\ MaxSize \in Nat \ {0}
  /\ Settings \subseteq [overflow_policy : {"drop_oldest", "drop_newest", "block"},
                          breaker_enabled : BOOLEAN]
  /\ MaxTeardowns \in Nat

VARIABLES
  settings,         \* log_queue_overflow_policy and sink_circuit_breaker_enabled of this setup
  queue,            \* queue.Queue: records, flush requests and the sentinel
  pc,               \* where each logging call is
  accepting,        \* OverflowPolicyQueueHandler._accepting
  stats,            \* the counters of LogQueueTelemetry
  thread,           \* the listener thread
  inHand,           \* what the listener thread has taken and not finished: <<>> or <<item>>
  sentinelEnqueued, \* DrainingQueueListener._sentinel_enqueued
  listenerSet,      \* state._QUEUE_LISTENER is not None
  outputs,          \* the output handlers: "open" or "closed"
  admin,            \* where the thread that holds _LOGGING_LOCK is
  teardowns,        \* teardowns begun
  flushPc,          \* where each flush_logging() call is
  flushed,          \* _FlushRecord.done and .succeeded: "pending", "ok" or "error"
  before,           \* history: the logging calls that had returned when the flush began
  written,          \* history: the records every output handler was offered, in order
  evicted           \* history: what drop_oldest took out of the queue

callVars     == <<pc, accepting, stats>>
listenerVars == <<thread, inHand, written>>
adminVars    == <<sentinelEnqueued, listenerSet, outputs, admin, teardowns>>
flushVars    == <<flushPc, before>>
vars == <<queue, callVars, listenerVars, adminVars, flushVars, flushed, evicted, settings>>

-----------------------------------------------------------------------------
Items == Records \cup Flushes \cup {Sentinel}

\* A call holds the handler's lock in these places: enqueue() releases it last.
Critical == {"putting", "evicting", "count_evicted", "putting_again", "blocked",
             "count_enqueued", "count_rejected"}
Returned == {"accepted", "rejected", "refused"}
CallPlaces == {"idle", "waiting"} \cup Critical \cup Returned

AdminPlaces == {"starting", "publishing", "configured", "closing", "stopping",
                "joining", "timed_out", "stopped", "down", "reset"}

Counters == {"enqueued", "dropped_oldest", "dropped_newest", "blocked", "block_timeout"}

LockIgnored == TRUE  \* mutation of HandlerLockFree: close() does not take the lock
HandlerLockFree == \A r \in Records : pc[r] \notin Critical
Alive == thread \in {"getting", "handling"}
Full  == Len(queue) >= MaxSize
Put(item) == queue' = Append(queue, item)
Goto(r, place) == pc' = [pc EXCEPT ![r] = place]
Count(counter) == stats' = [stats EXCEPT ![counter] = @ + 1]

\* A sink's own call runs inside handle(): the listener waits until it returns.
SinkIsLogging == \E r \in SinkRecords : pc[r] \notin {"idle"} \cup Returned

Init ==
  /\ settings \in Settings
  /\ queue = <<>>
  /\ pc = [r \in Records |-> "idle"]
  /\ accepting = TRUE
  /\ stats = [c \in Counters |-> 0]
  /\ thread = "unstarted"
  /\ inHand = <<>>
  /\ sentinelEnqueued = FALSE
  /\ listenerSet = FALSE
  /\ outputs = "open"
  /\ admin = "starting"       \* the handler is on the root logger, no thread yet
  /\ teardowns = 0
  /\ flushPc = [f \in Flushes |-> "idle"]
  /\ flushed = [f \in Flushes |-> "pending"]
  /\ before = [f \in Flushes |-> {}]
  /\ written = <<>>
  /\ evicted = {}

-----------------------------------------------------------------------------
(* The logging calls: QueueHandler.emit and enqueue().                     *)

Begin(r) ==
  /\ pc[r] = "idle"
  /\ r \in SinkRecords => thread = "handling" /\ ~SinkIsLogging
  /\ Goto(r, "waiting")
  /\ UNCHANGED <<queue, accepting, stats, listenerVars, adminVars, flushVars, flushed, evicted, settings>>

\* prepare() raises (the message cannot be formatted): handleError() counts the record.
PrepareFails(r) ==
  /\ pc[r] = "waiting"
  /\ Goto(r, "rejected")
  /\ Count("dropped_newest")
  /\ UNCHANGED <<queue, accepting, listenerVars, adminVars, flushVars, flushed, evicted, settings>>

\* Mutation of Enter: _accepting is not checked.
EnterUnchecked(r) ==
  /\ pc[r] = "waiting"
  /\ HandlerLockFree
  /\ Goto(r, "putting")
  /\ UNCHANGED <<queue, accepting, stats, listenerVars, adminVars, flushVars, flushed, evicted, settings>>

Enter(r) ==
  /\ pc[r] = "waiting"
  /\ HandlerLockFree
  /\ Goto(r, IF accepting THEN "putting" ELSE "refused")
  /\ UNCHANGED <<queue, accepting, stats, listenerVars, adminVars, flushVars, flushed, evicted, settings>>

PutNowait(r) ==
  /\ pc[r] = "putting"
  /\ ~Full
  /\ Put(r)
  /\ Goto(r, "count_enqueued")
  /\ UNCHANGED <<accepting, stats, listenerVars, adminVars, flushVars, flushed, evicted, settings>>

\* queue.Full: the policy decides. The block policy counts before it waits.
Overflow(r) ==
  /\ pc[r] = "putting"
  /\ Full
  /\ \/ /\ settings.overflow_policy = "drop_newest"
        /\ Goto(r, "count_rejected")
        /\ UNCHANGED stats
     \/ /\ settings.overflow_policy = "drop_oldest"
        /\ Goto(r, "evicting")
        /\ UNCHANGED stats
     \/ /\ settings.overflow_policy = "block"
        /\ Goto(r, "blocked")
        /\ Count("blocked")
  /\ UNCHANGED <<queue, accepting, listenerVars, adminVars, flushVars, flushed, evicted, settings>>

\* Mutation of Evict: the newest queued item is dropped.
EvictNewest(r) ==
  /\ pc[r] = "evicting" /\ queue # <<>>
  /\ evicted' = evicted \cup {queue[Len(queue)]}
  /\ queue' = SubSeq(queue, 1, Len(queue) - 1)
  /\ Goto(r, "count_evicted")
  /\ UNCHANGED <<accepting, stats, listenerVars, adminVars, flushVars, flushed, settings>>

\* get_nowait() of drop_oldest takes the head, whatever it is, if there is still one.
Evict(r) ==
  /\ pc[r] = "evicting"
  /\ \/ /\ queue = <<>>
        /\ Goto(r, "putting_again")
        /\ UNCHANGED <<queue, evicted>>
     \/ /\ queue # <<>>
        /\ evicted' = evicted \cup {Head(queue)}
        /\ queue' = Tail(queue)
        /\ Goto(r, "count_evicted")
  /\ UNCHANGED <<accepting, stats, listenerVars, adminVars, flushVars, flushed, settings>>

CountEvicted(r) ==
  /\ pc[r] = "count_evicted"
  /\ Count("dropped_oldest")
  /\ Goto(r, "putting_again")
  /\ UNCHANGED <<queue, accepting, listenerVars, adminVars, flushVars, flushed, evicted, settings>>

\* The second put_nowait(): a flush request can have won the free slot.
PutAgain(r) ==
  /\ pc[r] = "putting_again"
  /\ \/ /\ ~Full
        /\ Put(r)
        /\ Goto(r, "count_enqueued")
     \/ /\ Full
        /\ Goto(r, "count_rejected")
        /\ UNCHANGED queue
  /\ UNCHANGED <<accepting, stats, listenerVars, adminVars, flushVars, flushed, evicted, settings>>

BlockedPut(r) ==
  /\ pc[r] = "blocked"
  /\ ~Full
  /\ Put(r)
  /\ Goto(r, "count_enqueued")
  /\ UNCHANGED <<accepting, stats, listenerVars, adminVars, flushVars, flushed, evicted, settings>>

\* Mutations of BlockTimeout: put() without a timeout; the drop is not counted.
BlockForever(r) == FALSE /\ UNCHANGED vars
BlockTimeoutUncounted(r) ==
  /\ pc[r] = "blocked" /\ Full
  /\ Count("block_timeout")
  /\ Goto(r, "rejected")
  /\ UNCHANGED <<queue, accepting, listenerVars, adminVars, flushVars, flushed, evicted, settings>>

\* put(timeout=block_timeout_seconds) gives up, at any time, if the queue is full then.
BlockTimeout(r) ==
  /\ pc[r] = "blocked"
  /\ Full
  /\ Count("block_timeout")
  /\ Goto(r, "count_rejected")
  /\ UNCHANGED <<queue, accepting, listenerVars, adminVars, flushVars, flushed, evicted, settings>>

CountEnqueued(r) ==
  /\ pc[r] = "count_enqueued"
  /\ Count("enqueued")
  /\ Goto(r, "accepted")
  /\ UNCHANGED <<queue, accepting, listenerVars, adminVars, flushVars, flushed, evicted, settings>>

CountRejected(r) ==
  /\ pc[r] = "count_rejected"
  /\ Count("dropped_newest")
  /\ Goto(r, "rejected")
  /\ UNCHANGED <<queue, accepting, listenerVars, adminVars, flushVars, flushed, evicted, settings>>

\* What the calling thread does once it is in the handler.
CallStep(r) ==
  \/ PrepareFails(r) \/ Enter(r) \/ PutNowait(r) \/ Overflow(r)
  \/ Evict(r) \/ CountEvicted(r) \/ PutAgain(r)
  \/ BlockedPut(r) \/ BlockTimeout(r)
  \/ CountEnqueued(r) \/ CountRejected(r)

-----------------------------------------------------------------------------
(* The listener thread: QueueListener._monitor and handle().               *)

Dequeue ==
  /\ thread = "getting"
  /\ queue # <<>>
  /\ queue' = Tail(queue)
  /\ IF Head(queue) = Sentinel
     THEN thread' = "exited" /\ UNCHANGED inHand
     ELSE thread' = "handling" /\ inHand' = <<Head(queue)>>
  /\ UNCHANGED <<written, callVars, adminVars, flushVars, flushed, evicted, settings>>

Write ==
  /\ thread = "handling"
  /\ inHand[1] \in Records
  /\ ~SinkIsLogging
  /\ written' = Append(written, inHand[1])
  /\ inHand' = <<>>
  /\ thread' = "getting"
  /\ UNCHANGED <<queue, callVars, adminVars, flushVars, flushed, evicted, settings>>

\* Mutation of SinkRaises: the breaker lets an exception through.
SinkRaisesThroughBreaker ==
  /\ thread = "handling" /\ inHand[1] \in Records /\ ~SinkIsLogging
  /\ thread' = "died"
  /\ UNCHANGED <<queue, inHand, written, callVars, adminVars, flushVars, flushed, evicted, settings>>

\* Without its breaker an output handler's exception ends _monitor: the thread dies.
SinkRaises ==
  /\ ~settings.breaker_enabled
  /\ thread = "handling"
  /\ inHand[1] \in Records
  /\ ~SinkIsLogging
  /\ thread' = "died"
  /\ UNCHANGED <<queue, inHand, written, callVars, adminVars, flushVars, flushed, evicted, settings>>

\* handle() of a _FlushRecord: every output handler's flush(), then done.set().
FlushOutputs ==
  /\ thread = "handling"
  /\ inHand[1] \in Flushes
  /\ ~SinkIsLogging
  /\ \E result \in {"ok", "error"} : flushed' = [flushed EXCEPT ![inHand[1]] = result]
  /\ inHand' = <<>>
  /\ thread' = "getting"
  /\ UNCHANGED <<queue, written, callVars, adminVars, flushVars, evicted, settings>>

Listener == Dequeue \/ Write \/ SinkRaises \/ FlushOutputs

-----------------------------------------------------------------------------
(* flush_logging() and DrainingQueueListener.flush().                      *)

FlushBegin(f) ==
  /\ flushPc[f] = "idle"
  /\ flushPc' = [flushPc EXCEPT ![f] = IF listenerSet THEN "putting" ELSE "no_listener"]
  /\ before' = [before EXCEPT ![f] = {r \in Records : pc[r] \in Returned}]
  /\ UNCHANGED <<queue, callVars, listenerVars, adminVars, flushed, evicted, settings>>

FlushPut(f) ==
  /\ flushPc[f] = "putting"
  /\ ~Full
  /\ Put(f)
  /\ flushPc' = [flushPc EXCEPT ![f] = "waiting"]
  /\ UNCHANGED <<before, callVars, listenerVars, adminVars, flushed, evicted, settings>>

FlushPutTimeout(f) ==
  /\ flushPc[f] = "putting"
  /\ Full
  /\ flushPc' = [flushPc EXCEPT ![f] = "returned_false"]
  /\ UNCHANGED <<queue, before, callVars, listenerVars, adminVars, flushed, evicted, settings>>

FlushDone(f) ==
  /\ flushPc[f] = "waiting"
  /\ flushed[f] # "pending"
  /\ flushPc' = [flushPc EXCEPT ![f] =
                   IF flushed[f] = "ok" THEN "returned_true" ELSE "returned_false"]
  /\ UNCHANGED <<queue, before, callVars, listenerVars, adminVars, flushed, evicted, settings>>

\* Mutation of FlushTimeout: the result of done.wait() is ignored.
FlushTimeoutIgnored(f) ==
  /\ flushPc[f] = "waiting" /\ flushed[f] = "pending"
  /\ flushPc' = [flushPc EXCEPT ![f] = "returned_true"]
  /\ UNCHANGED <<queue, before, callVars, listenerVars, adminVars, flushed, evicted, settings>>

FlushTimeout(f) ==
  /\ flushPc[f] = "waiting"
  /\ flushed[f] = "pending"
  /\ flushPc' = [flushPc EXCEPT ![f] = "returned_false"]
  /\ UNCHANGED <<queue, before, callVars, listenerVars, adminVars, flushed, evicted, settings>>

FlushStep(f) == FlushPut(f) \/ FlushPutTimeout(f) \/ FlushDone(f) \/ FlushTimeout(f)

-----------------------------------------------------------------------------
(* setup_logging() from the addHandler() call on, and the teardown.        *)

StartListener ==
  /\ admin = "starting" /\ thread = "unstarted"
  /\ thread' = "getting"
  /\ admin' = "publishing"
  /\ UNCHANGED <<sentinelEnqueued, listenerSet, outputs, teardowns,
                 queue, inHand, written, callVars, flushVars, flushed, evicted, settings>>

PublishListener ==
  /\ admin = "publishing"
  /\ listenerSet' = TRUE
  /\ admin' = "configured"
  /\ UNCHANGED <<sentinelEnqueued, outputs, teardowns,
                 queue, listenerVars, callVars, flushVars, flushed, evicted, settings>>

BeginTeardown ==
  /\ admin \in {"configured", "timed_out"}
  /\ teardowns < MaxTeardowns
  /\ teardowns' = teardowns + 1
  /\ admin' = "closing"
  /\ UNCHANGED <<sentinelEnqueued, listenerSet, outputs,
                 queue, listenerVars, callVars, flushVars, flushed, evicted, settings>>

\* OverflowPolicyQueueHandler.close() takes the lock a call in enqueue() holds.
CloseHandler ==
  /\ admin = "closing"
  /\ HandlerLockFree
  /\ accepting' = FALSE
  /\ admin' = "stopping"
  /\ UNCHANGED <<sentinelEnqueued, listenerSet, outputs, teardowns,
                 queue, listenerVars, pc, stats, flushVars, flushed, evicted, settings>>

PutSentinel ==
  /\ admin = "stopping"
  /\ Alive /\ ~sentinelEnqueued
  /\ ~Full
  /\ Put(Sentinel)
  /\ sentinelEnqueued' = TRUE
  /\ admin' = "joining"
  /\ UNCHANGED <<listenerSet, outputs, teardowns,
                 listenerVars, callVars, flushVars, flushed, evicted, settings>>

\* The sentinel of an earlier stop() is not put twice; a dead thread needs none.
SkipSentinel ==
  /\ admin = "stopping"
  /\ ~Alive \/ sentinelEnqueued
  /\ admin' = "joining"
  /\ UNCHANGED <<sentinelEnqueued, listenerSet, outputs, teardowns,
                 queue, listenerVars, callVars, flushVars, flushed, evicted, settings>>

\* TimeoutError: the handler stays closed, the listener and its outputs stay.
StopTimeout ==
  /\ \/ admin = "stopping" /\ ~sentinelEnqueued /\ Full
     \/ admin = "joining" /\ Alive
  /\ admin' = "timed_out"
  /\ UNCHANGED <<sentinelEnqueued, listenerSet, outputs, teardowns,
                 queue, listenerVars, callVars, flushVars, flushed, evicted, settings>>

\* Mutation of Joined: join(timeout) without the is_alive() check after it.
JoinedUnchecked ==
  /\ admin = "joining"
  /\ listenerSet' = FALSE
  /\ admin' = "stopped"
  /\ UNCHANGED <<sentinelEnqueued, outputs, teardowns,
                 queue, listenerVars, callVars, flushVars, flushed, evicted, settings>>

Joined ==
  /\ admin = "joining"
  /\ ~Alive
  /\ listenerSet' = FALSE
  /\ admin' = "stopped"
  /\ UNCHANGED <<sentinelEnqueued, outputs, teardowns,
                 queue, listenerVars, callVars, flushVars, flushed, evicted, settings>>

CloseOutputs ==
  /\ admin = "stopped"
  /\ outputs' = "closed"
  /\ admin' = "down"
  /\ UNCHANGED <<sentinelEnqueued, listenerSet, teardowns,
                 queue, listenerVars, callVars, flushVars, flushed, evicted, settings>>

\* shutdown_logging() and setup_logging() both reset the telemetry next.
ResetTelemetry ==
  /\ admin = "down"
  /\ stats' = [c \in Counters |-> 0]
  /\ admin' = "reset"
  /\ UNCHANGED <<sentinelEnqueued, listenerSet, outputs, teardowns,
                 queue, listenerVars, pc, accepting, flushVars, flushed, evicted, settings>>

Setup == StartListener \/ PublishListener
TeardownStep ==
  \/ CloseHandler \/ PutSentinel \/ SkipSentinel \/ StopTimeout
  \/ Joined \/ CloseOutputs \/ ResetTelemetry

-----------------------------------------------------------------------------
Next ==
  \/ \E r \in Records : Begin(r) \/ CallStep(r)
  \/ Listener
  \/ \E f \in Flushes : FlushBegin(f) \/ FlushStep(f)
  \/ Setup \/ BeginTeardown \/ TeardownStep

Spec == Init /\ [][Next]_vars

\* Threads that wait with a deadline run on whatever the listener does: a sink
\* may be stuck for ever.
CallerFairness ==
  /\ \A r \in Records : WF_vars(CallStep(r))
  /\ \A f \in Flushes : WF_vars(FlushStep(f))
  /\ WF_vars(Setup) /\ WF_vars(TeardownStep)

\* Every sink call returns: the listener thread keeps running (an assumption of
\* the properties that need it, not of FairSpec).
ListenerFairness == WF_vars(Listener)

FairSpec == Spec /\ CallerFairness

-----------------------------------------------------------------------------
Logs(seq) == {seq[i] : i \in 1..Len(seq)} \cap Records
At(place) == {r \in Records : pc[r] = place}

TypeOK ==
  /\ settings \in Settings
  /\ queue \in Seq(Items) /\ Len(queue) <= MaxSize
  /\ pc \in [Records -> CallPlaces]
  /\ accepting \in BOOLEAN
  /\ stats \in [Counters -> Nat]
  /\ thread \in {"unstarted", "getting", "handling", "exited", "died"}
  /\ inHand \in Seq(Records \cup Flushes)
  /\ Len(inHand) = (IF thread \in {"handling", "died"} THEN 1 ELSE 0)
  /\ sentinelEnqueued \in BOOLEAN
  /\ listenerSet \in BOOLEAN
  /\ outputs \in {"open", "closed"}
  /\ admin \in AdminPlaces
  /\ teardowns \in 0..MaxTeardowns
  /\ flushPc \in [Flushes -> {"idle", "putting", "waiting", "no_listener",
                              "returned_true", "returned_false"}]
  /\ flushed \in [Flushes -> {"pending", "ok", "error"}]
  /\ before \in [Flushes -> SUBSET Records]
  /\ written \in Seq(Records)
  /\ evicted \in SUBSET Items

(* The sentinel of stop() is never taken out by drop_oldest and nothing but *)
(* flush requests is ever queued behind it: the listener reaches it with    *)
(* every accepted record handled (setup.py:71, "a late drop_oldest write    *)
(* could otherwise remove it and leave stop() waiting forever").            *)
SentinelReachesListener ==
  /\ sentinelEnqueued /\ Alive => \E i \in 1..Len(queue) : queue[i] = Sentinel
  /\ \A i, j \in 1..Len(queue) : i < j /\ queue[i] = Sentinel => queue[j] \in Flushes

(* "A handler still in use is never closed. A timeout retains the listener *)
(* and its outputs for a later retry" (docs/logging.md:342): as long as the *)
(* thread lives, and after every stop() that timed out, the outputs are     *)
(* open and the listener stays published.                                   *)
OutputsOutliveListener ==
  /\ Alive => outputs = "open"
  /\ (Alive /\ admin # "publishing") \/ admin = "timed_out" => listenerSet /\ outputs = "open"

(* The listener only stops on an empty pipeline: when the thread has left   *)
(* on its sentinel no record is queued, in its hand, or still to be put by  *)
(* a call that was inside enqueue() (teardown drains before it stops).      *)
StopDrains ==
  thread = "exited" => Logs(queue) = {} /\ inHand = <<>> /\ HandlerLockFree

(* A flush that went through the queue and returned True has every record   *)
(* logged before it began written, unless a counter or the closed handler   *)
(* accounts for the record: none is still queued or being written.          *)
FlushedMeansSettled ==
  \A f \in Flushes : flushPc[f] = "returned_true" =>
    \A r \in before[f] :
      pc[r] = "accepted" => r \in Logs(written) \cup evicted

(* Whenever no call holds the handler's lock the counters account for every *)
(* call that returned: accepted ones are written, queued, being written or  *)
(* evicted, and each loss that is not a refusal after close() is counted    *)
(* (decision 0002: "Drops are counted and exported").                       *)
DropsAreCounted ==
  /\ TypeOK
  /\ HandlerLockFree /\ admin # "reset" =>
       /\ stats["enqueued"] = Cardinality(At("accepted"))
       /\ stats["enqueued"] = Len(written) + Cardinality(Logs(queue) \cup Logs(inHand))
                                + Cardinality(evicted \cap Records)
       /\ stats["dropped_oldest"] = Cardinality(evicted)
       /\ stats["dropped_newest"] = Cardinality(At("rejected"))

(* Every logging call returns even if the listener thread is stuck in a     *)
(* sink for ever and every other call is waiting on the full queue: the     *)
(* application is delayed by its logs, never stopped by them.               *)
CallsReturn == \A r \in Records : pc[r] = "waiting" ~> pc[r] \in Returned

(* A teardown ends, in success or in TimeoutError, whatever the listener    *)
(* does: neither the handler's lock nor a full queue can hold it for ever.  *)
TeardownEnds ==
  admin \in {"closing", "stopping", "joining"} ~> admin \in {"timed_out", "reset"}

(* No caller of the pipeline waits for ever, be it for logging or teardown. *)
CallersReturn == CallsReturn /\ TeardownEnds

(* With sinks that return, what is queued is written or evicted, though a   *)
(* sink logs too and so waits on the queue only its own thread drains.      *)
QueuedIsSettled ==
  ListenerFairness =>
    \A r \in Records : settings.breaker_enabled /\ r \in Logs(queue) ~>
                         r \in Logs(written) \cup evicted

-----------------------------------------------------------------------------
(* The lossy log that the pipeline implements.                              *)

\* The records among the items, in their order; of the first n of them.
RecordsOf(items) ==
  LET first[n \in 0..Len(items)] ==
        IF n = 0 THEN <<>>
        ELSE IF items[n] \in Records THEN Append(first[n - 1], items[n]) ELSE first[n - 1]
  IN first[Len(items)]

Log == INSTANCE LossyLog WITH
  buffer    <- RecordsOf(queue),
  taken     <- RecordsOf(inHand),
  delivered <- written,
  lost      <- (evicted \cap Records) \cup At("rejected") \cup At("refused"),
  phase     <- IF thread \in {"exited", "died"} THEN thread
               ELSE IF accepting THEN "open" ELSE "closed"

(* The pipeline is a lossy FIFO log: each record is delivered at most once, *)
(* in the order in which it was accepted; it is lost only from the front or *)
(* before it was accepted, and never both lost and delivered; nothing is    *)
(* accepted after close(), and a stop finds the log empty.                  *)
ImplementsLossyLog == Log!Spec

=============================================================================
