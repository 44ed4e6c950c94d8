----------------------------- MODULE RequestLog -----------------------------
(***************************************************************************)
(* One HTTP request through RequestLoggingMiddleware: what the application *)
(* sends and receives, how it ends, the records it logs meanwhile from the *)
(* event loop and from worker threads, which HeldLogFilter writes, holds   *)
(* or drops, and the request's own line and metric.                        *)
(*                                                                         *)
(* Several tasks of the application may await receive() and send() at      *)
(* once, and threads log beside them. The application is over when its     *)
(* threads are, unless Detached: run_in_threadpool() awaits them. Bodies,  *)
(* durations and the text of the line are left out; whether the request    *)
(* was slow is a choice.                                                   *)
(***************************************************************************)
EXTENDS Naturals, Sequences, FiniteSets

CONSTANTS
  Threads,     \* the event loop's thread and the workers
  HoldLimit,   \* _MAX_HELD_RECORDS
  Detached,    \* threads of the request may outlive its application
  MaxRecords,  \* bound: records the request logs, its own line not counted
  None

ASSUME RequestLogAssumption ==
  /\ HoldLimit \in Nat \ {0}
  /\ MaxRecords \in Nat
  /\ Detached \in BOOLEAN
  /\ None \notin {"start", "body", "trailers", "failure", "slow"}

Debug == 10
Info == 20
Warning == 30
Error == 40

VARIABLES
  config,       \* is OBS_LOG_LEVEL_ON_ERROR set, is OBS_LOG_SAMPLE_RATE below 1, and does
                \* the trace ID fall "in" or "out" of the sample
  app,          \* "running", or how it ended
  sending,      \* the message that send() is awaited with, or None
  response,     \* what send() accepted: "none", "started", "body" (all of it), "finished"
  trailers,     \* response_trailers
  status,       \* status_code
  disconnected, \* disconnected_at is set
  pc,           \* the middleware: "app", then the steps of its finally block
  observed,     \* statuses reported to the metrics backend
  line,         \* the request's line, or None
  logged,       \* levels of the records the request logged; a record is its index
  thread,       \* what each thread's logging call is about to do, and with which record
  sampled,      \* RequestState.sampled: "unset", "in" or "out"
  retention,    \* RequestState.retention_reason
  held,         \* RequestState.held_logs
  closed,       \* RequestState.closed
  written,      \* records passed to the queue
  evicted       \* history: held records pushed out by newer ones

asgi == <<app, sending, response, trailers, status, disconnected>>
logs == <<logged, thread, sampled, retention, held, written, evicted>>
vars == <<config, asgi, pc, observed, line, closed, logs>>

Idle == [does |-> "idle", record |-> 0]

Init ==
  /\ config \in [verbose : BOOLEAN, sampling : BOOLEAN, trace : {"in", "out"}]
  /\ app = "running"
  /\ sending = None
  /\ response = "none"
  /\ trailers = FALSE
  /\ status = 500
  /\ disconnected = FALSE
  /\ pc = "app"
  /\ observed = <<>>
  /\ line = None
  /\ logged = <<>>
  /\ thread = [t \in Threads |-> Idle]
  /\ sampled = "unset"
  /\ retention = None
  /\ held = <<>>
  /\ closed = FALSE
  /\ written = {}
  /\ evicted = {}

-----------------------------------------------------------------------------
(* The application's messages.                                              *)

Awaiting(message) ==
  /\ app = "running" /\ sending = None
  /\ sending' = message

\* The status counts from here, accepted by the server or not.
SendStart ==
  /\ response = "none" /\ Awaiting("start")
  /\ status' \in {200, 404, 503}
  /\ trailers' \in BOOLEAN
  /\ UNCHANGED <<config, app, response, disconnected, pc, observed, line, closed, logs>>

SendBody ==
  /\ response = "started" /\ Awaiting("body")
  /\ UNCHANGED <<config, app, response, trailers, status, disconnected, pc, observed, line, closed, logs>>

SendTrailers ==
  /\ response = "body" /\ trailers /\ Awaiting("trailers")
  /\ UNCHANGED <<config, app, response, trailers, status, disconnected, pc, observed, line, closed, logs>>

Accepted ==
  CASE sending = "start" -> "started"
    [] sending = "body" -> IF trailers THEN "body" ELSE "finished"
    [] OTHER -> "finished"

\* send() returns. The last message ends the response, and its metric is recorded.
Sent ==
  /\ app = "running" /\ sending # None
  /\ sending' = None
  /\ \/ response' = Accepted
     \/ sending # "start" /\ UNCHANGED response  \* more_body, more_trailers
  /\ observed' = IF response' = "finished" THEN Append(observed, status) ELSE observed
  /\ UNCHANGED <<config, app, trailers, status, disconnected, pc, line, closed, logs>>

\* send() raises, and the application goes on.
SendFails ==
  /\ app = "running" /\ sending # None
  /\ sending' = None
  /\ UNCHANGED <<config, app, response, trailers, status, disconnected, pc, observed, line, closed, logs>>

\* receive() gives http.disconnect before the response is finished.
Disconnect ==
  /\ app = "running" /\ response # "finished" /\ ~disconnected
  /\ disconnected' = TRUE
  /\ UNCHANGED <<config, app, sending, response, trailers, status, pc, observed, line, closed, logs>>

-----------------------------------------------------------------------------
(* Records: HeldLogFilter.filter() and RequestState.hold_log().             *)

Holding == config.verbose \/ config.sampling  \* a HeldLogFilter is installed
Lowest == IF config.verbose THEN Debug ELSE Info

Does(t, what, record) == thread' = [thread EXCEPT ![t] = [does |-> what, record |-> record]]

Log(t) ==
  LET r == Len(logged) + 1 IN
  /\ app = "running" \/ (Detached /\ ~closed)
  /\ thread[t].does = "idle" /\ r <= MaxRecords
  /\ \E level \in {Debug, Info, Warning} :
       /\ level >= Lowest
       /\ logged' = Append(logged, level)
       /\ IF \/ ~Holding \/ level >= Warning
             \/ level >= Info /\ (~config.sampling \/ sampled = "in")
          THEN written' = written \cup {r} /\ UNCHANGED thread
          ELSE /\ Does(t, IF level < Info \/ sampled = "out" THEN "hold" ELSE "decide", r)
               /\ UNCHANGED written
  /\ UNCHANGED <<config, asgi, pc, observed, line, closed, sampled, retention, held, evicted>>

\* _sampled() found no decision and makes one.
Decide(t) ==
  /\ thread[t].does = "decide"
  /\ sampled' = config.trace
  /\ IF config.trace = "in"
     THEN written' = written \cup {thread[t].record} /\ Does(t, "idle", 0)
     ELSE UNCHANGED written /\ Does(t, "hold", thread[t].record)
  /\ UNCHANGED <<config, asgi, pc, observed, line, closed, logged, retention, held, evicted>>

\* deque(maxlen): the newest are kept. A closed request holds nothing.
Hold(t) ==
  /\ thread[t].does = "hold" /\ Does(t, "idle", 0)
  /\ IF closed
     THEN UNCHANGED <<held, evicted>>
     ELSE IF Len(held) < HoldLimit
     THEN held' = Append(held, thread[t].record) /\ UNCHANGED evicted
     ELSE /\ held' = Append(Tail(held), thread[t].record)
          /\ evicted' = evicted \cup {Head(held)}
  /\ UNCHANGED <<config, asgi, pc, observed, line, closed, logged, sampled, retention, written>>

-----------------------------------------------------------------------------
(* The end: except, finally and _finalize_request().                        *)

\* Mutation of FinalStatus: a disconnect overrides a status that was sent.
OverriddenStatus(how) ==
  IF disconnected /\ how # "raised" THEN 499
  ELSE IF response # "none" THEN status
  ELSE IF how = "raised" THEN 500 ELSE IF how = "cancelled" THEN 499 ELSE status
FinalStatus(how) ==
  IF response # "none" THEN status
  ELSE IF how = "raised" THEN 500
  ELSE IF how = "cancelled" \/ disconnected THEN 499
  ELSE status

\* An exception or a cancellation can come while send() is awaited; "exited" is any
\* other BaseException.
End(how) ==
  /\ app = "running"
  /\ how = "returned" => sending = None
  /\ Detached \/ \A t \in Threads : thread[t].does = "idle"
  /\ app' = how
  /\ sending' = None
  /\ status' = FinalStatus(how)
  /\ pc' = "keep"
  /\ UNCHANGED <<config, response, trailers, disconnected, observed, line, closed, logs>>

Message ==
  IF app = "raised" THEN "request.failed"
  ELSE IF app = "cancelled" THEN "request.cancelled"
  ELSE IF disconnected THEN "request.client_disconnected"
  ELSE IF status >= 500 THEN "request.server_error"
  ELSE IF status >= 400 THEN "request.client_error"
  ELSE "request.completed"

Level == IF Message \in {"request.failed", "request.server_error"} THEN Error
         ELSE IF Message = "request.completed" THEN Info ELSE Warning

\* Mutations of KeepRequestLogs: the request is not marked as kept; the records below
\* the level are not written for a failure either.
KeepUnmarked(failed) ==
  /\ held' = <<>>
  /\ retention' = IF failed THEN "failure" ELSE "slow"
  /\ written' = written \cup {r \in DOMAIN logged : \E i \in DOMAIN held : held[i] = r
                                                    /\ (failed \/ logged[r] >= Info)}
  /\ UNCHANGED sampled
KeepAboveLevel(failed) ==
  /\ sampled' = "in"
  /\ retention' = IF failed THEN "failure" ELSE "slow"
  /\ held' = <<>>
  /\ written' = written \cup {r \in DOMAIN logged : \E i \in DOMAIN held : held[i] = r
                                                    /\ logged[r] >= Info}

\* keep_request_logs()
KeepRequestLogs(failed) ==
  /\ sampled' = "in"
  /\ retention' = IF failed THEN "failure" ELSE "slow"
  /\ held' = <<>>
  /\ written' = written \cup {r \in DOMAIN logged : \E i \in DOMAIN held : held[i] = r
                                                    /\ (failed \/ logged[r] >= Info)}

Keep ==
  /\ pc = "keep" /\ pc' = "line"
  /\ \E slow \in BOOLEAN :
       IF Holding /\ (Level >= Error \/ slow)
       THEN KeepRequestLogs(Level >= Error)
       ELSE UNCHANGED <<sampled, retention, held, written>>
  /\ UNCHANGED <<config, asgi, observed, line, closed, logged, thread, evicted>>

\* Mutation of Reason: the retention is not looked at.
ReasonUnretained ==
  IF Level >= Warning THEN "warning" ELSE IF config.sampling THEN "sampled" ELSE "all"
\* LogSamplingFilter
Reason ==
  IF retention # None THEN retention
  ELSE IF Level >= Warning THEN "warning" ELSE IF config.sampling THEN "sampled" ELSE "all"

\* The line takes the way of every record; if it is held, nobody will write it.
LogLine ==
  LET decision == IF config.sampling /\ sampled = "unset" THEN config.trace ELSE sampled
  IN /\ pc = "line" /\ pc' = "observe"
     /\ line' = [message |-> Message, status |-> status, reason |-> Reason,
                 written |-> Level >= Warning \/ ~config.sampling \/ decision = "in"]
     /\ sampled' = IF Level >= Warning THEN sampled ELSE decision
     /\ UNCHANGED <<config, asgi, observed, closed, logged, thread, retention, held, written, evicted>>

\* A response that did not finish has its metric recorded now.
Observe ==
  /\ pc = "observe" /\ pc' = "cleanup"
  /\ observed' = IF response # "finished" THEN Append(observed, status) ELSE observed
  /\ UNCHANGED <<config, asgi, line, closed, logs>>

Cleanup ==
  /\ pc = "cleanup" /\ pc' = "done"
  /\ closed' = TRUE
  /\ held' = <<>>
  /\ UNCHANGED <<config, asgi, observed, line, logged, thread, sampled, retention, written, evicted>>

Next ==
  \/ SendStart \/ SendBody \/ SendTrailers \/ Sent \/ SendFails \/ Disconnect
  \/ \E t \in Threads : Log(t) \/ Decide(t) \/ Hold(t)
  \/ \E how \in {"returned", "raised", "cancelled", "exited"} : End(how)
  \/ Keep \/ LogLine \/ Observe \/ Cleanup

Spec == Init /\ [][Next]_vars

-----------------------------------------------------------------------------
Messages == {"request.failed", "request.cancelled", "request.client_disconnected",
             "request.server_error", "request.client_error", "request.completed"}
Statuses == {200, 404, 499, 500, 503}

TypeOK ==
  /\ config \in [verbose : BOOLEAN, sampling : BOOLEAN, trace : {"in", "out"}]
  /\ app \in {"running", "returned", "raised", "cancelled", "exited"}
  /\ sending \in {None, "start", "body", "trailers"}
  /\ response \in {"none", "started", "body", "finished"}
  /\ trailers \in BOOLEAN
  /\ status \in Statuses
  /\ disconnected \in BOOLEAN
  /\ pc \in {"app", "keep", "line", "observe", "cleanup", "done"}
  /\ observed \in Seq(Statuses)
  /\ line = None \/ line \in [message : Messages, status : Statuses, written : BOOLEAN,
                             reason : {"failure", "slow", "warning", "sampled", "all"}]
  /\ logged \in Seq({Debug, Info, Warning})
  /\ thread \in [Threads -> [does : {"idle", "decide", "hold"}, record : 0..MaxRecords]]
  /\ sampled \in {"unset", "in", "out"}
  /\ retention \in {None, "failure", "slow"}
  /\ held \in Seq(DOMAIN logged) /\ Len(held) <= HoldLimit
  /\ closed \in BOOLEAN
  /\ written \subseteq DOMAIN logged
  /\ evicted \subseteq DOMAIN logged

(* Metrics "count every request" (docs/logging.md:168), once, however the   *)
(* response and the application end, and under the status of its line: what *)
(* happens after the response neither counts again nor changes it.          *)
ObservedOnce == pc = "done" => observed = <<line.status>>

(* "A request is kept or dropped as a whole, its request.completed line     *)
(* included" (docs/logging.md:165): under sampling its INFO records and its *)
(* line are all written, up to the newest HoldLimit held, or none of the    *)
(* INFO ones is, whichever threads logged them and when it was decided.     *)
KeptAsAWhole ==
  LET infos == {r \in DOMAIN logged : logged[r] = Info} IN
  pc = "done" /\ config.sampling =>
    \/ line.written /\ infos \subseteq written \cup evicted
    \/ infos \cap written = {} /\ (line.written => line.message # "request.completed")

(* "its held lines are written just before its request.failed or            *)
(* request.server_error line" (docs/logging.md:149): such a request tells   *)
(* all it logged, at every level, up to the newest HoldLimit held.          *)
FailureTellsAll ==
  line # None /\ line.message \in {"request.failed", "request.server_error"} =>
    line.written /\ DOMAIN logged \subseteq written \cup evicted

(* The line's log_sampling tells the truth about itself: it is written for  *)
(* certain under every reason but "sampled", and under that one exactly if  *)
(* the trace is in the sample, as the metadata's probability says           *)
(* (docs/request-diagnostics.md:136-138).                                   *)
ReasonIsHonest ==
  /\ TypeOK
  /\ line # None => (line.written <=> (line.reason = "sampled" => config.trace = "in"))

(* "A request that fails (a 5xx or an unhandled exception) ... is always    *)
(* written in full" (docs/logging.md:166). Refuted: a 5xx whose client      *)
(* disconnects, or that is cancelled, before it ends is neither             *)
(* request.failed nor request.server_error, and its held records are        *)
(* dropped.                                                                 *)
FailedIsWrittenInFull ==
  pc = "done" /\ (app = "raised" \/ status >= 500) =>
    DOMAIN logged \subseteq written \cup evicted

-----------------------------------------------------------------------------
(* The journal that the log of a request implements.                        *)

Waiting == {r \in 1..Len(logged) : \/ \E i \in 1..Len(held) : held[i] = r
                                   \/ \E t \in Threads : thread[t].does # "idle" /\ thread[t].record = r}
Stance  == IF ~config.sampling THEN "in" ELSE IF sampled = "unset" THEN "unknown" ELSE sampled
Signed  == IF pc \in {"app", "keep", "line"} THEN "none" ELSE IF line.written THEN "told" ELSE "lost"
Phase   == IF pc \in {"app", "keep"} THEN "open" ELSE IF pc = "done" THEN "closed" ELSE "judged"

Journal == INSTANCE RequestJournal WITH
  Limit <- HoldLimit, Detail <- Debug, Normal <- Info, Loud <- Warning,
  entries <- logged, waiting <- Waiting, told <- written,
  stance <- Stance, line <- Signed, phase <- Phase

(* Whichever threads log and decide at once, a record is written, waits or  *)
(* is lost, and changes only as a journal says: while the request runs it   *)
(* is lost only if more than HoldLimit wait; one decision holds for all     *)
(* INFO records and the line, unless the request is kept at its end; an     *)
(* INFO record that may be written is not left behind among the held ones;  *)
(* and nothing is written or decided after the line.                        *)
ImplementsJournal == Journal!Spec

=============================================================================
