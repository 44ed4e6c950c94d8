# FastapiObserver in TLA+

`fastapiobserver` adds structured logs, metrics and diagnostics to FastAPI
applications. Much of it transforms data; what is hard is concurrent or depends
on order: log records leave through a bounded queue and a listener thread, calls
of databases and HTTP clients finish on any thread, a request can end in many
ways while its threads still log, installs and lifespans nest, fail and repeat,
and the process may fork. This directory models those parts and the algorithms
that decide about a request and its record, checks them with TLC, and proves
what matters most with TLAPS.

Paths below are relative to `src/src/fastapiobserver/` unless they start with
`docs/`.

## 1. The system

| Part | State | Operations | Hard because |
|---|---|---|---|
| Log queue, `logging/queueing.py` | bounded `queue.Queue`, `_accepting`, counters, listener thread, `_sentinel_enqueued` | `enqueue()` under three overflow policies, the listener's `handle()`, `flush()`, `stop()`, `close()` | producers, listener, flushes and teardown interleave; everything that waits has a deadline or a lock |
| Setup and teardown, `logging/setup.py`, `logging/state.py` | `_QUEUE_LISTENER`, `_MANAGED_*`, `_HELD_LOG_FILTER` under `_LOGGING_LOCK` | `setup_logging()`, `shutdown_logging()`, `flush_logging()`, `set_log_level()`, the fork hook | some readers take no lock; a stop can time out and be retried; a fork inherits locks |
| Sink breaker, `logging/circuit_breaker.py` | state, failures in a row, `_opened_until`, totals | `emit()`, `flush()`, `snapshot()` | the delegate writes outside the lock, so a flush can fail in the middle of a write |
| Held and sampled logs, `logging/held.py` | `sampled`, `held_logs`, `retention_reason` of a request | `HeldLogFilter`, `keep_request_logs()`, `LogSamplingFilter` | the decision is made by whichever thread logs first, and revised at the end |
| Request middleware, `middleware/request_logging.py`, `middleware/context.py` | status, what was started and finished, disconnect | ASGI wrappers, `_finalize_request()`, `cleanup()` | send, receive, cancellation and exceptions race |
| Request state and calls, `request_context.py`, `core/recording.py`, `experimental.py` | totals, calls in flight, owner token, `closed`; span owners | `CallHandle`, `record_call()`, span processor, summary, close, fork | completions are late, doubled, on other threads, in a child process |
| Outbound HTTP, `http_calls.py`, `otel/tracing.py` | `_ACTIVE_CLIENT`, marked spans, watched streams | wrapped `send()`, span start and end | wrappers nest in any order; hooks call other clients; streams outlive sends |
| Installation and lifespan, `fastapi.py`; watchdog, `loop_watchdog.py`; pools, `pools.py` | `_REGISTERED_APPS`, `lifespan_running`, `_sent_at` | install, start, restart, stop, watch, warn | restarts, nested lifespans, a thread beside the event loop |
| Control plane, `control_plane.py`, `otel/settings.py` | log level, sampling ratio | `authorize()`, `update_settings()` | changes what other threads read |
| Metrics, `metrics/`, `logging/volume.py` | collectors, bytes by route | observe, collect, mount | counters of the other parts are read while they change |
| Policies, `security/`, `middleware/ip.py`, `propagation.py`, `utils.py` | none | redaction, client address, propagation | pure algorithms on untrusted shapes |
| Plugins, sinks, bridges, OpenTelemetry setup, configuration | registries | register, look up | little |

How they interact: an application's logging call passes the filters of the
queue handler (context, sampling reason, `HeldLogFilter` last) and is either
held by its request or enqueued; the listener thread hands it to every output
handler, each perhaps behind a breaker. The middleware opens a `RequestState`,
under which clients record their calls, and at the end reads the totals, has
held records written or dropped, logs the request's line and closes the state.
Setup, teardown, flush and the fork hook work on the same queue and outputs from
other threads. `PROJECT.json` lists every source file under one of the
components, and the hazards line by line.

## 2. The modules

| Module | Models | Checked by | Proved in |
|---|---|---|---|
| `LogQueue` | the pipeline of one `setup_logging()` | `MCLogQueue` | `LogQueueProofs` |
| `LossyLog` | what the pipeline promises (abstract) | `ImplementsLossyLog` of `LogQueue` | `LogQueueProofs` |
| `SinkBreaker` | one `SinkCircuitBreakerHandler` | `MCTimers` | `SinkBreakerProofs` |
| `CallLedger` | what the recording of calls promises (abstract) | `ImplementsLedger` of `CallRecording` | `CallRecordingProofs` |
| `CallRecording` | call totals, handles, spans, close, fork | `MCCallRecording` | `CallRecordingProofs` |
| `HttpCalls` | one task calling wrapped HTTP clients | `MCHttpCalls` | `HttpCallsProofs` |
| `RequestJournal` | what the log of a request promises (abstract) | `ImplementsJournal` of `RequestLog` | `RequestLogProofs` |
| `RequestLog` | one request from its first message to `cleanup()` | `MCRequestLog` | `RequestLogProofs` |
| `LoggingLifecycle` | setups over setups, shutdowns, level changes and a fork | itself | `LoggingLifecycleProofs` |
| `LoopWatchdog` | the watchdog's thread, the event loop, starts and stops | `MCTimers` | `DiagnosticsProofs` |
| `Installation` | installs and lifespans of several apps in one process | `MCInstallation` | `InstallationProofs` |
| `RuntimeControl` | a control-plane request among other threads | `MCRequestPolicies` | `DiagnosticsProofs` |
| `RequestDiagnostics` | pool and N+1 reports of concurrent requests | `MCRequestPolicies` | `DiagnosticsProofs` |
| `RequestPolicies` | the next four for any inputs, each an initial state | `MCRequestPolicies` | `DiagnosticsProofs` |
| `ClientAddress` | proxies, client address, request ID and trace taken over | `MCRequestPolicies` | `DiagnosticsProofs` |
| `PolicySettings` | settings from profile, preset and environment | `MCRequestPolicies` | `DiagnosticsProofs` |
| `LogLine` | one record through filters, plugins and outputs | `MCRequestPolicies` | `DiagnosticsProofs` |
| `Redaction` | nested data, records and bodies before they are written | `MCRequestPolicies` | `DiagnosticsProofs` |

The modules meet at their edges, each taking the neighbour as an environment:
`LogQueue`'s setting `breaker_enabled` says whether the outputs are those of
`SinkBreaker`; `LoggingLifecycle` is all `LogQueue`s of a process seen from the
module state; `Installation` sees the queue as "queued, then delivered";
`RequestLog`'s lines are logging calls of `LogQueue`; `HttpCalls` uses the
handles that `CallRecording` models from inside; `LoopWatchdog` is what a start
and a stop of `Installation` turn on and off.

### LogQueue

The actors are the logging calls (`pc`), among them calls a sink makes on the
listener thread; the listener (`thread`, `inHand`); flushes (`flushPc`); and the
one thread that holds `_LOGGING_LOCK` for setup or a teardown (`admin`). A step
is what a thread does between two points where another can interfere. Every
operation on `queue.Queue` and every counter update has a mutex of its own and
is one step; the handler's lock is held from `Enter` to the step that ends the
call, and is not a variable: it is free when no call is in `Critical`. The
`Settings` constant is the set of overflow policies, with and without breakers,
and a behaviour picks one: without breakers a raising sink kills the listener
thread (`SinkRaises`), as `QueueListener` does. `written`, `evicted` and
`before` are history. Deadlines are not clocks: a wait with a deadline may end
at any moment it could still be waiting.

Properties: the sentinel reaches the listener; outputs are never closed under a
live listener; a stop drains; a flush answered True has every earlier record
settled; the counters account for every call; the whole implements `LossyLog`.
Under fairness, calls and teardowns return whatever the sinks do
(`CallersReturn`), and what is queued is settled if sinks return
(`QueuedIsSettled`).

### SinkBreaker

`Offer`, `Probe` and `Skip` are the three outcomes of `_should_skip()`;
`EmitFails` and `EmitSucceeds` end the write; `FlushFails` may come at any time,
between those too. Time is `cooldown`, what is left of `_opened_until`, and
`Cool`. The totals only grow, so `KeepTotals` leaves them out of a run that is
to terminate without a bound on events.

### CallRecording

A set of owners (requests and operations), handles, completion attempts and
spans. `_CALLS_LOCK` and the locks of `CallHandle` and `SpanOwners` make each
critical section a step; `finish()` is three (`FinishBegin`, `FinishClaim`,
`FinishRecord`), so that a close, another attempt or a fork comes between them.
A request summarizes and closes in two steps, an operation in one, as the code
does. `Fork` moves the process variable to the child: inherited attempts on
other threads are `gone`.

The whole implements `CallLedger`, which has accounts and calls but no handles,
attempts, tokens, locks or totals: a call is entered under an account and counted
there at most once, while the account is open and all its calls are this
process's; a statement is the balance of that moment, which for an operation is
the moment of its close. The mapping takes owners for accounts (`Open`,
`Foreign`), handles and spans for calls (`Counted`), and the terminal record for
the statement (`Stated`, failed statements being calls). A start under a closed
owner, a lookup, a claim and a refusal are stutters.

### HttpCalls

Each client has a layering: the order in which the native wrapper and
OpenTelemetry's were put on it. `stack` holds the sends and layers the task is
in, with the value of `_ACTIVE_CLIENT` to restore. A send may send again (a
redirect), and before it is answered a hook may call any client. `Answer` ends
it by a response, with its stream perhaps open, or by an exception that unwinds
the stack. `NothingStaysBehind` is about every way out.

### RequestLog

The application's tasks await `send()` and `receive()`, which may fail; threads
log, each logging call in up to three steps (`Log`, `Decide`, `Hold`) because
`HeldLogFilter` reads and writes `sampled` without a lock. `End` is the return,
exception, cancellation or other `BaseException`, with the status chosen by the
`except` and `finally` clauses; `Keep`, `LogLine`, `Observe` and `Cleanup` follow
in the code's order. Slow or not is a choice. Records are their indexes in
`logged`, whose entries are their levels.

The whole implements `RequestJournal`, which has neither threads nor steps of a
logging call, no order among the records that wait, and nothing of ASGI. What
waits is what is held or in the hands of a thread (`Waiting`); the stance on
normal entries is the sampling decision, which is "in" without sampling
(`Stance`). `Decide` settles an entry, `Hold` loses the oldest only when more than
`HoldLimit` wait and is a stutter otherwise, and `Keep`, `LogLine` and `Cleanup`
judge, sign and close. Whether the request failed is not in the journal: that is
`FailureTellsAll`.

### LoggingLifecycle

`LogQueue` is one setup seen from its records; this module is all setups of a
process seen from its module state, without records. Each setup that gets as far
as its handler is a generation (`made`); handlers, listeners, outputs and
filters are named by theirs. `admin` is the thread inside `_LOGGING_LOCK`, one
step per assignment that another thread can see in between: `CloseHandlers`,
then `PutSentinel` and `Joined` or `StopTimesOut`, `CloseOutputs`, `Build` or
`BuildFails`, `PublishFilter`, the two halves of `set_log_level()`, `Attach`,
`StartListener` or `StartFails`, `PublishListener`, `PublishOutputs`,
`RegisterHook`. A stop that timed out ends the call
with everything kept, and the listener may leave at any time afterwards. The
control plane's `set_log_level()` takes no lock, so its halves (`ChangeLevel`,
`ChangeRootLevel`) come between any of these. `Fork` happens once, at any
moment: the child has no other thread, some locks are lost (`lock`,
`inherited`), and the hook does what it does if it is registered and a listener
published. `setup_logging(force=False)` only returns early.

`AttachedIsServed` and `LevelsAgree` speak of histories in which nothing
happened that the code does not recover from: the fork did not catch a setup or
a shutdown half way (`caught`), no listener thread failed to start
(`unstarted`), and, for levels, no change overlapped a setup (`mixed`).
`StatsAreOfTheQueue` holds in all, and so does `OneWriterWithOutputs`, but that a
generation which the fork caught between the publication of its listener and of
its outputs (`unlisted`) has its outputs in no list.

### LoopWatchdog

A watchdog per start of the app. The thread looks, takes the time, posts its
callback, sleeps, reads `_sent_at` and compares it with the clock; the read and
the comparison are two steps (`Look`, `Compare`), since the loop may answer in
between. The loop blocks, goes on, runs callbacks, joins the thread in `stop()`
(which may time out), is closed with or without a stop, and is opened again.
Time is ticks, with `Half` of them between two looks and twice that for the
threshold.

### Installation

An install is one synchronous call, but each of its steps may raise, and what
the steps before it did stays: `Begin`, `Logging`, `Metrics`, `Tracing`,
`Database`, `Meters`, `Middleware`. `app[a]` is what belongs to one app: how far
its install came, the wrappers around its lifespan, and where that lifespan is;
`process` is what the apps share: outputs, providers, processors, collectors,
engines, propagators. A setup that raises has stopped the pipeline before it or
timed out on it, and leaves the root logger without a handler. SQLAlchemy's
instrumentor is taken off before it is put on again, so that a version which
OpenTelemetry refuses, or an `instrument()` that raises after some engines, leaves
the engines of earlier calls untraced; `instrumented` is the instrumentor's own
flag. A lifespan is entered outermost first and left in reverse;
the app's own may enter `observability_lifespan()` again. `word` follows the
record that an app logs while it shuts down, through the queue and OTLP's batch.
Each of the two flushes on that way may give up (`Flush`), and the code goes on;
`gaveUp` remembers which did, and `LastWordsLeave` leaves those shutdowns out. A
listener thread that cannot be started is a step of `LoggingLifecycle` only.
`hidden` is about the paths excluded from the metrics, which each start computes.

### RuntimeControl and RequestDiagnostics

`RuntimeControl` takes one request after another through `authorize()`, the
checks, the record and the two changes, each a step, since the application's
threads change level and sampler in between (`meddled`). `RequestDiagnostics` is
several requests that start while pools are full, repeat statements, send and
end; each event goes to the span, which may end within the last send, and to the
log, which limits repeats by time and by a list of what it reported.

### ClientAddress, Redaction, PolicySettings, LogLine

Algorithms without a state of their own, each with a reference definition
written another way. An address chain is checked by what separates each hop from
us. Redaction is recursive in the code; in the model it is a recursive function
of the levels left, which gives for every value of `Data` what becomes of it, so
that the code's recursion on a value is a look-up one level below. It is compared
with a definition by paths: the first step of a path at which an allowlist, a
sensitive key or the depth limit decides says what is written there. In a record
the event is written like an event of its own if there is an allowlist for
events, also where `event` itself is a sensitive key, unless sensitive keys are
dropped (`EventApart`, from `security/redaction.py`). Settings are
compared between environments: a variable that is set decides alone. A line is
compared with what each plugin and output may contribute: it has the ID and the
trace that the record or its thread had, and only a record that came without takes
what is current where it is formatted (`logging/formatter.py:79-87`); every output
that is not skipped writes one, unless an enricher added what `orjson` refuses.
`RequestPolicies`
makes each input of the four an initial state, for any set of inputs of the
shapes its assumptions name; `part` says which algorithm a behaviour is about.
`DataAssumption` says that `Data` is closed: what a map or a list of it holds is
in it, and so is each form a body may be cut to. `MCRequestPolicies` gives the
constants small sets and adds the two state machines above as further parts.

## 3. The runs

| Run | Bounds | Shows |
|---|---|---|
| `log_queue_safety` | 2 application calls, 1 sink call, 1 flush, queue of 2, all 6 settings, 2 teardowns | all safety properties of LogQueue and the refinement of `LossyLog` |
| `log_queue_liveness` | the same calls, no flush, queue of 1 | callers return, queued records are settled |
| `call_recording` | a request and an operation, one SQLAlchemy handle finished twice, a manual call each, 2 spans for 1 place | all of CallRecording and the refinement of `CallLedger` |
| `recording_spans` | the same | finding 3 |
| `http_calls` | 2 clients in 6 layerings, 3 calls, 2 spans, 6 frames | all of HttpCalls |
| `request_log` | 2 threads, 3 records, 2 held | all of RequestLog and the refinement of `RequestJournal` |
| `request_5xx` | the same | finding 1 |
| `logging_lifecycle` | 2 setups, 1 shutdown, 1 level change, 1 fork | all of LoggingLifecycle |
| `timers` | a breaker of threshold 4 and cooldown 4, or a watchdog of 2 starts and half a threshold of 1 tick | all of SinkBreaker but its totals, one property under fairness; all of LoopWatchdog, two under fairness |
| `installation` | 2 apps with any two of 12 settings, 2 engines, 2 starts | all of Installation |
| `metrics_families` | 2 apps with local settings | finding 2 |
| `request_policies` | header chains of up to 4 entries, values nested up to 5 deep over a limit of 2 with all their paths, forms of two pairs, bodies cut at every length, 336 environments, up to 2 enrichers and 3 outputs; 3 levels, 2 ratios and tokens; 2 requests and statements | the four algorithms, `AppliedAsAWhole` and `TellsOnce` |

Why the bounds are enough. The races of the queue need one call inside
`enqueue()`, one that fills the queue, and one on the listener's own thread; two
calls and a sink's call give them, and a queue of two has an order to violate
while a queue of one is full at once. The second teardown is the retry of a stop
that timed out. For handles, two attempts are the race, and two spans for one
place the overflow. For HTTP, three calls are a send, another in its hook, and
one after it; the six layerings are all orders of one wrapper of each kind, the
double wrapping `count_global_calls()` allows, and two spans below the wrapper
that counts (a client instrumented both as an instance and by its class). Three
records for two places give eviction, and two threads the race on the sampling
decision. Two generations are a setup over a setup, and a setup whose
predecessor would not stop; calls that end in a timeout make no generation, so
retries are as many as one likes up to the next one that succeeds. Two starts
are a restart beside a thread that is still there. The apps of `installation`
cover every step that can raise, each against an app that shares everything,
something or nothing with it. The diagnostics' clock of two ticks has a time
within the interval of a warning and one at its end.

Deadlock is not checked where the modelled lifetime ends: a process that was
shut down, a request that was cleaned up, starts that are used up. `MCTimers`
puts two machines that have nothing in common into one run: a behaviour is the
breaker's or the watchdog's, and the other one rests. Application calls,
threads, spans, clients, apps, requests and statements that are interchangeable
are symmetric, in safety runs only. Every property of a passing run has a mutant
of a mapped definition in `PROJECT.json` (the definitions marked "mutation of"),
which is a plausible bug that TLC finds through that property.

### Fairness

`CallerFairness` (LogQueue) is weak fairness of each call, flush, and the setup
and teardown thread: the operating system runs threads, and each wait of theirs
has a deadline, so it ends. The handler's lock is taken by a thread that may wait
behind others, but each call takes it once, so weak fairness is enough.
`ListenerFairness` is not part of the specification, since a sink may block for
ever; it is the hypothesis of `QueuedIsSettled` alone. In `SinkBreaker`, records
keep coming, writes return, and time passes: without records a breaker is never
probed, in the code either. In `LoopWatchdog`, time passes, threads run, a join
ends by its timeout, and a block that is not `lasting` ends (weak fairness); a
scheduled callback is run although the loop may block again and again before it
gets there (strong fairness of `Answer`). No fairness makes anybody stop, close
or restart a loop. The other specifications assume none.

## 4. What is proved

Each theorem holds for every value of the constants (any number of calls,
flushes, threads, owners, spans, starts, setups; any queue size, threshold,
cooldown or limit), from the named assumptions of its module alone.

`LogQueueProofs`:

* `TypeCorrect`: `TypeOK` is inductive by itself, the bound on the queue
  included.
* `SentinelSafe`, `OutputsSafe`, `ShutdownDrains` rest on one invariant,
  `TeardownInv`. The three properties are not inductive: that nothing follows
  the sentinel depends on no call being inside `enqueue()` once `close()` has
  set `_accepting`, that depends on the lock, and that the outputs are open
  depends on where the teardown is. `TeardownInv` says these together, and is
  preserved by each of the four groups of actions (`Call`, `Listener`, `Flush`,
  `Admin` lemmas).
* `FlushSound` needs where a flush request is relative to the records accepted
  before it: `RequestInv` (a request is queued or in hand exactly while its
  flush is pending) and `FlushInv` (every accepted record of `before` is
  settled, in hand, or ahead of the request in the queue).
* `DropsCounted` needs `CountInv`: a record that was put is in exactly one of the
  queue, the listener's hand, the written and the evicted records (`PlaceInv`),
  no item is twice in the queue or comes back from an eviction (`QueueInv`), and
  each counter differs from the calls that returned by those about to count
  (`CounterInv`). The lemmas say what one item more or less does to a sequence's
  records and to their number; `Records` is finite in the module's assumption.
* `PipelineIsALossyLog` is the refinement: under a mapping of what is queued and
  in hand to the log's waiting records, each step of the pipeline is one step of
  `LossyLog` or none. It uses `TeardownInv` and `CountInv`, since `LossyLog`
  lets a record be delivered or lost once, and lemmas on `RecordsOf`, which
  leaves sentinels and flush requests out of a sequence. `RecordsOf` is a
  recursive function of a position; the lemmas take the least position at which
  a statement about it fails.

`SinkBreakerProofs`: `TypeCorrect`, `NeverLeftHalfOpen`, `CooldownServed` and
`OpensExactlyOnThreshold` come from `IInv`, which adds to the type and to
`HalfOpenIsProbing` that `streak`, the history, agrees with
`_consecutive_failures` while the breaker is closed. `TotalsSound` is inductive
relative to `IInv`.

`CallRecordingProofs` argues in three layers. `ClaimInv`: who owns a handle, that
a fresh one has no claim, that one attempt claims it, and that a claim is held
in the process that made it; this alone gives `ChildrenNeverCount` (the runs
check it as part of `ImplementsLedger`, which counts nothing across a fork).
`TallyInv`: what is pending under an open owner is exactly its unrecorded
handles, which gives `ExactInFlight`; the steps change a set by one element, and the lemmas on
cardinalities say so. `ReportInv`: the record of an operation counts what was
told to callers, and claims `instrumented_clients` only if no handle was in
flight and no refused span was counted, which gives `FinalReports` and
`HandlesAreTold`; spans that still run are not told of (finding 3). `RecordingIsALedger` is the refinement, from
the three layers and `TokenInv`: the token of an open owner tells whether it has
calls and whose they are, which is what the ledger asks of a fork.

`RequestLogProofs` is about requests whose threads do not outlive the
application (`~Detached`). `AsgiInv` is where the request is; `RecordInv` says of
every record that it is with a thread, held, written, dropped or evicted, by
level and by decision (`ThreadInv`, `OpenInv`, `WrittenInv`); `LineInv` says what
the line, once made, told about it. `CountedOnce`, `Whole`, `FailuresTell` and
`HonestReason` follow. `LogIsAJournal` is the refinement. It needs `PlaceInv`: no
two threads have the same record, none is held twice, none is held while a thread
has it, so that one step moves one entry; and what is still held when the line is
logged is what the decision leaves out. The number of the held records is the
length of the deque (`HeldCount`), which bounds what waits when the request is
judged, and shows that a record is pushed out only when too many wait.

`LoggingLifecycleProofs` has an invariant in five parts: types with what they
rest on (`Base`), the hand-over from a listener to its successor (`WriterInv`),
where locks can be lost (`LockInv`), what the handler on the root logger needs
(`ServedInv`), and how far the levels agree at each step (`LevelInv`). Each part
is kept by each action, given the parts before it: `HandedOver`, `OwnStats`,
`Served` and `LevelsStayTogether` are the four properties of the run.

`HttpCallsProofs` says what the stack of sends tells of the rest (`StackInv`): a
frame that counts refers to its call's handle, a span's frame to a live span of
its own, a call made inside a send of its client is known to be nested, and what
a frame saved of `_ACTIVE_CLIENT` is the client that was counted below it. A step
pushes a frame, pops one or leaves the stack alone, and one lemma for each keeps
`StackInv`. `NothingLeft` and `NoCallLost` follow for any layers, bounds and
nesting. `CallsCountOnce` is that a natively counted call is not counted again by
a span. It needs `OneSpanOutside`, part of the module's assumption: OpenTelemetry
opens at most one span around the wrapper that counts, as
`instrument_httpx_client()` leaves a client; with two, a send that ends before it
reaches the wrapper would be counted by both. `OnceInv` follows a call through
the stack: its frames lie together, in the order of its layers (`BlockInv`);
while a span outside its wrapper is open that will count, nothing has been told
of the call (`OutsideInv`); a span tells of its own call only (`SpanCallInv`); a
call that was told of is in the send that counts it, on its way out, or over
(`OverInv`); so at most one handle or span tells of it (`UniqueInv`).

`InstallationProofs` takes each app's state by itself first (`AppInv`): how its
wrappers are ordered, that at most one open context owns the watchdog, that the
contexts of an app with OTLP logs are entered in an order whose reverse takes
the last word through queue and batch (`OrderInv`, `WordInv`). Install steps and
lifespan steps have lemmas that change one app; `ProcessInv` is that what is shared
exists once, and that while SQLAlchemy is instrumented every engine known is
traced. Four theorems follow, for any apps, engines, starts and raising steps: `SharedPartsExistOnce`,
`OneWatchdogPerApp`, `TheLastWordLeaves` and `HiddenRoutesAreExcluded`.

`DiagnosticsProofs` has the small machines and the algorithms:

* `WatchedOnce` from `WatchInv`, which ties `reports` to `reported` and a
  watching thread to the current start. `Whole` from `ControlInv`, which says at
  each stage of a control-plane request what has been changed.
* `ToldOnce` from `DiagnosticsInv`: what a span has been told at each phase of
  its request, that the statements on record are the last that were warned of,
  and that warnings of a pool are apart in time. A statement is not warned of
  again before `MaxReported` others, because what is not on record is that far
  back (`UnreportedIsApart`).
* `NearestAddress`, `SetVariablesWin` and `LinesStayWhole` are about
  `RequestPolicies`: for every header list, environment, record, and list of
  plugins and outputs of the shapes `RequestPoliciesAssumption` and
  `LoggedAssumption` name. The loops are recursive
  functions of a position, and what they compute is proved by `Induction` over a
  set of positions (a set, because an induction theorem that takes an operator
  cannot be cited) from `Iteration`, which says that such a function exists.

* `RedactionFollowsPaths`: for every set of data that `DataAssumption` allows,
  any nesting, policy, spelling of keys, set of paths and depth limit of at least
  1, and every length at which a body is cut. There is no induction over the
  data: the induction is over the steps of one path. As long as no step has
  decided, what is found along the path in the output is what the function of the
  levels left makes of what is found in the input (`StepOfClean`); the first step
  that decides is final (`DecidedByStep`, `GoneNext`), and at the end of the path
  the two definitions meet (`FoundAtEnd`, `CleanIsWritten`).

Only model-checked: the liveness properties, since they need fairness and
`ENABLED`. Every invariant that a passing run checks is proved.

## 5. What is not modelled

* Sinks as such (a registry of factories): what a sink can do to the pipeline,
  write, raise, hang and log, is in `LogQueue` and `SinkBreaker`. The Loguru and
  Strawberry bridges: adapters without state.
* Formatting, headers, routes, statements of SQL, kinds and durations of calls,
  categories of errors, what a report says, `strip_url_credentials()` and media
  types: text. The layout of an event (`middleware/events.py`) and of a line.
* Reading and merging settings beyond `PolicySettings`, validators of single
  fields, exports, test helpers, scripts and examples.
* The hash that samples a request: one choice per request (`config.trace`), since
  all records of a request have the same trace or request ID. A request without
  both is always in.
* Settings that do not validate, such as an unknown redaction mode, which raise; and
  that a variable which a profile added is removed at the end of its context even if
  the application has set it meanwhile (`profiles.py:40`).
* The exclusions from traces that follow the app's routes (`fastapi.py:420-436`):
  only the default exclusions are extended, and a failure is swallowed. What
  OpenTelemetry makes of an engine that it instruments twice.
* Threads that outlive their request's application: `RequestLog` has them
  (`Detached`), but the runs leave them out; with them a late record can be held
  after `keep_request_logs()` and is dropped. Nothing is documented for such work.
* Parents of operations and the routing of their terminal record;
  `uncount_global_calls()`; the headers of outbound calls.
* OpenTelemetry's SDK, `prometheus_client`, SQLAlchemy, the HTTP libraries and
  the standard library are outside `src/`; what the code relies on is marked
  external in `PROJECT.json`.

## 6. Findings and known limits

Where the code and what is written about it disagree; each is the counterexample
of a run.

1. `request_5xx`: a request that answered 5xx and is cancelled or disconnected
   before its application ends is logged as `request.cancelled` or
   `request.client_disconnected` (`middleware/request_logging.py:239`), and its
   held records are not written, although `docs/logging.md:166` says that a
   request that fails is always written in full.
2. `metrics_families`: the pool collector yields no family when it is first
   registered, so the registry does not refuse the second registration that
   `metrics/prometheus.py:241` relies on, and later both yield the same families.
3. `recording_spans`: a record claims `instrumented_clients` although a sampled
   span of its owner has not ended, or was refused by the tracking and is not
   counted yet: only handles in flight and counted spans are looked at
   (`request_context.py:212`), while `docs/request-diagnostics.md:118` says that
   unfinished calls and overflow prevent the claim.

What the models leave out of their properties because the code does not handle
it and nothing says that it does:

* `flush_logging()` answers True between `addHandler()` (`logging/setup.py:215`)
  and the publication of the listener, over accepted records; a child forked
  there keeps a handler that nobody serves (`logging/setup.py:307`), and so does
  a process whose listener thread cannot be started (`:222`).
* A child forked between `logging/setup.py:223` and `:224` restarts a listener
  whose outputs no later teardown closes; one forked before the hook is
  registered at `:226`, in the first setup, has a lock that nobody releases.
* A change of level that overlaps a setup can be half lost (`logging/setup.py:245`).
* The span of a client that is only traced, started in a hook of a natively
  counted send, is marked and skipped (`http_calls.py:69-80`).
* The watchdog may report a block that the loop has just answered
  (`loop_watchdog.py:53`, `:61`), and the thread of a loop that is closed without
  a stop while a callback is unanswered runs for ever.
* An install that raises half way leaves the app's state set, so that a retry is
  taken for done (`fastapi.py:79-94`); a start that fails at `fastapi.py:470-474`
  leaves `lifespan_running` set, and the next start is not watched.
* An enricher's change inside the event is a change of the record's own event,
  also when it raises, since payloads are shallow copies (`plugins.py`).
* A value that `orjson.dumps()` refuses, added by an enricher, costs the line at
  every output: `format()` raises in the handler, which prints to stderr, and
  nothing is counted (`logging/formatter.py:115`, `:127`).
* A call of `instrument_sqlalchemy()` that OpenTelemetry refuses or that raises has
  removed the instrumentation of the engines of earlier calls (`db_tracing.py:87-96`).
* The answer of `flush_logging()` is not read when an app stops (`fastapi.py:515`),
  and a `force_flush()` that raises or times out is swallowed
  (`otel/lifecycle.py:40-48`): last words may stay behind.
* `TraceContextFilter` logs at DEBUG a record that passes the same filter
  (`logging/filters.py:49`).
* `PrometheusMetricsBackend`'s lock is not made anew in a child.

## 7. Plan

Done: all modules of section 2.

To model next: a composition of `RequestLog` with `LossyLog` (a request kept as a
whole is delivered in order or counted as lost); parents of operations; the
headers of outbound calls.

To prove next: that composition, from `LogIsAJournal` and `PipelineIsALossyLog`.
