---------------------------- MODULE Installation ----------------------------
(***************************************************************************)
(* install_observability() and the lifespan it gives an app, for several   *)
(* apps in one process.  An install is a sequence of steps, any of which   *)
(* may raise; what it sets up is partly the app's (its runtime state, the  *)
(* wrappers around its lifespan, its middleware) and partly shared by the  *)
(* process (the log pipeline, OpenTelemetry's providers, the Prometheus    *)
(* registry, SQLAlchemy's instrumentation).  The log pipeline is the queue *)
(* of LogQueue seen from outside: a record is queued, then delivered.      *)
(***************************************************************************)
EXTENDS Naturals, Sequences, FiniteSets, SequencesExt

CONSTANTS
  Apps,       \* the apps of the process
  Engines,    \* their database engines
  Configs,    \* the settings install_observability() is called with
  None,       \* no engine
  MaxStarts   \* bound: the starts of all apps

ASSUME InstallationAssumption ==
  /\ Configs \subseteq [configure : BOOLEAN, otlp : BOOLEAN, tracing : BOOLEAN,
                        meters : BOOLEAN, metrics : BOOLEAN, nested : BOOLEAN,
                        engine : Engines \cup {None},
                        fault : {"none", "otlp", "setup", "metrics", "tracing", "instrument",
                                 "engine", "refused", "sqlalchemy"}]
  /\ MaxStarts \in Nat

VARIABLES
  app,      \* what belongs to each app
  process   \* what the apps share

vars == <<app, process>>

Kinds == {"observability", "logs", "traces", "meters", "user"}

Init ==
  /\ \E c \in [Apps -> Configs] :
       app = [a \in Apps |->
         [config    |-> c[a],
          step      |-> "bare",    \* how far install_observability() has come
          runtime   |-> FALSE,     \* app.state._observability_state is set
          running   |-> FALSE,     \* its lifespan_running
          wrappers  |-> <<"user">>,\* the lifespan, innermost first
          middleware|-> FALSE,     \* RequestLoggingMiddleware is added
          hidden    |-> "none",    \* routes out of the schema: "none", "added", "excluded"
          life      |-> "down",    \* "down", "starting", "up", "stopping"
          todo      |-> <<>>,      \* contexts still to enter, outermost first
          open      |-> <<>>,      \* contexts entered, innermost last
          watchdogs |-> 0,         \* watchdog threads on the app's loop
          starts    |-> 0,
          broken    |-> FALSE,     \* history: a start failed inside observability_lifespan()
          gaveUp    |-> {},        \* history: flushes of this shutdown that gave up
          word      |-> "none"]]   \* the record logged as the app shuts down
  /\ \E m \in BOOLEAN :
       process =
         [outputs    |-> "local",  \* what the queue's listener writes to: "local", "otlp"
          attached   |-> FALSE,    \* the root logger has the queue's handler
          providers  |-> {},       \* the global providers that are configured
          processors |-> [s \in {"logs", "traces", "totals"} |-> 0],
          multiprocess |-> m,      \* PROMETHEUS_MULTIPROC_DIR is set
          collectors |-> [queue |-> 0, pools |-> 0],  \* registered in REGISTRY
          described  |-> {},       \* the families REGISTRY knows the collectors by
          limiter    |-> FALSE,    \* pools._thread_limiter is set
          pools      |-> {},       \* engines whose pool is watched
          known      |-> {},       \* db_tracing._ENGINES
          traced     |-> {},       \* engines the instrumentor listens to
          instrumented |-> FALSE,  \* its is_instrumented_by_opentelemetry
          propagators|-> 0,        \* RequestIdPropagators in the global propagator
          starts     |-> 0]        \* bound: how often an app has been started

-----------------------------------------------------------------------------
(* install_observability(), step by step.                                   *)
Installing == \E a \in Apps : app[a].step \notin {"bare", "installed", "raised"}

Raise(a) == app' = [app EXCEPT ![a].step = "raised"] /\ UNCHANGED process
To(a, next) == [app EXCEPT ![a].step = next]
Wrap(a, next, kind) ==
  [app EXCEPT ![a].step = next, ![a].wrappers = Append(@, kind)]

\* The runtime state comes first; the lifespan is wrapped before OpenTelemetry's
\* hooks wrap it, so that it ends before they do.
Begin(a) ==
  /\ ~Installing /\ ~app[a].runtime
  /\ app' = [app EXCEPT ![a].runtime = TRUE, ![a].step = "logging",
                        ![a].wrappers = Append(@, "observability")]
  /\ UNCHANGED process

\* The record of a shutdown on its way: to the outputs, and out of OTLP's batch.
Delivered(word, outputs) ==
  IF word # "queued" THEN word ELSE IF outputs = "otlp" THEN "batched" ELSE "local"
DeliverAll(apps) ==
  [a \in Apps |-> [apps[a] EXCEPT !.word = Delivered(@, process.outputs)]]
ExportAll(apps) ==
  [a \in Apps |-> [apps[a] EXCEPT !.word = IF @ = "batched" THEN "exported" ELSE @]]

\* Mutation of AttachOnce: every install adds its own processor to the provider.
AttachAgain(p, key) == [p EXCEPT !.processors[key] = @ + 1]

\* A processor is attached unless the provider has one for the key.
AttachOnce(p, key) == [p EXCEPT !.processors[key] = IF @ = 0 THEN 1 ELSE @]

\* The first install makes the provider global; a later one finds it configured.
InstallOtelLogs(p) == AttachOnce([p EXCEPT !.providers = @ \cup {"logs"}], "logs")

\* Setup takes the handler off the root logger and stops the pipeline there is, which
\* writes out what is queued, then installs its own.  It may raise, after a stop that
\* worked or because the stop timed out, which leaves the old listener writing.  Without
\* a handler for OTLP, mode "otlp" raises before anything is set up and mode "both"
\* falls back to the local output.
Logging(a) ==
  /\ app[a].step = "logging"
  /\ LET c       == app[a].config
         otlp    == c.otlp /\ c.fault # "otlp"
         raises  == c.fault = "setup"
         next    == IF raises THEN "raised" ELSE "metrics"
         apps    == IF otlp THEN Wrap(a, next, "logs") ELSE To(a, next)
         shared  == IF otlp THEN InstallOtelLogs(process) ELSE process
         outputs == IF raises THEN process.outputs ELSE IF otlp THEN "otlp" ELSE "local"
     IN \/ ~c.configure /\ app' = To(a, "metrics") /\ UNCHANGED process
        \/ c.configure /\ c.otlp /\ c.fault = "otlp" /\ Raise(a)
        \/ /\ c.configure
           /\ app' \in {DeliverAll(apps)} \cup (IF raises THEN {apps} ELSE {})
           /\ process' = [shared EXCEPT !.outputs = outputs, !.attached = ~raises]

\* The families each collector yields now.
QueueFamilies == {"queue"}
PoolFamilies  == (IF process.limiter THEN {"threads"} ELSE {})
                   \cup (IF process.pools # {} THEN {"db"} ELSE {})

\* REGISTRY asks a collector for its families and refuses one that names a family it
\* knows; the ValueError is swallowed.  A worker of several has no collectors.
RegisterCollectors(p) ==
  LET New(families) == families \cap p.described = {} IN
  IF p.multiprocess THEN p
  ELSE [p EXCEPT !.collectors.queue = IF New(QueueFamilies) THEN @ + 1 ELSE @,
                 !.collectors.pools = IF New(PoolFamilies) THEN @ + 1 ELSE @,
                 !.described = @ \cup QueueFamilies \cup PoolFamilies]

\* An unknown backend raises.
Metrics(a) ==
  /\ app[a].step = "metrics"
  /\ LET c == app[a].config IN
     IF c.metrics /\ c.fault = "metrics" THEN Raise(a)
     ELSE /\ app' = To(a, "tracing")
          /\ process' = IF c.metrics THEN RegisterCollectors(process) ELSE process

\* The span exporter goes on a provider of the library's own, the totals on any.
InstallOtel(p) ==
  LET own == IF "traces" \in p.providers THEN p ELSE AttachOnce(p, "traces")
  IN  AttachOnce([own EXCEPT !.providers = @ \cup {"traces"}], "totals")

\* Without OpenTelemetry it raises at once; without its FastAPI instrumentation only
\* after the provider is global.
Tracing(a) ==
  /\ app[a].step = "tracing"
  /\ LET c == app[a].config IN
     IF ~c.tracing THEN app' = To(a, "database") /\ UNCHANGED process
     ELSE IF c.fault = "tracing" THEN Raise(a)
     ELSE /\ app' = IF c.fault = "instrument" THEN To(a, "raised")
                    ELSE Wrap(a, "database", "traces")
          /\ process' = InstallOtel(process)

\* What is traced once the instrumentor has been taken off: it refuses to be taken off
\* unless its instrument() came to its end.
TakenOff(p) == IF p.instrumented THEN {} ELSE p.traced

\* The instrumentor is a singleton: it is taken off and put on for all engines known.
\* OpenTelemetry may refuse the version of SQLAlchemy, or instrument() may raise after
\* some engines.
InstrumentSqlalchemy(p, engine, fault) ==
  LET known == p.known \cup {engine}
      listens == CASE fault = "refused"    -> {{}}
                   [] fault = "sqlalchemy" -> SUBSET known
                   [] OTHER                -> {known}
  IN {[p EXCEPT !.known = known, !.traced = TakenOff(p) \cup heard,
                !.instrumented = fault \notin {"refused", "sqlalchemy"}] : heard \in listens}

WatchDbPool(p, engine) == [p EXCEPT !.pools = @ \cup {engine}]

\* Without OpenTelemetry's SQLAlchemy package it raises before it notes the engine.
Database(a) ==
  /\ app[a].step = "database"
  /\ LET c == app[a].config
         watched == WatchDbPool(process, c.engine)
     IN /\ app' = To(a, IF c.engine # None /\ c.tracing /\ c.fault \in {"engine", "sqlalchemy"}
                        THEN "raised" ELSE "meters")
        /\ \/ c.engine = None /\ UNCHANGED process
           \/ c.engine # None /\ (~c.tracing \/ c.fault = "engine") /\ process' = watched
           \/ /\ c.engine # None /\ c.tracing /\ c.fault # "engine"
              /\ process' \in InstrumentSqlalchemy(watched, c.engine, c.fault)

Meters(a) ==
  /\ app[a].step = "meters"
  /\ app' = IF app[a].config.meters THEN Wrap(a, "middleware", "meters")
            ELSE To(a, "middleware")
  /\ process' = IF app[a].config.meters
                THEN [process EXCEPT !.providers = @ \cup {"meters"}] ELSE process

\* Nothing is added when the header is among the fields of the global propagator, and
\* a RequestIdPropagator's field is always the header set last.
InstallRequestIdPropagation(p) ==
  IF p.propagators > 0 THEN p ELSE [p EXCEPT !.propagators = 1]

\* add_middleware() raises on an app that has started.
Middleware(a) ==
  /\ app[a].step = "middleware"
  /\ IF app[a].starts > 0 THEN Raise(a)
     ELSE /\ app' = [To(a, "installed") EXCEPT ![a].middleware = TRUE]
          /\ process' = InstallRequestIdPropagation(process)

\* uninstrument_sqlalchemy(), by the application.
Uninstrument ==
  /\ ~Installing /\ process.known # {}
  /\ process' = [process EXCEPT !.known = {}, !.traced = TakenOff(process),
                               !.instrumented = FALSE]
  /\ UNCHANGED app

Install(a) == \/ Begin(a) \/ Logging(a) \/ Metrics(a) \/ Tracing(a) \/ Database(a)
              \/ Meters(a) \/ Middleware(a)

-----------------------------------------------------------------------------
(* The lifespan: contexts entered outermost first and left in reverse.  An  *)
(* install is one synchronous call, so no lifespan moves while it runs; the *)
(* listener's and the batch processor's threads do.                         *)
AddHiddenRoute(a) ==
  /\ ~Installing /\ app[a].life = "down" /\ app[a].hidden # "added"
  /\ app' = [app EXCEPT ![a].hidden = "added"]
  /\ UNCHANGED process

\* The app's own lifespan may enter observability_lifespan() itself.
Start(a) ==
  /\ ~Installing /\ app[a].life = "down"
  /\ process.starts < MaxStarts
  /\ app' = [app EXCEPT
       ![a].life = "starting", ![a].starts = @ + 1, ![a].word = "none", ![a].gaveUp = {},
       ![a].todo = Reverse(app[a].wrappers)
                     \o (IF app[a].config.nested THEN <<"observability">> ELSE <<>>)]
  /\ process' = [process EXCEPT !.starts = @ + 1]

Entered(a, context) ==
  [app EXCEPT ![a].todo = Tail(@), ![a].open = Append(@, context),
              ![a].life = IF Len(app[a].todo) = 1 THEN "up" ELSE @]

EnterOther(a) ==
  /\ ~Installing /\ app[a].life = "starting" /\ Head(app[a].todo) # "observability"
  /\ app' = Entered(a, [kind |-> Head(app[a].todo), owner |-> FALSE])
  /\ UNCHANGED process

\* Mutation of Discovered: the routes are looked at on the first start only.
DiscoveredOnce(a, hidden) ==
  IF hidden = "added" /\ app[a].starts = 1 THEN "excluded" ELSE hidden

\* The paths excluded from the metrics are computed anew from the app's routes.
Discovered(a, hidden) == IF hidden = "added" THEN "excluded" ELSE hidden

EnterObservability(a) ==
  /\ ~Installing /\ app[a].life = "starting" /\ Head(app[a].todo) = "observability"
  /\ IF app[a].running
     THEN /\ app' = Entered(a, [kind |-> "observability", owner |-> FALSE])
          /\ UNCHANGED process
     ELSE /\ app' = [Entered(a, [kind |-> "observability", owner |-> TRUE])
                     EXCEPT ![a].running = app[a].runtime,
                            ![a].watchdogs = IF app[a].runtime THEN @ + 1 ELSE @,
                            ![a].hidden = IF app[a].runtime THEN Discovered(a, @) ELSE @]
          /\ process' = [process EXCEPT !.limiter = @ \/ app[a].runtime]

\* The watchdog's thread cannot be started: the exception leaves the generator before
\* its try, with lifespan_running set.
EnterRaises(a) ==
  /\ ~Installing /\ app[a].life = "starting" /\ Head(app[a].todo) = "observability"
  /\ app[a].runtime /\ ~app[a].running
  /\ app' = [app EXCEPT ![a].life = IF app[a].open = <<>> THEN "down" ELSE "stopping",
                        ![a].running = TRUE, ![a].broken = TRUE, ![a].todo = <<>>]
  /\ process' = [process EXCEPT !.limiter = TRUE]

\* The app's own startup raises, or a served app is shut down.
Stop(a) ==
  /\ ~Installing
  /\ \/ app[a].life = "up"
     \/ app[a].life = "starting" /\ Head(app[a].todo) = "user" /\ app[a].open # <<>>
  /\ app' = [app EXCEPT ![a].life = "stopping", ![a].todo = <<>>]
  /\ UNCHANGED process

Left(a, apps) ==
  [apps EXCEPT ![a].open = Front(@),
               ![a].life = IF Len(app[a].open) = 1 THEN "down" ELSE @]
Leaving(a, kind) ==
  /\ ~Installing /\ app[a].life = "stopping" /\ app[a].open # <<>>
  /\ Last(app[a].open).kind = kind

\* The app's own shutdown code, which logs through the queue if its handler is there.
LeaveUser(a) ==
  /\ Leaving(a, "user")
  /\ app' = [Left(a, app) EXCEPT
               ![a].word = IF process.attached THEN "queued" ELSE "local"]
  /\ UNCHANGED process

\* A flush writes out what there is, or gives up on it, and nobody reads its result.
Flush(a, apps, written, name) ==
  {written} \cup (IF written = apps THEN {}
                  ELSE {[apps EXCEPT ![a].gaveUp = @ \cup {name}]})

\* Mutation of Teardown: only an app that was never installed flushes.
TeardownOfOthers(a, apps) ==
  IF app[a].runtime THEN {apps} ELSE Flush(a, apps, DeliverAll(apps), "queue")

\* flush_logging(), unless the application keeps its own logging; its deadline may pass.
Teardown(a, apps) ==
  IF app[a].runtime /\ ~app[a].config.configure THEN {apps}
  ELSE Flush(a, apps, DeliverAll(apps), "queue")

\* Mutation of LeaveObservability: the exit leaves lifespan_running set.
LeavesRunning(a) ==
  /\ Leaving(a, "observability")
  /\ app' \in IF ~Last(app[a].open).owner THEN {Left(a, app)}
              ELSE Teardown(a, [Left(a, app) EXCEPT ![a].watchdogs = 0])
  /\ UNCHANGED process

LeaveObservability(a) ==
  /\ Leaving(a, "observability")
  /\ app' \in IF Last(app[a].open).owner
              THEN Teardown(a, [Left(a, app) EXCEPT ![a].running = FALSE,
                                                    ![a].watchdogs = 0])
              ELSE {Left(a, app)}
  /\ UNCHANGED process

\* flush_on_app_shutdown(): the provider exports what it holds, unless force_flush()
\* times out or raises, which is swallowed.
LeaveHook(a) ==
  /\ \E signal \in {"logs", "traces", "meters"} :
       /\ Leaving(a, signal)
       /\ app' \in IF signal # "logs" THEN {Left(a, app)}
                   ELSE Flush(a, Left(a, app), ExportAll(Left(a, app)), "batch")
  /\ UNCHANGED process

\* The listener's thread and the batch processor's, at any time.
Listener == app' = DeliverAll(app) /\ app' # app /\ UNCHANGED process
Exporter == app' = ExportAll(app) /\ app' # app /\ UNCHANGED process

Lifespan(a) ==
  \/ AddHiddenRoute(a) \/ Start(a) \/ EnterOther(a) \/ EnterObservability(a)
  \/ EnterRaises(a) \/ Stop(a) \/ LeaveUser(a) \/ LeaveObservability(a) \/ LeaveHook(a)

Next == \/ \E a \in Apps : Install(a) \/ Lifespan(a)
        \/ Uninstrument \/ Listener \/ Exporter

Spec == Init /\ [][Next]_vars

-----------------------------------------------------------------------------
Contexts ==
  {c \in [kind : Kinds, owner : BOOLEAN] : c.owner => c.kind = "observability"}
AppStates ==
  [config : Configs,
   step : {"bare", "logging", "metrics", "tracing", "database", "meters", "middleware",
           "installed", "raised"},
   runtime : BOOLEAN, running : BOOLEAN, middleware : BOOLEAN, broken : BOOLEAN,
   wrappers : Seq(Kinds), todo : Seq(Kinds), open : Seq(Contexts),
   hidden : {"none", "added", "excluded"}, life : {"down", "starting", "up", "stopping"},
   watchdogs : Nat, starts : 0..MaxStarts, gaveUp : SUBSET {"queue", "batch"},
   word : {"none", "queued", "batched", "exported", "local"}]
ProcessStates ==
  [outputs : {"local", "otlp"}, attached : BOOLEAN, instrumented : BOOLEAN, providers : SUBSET {"logs", "traces", "meters"},
   processors : [{"logs", "traces", "totals"} -> Nat], multiprocess : BOOLEAN,
   collectors : [queue : Nat, pools : Nat], described : SUBSET {"queue", "threads", "db"},
   limiter : BOOLEAN, pools : SUBSET Engines, known : SUBSET Engines,
   traced : SUBSET Engines, propagators : Nat, starts : 0..MaxStarts]

TypeOK == app \in [Apps -> AppStates] /\ process \in ProcessStates

Served(a) == app[a].life = "up" /\ \E i \in DOMAIN app[a].open : app[a].open[i].owner

\* "A second watchdog would report each blocked loop twice" (fastapi.py:464) and
\* "a reused TestClient starts the app again" (fastapi.py:482): however lifespans nest
\* and restart, an installed app is watched by one thread while it serves and by none
\* while it is down, unless a start failed inside observability_lifespan().
OneWatchdog ==
  \A a \in Apps :
    /\ app[a].watchdogs <= 1
    /\ app[a].life = "down" => app[a].watchdogs = 0
    /\ app[a].life = "up" /\ app[a].step = "installed" /\ ~app[a].broken =>
         app[a].watchdogs = 1

\* "so a library-owned queue drains before its log provider is flushed"
\* (fastapi.py:115-116): when an app whose logging is the library's is down, what its own
\* shutdown logged has left the queue, and with OTLP logs the provider's batch, unless a
\* flush of that shutdown gave up.
LastWordsLeave ==
  \A a \in Apps :
    app[a].life = "down" /\ app[a].step = "installed" /\ ~app[a].broken =>
      /\ app[a].config.configure /\ "queue" \notin app[a].gaveUp => app[a].word # "queued"
      /\ "logs" \in Range(app[a].wrappers) /\ app[a].gaveUp = {} => app[a].word # "batched"

\* What every install touches exists once, however many apps are installed and
\* whichever installs raised: OTLP's log and span processors, the call totals, the log
\* queue's collector and the request ID's propagator.  "every call re-instruments all
\* engines seen so far" (db_tracing.py:41-42), if OpenTelemetry does not refuse or raise.
SharedOnce ==
  /\ TypeOK
  /\ \A s \in DOMAIN process.processors : process.processors[s] <= 1
  /\ "traces" \in process.providers => process.processors["totals"] = 1
  /\ process.collectors.queue <= 1
  /\ process.propagators <= 1
  /\ process.instrumented => process.known \subseteq process.traced

\* A route hidden before the start is excluded from the metrics while the app is served,
\* on every start.
HiddenIsExcluded ==
  \A a \in Apps : Served(a) /\ app[a].step = "installed" => app[a].hidden # "added"

\* "Already registered by an earlier backend build in this process"
\* (prometheus.py:241): a family is exported by one collector.
EachFamilyOnce ==
  /\ process.collectors.queue <= 1
  /\ PoolFamilies # {} => process.collectors.pools <= 1

=============================================================================
