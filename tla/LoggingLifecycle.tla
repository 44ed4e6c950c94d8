-------------------------- MODULE LoggingLifecycle --------------------------
(***************************************************************************)
(* Logging set up, set up again, shut down and forked: which handler is on *)
(* the root logger, which listener reads its queue, which outputs are      *)
(* open, what the counters and the levels are about. Each setup_logging()  *)
(* that gets as far as its handler is a generation; the records themselves *)
(* are in LogQueue.                                                        *)
(*                                                                         *)
(* One thread at a time is in setup_logging() or shutdown_logging(), under *)
(* _LOGGING_LOCK. set_log_level() is also called by the control plane,     *)
(* which takes no lock, and any thread may fork at any time: the child has *)
(* the memory and none of the other threads. setup_logging(force=False)    *)
(* only declines some of the setups below.                                 *)
(***************************************************************************)
EXTENDS Naturals, FiniteSets

CONSTANTS
  MaxSetups,     \* bound: generations
  MaxShutdowns,  \* bound: calls of shutdown_logging()
  MaxChanges,    \* bound: levels set by the control plane
  None

Debug == 10
Info == 20
Warning == 30
Levels == {Debug, Info, Warning}

\* A change of level half done, and the filter that it has read.
Changes == [level : Levels, filter : 1..MaxSetups \cup {None}]

ASSUME LifecycleAssumption ==
  /\ MaxSetups \in Nat \ {0}
  /\ MaxShutdowns \in Nat
  /\ MaxChanges \in Nat
  /\ None \notin Nat \cup Changes

\* OBS_LOG_LEVEL, OBS_LOG_LEVEL_ON_ERROR and whether OBS_LOG_SAMPLE_RATE is below 1.
Settings == [level : {Info, Warning}, on_error : {Debug, None}, sampling : BOOLEAN]

\* The locks that logging takes besides _LOGGING_LOCK: those the fork hook always
\* replaces, and those it replaces along with the listener.
ModuleLocks   == {"volume", "calls", "ratio", "plugins", "sinks"}
ListenerLocks == {"telemetry", "breakers"}

VARIABLES
  process,        \* "parent" or "child"
  hook,           \* _FORK_HOOK_REGISTERED
  lock,           \* _LOGGING_LOCK: "free", "held", or "lost" with a thread that a fork left behind
  inherited,      \* other locks lost that way
  admin,          \* where the thread in setup_logging() or shutdown_logging() is
  settings,       \* those of its setup, or None in a shutdown
  made,           \* generations so far; the newest is under construction or in use
  attached,       \* generations whose handler is on the root logger
  managed,        \* _MANAGED_HANDLERS
  accepting,      \* generations whose handler accepts records
  handlerQueue,   \* the process that made the queue a generation's handler puts in
  listener,       \* _QUEUE_LISTENER: a generation, or None
  listenerQueue,  \* the process that made the queue its listener reads
  running,        \* generations with a live listener thread
  stopping,       \* generations with a sentinel in their queue
  outputs,        \* the output handlers of each generation: "none", "open" or "closed"
  managedOutputs, \* _MANAGED_OUTPUT_HANDLERS: a generation, or None
  telemetry,      \* the queue whose counters are kept: its generation and process, or None
  filter,         \* _HELD_LOG_FILTER: a generation, or None
  filterLevel,    \* HeldLogFilter.level
  lowest,         \* HeldLogFilter.lowest_level
  rootLevel,      \* the root logger's level
  control,        \* the control plane's set_log_level() when it is half done, or None
  wanted,         \* history: the level last asked for
  changes,        \* history: levels the control plane set
  shutdowns,      \* history: shutdowns begun
  mixed,          \* history: a level was changed while a setup was under way
  caught,         \* history: the fork caught a setup or a shutdown half way
  unlisted,       \* history: a generation that it caught between listener and outputs, or None
  unstarted       \* history: generations whose listener thread could not be started

levelVars    == <<filter, filterLevel, lowest, rootLevel, wanted>>
controlVars  == <<control, changes, mixed>>
handlerVars  == <<attached, managed, accepting, handlerQueue>>
listenerVars == <<listener, listenerQueue, running, stopping>>
outputVars   == <<outputs, managedOutputs>>
forkVars     == <<process, hook, inherited, caught, unlisted>>
vars == <<lock, admin, settings, made, telemetry, shutdowns, unstarted,
          levelVars, controlVars, handlerVars, listenerVars, outputVars, forkVars>>

Lesser(m, n) == IF m < n THEN m ELSE n
Generations == 1..MaxSetups

Init ==
  /\ process = "parent" /\ hook = FALSE /\ inherited = {} /\ caught = FALSE /\ unlisted = None
  /\ lock = "free" /\ admin = "idle" /\ settings = None
  /\ made = 0
  /\ attached = {} /\ managed = {} /\ accepting = {}
  /\ handlerQueue = [g \in Generations |-> "parent"]
  /\ listener = None /\ running = {} /\ stopping = {}
  /\ listenerQueue = [g \in Generations |-> "parent"]
  /\ outputs = [g \in Generations |-> "none"]
  /\ managedOutputs = None
  /\ telemetry = None
  /\ filter = None
  /\ filterLevel = [g \in Generations |-> Info]
  /\ lowest = [g \in Generations |-> Info]
  /\ rootLevel = Warning
  /\ control = None /\ wanted = Warning /\ changes = 0 /\ mixed = FALSE
  /\ shutdowns = 0 /\ unstarted = {}

-----------------------------------------------------------------------------
(* Levels: set_log_level(), by a setup and by the control plane.            *)

\* The level goes to the filter there is, and the root's is settled by that one.
LevelOfFilter(level) ==
  filterLevel' = IF filter = None THEN filterLevel ELSE [filterLevel EXCEPT ![filter] = level]

\* Mutation of RootLevelFor: records below the level are not even created.
RootLevelIs(level, held) == level
RootLevelFor(level, held) == IF held = None THEN level ELSE Lesser(level, lowest[held])

\* It is half done when the root's level is still to be set; it has read the filter.
ChangeLevel(level) ==
  /\ control = None /\ changes < MaxChanges
  /\ changes' = changes + 1
  /\ control' = [level |-> level, filter |-> filter]
  /\ LevelOfFilter(level)
  /\ wanted' = level
  /\ mixed' = (mixed \/ admin # "idle")
  /\ UNCHANGED <<lock, admin, settings, made, telemetry, shutdowns, unstarted, filter, lowest,
                 rootLevel, handlerVars, listenerVars, outputVars, forkVars>>

ChangeRootLevel ==
  /\ control # None
  /\ rootLevel' = RootLevelFor(control.level, control.filter)
  /\ control' = None
  /\ UNCHANGED <<lock, admin, settings, made, telemetry, shutdowns, unstarted, filter, filterLevel,
                 lowest, wanted, changes, mixed, handlerVars, listenerVars, outputVars, forkVars>>

-----------------------------------------------------------------------------
(* Teardown, for a shutdown and before a setup.                             *)

Begin ==
  /\ admin = "idle" /\ lock = "free"
  /\ lock' = "held"
  /\ admin' = "closing"
  /\ mixed' = (mixed \/ control # None)

BeginSetup ==
  /\ made < MaxSetups /\ Begin
  /\ settings' \in Settings
  /\ UNCHANGED <<made, telemetry, shutdowns, unstarted, levelVars, control, changes, handlerVars,
                 listenerVars, outputVars, forkVars>>

BeginShutdown ==
  /\ shutdowns < MaxShutdowns /\ Begin
  /\ shutdowns' = shutdowns + 1
  /\ settings' = None
  /\ UNCHANGED <<made, telemetry, unstarted, levelVars, control, changes, handlerVars,
                 listenerVars, outputVars, forkVars>>

Finish == admin' = "idle" /\ lock' = "free"
Step(from, to) == admin = from /\ admin' = to /\ UNCHANGED lock

CloseHandlers ==
  /\ Step("closing", IF listener = None THEN "outputs" ELSE "stopping")
  /\ attached' = attached \ managed
  /\ accepting' = accepting \ managed
  /\ UNCHANGED <<settings, made, telemetry, shutdowns, unstarted, managed, handlerQueue,
                 levelVars, controlVars, listenerVars, outputVars, forkVars>>

PutSentinel ==
  /\ admin = "stopping" /\ listener \in running \ stopping
  /\ stopping' = stopping \cup {listener}
  /\ UNCHANGED <<lock, admin, settings, made, telemetry, shutdowns, unstarted, listener,
                 listenerQueue, running, levelVars, controlVars, handlerVars, outputVars, forkVars>>

\* The thread gets to its sentinel, perhaps long after stop() gave up.
ListenerExits(g) ==
  /\ g \in running \cap stopping
  /\ running' = running \ {g}
  /\ stopping' = stopping \ {g}
  /\ UNCHANGED <<lock, admin, settings, made, telemetry, shutdowns, unstarted, listener,
                 listenerQueue, levelVars, controlVars, handlerVars, outputVars, forkVars>>

\* Mutation of Joined: the join's timeout is not looked at.
JoinedUnchecked ==
  /\ Step("stopping", "outputs")
  /\ listener' = None
  /\ UNCHANGED <<settings, made, telemetry, shutdowns, unstarted, listenerQueue, running, stopping,
                 levelVars, controlVars, handlerVars, outputVars, forkVars>>

Joined ==
  /\ listener \notin running
  /\ Step("stopping", "outputs")
  /\ listener' = None
  /\ UNCHANGED <<settings, made, telemetry, shutdowns, unstarted, listenerQueue, running, stopping,
                 levelVars, controlVars, handlerVars, outputVars, forkVars>>

\* TimeoutError: raised by a setup, swallowed by a shutdown. Everything is kept.
StopTimesOut ==
  /\ admin = "stopping" /\ listener \in running
  /\ Finish
  /\ UNCHANGED <<settings, made, telemetry, shutdowns, unstarted, levelVars, controlVars,
                 handlerVars, listenerVars, outputVars, forkVars>>

\* A close that raises ends a setup, after everything is closed and forgotten. The
\* counters are reset under their own lock.
CloseOutputs ==
  /\ admin = "outputs" /\ "telemetry" \notin inherited
  /\ outputs' = [g \in Generations |-> IF g = managedOutputs THEN "closed" ELSE outputs[g]]
  /\ managedOutputs' = None
  /\ filter' = None
  /\ managed' = {}
  /\ \/ Finish /\ telemetry' = IF settings = None THEN None ELSE telemetry
     \/ settings # None /\ Step("outputs", "building") /\ telemetry' = None
  /\ UNCHANGED <<settings, made, shutdowns, unstarted, filterLevel, lowest, rootLevel, wanted,
                 controlVars, attached, accepting, handlerQueue, listenerVars, forkVars>>

-----------------------------------------------------------------------------
(* The rest of a setup.                                                     *)

LowestLevel == IF settings.on_error = None THEN settings.level
               ELSE Lesser(settings.level, settings.on_error)

Build ==
  /\ Step("building", "filter")
  /\ made' = made + 1
  /\ outputs' = [outputs EXCEPT ![made'] = "open"]
  /\ telemetry' = <<made', process>>
  /\ managed' = managed \cup {made'}
  /\ accepting' = accepting \cup {made'}
  /\ handlerQueue' = [handlerQueue EXCEPT ![made'] = process]
  /\ inherited' = inherited \ {"breakers"}  \* the new outputs have breakers of their own
  /\ UNCHANGED <<settings, shutdowns, unstarted, attached, managedOutputs, levelVars, controlVars,
                 listenerVars, process, hook, caught, unlisted>>

\* A sink cannot be built, or there is none.
BuildFails ==
  /\ admin = "building" /\ Finish
  /\ UNCHANGED <<settings, made, telemetry, shutdowns, unstarted, levelVars, controlVars,
                 handlerVars, listenerVars, outputVars, forkVars>>

PublishFilter ==
  /\ Step("filter", "level")
  /\ lowest' = [lowest EXCEPT ![made] = LowestLevel]
  /\ filterLevel' = [filterLevel EXCEPT ![made] = settings.level]
  /\ filter' = IF LowestLevel < settings.level \/ settings.sampling THEN made ELSE filter
  /\ UNCHANGED <<settings, made, telemetry, shutdowns, unstarted, rootLevel, wanted, controlVars,
                 handlerVars, listenerVars, outputVars, forkVars>>

SetLevel ==
  /\ Step("level", "root_level")
  /\ LevelOfFilter(settings.level)
  /\ wanted' = settings.level
  /\ UNCHANGED <<settings, made, telemetry, shutdowns, unstarted, filter, lowest, rootLevel,
                 controlVars, handlerVars, listenerVars, outputVars, forkVars>>

SetRootLevel ==
  /\ Step("root_level", "attaching")
  /\ rootLevel' = RootLevelFor(settings.level, filter)
  /\ UNCHANGED <<settings, made, telemetry, shutdowns, unstarted, filter, filterLevel, lowest,
                 wanted, controlVars, handlerVars, listenerVars, outputVars, forkVars>>

Attach ==
  /\ Step("attaching", "starting")
  /\ attached' = attached \cup {made}
  /\ UNCHANGED <<settings, made, telemetry, shutdowns, unstarted, managed, accepting, handlerQueue,
                 levelVars, controlVars, listenerVars, outputVars, forkVars>>

StartListener ==
  /\ Step("starting", "publishing")
  /\ running' = running \cup {made}
  /\ listenerQueue' = [listenerQueue EXCEPT ![made] = process]
  /\ UNCHANGED <<settings, made, telemetry, shutdowns, unstarted, listener, stopping, levelVars,
                 controlVars, handlerVars, outputVars, forkVars>>

\* "can't start new thread"
StartFails ==
  /\ admin = "starting" /\ Finish
  /\ unstarted' = unstarted \cup {made}
  /\ UNCHANGED <<settings, made, telemetry, shutdowns, levelVars, controlVars, handlerVars,
                 listenerVars, outputVars, forkVars>>

PublishListener ==
  /\ Step("publishing", "published")
  /\ listener' = made
  /\ UNCHANGED <<settings, made, telemetry, shutdowns, unstarted, listenerQueue, running, stopping,
                 levelVars, controlVars, handlerVars, outputVars, forkVars>>

PublishOutputs ==
  /\ Step("published", "hooking")
  /\ managedOutputs' = made
  /\ UNCHANGED <<settings, made, telemetry, shutdowns, unstarted, outputs, levelVars, controlVars,
                 handlerVars, listenerVars, forkVars>>

RegisterHook ==
  /\ admin = "hooking" /\ Finish
  /\ hook' = TRUE
  /\ UNCHANGED <<settings, made, telemetry, shutdowns, unstarted, levelVars, controlVars,
                 handlerVars, listenerVars, outputVars, process, inherited, caught, unlisted>>

-----------------------------------------------------------------------------
(* os.fork()                                                                *)

\* Mutations of RestartInChild: the handler keeps the old queue; the counters keep it.
RestartUnwired ==
  /\ listenerQueue' = [listenerQueue EXCEPT ![listener] = "child"]
  /\ UNCHANGED handlerQueue
  /\ telemetry' = <<listener, "child">>
  /\ running' = {listener}
  /\ stopping' = {}
RestartUncounted ==
  /\ listenerQueue' = [listenerQueue EXCEPT ![listener] = "child"]
  /\ handlerQueue' = [handlerQueue EXCEPT ![listener] = "child"]
  /\ UNCHANGED telemetry
  /\ running' = {listener}
  /\ stopping' = {}

\* A fresh queue and a new listener, for the managed handlers on the old queue.
RestartInChild ==
  /\ listenerQueue' = [listenerQueue EXCEPT ![listener] = "child"]
  /\ handlerQueue' = IF listener \in managed /\ handlerQueue[listener] = listenerQueue[listener]
                     THEN [handlerQueue EXCEPT ![listener] = "child"] ELSE handlerQueue
  /\ telemetry' = <<listener, "child">>
  /\ running' = {listener}
  /\ stopping' = {}

\* Other threads may hold any of the locks at that moment, once there is logging.
Fork ==
  /\ process = "parent" /\ process' = "child"
  /\ caught' = (admin # "idle")
  /\ unlisted' = IF admin = "published" THEN made ELSE None
  /\ admin' = "idle"
  /\ control' = None
  /\ mixed' = (mixed \/ control # None)
  /\ lock' = IF hook \/ lock = "free" THEN "free" ELSE "lost"
  /\ \E held \in SUBSET (IF made = 0 THEN {} ELSE ModuleLocks \cup ListenerLocks) :
       inherited' = held \ ( (IF hook THEN ModuleLocks ELSE {})
                       \cup (IF hook /\ listener # None THEN ListenerLocks ELSE {}) )
  /\ IF hook /\ listener # None
     THEN RestartInChild
     ELSE running' = {} /\ UNCHANGED <<listenerQueue, handlerQueue, telemetry, stopping>>
  /\ UNCHANGED <<hook, settings, made, shutdowns, unstarted, levelVars, changes, attached, managed,
                 accepting, listener, outputVars>>

Next ==
  \/ \E level \in Levels : ChangeLevel(level)
  \/ ChangeRootLevel
  \/ BeginSetup \/ BeginShutdown \/ CloseHandlers
  \/ PutSentinel \/ (\E g \in Generations : ListenerExits(g)) \/ Joined \/ StopTimesOut
  \/ CloseOutputs \/ Build \/ BuildFails \/ PublishFilter \/ SetLevel \/ SetRootLevel
  \/ Attach \/ StartListener \/ StartFails
  \/ PublishListener \/ PublishOutputs \/ RegisterHook
  \/ Fork

Spec == Init /\ [][Next]_vars

-----------------------------------------------------------------------------
Places == {"idle", "closing", "stopping", "outputs", "building", "filter", "level",
           "root_level", "attaching", "starting", "publishing", "published", "hooking"}

\* The handlers on the root logger are managed, so that a teardown finds them.
TypeOK ==
  /\ process \in {"parent", "child"} /\ hook \in BOOLEAN
  /\ lock \in {"free", "held", "lost"} /\ (lock = "held" <=> admin # "idle")
  /\ inherited \subseteq ModuleLocks \cup ListenerLocks
  /\ admin \in Places
  /\ settings \in Settings \cup {None}
  /\ made \in 0..MaxSetups
  /\ managed \subseteq 1..made /\ attached \subseteq managed /\ accepting \subseteq 1..made
  /\ handlerQueue \in [Generations -> {"parent", "child"}]
  /\ listener \in 1..made \cup {None}
  /\ listenerQueue \in [Generations -> {"parent", "child"}]
  /\ running \subseteq 1..made /\ stopping \subseteq 1..made
  /\ outputs \in [Generations -> {"none", "open", "closed"}]
  /\ managedOutputs \in 1..made \cup {None}
  /\ telemetry \in ((1..made) \X {"parent", "child"}) \cup {None}
  /\ filter \in 1..made \cup {None}
  /\ filterLevel \in [Generations -> Levels] /\ lowest \in [Generations -> Levels]
  /\ rootLevel \in Levels /\ wanted \in Levels
  /\ control \in Changes \cup {None} /\ (control # None => control.filter \in 1..made \cup {None})
  /\ changes \in 0..MaxChanges /\ shutdowns \in 0..MaxShutdowns
  /\ mixed \in BOOLEAN /\ caught \in BOOLEAN /\ unlisted \in 1..made \cup {None}
  /\ unstarted \subseteq 1..made

(* "reconfiguration fails instead of starting overlapping writers"          *)
(* (docs/logging.md:343): at most one listener thread lives, it is the      *)
(* published one, or about to be, and no stop that timed out and no fork    *)
(* leaves another behind.                                                   *)
OneWriter == running \subseteq {IF admin = "publishing" THEN made ELSE listener}

(* "A handler still in use is never closed" (docs/logging.md:343), in any   *)
(* order of setups, shutdowns that time out, retries and a fork: a live     *)
(* listener has its outputs, and they will be found by the next teardown,   *)
(* except in a child forked when the listener was published and its outputs *)
(* not yet (setup.py:223-224).                                              *)
OutputsOutliveListener ==
  \A g \in running :
    /\ outputs[g] = "open"
    /\ admin \notin {"publishing", "published"} /\ g # unlisted => managedOutputs = g

(* Setups, shutdowns and forks hand the outputs over from one living writer *)
(* to the next.                                                             *)
OneWriterWithOutputs == OneWriter /\ OutputsOutliveListener

\* Nothing went wrong that the code does not recover from.
Undisturbed == admin = "idle" /\ ~caught /\ unstarted = {}

(* A handler on the root logger is served: it alone accepts records, into   *)
(* the queue that the published, living listener reads. In a child that is  *)
(* a queue of its own, and no lock that logging takes was lost with a       *)
(* thread of the parent ("Give the child fresh locks and a fresh queue",    *)
(* setup.py:312).                                                           *)
AttachedIsServed ==
  Undisturbed =>
    \A g \in attached :
      /\ attached = {g} /\ g \in accepting
      /\ listener = g /\ g \in running
      /\ handlerQueue[g] = process /\ listenerQueue[g] = process
      /\ lock = "free" /\ inherited = {}

(* get_log_queue_stats() and its metrics tell of the queue in use: whenever *)
(* a listener is published, also after a stop that timed out and in a       *)
(* child, the counters are those of the queue that it reads.                *)
StatsAreOfTheQueue ==
  /\ TypeOK
  /\ admin = "idle" /\ listener # None => telemetry = <<listener, listenerQueue[listener]>>

(* What get_log_level() reports is the level last asked for, and the root   *)
(* logger creates exactly the records that the filter will pass or hold:    *)
(* those from the level on, or from OBS_LOG_LEVEL_ON_ERROR (docstring of    *)
(* set_log_level()); no setup and no change of level undoes one half of it, *)
(* if they do not overlap.                                                  *)
LevelsAgree ==
  Undisturbed /\ ~mixed /\ control = None =>
    IF filter # None
    THEN filterLevel[filter] = wanted /\ rootLevel = Lesser(wanted, lowest[filter])
    ELSE attached # {} => rootLevel = wanted

=============================================================================
