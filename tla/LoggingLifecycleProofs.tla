----------------------- MODULE LoggingLifecycleProofs -----------------------
(***************************************************************************)
(* Proofs about LoggingLifecycle for any number of setups, shutdowns and   *)
(* level changes, and a fork at any moment: outputs are handed over from   *)
(* one writer to the next (all but those a fork leaves in no list), the    *)
(* counters are those of the queue in use, a handler on the root logger is *)
(* served, and the levels agree.                                           *)
(***************************************************************************)
EXTENDS LoggingLifecycle, TLAPS

-----------------------------------------------------------------------------
(* The inductive invariant.                                                 *)

\* The generation "made" is under construction, or the teardown before it is over.
Published == {"published", "hooking"}
Unpublished == {"filter", "level", "root_level", "attaching", "starting", "publishing"}
Building == Unpublished \cup Published
Tearing == {"closing", "stopping", "outputs", "building"}

\* What the types rest on: a setup has settings and room for its generation, and
\* nothing is attached from the teardown to the new handler.
Ready ==
  /\ admin \in {"building"} \cup Building => settings \in Settings \ {None}
  /\ settings # None /\ admin \in Tearing => made < MaxSetups
  /\ admin \in {"stopping", "outputs", "building", "filter", "level", "root_level", "attaching"} =>
       attached = {}
  /\ admin \in Building => made \in managed

Base == TypeOK /\ Ready

\* A published listener has its outputs and its counters, and so has the one that
\* a setup is about to publish; in between there is none.
WriterInv ==
  /\ OneWriterWithOutputs
  /\ admin \in {"outputs", "building"} \cup Unpublished => listener = None
  /\ admin \in Published => listener = made
  /\ admin \in Building => unlisted # made
  /\ process = "parent" => unlisted = None
  /\ admin \in Building => outputs[made] = "open" /\ telemetry = <<made, process>>
  /\ admin = "publishing" => listenerQueue[made] = process
  /\ listener # None =>
       /\ outputs[listener] = "open"
       /\ admin # "published" /\ listener # unlisted => managedOutputs = listener
       /\ telemetry = <<listener, listenerQueue[listener]>>

Sound == ~caught /\ unstarted = {}

\* Where locks can be lost: only in a child, and only before it has a handler.
LockInv ==
  /\ lock = "lost" => caught
  /\ caught => process = "child"
  /\ process = "parent" => inherited = {}
  /\ listener # None /\ ~hook => admin \in Published \/ caught
  /\ process = "parent" /\ made > 0 /\ ~hook => admin \in Building \/ unstarted # {}
  /\ Sound =>
       /\ inherited \subseteq ListenerLocks
       /\ admin \in {"building"} \cup Building => "telemetry" \notin inherited
       /\ admin \in Building => inherited = {}

\* The handler on the root logger is the published listener's, or the newest one.
ServedInv ==
  Sound =>
    /\ admin \in {"idle", "closing"} /\ attached # {} =>
         /\ listener # None /\ attached = {listener}
         /\ listener \in accepting /\ listener \in running /\ listener \notin stopping
         /\ handlerQueue[listener] = process /\ listenerQueue[listener] = process
         /\ inherited = {}
    /\ admin \in Building =>
         made \in accepting /\ made \notin stopping /\ handlerQueue[made] = process
    /\ admin \in {"starting", "publishing"} \cup Published => attached = {made}
    /\ admin \in {"publishing"} \cup Published => made \in running

\* The filter, if there is one, is at the level asked for, and the root logger follows.
FilterAgrees == filter # None => filterLevel[filter] = wanted
RootAgrees(level, held) == rootLevel = RootLevelFor(level, held)

\* How far the levels agree at each step of a setup or of the control plane.
LevelInv ==
  Sound /\ ~mixed =>
    /\ control # None =>
         /\ admin = "idle"
         /\ control.level = wanted /\ control.filter = filter
    /\ admin \in {"idle", "closing", "stopping"} =>
         /\ FilterAgrees
         /\ control = None => (filter # None \/ attached # {} => RootAgrees(wanted, filter))
    /\ admin \in {"building", "filter"} => filter = None
    /\ admin = "level" => (filter # None => filterLevel[filter] = settings.level)
    /\ admin = "root_level" => wanted = settings.level /\ FilterAgrees
    /\ admin \in {"attaching", "starting", "publishing"} \cup Published =>
         FilterAgrees /\ RootAgrees(wanted, filter)

IInv == Base /\ WriterInv /\ LockInv /\ ServedInv /\ LevelInv

-----------------------------------------------------------------------------
(* Each step keeps it.                                                      *)

LEMMA Numbers ==
  /\ MaxSetups \in Nat \ {0} /\ MaxShutdowns \in Nat /\ MaxChanges \in Nat /\ None \notin Nat /\ None \notin Changes
  /\ Generations = 1..MaxSetups
  /\ Levels = {10, 20, 30}
  BY LifecycleAssumption DEF Levels, Debug, Info, Warning, Generations

LEMMA Lower ==
  ASSUME NEW m \in Levels, NEW n \in Levels
  PROVE  Lesser(m, n) \in Levels
  BY DEF Lesser

LEMMA SettingLevels ==
  ASSUME settings \in Settings
  PROVE  settings.level \in Levels /\ LowestLevel \in Levels
  <1>1. settings.level \in {Info, Warning} /\ settings.on_error \in {Debug, None}
    BY DEF Settings
  <1>2. settings.level \in Levels
    BY <1>1 DEF Levels
  <1>3. CASE settings.on_error = None
    BY <1>2, <1>3 DEF LowestLevel
  <1>4. CASE settings.on_error # None
    BY <1>1, <1>2, <1>4, Lower DEF LowestLevel, Levels
  <1>5. QED
    BY <1>2, <1>3, <1>4

LEMMA RootLevels ==
  ASSUME TypeOK, NEW level \in Levels, NEW held \in 1..made \cup {None}
  PROVE  RootLevelFor(level, held) \in Levels
  BY Numbers, Lower DEF RootLevelFor, TypeOK

LEMMA BaseKept ==
  ASSUME Base, [Next]_vars
  PROVE  Base'
  <1> USE Numbers DEF Base, TypeOK, Ready, Building, Unpublished, Published, Tearing, Places, levelVars, controlVars, handlerVars, listenerVars, outputVars, forkVars
  <1>1. ASSUME NEW level \in Levels, ChangeLevel(level) PROVE Base'
    BY <1>1 DEF ChangeLevel, LevelOfFilter, Changes
  <1>2. CASE ChangeRootLevel
    <2>1. control.level \in Levels /\ control.filter \in 1..made \cup {None}
      BY <1>2 DEF ChangeRootLevel, Changes
    <2>2. rootLevel' \in Levels
      BY <1>2, <2>1, RootLevels DEF ChangeRootLevel
    <2>3. QED
      BY <1>2, <2>2 DEF ChangeRootLevel
  <1>3. CASE BeginSetup
    BY <1>3 DEF BeginSetup, Begin
  <1>4. CASE BeginShutdown
    BY <1>4 DEF BeginShutdown, Begin
  <1>5. CASE CloseHandlers
    BY <1>5 DEF CloseHandlers, Step
  <1>6. CASE PutSentinel
    BY <1>6 DEF PutSentinel
  <1>7. ASSUME NEW g \in Generations, ListenerExits(g) PROVE Base'
    BY <1>7 DEF ListenerExits
  <1>8. CASE Joined
    BY <1>8 DEF Joined, Step
  <1>9. CASE StopTimesOut
    BY <1>9 DEF StopTimesOut, Finish
  <1>10. CASE CloseOutputs
    BY <1>10 DEF CloseOutputs, Step, Finish
  <1>11. CASE Build
    BY <1>11 DEF Build, Step
  <1>12. CASE BuildFails
    BY <1>12 DEF BuildFails, Finish
  <1>13. CASE PublishFilter
    <2>1. settings.level \in Levels /\ LowestLevel \in Levels
      BY <1>13, SettingLevels DEF PublishFilter, Step
    <2>2. QED
      BY <1>13, <2>1 DEF PublishFilter, Step
  <1>14. CASE SetLevel
    <2>1. settings.level \in Levels
      BY <1>14, SettingLevels DEF SetLevel, Step
    <2>2. QED
      BY <1>14, <2>1 DEF SetLevel, Step, LevelOfFilter
  <1>15. CASE SetRootLevel
    <2>1. settings.level \in Levels
      BY <1>15, SettingLevels DEF SetRootLevel, Step
    <2>2. rootLevel' \in Levels
      BY <1>15, <2>1, RootLevels DEF SetRootLevel
    <2>3. QED
      BY <1>15, <2>2 DEF SetRootLevel, Step
  <1>16. CASE Attach
    BY <1>16 DEF Attach, Step
  <1>17. CASE StartListener
    BY <1>17 DEF StartListener, Step
  <1>18. CASE StartFails
    BY <1>18 DEF StartFails, Finish
  <1>19. CASE PublishListener \/ PublishOutputs
    BY <1>19 DEF PublishListener, PublishOutputs, Step
  <1>23. CASE RegisterHook
    BY <1>23 DEF RegisterHook, Finish
  <1>20. CASE Fork
    <2>0. /\ process = "parent" /\ process' = "child" /\ admin' = "idle" /\ control' = None
          /\ UNCHANGED <<hook, settings, made, shutdowns, unstarted, filter, filterLevel, lowest,
                         rootLevel, wanted, changes, attached, managed, accepting, listener,
                         outputs, managedOutputs>>
      BY <1>20 DEF Fork
    <2>1. (caught' <=> admin # "idle") /\ (mixed' <=> mixed \/ control # None)
      BY <1>20 DEF Fork
    <2>2. lock' = IF hook \/ lock = "free" THEN "free" ELSE "lost"
      BY <1>20 DEF Fork
    <2>3. inherited' \subseteq ModuleLocks \cup ListenerLocks
      BY <1>20 DEF Fork
    <2>4. /\ listenerQueue' \in [Generations -> {"parent", "child"}]
          /\ handlerQueue' \in [Generations -> {"parent", "child"}]
          /\ running' \subseteq 1..made /\ stopping' \subseteq 1..made
          /\ telemetry' \in ((1..made) \X {"parent", "child"}) \cup {None}
      <3>1. CASE hook /\ listener # None
        <4>1. RestartInChild /\ listener \in 1..made
          BY <1>20, <3>1 DEF Fork
        <4>2. QED
          BY <4>1 DEF RestartInChild
      <3>2. CASE ~(hook /\ listener # None)
        BY <1>20, <3>2 DEF Fork
      <3>3. QED
        BY <3>1, <3>2
    <2>5. caught' \in BOOLEAN /\ mixed' \in BOOLEAN
      BY <1>20, Zenon DEF Fork
    <2>6. lock' \in {"free", "lost"}
      BY <2>2
    <2>9. unlisted' \in 1..made \cup {None}
      BY <1>20 DEF Fork
    <2>7. TypeOK'
      BY <2>0, <2>3, <2>4, <2>5, <2>6, <2>9
    <2>8. QED
      BY <2>0, <2>7
  <1>21. CASE UNCHANGED vars
    BY <1>21 DEF vars
  <1>22. QED
    BY <1>1, <1>2, <1>3, <1>4, <1>5, <1>6, <1>7, <1>8, <1>9, <1>10, <1>11, <1>12, <1>13, <1>14, <1>15, <1>16, <1>17, <1>18, <1>19, <1>20, <1>21, <1>23 DEF Next, Levels

LEMMA WriterKept ==
  ASSUME Base, WriterInv, [Next]_vars
  PROVE  WriterInv'
  <1> USE Numbers DEF Base, TypeOK, Ready, WriterInv, OneWriterWithOutputs, OneWriter, OutputsOutliveListener, Building, Unpublished, Published, Tearing, Places, levelVars, controlVars, handlerVars, listenerVars, outputVars, forkVars
  <1>1. ASSUME NEW level \in Levels, ChangeLevel(level) PROVE WriterInv'
    BY <1>1 DEF ChangeLevel, LevelOfFilter
  <1>2. CASE ChangeRootLevel
    BY <1>2 DEF ChangeRootLevel, RootLevelFor
  <1>3. CASE BeginSetup
    BY <1>3 DEF BeginSetup, Begin
  <1>4. CASE BeginShutdown
    BY <1>4 DEF BeginShutdown, Begin
  <1>5. CASE CloseHandlers
    BY <1>5 DEF CloseHandlers, Step
  <1>6. CASE PutSentinel
    BY <1>6 DEF PutSentinel
  <1>7. ASSUME NEW g \in Generations, ListenerExits(g) PROVE WriterInv'
    BY <1>7 DEF ListenerExits
  <1>8. CASE Joined
    BY <1>8 DEF Joined, Step
  <1>9. CASE StopTimesOut
    BY <1>9 DEF StopTimesOut, Finish
  <1>10. CASE CloseOutputs
    BY <1>10 DEF CloseOutputs, Step, Finish
  <1>11. CASE Build
    <2>1. /\ admin = "building" /\ admin' = "filter"
          /\ made' = made + 1 /\ made' \in Generations
          /\ outputs' = [outputs EXCEPT ![made'] = "open"]
          /\ handlerQueue' = [handlerQueue EXCEPT ![made'] = process]
          /\ telemetry' = <<made', process>> /\ accepting' = accepting \cup {made'}
          /\ UNCHANGED <<process, attached, listener, listenerQueue, running, stopping, caught,
                         unstarted>>
      BY <1>11 DEF Build, Step
    <2>2. outputs'[made'] = "open" /\ handlerQueue'[made'] = process
      BY <2>1
    <2>3. listener = None /\ running = {}
      BY <2>1
    <2>5. unlisted' = unlisted /\ unlisted # made'
      BY <1>11, <2>1 DEF Build
    <2>4. QED
      BY <2>1, <2>2, <2>3, <2>5
  <1>12. CASE BuildFails
    BY <1>12 DEF BuildFails, Finish
  <1>13. CASE PublishFilter
    BY <1>13 DEF PublishFilter, Step, LowestLevel
  <1>14. CASE SetLevel
    BY <1>14 DEF SetLevel, Step, LevelOfFilter
  <1>15. CASE SetRootLevel
    BY <1>15 DEF SetRootLevel, Step, RootLevelFor
  <1>16. CASE Attach
    BY <1>16 DEF Attach, Step
  <1>17. CASE StartListener
    BY <1>17 DEF StartListener, Step
  <1>18. CASE StartFails
    BY <1>18 DEF StartFails, Finish
  <1>19. CASE PublishListener \/ PublishOutputs
    BY <1>19 DEF PublishListener, PublishOutputs, Step
  <1>23. CASE RegisterHook
    BY <1>23 DEF RegisterHook, Finish
  <1>20. CASE Fork
    <2>1. /\ admin' = "idle" /\ unlisted' = (IF admin = "published" THEN made ELSE None)
          /\ process' = "child" /\ UNCHANGED <<made, listener, outputs, managedOutputs>>
      BY <1>20 DEF Fork
    <2>5. /\ admin = "published" => listener = made
          /\ listener # None /\ admin # "published" => managedOutputs = listener
          /\ listener # None => outputs[listener] = "open"
      <3>1. unlisted = None
        BY <1>20 DEF Fork
      <3>2. QED
        BY <3>1
    <2>6. listener' # None /\ listener' # unlisted' => managedOutputs' = listener'
      BY ONLY <2>1, <2>5
    <2>2. CASE hook /\ listener # None
      <3>1. RestartInChild /\ listener \in Generations
        BY <1>20, <2>2 DEF Fork
      <3>2. /\ listenerQueue'[listener] = "child" /\ running' = {listener}
            /\ telemetry' = <<listener, "child">>
        BY <3>1 DEF RestartInChild
      <3>3. QED
        BY ONLY <2>1, <2>2, <2>5, <2>6, <3>2
           DEF WriterInv, OneWriterWithOutputs, OneWriter, OutputsOutliveListener, Building,
               Unpublished, Published
    <2>3. CASE ~(hook /\ listener # None)
      <3>1. running' = {} /\ UNCHANGED <<listenerQueue, telemetry>>
        BY <1>20, <2>3 DEF Fork
      <3>2. listener # None => telemetry = <<listener, listenerQueue[listener]>>
        OBVIOUS
      <3>3. QED
        BY ONLY <2>1, <2>5, <2>6, <3>1, <3>2
           DEF WriterInv, OneWriterWithOutputs, OneWriter, OutputsOutliveListener, Building,
               Unpublished, Published
    <2>4. QED
      BY <2>2, <2>3
  <1>21. CASE UNCHANGED vars
    BY <1>21 DEF vars
  <1>22. QED
    BY <1>1, <1>2, <1>3, <1>4, <1>5, <1>6, <1>7, <1>8, <1>9, <1>10, <1>11, <1>12, <1>13, <1>14, <1>15, <1>16, <1>17, <1>18, <1>19, <1>20, <1>21, <1>23 DEF Next, Levels

LEMMA LocksKept ==
  ASSUME Base, WriterInv, LockInv, ServedInv, [Next]_vars
  PROVE  LockInv'
  <1> USE Numbers DEF Base, TypeOK, Ready, WriterInv, LockInv, ServedInv, Sound, Building, Unpublished, Published, Tearing, Places, ModuleLocks, ListenerLocks, levelVars, controlVars, handlerVars, listenerVars, outputVars, forkVars
  <1>1. ASSUME NEW level \in Levels, ChangeLevel(level) PROVE LockInv'
    BY <1>1 DEF ChangeLevel, LevelOfFilter
  <1>2. CASE ChangeRootLevel
    BY <1>2 DEF ChangeRootLevel, RootLevelFor
  <1>3. CASE BeginSetup
    BY <1>3 DEF BeginSetup, Begin
  <1>4. CASE BeginShutdown
    BY <1>4 DEF BeginShutdown, Begin
  <1>5. CASE CloseHandlers
    BY <1>5 DEF CloseHandlers, Step
  <1>6. CASE PutSentinel
    BY <1>6 DEF PutSentinel
  <1>7. ASSUME NEW g \in Generations, ListenerExits(g) PROVE LockInv'
    BY <1>7 DEF ListenerExits
  <1>8. CASE Joined
    BY <1>8 DEF Joined, Step
  <1>9. CASE StopTimesOut
    BY <1>9 DEF StopTimesOut, Finish
  <1>10. CASE CloseOutputs
    BY <1>10 DEF CloseOutputs, Step, Finish
  <1>11. CASE Build
    BY <1>11 DEF Build, Step
  <1>12. CASE BuildFails
    BY <1>12 DEF BuildFails, Finish
  <1>13. CASE PublishFilter
    BY <1>13 DEF PublishFilter, Step, LowestLevel
  <1>14. CASE SetLevel
    BY <1>14 DEF SetLevel, Step, LevelOfFilter
  <1>15. CASE SetRootLevel
    BY <1>15 DEF SetRootLevel, Step, RootLevelFor
  <1>16. CASE Attach
    BY <1>16 DEF Attach, Step
  <1>17. CASE StartListener
    BY <1>17 DEF StartListener, Step
  <1>18. CASE StartFails
    BY <1>18 DEF StartFails, Finish
  <1>19. CASE PublishListener \/ PublishOutputs
    <2>1. /\ admin \in Building /\ admin' \in Published
          /\ UNCHANGED <<lock, made, hook, process, caught, inherited, unstarted>>
      BY <1>19 DEF PublishListener, PublishOutputs, Step
    <2>2. QED
      BY <2>1
  <1>23. CASE RegisterHook
    BY <1>23 DEF RegisterHook, Finish
  <1>20. CASE Fork
    <2>0. /\ process = "parent" /\ process' = "child" /\ admin' = "idle" /\ control' = None
          /\ UNCHANGED <<hook, settings, made, shutdowns, unstarted, filter, filterLevel, lowest,
                         rootLevel, wanted, changes, attached, managed, accepting, listener,
                         outputs, managedOutputs>>
      BY <1>20 DEF Fork
    <2>1. (caught' <=> admin # "idle") /\ (mixed' <=> mixed \/ control # None)
      BY <1>20 DEF Fork
    <2>2. lock' = IF hook \/ lock = "free" THEN "free" ELSE "lost"
      BY <1>20 DEF Fork
    <2>3. hook /\ listener # None => inherited' = {}
      BY <1>20 DEF Fork
    <2>4. hook => inherited' \subseteq ListenerLocks
      BY <1>20 DEF Fork
    <2>5. made = 0 => inherited' = {}
      BY <1>20 DEF Fork
    <2>6. lock' = "lost" => caught'
      BY <2>0, <2>1, <2>2
    <2>7. ~caught' /\ unstarted' = {} => inherited' \subseteq ListenerLocks
      <3>1. SUFFICES ASSUME ~caught', unstarted' = {} PROVE inherited' \subseteq ListenerLocks
        OBVIOUS
      <3>2. admin = "idle" /\ unstarted = {}
        BY <2>0, <2>1, <3>1
      <3>3. CASE made = 0
        BY <2>5, <3>3
      <3>4. CASE made # 0
        BY <2>0, <2>4, <3>2, <3>4
      <3>5. QED
        BY <3>3, <3>4
    <2>9. listener' # None /\ ~hook' => caught'
      BY <2>0, <2>1
    <2>8. QED
      BY <2>0, <2>6, <2>7, <2>9
  <1>21. CASE UNCHANGED vars
    BY <1>21 DEF vars
  <1>22. QED
    BY <1>1, <1>2, <1>3, <1>4, <1>5, <1>6, <1>7, <1>8, <1>9, <1>10, <1>11, <1>12, <1>13, <1>14, <1>15, <1>16, <1>17, <1>18, <1>19, <1>20, <1>21, <1>23 DEF Next, Levels

LEMMA ServedKept ==
  ASSUME Base, WriterInv, LockInv, ServedInv, [Next]_vars
  PROVE  ServedInv'
  <1> USE Numbers DEF Base, TypeOK, Ready, WriterInv, OneWriterWithOutputs, OneWriter, LockInv, ServedInv, Sound, Building, Unpublished, Published, Tearing, Places, ListenerLocks, levelVars, controlVars, handlerVars, listenerVars, outputVars, forkVars
  <1>1. ASSUME NEW level \in Levels, ChangeLevel(level) PROVE ServedInv'
    BY <1>1 DEF ChangeLevel, LevelOfFilter
  <1>2. CASE ChangeRootLevel
    BY <1>2 DEF ChangeRootLevel, RootLevelFor
  <1>3. CASE BeginSetup
    BY <1>3 DEF BeginSetup, Begin
  <1>4. CASE BeginShutdown
    BY <1>4 DEF BeginShutdown, Begin
  <1>5. CASE CloseHandlers
    BY <1>5 DEF CloseHandlers, Step
  <1>6. CASE PutSentinel
    BY <1>6 DEF PutSentinel
  <1>7. ASSUME NEW g \in Generations, ListenerExits(g) PROVE ServedInv'
    BY <1>7 DEF ListenerExits
  <1>8. CASE Joined
    BY <1>8 DEF Joined, Step
  <1>9. CASE StopTimesOut
    BY <1>9 DEF StopTimesOut, Finish
  <1>10. CASE CloseOutputs
    BY <1>10 DEF CloseOutputs, Step, Finish
  <1>11. CASE Build
    <2>1. /\ admin = "building" /\ admin' = "filter"
          /\ made' = made + 1 /\ made' \in Generations
          /\ outputs' = [outputs EXCEPT ![made'] = "open"]
          /\ handlerQueue' = [handlerQueue EXCEPT ![made'] = process]
          /\ telemetry' = <<made', process>> /\ accepting' = accepting \cup {made'}
          /\ UNCHANGED <<process, attached, listener, listenerQueue, running, stopping, caught,
                         unstarted>>
      BY <1>11 DEF Build, Step
    <2>2. outputs'[made'] = "open" /\ handlerQueue'[made'] = process
      BY <2>1
    <2>3. made' \in accepting' /\ made' \notin stopping'
      BY <2>1
    <2>4. QED
      BY <2>1, <2>2, <2>3
  <1>12. CASE BuildFails
    BY <1>12 DEF BuildFails, Finish
  <1>13. CASE PublishFilter
    BY <1>13 DEF PublishFilter, Step, LowestLevel
  <1>14. CASE SetLevel
    BY <1>14 DEF SetLevel, Step, LevelOfFilter
  <1>15. CASE SetRootLevel
    BY <1>15 DEF SetRootLevel, Step, RootLevelFor
  <1>16. CASE Attach
    BY <1>16 DEF Attach, Step
  <1>17. CASE StartListener
    BY <1>17 DEF StartListener, Step
  <1>18. CASE StartFails
    BY <1>18 DEF StartFails, Finish
  <1>19. CASE PublishListener \/ PublishOutputs
    BY <1>19 DEF PublishListener, PublishOutputs, Step
  <1>23. CASE RegisterHook
    BY <1>23 DEF RegisterHook, Finish
  <1>20. CASE Fork
    <2>0. /\ process = "parent" /\ process' = "child" /\ admin' = "idle" /\ control' = None
          /\ UNCHANGED <<hook, settings, made, shutdowns, unstarted, filter, filterLevel, lowest,
                         rootLevel, wanted, changes, attached, managed, accepting, listener,
                         outputs, managedOutputs>>
      BY <1>20 DEF Fork
    <2>1. (caught' <=> admin # "idle") /\ (mixed' <=> mixed \/ control # None)
      BY <1>20 DEF Fork
    <2>2. lock' = IF hook \/ lock = "free" THEN "free" ELSE "lost"
      BY <1>20 DEF Fork
    <2>3. SUFFICES ASSUME ~caught', unstarted' = {}, attached' # {}
          PROVE  /\ listener' # None /\ attached' = {listener'}
                 /\ listener' \in accepting' /\ listener' \in running' /\ listener' \notin stopping'
                 /\ handlerQueue'[listener'] = process' /\ listenerQueue'[listener'] = process'
                 /\ inherited' = {}
      BY <2>0
    <2>4. /\ admin = "idle" /\ hook
          /\ listener \in Generations /\ attached = {listener} /\ listener \in managed
          /\ listener \in accepting
          /\ handlerQueue[listener] = "parent" /\ listenerQueue[listener] = "parent"
      <3>1. ~caught /\ unstarted = {} /\ admin = "idle" /\ attached # {}
        BY <2>0, <2>1, <2>3
      <3>2. QED
        BY <2>0, <3>1
    <2>5. RestartInChild /\ inherited' = {}
      BY <1>20, <2>4 DEF Fork
    <2>6. /\ handlerQueue'[listener] = "child" /\ listenerQueue'[listener] = "child"
          /\ running' = {listener} /\ stopping' = {}
      BY <2>4, <2>5 DEF RestartInChild
    <2>7. QED
      BY <2>0, <2>4, <2>5, <2>6
  <1>21. CASE UNCHANGED vars
    BY <1>21 DEF vars
  <1>22. QED
    BY <1>1, <1>2, <1>3, <1>4, <1>5, <1>6, <1>7, <1>8, <1>9, <1>10, <1>11, <1>12, <1>13, <1>14, <1>15, <1>16, <1>17, <1>18, <1>19, <1>20, <1>21, <1>23 DEF Next, Levels

LEMMA LevelsKept ==
  ASSUME Base, WriterInv, LockInv, ServedInv, LevelInv, [Next]_vars
  PROVE  LevelInv'
  <1> USE Numbers DEF Base, LockInv, TypeOK, Ready, LevelInv, Sound, FilterAgrees, RootAgrees, Building, Unpublished, Published, Tearing, Places, levelVars, controlVars, handlerVars, listenerVars, outputVars, forkVars, RootLevelFor, Lesser
  <1>1. ASSUME NEW level \in Levels, ChangeLevel(level) PROVE LevelInv'
    <2>1. /\ control = None /\ control' = [level |-> level, filter |-> filter]
          /\ (mixed' <=> mixed \/ admin # "idle") /\ wanted' = level
          /\ UNCHANGED <<admin, settings, filter, attached, caught, unstarted>>
      BY <1>1 DEF ChangeLevel
    <2>2. SUFFICES ASSUME ~caught', unstarted' = {}, ~mixed'
          PROVE  control'.level = wanted' /\ control'.filter = filter' /\ admin' = "idle"
                 /\ FilterAgrees' /\ control' # None
      BY <2>1
    <2>3. FilterAgrees'
      BY <1>1, <2>1 DEF ChangeLevel, LevelOfFilter
    <2>4. control' # None
      BY <1>1, <2>1 DEF Changes
    <2>5. QED
      BY <2>1, <2>2, <2>3, <2>4
  <1>2. CASE ChangeRootLevel
    BY <1>2 DEF ChangeRootLevel, RootLevelFor
  <1>3. CASE BeginSetup
    BY <1>3 DEF BeginSetup, Begin
  <1>4. CASE BeginShutdown
    BY <1>4 DEF BeginShutdown, Begin
  <1>5. CASE CloseHandlers
    BY <1>5 DEF CloseHandlers, Step
  <1>6. CASE PutSentinel
    BY <1>6 DEF PutSentinel
  <1>7. ASSUME NEW g \in Generations, ListenerExits(g) PROVE LevelInv'
    BY <1>7 DEF ListenerExits
  <1>8. CASE Joined
    BY <1>8 DEF Joined, Step
  <1>9. CASE StopTimesOut
    BY <1>9 DEF StopTimesOut, Finish
  <1>10. CASE CloseOutputs
    BY <1>10 DEF CloseOutputs, Step, Finish
  <1>11. CASE Build
    BY <1>11 DEF Build, Step
  <1>12. CASE BuildFails
    BY <1>12 DEF BuildFails, Finish
  <1>13. CASE PublishFilter
    BY <1>13 DEF PublishFilter, Step, LowestLevel
  <1>14. CASE SetLevel
    BY <1>14 DEF SetLevel, Step, LevelOfFilter
  <1>15. CASE SetRootLevel
    BY <1>15 DEF SetRootLevel, Step, RootLevelFor
  <1>16. CASE Attach
    BY <1>16 DEF Attach, Step
  <1>17. CASE StartListener
    BY <1>17 DEF StartListener, Step
  <1>18. CASE StartFails
    BY <1>18 DEF StartFails, Finish
  <1>19. CASE PublishListener \/ PublishOutputs
    BY <1>19 DEF PublishListener, PublishOutputs, Step
  <1>23. CASE RegisterHook
    BY <1>23 DEF RegisterHook, Finish
  <1>20. CASE Fork
    <2>0. /\ process = "parent" /\ process' = "child" /\ admin' = "idle" /\ control' = None
          /\ UNCHANGED <<hook, settings, made, shutdowns, unstarted, filter, filterLevel, lowest,
                         rootLevel, wanted, changes, attached, managed, accepting, listener,
                         outputs, managedOutputs>>
      BY <1>20 DEF Fork
    <2>1. (caught' <=> admin # "idle") /\ (mixed' <=> mixed \/ control # None)
      BY <1>20 DEF Fork
    <2>2. lock' = IF hook \/ lock = "free" THEN "free" ELSE "lost"
      BY <1>20 DEF Fork
    <2>3. SUFFICES ASSUME ~caught', unstarted' = {}, ~mixed'
          PROVE  FilterAgrees' /\ (filter # None \/ attached # {} => RootAgrees(wanted, filter))'
      BY <2>0
    <2>4. Sound /\ ~mixed /\ admin = "idle" /\ control = None
      BY <2>0, <2>1, <2>3
    <2>5. QED
      BY <2>0, <2>4
  <1>21. CASE UNCHANGED vars
    BY <1>21 DEF vars
  <1>22. QED
    BY <1>1, <1>2, <1>3, <1>4, <1>5, <1>6, <1>7, <1>8, <1>9, <1>10, <1>11, <1>12, <1>13, <1>14, <1>15, <1>16, <1>17, <1>18, <1>19, <1>20, <1>21, <1>23 DEF Next, Levels

-----------------------------------------------------------------------------
(* The results.                                                             *)

LEMMA IInvInitially ==
  ASSUME Init
  PROVE  IInv
  <1>1. Base
    <2>1. Info \in Levels /\ Warning \in Levels
      BY DEF Levels
    <2>2. /\ handlerQueue \in [Generations -> {"parent", "child"}]
          /\ listenerQueue \in [Generations -> {"parent", "child"}]
          /\ outputs \in [Generations -> {"none", "open", "closed"}]
      BY DEF Init
    <2>3. filterLevel \in [Generations -> Levels] /\ lowest \in [Generations -> Levels]
      BY <2>1 DEF Init
    <2>4. made \in 0..MaxSetups /\ changes \in 0..MaxChanges /\ shutdowns \in 0..MaxShutdowns
      BY Numbers DEF Init
    <2>5. TypeOK
      BY <2>1, <2>2, <2>3, <2>4 DEF Init, TypeOK, Places
    <2>6. Ready
      BY DEF Init, Ready, Building, Unpublished, Published, Tearing
    <2>7. QED
      BY <2>5, <2>6 DEF Base
  <1>2. WriterInv
    BY Numbers DEF Init, WriterInv, OneWriterWithOutputs, OneWriter, OutputsOutliveListener, Building, Unpublished, Published
  <1>3. LockInv /\ ServedInv
    <2>1. LockInv
      <3>1. /\ lock = "free" /\ process = "parent" /\ inherited = {} /\ made = 0
            /\ listener = None /\ caught = FALSE /\ admin = "idle"
        BY DEF Init
      <3>2. QED
        BY <3>1 DEF LockInv, Building, Unpublished, Published
    <2>2. ServedInv
      <3>1. admin = "idle" /\ attached = {}
        BY DEF Init
      <3>2. QED
        BY <3>1 DEF ServedInv, Building, Unpublished, Published
    <2>3. QED
      BY <2>1, <2>2
  <1>4. LevelInv
    <2>1. admin = "idle" /\ filter = None /\ attached = {} /\ control = None
      BY DEF Init
    <2>2. QED
      BY <2>1 DEF LevelInv, FilterAgrees, Published
  <1>5. QED
    BY <1>1, <1>2, <1>3, <1>4 DEF IInv

THEOREM Invariance == Spec => []IInv
  <1>1. Init => IInv
    BY IInvInitially
  <1>2. IInv /\ [Next]_vars => IInv'
    BY BaseKept, WriterKept, LocksKept, ServedKept, LevelsKept DEF IInv
  <1>3. QED
    BY <1>1, <1>2, PTL DEF Spec

(* Whatever the order of setups, shutdowns that time out, retries and a     *)
(* fork, at most one listener thread lives and its outputs are open, and,   *)
(* unless the fork came between setup.py:223 and 224, in the list of those  *)
(* that the next teardown closes.                                           *)
THEOREM HandedOver == Spec => []OneWriterWithOutputs
  <1>1. IInv => OneWriterWithOutputs
    BY DEF IInv, WriterInv
  <1>2. QED
    BY <1>1, Invariance, PTL

(* Whenever a listener is published, get_log_queue_stats() tells of the     *)
(* queue that it reads.                                                     *)
THEOREM OwnStats == Spec => []StatsAreOfTheQueue
  <1>1. IInv => StatsAreOfTheQueue
    BY DEF IInv, Base, WriterInv, StatsAreOfTheQueue
  <1>2. QED
    BY <1>1, Invariance, PTL

(* A handler left on the root logger puts its records in the queue of the   *)
(* published, living listener, in this process, and no lock is lost.        *)
THEOREM Served == Spec => []AttachedIsServed
  <1>1. IInv => AttachedIsServed
    <2>1. SUFFICES ASSUME IInv, Undisturbed, NEW g \in attached
          PROVE  /\ attached = {g} /\ g \in accepting
                 /\ listener = g /\ g \in running
                 /\ handlerQueue[g] = process /\ listenerQueue[g] = process
                 /\ lock = "free" /\ inherited = {}
      BY DEF AttachedIsServed
    <2>2. lock = "free"
      BY <2>1 DEF IInv, Base, TypeOK, LockInv, Undisturbed
    <2>3. admin = "idle" /\ Sound /\ attached # {}
      BY <2>1 DEF Undisturbed, Sound
    <2>4. QED
      BY <2>1, <2>2, <2>3 DEF IInv, ServedInv
  <1>2. QED
    BY <1>1, Invariance, PTL

(* The filter's level and the root logger's are those of the level last     *)
(* asked for, unless a change of level and a setup overlapped.              *)
THEOREM LevelsStayTogether == Spec => []LevelsAgree
  <1>1. IInv => LevelsAgree
    BY DEF IInv, LevelInv, LevelsAgree, Undisturbed, Sound, FilterAgrees, RootAgrees, RootLevelFor
  <1>2. QED
    BY <1>1, Invariance, PTL

=============================================================================
