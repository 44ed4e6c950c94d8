------------------------- MODULE DiagnosticsProofs --------------------------
(***************************************************************************)
(* Proofs about what watches and steers a running application: LoopWatchdog *)
(* for every number of starts and every threshold, RuntimeControl for all  *)
(* levels, ratios and tokens, RequestDiagnostics for any number of requests, *)
(* databases and statements, and RequestPolicies for every arrival, set of  *)
(* environments, record and nested data.  Liveness is left to the runs.     *)
(***************************************************************************)
EXTENDS LoopWatchdog, RuntimeControl, RequestDiagnostics, RequestPolicies,
        FiniteSetTheorems, SequenceTheorems, WellFoundedInduction, TLAPS

-----------------------------------------------------------------------------
(* Every variable keeps its type; the age of a callback stops growing at    *)
(* the threshold.                                                           *)
Flags == sent \in [Watchdogs -> BOOLEAN] /\ posted \in [Watchdogs -> BOOLEAN]
           /\ reported \in [Watchdogs -> BOOLEAN]

LEMMA InitTypeOK == Init => TypeOK
<1> SUFFICES ASSUME Init PROVE TypeOK
  OBVIOUS
<1>1. Flags  BY DEF Init, Flags
<1>2. 0 \in 0..Half /\ 0 \in 0..Threshold /\ 0 \in 0..Starts
  BY LoopWatchdogAssumption DEF Threshold
<1>3. /\ rest \in [Watchdogs -> 0..Half] /\ age \in [Watchdogs -> 0..Threshold]
      /\ reports \in [Watchdogs -> Nat]
      /\ pc \in [Watchdogs -> {"new", "waiting", "posting", "comparing", "reporting", "ended"}]
  BY <1>2 DEF Init
<1>4. QED BY <1>1, <1>2, <1>3 DEF Init, TypeOK, Flags

LEMMA ThreadTypeOK == ASSUME TypeOK, NEW w \in Watchdogs, Thread(w) PROVE TypeOK'
<1>1. Flags'
  BY Zenon DEF TypeOK, Flags, Thread, Look, Post, Compare, Report, Leave, Sleep
<1>2. /\ pc' \in [Watchdogs -> {"new", "waiting", "posting", "comparing", "reporting", "ended"}]
      /\ rest' \in [Watchdogs -> 0..Half] /\ age' \in [Watchdogs -> 0..Threshold]
      /\ reports' \in [Watchdogs -> Nat]
  <2> USE LoopWatchdogAssumption DEF TypeOK, Sleep, Threshold
  <2>1. CASE Look(w)    BY <2>1 DEF Look
  <2>2. CASE Post(w)    BY <2>2 DEF Post
  <2>3. CASE Compare(w) BY <2>3 DEF Compare
  <2>4. CASE Report(w)  BY <2>4 DEF Report
  <2>5. CASE Leave(w)   BY <2>5 DEF Leave
  <2>6. QED BY <2>1, <2>2, <2>3, <2>4, <2>5 DEF Thread
<1>3. UNCHANGED lifeVars
  BY DEF Thread, Look, Post, Compare, Report, Leave
<1>4. QED BY <1>1, <1>2, <1>3 DEF TypeOK, Flags, lifeVars

LEMMA LoopTypeOK ==
  ASSUME TypeOK,
         \/ \E w \in Watchdogs : Answer(w)
         \/ Block \/ Unblock \/ Start \/ Stop \/ Joined \/ Close \/ Open \/ Tick
  PROVE  TypeOK'
<1> USE LoopWatchdogAssumption DEF TypeOK, lifeVars, Threshold
<1>1. ASSUME NEW w \in Watchdogs, Answer(w) PROVE TypeOK'
  BY <1>1 DEF Answer
<1>2. CASE Block   BY <1>2 DEF Block
<1>3. CASE Unblock BY <1>3 DEF Unblock
<1>4. CASE Start
  <2>1. current + 1 \in 0..Starts /\ current + 1 \in Watchdogs
    BY <1>4 DEF Start, Watchdogs
  <2>2. pc' = [pc EXCEPT ![current + 1] = "waiting"] /\ rest' = [rest EXCEPT ![current + 1] = Half]
    BY <1>4 DEF Start
  <2>3. pc' \in [Watchdogs -> {"new", "waiting", "posting", "comparing", "reporting", "ended"}]
    BY <2>1, <2>2
  <2>4. rest' \in [Watchdogs -> 0..Half]  BY <2>1, <2>2
  <2>5. current' \in 0..Starts  BY <1>4, <2>1 DEF Start
  <2>6. QED BY <1>4, <2>3, <2>4, <2>5 DEF Start
<1>5. CASE Stop    BY <1>5 DEF Stop, Watchdogs
<1>6. CASE Joined  BY <1>6 DEF Joined
<1>7. CASE Close   BY <1>7 DEF Close, Watchdogs
<1>8. CASE Open    BY <1>8 DEF Open
<1>9. CASE Tick
  <2>1. rest' \in [Watchdogs -> 0..Half]     BY <1>9 DEF Tick
  <2>2. age' \in [Watchdogs -> 0..Threshold] BY <1>9 DEF Tick
  <2>3. QED BY <1>9, <2>1, <2>2 DEF Tick
<1>10. QED BY <1>1, <1>2, <1>3, <1>4, <1>5, <1>6, <1>7, <1>8, <1>9

-----------------------------------------------------------------------------
(* Why there is one report: a start waits until its predecessor is stopped  *)
(* or its loop closed, so that only the last watchdog watches; and the      *)
(* thread's local "reported" counts what it reported since it last sent.    *)
WatchInv ==
  /\ TypeOK
  /\ \A w \in Watchdogs : w > current => pc[w] = "new"
  /\ \A w \in Watchdogs : w < current => w \in stopped \cup orphans
  /\ \A w \in Watchdogs : reports[w] = IF reported[w] THEN 1 ELSE 0

LEMMA InitWatchInv == Init => WatchInv
  BY InitTypeOK DEF Init, WatchInv, Watchdogs

LEMMA ThreadWatchInv == ASSUME WatchInv, NEW w \in Watchdogs, Thread(w) PROVE WatchInv'
<1> USE LoopWatchdogAssumption DEF WatchInv, TypeOK, lifeVars, Sleep
<1>0. TypeOK' BY ThreadTypeOK
<1>1. CASE Look(w)    BY <1>0, <1>1 DEF Look
<1>2. CASE Post(w)    BY <1>0, <1>2 DEF Post
<1>3. CASE Compare(w) BY <1>0, <1>3 DEF Compare
<1>4. CASE Report(w)  BY <1>0, <1>4 DEF Report
<1>5. CASE Leave(w)   BY <1>0, <1>5 DEF Leave
<1>6. QED BY <1>1, <1>2, <1>3, <1>4, <1>5 DEF Thread

LEMMA LoopWatchInv ==
  ASSUME WatchInv,
         \/ \E w \in Watchdogs : Answer(w)
         \/ Block \/ Unblock \/ Start \/ Stop \/ Joined \/ Close \/ Open \/ Tick
  PROVE  WatchInv'
<1> USE LoopWatchdogAssumption DEF WatchInv, TypeOK, lifeVars, Watchdogs
<1>0. TypeOK' BY LoopTypeOK
<1>1. ASSUME NEW w \in Watchdogs, Answer(w) PROVE WatchInv'
  BY <1>0, <1>1 DEF Answer
<1>2. CASE Block   BY <1>0, <1>2 DEF Block
<1>3. CASE Unblock BY <1>0, <1>3 DEF Unblock
<1>4. CASE Start
  <2>1. current \in 0..Starts /\ current' = current + 1 /\ UNCHANGED <<stopped, orphans>>
    BY <1>4 DEF Start
  <2>2. \A w \in Watchdogs : w > current' => pc'[w] = "new"
    BY <1>4, <2>1 DEF Start
  <2>3. \A w \in Watchdogs : w < current' => w \in stopped \cup orphans
    <3>1. SUFFICES ASSUME NEW w \in Watchdogs, w < current' PROVE w \in stopped \cup orphans
      OBVIOUS
    <3>2. CASE w < current  BY <3>2
    <3>3. CASE w = current  BY <1>4, <3>3 DEF Start
    <3>4. QED BY <2>1, <3>1, <3>2, <3>3
  <2>4. QED BY <1>0, <1>4, <2>1, <2>2, <2>3 DEF Start
<1>5. CASE Stop    BY <1>0, <1>5 DEF Stop
<1>6. CASE Joined  BY <1>0, <1>6 DEF Joined
<1>7. CASE Close   BY <1>0, <1>7 DEF Close
<1>8. CASE Open    BY <1>0, <1>8 DEF Open
<1>9. CASE Tick    BY <1>0, <1>9 DEF Tick
<1>10. QED BY <1>1, <1>2, <1>3, <1>4, <1>5, <1>6, <1>7, <1>8, <1>9

LEMMA WatchInvSuffices == WatchInv => OneReportPerCallback
<1> SUFFICES ASSUME WatchInv PROVE OneReportPerCallback
  OBVIOUS
<1>1. ASSUME NEW v \in Watchdogs, NEW w \in Watchdogs, Watching(v), Watching(w)
      PROVE  v = w
  <2>1. v = current /\ w = current
    BY <1>1, LoopWatchdogAssumption DEF WatchInv, TypeOK, Watching, Alive, Watchdogs
  <2>2. QED BY <2>1
<1>2. \A w \in Watchdogs : reports[w] <= 1  BY DEF WatchInv
<1>3. QED BY <1>1, <1>2 DEF WatchInv, OneReportPerCallback

(* At most one thread watches the loop over all restarts of the app, and it *)
(* reports a callback that stays unanswered at most once.                   *)
THEOREM WatchedOnce == Spec => []OneReportPerCallback
<1>1. WatchInv /\ [Next]_vars => WatchInv'
  <2> SUFFICES ASSUME WatchInv, [Next]_vars PROVE WatchInv'
    OBVIOUS
  <2>1. CASE UNCHANGED vars
    BY <2>1 DEF vars, WatchInv, TypeOK
  <2>2. QED BY <2>1, ThreadWatchInv, LoopWatchInv DEF Next
<1>2. QED BY <1>1, InitWatchInv, WatchInvSuffices, PTL DEF Spec

-----------------------------------------------------------------------------
(* What holds between the steps of a served request: it was admitted, and   *)
(* the settings are those it met with the changes made so far, as long as   *)
(* no other thread changed one.                                             *)
Recorded == before.level <= Warning => told
Reached ==
  CASE stage = "record" -> level = before.level /\ ratio = before.ratio
    [] stage = "level"  -> level = before.level /\ ratio = before.ratio /\ Recorded
    [] stage = "ratio"  -> /\ level = After(asked.level, before.level)
                           /\ ratio = before.ratio /\ Recorded
    [] OTHER            -> TRUE

ControlInv ==
  /\ stage \in {"idle", "record", "level", "ratio"}
  /\ stage # "idle" => answer = 200
  /\ stage # "idle" /\ ~meddled => Reached
  /\ AppliedAsAWhole

LEMMA ComeControlInv == ASSUME ControlInv, NEW q \in Payloads, Come(q) PROVE ControlInv'
<1>1. CASE Status(q) = 200
  BY <1>1 DEF Come, ControlInv, Reached, AppliedAsAWhole
<1>2. CASE Status(q) # 200
  BY <1>2 DEF Come, ControlInv, AppliedAsAWhole
<1>3. QED BY <1>1, <1>2

(* The steps of the request: each makes one of the changes, in the order    *)
(* record, level, ratio.                                                    *)
LEMMA RequestControlInv ==
  ASSUME ControlInv, Record \/ ChangeLevel \/ ChangeRatio
  PROVE  ControlInv'
<1> USE DEF ControlInv, Reached, Recorded
<1>1. CASE Record       BY <1>1 DEF Record, AppliedAsAWhole
<1>2. CASE ChangeLevel  BY <1>2 DEF ChangeLevel, AppliedAsAWhole, After
<1>3. CASE ChangeRatio
  <2>1. ~meddled => /\ ratio' = After(asked.ratio, before.ratio)
                    /\ level' = After(asked.level, before.level) /\ Recorded'
    BY <1>3 DEF ChangeRatio, After
  <2>2. stage' = "idle" /\ answer' = 200 /\ UNCHANGED <<asked, before, told, meddled>>
    BY <1>3 DEF ChangeRatio
  <2>3. QED BY <2>1, <2>2 DEF AppliedAsAWhole, After
<1>4. QED BY <1>1, <1>2, <1>3

LEMMA ThreadsControlInv ==
  ASSUME ControlInv, SetLevel \/ InstallTracing \/ Rotate
  PROVE  ControlInv'
<1>1. CASE SetLevel       BY <1>1 DEF ControlInv, SetLevel, AppliedAsAWhole
<1>2. CASE InstallTracing BY <1>2 DEF ControlInv, InstallTracing, AppliedAsAWhole
<1>3. CASE Rotate
  BY <1>3 DEF ControlInv, Reached, Recorded, Rotate, AppliedAsAWhole, After
<1>4. QED BY <1>1, <1>2, <1>3

(* A refused request changes nothing, a served one makes every change it    *)
(* asked for and no other, and what was changed while warnings were written *)
(* is on record, unless another thread changed a setting meanwhile.         *)
THEOREM Whole == ControlSpec => []AppliedAsAWhole
<1>1. ControlInit => ControlInv
  BY DEF ControlInit, ControlInv, AppliedAsAWhole
<1>2. ControlInv /\ [ControlNext]_controlVars => ControlInv'
  <2> SUFFICES ASSUME ControlInv, [ControlNext]_controlVars PROVE ControlInv'
    OBVIOUS
  <2>1. CASE UNCHANGED controlVars
    BY <2>1 DEF controlVars, ControlInv, Reached, Recorded, AppliedAsAWhole, After
  <2>2. QED
    BY <2>1, ComeControlInv, RequestControlInv, ThreadsControlInv DEF ControlNext
<1>3. ControlInv => AppliedAsAWhole
  BY DEF ControlInv
<1>4. QED BY <1>1, <1>2, <1>3, PTL DEF ControlSpec

-----------------------------------------------------------------------------
(* RequestDiagnostics: what each request's span was told, as conditions on  *)
(* the request's record alone.                                              *)
RequestStates ==
  [phase : Phases, span : {"none", "open", "ended"}, events : [Diagnostics -> Nat],
   counts : [Statements -> Nat], met : SUBSET Pools, began : Nat, due : BOOLEAN]

Unstarted(q)    == q.phase = "new" => q.span = "none" /\ q.met = {}
                                    /\ \A d \in Diagnostics : q.events[d] = 0
Untold(q)   == q.phase \in {"new", "running"} => ~q.due /\ q.span # "ended"
ToldPools(q) ==
  q.span # "none" => \A d \in Diagnostics \ {"db.n_plus_one"} :
                       q.events[d] = IF \E p \in q.met : Name(p) = d THEN 1 ELSE 0
ToldStatement(q) ==
  /\ q.span # "none" => q.events["db.n_plus_one"] = IF q.due THEN 1 ELSE 0
  /\ q.span = "none" => ~q.due
  /\ q.phase = "done" /\ q.span = "open" /\ Repeated(q) # {} => q.due
Told(q) == Unstarted(q) /\ Untold(q) /\ ToldPools(q) /\ ToldStatement(q)

(* What a request leaves in the log: a warning of each full pool it met     *)
(* within an interval, and one of the statement it repeated.                *)
Heard(q, ws)      == \A p \in q.met : \E w \in ws : /\ w.pool = p /\ w.at <= q.began
                                                    /\ q.began - w.at < Interval
Covered(q, names) == q.phase = "done" /\ Repeated(q) # {} => Repeated(q) \cap names # {}

(* The limits of the log.  The statements on record are the last ones       *)
(* warned of, and all of them until the record is full.                     *)
Warnings       == [pool : Pools, at : Nat]
Spaced(ws)     == \A v, w \in ws : v.pool = w.pool /\ v.at < w.at => w.at - v.at >= Interval
Recent(rep, all) ==
  /\ Len(rep) <= Len(all) /\ Len(rep) <= MaxReported
  /\ Len(rep) < MaxReported => Len(rep) = Len(all)
  /\ \A k \in 1..Len(rep) : rep[k] = all[Len(all) - Len(rep) + k]
Apart(all)     == \A i, j \in DOMAIN all : i < j /\ all[i] = all[j] => j - i > MaxReported

DiagnosticsTypeOK ==
  /\ now \in Nat /\ full \subseteq Pools
  /\ request \in [Requests -> RequestStates]
  /\ warnings \subseteq Warnings /\ \A w \in warnings : w.at <= now
  /\ reportedStatements \in Seq(Statements) /\ warnedOf \in Seq(Statements)
DiagnosticsInv ==
  /\ DiagnosticsTypeOK
  /\ \A r \in Requests : /\ Told(request[r]) /\ Heard(request[r], warnings)
                         /\ Covered(request[r], Range(warnedOf))
  /\ Spaced(warnings) /\ Recent(reportedStatements, warnedOf) /\ Apart(warnedOf)

LEMMA NamesApart == \A p \in Pools : Name(p) \in Diagnostics \ {"db.n_plus_one"}
  BY DEF Name, Diagnostics

(* AddDiagnostics(): each diagnostic is on a span once that records.        *)
LEMMA AddedDiagnostics ==
  ASSUME NEW q \in RequestStates, NEW ds
  PROVE  /\ AddDiagnostics(q, ds) \in RequestStates
         /\ \A d \in Diagnostics :
              AddDiagnostics(q, ds).events[d] =
                IF d \in ds /\ q.span = "open" /\ q.events[d] = 0 THEN 1 ELSE q.events[d]
         /\ LET x == AddDiagnostics(q, ds) IN
              /\ x.phase = q.phase /\ x.span = q.span /\ x.counts = q.counts
              /\ x.met = q.met /\ x.began = q.began /\ x.due = q.due
<1> DEFINE added == [d \in Diagnostics |->
                       IF d \in ds THEN AddDiagnostic(q, d).events[d] ELSE q.events[d]]
<1>1. \A d \in Diagnostics : added[d] = IF d \in ds /\ q.span = "open" /\ q.events[d] = 0
                                        THEN 1 ELSE q.events[d]
  BY DEF AddDiagnostic, RequestStates
<1>2. added \in [Diagnostics -> Nat]
  BY <1>1 DEF RequestStates
<1>3. AddDiagnostics(q, ds) = [q EXCEPT !.events = added]
  BY DEF AddDiagnostics
<1> HIDE DEF added
<1>4. QED BY <1>1, <1>2, <1>3 DEF RequestStates

(* ReportToSpan(): the event of a repeated statement.                       *)
LEMMA ReportedToSpan ==
  ASSUME NEW q \in RequestStates
  PROVE  LET x == ReportToSpan(q) IN
         /\ x \in RequestStates
         /\ \A d \in Diagnostics \ {"db.n_plus_one"} : x.events[d] = q.events[d]
         /\ x.events["db.n_plus_one"] =
              IF Due(q) /\ q.events["db.n_plus_one"] = 0 THEN 1
              ELSE q.events["db.n_plus_one"]
         /\ x.phase = q.phase /\ x.span = q.span /\ x.counts = q.counts
         /\ x.met = q.met /\ x.began = q.began /\ x.due = q.due
<1>1. "db.n_plus_one" \in Diagnostics  BY DEF Diagnostics
<1>2. CASE Due(q) /\ q.events["db.n_plus_one"] = 0
  <2>1. ReportToSpan(q) = [q EXCEPT !.events["db.n_plus_one"] = 1]
    BY <1>2 DEF ReportToSpan, AddDiagnostic, Due
  <2>2. QED BY <1>1, <1>2, <2>1 DEF RequestStates
<1>3. CASE ~(Due(q) /\ q.events["db.n_plus_one"] = 0)
  <2>1. ReportToSpan(q) = q
    BY <1>3 DEF ReportToSpan, AddDiagnostic, Due
  <2>2. QED BY <1>3, <2>1
<1>4. QED BY <1>2, <1>3

LEMMA SameCountsRepeat ==
  ASSUME NEW q, NEW x, x.counts = q.counts PROVE Repeated(x) = Repeated(q)
  BY DEF Repeated

(* A request that begins is told of each full pool if its span records.     *)
LEMMA BegunIsTold ==
  ASSUME NEW q \in RequestStates, Told(q), q.phase = "new", NEW ps \in SUBSET Pools,
         NEW at \in Nat, NEW s \in {"none", "open"}, NEW x \in RequestStates,
         x.phase = "running", x.span = s, x.met = ps, x.began = at, x.due = q.due,
         x.counts = q.counts,
         \A d \in Diagnostics :
           x.events[d] = IF d \in {Name(p) : p \in ps} /\ s = "open" /\ q.events[d] = 0
                         THEN 1 ELSE q.events[d]
  PROVE  Told(x)
<1>1. /\ ~q.due /\ \A d \in Diagnostics : q.events[d] = 0
  BY DEF Told, Unstarted, Untold
<1>2. Unstarted(x) /\ Untold(x)  BY <1>1 DEF Unstarted, Untold
<1>3. ToldPools(x)
  BY <1>1 DEF ToldPools
<1>4. "db.n_plus_one" \in Diagnostics  BY DEF Diagnostics
<1>5. "db.n_plus_one" \notin {Name(p) : p \in ps}  BY NamesApart
<1>6. ToldStatement(x)
  BY <1>1, <1>4, <1>5 DEF ToldStatement
<1>7. QED BY <1>2, <1>3, <1>6 DEF Told

(* A statement is counted before the span was told of it for the last time. *)
LEMMA QueriedIsTold ==
  ASSUME NEW q \in RequestStates, Told(q), q.phase \in {"running", "sent"},
         NEW x \in RequestStates, x.phase = q.phase, x.span = q.span, x.met = q.met,
         x.due = q.due, x.events = q.events
  PROVE  Told(x)
  BY DEF Told, Unstarted, Untold, ToldPools, ToldStatement

(* The last body chunk: the statement is told before it is sent.            *)
LEMMA SentIsTold ==
  ASSUME NEW q \in RequestStates, Told(q), q.phase = "running",
         NEW x \in RequestStates, x.phase = "sent", x.span = q.span, x.met = q.met,
         x.counts = q.counts, x.due = Due(q),
         \A d \in Diagnostics \ {"db.n_plus_one"} : x.events[d] = q.events[d],
         x.events["db.n_plus_one"] = IF Due(q) /\ q.events["db.n_plus_one"] = 0 THEN 1
                                     ELSE q.events["db.n_plus_one"]
  PROVE  Told(x)
<1>1. ~q.due  BY DEF Told, Untold
<1>2. Unstarted(x) /\ Untold(x)  BY DEF Unstarted, Untold
<1>3. ToldPools(x)  BY DEF Told, ToldPools
<1>4. ToldStatement(x)  BY <1>1 DEF Told, ToldStatement, Due
<1>5. QED BY <1>2, <1>3, <1>4 DEF Told

(* The end of the request tells it too, for a response with no last chunk   *)
(* and for what was repeated after it.                                      *)
LEMMA EndedIsTold ==
  ASSUME NEW q \in RequestStates, Told(q), q.phase \in {"running", "sent"},
         NEW x \in RequestStates, x.phase = "done", x.span = q.span, x.met = q.met,
         x.counts = q.counts, x.due = (q.due \/ Due(q)),
         \A d \in Diagnostics \ {"db.n_plus_one"} : x.events[d] = q.events[d],
         x.events["db.n_plus_one"] = IF Due(q) /\ q.events["db.n_plus_one"] = 0 THEN 1
                                     ELSE q.events["db.n_plus_one"]
  PROVE  Told(x)
<1>1. q.due \in BOOLEAN  BY DEF RequestStates
<1>2. Unstarted(x) /\ Untold(x)  BY DEF Unstarted, Untold
<1>3. ToldPools(x)  BY DEF Told, ToldPools
<1>4. Repeated(x) = Repeated(q)  BY SameCountsRepeat
<1>5. ToldStatement(x)
  <2>1. CASE Due(q)
    BY <1>1, <2>1 DEF Told, ToldStatement, Due
  <2>2. CASE ~Due(q)
    BY <1>1, <1>4, <2>2 DEF Told, ToldStatement, Due
  <2>3. QED BY <2>1, <2>2
<1>6. QED BY <1>2, <1>3, <1>5 DEF Told

LEMMA SpanEndedIsTold ==
  ASSUME NEW q \in RequestStates, Told(q), q.phase = "sent", q.span = "open",
         NEW x \in RequestStates, x.phase = "sent", x.span = "ended", x.met = q.met,
         x.events = q.events, x.due = q.due
  PROVE  Told(x)
  BY DEF Told, Unstarted, Untold, ToldPools, ToldStatement

-----------------------------------------------------------------------------
(* The record of statements, a queue that lets go of its oldest.            *)
LEMMA DropOldest ==
  ASSUME NEW rep \in Seq(Statements), rep # <<>>
  PROVE  /\ Tail(rep) \in Seq(Statements) /\ Len(Tail(rep)) = Len(rep) - 1
         /\ \A k \in 1..(Len(rep) - 1) : Tail(rep)[k] = rep[k + 1]
  BY HeadTailProperties

LEMMA Appended ==
  ASSUME NEW rep \in Seq(Statements), NEW s \in Statements
  PROVE  /\ Append(rep, s) \in Seq(Statements) /\ Len(Append(rep, s)) = Len(rep) + 1
         /\ \A k \in 1..Len(rep) : Append(rep, s)[k] = rep[k]
         /\ Append(rep, s)[Len(rep) + 1] = s
  BY AppendProperties

LEMMA InRange ==
  ASSUME NEW rep \in Seq(Statements), NEW s
  PROVE  s \in Range(rep) <=> \E k \in 1..Len(rep) : rep[k] = s
  BY LenProperties DEF Range

(* What is kept after a warning, by positions alone.                        *)
LEMMA KeptIsRecent ==
  ASSUME NEW rep \in Seq(Statements), NEW all \in Seq(Statements), Recent(rep, all),
         NEW s \in Statements,
         NEW kept \in Seq(Statements), NEW m \in Nat, m = Len(rep),
         m < MaxReported => kept = rep,
         m >= MaxReported => /\ Len(kept) = m - 1
                             /\ \A k \in 1..(m - 1) : kept[k] = rep[k + 1]
  PROVE  Recent(Append(kept, s), Append(all, s))
<1>0. MaxReported \in Nat \ {0}  BY RequestDiagnosticsAssumption
<1>1. PICK new \in Seq(Statements) : new = Append(kept, s)  BY Appended
<1>2. PICK whole \in Seq(Statements) : whole = Append(all, s)  BY Appended
<1>3. PICK n \in Nat : n = Len(all)  BY LenProperties
<1>4. PICK l \in Nat : l = Len(kept)  BY LenProperties
<1>5. /\ Len(new) = l + 1 /\ new[l + 1] = s /\ \A k \in 1..l : new[k] = kept[k]
      /\ Len(whole) = n + 1 /\ whole[n + 1] = s /\ \A k \in 1..n : whole[k] = all[k]
  BY <1>1, <1>2, <1>3, <1>4, Appended
<1>6. m <= n /\ m <= MaxReported /\ (m < MaxReported => m = n)
      /\ \A k \in 1..m : rep[k] = all[n - m + k]
  BY <1>3 DEF Recent
<1>7. CASE m < MaxReported
  <2>1. l = m /\ m = n /\ kept = rep  BY <1>4, <1>6, <1>7
  <2>2. ASSUME NEW k \in 1..(m + 1) PROVE new[k] = whole[n + 1 - (m + 1) + k]
    <3>1. n + 1 - (m + 1) + k = k  BY <2>1
    <3>2. CASE k = m + 1  BY <1>5, <2>1, <3>1, <3>2
    <3>3. CASE k \in 1..m
      <4>1. new[k] = rep[k]      BY <1>5, <2>1, <3>3
      <4>2. rep[k] = all[k]
        <5>1. n - m + k = k  BY <2>1
        <5>2. QED BY <1>6, <3>3, <5>1
      <4>3. all[k] = whole[k]    BY <1>5, <2>1, <3>3
      <4>4. QED BY <3>1, <4>1, <4>2, <4>3
    <3>4. QED BY <3>2, <3>3
  <2>3. Len(new) = m + 1 /\ Len(whole) = m + 1 /\ Len(whole) = n + 1  BY <1>5, <2>1
  <2>4. \A k \in 1..Len(new) : new[k] = whole[Len(whole) - Len(new) + k]
    <3>1. SUFFICES ASSUME NEW k \in 1..(m + 1) PROVE new[k] = whole[Len(whole) - Len(new) + k]
      BY <2>3
    <3>2. Len(whole) - Len(new) + k = n + 1 - (m + 1) + k  BY <2>3
    <3>3. QED BY <2>2, <3>2
  <2>5. m + 1 <= MaxReported  BY <1>0, <1>7
  <2>6. Recent(new, whole)  BY <2>3, <2>4, <2>5 DEF Recent
  <2>7. QED BY <1>1, <1>2, <2>6
<1>8. CASE m >= MaxReported
  <2>1. m = MaxReported /\ l = m - 1 /\ Len(new) = m /\ l + 1 = m
    BY <1>0, <1>4, <1>5, <1>6, <1>8
  <2>2. ASSUME NEW k \in 1..m PROVE new[k] = whole[n + 1 - m + k]
    <3>1. CASE k = m
      <4>1. n + 1 - m + k = n + 1  BY <3>1
      <4>2. QED BY <1>5, <2>1, <3>1, <4>1
    <3>2. CASE k \in 1..(m - 1)
      <4>1. new[k] = rep[k + 1]  BY <1>5, <1>8, <2>1, <3>2
      <4>2. k + 1 \in 1..m /\ n - m + (k + 1) \in 1..n /\ n + 1 - m + k = n - m + (k + 1)
        BY <1>6, <3>2
      <4>3. rep[k + 1] = all[n - m + (k + 1)]  BY <1>6, <4>2
      <4>4. QED BY <1>5, <4>1, <4>2, <4>3
    <3>3. QED BY <3>1, <3>2
  <2>3. Len(new) = m /\ Len(whole) = n + 1 /\ m <= n + 1 /\ m <= MaxReported
        /\ ~(m < MaxReported)
    BY <1>0, <1>5, <1>6, <2>1
  <2>4. Recent(new, whole)  BY <2>2, <2>3 DEF Recent
  <2>5. QED BY <1>1, <1>2, <2>4
<1>9. QED BY <1>0, <1>7, <1>8

(* A statement that is not on record was last warned of more than           *)
(* MaxReported warnings ago, or never.                                      *)
LEMMA UnreportedIsApart ==
  ASSUME NEW rep \in Seq(Statements), NEW all \in Seq(Statements), Recent(rep, all),
         Apart(all), NEW s \in Statements, s \notin Range(rep)
  PROVE  Apart(Append(all, s))
<1> MaxReported \in Nat \ {0}  BY RequestDiagnosticsAssumption
<1> PICK whole \in Seq(Statements) : whole = Append(all, s)  BY Appended
<1>1. /\ Len(whole) = Len(all) + 1 /\ whole[Len(all) + 1] = s
      /\ \A k \in 1..Len(all) : whole[k] = all[k]
      /\ DOMAIN whole = 1..Len(whole) /\ DOMAIN all = 1..Len(all)
  BY Appended, LenProperties
<1> PICK m \in Nat : m = Len(rep)  BY LenProperties
<1> PICK n \in Nat : n = Len(all)  BY LenProperties
<1>2. ASSUME NEW i \in 1..n, all[i] = s PROVE n + 1 - i > MaxReported
  <2>1. /\ m <= n /\ m <= MaxReported /\ (m < MaxReported => m = n)
        /\ \A k \in 1..m : rep[k] = all[n - m + k]
    BY DEF Recent
  <2>2. i <= n - m
    <3>1. SUFFICES ASSUME i > n - m PROVE FALSE
      BY <2>1
    <3>2. i - (n - m) \in 1..m /\ n - m + (i - (n - m)) = i  BY <2>1, <3>1
    <3>3. rep[i - (n - m)] = s  BY <1>2, <2>1, <3>2
    <3>4. QED BY <3>2, <3>3, InRange
  <2>3. QED BY <2>1, <2>2
<1>3. ASSUME NEW i \in DOMAIN whole, NEW j \in DOMAIN whole, i < j, whole[i] = whole[j]
      PROVE  j - i > MaxReported
  <2>1. i \in 1..n /\ j \in 1..(n + 1)  BY <1>1, <1>3
  <2>2. CASE j = n + 1
    BY <1>1, <1>2, <1>3, <2>1, <2>2
  <2>3. CASE j # n + 1
    BY <1>1, <1>3, <2>1, <2>3 DEF Apart
  <2>4. QED BY <2>2, <2>3
<1>4. QED BY <1>3 DEF Apart

LEMMA Remembered ==
  ASSUME NEW rep \in Seq(Statements), NEW all \in Seq(Statements), Recent(rep, all),
         Apart(all), NEW s \in Statements, s \notin Range(rep),
         NEW new, new = Append(IF Len(rep) >= MaxReported THEN Tail(rep) ELSE rep, s)
  PROVE  /\ new \in Seq(Statements) /\ Append(all, s) \in Seq(Statements)
         /\ Recent(new, Append(all, s)) /\ Apart(Append(all, s))
         /\ Range(all) \cup {s} \subseteq Range(Append(all, s))
<1>0. MaxReported \in Nat \ {0}  BY RequestDiagnosticsAssumption
<1>1. PICK m \in Nat : m = Len(rep)  BY LenProperties
<1>2. PICK kept \in Seq(Statements) :
        /\ kept = IF Len(rep) >= MaxReported THEN Tail(rep) ELSE rep
        /\ m < MaxReported => kept = rep
        /\ m >= MaxReported => /\ Len(kept) = m - 1
                               /\ \A k \in 1..(m - 1) : kept[k] = rep[k + 1]
  <2>1. CASE m >= MaxReported
    <3>1. rep # <<>>  BY <1>0, <1>1, <2>1, EmptySeq
    <3>2. Tail(rep) \in Seq(Statements) /\ Len(Tail(rep)) = m - 1
          /\ \A k \in 1..(m - 1) : Tail(rep)[k] = rep[k + 1]
      BY <1>1, <3>1, DropOldest
    <3>3. ~(m < MaxReported)  BY <1>0, <2>1
    <3>4. QED BY <1>1, <2>1, <3>2, <3>3, Zenon
  <2>2. CASE m < MaxReported
    <3>1. ~(m >= MaxReported)  BY <1>0, <2>2
    <3>2. QED BY <1>1, <3>1, Zenon
  <2>3. m >= MaxReported \/ m < MaxReported  BY <1>0
  <2>4. QED BY <2>1, <2>2, <2>3, Zenon
<1>3. new = Append(kept, s) /\ new \in Seq(Statements)  BY <1>2, Appended
<1>4. Recent(new, Append(all, s))  BY <1>1, <1>2, <1>3, KeptIsRecent
<1>5. Range(all) \cup {s} \subseteq Range(Append(all, s))
  <2>1. PICK whole \in Seq(Statements) : whole = Append(all, s)  BY Appended
  <2>2. /\ Len(whole) = Len(all) + 1 /\ whole[Len(all) + 1] = s /\ Len(all) \in Nat
        /\ \A k \in 1..Len(all) : whole[k] = all[k]
    BY <2>1, Appended, LenProperties
  <2>3. s \in Range(whole)  BY <2>2, InRange
  <2>4. ASSUME NEW t \in Range(all) PROVE t \in Range(whole)
    <3>1. PICK k \in 1..Len(all) : all[k] = t  BY InRange
    <3>2. k \in 1..Len(whole) /\ whole[k] = t  BY <2>2, <3>1
    <3>3. QED BY <3>2, InRange
  <2>5. QED BY <2>1, <2>3, <2>4
<1>6. QED BY <1>3, <1>4, <1>5, Appended, UnreportedIsApart

(* A warning is written of each full pool that has no late one.             *)
WithWarnings(ws, ps, t) ==
  ws \cup {[pool |-> p, at |-> t] : p \in {p \in ps :
             ~\E w \in ws : w.pool = p /\ t - w.at < Interval}}
WarnedAt(all, ps, t) ==
  \A p \in ps : \E w \in all : w.pool = p /\ w.at <= t /\ t - w.at < Interval

LEMMA WarnedIsSpaced ==
  ASSUME NEW ws \in SUBSET Warnings, Spaced(ws), NEW t \in Nat,
         \A w \in ws : w.at <= t, NEW ps \in SUBSET Pools
  PROVE  /\ WithWarnings(ws, ps, t) \subseteq Warnings
         /\ \A w \in WithWarnings(ws, ps, t) : w.at <= t
         /\ Spaced(WithWarnings(ws, ps, t)) /\ ws \subseteq WithWarnings(ws, ps, t)
         /\ WarnedAt(WithWarnings(ws, ps, t), ps, t)
<1> Interval \in Nat \ {0}  BY RequestDiagnosticsAssumption
<1>a. PICK silent : silent = {p \in ps : ~\E w \in ws : w.pool = p /\ t - w.at < Interval}
  OBVIOUS
<1>b. PICK all : all = ws \cup {[pool |-> p, at |-> t] : p \in silent}
  OBVIOUS
<1>c. all = WithWarnings(ws, ps, t)  BY <1>a, <1>b DEF WithWarnings
<1>1. all \subseteq Warnings  BY <1>a, <1>b DEF Warnings
<1>2. \A w \in all : w.at <= t  BY <1>b
<1>3. ASSUME NEW v \in all, NEW w \in all, v.pool = w.pool, v.at < w.at
      PROVE  w.at - v.at >= Interval
  <2>0. v \in Warnings /\ w \in Warnings /\ v.at <= t /\ w.at <= t  BY <1>1, <1>2
  <2>1. v \in ws
    <3>1. SUFFICES ASSUME v \notin ws PROVE FALSE
      OBVIOUS
    <3>2. v.at = t  BY <1>b, <3>1
    <3>3. QED BY <1>3, <2>0, <3>2 DEF Warnings
  <2>2. CASE w \in ws  BY <1>3, <2>1, <2>2 DEF Spaced
  <2>3. CASE w \notin ws
    <3>1. PICK p \in silent : w = [pool |-> p, at |-> t]  BY <1>b, <2>3
    <3>2. w.pool = p /\ w.at = t  BY <3>1
    <3>3. ~(t - v.at < Interval)  BY <1>3, <1>a, <2>1, <3>1, <3>2
    <3>4. QED BY <2>0, <3>2, <3>3 DEF Warnings
  <2>4. QED BY <2>2, <2>3
<1>4. Spaced(all)  BY <1>3 DEF Spaced
<1>5. ASSUME NEW p \in ps
      PROVE  \E w \in all : w.pool = p /\ w.at <= t /\ t - w.at < Interval
  <2>1. CASE p \in silent
    <3>1. [pool |-> p, at |-> t] \in all  BY <1>b, <2>1
    <3>2. QED BY <3>1
  <2>2. CASE p \notin silent
    BY <1>a, <1>b, <2>2
  <2>3. QED BY <2>1, <2>2
<1>6. WarnedAt(all, ps, t)  BY <1>5 DEF WarnedAt
<1>7. ws \subseteq all  BY <1>b
<1>8. QED BY <1>1, <1>2, <1>4, <1>6, <1>7, <1>c, Zenon

-----------------------------------------------------------------------------
LEMMA FreshRequest ==
  ASSUME NEW q, q = [phase |-> "new", span |-> "none", events |-> [d \in Diagnostics |-> 0],
                     counts |-> [s \in Statements |-> 0], met |-> {}, began |-> 0,
                     due |-> FALSE],
         NEW ws, NEW names
  PROVE  q \in RequestStates /\ Told(q) /\ Heard(q, ws) /\ Covered(q, names)
<1>1. /\ q.phase = "new" /\ q.span = "none" /\ q.met = {} /\ q.due = FALSE
      /\ \A d \in Diagnostics : q.events[d] = 0
  OBVIOUS
<1>2. q \in RequestStates  BY DEF RequestStates, Phases
<1>3. Told(q)
  BY <1>1 DEF Told, Unstarted, Untold, ToldPools, ToldStatement
<1>4. Heard(q, ws) /\ Covered(q, names)  BY <1>1 DEF Heard, Covered
<1>5. QED BY <1>2, <1>3, <1>4

LEMMA InitDiagnosticsInv == DiagnosticsInit => DiagnosticsInv
<1> SUFFICES ASSUME DiagnosticsInit PROVE DiagnosticsInv
  OBVIOUS
<1>1. ASSUME NEW r \in Requests
      PROVE  /\ request[r] \in RequestStates /\ Told(request[r])
             /\ Heard(request[r], warnings) /\ Covered(request[r], Range(warnedOf))
  <2>1. request[r] = [phase |-> "new", span |-> "none",
                      events |-> [d \in Diagnostics |-> 0],
                      counts |-> [s \in Statements |-> 0], met |-> {}, began |-> 0,
                      due |-> FALSE]
    BY DEF DiagnosticsInit
  <2>2. QED BY <2>1, FreshRequest
<1>2. request \in [Requests -> RequestStates]  BY <1>1 DEF DiagnosticsInit
<1>3. PICK all : all = warnedOf  OBVIOUS
<1>4. all \in Seq(Statements) /\ Recent(all, all) /\ Apart(all) /\ reportedStatements = all
  <2>0. MaxReported \in Nat \ {0}  BY RequestDiagnosticsAssumption
  <2>1. reportedStatements = all  BY <1>3 DEF DiagnosticsInit
  <2>2. CASE all = <<>>
    <3>1. all \in Seq(Statements) /\ Len(all) = 0 /\ DOMAIN all = {}  BY <2>2
    <3>2. QED BY <2>0, <2>1, <3>1 DEF Recent, Apart
  <2>3. CASE \E s \in Statements : all = <<s>>
    <3>1. all \in Seq(Statements) /\ Len(all) = 1 /\ DOMAIN all = {1}  BY <2>3
    <3>2. Apart(all)  BY <3>1 DEF Apart
    <3>3. \A k \in 1..1 : all[k] = all[1 - 1 + k]  OBVIOUS
    <3>4. Recent(all, all)  BY <2>0, <3>1, <3>3 DEF Recent
    <3>5. QED BY <2>1, <3>1, <3>2, <3>4
  <2>4. QED BY <2>1, <2>2, <2>3 DEF DiagnosticsInit
<1>5. warnings = {} /\ now = 0 /\ full = {}  BY DEF DiagnosticsInit
<1>6. Spaced(warnings)  BY <1>5 DEF Spaced
<1>7. DiagnosticsTypeOK  BY <1>2, <1>3, <1>4, <1>5 DEF DiagnosticsTypeOK
<1>8. QED BY <1>1, <1>3, <1>4, <1>6, <1>7 DEF DiagnosticsInv

(* A step that changes one request and nothing of the log keeps the rest.   *)
LEMMA OneRequestStep ==
  ASSUME DiagnosticsInv, NEW r \in Requests, NEW x \in RequestStates,
         request' = [request EXCEPT ![r] = x], Told(x), Heard(x, warnings),
         Covered(x, Range(warnedOf)),
         UNCHANGED <<now, full, warnings, reportedStatements, warnedOf>>
  PROVE  DiagnosticsInv'
<1>1. request' \in [Requests -> RequestStates]  BY DEF DiagnosticsInv, DiagnosticsTypeOK
<1>2. DiagnosticsTypeOK'  BY <1>1 DEF DiagnosticsInv, DiagnosticsTypeOK
<1>3. ASSUME NEW o \in Requests
      PROVE  /\ Told(request'[o]) /\ Heard(request'[o], warnings)
             /\ Covered(request'[o], Range(warnedOf))
  <2>1. CASE o = r
    <3>1. request'[o] = x  BY <2>1 DEF DiagnosticsInv, DiagnosticsTypeOK
    <3>2. QED BY <3>1
  <2>2. CASE o # r
    <3>1. request'[o] = request[o]  BY <2>2 DEF DiagnosticsInv, DiagnosticsTypeOK
    <3>2. QED BY <3>1 DEF DiagnosticsInv
  <2>3. QED BY <2>1, <2>2
<1>4. warnings' = warnings /\ reportedStatements' = reportedStatements /\ warnedOf' = warnedOf
  OBVIOUS
<1>5. Spaced(warnings') /\ Recent(reportedStatements', warnedOf') /\ Apart(warnedOf')
  BY <1>4, Zenon DEF DiagnosticsInv
<1>6. \A o \in Requests : /\ Told(request'[o]) /\ Heard(request'[o], warnings')
                          /\ Covered(request'[o], Range(warnedOf'))
  BY <1>3, <1>4, Zenon
<1>7. QED BY <1>2, <1>5, <1>6, Zenon DEF DiagnosticsInv

LEMMA QuietDiagnosticsInv ==
  ASSUME DiagnosticsInv, Elapse \/ Fill \/ Free \/ UNCHANGED diagnosticsVars
  PROVE  DiagnosticsInv'
<1>1. /\ request' = request /\ warnings' = warnings
      /\ reportedStatements' = reportedStatements /\ warnedOf' = warnedOf
      /\ full' \subseteq Pools /\ now' \in {now, now + 1}
  BY DEF Elapse, Fill, Free, diagnosticsVars, DiagnosticsInv, DiagnosticsTypeOK
<1>2. \A w \in warnings : w.at <= now'
  BY <1>1 DEF DiagnosticsInv, DiagnosticsTypeOK, Warnings
<1>3. DiagnosticsTypeOK'
  BY <1>1, <1>2 DEF DiagnosticsInv, DiagnosticsTypeOK
<1>4. Spaced(warnings') /\ Recent(reportedStatements', warnedOf') /\ Apart(warnedOf')
  BY <1>1, Zenon DEF DiagnosticsInv
<1>5. \A o \in Requests : /\ Told(request'[o]) /\ Heard(request'[o], warnings')
                          /\ Covered(request'[o], Range(warnedOf'))
  BY <1>1, Zenon DEF DiagnosticsInv
<1>6. QED BY <1>3, <1>4, <1>5, Zenon DEF DiagnosticsInv

LEMMA BeginDiagnosticsInv ==
  ASSUME DiagnosticsInv, NEW r \in Requests, Begin(r) PROVE DiagnosticsInv'
<1>1. PICK q \in RequestStates : q = request[r]
  BY DEF DiagnosticsInv, DiagnosticsTypeOK
<1>2. Told(q) /\ q.phase = "new"  BY <1>1 DEF DiagnosticsInv, Begin
<1>3. PICK span \in {"none", "open"} :
        request' = [request EXCEPT ![r] =
          AddDiagnostics([q EXCEPT !.phase = "running", !.span = span, !.met = full,
                                   !.began = now],
                         {Name(p) : p \in full})]
  BY <1>1 DEF Begin
<1>4. PICK y : y = [q EXCEPT !.phase = "running", !.span = span, !.met = full, !.began = now]
  OBVIOUS
<1>y. /\ y \in RequestStates /\ y.phase = "running" /\ y.span = span /\ y.met = full
      /\ y.began = now /\ y.due = q.due /\ y.counts = q.counts /\ y.events = q.events
  <2>1. full \in SUBSET Pools /\ now \in Nat  BY DEF DiagnosticsInv, DiagnosticsTypeOK
  <2>2. y \in RequestStates  BY <1>4, <2>1 DEF RequestStates, Phases
  <2>3. QED BY <1>4, <2>2 DEF RequestStates
<1>5. PICK x \in RequestStates : x = AddDiagnostics(y, {Name(p) : p \in full})
  BY <1>y, AddedDiagnostics
<1>6. /\ x.phase = "running" /\ x.span = span /\ x.met = full /\ x.began = now
      /\ x.due = q.due /\ x.counts = q.counts
      /\ \A d \in Diagnostics :
           x.events[d] = IF d \in {Name(p) : p \in full} /\ span = "open" /\ q.events[d] = 0
                         THEN 1 ELSE q.events[d]
  BY <1>5, <1>y, AddedDiagnostics
<1>7. Told(x)
  <2>1. full \in SUBSET Pools /\ now \in Nat  BY DEF DiagnosticsInv, DiagnosticsTypeOK
  <2>2. QED BY <1>2, <1>6, <2>1, BegunIsTold
<1>8. /\ warnings' \subseteq Warnings /\ \A w \in warnings' : w.at <= now
      /\ Spaced(warnings') /\ warnings \subseteq warnings' /\ WarnedAt(warnings', full, now)
  <2>1. /\ full \in SUBSET Pools /\ now \in Nat /\ warnings \in SUBSET Warnings
        /\ Spaced(warnings) /\ \A w \in warnings : w.at <= now
    BY DEF DiagnosticsInv, DiagnosticsTypeOK
  <2>2. warnings' = WithWarnings(warnings, full, now)
    BY DEF Begin, WarnedLately, WithWarnings
  <2>3. PICK all : all = WithWarnings(warnings, full, now)  OBVIOUS
  <2>4. /\ all \subseteq Warnings /\ \A w \in all : w.at <= now
        /\ Spaced(all) /\ warnings \subseteq all /\ WarnedAt(all, full, now)
    BY <2>1, <2>3, WarnedIsSpaced, Zenon
  <2>5. QED BY <2>2, <2>3, <2>4, Zenon
<1>9. request' = [request EXCEPT ![r] = x]  BY <1>3, <1>4, <1>5
<1>10. UNCHANGED <<now, full, reportedStatements, warnedOf>>  BY DEF Begin
<1>11. DiagnosticsTypeOK'
  BY <1>8, <1>9, <1>10 DEF DiagnosticsInv, DiagnosticsTypeOK
<1>12. ASSUME NEW o \in Requests
       PROVE  /\ Told(request'[o]) /\ Heard(request'[o], warnings')
              /\ Covered(request'[o], Range(warnedOf))
  <2>1. CASE o = r
    <3>1. request'[o] = x  BY <1>9, <2>1 DEF DiagnosticsInv, DiagnosticsTypeOK
    <3>2. Heard(x, warnings')  BY <1>6, <1>8 DEF Heard, WarnedAt
    <3>3. Covered(x, Range(warnedOf))  BY <1>6 DEF Covered
    <3>4. QED BY <1>7, <3>1, <3>2, <3>3
  <2>2. CASE o # r
    <3>1. request'[o] = request[o]  BY <1>9, <2>2 DEF DiagnosticsInv, DiagnosticsTypeOK
    <3>2. Heard(request[o], warnings')  BY <1>8 DEF DiagnosticsInv, Heard
    <3>3. QED BY <3>1, <3>2 DEF DiagnosticsInv
  <2>3. QED BY <2>1, <2>2
<1>13. Spaced(warnings') /\ Recent(reportedStatements', warnedOf') /\ Apart(warnedOf')
  BY <1>8, <1>10, Zenon DEF DiagnosticsInv
<1>14. QED BY <1>10, <1>11, <1>12, <1>13 DEF DiagnosticsInv

LEMMA QueryDiagnosticsInv ==
  ASSUME DiagnosticsInv, NEW r \in Requests, NEW s \in Statements, Query(r, s)
  PROVE  DiagnosticsInv'
<1>1. PICK q \in RequestStates : q = request[r]
  BY DEF DiagnosticsInv, DiagnosticsTypeOK
<1>2. /\ Told(q) /\ Heard(q, warnings) /\ q.phase \in {"running", "sent"}
      /\ UNCHANGED <<now, full, warnings, reportedStatements, warnedOf>>
  BY <1>1 DEF DiagnosticsInv, Query
<1>3. CASE request' = request
  <2>1. UNCHANGED diagnosticsVars  BY <1>2, <1>3 DEF diagnosticsVars
  <2>2. QED BY <2>1, QuietDiagnosticsInv
<1>4. CASE request' = [request EXCEPT ![r].counts[s] = @ + 1]
  <2>1. PICK c : c = [q.counts EXCEPT ![s] = @ + 1]  OBVIOUS
  <2>2. PICK x : x = [q EXCEPT !.counts = c]  OBVIOUS
  <2>3. c \in [Statements -> Nat]  BY <2>1 DEF RequestStates
  <2>4. x \in RequestStates  BY <2>2, <2>3 DEF RequestStates
  <2>5. /\ x.phase = q.phase /\ x.span = q.span /\ x.met = q.met /\ x.due = q.due
        /\ x.events = q.events /\ x.began = q.began
    BY <2>2 DEF RequestStates
  <2>6. request' = [request EXCEPT ![r] = x]
    BY <1>1, <1>4, <2>1, <2>2
  <2>7. Told(x)  BY <1>2, <2>4, <2>5, QueriedIsTold
  <2>8. Heard(x, warnings)  BY <1>2, <2>5 DEF Heard
  <2>9. Covered(x, Range(warnedOf))  BY <1>2, <2>5 DEF Covered
  <2>10. QED BY <1>2, <2>4, <2>6, <2>7, <2>8, <2>9, OneRequestStep
<1>5. QED BY <1>3, <1>4 DEF Query

LEMMA FinalSendDiagnosticsInv ==
  ASSUME DiagnosticsInv, NEW r \in Requests, FinalSend(r) PROVE DiagnosticsInv'
<1>1. PICK q \in RequestStates : q = request[r]
  BY DEF DiagnosticsInv, DiagnosticsTypeOK
<1>2. /\ Told(q) /\ Heard(q, warnings) /\ q.phase = "running"
      /\ UNCHANGED <<now, full, warnings, reportedStatements, warnedOf>>
  BY <1>1 DEF DiagnosticsInv, FinalSend
<1>3. PICK y \in RequestStates : y = ReportToSpan(q)  BY ReportedToSpan
<1>4. PICK x : x = [y EXCEPT !.phase = "sent", !.due = Due(q)]  OBVIOUS
<1>x. /\ x \in RequestStates /\ x.phase = "sent" /\ x.due = Due(q) /\ x.span = y.span
      /\ x.met = y.met /\ x.counts = y.counts /\ x.events = y.events /\ x.began = y.began
  <2>1. Due(q) \in BOOLEAN  BY DEF Due
  <2>2. x \in RequestStates  BY <1>4, <2>1 DEF RequestStates, Phases
  <2>3. QED BY <1>4, <2>2 DEF RequestStates
<1>5. request' = [request EXCEPT ![r] = x]
  BY <1>1, <1>3, <1>4 DEF FinalSend
<1>6. /\ x.span = q.span /\ x.met = q.met /\ x.began = q.began /\ x.counts = q.counts
      /\ \A d \in Diagnostics \ {"db.n_plus_one"} : x.events[d] = q.events[d]
      /\ x.events["db.n_plus_one"] = IF Due(q) /\ q.events["db.n_plus_one"] = 0 THEN 1
                                     ELSE q.events["db.n_plus_one"]
  BY <1>3, <1>x, ReportedToSpan
<1>7. Told(x)  BY <1>2, <1>6, <1>x, SentIsTold
<1>8. Heard(x, warnings)  BY <1>2, <1>6 DEF Heard
<1>9. Covered(x, Range(warnedOf))  BY <1>x DEF Covered
<1>10. QED BY <1>2, <1>5, <1>7, <1>8, <1>9, <1>x, OneRequestStep

LEMMA SpanEndsDiagnosticsInv ==
  ASSUME DiagnosticsInv, NEW r \in Requests, SpanEnds(r) PROVE DiagnosticsInv'
<1>1. PICK q \in RequestStates : q = request[r]
  BY DEF DiagnosticsInv, DiagnosticsTypeOK
<1>2. /\ Told(q) /\ Heard(q, warnings) /\ q.phase = "sent" /\ q.span = "open"
      /\ UNCHANGED <<now, full, warnings, reportedStatements, warnedOf>>
  BY <1>1 DEF DiagnosticsInv, SpanEnds
<1>x. PICK x : x = [q EXCEPT !.span = "ended"]  OBVIOUS
<1>3. /\ x \in RequestStates /\ x.phase = q.phase /\ x.span = "ended"
      /\ x.met = q.met /\ x.due = q.due /\ x.events = q.events /\ x.began = q.began
  BY <1>x DEF RequestStates
<1>4. request' = [request EXCEPT ![r] = x]
  BY <1>1, <1>x DEF SpanEnds
<1>5. Told(x)  BY <1>2, <1>3, SpanEndedIsTold
<1>6. Heard(x, warnings)  BY <1>2, <1>3 DEF Heard
<1>7. Covered(x, Range(warnedOf))  BY <1>2, <1>3 DEF Covered
<1>8. QED BY <1>2, <1>3, <1>4, <1>5, <1>6, <1>7, OneRequestStep

(* The warning at the end of a request, or its absence.                     *)
LEMMA EndDiagnosticsInv ==
  ASSUME DiagnosticsInv, NEW r \in Requests, End(r) PROVE DiagnosticsInv'
<1>1. PICK q \in RequestStates : q = request[r]
  BY DEF DiagnosticsInv, DiagnosticsTypeOK
<1>2. /\ Told(q) /\ Heard(q, warnings) /\ q.phase \in {"running", "sent"}
      /\ UNCHANGED <<now, full, warnings>>
  BY <1>1 DEF DiagnosticsInv, End
<1>3. PICK y \in RequestStates : y = ReportToSpan(q)  BY ReportedToSpan
<1>4. PICK x : x = [ReportToSpan(request[r]) EXCEPT !.phase = "done",
                                                   !.due = @ \/ Due(request[r])]
  OBVIOUS
<1>x. /\ x \in RequestStates /\ x.phase = "done" /\ x.due = (y.due \/ Due(q))
      /\ x.span = y.span /\ x.met = y.met /\ x.counts = y.counts /\ x.events = y.events
      /\ x.began = y.began
  <2>1. (y.due \/ Due(q)) \in BOOLEAN  OBVIOUS
  <2>2. x = [y EXCEPT !.phase = "done", !.due = @ \/ Due(q)]
    BY <1>1, <1>3, <1>4, Zenon
  <2>3. x \in RequestStates  BY <2>1, <2>2 DEF RequestStates, Phases
  <2>4. QED BY <2>2, <2>3 DEF RequestStates
<1>5. request' = [request EXCEPT ![r] = x]
  BY <1>4, Zenon DEF End
<1>6. /\ x.span = q.span /\ x.met = q.met /\ x.began = q.began /\ x.counts = q.counts
      /\ y.due = q.due
      /\ \A d \in Diagnostics \ {"db.n_plus_one"} : x.events[d] = q.events[d]
      /\ x.events["db.n_plus_one"] = IF Due(q) /\ q.events["db.n_plus_one"] = 0 THEN 1
                                     ELSE q.events["db.n_plus_one"]
  BY <1>3, <1>x, ReportedToSpan
<1>7. Told(x)
  <2>1. x.due = (q.due \/ Due(q))  BY <1>6, <1>x
  <2>2. QED BY <1>2, <1>6, <1>x, <2>1, EndedIsTold
<1>8. Heard(x, warnings)  BY <1>2, <1>6 DEF Heard
<1>9. Repeated(x) = Repeated(q)  BY <1>6, SameCountsRepeat
<1>10. /\ reportedStatements \in Seq(Statements) /\ warnedOf \in Seq(Statements)
       /\ Recent(reportedStatements, warnedOf) /\ Apart(warnedOf)
  BY DEF DiagnosticsInv, DiagnosticsTypeOK
<1>11. CASE Repeated(q) = {} /\ UNCHANGED <<reportedStatements, warnedOf>>
  <2>1. Covered(x, Range(warnedOf))  BY <1>9, <1>11 DEF Covered
  <2>2. QED BY <1>2, <1>5, <1>7, <1>8, <1>11, <1>x, <2>1, OneRequestStep
<1>12. ASSUME NEW s \in Repeated(q), s \in Range(reportedStatements),
              UNCHANGED <<reportedStatements, warnedOf>>
       PROVE  DiagnosticsInv'
  <2>1. s \in Range(warnedOf)
    <3>1. PICK k \in 1..Len(reportedStatements) : reportedStatements[k] = s
      BY <1>10, <1>12, InRange
    <3>2. PICK n \in Nat : n = Len(warnedOf)  BY <1>10, LenProperties
    <3>3. PICK m \in Nat : m = Len(reportedStatements)  BY <1>10, LenProperties
    <3>4. m <= n /\ warnedOf[n - m + k] = s  BY <1>10, <3>1, <3>2, <3>3 DEF Recent
    <3>5. n - m + k \in 1..n  BY <3>1, <3>3, <3>4
    <3>6. QED BY <1>10, <3>2, <3>4, <3>5, InRange
  <2>2. Covered(x, Range(warnedOf))  BY <1>9, <1>12, <2>1 DEF Covered
  <2>3. QED BY <1>2, <1>5, <1>7, <1>8, <1>12, <1>x, <2>2, OneRequestStep
<1>13. ASSUME NEW s \in Repeated(q), s \notin Range(reportedStatements),
              reportedStatements' = Append(IF Len(reportedStatements) >= MaxReported
                                           THEN Tail(reportedStatements)
                                           ELSE reportedStatements, s),
              warnedOf' = Append(warnedOf, s)
       PROVE  DiagnosticsInv'
  <2>1. s \in Statements  BY DEF Repeated
  <2>2. /\ reportedStatements' \in Seq(Statements) /\ warnedOf' \in Seq(Statements)
        /\ Recent(reportedStatements', warnedOf') /\ Apart(warnedOf')
        /\ Range(warnedOf) \cup {s} \subseteq Range(warnedOf')
    BY <1>10, <1>13, <2>1, Remembered
  <2>3. request' \in [Requests -> RequestStates]
    BY <1>5, <1>x DEF DiagnosticsInv, DiagnosticsTypeOK
  <2>4. DiagnosticsTypeOK'
    BY <1>2, <2>2, <2>3 DEF DiagnosticsInv, DiagnosticsTypeOK
  <2>5. ASSUME NEW o \in Requests
        PROVE  /\ Told(request'[o]) /\ Heard(request'[o], warnings)
               /\ Covered(request'[o], Range(warnedOf'))
    <3>1. CASE o = r
      <4>1. request'[o] = x  BY <1>5, <3>1 DEF DiagnosticsInv, DiagnosticsTypeOK
      <4>2. Covered(x, Range(warnedOf'))  BY <1>9, <1>13, <2>2 DEF Covered
      <4>3. QED BY <1>7, <1>8, <4>1, <4>2
    <3>2. CASE o # r
      <4>1. request'[o] = request[o]  BY <1>5, <3>2 DEF DiagnosticsInv, DiagnosticsTypeOK
      <4>2. Covered(request[o], Range(warnedOf'))  BY <2>2 DEF DiagnosticsInv, Covered
      <4>3. QED BY <4>1, <4>2 DEF DiagnosticsInv
    <3>3. QED BY <3>1, <3>2
  <2>6. Spaced(warnings)  BY DEF DiagnosticsInv
  <2>7. warnings' = warnings  BY <1>2
  <2>8. Spaced(warnings')  BY <2>6, <2>7, Zenon
  <2>9. \A o \in Requests : /\ Told(request'[o]) /\ Heard(request'[o], warnings')
                            /\ Covered(request'[o], Range(warnedOf'))
    BY <2>5, <2>7, Zenon
  <2>10. QED BY <2>2, <2>4, <2>8, <2>9, Zenon DEF DiagnosticsInv
<1>14. QED BY <1>1, <1>11, <1>12, <1>13 DEF End

LEMMA DiagnosticsInvSuffices == DiagnosticsInv => TellsOnce
<1> SUFFICES ASSUME DiagnosticsInv PROVE TellsOnce
  OBVIOUS
<1>1. ASSUME NEW r \in Requests, request[r].span # "none"
      PROVE  /\ \A d \in Diagnostics \ {"db.n_plus_one"} :
                  request[r].events[d] = IF \E p \in request[r].met : Name(p) = d
                                         THEN 1 ELSE 0
             /\ request[r].events["db.n_plus_one"] = IF request[r].due THEN 1 ELSE 0
             /\ request[r].phase = "done" /\ request[r].span = "open"
                  /\ Repeated(request[r]) # {} => request[r].due
  BY <1>1 DEF DiagnosticsInv, Told, ToldPools, ToldStatement
<1>2. SpansTellOnce  BY <1>1 DEF SpansTellOnce
<1>3. ASSUME NEW r \in Requests, NEW p \in Pools, p \in request[r].met
      PROVE  \E w \in warnings : w.pool = p /\ w.at <= request[r].began
                                 /\ request[r].began - w.at < Interval
  BY <1>3 DEF DiagnosticsInv, Heard
<1>4. ASSUME NEW r \in Requests, request[r].phase = "done", Repeated(request[r]) # {}
      PROVE  Repeated(request[r]) \cap Range(warnedOf) # {}
  BY <1>4 DEF DiagnosticsInv, Covered
<1>5. /\ \A v, w \in warnings : v.pool = w.pool /\ v.at < w.at => w.at - v.at >= Interval
      /\ \A i, j \in DOMAIN warnedOf : i < j /\ warnedOf[i] = warnedOf[j] => j - i > MaxReported
  BY DEF DiagnosticsInv, Spaced, Apart
<1>6. WarningsAreLimited  BY <1>3, <1>4, <1>5 DEF WarningsAreLimited
<1>7. QED BY <1>2, <1>6 DEF TellsOnce

(* A span is told of each full pool its request met and of a statement it   *)
(* repeated, once each; the log is warned of a pool once an interval, of a  *)
(* statement again only after MaxReported others, and of all that is due.   *)
THEOREM ToldOnce == DiagnosticsSpec => []TellsOnce
<1>1. DiagnosticsInv /\ [DiagnosticsNext]_diagnosticsVars => DiagnosticsInv'
  <2> SUFFICES ASSUME DiagnosticsInv, [DiagnosticsNext]_diagnosticsVars
               PROVE  DiagnosticsInv'
    OBVIOUS
  <2>1. CASE Elapse \/ Fill \/ Free \/ UNCHANGED diagnosticsVars
    BY <2>1, QuietDiagnosticsInv
  <2>2. ASSUME NEW r \in Requests,
               \/ Begin(r) \/ FinalSend(r) \/ SpanEnds(r) \/ End(r)
               \/ \E s \in Statements : Query(r, s)
        PROVE  DiagnosticsInv'
    BY <2>2, BeginDiagnosticsInv, QueryDiagnosticsInv, FinalSendDiagnosticsInv,
       SpanEndsDiagnosticsInv, EndDiagnosticsInv
  <2>3. QED BY <2>1, <2>2 DEF DiagnosticsNext
<1>2. QED BY <1>1, InitDiagnosticsInv, DiagnosticsInvSuffices, PTL DEF DiagnosticsSpec

-----------------------------------------------------------------------------
(* The natural numbers that satisfy a condition are all of them if 0 does   *)
(* and each next one does: a set of them instead of an operator.            *)
LEMMA LessThanWellFounded == IsWellFoundedOn({ss \in Nat \X Nat : ss[1] < ss[2]}, Nat)
  BY NatLessThanWellFounded DEF OpToRel

LEMMA Induction ==
  ASSUME NEW S, 0 \in S, \A n \in Nat : n \in S => n + 1 \in S
  PROVE  \A n \in Nat : n \in S
<1> DEFINE less == {ss \in Nat \X Nat : ss[1] < ss[2]}
<1>1. SUFFICES ASSUME Nat \ S # {} PROVE FALSE
  OBVIOUS
<1>2. PICK n \in Nat \ S : \A m \in Nat \ S : ~(<<m, n>> \in less)
  <2>1. IsWellFoundedOn(less, Nat) /\ Nat \ S \subseteq Nat  BY LessThanWellFounded
  <2> HIDE DEF less
  <2>2. QED BY <1>1, <2>1, WFMin
<1>3. n # 0 /\ n - 1 \in Nat /\ <<n - 1, n>> \in less /\ n = (n - 1) + 1
  BY <1>2
<1>4. QED BY <1>2, <1>3

(* The greatest of some positions, which Address!Max chooses.               *)
LEMMA LastOfSome ==
  ASSUME NEW n \in Nat, NEW S, S \subseteq 1..n, S # {}
  PROVE  Address!Max(S) \in S /\ \A j \in S : j <= Address!Max(S)
<1> DEFINE less == {ss \in Nat \X Nat : ss[1] < ss[2]}
           R == {n - j : j \in S}
<1>1. R \subseteq Nat /\ R # {}
  <2>1. ASSUME NEW j \in S PROVE n - j \in Nat  OBVIOUS
  <2>2. PICK j \in S : TRUE  OBVIOUS
  <2>3. n - j \in R  OBVIOUS
  <2>4. QED BY <2>1, <2>3
<1>2. PICK m \in R : \A k \in R : ~(<<k, m>> \in less)
  <2>1. IsWellFoundedOn(less, Nat)  BY LessThanWellFounded
  <2> HIDE DEF less, R
  <2>2. QED BY <1>1, <2>1, WFMin
<1>3. PICK i \in S : m = n - i  OBVIOUS
<1>4. ASSUME NEW j \in S PROVE i >= j
  <2>1. ~(n - j < n - i)  BY <1>2, <1>3, <1>1
  <2>2. QED BY <2>1
<1>5. QED BY <1>4 DEF Address!Max

(* A function on 0..n whose next value is made of the one before: what the  *)
(* loops over headers, enrichers and outputs are defined by.                *)
Iterates(f, V, base, n, step) ==
  /\ f \in [0..n -> V]
  /\ f = [i \in 0..n |-> IF i = 0 THEN base ELSE step[<<i, f[i - 1]>>]]

LEMMA Iteration ==
  ASSUME NEW V, NEW base \in V, NEW n \in Nat, NEW step \in [(1..n) \X V -> V]
  PROVE  \E f : Iterates(f, V, base, n, step)
<1> DEFINE Steps(f, m) == /\ f \in [0..m -> V] /\ f[0] = base
                          /\ \A i \in 1..m : f[i] = step[<<i, f[i - 1]>>]
           S == {m \in Nat : m <= n => \E f : Steps(f, m)}
<1>1. 0 \in S
  <2>1. PICK f : f = [i \in 0..0 |-> base]  OBVIOUS
  <2>2. Steps(f, 0)  BY <2>1
  <2>3. QED BY <2>2
<1>2. ASSUME NEW m \in Nat, m \in S PROVE m + 1 \in S
  <2>1. SUFFICES ASSUME m + 1 <= n PROVE \E f : Steps(f, m + 1)
    OBVIOUS
  <2>2. PICK f : Steps(f, m)  BY <1>2, <2>1
  <2>3. PICK g : g = [i \in 0..(m + 1) |-> IF i \in 0..m THEN f[i] ELSE step[<<i, f[m]>>]]
    OBVIOUS
  <2>4. m + 1 \in 1..n /\ m \in 0..m /\ f[m] \in V  BY <2>1, <2>2
  <2>5. step[<<m + 1, f[m]>>] \in V  BY <2>4
  <2>6. /\ \A i \in 0..m : g[i] = f[i] /\ f[i] \in V
        /\ g[m + 1] = step[<<m + 1, f[m]>>]
    BY <2>2, <2>3
  <2>7. g \in [0..(m + 1) -> V]
    <3>1. \A i \in 0..(m + 1) : i \in 0..m \/ i = m + 1  OBVIOUS
    <3> HIDE DEF S, Steps
    <3>2. \A i \in 0..(m + 1) : g[i] \in V  BY <2>5, <2>6, <3>1
    <3>3. QED BY <2>3, <3>2
  <2>8. ASSUME NEW i \in 1..(m + 1) PROVE g[i] = step[<<i, g[i - 1]>>]
    <3>1. i - 1 \in 0..m /\ g[i - 1] = f[i - 1]  BY <2>6
    <3>2. CASE i \in 1..m  BY <2>2, <2>6, <3>1, <3>2
    <3>3. CASE i = m + 1
      <4>1. i - 1 = m  BY <3>3
      <4>2. QED BY <2>6, <3>1, <3>3, <4>1
    <3>4. QED BY <3>2, <3>3
  <2>9. g[0] = base  BY <2>2, <2>6
  <2>10. QED BY <2>7, <2>8, <2>9
<1>3. \E f : Steps(f, n)
  <2>1. n \in S
    <3> HIDE DEF S
    <3>1. QED BY <1>1, <1>2, Induction
  <2>2. QED BY <2>1
<1>4. PICK f : Steps(f, n)  BY <1>3
<1>5. \A i \in 0..n : f[i] = IF i = 0 THEN base ELSE step[<<i, f[i - 1]>>]
  <2>1. \A i \in 0..n : i = 0 \/ i \in 1..n  OBVIOUS
  <2>2. QED BY <1>4, <2>1
<1>6. f = [i \in 0..n |-> IF i = 0 THEN base ELSE step[<<i, f[i - 1]>>]]
  <2>1. f = [i \in 0..n |-> f[i]]  BY <1>4
  <2> HIDE DEF S, Steps
  <2>2. QED BY <1>5, <2>1
<1>7. QED BY <1>4, <1>6 DEF Iterates

(* The entries of a request's headers, blank ones left out, are a sequence.   *)
LEMMA FilledType ==
  ASSUME NEW entries \in Seq(Texts)
  PROVE  Address!Filled(entries) \in Seq(Texts)
<1>1. PICK n \in Nat : n = Len(entries)  BY LenProperties
<1>2. \A i \in 1..n : entries[i] \in Texts  BY <1>1, ElementOfSeq
<1> DEFINE Step(i, seq) == IF entries[i] = Blank THEN seq ELSE Append(seq, entries[i])
           Solves(f) == f = [i \in 0..n |-> IF i = 0 THEN <<>> ELSE Step(i, f[i - 1])]
<1>3. \A i \in 1..n, seq \in Seq(Texts) : Step(i, seq) \in Seq(Texts)
  BY <1>2
<1>4. PICK f : Solves(f)
  <2>1. PICK step : step = [p \in (1..n) \X Seq(Texts) |-> Step(p[1], p[2])]  OBVIOUS
  <2> HIDE DEF Step
  <2>2. \A i \in 1..n, seq \in Seq(Texts) : step[<<i, seq>>] = Step(i, seq)  BY <2>1
  <2>3. step \in [(1..n) \X Seq(Texts) -> Seq(Texts)]  BY <1>3, <2>1
  <2>4. <<>> \in Seq(Texts)  OBVIOUS
  <2>5. PICK f : Iterates(f, Seq(Texts), <<>>, n, step)  BY <2>3, <2>4, Iteration
  <2>6. ASSUME NEW i \in 0..n, i # 0 PROVE step[<<i, f[i - 1]>>] = Step(i, f[i - 1])
    <3>1. i \in 1..n /\ i - 1 \in 0..n  BY <2>6
    <3>2. f[i - 1] \in Seq(Texts)  BY <2>5, <3>1 DEF Iterates
    <3>3. QED BY <2>2, <3>1, <3>2
  <2>7. Solves(f)  BY <2>5, <2>6 DEF Iterates
  <2>8. QED BY <2>7
<1>5. PICK g : g = CHOOSE h : Solves(h)  OBVIOUS
<1>6. Solves(g)  BY <1>4, <1>5
<1>7. Address!Filled(entries) = g[n]  BY <1>1, <1>5 DEF Address!Filled
<1> DEFINE S == {i \in Nat : i <= n => g[i] \in Seq(Texts)}
<1>8. 0 \in S  BY <1>6
<1>9. ASSUME NEW i \in Nat, i \in S PROVE i + 1 \in S
  <2>1. SUFFICES ASSUME i + 1 <= n PROVE g[i + 1] \in Seq(Texts)
    OBVIOUS
  <2>2. i + 1 \in 1..n /\ i + 1 \in 0..n /\ i + 1 # 0 /\ (i + 1) - 1 = i /\ g[i] \in Seq(Texts)
    BY <1>9, <2>1
  <2> HIDE DEF Step, S
  <2>3. g[i + 1] = Step(i + 1, g[i])  BY <1>6, <2>2
  <2>4. QED BY <1>3, <2>2, <2>3
<1>10. n \in S
  <2> HIDE DEF S
  <2>1. QED BY <1>8, <1>9, Induction
<1>11. QED BY <1>7, <1>10

LEMMA HopsType ==
  ASSUME NEW headers \in Seq(Headers)
  PROVE  Address!Hops(headers) \in Seq(Texts)
<1>1. PICK n \in Nat : n = Len(headers)  BY LenProperties
<1>2. \A i \in 1..n : Address!Filled(headers[i].entries) \in Seq(Texts)
  <2>1. \A i \in 1..n : headers[i] \in Headers  BY <1>1, ElementOfSeq
  <2>2. \A i \in 1..n : headers[i].entries \in Seq(Texts)  BY <2>1 DEF Headers
  <2>3. QED BY <2>2, FilledType
<1> DEFINE Step(i, seq) == IF headers[i].name = "x-forwarded-for"
                           THEN seq \o Address!Filled(headers[i].entries) ELSE seq
           Solves(f) == f = [i \in 0..n |-> IF i = 0 THEN <<>> ELSE Step(i, f[i - 1])]
<1>3. \A i \in 1..n, seq \in Seq(Texts) : Step(i, seq) \in Seq(Texts)
  BY <1>2
<1>4. PICK f : Solves(f)
  <2>1. PICK step : step = [p \in (1..n) \X Seq(Texts) |-> Step(p[1], p[2])]  OBVIOUS
  <2> HIDE DEF Step
  <2>2. \A i \in 1..n, seq \in Seq(Texts) : step[<<i, seq>>] = Step(i, seq)  BY <2>1
  <2>3. step \in [(1..n) \X Seq(Texts) -> Seq(Texts)]  BY <1>3, <2>1
  <2>4. <<>> \in Seq(Texts)  OBVIOUS
  <2>5. PICK f : Iterates(f, Seq(Texts), <<>>, n, step)  BY <2>3, <2>4, Iteration
  <2>6. ASSUME NEW i \in 0..n, i # 0 PROVE step[<<i, f[i - 1]>>] = Step(i, f[i - 1])
    <3>1. i \in 1..n /\ i - 1 \in 0..n  BY <2>6
    <3>2. f[i - 1] \in Seq(Texts)  BY <2>5, <3>1 DEF Iterates
    <3>3. QED BY <2>2, <3>1, <3>2
  <2>7. Solves(f)  BY <2>5, <2>6 DEF Iterates
  <2>8. QED BY <2>7
<1>5. PICK g : g = CHOOSE h : Solves(h)  OBVIOUS
<1>6. Solves(g)  BY <1>4, <1>5
<1>7. Address!Hops(headers) = g[n]  BY <1>1, <1>5 DEF Address!Hops
<1> DEFINE S == {i \in Nat : i <= n => g[i] \in Seq(Texts)}
<1>8. 0 \in S  BY <1>6
<1>9. ASSUME NEW i \in Nat, i \in S PROVE i + 1 \in S
  <2>1. SUFFICES ASSUME i + 1 <= n PROVE g[i + 1] \in Seq(Texts)
    OBVIOUS
  <2>2. i + 1 \in 1..n /\ i + 1 \in 0..n /\ i + 1 # 0 /\ (i + 1) - 1 = i /\ g[i] \in Seq(Texts)
    BY <1>9, <2>1
  <2> HIDE DEF Step, S
  <2>3. g[i + 1] = Step(i + 1, g[i])  BY <1>6, <2>2
  <2>4. QED BY <1>3, <2>2, <2>3
<1>10. n \in S
  <2> HIDE DEF S
  <2>1. QED BY <1>8, <1>9, Induction
<1>11. QED BY <1>7, <1>10

Trusted(ip, policy) == Address!IsTrustedClientIp(ip, policy)
Known(hops, peer, policy) == (IF policy.honor THEN hops ELSE <<>>) \o <<peer>>

\* The address at i is that nearest one which is separated by trusted proxies only.
Nearest(chain, i, policy) ==
  /\ i \in 1..Len(chain) /\ \A j \in (i + 1)..Len(chain) : Trusted(chain[j], policy)
  /\ i > 1 => ~Trusted(chain[i], policy)

LEMMA KnownFacts ==
  ASSUME NEW Who, NEW hops \in Seq(Who), NEW peer \in Who, NEW n \in Nat, n = Len(hops)
  PROVE  /\ hops \o <<peer>> \in Seq(Who) /\ Len(hops \o <<peer>>) = n + 1
         /\ \A i \in 1..n : (hops \o <<peer>>)[i] = hops[i]
         /\ (hops \o <<peer>>)[n + 1] = peer
  OBVIOUS

LEMMA ResolvesToNearest ==
  ASSUME NEW headers, NEW Who, Address!Hops(headers) \in Seq(Who), NEW peer \in Who,
         NEW policy, policy.honor \in BOOLEAN
  PROVE  LET chain == Known(Address!Hops(headers), peer, policy)
             ip    == Address!ResolveClientIp(peer, headers, policy)
         IN  /\ \E i : ip = chain[i] /\ Nearest(chain, i, policy)
             /\ Trusted(ip, policy) => \A i \in 1..Len(chain) : Trusted(chain[i], policy)
<1> DEFINE hops == Address!Hops(headers)
           chain == Known(hops, peer, policy)
           ip == Address!ResolveClientIp(peer, headers, policy)
           outside == {i \in DOMAIN hops : ~Trusted(hops[i], policy)}
<1> SUFFICES /\ \E i : ip = chain[i] /\ Nearest(chain, i, policy)
             /\ Trusted(ip, policy) => \A i \in 1..Len(chain) : Trusted(chain[i], policy)
  OBVIOUS
<1>1. PICK n \in Nat : n = Len(hops)  BY LenProperties
<1>2. DOMAIN hops = 1..n /\ outside \subseteq 1..n  BY <1>1
<1>3. ip = IF ~policy.honor \/ ~Trusted(peer, policy) THEN peer
           ELSE IF outside # {} THEN hops[Address!Max(outside)]
           ELSE IF hops # <<>> THEN Head(hops) ELSE peer
  BY DEF Address!ResolveClientIp, Trusted
<1>4. CASE ~policy.honor
  <2>1. /\ <<>> \in Seq(Who) /\ Len(<<>>) = 0 /\ chain = <<>> \o <<peer>>  BY <1>4 DEF Known
  <2>2. Len(chain) = 1 /\ chain[1] = peer  BY <2>1, KnownFacts
  <2>3. ip = peer  BY <1>3, <1>4
  <2> HIDE DEF chain, ip
  <2>4. Nearest(chain, 1, policy)  BY <2>2 DEF Nearest
  <2>5. \A i \in 1..Len(chain) : i = 1  BY <2>2
  <2>6. QED BY <2>2, <2>3, <2>4, <2>5
<1>5. CASE policy.honor
  <2>1. /\ chain = hops \o <<peer>> /\ Len(chain) = n + 1 /\ chain[n + 1] = peer
        /\ \A i \in 1..n : chain[i] = hops[i]
    BY <1>1, <1>5, KnownFacts DEF Known
  <2>2. \A i \in 1..Len(chain) : i \in 1..n \/ i = n + 1  BY <2>1
  <2>3. CASE ~Trusted(peer, policy)
    <3>1. ip = peer  BY <1>3, <2>3
    <3> HIDE DEF chain, ip
    <3>2. Nearest(chain, n + 1, policy)  BY <2>1, <2>3 DEF Nearest
    <3>3. QED BY <2>1, <2>3, <3>1, <3>2
  <2>4. CASE Trusted(peer, policy) /\ outside # {}
    <3>1. PICK k : k = Address!Max(outside)  OBVIOUS
    <3>2. k \in 1..n /\ k \in outside /\ (\A j \in outside : j <= k) /\ ip = hops[k]
      <4>1. ip = hops[k]  BY <1>3, <1>5, <2>4, <3>1
      <4> HIDE DEF outside, ip
      <4>2. QED BY <1>2, <2>4, <3>1, <4>1, LastOfSome
    <3>3. ~Trusted(hops[k], policy)  BY <3>2
    <3>4. \A j \in 1..n : j > k => Trusted(hops[j], policy)  BY <1>2, <3>2
    <3> HIDE DEF chain, ip, outside
    <3>5. Nearest(chain, k, policy)
      <4>1. ASSUME NEW j \in (k + 1)..Len(chain) PROVE Trusted(chain[j], policy)
        <5>1. j = n + 1 \/ (j \in 1..n /\ j > k)  BY <2>1, <3>2
        <5>2. CASE j = n + 1  BY <2>1, <2>4, <5>2
        <5>3. CASE j \in 1..n /\ j > k
          <6>1. Trusted(hops[j], policy)  BY <3>4, <5>3
          <6>2. chain[j] = hops[j]        BY <2>1, <5>3
          <6>3. QED BY <6>1, <6>2, Zenon
        <5>4. QED BY <5>1, <5>2, <5>3
      <4>2. k \in 1..Len(chain)            BY <2>1, <3>2
      <4>3. ~Trusted(chain[k], policy)     BY <2>1, <3>2, <3>3
      <4>4. QED BY <4>1, <4>2, <4>3, Zenon DEF Nearest
    <3>6. QED BY <2>1, <3>2, <3>3, <3>5
  <2>5. CASE Trusted(peer, policy) /\ outside = {}
    <3>1. \A i \in 1..n : Trusted(hops[i], policy)  BY <1>2, <2>5
    <3>2. \A i \in 1..Len(chain) : Trusted(chain[i], policy)
      <4> HIDE DEF chain
      <4>1. QED BY <2>1, <2>2, <2>5, <3>1
    <3>3. ip = chain[1]
      <4>1. CASE n = 0
        <5>1. hops = <<>>  BY <1>1, <4>1, EmptySeq
        <5>2. ip = peer /\ n + 1 = 1  BY <1>3, <2>5, <4>1, <5>1
        <5>3. QED BY <2>1, <5>2
      <4>2. CASE n # 0
        <5>1. hops # <<>> /\ 1 \in 1..n /\ Head(hops) = hops[1]  BY <1>1, <4>2
        <5>2. ip = hops[1]  BY <1>3, <1>5, <2>5, <5>1
        <5>3. QED BY <2>1, <5>1, <5>2
      <4>3. QED BY <4>1, <4>2
    <3>4. Nearest(chain, 1, policy)
      <4> HIDE DEF chain
      <4>1. QED BY <2>1, <3>2 DEF Nearest
    <3>5. QED BY <3>2, <3>3, <3>4
  <2>6. QED BY <2>3, <2>4, <2>5
<1>6. QED BY <1>4, <1>5

LEMMA AddressIsNearest == ASSUME NEW r \in Arrivals PROVE Address!TrustedHopsCount(r)
<1>1. /\ r.peer \in Texts \cup {None} /\ r.headers \in Seq(Headers)
      /\ r.policy.honor \in BOOLEAN /\ r.policy.enabled \in BOOLEAN
  BY RequestPoliciesAssumption DEF RequestPoliciesAssumption, Proxies
<1>2. Address!Hops(r.headers) \in Seq(Texts \cup {None})
  <2>1. Address!Hops(r.headers) \in Seq(Texts)  BY <1>1, HopsType
  <2>2. QED BY <2>1
<1> DEFINE chain == Known(Address!Hops(r.headers), r.peer, r.policy)
           ip == Address!ResolveClientIp(r.peer, r.headers, r.policy)
<1>3. /\ \E i : ip = chain[i] /\ Nearest(chain, i, r.policy)
      /\ Trusted(ip, r.policy) => \A i \in 1..Len(chain) : Trusted(chain[i], r.policy)
  <2>1. PICK Who : Who = Texts \cup {None}  OBVIOUS
  <2>2. PICK headers, peer, policy :
          headers = r.headers /\ peer = r.peer /\ policy = r.policy
    OBVIOUS
  <2>3. /\ Address!Hops(headers) \in Seq(Who) /\ peer \in Who /\ policy.honor \in BOOLEAN
    BY <1>1, <1>2, <2>1, <2>2
  <2>4. /\ \E i : /\ Address!ResolveClientIp(peer, headers, policy)
                        = Known(Address!Hops(headers), peer, policy)[i]
                   /\ Nearest(Known(Address!Hops(headers), peer, policy), i, policy)
        /\ Trusted(Address!ResolveClientIp(peer, headers, policy), policy) =>
             \A i \in 1..Len(Known(Address!Hops(headers), peer, policy)) :
               Trusted(Known(Address!Hops(headers), peer, policy)[i], policy)
    BY <2>3, ResolvesToNearest
  <2>5. QED BY <2>2, <2>4
<1>4. chain = Address!Chain(r) /\ chain \in Seq(Texts \cup {None})
  <2>1. chain = Address!Chain(r)  BY DEF Known, Address!Chain
  <2>2. QED BY SMTT(30), <1>1, <1>2, <2>1 DEF Known
<1>5. DOMAIN chain = 1..Len(chain)  BY <1>4
<1>6. /\ Address!Resolve(r.peer, r.headers, r.policy).ip = ip
      /\ Address!Resolve(r.peer, r.headers, r.policy).trusted = Trusted(r.peer, r.policy)
  BY DEF Address!Resolve, Trusted
<1>7. ~Trusted(r.peer, r.policy) =>
        Address!Initialize(r.headers, Trusted(r.peer, r.policy))
          = [requestId |-> Fresh, trace |-> None]
  <2>1. PICK trusted : trusted = Trusted(r.peer, r.policy)  OBVIOUS
  <2>2. ~trusted => /\ Address!ResolveRequestId(Address!GetHeader(r.headers, "x-request-id"),
                                               trusted) = Fresh
                    /\ (IF trusted THEN Address!GetHeader(r.headers, "traceparent") ELSE None)
                         = None
    BY DEF Address!ResolveRequestId
  <2>3. QED BY <2>1, <2>2 DEF Address!Initialize
<1>8. Address!IsTrustedCaller(r.peer, r.headers, r.policy) => Trusted(ip, r.policy)
  BY DEF Address!IsTrustedCaller, Trusted
<1> HIDE DEF chain, ip
<1>9. QED
  BY <1>3, <1>4, <1>5, <1>6, <1>7, <1>8 DEF Address!TrustedHopsCount, Nearest, Trusted

LEMMA InputStays == PoliciesSpec => []PoliciesInit
<1>1. PoliciesInit /\ [FALSE]_<<part, input>> => PoliciesInit'
  BY DEF PoliciesInit
<1>2. QED BY <1>1, PTL DEF PoliciesSpec

(* A request is attributed to the nearest address that only trusted proxies *)
(* separate from us (resolve_client_ip), whatever else its headers say, and *)
(* an untrusted peer gives it neither a request ID nor a trace; the control *)
(* plane serves a caller only if every address known of it is trusted.      *)
THEOREM NearestAddress == PoliciesSpec => []OnlyTrustedHopsCount
<1>1. PoliciesInit => OnlyTrustedHopsCount
  BY AddressIsNearest DEF PoliciesInit, OnlyTrustedHopsCount
<1>2. QED BY <1>1, InputStays, PTL

-----------------------------------------------------------------------------
(* The settings of an environment, setting by setting.                      *)
Environment == [Variables -> Texts \cup {Unset}]

LEMMA AddedFacts ==
  ASSUME NEW env \in Environment
  PROVE  /\ DOMAIN Settings!Added(env) \subseteq {"level", "preset"}
         /\ \A v \in DOMAIN Settings!Added(env) : env[v] = Unset
         /\ env.preset = Unset =>
              /\ "preset" \in DOMAIN Settings!Added(env) <=> env.profile = "production"
              /\ env.profile = "production" => Settings!Added(env)["preset"] = "strict"
         /\ env.preset # Unset => "preset" \notin DOMAIN Settings!Added(env)
<1>1. PICK profile : profile = IF env.profile \in DOMAIN Settings!Profiles
                              THEN Settings!Profiles[env.profile] ELSE <<>>
  OBVIOUS
<1>2. Settings!Added(env) = [v \in {v \in DOMAIN profile : env[v] = Unset} |-> profile[v]]
  BY <1>1 DEF Settings!Added
<1>3. /\ env.profile = "production" =>
           profile = [level |-> "info", preset |-> "strict"]
      /\ env.profile = "development" => profile = [level |-> "debug"]
      /\ env.profile \notin {"development", "production"} => profile = <<>>
  BY <1>1 DEF Settings!Profiles
<1>4. /\ DOMAIN profile \subseteq {"level", "preset"}
      /\ "preset" \in DOMAIN profile <=> env.profile = "production"
      /\ env.profile = "production" => profile["preset"] = "strict"
  BY <1>3
<1>5. QED BY <1>2, <1>4

LEMMA EnterFacts ==
  ASSUME NEW env \in Environment
  PROVE  /\ DOMAIN Settings!Enter(env) = Variables
         /\ \A v \in Variables \ {"level", "preset"} : Settings!Enter(env)[v] = env[v]
         /\ Settings!Enter(env)["preset"] =
              IF env.preset = Unset /\ env.profile = "production" THEN "strict" ELSE env.preset
<1>1. PICK added : added = Settings!Added(env)  OBVIOUS
<1>2. Settings!Enter(env) =
        [v \in DOMAIN env |-> IF v \in DOMAIN added THEN added[v] ELSE env[v]]
  BY <1>1 DEF Settings!Enter
<1>3. DOMAIN env = Variables  BY DEF Environment
<1>4. QED BY <1>1, <1>2, <1>3, AddedFacts DEF Variables

\* What a variable that is set says, and what preset and profile say.
Said(f, raw) ==
  CASE f = "fields"  -> Settings!ParseCsv(raw, "default fields", FALSE)
    [] f = "headers" -> Settings!ParseCsv(raw, NoList, TRUE)
    [] f = "mode"    -> raw
Base(preset) ==
  IF preset \in {Unset, ""} THEN Settings!Default ELSE Settings!FromPreset(preset)

LEMMA PolicyFacts ==
  ASSUME NEW env \in Environment, NEW preset, preset = Settings!Enter(env)["preset"]
  PROVE  /\ Base(preset) = Settings!Refused => Settings!Policy(env) = Settings!Refused
         /\ Base(preset) # Settings!Refused => \A f \in Settings!Fields :
              Settings!Policy(env)[f] = IF env[f] # Unset THEN Said(f, env[f]) ELSE Base(preset)[f]
<1>1. PICK e : e = Settings!Enter(env)  OBVIOUS
<1>2. PICK base : base = Base(preset)  OBVIOUS
<1>3. /\ e.preset = preset /\ e.fields = env.fields /\ e.headers = env.headers
      /\ e.mode = env.mode
  BY <1>1, EnterFacts DEF Variables
<1>4. \A f \in Settings!Fields : e[f] = env[f] /\ Settings!EnvValue(e, f) = Said(f, env[f])
  BY <1>3 DEF Settings!Fields, Settings!EnvValue, Said, Settings!Default
<1>5. ASSUME NEW f \in Settings!Fields, env[f] # Unset
      PROVE  Said(f, env[f]) # NoList \/ f \in Settings!Optional
  <2>1. env[f] \in Texts /\ env[f] # NoList
    BY <1>5, RequestPoliciesAssumption
    DEF Environment, Variables, Settings!Fields, RequestPoliciesAssumption
  <2>2. CASE f = "fields"
    <3>1. Said(f, env[f]) \in {"default fields", env[f]}
      BY <1>5, <2>2 DEF Said, Settings!ParseCsv
    <3>2. QED BY <2>1, <3>1, RequestPoliciesAssumption DEF RequestPoliciesAssumption
  <2>3. CASE f = "headers"  BY <2>3 DEF Settings!Optional
  <2>4. CASE f = "mode"     BY <2>1, <2>4 DEF Said
  <2>5. QED BY <2>2, <2>3, <2>4 DEF Settings!Fields
<1>6. Settings!Policy(env) = Settings!FromEnv(e)  BY <1>1 DEF Settings!Policy
<1>7. Settings!FromEnv(e) =
        IF base = Settings!Refused THEN Settings!Refused
        ELSE [f \in Settings!Fields |->
                IF e[f] # Unset /\ (Settings!EnvValue(e, f) # NoList \/ f \in Settings!Optional)
                THEN Settings!EnvValue(e, f) ELSE base[f]]
  BY <1>2, <1>3, Zenon DEF Settings!FromEnv, Base
<1>8. QED BY <1>2, <1>4, <1>5, <1>6, <1>7, Zenon

LEMMA SettingsOfOthers ==
  ASSUME NEW env \in Environment, NEW other \in Environment, NEW f \in Settings!Fields
  PROVE  /\ (/\ env[f] # Unset /\ env[f] = other[f]
             /\ Settings!Refused \notin {Settings!Policy(env), Settings!Policy(other)}) =>
               Settings!Policy(env)[f] = Settings!Policy(other)[f]
         /\ (/\ env[f] = Unset /\ other[f] = Unset
             /\ env.profile = other.profile /\ env.preset = other.preset) =>
               Settings!Policy(env)[f] = Settings!Policy(other)[f]
<1>1. PICK preset : preset = Settings!Enter(env)["preset"]  OBVIOUS
<1>2. PICK theirs : theirs = Settings!Enter(other)["preset"]  OBVIOUS
<1>3. /\ Base(preset) = Settings!Refused => Settings!Policy(env) = Settings!Refused
      /\ Base(preset) # Settings!Refused => Settings!Policy(env)[f] =
           IF env[f] # Unset THEN Said(f, env[f]) ELSE Base(preset)[f]
  BY <1>1, PolicyFacts
<1>4. /\ Base(theirs) = Settings!Refused => Settings!Policy(other) = Settings!Refused
      /\ Base(theirs) # Settings!Refused => Settings!Policy(other)[f] =
           IF other[f] # Unset THEN Said(f, other[f]) ELSE Base(theirs)[f]
  BY <1>2, PolicyFacts
<1>5. env.profile = other.profile /\ env.preset = other.preset => preset = theirs
  BY <1>1, <1>2, EnterFacts
<1>6. QED BY <1>3, <1>4, <1>5, Zenon

LEMMA RestOfSettings ==
  ASSUME NEW env \in Environment, NEW other \in Environment
  PROVE  /\ env.headers = "none" /\ Settings!Policy(env) # Settings!Refused =>
              Settings!Policy(env).headers = NoList
         /\ \A v \in DOMAIN env \ DOMAIN Settings!Added(env) :
              Settings!Exit([Settings!Enter(env) EXCEPT ![v] = "other"], Settings!Added(env))
                = [env EXCEPT ![v] = "other"]
         /\ env.sdkDisabled = "true" => ~Settings!SignalEnabled(env)
         /\ env.ownProtocol # Unset /\ env.ownProtocol = other.ownProtocol =>
              Settings!Protocol(env) = Settings!Protocol(other)
         /\ env.excluded # Unset /\ env.excluded = other.excluded =>
              /\ Settings!Excluded(env) = Settings!Excluded(other)
              /\ Settings!Excluded(env) = <<env.excluded>>
<1>1. ASSUME env.headers = "none", Settings!Policy(env) # Settings!Refused
      PROVE  Settings!Policy(env).headers = NoList
  <2>1. PICK preset : preset = Settings!Enter(env)["preset"]  OBVIOUS
  <2>2. env.headers # Unset /\ "headers" \in Settings!Fields
    BY <1>1, RequestPoliciesAssumption DEF RequestPoliciesAssumption, Settings!Fields
  <2>3. Settings!Policy(env)["headers"] = Said("headers", "none")
    BY <1>1, <2>1, <2>2, PolicyFacts
  <2>4. Said("headers", "none") = NoList
    BY <2>2, <1>1 DEF Said, Settings!ParseCsv
  <2>5. QED BY <2>3, <2>4
<1>2. ASSUME NEW v \in DOMAIN env \ DOMAIN Settings!Added(env)
      PROVE  Settings!Exit([Settings!Enter(env) EXCEPT ![v] = "other"], Settings!Added(env))
               = [env EXCEPT ![v] = "other"]
  <2>1. PICK added : added = Settings!Added(env)  OBVIOUS
  <2>2. PICK e : e = [Settings!Enter(env) EXCEPT ![v] = "other"]  OBVIOUS
  <2>3. Settings!Enter(env) =
          [w \in DOMAIN env |-> IF w \in DOMAIN added THEN added[w] ELSE env[w]]
    BY <2>1 DEF Settings!Enter
  <2>4. /\ DOMAIN e = DOMAIN env /\ e[v] = "other"
        /\ \A w \in DOMAIN env \ DOMAIN added : w # v => e[w] = env[w]
    BY <2>1, <2>2, <2>3
  <2>5. Settings!Exit(e, added) = [w \in DOMAIN e |-> IF w \in DOMAIN added THEN Unset ELSE e[w]]
    BY DEF Settings!Exit
  <2>6. \A w \in DOMAIN added : env[w] = Unset  BY <2>1, AddedFacts
  <2>7. \A w \in DOMAIN env :
          Settings!Exit(e, added)[w] = [env EXCEPT ![v] = "other"][w]
    BY <2>1, <2>4, <2>5, <2>6
  <2>8. Settings!Exit(e, added) = [env EXCEPT ![v] = "other"]
    BY <2>4, <2>5, <2>7
  <2>9. QED BY <2>1, <2>2, <2>8
<1>3. env.sdkDisabled = "true" => ~Settings!SignalEnabled(env)
  BY DEF Settings!SignalEnabled
<1>4. env.ownProtocol # Unset /\ env.ownProtocol = other.ownProtocol =>
        Settings!Protocol(env) = Settings!Protocol(other)
  BY DEF Settings!Protocol
<1>5. ASSUME env.excluded # Unset, env.excluded = other.excluded
      PROVE  /\ Settings!Excluded(env) = Settings!Excluded(other)
             /\ Settings!Excluded(env) = <<env.excluded>>
  <2>1. env.excluded # NoList
    BY RequestPoliciesAssumption DEF RequestPoliciesAssumption, Environment, Variables
  <2>2. QED
    BY <1>5, <2>1 DEF Settings!Excluded, Settings!UsesDefaultExclusions, Settings!ParseExcluded,
                      Settings!BuildExcluded
<1>6. QED BY <1>1, <1>2, <1>3, <1>4, <1>5

(* A variable that is set decides its setting: two environments that agree  *)
(* on it agree on the setting, whatever preset and profile add; and what is *)
(* not set comes from the preset, the profile or the default.               *)
THEOREM SetVariablesWin == PoliciesSpec => []ExplicitWins
<1>1. ASSUME NEW envs \in Environments, NEW env \in envs
      PROVE  Settings!SettingsStand(env, envs)
  <2>1. env \in Environment /\ \A other \in envs : other \in Environment
    BY RequestPoliciesAssumption DEF RequestPoliciesAssumption, Environment
  <2>2. QED
    BY <2>1, SettingsOfOthers, RestOfSettings, Zenon DEF Settings!SettingsStand
<1>2. PoliciesInit => ExplicitWins
  BY <1>1 DEF ExplicitWins, PoliciesInit
<1>3. QED BY <1>2, InputStays, PTL

-----------------------------------------------------------------------------
(* Filters run in order until one rejects; one that raises lets pass.       *)
FilterKinds   == {"passes", "rejects", "raises"}
EnricherKinds == {"adds", "leaks", "nothing", "notes", "raises", "breaks"}
Flagged       == SUBSET {"_skip_enrichers", "_skip_log_filters"}
IsIn(x, seq)  == \E i \in 1..Len(seq) : seq[i] = x

LEMMA RangeIsIn ==
  ASSUME NEW S, NEW seq \in Seq(S), NEW x
  PROVE  (x \in Line!Range(seq)) <=> IsIn(x, seq)
<1>1. DOMAIN seq = 1..Len(seq)  OBVIOUS
<1>2. QED BY <1>1 DEF IsIn, Line!Range

LEMMA FirstOfSome ==
  ASSUME NEW S, S \subseteq Nat, S # {}
  PROVE  \E i \in S : \A j \in S : i <= j
<1> DEFINE less == {ss \in Nat \X Nat : ss[1] < ss[2]}
<1>1. PICK m \in S : \A k \in S : ~(<<k, m>> \in less)
  <2>1. IsWellFoundedOn(less, Nat)  BY LessThanWellFounded
  <2> HIDE DEF less
  <2>2. QED BY <2>1, WFMin
<1>2. ASSUME NEW k \in S PROVE m <= k
  <2>1. m \in Nat /\ k \in Nat /\ ~(k < m)  BY <1>1
  <2>2. QED BY <2>1
<1>3. QED BY <1>2

LEMMA FiltersPass ==
  ASSUME NEW record, NEW filters \in Seq(FilterKinds)
  PROVE  /\ Line!ApplyLogFilters(record, filters).passes <=>
              "_skip_log_filters" \in record.flags \/ ~IsIn("rejects", filters)
         /\ "_skip_log_filters" \in record.flags => ~Line!ApplyLogFilters(record, filters).failed
<1>1. PICK n \in Nat : n = Len(filters)  BY LenProperties
<1> DEFINE rejecting == {i \in DOMAIN filters : filters[i] = "rejects"}
           consulted == Line!Asked(record, filters)
<1>2. DOMAIN filters = 1..n /\ rejecting \subseteq Nat  BY <1>1
<1>3. /\ Line!ApplyLogFilters(record, filters).passes <=> consulted = <<>> \/ Line!Last(consulted) # "rejects"
      /\ Line!ApplyLogFilters(record, filters).failed <=> "raises" \in Line!Range(consulted)
  BY DEF Line!ApplyLogFilters
<1>4. CASE "_skip_log_filters" \in record.flags
  <2>1. consulted = <<>>  BY <1>4 DEF Line!Asked
  <2> HIDE DEF consulted
  <2>2. "raises" \notin Line!Range(consulted)  BY <2>1 DEF Line!Range
  <2>3. QED BY <1>3, <1>4, <2>1, <2>2
<1>5. CASE "_skip_log_filters" \notin record.flags /\ rejecting = {}
  <2>1. consulted = filters  BY <1>5 DEF Line!Asked
  <2>2. ~IsIn("rejects", filters)  BY <1>1, <1>2, <1>5 DEF IsIn
  <2>3. filters = <<>> \/ Line!Last(filters) # "rejects"
    <3>1. SUFFICES ASSUME filters # <<>> PROVE Line!Last(filters) # "rejects"
      OBVIOUS
    <3>2. n \in 1..n  BY <1>1, <3>1, EmptySeq
    <3>3. Line!Last(filters) = filters[n]  BY <1>1 DEF Line!Last
    <3>4. QED BY <1>2, <1>5, <3>2, <3>3
  <2> HIDE DEF consulted
  <2>4. QED BY <1>3, <1>5, <2>1, <2>2, <2>3
<1>6. CASE "_skip_log_filters" \notin record.flags /\ rejecting # {}
  <2>1. PICK i : i = CHOOSE k \in rejecting : \A j \in rejecting : k <= j  OBVIOUS
  <2>2. i \in rejecting
    <3>1. \E k \in rejecting : \A j \in rejecting : k <= j
      <4> HIDE DEF rejecting
      <4>1. QED BY <1>2, <1>6, FirstOfSome
    <3>2. QED BY <2>1, <3>1
  <2>3. consulted = SubSeq(filters, 1, i)  BY <1>6, <2>1 DEF Line!Asked
  <2>4. i \in 1..n /\ filters[i] = "rejects"  BY <1>2, <2>2
  <2> HIDE DEF consulted, rejecting
  <2>5. Len(consulted) = i /\ consulted[i] = "rejects" /\ consulted # <<>>
    BY <1>1, <2>3, <2>4
  <2>6. Line!Last(consulted) = "rejects"  BY <2>5 DEF Line!Last
  <2>7. IsIn("rejects", filters)  BY <1>1, <2>4 DEF IsIn
  <2>8. QED BY <1>3, <1>6, <2>5, <2>6, <2>7
<1>7. QED BY <1>4, <1>5, <1>6

-----------------------------------------------------------------------------
(* Enrichers run in order on the payload of one output.                     *)
Words    == Texts \cup {"note"}
KeyNames == {"message", "request_id", "error", "tenant", "unwritable"} \cup Secret
PayloadSet == [keys : SUBSET KeyNames, event : SUBSET Words, failed : BOOLEAN]

LEMMA EnrichFacts ==
  ASSUME NEW p \in PayloadSet, NEW e \in EnricherKinds, NEW q, q = Line!Enrich(p, e)
  PROVE  /\ q \in PayloadSet
         /\ "tenant" \in q.keys <=> "tenant" \in p.keys \/ e = "adds"
         /\ "unwritable" \in q.keys <=> "unwritable" \in p.keys \/ e = "breaks"
         /\ q.event \ {"note"} = p.event \ {"note"}
<1>1. p.keys \subseteq KeyNames /\ p.event \subseteq Words /\ p.failed \in BOOLEAN
  BY DEF PayloadSet
<1>2. /\ e = "adds"  => q = [p EXCEPT !.keys = @ \cup {"tenant"}]
      /\ e = "leaks" => q = [p EXCEPT !.keys = @ \cup Secret]
      /\ e = "nothing" => q = p
      /\ e = "notes" => q = [p EXCEPT !.event = @ \cup {"note"}]
      /\ e = "raises" => q = [p EXCEPT !.event = @ \cup {"note"}, !.failed = TRUE]
      /\ e = "breaks" => q = [p EXCEPT !.keys = @ \cup {"unwritable"}]
  BY DEF Line!Enrich, EnricherKinds
<1>3. "tenant" \notin Secret /\ "unwritable" \notin Secret
  BY LoggedAssumption DEF LoggedAssumption
<1>4. CASE e = "adds"  BY <1>1, <1>2, <1>4 DEF PayloadSet, KeyNames
<1>5. CASE e = "leaks"  BY <1>1, <1>2, <1>3, <1>5 DEF PayloadSet, KeyNames
<1>6. CASE e = "nothing"  BY <1>1, <1>2, <1>6
<1>7. CASE e = "notes"  BY <1>1, <1>2, <1>7 DEF PayloadSet, Words
<1>8. CASE e = "raises"  BY ZenonT(40), <1>1, <1>2, <1>8 DEF PayloadSet, Words
<1>9. CASE e = "breaks"  BY <1>1, <1>2, <1>9 DEF PayloadSet, KeyNames
<1>10. QED BY <1>4, <1>5, <1>6, <1>7, <1>8, <1>9 DEF EnricherKinds

LEMMA EnrichersFacts ==
  ASSUME NEW payload \in PayloadSet, NEW enrichers \in Seq(EnricherKinds), NEW q,
         q = Line!ApplyLogEnrichers(payload, enrichers)
  PROVE  /\ q \in PayloadSet
         /\ "tenant" \in q.keys <=> "tenant" \in payload.keys \/ IsIn("adds", enrichers)
         /\ "unwritable" \in q.keys <=> "unwritable" \in payload.keys \/ IsIn("breaks", enrichers)
         /\ q.event \ {"note"} = payload.event \ {"note"}
<1>1. PICK n \in Nat : n = Len(enrichers)  BY LenProperties
<1>2. \A i \in 1..n : enrichers[i] \in EnricherKinds  BY <1>1, ElementOfSeq
<1> DEFINE Step(i, p) == Line!Enrich(p, enrichers[i])
           Solves(f) == f = [i \in 0..n |-> IF i = 0 THEN payload ELSE Step(i, f[i - 1])]
<1>3. \A i \in 1..n, p \in PayloadSet : Step(i, p) \in PayloadSet
  BY <1>2, EnrichFacts
<1>4. PICK f : Solves(f)
  <2>1. PICK step : step = [p \in (1..n) \X PayloadSet |-> Step(p[1], p[2])]  OBVIOUS
  <2> HIDE DEF Step
  <2>2. \A i \in 1..n, p \in PayloadSet : step[<<i, p>>] = Step(i, p)  BY <2>1
  <2>3. step \in [(1..n) \X PayloadSet -> PayloadSet]  BY <1>3, <2>1
  <2>4. PICK f : Iterates(f, PayloadSet, payload, n, step)  BY <2>3, Iteration
  <2>5. ASSUME NEW i \in 0..n, i # 0 PROVE step[<<i, f[i - 1]>>] = Step(i, f[i - 1])
    <3>1. i \in 1..n /\ i - 1 \in 0..n  BY <2>5
    <3>2. f[i - 1] \in PayloadSet  BY <2>4, <3>1 DEF Iterates
    <3>3. QED BY <2>2, <3>1, <3>2
  <2>6. Solves(f)  BY <2>4, <2>5 DEF Iterates
  <2>7. QED BY <2>6
<1>5. PICK g : g = CHOOSE h : Solves(h)  OBVIOUS
<1>6. Solves(g)  BY <1>4, <1>5
<1>7. q = g[n]  BY <1>1, <1>5 DEF Line!ApplyLogEnrichers
<1> DEFINE Has(kind, i) == \E j \in 1..i : enrichers[j] = kind
           Good(i) == /\ g[i] \in PayloadSet
                      /\ "tenant" \in g[i].keys <=> "tenant" \in payload.keys \/ Has("adds", i)
                      /\ "unwritable" \in g[i].keys <=>
                           "unwritable" \in payload.keys \/ Has("breaks", i)
                      /\ g[i].event \ {"note"} = payload.event \ {"note"}
           S == {i \in Nat : i <= n => Good(i)}
<1>8. 0 \in S
  <2>1. g[0] = payload  BY <1>6
  <2>2. ~Has("adds", 0) /\ ~Has("breaks", 0)  OBVIOUS
  <2> HIDE DEF Has
  <2>3. Good(0)  BY <2>1, <2>2
  <2>4. QED BY <2>3
<1>9. ASSUME NEW i \in Nat, i \in S PROVE i + 1 \in S
  <2>1. SUFFICES ASSUME i + 1 <= n PROVE Good(i + 1)
    OBVIOUS
  <2>2. i + 1 \in 1..n /\ i + 1 \in 0..n /\ i + 1 # 0 /\ (i + 1) - 1 = i /\ Good(i)
    BY <1>9, <2>1
  <2>3. /\ Has("adds", i + 1) <=> Has("adds", i) \/ enrichers[i + 1] = "adds"
        /\ Has("breaks", i + 1) <=> Has("breaks", i) \/ enrichers[i + 1] = "breaks"
    <3>1. \A j : j \in 1..(i + 1) <=> j \in 1..i \/ j = i + 1  OBVIOUS
    <3>2. QED BY <3>1
  <2>4. g[i + 1] = Line!Enrich(g[i], enrichers[i + 1])
    <3>1. g[i + 1] = Step(i + 1, g[i])
      <4> HIDE DEF Step, S, Good
      <4>1. QED BY <1>6, <2>2
    <3>2. QED BY <3>1
  <2>5. PICK p : p = g[i]  OBVIOUS
  <2>6. PICK e : e = enrichers[i + 1]  OBVIOUS
  <2>7. p \in PayloadSet /\ e \in EnricherKinds /\ g[i + 1] = Line!Enrich(p, e)
    BY <1>2, <2>2, <2>4, <2>5, <2>6
  <2>8. /\ g[i + 1] \in PayloadSet
        /\ "tenant" \in g[i + 1].keys <=> "tenant" \in p.keys \/ e = "adds"
        /\ "unwritable" \in g[i + 1].keys <=> "unwritable" \in p.keys \/ e = "breaks"
        /\ g[i + 1].event \ {"note"} = p.event \ {"note"}
    BY <2>7, EnrichFacts
  <2> HIDE DEF Has, Solves, S, Step
  <2>9. QED BY <2>2, <2>3, <2>5, <2>6, <2>8
<1>10. Good(n)
  <2>1. n \in S
    <3> HIDE DEF S
    <3>1. QED BY <1>8, <1>9, Induction
  <2>2. QED BY <2>1
<1>11. \A kind : Has(kind, n) <=> IsIn(kind, enrichers)  BY <1>1 DEF IsIn
<1> HIDE DEF Has, Solves
<1>12. QED BY <1>7, <1>10, <1>11

-----------------------------------------------------------------------------
(* Each output formats a line of its own from the one record.              *)
Ids   == Texts \cup {None}
Identified(listener) == listener.id \in Ids /\ listener.trace \in Ids
Made  == [id : Ids, trace : Ids, route : Ids, event : SUBSET Words, error : BOOLEAN,
          counted : BOOLEAN, flags : Flagged]
Lines == [id : Ids, trace : Ids, keys : SUBSET KeyNames, event : SUBSET Words]
Sents == [record : Made, lines : Seq(Lines), count : Nat, failed : BOOLEAN]
OutputKinds == {"sink", "open", "otlp"}

\* What an enricher makes of a record that takes them: no line.
Broken(record, enrichers) == "_skip_enrichers" \notin record.flags /\ IsIn("breaks", enrichers)

\* What a line made of a record says.
LineOf(line, record, enrichers, listener) ==
  /\ line.id = IF record.id # None THEN record.id ELSE listener.id
  /\ line.trace = IF record.trace # None THEN record.trace ELSE listener.trace
  /\ line.keys \cap Secret = {} /\ line.event \cap Secret = {}
  /\ "tenant" \in line.keys <=> "_skip_enrichers" \notin record.flags /\ IsIn("adds", enrichers)
  /\ line.event \ {"note"} = record.event \ (Secret \cup {"note"})

LEMMA FormatFacts ==
  ASSUME NEW record \in Made, NEW enrichers \in Seq(EnricherKinds), NEW listener, Identified(listener),
         NEW done, done = Line!Format(record, enrichers, listener)
  PROVE  /\ done.line \in Lines /\ LineOf(done.line, record, enrichers, listener)
         /\ "unwritable" \in done.line.keys <=> Broken(record, enrichers)
         /\ done.event \in SUBSET Words /\ done.event \ {"note"} = record.event \ {"note"}
         /\ done.failed \in BOOLEAN /\ ("_skip_enrichers" \in record.flags => ~done.failed)
<1>1. PICK found : found = [record EXCEPT !.id    = IF @ # None THEN @ ELSE listener.id,
                                          !.trace = IF @ # None THEN @ ELSE listener.trace]
  OBVIOUS
<1>2. /\ found.id = (IF record.id # None THEN record.id ELSE listener.id)
      /\ found.trace = (IF record.trace # None THEN record.trace ELSE listener.trace)
      /\ found.id \in Ids /\ found.trace \in Ids /\ found.event = record.event
      /\ found.error = record.error
  BY <1>1 DEF Made, Identified
<1>3. PICK plain : plain = Line!Payload(found)  OBVIOUS
<1>4. /\ plain \in PayloadSet /\ plain.event = record.event /\ ~plain.failed
      /\ "tenant" \notin plain.keys /\ "unwritable" \notin plain.keys
  <2>1. PICK keys : keys = {"message"} \cup (IF found.id # None THEN {"request_id"} ELSE {})
                            \cup (IF found.error THEN {"error"} ELSE {})
    OBVIOUS
  <2>2. plain = [keys |-> keys, event |-> found.event, failed |-> FALSE]
    BY <1>3, <2>1 DEF Line!Payload
  <2>3. keys \subseteq KeyNames /\ "tenant" \notin keys /\ "unwritable" \notin keys
    BY <2>1 DEF KeyNames
  <2>4. record.event \in SUBSET Words  BY DEF Made
  <2>5. QED BY <1>2, <2>2, <2>3, <2>4 DEF PayloadSet
<1>5. PICK payload : payload = IF "_skip_enrichers" \in record.flags THEN plain
                               ELSE Line!ApplyLogEnrichers(plain, enrichers)
  OBVIOUS
<1>6. /\ payload \in PayloadSet
      /\ "tenant" \in payload.keys <=>
           "_skip_enrichers" \notin record.flags /\ IsIn("adds", enrichers)
      /\ "unwritable" \in payload.keys <=> Broken(record, enrichers)
      /\ payload.event \ {"note"} = record.event \ {"note"}
      /\ "_skip_enrichers" \in record.flags => ~payload.failed
  <2>1. PICK enriched : enriched = Line!ApplyLogEnrichers(plain, enrichers)  OBVIOUS
  <2>2. /\ enriched \in PayloadSet
        /\ "tenant" \in enriched.keys <=> "tenant" \in plain.keys \/ IsIn("adds", enrichers)
        /\ "unwritable" \in enriched.keys <=>
             "unwritable" \in plain.keys \/ IsIn("breaks", enrichers)
        /\ enriched.event \ {"note"} = plain.event \ {"note"}
    BY <1>4, <2>1, EnrichersFacts
  <2>3. CASE "_skip_enrichers" \in record.flags  BY <1>4, <1>5, <2>3 DEF Broken
  <2>4. CASE "_skip_enrichers" \notin record.flags
    BY <1>4, <1>5, <2>1, <2>2, <2>4 DEF Broken
  <2>5. QED BY <2>3, <2>4
<1>7. PICK line : line = [id |-> found.id, trace |-> found.trace,
                          keys |-> payload.keys \ Secret, event |-> payload.event \ Secret]
  OBVIOUS
<1>8. done = [line |-> line, event |-> payload.event, failed |-> payload.failed]
  <2>1. found.flags = record.flags  BY <1>1 DEF Made
  <2>2. QED BY <1>1, <1>3, <1>5, <1>7 DEF Line!Format
<1>9. /\ payload.keys \subseteq KeyNames /\ payload.event \subseteq Words
      /\ payload.failed \in BOOLEAN
  BY <1>6 DEF PayloadSet
<1>10. line \in Lines  BY <1>2, <1>7, <1>9 DEF Lines
<1>11. LineOf(line, record, enrichers, listener)
  <2>1. "tenant" \notin Secret  BY LoggedAssumption DEF LoggedAssumption
  <2>2. "tenant" \in line.keys <=> "tenant" \in payload.keys  BY <1>7, <2>1
  <2>3. line.event \ {"note"} = record.event \ (Secret \cup {"note"})  BY <1>6, <1>7
  <2>4. line.keys \cap Secret = {} /\ line.event \cap Secret = {}  BY <1>7
  <2>5. line.id = found.id /\ line.trace = found.trace  BY <1>7
  <2>6. QED BY <1>2, <1>6, <2>2, <2>3, <2>4, <2>5, Zenon DEF LineOf
<1>12. "unwritable" \in line.keys <=> "unwritable" \in payload.keys
  <2>1. "unwritable" \notin Secret  BY LoggedAssumption DEF LoggedAssumption
  <2>2. QED BY <1>7, <2>1
<1>13. QED BY <1>6, <1>8, <1>9, <1>10, <1>11, <1>12

\* What stays of a record from one output to the next.
SameRecord(new, old) ==
  /\ new.id = old.id /\ new.trace = old.trace /\ new.route = old.route /\ new.flags = old.flags
  /\ new.event \ {"note"} = old.event \ {"note"}

LEMMA WrittenFacts ==
  ASSUME NEW soFar \in Sents, NEW output \in OutputKinds, output # "open",
         NEW enrichers \in Seq(EnricherKinds), NEW listener, Identified(listener),
         NEW s, s = Line!Written(soFar, output, enrichers, listener)
  PROVE  /\ s \in Sents /\ SameRecord(s.record, soFar.record)
         /\ Broken(soFar.record, enrichers) =>
              /\ s.lines = soFar.lines /\ s.count = soFar.count
              /\ s.record.counted = soFar.record.counted
         /\ ~Broken(soFar.record, enrichers) =>
              /\ \E line \in Lines : /\ s.lines = Append(soFar.lines, line)
                                     /\ LineOf(line, soFar.record, enrichers, listener)
              /\ s.count = soFar.count +
                   IF soFar.record.route # None /\ ~soFar.record.counted THEN 1 ELSE 0
              /\ output # "otlp" =>
                   (s.record.counted <=> soFar.record.counted \/ soFar.record.route # None)
         /\ "_skip_enrichers" \in soFar.record.flags => (s.failed => soFar.failed)
<1>1. PICK r : r = soFar.record  OBVIOUS
<1>2. /\ r \in Made /\ soFar.lines \in Seq(Lines) /\ soFar.count \in Nat
      /\ soFar.failed \in BOOLEAN
  BY <1>1 DEF Sents
<1>3. PICK done : done = Line!Format(r, enrichers, listener)  OBVIOUS
<1>4. /\ done.line \in Lines /\ LineOf(done.line, r, enrichers, listener)
      /\ "unwritable" \in done.line.keys <=> Broken(r, enrichers)
      /\ done.event \in SUBSET Words /\ done.event \ {"note"} = r.event \ {"note"}
      /\ done.failed \in BOOLEAN /\ ("_skip_enrichers" \in r.flags => ~done.failed)
  BY <1>2, <1>3, FormatFacts
<1>5. PICK written : written = ("unwritable" \notin done.line.keys)  OBVIOUS
<1>6. PICK counts : counts = (written /\ r.route # None /\ ~r.counted)  OBVIOUS
<1>7. PICK new : new = [r EXCEPT !.event = IF output = "otlp" THEN @ ELSE done.event,
                                 !.counted = @ \/ (counts /\ output # "otlp")]
  OBVIOUS
<1>8. s = [record |-> new,
           lines |-> IF written THEN Append(soFar.lines, done.line) ELSE soFar.lines,
           count |-> soFar.count + IF counts THEN 1 ELSE 0,
           failed |-> soFar.failed \/ done.failed]
  BY <1>1, <1>3, <1>5, <1>6, <1>7 DEF Line!Written
<1>9. /\ r.event \in SUBSET Words /\ r.counted \in BOOLEAN /\ counts \in BOOLEAN
      /\ written \in BOOLEAN /\ (written <=> ~Broken(r, enrichers))
      /\ r = [id |-> r.id, trace |-> r.trace, route |-> r.route, event |-> r.event,
              error |-> r.error, counted |-> r.counted, flags |-> r.flags]
  BY <1>2, <1>4, <1>5, <1>6 DEF Made
<1>10. /\ new.id = r.id /\ new.trace = r.trace /\ new.route = r.route /\ new.flags = r.flags
       /\ new.error = r.error
       /\ new.event = (IF output = "otlp" THEN r.event ELSE done.event)
       /\ new.counted = (r.counted \/ (counts /\ output # "otlp"))
  BY <1>7, <1>9
<1>11. new \in Made
  <2>1. new.event \in SUBSET Words /\ new.counted \in BOOLEAN  BY <1>4, <1>9, <1>10
  <2>2. QED BY <1>2, <1>7, <2>1, <1>10 DEF Made
<1>12. SameRecord(new, r)  BY <1>4, <1>10 DEF SameRecord
<1>13. s \in Sents
  <2>1. Append(soFar.lines, done.line) \in Seq(Lines)  BY <1>2, <1>4
  <2>2. soFar.count + (IF counts THEN 1 ELSE 0) \in Nat  BY <1>2
  <2>3. (soFar.failed \/ done.failed) \in BOOLEAN  BY <1>2, <1>4
  <2>4. QED BY <1>2, <1>8, <1>11, <2>1, <2>2, <2>3 DEF Sents
<1>14. /\ s.record = new
       /\ s.lines = (IF written THEN Append(soFar.lines, done.line) ELSE soFar.lines)
       /\ s.count = soFar.count + (IF counts THEN 1 ELSE 0)
       /\ s.failed = (soFar.failed \/ done.failed)
  BY <1>8
<1>15. CASE Broken(r, enrichers)
  <2>1. ~written /\ ~counts  BY <1>6, <1>9, <1>15
  <2>2. new.counted = r.counted  BY <1>9, <1>10, <2>1
  <2>3. s.lines = soFar.lines /\ s.count = soFar.count  BY <1>2, <1>14, <2>1
  <2>4. QED BY <1>1, <1>4, <1>12, <1>13, <1>14, <1>15, <2>2, <2>3, Zenon
<1>16. CASE ~Broken(r, enrichers)
  <2>1. written /\ (counts <=> r.route # None /\ ~r.counted)  BY <1>6, <1>9, <1>16
  <2>2. output # "otlp" => (new.counted <=> r.counted \/ r.route # None)
    BY <1>10, <2>1, Zenon
  <2>3. s.lines = Append(soFar.lines, done.line)  BY <1>14, <2>1
  <2>4. s.count = soFar.count + (IF r.route # None /\ ~r.counted THEN 1 ELSE 0)
    BY <1>14, <2>1
  <2>5. QED BY <1>1, <1>4, <1>12, <1>13, <1>14, <1>16, <2>2, <2>3, <2>4, Zenon
<1>17. QED BY <1>15, <1>16

\* What the first outputs have made of a record.
SentOf(soFar, record, enrichers, listener) ==
  /\ soFar \in Sents /\ SameRecord(soFar.record, record)
  /\ \A j \in 1..Len(soFar.lines) : LineOf(soFar.lines[j], record, enrichers, listener)
  /\ soFar.count = IF record.route # None /\ ~record.counted /\ soFar.lines # <<>> THEN 1 ELSE 0
  /\ "_skip_enrichers" \in record.flags => ~soFar.failed
CountedOf(soFar, record) ==
  soFar.record.counted <=> record.counted \/ (record.route # None /\ soFar.lines # <<>>)

\* How many lines one more output adds.
Grown(s, soFar, output, record, enrichers) ==
  Len(s.lines) = Len(soFar.lines) + IF output = "open" \/ Broken(record, enrichers) THEN 0 ELSE 1

LEMMA SameLine ==
  ASSUME NEW new, NEW old, SameRecord(new, old), NEW line, NEW enrichers, NEW listener,
         LineOf(line, new, enrichers, listener)
  PROVE  LineOf(line, old, enrichers, listener)
<1>1. new.event \ (Secret \cup {"note"}) = old.event \ (Secret \cup {"note"})
  BY DEF SameRecord
<1>2. QED BY <1>1, Zenon DEF SameRecord, LineOf

LEMMA WrittenKeeps ==
  ASSUME NEW record \in Made, NEW soFar, NEW output \in OutputKinds,
         NEW enrichers \in Seq(EnricherKinds), NEW listener, Identified(listener),
         SentOf(soFar, record, enrichers, listener), CountedOf(soFar, record),
         NEW s, s = Line!Written(soFar, output, enrichers, listener)
  PROVE  /\ SentOf(s, record, enrichers, listener)
         /\ output # "otlp" => CountedOf(s, record)
         /\ Grown(s, soFar, output, record, enrichers)
<1>0. Len(soFar.lines) \in Nat  BY LenProperties DEF SentOf, Sents
<1>1. CASE output = "open"
  <2>1. s = soFar  BY <1>1 DEF Line!Written
  <2>2. QED BY <1>0, <1>1, <2>1 DEF Grown
<1>2. CASE output # "open" /\ Broken(record, enrichers)
  <2>1. soFar \in Sents /\ SameRecord(soFar.record, record)  BY DEF SentOf
  <2>2. Broken(soFar.record, enrichers)  BY <1>2, <2>1 DEF SameRecord, Broken
  <2>3. /\ s \in Sents /\ SameRecord(s.record, soFar.record)
        /\ s.lines = soFar.lines /\ s.count = soFar.count
        /\ s.record.counted = soFar.record.counted
        /\ "_skip_enrichers" \in soFar.record.flags => (s.failed => soFar.failed)
    BY <1>2, <2>1, <2>2, WrittenFacts
  <2>4. SameRecord(s.record, record)  BY <2>1, <2>3, Zenon DEF SameRecord
  <2>5. "_skip_enrichers" \in record.flags => ~s.failed
    BY <2>1, <2>3 DEF SentOf, SameRecord
  <2>6. SentOf(s, record, enrichers, listener)  BY <2>3, <2>4, <2>5 DEF SentOf
  <2>7. CountedOf(s, record)  BY <2>3, Zenon DEF CountedOf
  <2>8. QED BY <1>0, <1>2, <2>3, <2>6, <2>7 DEF Grown
<1>3. CASE output # "open" /\ ~Broken(record, enrichers)
  <2> ~Broken(soFar.record, enrichers)  BY <1>3 DEF SentOf, SameRecord, Broken
  <2>1. soFar \in Sents /\ SameRecord(soFar.record, record)  BY DEF SentOf
  <2>2. PICK line \in Lines : /\ s.lines = Append(soFar.lines, line)
                              /\ LineOf(line, soFar.record, enrichers, listener)
    BY <1>3, <2>1, WrittenFacts
  <2>3. /\ s \in Sents /\ SameRecord(s.record, soFar.record)
        /\ s.count = soFar.count +
             IF soFar.record.route # None /\ ~soFar.record.counted THEN 1 ELSE 0
        /\ output # "otlp" => (s.record.counted <=> soFar.record.counted \/ soFar.record.route # None)
        /\ "_skip_enrichers" \in soFar.record.flags => (s.failed => soFar.failed)
    BY <1>3, <2>1, WrittenFacts
  <2>4. PICK n \in Nat : n = Len(soFar.lines)  BY <2>1, LenProperties DEF Sents
  <2>5. /\ soFar.lines \in Seq(Lines) /\ Len(s.lines) = n + 1 /\ s.lines[n + 1] = line
        /\ s.lines # <<>> /\ \A j \in 1..n : s.lines[j] = soFar.lines[j]
    <3>1. PICK lines : lines = soFar.lines  OBVIOUS
    <3>2. lines \in Seq(Lines) /\ Len(lines) = n  BY <2>1, <2>4, <3>1 DEF Sents
    <3>3. /\ Len(Append(lines, line)) = n + 1 /\ Append(lines, line)[n + 1] = line
          /\ Append(lines, line) # <<>>
          /\ \A j \in 1..n : Append(lines, line)[j] = lines[j]
      BY <3>2, AppendProperties
    <3>4. QED BY <2>2, <3>1, <3>2, <3>3
  <2>6. SameRecord(s.record, record)  BY <2>1, <2>3, Zenon DEF SameRecord
  <2>7. LineOf(line, record, enrichers, listener)  BY <2>1, <2>2, SameLine
  <2>8. ASSUME NEW j \in 1..Len(s.lines)
        PROVE  LineOf(s.lines[j], record, enrichers, listener)
    <3>1. j \in 1..n \/ j = n + 1  BY <2>5
    <3>2. CASE j \in 1..n
      <4>1. LineOf(soFar.lines[j], record, enrichers, listener)  BY <2>4, <3>2 DEF SentOf
      <4>2. QED BY <2>5, <3>2, <4>1
    <3>3. CASE j = n + 1  BY <2>5, <2>7, <3>3
    <3>4. QED BY <3>1, <3>2, <3>3
  <2>9. s.count = IF record.route # None /\ ~record.counted /\ s.lines # <<>> THEN 1 ELSE 0
    <3>1. soFar.record.route = record.route  BY <2>1 DEF SameRecord
    <3>2. soFar.count = IF record.route # None /\ ~record.counted /\ soFar.lines # <<>>
                       THEN 1 ELSE 0
      BY DEF SentOf
    <3>3. soFar.record.counted <=> record.counted \/ (record.route # None /\ soFar.lines # <<>>)
      BY DEF CountedOf
    <3>4. QED BY <2>3, <2>5, <3>1, <3>2, <3>3
  <2>10. "_skip_enrichers" \in record.flags => ~s.failed
    BY <2>1, <2>3 DEF SentOf, SameRecord
  <2>11. output # "otlp" => CountedOf(s, record)
    <3>1. soFar.record.route = record.route  BY <2>1 DEF SameRecord
    <3>2. soFar.record.counted <=> record.counted \/ (record.route # None /\ soFar.lines # <<>>)
      BY DEF CountedOf
    <3>3. QED BY <2>3, <2>5, <3>1, <3>2, Zenon DEF CountedOf
  <2>12. SentOf(s, record, enrichers, listener)
    BY <2>3, <2>6, <2>8, <2>9, <2>10 DEF SentOf
  <2>13. QED BY <1>3, <2>4, <2>5, <2>11, <2>12 DEF Grown
<1>4. QED BY <1>1, <1>2, <1>3

LEMMA WriteAllFacts ==
  ASSUME NEW record \in Made, NEW outputs \in Outputs,
         NEW enrichers \in Seq(EnricherKinds), NEW listener, Identified(listener),
         NEW s, s = Line!WriteAll(record, outputs, enrichers, listener)
  PROVE  /\ SentOf(s, record, enrichers, listener)
         /\ Len(s.lines) = IF Broken(record, enrichers) THEN 0
                           ELSE Cardinality({i \in DOMAIN outputs : outputs[i] # "open"})
<1>1. PICK n \in Nat : n = Len(outputs)  BY LenProperties DEF Outputs
<1>2. \A i \in 1..n : outputs[i] \in OutputKinds /\ (outputs[i] = "otlp" => i = n)
  <2>1. outputs \in Seq(OutputKinds)  BY DEF Outputs, OutputKinds
  <2>2. \A i \in 1..n : outputs[i] \in OutputKinds  BY <1>1, <2>1, ElementOfSeq
  <2>3. QED BY <1>1, <2>2 DEF Outputs
<1>3. PICK base : base = [record |-> record, lines |-> <<>>, count |-> 0, failed |-> FALSE]
  OBVIOUS
<1>4. SentOf(base, record, enrichers, listener) /\ CountedOf(base, record)
  <2>1. base \in Sents  BY <1>3 DEF Sents
  <2>2. SameRecord(base.record, record)  BY <1>3 DEF SameRecord
  <2>3. base.lines = <<>> /\ base.count = 0 /\ ~base.failed /\ base.record = record  BY <1>3
  <2>4. \A j \in 1..Len(base.lines) : FALSE  BY <2>3
  <2>5. QED BY <2>1, <2>2, <2>3, <2>4 DEF SentOf, CountedOf
<1> DEFINE Step(i, soFar) == Line!Written(soFar, outputs[i], enrichers, listener)
           Solves(f) == f = [i \in 0..n |-> IF i = 0 THEN base ELSE Step(i, f[i - 1])]
<1>5. \A i \in 1..n, soFar \in Sents : Step(i, soFar) \in Sents
  <2>1. ASSUME NEW i \in 1..n, NEW soFar \in Sents PROVE Step(i, soFar) \in Sents
    <3>1. CASE outputs[i] = "open"
      <4>1. Step(i, soFar) = soFar  BY <3>1 DEF Line!Written
      <4>2. QED BY <4>1
    <3>2. CASE outputs[i] # "open"
      <4>1. PICK output : output = outputs[i]  OBVIOUS
      <4>2. Line!Written(soFar, output, enrichers, listener) \in Sents
        BY <1>2, <3>2, <4>1, WrittenFacts
      <4>3. QED BY <4>1, <4>2
    <3>3. QED BY <3>1, <3>2
  <2>2. QED BY <2>1
<1>6. PICK f : Solves(f)
  <2>1. PICK step : step = [p \in (1..n) \X Sents |-> Step(p[1], p[2])]  OBVIOUS
  <2> HIDE DEF Step
  <2>2. \A i \in 1..n, p \in Sents : step[<<i, p>>] = Step(i, p)  BY <2>1
  <2>3. step \in [(1..n) \X Sents -> Sents]  BY <1>5, <2>1
  <2>4. base \in Sents  BY <1>4 DEF SentOf
  <2>5. PICK f : Iterates(f, Sents, base, n, step)  BY <2>3, <2>4, Iteration
  <2>6. ASSUME NEW i \in 0..n, i # 0 PROVE step[<<i, f[i - 1]>>] = Step(i, f[i - 1])
    <3>1. i \in 1..n /\ i - 1 \in 0..n  BY <2>6
    <3>2. f[i - 1] \in Sents  BY <2>5, <3>1 DEF Iterates
    <3>3. QED BY <2>2, <3>1, <3>2
  <2>7. Solves(f)  BY <2>5, <2>6 DEF Iterates
  <2>8. QED BY <2>7
<1>7. PICK g : g = CHOOSE h : Solves(h)  OBVIOUS
<1>8. Solves(g)  BY <1>6, <1>7
<1>9. s = g[n]  BY <1>1, <1>3, <1>7 DEF Line!WriteAll
<1> DEFINE Closed(i) == {j \in 1..i : outputs[j] # "open"}
           Good(i) == /\ SentOf(g[i], record, enrichers, listener)
                      /\ (i < n => CountedOf(g[i], record))
                      /\ Len(g[i].lines) = IF Broken(record, enrichers) THEN 0
                                           ELSE Cardinality(Closed(i))
           S == {i \in Nat : i <= n => Good(i)}
<1>10. 0 \in S
  <2>1. g[0] = base  BY <1>8
  <2>2. Closed(0) = {}  OBVIOUS
  <2>3. Len(base.lines) = 0  BY <1>3
  <2>4. Cardinality(Closed(0)) = 0  BY <2>2, FS_EmptySet
  <2> HIDE DEF Closed
  <2>5. Good(0)  BY <1>4, <2>1, <2>3, <2>4
  <2>6. QED BY <2>5
<1>11. ASSUME NEW i \in Nat, i \in S PROVE i + 1 \in S
  <2>1. SUFFICES ASSUME i + 1 <= n PROVE Good(i + 1)
    OBVIOUS
  <2>2. /\ i + 1 \in 1..n /\ i + 1 \in 0..n /\ i + 1 # 0 /\ (i + 1) - 1 = i /\ i < n
        /\ Good(i)
    BY <1>11, <2>1
  <2>3. g[i + 1] = Line!Written(g[i], outputs[i + 1], enrichers, listener)
    <3>1. g[i + 1] = Step(i + 1, g[i])
      <4> HIDE DEF Step, S, Good
      <4>1. QED BY <1>8, <2>2
    <3>2. QED BY <3>1
  <2>4. PICK soFar : soFar = g[i]  OBVIOUS
  <2>5. PICK output : output = outputs[i + 1]  OBVIOUS
  <2>6. /\ SentOf(soFar, record, enrichers, listener) /\ CountedOf(soFar, record)
        /\ output \in OutputKinds /\ g[i + 1] = Line!Written(soFar, output, enrichers, listener)
    BY <1>2, <2>2, <2>3, <2>4, <2>5
  <2>7. /\ SentOf(g[i + 1], record, enrichers, listener)
        /\ output # "otlp" => CountedOf(g[i + 1], record)
        /\ Grown(g[i + 1], soFar, output, record, enrichers)
    BY <2>6, WrittenKeeps
  <2>8. i + 1 < n => output # "otlp"  BY <1>2, <2>2, <2>5
  <2>9. /\ Cardinality(Closed(i)) \in Nat
        /\ Cardinality(Closed(i + 1)) = Cardinality(Closed(i)) + IF output = "open" THEN 0 ELSE 1
    <3>1. IsFiniteSet(Closed(i))
      <4>1. IsFiniteSet(1..i)  BY <1>11, FS_Interval
      <4>2. Closed(i) \subseteq 1..i  OBVIOUS
      <4>3. QED BY <4>1, <4>2, FS_Subset
    <3>2. Cardinality(Closed(i)) \in Nat  BY <3>1, FS_CardinalityType
    <3>3. \A j : j \in 1..(i + 1) <=> j \in 1..i \/ j = i + 1  BY <1>11
    <3>4. CASE output = "open"
      <4>1. i + 1 \notin Closed(i + 1)  BY <2>5, <3>4
      <4>2. \A j : j \in Closed(i + 1) <=> j \in Closed(i)  BY <2>5, <3>3, <4>1
      <4> HIDE DEF Closed
      <4>3. Closed(i + 1) = Closed(i)  BY <4>2
      <4>4. QED BY <3>2, <3>4, <4>3
    <3>5. CASE output # "open"
      <4>1. Closed(i + 1) = Closed(i) \cup {i + 1}  BY <2>5, <3>3, <3>5
      <4>2. i + 1 \notin Closed(i)  BY <1>11
      <4> HIDE DEF Closed
      <4>3. Cardinality(Closed(i) \cup {i + 1}) = Cardinality(Closed(i)) + 1
        BY <3>1, <4>2, FS_AddElement
      <4>4. QED BY <3>2, <3>5, <4>1, <4>3
    <3>6. QED BY <3>4, <3>5
  <2> HIDE DEF Closed
  <2>10. Len(soFar.lines) = IF Broken(record, enrichers) THEN 0 ELSE Cardinality(Closed(i))
    BY <2>2, <2>4
  <2>11. Len(g[i + 1].lines) = IF Broken(record, enrichers) THEN 0
                               ELSE Cardinality(Closed(i + 1))
    BY <2>7, <2>9, <2>10 DEF Grown
  <2>12. QED BY <2>7, <2>8, <2>11
<1>12. n \in S
  <2> HIDE DEF S
  <2>1. QED BY <1>10, <1>11, Induction
<1>13. Closed(n) = {i \in DOMAIN outputs : outputs[i] # "open"}
  BY <1>1 DEF Outputs
<1>14. Good(n)  BY <1>12
<1> HIDE DEF Closed
<1>15. QED BY <1>9, <1>13, <1>14

-----------------------------------------------------------------------------
(* Plugins that fail add records, which skip what has failed: no more than  *)
(* two generations of them.                                                 *)
AfterFilter   == {"_skip_enrichers", "_skip_log_filters"}
AfterEnricher == {"_skip_enrichers"}

LEMMA AfterFacts ==
  /\ AfterFilter \in Flagged /\ AfterEnricher \in Flagged /\ AfterFilter # AfterEnricher
  /\ "_skip_log_filters" \in AfterFilter /\ "_skip_enrichers" \in AfterFilter
  /\ "_skip_enrichers" \in AfterEnricher
<1>1. /\ AfterFilter \in Flagged /\ AfterEnricher \in Flagged
  BY DEF AfterFilter, AfterEnricher, Flagged
<1>2. "_skip_log_filters" # "_skip_enrichers"  OBVIOUS
<1>3. "_skip_log_filters" \in AfterFilter /\ "_skip_log_filters" \notin AfterEnricher
  BY <1>2 DEF AfterFilter, AfterEnricher
<1>4. "_skip_enrichers" \in AfterFilter /\ "_skip_enrichers" \in AfterEnricher
  BY DEF AfterFilter, AfterEnricher
<1>5. QED BY <1>1, <1>3, <1>4

LEMMA CausesFacts ==
  ASSUME NEW flags \in Flagged, NEW filters \in Seq(FilterKinds),
         NEW enrichers \in Seq(EnricherKinds), NEW outputs \in Outputs,
         NEW causes, causes = Line!Causes(flags, filters, enrichers, outputs)
  PROVE  /\ causes \subseteq {AfterFilter, AfterEnricher}
         /\ "_skip_log_filters" \in flags => AfterFilter \notin causes
         /\ "_skip_enrichers" \in flags => AfterEnricher \notin causes
<1>1. PICK record :
        record = [id |-> None, trace |-> None, route |-> None, event |-> {}, error |-> FALSE,
                  counted |-> FALSE, flags |-> flags]
  OBVIOUS
<1>2. record \in Made /\ record.flags = flags  BY <1>1 DEF Made, Ids, Words
<1>3. Identified(record)  BY <1>1 DEF Identified, Ids
<1>5. PICK filtered : filtered = Line!ApplyLogFilters(record, filters)  OBVIOUS
<1>6. PICK soFar : soFar = Line!WriteAll(record, outputs, enrichers, record)  OBVIOUS
<1>7. causes = (IF filtered.failed THEN {AfterFilter} ELSE {})
               \cup (IF filtered.passes /\ soFar.failed THEN {AfterEnricher} ELSE {})
  BY <1>1, <1>5, <1>6
  DEF Line!Causes, Line!FilterFailed, Line!EnricherFailed, AfterFilter, AfterEnricher
<1>8. "_skip_log_filters" \in flags => ~filtered.failed  BY <1>2, <1>5, FiltersPass
<1>9. "_skip_enrichers" \in flags => ~soFar.failed
  <2>1. SentOf(soFar, record, enrichers, record)  BY <1>2, <1>3, <1>6, WriteAllFacts
  <2>2. QED BY <1>2, <2>1 DEF SentOf
<1>10. AfterFilter # AfterEnricher  BY AfterFacts
<1>11. QED BY <1>7, <1>8, <1>9, <1>10

LEMMA CausesEnd ==
  ASSUME NEW flags \in Flagged, NEW filters \in Seq(FilterKinds),
         NEW enrichers \in Seq(EnricherKinds), NEW outputs \in Outputs,
         NEW causes, causes = Line!Causes(flags, filters, enrichers, outputs),
         NEW further, further = Line!NextCauses(causes, filters, enrichers, outputs)
  PROVE  Line!NextCauses(further, filters, enrichers, outputs) = {}
<1>1. AfterFilter \in Flagged /\ AfterEnricher \in Flagged /\ AfterFilter # AfterEnricher
  BY AfterFacts
<1>2. causes \subseteq {AfterFilter, AfterEnricher}  BY CausesFacts
<1>3. Line!Causes(AfterFilter, filters, enrichers, outputs) = {}
  <2>1. PICK more : more = Line!Causes(AfterFilter, filters, enrichers, outputs)  OBVIOUS
  <2>2. /\ more \subseteq {AfterFilter, AfterEnricher}
        /\ "_skip_log_filters" \in AfterFilter => AfterFilter \notin more
        /\ "_skip_enrichers" \in AfterFilter => AfterEnricher \notin more
    BY <1>1, <2>1, CausesFacts
  <2>3. "_skip_log_filters" \in AfterFilter /\ "_skip_enrichers" \in AfterFilter
    BY AfterFacts
  <2>4. QED BY <2>1, <2>2, <2>3
<1>4. Line!Causes(AfterEnricher, filters, enrichers, outputs) \subseteq {AfterFilter}
  <2>1. PICK more : more = Line!Causes(AfterEnricher, filters, enrichers, outputs)  OBVIOUS
  <2>2. /\ more \subseteq {AfterFilter, AfterEnricher}
        /\ "_skip_enrichers" \in AfterEnricher => AfterEnricher \notin more
    BY <1>1, <2>1, CausesFacts
  <2>3. "_skip_enrichers" \in AfterEnricher  BY AfterFacts
  <2>4. QED BY <2>1, <2>2, <2>3
<1>5. further \subseteq {AfterFilter}
  <2>1. further = UNION {Line!Causes(x, filters, enrichers, outputs) : x \in causes}
    BY DEF Line!NextCauses
  <2>2. \A x \in causes : Line!Causes(x, filters, enrichers, outputs) \subseteq {AfterFilter}
    BY <1>2, <1>3, <1>4
  <2>3. QED BY <2>1, <2>2
<1>6. \A x \in further : Line!Causes(x, filters, enrichers, outputs) = {}  BY <1>3, <1>5
<1>7. Line!NextCauses(further, filters, enrichers, outputs)
        = UNION {Line!Causes(x, filters, enrichers, outputs) : x \in further}
  BY DEF Line!NextCauses
<1>8. QED BY <1>6, <1>7

LEMMA CaptureFacts ==
  ASSUME NEW c \in Logged, NEW captured,
         captured = Line!Capture(c.record, c.context, c.counting)
  PROVE  /\ captured \in Made /\ captured.event = c.record.event
         /\ captured.flags = c.record.flags /\ ~captured.counted
         /\ captured.id = IF c.record.id # None THEN c.record.id ELSE c.context.id
         /\ captured.trace = IF c.context.span # None THEN c.context.span
                             ELSE IF c.context.trace # None THEN c.context.trace
                             ELSE c.record.trace
         /\ captured.route # None <=> c.counting
<1>1. PICK record : record = c.record  OBVIOUS
<1>2. PICK context : context = c.context  OBVIOUS
<1>3. /\ record \in Records /\ context \in Contexts /\ c.counting \in BOOLEAN
  BY <1>1, <1>2, LoggedAssumption DEF LoggedAssumption
<1>4. /\ record.id \in Ids /\ record.trace \in Ids /\ record.route = None
      /\ record.event \in SUBSET Texts /\ record.error \in BOOLEAN /\ record.counted = FALSE
      /\ record.flags \in Flagged
      /\ record = [id |-> record.id, trace |-> record.trace, route |-> record.route,
                   event |-> record.event, error |-> record.error, counted |-> record.counted,
                   flags |-> record.flags]
      /\ context.id \in Ids /\ context.trace \in Ids /\ context.span \in Ids
      /\ context.route \in Ids /\ context.route # None
  BY <1>3 DEF Records, Contexts, Ids, Flagged
<1>5. PICK trace : trace = IF context.span # None THEN context.span ELSE context.trace  OBVIOUS
<1>6. captured = [record EXCEPT !.id    = IF @ # None THEN @ ELSE context.id,
                                !.trace = IF trace # None THEN trace ELSE @,
                                !.route = IF c.counting THEN context.route ELSE @]
  BY <1>1, <1>2, <1>5 DEF Line!Capture
<1>7. /\ captured.id = (IF record.id # None THEN record.id ELSE context.id)
      /\ captured.trace = (IF trace # None THEN trace ELSE record.trace)
      /\ captured.route = (IF c.counting THEN context.route ELSE record.route)
      /\ captured.event = record.event /\ captured.error = record.error
      /\ captured.counted = record.counted /\ captured.flags = record.flags
  BY <1>4, <1>6
<1>8. captured \in Made
  <2>1. captured.id \in Ids
    <3>1. captured.id \in {record.id, context.id}  BY <1>7
    <3>2. QED BY <1>4, <3>1
  <2>2. captured.trace \in Ids
    <3>1. captured.trace \in {record.trace, context.trace, context.span}  BY <1>5, <1>7
    <3>2. QED BY <1>4, <3>1
  <2>3. captured.route \in Ids
    <3>1. captured.route \in {record.route, context.route}  BY <1>7
    <3>2. QED BY <1>4, <3>1 DEF Ids
  <2>4. captured.event \in SUBSET Words  BY <1>4, <1>7 DEF Words
  <2>5. QED BY <1>4, <1>6, <1>7, <2>1, <2>2, <2>3, <2>4 DEF Made
<1>9. QED BY <1>1, <1>2, <1>3, <1>4, <1>5, <1>7, <1>8

LEMMA LinesAreWhole == ASSUME NEW c \in Logged PROVE Line!LineIsWhole(c)
<1> DEFINE captured == Line!Capture(c.record, c.context, c.counting)
           soFar     == Line!WriteAll(captured, c.outputs, c.enrichers, c.listener)
           causes   == Line!Causes(c.record.flags, c.filters, c.enrichers, c.outputs)
           further  == Line!NextCauses(causes, c.filters, c.enrichers, c.outputs)
<1>1. /\ c.record.flags \in Flagged /\ c.filters \in Seq(FilterKinds)
      /\ c.enrichers \in Seq(EnricherKinds) /\ c.outputs \in Outputs
      /\ Identified(c.listener)
  BY LoggedAssumption
  DEF LoggedAssumption, Records, Flagged, FilterKinds, EnricherKinds, Identified, Ids
<1>2. /\ captured \in Made /\ captured.event = c.record.event
      /\ captured.flags = c.record.flags /\ ~captured.counted
      /\ captured.id = (IF c.record.id # None THEN c.record.id ELSE c.context.id)
      /\ captured.trace = (IF c.context.span # None THEN c.context.span
                           ELSE IF c.context.trace # None THEN c.context.trace
                           ELSE c.record.trace)
      /\ captured.route # None <=> c.counting
  BY CaptureFacts
<1> HIDE DEF captured
<1>3. /\ SentOf(soFar, captured, c.enrichers, c.listener)
      /\ Len(soFar.lines) = IF Broken(captured, c.enrichers) THEN 0
                            ELSE Cardinality({i \in DOMAIN c.outputs : c.outputs[i] # "open"})
  BY <1>1, <1>2, WriteAllFacts
<1>4. Line!NextCauses(further, c.filters, c.enrichers, c.outputs) = {}  BY <1>1, CausesEnd
<1>5. Line!ApplyLogFilters(c.record, c.filters).passes <=>
        "_skip_log_filters" \in c.record.flags \/ "rejects" \notin Line!Range(c.filters)
  BY <1>1, FiltersPass, RangeIsIn
<1>6. /\ "adds" \in Line!Range(c.enrichers) <=> IsIn("adds", c.enrichers)
      /\ "breaks" \in Line!Range(c.enrichers) <=> IsIn("breaks", c.enrichers)
  BY <1>1, RangeIsIn
<1> HIDE DEF soFar, causes, further
<1>7. ASSUME NEW i \in DOMAIN soFar.lines, NEW line, line = soFar.lines[i]
      PROVE  /\ c.record.id # None => line.id = c.record.id
             /\ c.record.id = None /\ c.context.id # None => line.id = c.context.id
             /\ c.context.span # None => line.trace = c.context.span
             /\ c.context.span = None /\ c.context.trace # None => line.trace = c.context.trace
             /\ c.context.span = None /\ c.context.trace = None /\ c.record.trace # None =>
                  line.trace = c.record.trace
             /\ (line.keys \cup line.event) \cap Secret = {}
             /\ "tenant" \in line.keys <=> /\ "_skip_enrichers" \notin c.record.flags
                                          /\ "adds" \in Line!Range(c.enrichers)
             /\ line.event \ {"note"} = c.record.event \ (Secret \cup {"note"})
  <2>1. DOMAIN soFar.lines = 1..Len(soFar.lines)  BY <1>3 DEF SentOf, Sents
  <2>2. LineOf(line, captured, c.enrichers, c.listener)  BY <1>3, <1>7, <2>1 DEF SentOf
  <2>3. (line.keys \cup line.event) \cap Secret = {}  BY <2>2 DEF LineOf
  <2>4. line.trace = IF captured.trace # None THEN captured.trace ELSE c.listener.trace
    BY <2>2 DEF LineOf
  <2>5. QED BY <1>2, <1>6, <2>2, <2>3, <2>4 DEF LineOf
<1>8. soFar.count = IF c.counting /\ soFar.lines # <<>> THEN 1 ELSE 0
  BY <1>2, <1>3, Zenon DEF SentOf
<1>9. Len(soFar.lines) =
        IF "_skip_enrichers" \notin c.record.flags /\ "breaks" \in Line!Range(c.enrichers) THEN 0
        ELSE Line!Cardinality({i \in DOMAIN c.outputs : c.outputs[i] # "open"})
  <2>1. PICK closed : closed = {i \in DOMAIN c.outputs : c.outputs[i] # "open"}  OBVIOUS
  <2>2. Line!Cardinality(closed) = Cardinality(closed)  BY DEF Line!Cardinality, Cardinality
  <2>3. QED BY <1>2, <1>3, <1>6, <2>1, <2>2 DEF Broken
<1>10. QED
  BY <1>4, <1>5, <1>7, <1>8, <1>9, Zenon DEF Line!LineIsWhole, captured, soFar, causes, further

(* A record that its filters let pass becomes a line at every output that    *)
(* takes it, whatever its plugins raise or leak, unless one of them added   *)
(* what cannot be written: with the IDs and the trace of the thread that    *)
(* made it, if that had any, with its event, without secrets, counted once; *)
(* and the failures of plugins that are logged in turn come to an end.      *)
THEOREM LinesStayWhole == PoliciesSpec => []FaultsStayLocal
<1>1. PoliciesInit => FaultsStayLocal
  BY LinesAreWhole DEF PoliciesInit, FaultsStayLocal
<1>2. QED BY <1>1, InputStays, PTL

-----------------------------------------------------------------------------
(* Redaction.  Nothing is proved by induction over the data: the levels left *)
(* below a value and the steps of a path are numbers.                         *)

(* What a value holds along a path, step by step, for values of any depth.  *)
LEMMA TrailFacts ==
  ASSUME NEW v, NEW path \in Seq(Cleaning!Steps), NEW at, at = Cleaning!Trail(v, path)
  PROVE  /\ at[0] = v
         /\ \A i \in 1..Len(path) : at[i] = Cleaning!Part(at[i - 1], path[i])
<1>1. PICK n \in Nat : n = Len(path)  BY LenProperties
<1> DEFINE Hop(i, w) == Cleaning!Part(w, path[i])
           Steps(f, m) == /\ f = [i \in 0..m |-> f[i]] /\ f[0] = v
                          /\ \A i \in 1..m : f[i] = Hop(i, f[i - 1])
           Solves(f) == f = [i \in 0..n |-> IF i = 0 THEN v ELSE Hop(i, f[i - 1])]
           S == {m \in Nat : \E f : Steps(f, m)}
<1> HIDE DEF Hop
<1>2. 0 \in S
  <2>1. PICK f : f = [i \in 0..0 |-> v]  OBVIOUS
  <2>2. Steps(f, 0)  BY <2>1
  <2>3. QED BY <2>2
<1>3. ASSUME NEW m \in Nat, NEW f, Steps(f, m) PROVE \E g : Steps(g, m + 1)
  <2>1. PICK g : g = [i \in 0..(m + 1) |-> IF i \in 0..m THEN f[i] ELSE Hop(i, f[m])]
    OBVIOUS
  <2> HIDE DEF S
  <2>2. (\A i \in 0..m : g[i] = f[i]) /\ g[m + 1] = Hop(m + 1, f[m]) /\ m + 1 \notin 0..m
    BY <2>1
  <2>3. g = [i \in 0..(m + 1) |-> g[i]]  BY <2>1
  <2>4. f[0] = v /\ \A i \in 1..m : f[i] = Hop(i, f[i - 1])  BY <1>3
  <2> HIDE DEF Steps
  <2>5. ASSUME NEW i \in 1..(m + 1) PROVE g[i] = Hop(i, g[i - 1])
    <3>1. g[i - 1] = f[i - 1]
      <4>1. i - 1 \in 0..m  OBVIOUS
      <4>2. QED BY <2>2, <4>1
    <3>2. CASE i \in 1..m
      <4>1. i \in 0..m  BY <3>2
      <4>2. QED BY <2>2, <2>4, <3>1, <3>2, <4>1
    <3>3. CASE i = m + 1
      <4>1. i - 1 = m  BY <3>3
      <4>2. QED BY <2>2, <3>1, <3>3, <4>1
    <3>4. i \in 1..m \/ i = m + 1  OBVIOUS
    <3>5. QED BY <3>2, <3>3, <3>4
  <2>6. g[0] = v
    <3>1. 0 \in 0..m  OBVIOUS
    <3>2. QED BY <2>2, <2>4, <3>1
  <2>7. Steps(g, m + 1)  BY <2>3, <2>5, <2>6 DEF Steps
  <2>8. QED BY <2>7
<1>4. PICK f : Solves(f)
  <2>1. n \in S
    <3>1. ASSUME NEW m \in Nat, m \in S PROVE m + 1 \in S  BY <1>3, <3>1
    <3> HIDE DEF S
    <3>2. QED BY <1>2, <3>1, Induction
  <2>2. PICK f : Steps(f, n)  BY <2>1
  <2>3. \A i \in 0..n : f[i] = IF i = 0 THEN v ELSE Hop(i, f[i - 1])
    <3>1. \A i \in 0..n : i = 0 \/ i \in 1..n  OBVIOUS
    <3>2. QED BY <2>2, <3>1
  <2>4. Solves(f)
    <3>1. f = [i \in 0..n |-> f[i]]  BY <2>2
    <3> HIDE DEF Steps, S
    <3>2. QED BY <2>3, <3>1
  <2>5. QED BY <2>4
<1>5. at = CHOOSE h : Solves(h)  BY <1>1 DEF Cleaning!Trail, Hop
<1>6. Solves(at)  BY <1>4, <1>5
<1>7. QED BY <1>1, <1>6 DEF Hop

(* What becomes of the values with so many levels left below them is made of what      *)
(* becomes of their parts with one level less.                                          *)
LEMMA CleanFacts ==
  ASSUME NEW policy, NEW allowed, NEW clean, clean = Cleaning!Sanitized(policy, allowed)
  PROVE  \A left \in 0..(MaxDepth + 1), v \in Data, h \in BOOLEAN :
           clean[left][v][h] =
             Cleaning!SanitizeValue(v, policy, h, MaxDepth + 1 - left, allowed,
                                    IF left = 0 THEN <<>> ELSE clean[left - 1])
<1>1. PICK n \in Nat : n = MaxDepth + 1  BY DataAssumption
<1> DEFINE Level(i, below) ==
             [v \in Data |-> [inHeaders \in BOOLEAN |->
                Cleaning!SanitizeValue(v, policy, inHeaders, MaxDepth + 1 - i, allowed, below)]]
           Below(f, i) == IF i = 0 THEN <<>> ELSE f[i - 1]
           Steps(f, m) == /\ f = [i \in 0..m |-> f[i]]
                          /\ \A i \in 0..m : f[i] = Level(i, Below(f, i))
           Solves(f) == f = [i \in 0..n |-> Level(i, Below(f, i))]
           S == {m \in Nat : \E f : Steps(f, m)}
<1> HIDE DEF Level
<1>2. 0 \in S
  <2>1. PICK f : f = [i \in 0..0 |-> Level(0, <<>>)]  OBVIOUS
  <2>2. \A i \in 0..0 : i = 0  OBVIOUS
  <2>3. Steps(f, 0)  BY <2>1, <2>2
  <2>4. QED BY <2>3
<1>3. ASSUME NEW m \in Nat, NEW f, Steps(f, m) PROVE \E g : Steps(g, m + 1)
  <2>1. PICK g : g = [i \in 0..(m + 1) |-> IF i \in 0..m THEN f[i] ELSE Level(i, f[m])]
    OBVIOUS
  <2> HIDE DEF S
  <2>2. (\A i \in 0..m : g[i] = f[i]) /\ g[m + 1] = Level(m + 1, f[m]) /\ m + 1 \notin 0..m
    BY <2>1
  <2>3. g = [i \in 0..(m + 1) |-> g[i]]  BY <2>1
  <2>4. \A i \in 0..m : f[i] = Level(i, Below(f, i))  BY <1>3
  <2> HIDE DEF Steps
  <2>5. ASSUME NEW i \in 0..(m + 1) PROVE g[i] = Level(i, Below(g, i))
    <3>1. CASE i \in 0..m
      <4>1. i = 0 \/ i - 1 \in 0..m  BY <3>1
      <4>2. Below(g, i) = Below(f, i)  BY <2>2, <4>1
      <4> HIDE DEF Below
      <4>3. QED BY <2>2, <2>4, <3>1, <4>2
    <3>2. CASE i = m + 1
      <4>1. i - 1 = m /\ i # 0 /\ m \in 0..m  BY <3>2
      <4>2. QED BY <2>2, <3>2, <4>1
    <3>3. i \in 0..m \/ i = m + 1  OBVIOUS
    <3>4. QED BY <3>1, <3>2, <3>3
  <2> HIDE DEF Below
  <2>6. Steps(g, m + 1)  BY <2>3, <2>5 DEF Steps
  <2>7. QED BY <2>6
<1>4. PICK f : Solves(f)
  <2>1. n \in S
    <3>1. ASSUME NEW m \in Nat, m \in S PROVE m + 1 \in S  BY <1>3, <3>1
    <3> HIDE DEF S
    <3>2. QED BY <1>2, <3>1, Induction
  <2>2. PICK f : Steps(f, n)  BY <2>1
  <2>3. Solves(f)
    <3>1. f = [i \in 0..n |-> f[i]] /\ \A i \in 0..n : f[i] = Level(i, Below(f, i))  BY <2>2
    <3> HIDE DEF Steps, S, Below
    <3>2. QED BY <3>1
  <2>4. QED BY <2>3
<1>5. clean = CHOOSE h : Solves(h)  BY <1>1 DEF Cleaning!Sanitized, Level
<1>6. Solves(clean)  BY <1>4, <1>5
<1>7. \A i \in 0..n : clean[i] = Level(i, Below(clean, i))  BY <1>6
<1> HIDE DEF Below, Solves
<1>8. ASSUME NEW left \in 0..(MaxDepth + 1), NEW v \in Data, NEW h \in BOOLEAN
      PROVE  clean[left][v][h] =
               Cleaning!SanitizeValue(v, policy, h, MaxDepth + 1 - left, allowed, Below(clean, left))
  <2>1. clean[left] = Level(left, Below(clean, left))  BY <1>1, <1>7
  <2>2. QED BY <2>1 DEF Level
<1>9. QED BY <1>8 DEF Below

LEMMA DataFacts ==
  ASSUME NEW v \in Data
  PROVE  /\ v.kind \in {"map", "list", "text"} /\ v # Cleaning!Nothing
         /\ v.kind = "map" => /\ DOMAIN v.items \subseteq DOMAIN Normal
                             /\ \A k \in DOMAIN v.items : v.items[k] \in Data
         /\ v.kind = "list" => /\ DOMAIN v.items \subseteq Nat \ {0}
                              /\ \A i \in DOMAIN v.items : v.items[i] \in Data
<1>1. v.kind \in {"map", "list", "text"}  BY DataAssumption
<1>2. v # Cleaning!Nothing  BY <1>1 DEF Cleaning!Nothing
<1>3. ASSUME v.kind = "map"
      PROVE  DOMAIN v.items \subseteq DOMAIN Normal /\ \A k \in DOMAIN v.items : v.items[k] \in Data
  <2>1. v \in Holders  BY <1>3 DEF Holders
  <2>2. v.items \in [DOMAIN v.items -> Data] /\ DOMAIN v.items \subseteq DOMAIN Normal
    BY <2>1, <1>3, DataAssumption
  <2>3. QED BY <2>2
<1>4. ASSUME v.kind = "list"
      PROVE  DOMAIN v.items \subseteq Nat \ {0} /\ \A i \in DOMAIN v.items : v.items[i] \in Data
  <2>1. v \in Holders  BY <1>4 DEF Holders
  <2>2. v.items \in Seq(Data)  BY <2>1, <1>4, DataAssumption
  <2>3. PICK q : q = v.items  OBVIOUS
  <2>4. q \in Seq(Data)  BY <2>2, <2>3
  <2>5. DOMAIN q = 1..Len(q) /\ \A i \in 1..Len(q) : q[i] \in Data  BY <2>4, LenProperties, ElementOfSeq
  <2>6. Len(q) \in Nat  BY <2>4, LenProperties
  <2>7. QED BY <2>3, <2>5, <2>6
<1>5. QED BY <1>1, <1>2, <1>3, <1>4

LEMMA PartFacts ==
  ASSUME NEW v \in Data, NEW step \in Cleaning!Steps, NEW w, w = Cleaning!Part(v, step)
  PROVE  /\ w = Cleaning!Nothing \/ w \in Data
         /\ w # Cleaning!Nothing <=>
              \/ v.kind = "map" /\ step.item = 0 /\ step.key \in DOMAIN v.items
              \/ v.kind = "list" /\ step.item \in DOMAIN v.items
         /\ w # Cleaning!Nothing /\ v.kind = "map" => w = v.items[step.key]
         /\ w # Cleaning!Nothing /\ v.kind = "list" => w = v.items[step.item]
<1>1. CASE v.kind = "map" /\ step.item = 0 /\ step.key \in DOMAIN v.items
  <2>1. w = v.items[step.key]  BY <1>1 DEF Cleaning!Part
  <2>2. w \in Data  BY <1>1, <2>1, DataFacts
  <2>3. w # Cleaning!Nothing  BY <2>2, DataFacts
  <2>4. QED BY <1>1, <2>1, <2>2, <2>3
<1>2. CASE v.kind = "list" /\ step.item \in DOMAIN v.items
  <2>1. w = v.items[step.item]  BY <1>2 DEF Cleaning!Part
  <2>2. w \in Data  BY <1>2, <2>1, DataFacts
  <2>3. w # Cleaning!Nothing  BY <2>2, DataFacts
  <2>4. QED BY <1>2, <2>1, <2>2, <2>3
<1>3. CASE ~(\/ v.kind = "map" /\ step.item = 0 /\ step.key \in DOMAIN v.items
             \/ v.kind = "list" /\ step.item \in DOMAIN v.items)
  BY <1>3 DEF Cleaning!Part
<1>4. QED BY <1>1, <1>2, <1>3

(* A redacted value, a mask and a text hold nothing.                        *)
LEMMA NothingInside ==
  ASSUME NEW v, NEW step,
         \/ v = Cleaning!Nothing \/ v = Cleaning!Mask \/ v.kind = "text"
         \/ \E w, policy : v = Cleaning!RedactValue(w, policy)
  PROVE  Cleaning!Part(v, step) = Cleaning!Nothing
BY DEF Cleaning!Part, Cleaning!Nothing, Cleaning!Mask, Cleaning!RedactValue

LEMMA PartOfContainer ==
  ASSUME NEW items, NEW step, NEW v
  PROVE  /\ v = Cleaning!List(items) =>
              Cleaning!Part(v, step) = IF step.item \in DOMAIN items THEN items[step.item] ELSE Cleaning!Nothing
         /\ v = Cleaning!Map(items) =>
              Cleaning!Part(v, step) = IF step.item = 0 /\ step.key \in DOMAIN items THEN items[step.key]
                                       ELSE Cleaning!Nothing
<1>1. v = Cleaning!List(items) => v.kind = "list" /\ v.items = items  BY DEF Cleaning!List
<1>2. v = Cleaning!Map(items) => v.kind = "map" /\ v.items = items  BY DEF Cleaning!Map
<1>3. QED BY <1>1, <1>2 DEF Cleaning!Part

(* What becomes of a part of a value is decided by the step to it.          *)
StepLeftOut(step, d, h, policy, allowed) ==
  /\ step.item = 0
  /\ \/ h /\ Normal[step.key] \notin policy.allowedHeaders
     \/ d = 0 /\ Normal[step.key] \notin allowed
StepSecret(step, h, policy) ==
  /\ step.item = 0
  /\ Normal[step.key] \in policy.fields \/ (h /\ Normal[step.key] \in policy.headers)
ToHeaders(step) == step.item = 0 /\ Normal[step.key] = "headers"

LEMMA StepOfClean ==
  ASSUME NEW policy, NEW allowed, NEW d \in 0..(MaxDepth + 1), NEW v \in Data, NEW h \in BOOLEAN,
         NEW step \in Cleaning!Steps, NEW clean, clean = Cleaning!Sanitized(policy, allowed),
         NEW out, out = clean[MaxDepth + 1 - d][v][h], NEW w, w = Cleaning!Part(v, step)
  PROVE  Cleaning!Part(out, step) =
           IF \/ w = Cleaning!Nothing \/ d > MaxDepth \/ StepLeftOut(step, d, h, policy, allowed)
              \/ StepSecret(step, h, policy) /\ policy.mode = "drop"
           THEN Cleaning!Nothing
           ELSE IF StepSecret(step, h, policy) THEN Cleaning!RedactValue(w, policy)
           ELSE clean[MaxDepth - d][w][ToHeaders(step)]
<1>1. MaxDepth \in Nat  BY DataAssumption
<1>2. PICK left \in 0..(MaxDepth + 1) : left = MaxDepth + 1 - d  BY <1>1
<1>3. MaxDepth + 1 - left = d  BY <1>1, <1>2
<1>4. out = Cleaning!SanitizeValue(v, policy, h, d, allowed, IF left = 0 THEN <<>> ELSE clean[left - 1])
  BY <1>2, <1>3, CleanFacts
<1>5. v.kind \in {"map", "list", "text"}  BY DataFacts
<1>6. CASE d > MaxDepth
  <2>1. out = Cleaning!Mask \/ (out = v /\ v.kind = "text")
    <3>1. ~(d <= MaxDepth)  BY <1>1, <1>6
    <3>2. CASE v.kind = "text"
      BY <1>4, <3>1, <3>2 DEF Cleaning!SanitizeValue, Cleaning!Container
    <3>3. CASE v.kind # "text"
      <4>1. Cleaning!Container(v)  BY <1>5, <3>3 DEF Cleaning!Container
      <4>2. QED BY <1>4, <1>6, <3>1, <4>1 DEF Cleaning!SanitizeValue
    <3>4. QED BY <3>2, <3>3
  <2>2. Cleaning!Part(out, step) = Cleaning!Nothing  BY <2>1, NothingInside
  <2>3. QED BY <1>6, <2>2
<1>7. CASE d <= MaxDepth
  <2>1. PICK below : below = clean[MaxDepth - d]  OBVIOUS
  <2>2. out = Cleaning!SanitizeValue(v, policy, h, d, allowed, below)
    <3>1. left # 0 /\ left - 1 = MaxDepth - d  BY <1>1, <1>2, <1>7
    <3>2. QED BY <1>4, <2>1, <3>1
  <2>3. ~(d > MaxDepth)  BY <1>1, <1>7
  <2>4. CASE v.kind = "text"
    <3>1. out = v  BY <2>2, <2>3, <2>4 DEF Cleaning!SanitizeValue, Cleaning!Container
    <3>2. QED BY <2>4, <3>1, NothingInside
  <2>5. CASE v.kind = "list"
    <3>1. out = [kind |-> "list", items |-> [i \in DOMAIN v.items |-> below[v.items[i]][FALSE]]]
      BY <2>2, <2>3, <2>5, <1>7 DEF Cleaning!SanitizeValue, Cleaning!Container, Cleaning!List
    <3>2. CASE step.item \in DOMAIN v.items
      <4>1. w = v.items[step.item] /\ w # Cleaning!Nothing  BY <2>5, <3>2, PartFacts
      <4>2. step.item # 0  BY <2>5, <3>2, DataFacts
      <4>3. Cleaning!Part(out, step) = below[w][FALSE]
        <5>1. PICK items : items = [i \in DOMAIN v.items |-> below[v.items[i]][FALSE]]  OBVIOUS
        <5>2. DOMAIN items = DOMAIN v.items /\ items[step.item] = below[v.items[step.item]][FALSE]
          BY <3>2, <5>1
        <5>3. out = Cleaning!List(items)  BY <3>1, <5>1 DEF Cleaning!List
        <5>4. Cleaning!Part(out, step) = items[step.item]  BY <3>2, <5>2, <5>3, PartOfContainer
        <5>5. QED BY <4>1, <5>2, <5>4
      <4>4. ~StepSecret(step, h, policy) /\ ~StepLeftOut(step, d, h, policy, allowed)
            /\ ToHeaders(step) = FALSE
        BY <4>2 DEF StepSecret, StepLeftOut, ToHeaders
      <4>5. QED BY <2>1, <2>3, <4>1, <4>3, <4>4
    <3>3. CASE step.item \notin DOMAIN v.items
      <4>1. w = Cleaning!Nothing  BY <2>5, <3>3, PartFacts
      <4>2. Cleaning!Part(out, step) = Cleaning!Nothing  BY <3>1, <3>3 DEF Cleaning!Part
      <4>3. QED BY <4>1, <4>2
    <3>4. QED BY <3>2, <3>3
  <2>6. CASE v.kind = "map"
    <3> DEFINE Sensitive(k) == \/ Normal[k] \in policy.fields
                               \/ h /\ Normal[k] \in policy.headers
               kept == {k \in DOMAIN v.items :
                          /\ h => Normal[k] \in policy.allowedHeaders
                          /\ d = 0 => Normal[k] \in allowed
                          /\ ~(Sensitive(k) /\ policy.mode = "drop")}
               Of(k) == IF Sensitive(k) THEN Cleaning!RedactValue(v.items[k], policy)
                        ELSE below[v.items[k]][Normal[k] = "headers"]
    <3>1. out = [kind |-> "map", items |-> [k \in kept |-> Of(k)]]
      <4>1. out = Cleaning!SanitizeMapping(v.items, policy, h, d, allowed, below)
        BY <2>2, <2>3, <2>6, <1>7 DEF Cleaning!SanitizeValue, Cleaning!Container
      <4>2. QED BY <4>1 DEF Cleaning!SanitizeMapping, Cleaning!Map
    <3> HIDE DEF Of, kept
    <3>2. CASE step.item = 0 /\ step.key \in kept
      <4>1. step.key \in DOMAIN v.items  BY <3>2 DEF kept
      <4>2. w = v.items[step.key] /\ w # Cleaning!Nothing  BY <2>6, <3>2, <4>1, PartFacts
      <4>3. Cleaning!Part(out, step) = Of(step.key)  BY <3>1, <3>2 DEF Cleaning!Part
      <4>4. /\ ~StepLeftOut(step, d, h, policy, allowed)
            /\ ~(StepSecret(step, h, policy) /\ policy.mode = "drop")
            /\ StepSecret(step, h, policy) <=> Sensitive(step.key)
            /\ ToHeaders(step) = (Normal[step.key] = "headers")
        BY <3>2 DEF kept, StepLeftOut, StepSecret, ToHeaders
      <4>5. QED BY <2>1, <2>3, <4>2, <4>3, <4>4 DEF Of
    <3>3. CASE ~(step.item = 0 /\ step.key \in kept)
      <4>1. Cleaning!Part(out, step) = Cleaning!Nothing  BY <3>1, <3>3 DEF Cleaning!Part
      <4>2. \/ w = Cleaning!Nothing \/ StepLeftOut(step, d, h, policy, allowed)
            \/ StepSecret(step, h, policy) /\ policy.mode = "drop"
        <5>1. SUFFICES ASSUME w # Cleaning!Nothing
                       PROVE  \/ StepLeftOut(step, d, h, policy, allowed)
                              \/ StepSecret(step, h, policy) /\ policy.mode = "drop"
          OBVIOUS
        <5>2. step.item = 0 /\ step.key \in DOMAIN v.items  BY <2>6, <5>1, PartFacts
        <5>3. step.key \notin kept  BY <3>3, <5>2
        <5>4. QED BY <5>2, <5>3 DEF kept, StepLeftOut, StepSecret
      <4>3. QED BY <4>1, <4>2
    <3>4. QED BY <3>2, <3>3
  <2>7. QED BY <1>5, <2>4, <2>5, <2>6
<1>8. QED BY <1>1, <1>6, <1>7

(* Along a path the output holds what Written says of the path so far; below  *)
(* what is neither gone nor redacted it goes on as the levels left allow.     *)
GoneAt(path, j, w, policy, allowed) ==
  \/ w = Cleaning!Nothing
  \/ \E i \in 1..j : Cleaning!LeftOut(path, i, policy, allowed)
  \/ \E i \in 1..j : Cleaning!IsSecret(path, i, policy) /\ (i < j \/ policy.mode = "drop")
  \/ j > MaxDepth + 1
UnderHeaders(path, j) == j > 0 /\ ToHeaders(path[j])
FoundAt(path, j, w, policy, allowed, clean) ==
  IF GoneAt(path, j, w, policy, allowed) THEN Cleaning!Nothing
  ELSE IF j > 0 /\ Cleaning!IsSecret(path, j, policy) THEN Cleaning!RedactValue(w, policy)
  ELSE clean[MaxDepth + 1 - j][w][UnderHeaders(path, j)]

LEMMA DecidedByStep ==
  ASSUME NEW path, NEW j \in Nat, NEW policy, NEW allowed
  PROVE  /\ Cleaning!LeftOut(path, j + 1, policy, allowed)
              <=> StepLeftOut(path[j + 1], j, UnderHeaders(path, j), policy, allowed)
         /\ Cleaning!IsSecret(path, j + 1, policy)
              <=> StepSecret(path[j + 1], UnderHeaders(path, j), policy)
<1>1. (j + 1) - 1 = j /\ (j + 1 > 1 <=> j > 0) /\ (j + 1 = 1 <=> j = 0)  OBVIOUS
<1>2. Cleaning!InHeaders(path, j + 1) <=> UnderHeaders(path, j)
  BY <1>1 DEF Cleaning!InHeaders, UnderHeaders, ToHeaders
<1> HIDE DEF UnderHeaders
<1>3. QED BY <1>1, <1>2 DEF Cleaning!LeftOut, Cleaning!IsSecret, StepLeftOut, StepSecret

LEMMA GoneNext ==
  ASSUME NEW path, NEW j \in Nat, NEW w, NEW next, NEW policy, NEW allowed,
         w = Cleaning!Nothing => next = Cleaning!Nothing
  PROVE  GoneAt(path, j + 1, next, policy, allowed) <=>
           \/ GoneAt(path, j, w, policy, allowed)
           \/ j > 0 /\ Cleaning!IsSecret(path, j, policy)
           \/ next = Cleaning!Nothing
           \/ Cleaning!LeftOut(path, j + 1, policy, allowed)
           \/ Cleaning!IsSecret(path, j + 1, policy) /\ policy.mode = "drop"
           \/ j > MaxDepth
<1> DEFINE L(i) == Cleaning!LeftOut(path, i, policy, allowed)
           P(i) == Cleaning!IsSecret(path, i, policy)
<1>1. MaxDepth \in Nat  BY DataAssumption
<1> HIDE DEF L, P
<1>2. (\E i \in 1..(j + 1) : L(i)) <=> (\E i \in 1..j : L(i)) \/ L(j + 1)
  <2>1. \A i \in 1..(j + 1) : i \in 1..j \/ i = j + 1  OBVIOUS
  <2>2. j + 1 \in 1..(j + 1) /\ \A i \in 1..j : i \in 1..(j + 1)  OBVIOUS
  <2>3. QED BY <2>1, <2>2
<1>3. (\E i \in 1..(j + 1) : P(i) /\ (i < j + 1 \/ policy.mode = "drop"))
        <=> \/ \E i \in 1..j : P(i) /\ (i < j \/ policy.mode = "drop")
            \/ j > 0 /\ P(j)
            \/ P(j + 1) /\ policy.mode = "drop"
  <2>1. \A i \in 1..(j + 1) : (i \in 1..j /\ i < j) \/ (i = j /\ j > 0) \/ i = j + 1  OBVIOUS
  <2>2. j + 1 \in 1..(j + 1) /\ ~(j + 1 < j + 1) /\ (j > 0 => j \in 1..(j + 1) /\ j < j + 1)  OBVIOUS
  <2>3. \A i \in 1..j : i \in 1..(j + 1) /\ i < j + 1  OBVIOUS
  <2>4. QED BY <2>1, <2>2, <2>3
<1>4. j + 1 > MaxDepth + 1 <=> j > MaxDepth  BY <1>1
<1>5. j > MaxDepth + 1 => j > MaxDepth  BY <1>1
<1>6. QED BY <1>2, <1>3, <1>4, <1>5 DEF GoneAt, L, P

LEMMA NextFound ==
  ASSUME NEW path \in Seq(Cleaning!Steps), NEW j \in Nat, j + 1 \in 1..Len(path),
         NEW w \in Data \cup {Cleaning!Nothing}, NEW policy, NEW allowed,
         NEW clean, clean = Cleaning!Sanitized(policy, allowed),
         NEW out, out = FoundAt(path, j, w, policy, allowed, clean)
  PROVE  Cleaning!Part(out, path[j + 1]) =
           FoundAt(path, j + 1, Cleaning!Part(w, path[j + 1]), policy, allowed, clean)
<1>1. PICK step \in Cleaning!Steps : step = path[j + 1]  BY ElementOfSeq
<1>2. PICK next : next = Cleaning!Part(w, step)  OBVIOUS
<1>3. w = Cleaning!Nothing => next = Cleaning!Nothing  BY <1>2, NothingInside
<1>4. MaxDepth \in Nat  BY DataAssumption
<1>5. CASE GoneAt(path, j, w, policy, allowed)
  <2>1. GoneAt(path, j + 1, next, policy, allowed)  BY <1>3, <1>5, GoneNext
  <2>2. out = Cleaning!Nothing  BY <1>5 DEF FoundAt
  <2>3. Cleaning!Part(out, step) = Cleaning!Nothing  BY <2>2, NothingInside
  <2>4. QED BY <1>1, <1>2, <2>1, <2>3 DEF FoundAt
<1>6. CASE ~GoneAt(path, j, w, policy, allowed) /\ j > 0 /\ Cleaning!IsSecret(path, j, policy)
  <2>1. GoneAt(path, j + 1, next, policy, allowed)  BY <1>3, <1>6, GoneNext
  <2>2. out = Cleaning!RedactValue(w, policy)  BY <1>6 DEF FoundAt
  <2>3. Cleaning!Part(out, step) = Cleaning!Nothing  BY <2>2, NothingInside
  <2>4. QED BY <1>1, <1>2, <2>1, <2>3 DEF FoundAt
<1>7. CASE ~GoneAt(path, j, w, policy, allowed) /\ ~(j > 0 /\ Cleaning!IsSecret(path, j, policy))
  <2>1. w \in Data /\ j \in 0..(MaxDepth + 1)  BY <1>4, <1>7 DEF GoneAt
  <2>2. PICK h \in BOOLEAN : h = UnderHeaders(path, j)  BY DEF UnderHeaders, ToHeaders
  <2>3. out = clean[MaxDepth + 1 - j][w][h]  BY <1>7, <2>2 DEF FoundAt
  <2>4. Cleaning!Part(out, step) =
          IF \/ next = Cleaning!Nothing \/ j > MaxDepth \/ StepLeftOut(step, j, h, policy, allowed)
             \/ StepSecret(step, h, policy) /\ policy.mode = "drop"
          THEN Cleaning!Nothing
          ELSE IF StepSecret(step, h, policy) THEN Cleaning!RedactValue(next, policy)
          ELSE clean[MaxDepth - j][next][ToHeaders(step)]
    BY <1>2, <2>1, <2>3, StepOfClean
  <2>5. /\ Cleaning!LeftOut(path, j + 1, policy, allowed) <=> StepLeftOut(step, j, h, policy, allowed)
        /\ Cleaning!IsSecret(path, j + 1, policy) <=> StepSecret(step, h, policy)
    BY <1>1, <2>2, DecidedByStep
  <2>6. GoneAt(path, j + 1, next, policy, allowed) <=>
          \/ next = Cleaning!Nothing \/ j > MaxDepth \/ StepLeftOut(step, j, h, policy, allowed)
          \/ StepSecret(step, h, policy) /\ policy.mode = "drop"
    BY <1>3, <1>7, <2>5, GoneNext
  <2>7. /\ MaxDepth + 1 - (j + 1) = MaxDepth - j /\ j + 1 > 0
        /\ UnderHeaders(path, j + 1) = ToHeaders(step)
    BY <1>1, <1>4 DEF UnderHeaders, ToHeaders
  <2>8. FoundAt(path, j + 1, next, policy, allowed, clean) =
          IF GoneAt(path, j + 1, next, policy, allowed) THEN Cleaning!Nothing
          ELSE IF Cleaning!IsSecret(path, j + 1, policy) THEN Cleaning!RedactValue(next, policy)
          ELSE clean[MaxDepth - j][next][ToHeaders(step)]
    BY <2>7 DEF FoundAt
  <2>9. QED BY <1>1, <1>2, <2>4, <2>5, <2>6, <2>8
<1>8. QED BY <1>5, <1>6, <1>7

IsWhole(out, v, clean) == out = clean[MaxDepth + 1][v][FALSE]

LEMMA FoundAtEnd ==
  ASSUME NEW v \in Data, NEW path \in Seq(Cleaning!Steps), NEW policy, NEW allowed,
         NEW clean, clean = Cleaning!Sanitized(policy, allowed),
         NEW out, IsWhole(out, v, clean)
  PROVE  /\ Cleaning!At(v, path) \in Data \cup {Cleaning!Nothing}
         /\ Cleaning!At(out, path) =
              FoundAt(path, Len(path), Cleaning!At(v, path), policy, allowed, clean)
<1>1. PICK n \in Nat : n = Len(path)  BY LenProperties
<1>2. MaxDepth \in Nat  BY DataAssumption
<1>3. PICK at : at = Cleaning!Trail(v, path)  OBVIOUS
<1>4. PICK to : to = Cleaning!Trail(out, path)  OBVIOUS
<1>5. at[0] = v /\ \A i \in 1..n : at[i] = Cleaning!Part(at[i - 1], path[i])
  BY <1>1, <1>3, TrailFacts
<1>6. to[0] = out /\ \A i \in 1..n : to[i] = Cleaning!Part(to[i - 1], path[i])
  BY <1>1, <1>4, TrailFacts
<1> DEFINE Good(j) == /\ at[j] \in Data \cup {Cleaning!Nothing}
                      /\ to[j] = FoundAt(path, j, at[j], policy, allowed, clean)
           S == {j \in Nat : j <= n => Good(j)}
<1>7. Good(0)
  <2>1. v # Cleaning!Nothing  BY DataFacts
  <2>2. ~GoneAt(path, 0, v, policy, allowed)  BY <1>2, <2>1 DEF GoneAt
  <2>3. UnderHeaders(path, 0) = FALSE  BY DEF UnderHeaders
  <2>4. MaxDepth + 1 - 0 = MaxDepth + 1  BY <1>2
  <2>5. ~(0 > 0)  OBVIOUS
  <2>6. FoundAt(path, 0, v, policy, allowed, clean) = out
    BY <2>2, <2>3, <2>4, <2>5, Zenon DEF FoundAt, IsWhole
  <2>7. QED BY <1>5, <1>6, <2>6
<1>8. ASSUME NEW j \in Nat, j + 1 <= n, Good(j) PROVE Good(j + 1)
  <2>1. j + 1 \in 1..n /\ (j + 1) - 1 = j  BY <1>8
  <2>2. PICK w \in Data \cup {Cleaning!Nothing} : w = at[j]  BY <1>8
  <2>3. PICK o : o = to[j]  OBVIOUS
  <2>4. o = FoundAt(path, j, w, policy, allowed, clean)  BY <1>8, <2>2, <2>3
  <2>5. at[j + 1] = Cleaning!Part(w, path[j + 1]) /\ to[j + 1] = Cleaning!Part(o, path[j + 1])
    BY <1>5, <1>6, <2>1, <2>2, <2>3
  <2>6. Cleaning!Part(o, path[j + 1]) =
          FoundAt(path, j + 1, Cleaning!Part(w, path[j + 1]), policy, allowed, clean)
    <3>1. j + 1 \in 1..Len(path)  BY <1>1, <2>1
    <3> HIDE DEF Good, S
    <3>2. QED BY <2>4, <3>1, NextFound
  <2>7. at[j + 1] \in Data \cup {Cleaning!Nothing}
    <3>1. PICK step \in Cleaning!Steps : step = path[j + 1]  BY <1>1, <2>1, ElementOfSeq
    <3>2. CASE w \in Data  BY <2>5, <3>1, <3>2, PartFacts
    <3>3. CASE w = Cleaning!Nothing  BY <2>5, <3>3, NothingInside
    <3>4. QED BY <3>2, <3>3
  <2>8. QED BY <2>5, <2>6, <2>7
<1>9. Good(n)
  <2> HIDE DEF Good
  <2>1. 0 \in S  BY <1>7
  <2>2. ASSUME NEW j \in Nat, j \in S PROVE j + 1 \in S  BY <1>8, <2>2
  <2> HIDE DEF S
  <2>3. n \in S  BY <2>1, <2>2, Induction
  <2>4. QED BY <2>3 DEF S
<1>10. QED BY <1>1, <1>3, <1>4, <1>9 DEF Cleaning!At

LEMMA ShownOfClean ==
  ASSUME NEW w \in Data, NEW d \in 0..(MaxDepth + 1), NEW h \in BOOLEAN, NEW policy, NEW allowed,
         NEW clean, clean = Cleaning!Sanitized(policy, allowed),
         NEW out, out = clean[MaxDepth + 1 - d][w][h]
  PROVE  Cleaning!Shown(out) = IF d = MaxDepth + 1 /\ Cleaning!Container(w) THEN Cleaning!Mask
                               ELSE Cleaning!Shown(w)
<1>1. MaxDepth \in Nat  BY DataAssumption
<1>2. PICK left \in 0..(MaxDepth + 1) : left = MaxDepth + 1 - d  BY <1>1
<1>3. MaxDepth + 1 - left = d  BY <1>1, <1>2
<1>4. PICK below : below = IF left = 0 THEN <<>> ELSE clean[left - 1]  OBVIOUS
<1>5. out = Cleaning!SanitizeValue(w, policy, h, d, allowed, below)
  BY <1>2, <1>3, <1>4, CleanFacts
<1>6. w.kind \in {"map", "list", "text"}  BY DataFacts
<1>7. (d > MaxDepth <=> d = MaxDepth + 1) /\ (d <= MaxDepth <=> ~(d > MaxDepth))  BY <1>1
<1>8. CASE w.kind = "text"
  <2>1. ~Cleaning!Container(w)  BY <1>8 DEF Cleaning!Container
  <2>2. out = w  BY <1>5, <1>8, <2>1 DEF Cleaning!SanitizeValue
  <2>3. QED BY <2>1, <2>2
<1>9. CASE w.kind # "text" /\ d > MaxDepth
  <2>1. Cleaning!Container(w)  BY <1>6, <1>9 DEF Cleaning!Container
  <2>2. out = Cleaning!Mask  BY <1>5, <1>7, <1>9, <2>1 DEF Cleaning!SanitizeValue
  <2>3. QED BY <1>7, <1>9, <2>1, <2>2 DEF Cleaning!Shown, Cleaning!Mask, Cleaning!Container
<1>10. CASE w.kind # "text" /\ ~(d > MaxDepth)
  <2>1. out.kind = w.kind
    <3>1. CASE w.kind = "map"
      <4>1. out = Cleaning!SanitizeMapping(w.items, policy, h, d, allowed, below)
        BY <1>5, <1>7, <1>10, <3>1 DEF Cleaning!SanitizeValue, Cleaning!Container
      <4>2. QED BY <3>1, <4>1 DEF Cleaning!SanitizeMapping, Cleaning!Map
    <3>2. CASE w.kind = "list"
      <4>1. out = Cleaning!List([i \in DOMAIN w.items |-> below[w.items[i]][FALSE]])
        BY <1>5, <1>7, <1>10, <3>2 DEF Cleaning!SanitizeValue, Cleaning!Container
      <4>2. QED BY <3>2, <4>1 DEF Cleaning!List
    <3>3. QED BY <1>6, <1>10, <3>1, <3>2
  <2>2. QED BY <1>6, <1>7, <1>10, <2>1 DEF Cleaning!Shown, Cleaning!Container
<1>11. QED BY <1>8, <1>9, <1>10

(* What Written says of a path is what the output holds at its end.         *)
LEMMA CleanIsWritten ==
  ASSUME NEW v \in Data, NEW paths \in SUBSET Seq(Cleaning!Steps), NEW policy, NEW allowed,
         NEW out, IsWhole(out, v, Cleaning!Sanitized(policy, allowed))
  PROVE  Cleaning!AsWritten(out, v, paths, policy, allowed)
<1>1. SUFFICES ASSUME NEW path \in paths
               PROVE  Cleaning!Shown(Cleaning!At(out, path)) =
                        Cleaning!Shown(Cleaning!Written(v, path, policy, allowed))
  BY DEF Cleaning!AsWritten
<1>2. path \in Seq(Cleaning!Steps)  OBVIOUS
<1>3. PICK clean : clean = Cleaning!Sanitized(policy, allowed)  OBVIOUS
<1>4. PICK n \in Nat : n = Len(path)  BY <1>2, LenProperties
<1>5. PICK w : w = Cleaning!At(v, path)  OBVIOUS
<1>6. w \in Data \cup {Cleaning!Nothing}
      /\ Cleaning!At(out, path) = FoundAt(path, n, w, policy, allowed, clean)
  <2>1. IsWhole(out, v, clean)  BY <1>3 DEF IsWhole
  <2>2. /\ Cleaning!At(v, path) \in Data \cup {Cleaning!Nothing}
        /\ Cleaning!At(out, path) =
             FoundAt(path, Len(path), Cleaning!At(v, path), policy, allowed, clean)
    BY <1>2, <1>3, <2>1, FoundAtEnd
  <2>3. QED BY <1>4, <1>5, <2>2
<1>7. Cleaning!Written(v, path, policy, allowed) =
        IF GoneAt(path, n, w, policy, allowed) THEN Cleaning!Nothing
        ELSE IF n > 0 /\ Cleaning!IsSecret(path, n, policy) THEN Cleaning!RedactValue(w, policy)
        ELSE IF n = MaxDepth + 1 /\ Cleaning!Container(w) THEN Cleaning!Mask
        ELSE w
  BY <1>4, <1>5 DEF Cleaning!Written, GoneAt
<1>8. CASE GoneAt(path, n, w, policy, allowed) \/ (n > 0 /\ Cleaning!IsSecret(path, n, policy))
  BY <1>6, <1>7, <1>8 DEF FoundAt
<1>9. CASE ~GoneAt(path, n, w, policy, allowed) /\ ~(n > 0 /\ Cleaning!IsSecret(path, n, policy))
  <2>1. w \in Data /\ n \in 0..(MaxDepth + 1)
    <3>1. MaxDepth \in Nat  BY DataAssumption
    <3>2. QED BY <1>6, <1>9, <3>1 DEF GoneAt
  <2>2. PICK h \in BOOLEAN : h = UnderHeaders(path, n)  BY DEF UnderHeaders, ToHeaders
  <2>3. PICK o : o = clean[MaxDepth + 1 - n][w][h]  OBVIOUS
  <2>4. Cleaning!At(out, path) = o  BY <1>6, <1>9, <2>2, <2>3 DEF FoundAt
  <2>5. Cleaning!Shown(o) = IF n = MaxDepth + 1 /\ Cleaning!Container(w) THEN Cleaning!Mask
                            ELSE Cleaning!Shown(w)
    BY <1>3, <2>1, <2>3, ShownOfClean
  <2>6. Cleaning!Shown(Cleaning!Mask) = Cleaning!Mask
    BY DEF Cleaning!Shown, Cleaning!Mask, Cleaning!Container
  <2>7. QED BY <1>7, <1>9, <2>4, <2>5, <2>6
<1>10. QED BY <1>8, <1>9

LEMMA SanitizeIsWhole ==
  ASSUME NEW v \in Data, v.kind = "map", NEW policy, NEW allowed
  PROVE  /\ IsWhole(Cleaning!Sanitize(v.items, policy, allowed), v, Cleaning!Sanitized(policy, allowed))
         /\ \E below : Cleaning!Sanitize(v.items, policy, allowed) =
                         Cleaning!SanitizeMapping(v.items, policy, FALSE, 0, allowed, below)
<1>1. PICK clean : clean = Cleaning!Sanitized(policy, allowed)  OBVIOUS
<1>2. MaxDepth \in Nat  BY DataAssumption
<1>3. PICK left \in 0..(MaxDepth + 1) : left = MaxDepth + 1  BY <1>2
<1>4. left # 0 /\ left - 1 = MaxDepth /\ MaxDepth + 1 - left = 0 /\ ~(0 > MaxDepth) /\ 0 <= MaxDepth
  BY <1>2, <1>3
<1>5. clean[left][v][FALSE] =
        Cleaning!SanitizeValue(v, policy, FALSE, MaxDepth + 1 - left, allowed,
                               IF left = 0 THEN <<>> ELSE clean[left - 1])
  <2>1. ASSUME NEW d \in 0..(MaxDepth + 1), NEW u \in Data, NEW h \in BOOLEAN
        PROVE  clean[d][u][h] = Cleaning!SanitizeValue(u, policy, h, MaxDepth + 1 - d, allowed,
                                                       IF d = 0 THEN <<>> ELSE clean[d - 1])
    BY <1>1, CleanFacts
  <2>2. FALSE \in BOOLEAN  OBVIOUS
  <2> HIDE <1>1
  <2>3. QED BY <2>1, <2>2
<1>6. clean[left][v][FALSE] = Cleaning!SanitizeValue(v, policy, FALSE, 0, allowed, clean[MaxDepth])
  BY <1>4, <1>5
<1>7. clean[left][v][FALSE] = Cleaning!SanitizeMapping(v.items, policy, FALSE, 0, allowed, clean[MaxDepth])
  BY <1>4, <1>6 DEF Cleaning!SanitizeValue, Cleaning!Container
<1>8. QED BY <1>1, <1>3, <1>7 DEF IsWhole, Cleaning!Sanitize

LEMMA EventIsWritten ==
  ASSUME NEW v \in Data, v.kind = "map", NEW policy, NEW paths \in SUBSET Seq(Cleaning!Steps)
  PROVE  Cleaning!AsWritten(Cleaning!SanitizeEvent(v, policy), v, paths, policy, policy.allowedEvents)
<1>1. IsWhole(Cleaning!SanitizeEvent(v, policy), v, Cleaning!Sanitized(policy, policy.allowedEvents))
  BY SanitizeIsWhole DEF Cleaning!SanitizeEvent
<1>2. QED BY <1>1, CleanIsWritten

(* Two values that hold the same under the first step of a path hold the    *)
(* same at its end.                                                          *)
LEMMA TrailsMeet ==
  ASSUME NEW a, NEW b, NEW path \in Seq(Cleaning!Steps), path # <<>>,
         Cleaning!Part(a, path[1]) = Cleaning!Part(b, path[1])
  PROVE  Cleaning!At(a, path) = Cleaning!At(b, path)
<1>1. PICK n \in Nat : n = Len(path)  BY LenProperties
<1>2. n > 0  BY <1>1, EmptySeq
<1>3. PICK s : s = Cleaning!Trail(a, path)  OBVIOUS
<1>4. PICK t : t = Cleaning!Trail(b, path)  OBVIOUS
<1>5. s[0] = a /\ \A i \in 1..n : s[i] = Cleaning!Part(s[i - 1], path[i])  BY <1>1, <1>3, TrailFacts
<1>6. t[0] = b /\ \A i \in 1..n : t[i] = Cleaning!Part(t[i - 1], path[i])  BY <1>1, <1>4, TrailFacts
<1> DEFINE S == {j \in Nat : j + 1 <= n => s[j + 1] = t[j + 1]}
<1>7. 0 \in S
  <2>1. 1 \in 1..n /\ 1 - 1 = 0  BY <1>2
  <2>2. s[1] = Cleaning!Part(a, path[1]) /\ t[1] = Cleaning!Part(b, path[1])  BY <1>5, <1>6, <2>1
  <2>3. QED BY <2>2
<1>8. ASSUME NEW j \in Nat, j \in S PROVE j + 1 \in S
  <2>1. SUFFICES ASSUME (j + 1) + 1 <= n PROVE s[(j + 1) + 1] = t[(j + 1) + 1]
    OBVIOUS
  <2>2. s[j + 1] = t[j + 1]  BY <1>8, <2>1
  <2>3. (j + 1) + 1 \in 1..n /\ ((j + 1) + 1) - 1 = j + 1  BY <2>1
  <2> HIDE DEF S
  <2>4. QED BY <1>5, <1>6, <2>2, <2>3
<1>9. n - 1 \in S
  <2>1. n - 1 \in Nat  BY <1>2
  <2> HIDE DEF S
  <2>2. QED BY <1>7, <1>8, <2>1, Induction
<1>10. s[n] = t[n]
  <2>1. (n - 1) + 1 = n  OBVIOUS
  <2>2. QED BY <1>9, <2>1
<1>11. QED BY <1>1, <1>3, <1>4, <1>10 DEF Cleaning!At

LEMMA EndOfNone ==
  ASSUME NEW v
  PROVE  Cleaning!At(v, <<>>) = v
<1>1. PICK path \in Seq(Cleaning!Steps) : path = <<>>  BY EmptySeq
<1>2. PICK at : at = Cleaning!Trail(v, path)  OBVIOUS
<1>3. at[0] = v  BY <1>2, TrailFacts
<1>4. Len(path) = 0  BY <1>1, EmptySeq
<1>5. QED BY <1>1, <1>2, <1>3, <1>4 DEF Cleaning!At

LEMMA RecordIsWritten ==
  ASSUME NEW v \in Data, v.kind = "map", NEW policy, NEW paths \in SUBSET Seq(Cleaning!Steps)
  PROVE  Cleaning!RecordAsWritten(Cleaning!SanitizeRecord(v, policy), v, paths, policy)
<1>1. PICK clean : clean = Cleaning!Sanitize(v.items, policy, Cleaning!Names)  OBVIOUS
<1>2. PICK out : out = Cleaning!SanitizeRecord(v, policy)  OBVIOUS
<1>3. IsWhole(clean, v, Cleaning!Sanitized(policy, Cleaning!Names))  BY <1>1, SanitizeIsWhole
<1>4. PICK below : clean = Cleaning!SanitizeMapping(v.items, policy, FALSE, 0, Cleaning!Names, below)
  BY <1>1, SanitizeIsWhole
<1>5. PICK items : /\ clean = Cleaning!Map(items) /\ items = [k \in DOMAIN items |-> items[k]]
                   /\ "event" \in DOMAIN items <=>
                        /\ "event" \in DOMAIN v.items
                        /\ ~(policy.mode = "drop" /\ Normal["event"] \in policy.fields)
  <2> DEFINE Sensitive(k) == \/ Normal[k] \in policy.fields
                             \/ FALSE /\ Normal[k] \in policy.headers
             kept == {k \in DOMAIN v.items :
                        /\ FALSE => Normal[k] \in policy.allowedHeaders
                        /\ 0 = 0 => Normal[k] \in Cleaning!Names
                        /\ ~(Sensitive(k) /\ policy.mode = "drop")}
  <2>1. PICK items : items = [k \in kept |-> IF Sensitive(k) THEN Cleaning!RedactValue(v.items[k], policy)
                                             ELSE below[v.items[k]][Normal[k] = "headers"]]
    OBVIOUS
  <2>2. clean = Cleaning!Map(items)  BY <1>4, <2>1 DEF Cleaning!SanitizeMapping
  <2>3. DOMAIN items = kept /\ items = [k \in DOMAIN items |-> items[k]]  BY <2>1
  <2>4. "event" \in DOMAIN v.items => Normal["event"] \in Cleaning!Names
    BY DataAssumption DEF Cleaning!Names
  <2>5. "event" \in kept <=> /\ "event" \in DOMAIN v.items
                             /\ ~(policy.mode = "drop" /\ Normal["event"] \in policy.fields)
    BY <2>4
  <2> HIDE DEF kept
  <2>6. QED BY <2>2, <2>3, <2>5
<1>6. clean.items = items  BY <1>5 DEF Cleaning!Map
<1>7. Cleaning!EventApart(v, policy) <=>
        /\ policy.allowedEvents # Cleaning!Names
        /\ "event" \in DOMAIN v.items /\ v.items["event"].kind = "map"
        /\ "event" \in DOMAIN clean.items
  BY <1>5, <1>6 DEF Cleaning!EventApart
<1>8. \A some \in SUBSET Seq(Cleaning!Steps) : Cleaning!AsWritten(clean, v, some, policy, Cleaning!Names)
  BY <1>3, CleanIsWritten
<1> DEFINE inEvent == {path \in paths : /\ Cleaning!EventApart(v, policy) /\ path # <<>>
                                        /\ path[1] = Cleaning!Key("event")}
<1>9. CASE ~Cleaning!EventApart(v, policy)
  <2>1. out = clean  BY <1>1, <1>2, <1>7, <1>9 DEF Cleaning!SanitizeRecord
  <2>2. inEvent = {}  BY <1>9
  <2>3. Cleaning!AsWritten(out, v, paths \ inEvent, policy, Cleaning!Names)  BY <1>8, <2>1
  <2>4. {Tail(path) : path \in inEvent} = {}  BY <2>2
  <2> HIDE DEF inEvent
  <2>5. Cleaning!AsWritten(out.items["event"], v.items["event"], {Tail(path) : path \in inEvent},
                           policy, policy.allowedEvents)
    BY <2>4 DEF Cleaning!AsWritten
  <2>6. QED BY <1>2, <2>3, <2>5 DEF Cleaning!RecordAsWritten, inEvent
<1>10. CASE Cleaning!EventApart(v, policy)
  <2>1. PICK event : event = v.items["event"]  OBVIOUS
  <2>2. event \in Data /\ event.kind = "map" /\ "event" \in DOMAIN items
    BY <1>6, <1>7, <1>10, <2>1, DataFacts
  <2>3. PICK clear : clear = Cleaning!SanitizeEvent(event, policy)  OBVIOUS
  <2>4. PICK changed : changed = [items EXCEPT !["event"] = clear]  OBVIOUS
  <2>5. out = Cleaning!Map(changed)
    BY <1>1, <1>2, <1>6, <1>7, <1>10, <2>1, <2>3, <2>4 DEF Cleaning!SanitizeRecord
  <2>6. /\ DOMAIN changed = DOMAIN items /\ changed["event"] = clear
        /\ \A k \in DOMAIN items : k # "event" => changed[k] = items[k]
    BY <2>2, <2>4
  <2>7. out.items["event"] = clear  BY <2>5, <2>6 DEF Cleaning!Map
  <2>8. {Tail(path) : path \in inEvent} \in SUBSET Seq(Cleaning!Steps)
    <3>1. ASSUME NEW path \in inEvent PROVE Tail(path) \in Seq(Cleaning!Steps)
      <4>1. path \in Seq(Cleaning!Steps) /\ path # <<>>  OBVIOUS
      <4>2. QED BY <4>1, HeadTailProperties
    <3>2. QED BY <3>1
  <2>9. Cleaning!AsWritten(clear, event, {Tail(path) : path \in inEvent}, policy, policy.allowedEvents)
    <3> HIDE DEF inEvent
    <3>1. QED BY <2>2, <2>3, <2>8, EventIsWritten
  <2>10. Cleaning!AsWritten(out, v, paths \ inEvent, policy, Cleaning!Names)
    <3>1. SUFFICES ASSUME NEW path \in paths \ inEvent
                   PROVE  Cleaning!Shown(Cleaning!At(out, path)) = Cleaning!Shown(Cleaning!At(clean, path))
      <4>1. Cleaning!AsWritten(clean, v, paths \ inEvent, policy, Cleaning!Names)  BY <1>8
      <4> HIDE DEF inEvent
      <4>2. QED BY <3>1, <4>1 DEF Cleaning!AsWritten
    <3>2. CASE path = <<>>
      <4>1. Cleaning!At(out, path) = out /\ Cleaning!At(clean, path) = clean  BY <3>2, EndOfNone
      <4>2. out.kind = "map" /\ clean.kind = "map"  BY <1>5, <2>5 DEF Cleaning!Map
      <4>3. QED BY <4>1, <4>2 DEF Cleaning!Shown, Cleaning!Container
    <3>3. CASE path # <<>>
      <4>1. path \in Seq(Cleaning!Steps) /\ path[1] # Cleaning!Key("event")  BY <1>10, <3>3
      <4>2. PICK step : step = path[1]  OBVIOUS
      <4>3. step \in Cleaning!Steps
        <5>1. 1 \in 1..Len(path)  BY <3>3, <4>1, EmptySeq, LenProperties
        <5>2. QED BY <4>1, <4>2, <5>1, ElementOfSeq
      <4>4. step.item = 0 => step.key # "event"
        BY <4>1, <4>2, <4>3 DEF Cleaning!Steps, Cleaning!Key
      <4>5. Cleaning!Part(out, step) = Cleaning!Part(clean, step)
        <5>1. Cleaning!Part(out, step) =
                IF step.item = 0 /\ step.key \in DOMAIN changed THEN changed[step.key] ELSE Cleaning!Nothing
          BY <2>5, PartOfContainer
        <5>2. Cleaning!Part(clean, step) =
                IF step.item = 0 /\ step.key \in DOMAIN items THEN items[step.key] ELSE Cleaning!Nothing
          BY <1>5, PartOfContainer
        <5>3. QED BY <2>6, <4>4, <5>1, <5>2
      <4>6. Cleaning!At(out, path) = Cleaning!At(clean, path)
        BY <3>3, <4>1, <4>2, <4>5, TrailsMeet
      <4>7. QED BY <4>6
    <3>4. QED BY <3>2, <3>3
  <2> HIDE DEF inEvent
  <2>11. QED BY <1>2, <2>1, <2>7, <2>9, <2>10 DEF Cleaning!RecordAsWritten, inEvent
<1>11. QED BY <1>9, <1>10

(* The capture keeps as many bytes as fit, however the body is cut into     *)
(* chunks.                                                                   *)
LEMMA TotalFacts ==
  ASSUME NEW chunks \in Seq(Nat), NEW total, total = Cleaning!Total(chunks)
  PROVE  \E sum \in [0..Len(chunks) -> Nat] :
           /\ sum[0] = 0 /\ sum[Len(chunks)] = total
           /\ \A i \in 1..Len(chunks) : sum[i] = sum[i - 1] + chunks[i]
<1>1. PICK n \in Nat : n = Len(chunks)  BY LenProperties
<1>2. \A i \in 1..n : chunks[i] \in Nat  BY <1>1, ElementOfSeq
<1> DEFINE Step(i, x) == x + chunks[i]
           Solves(f) == f = [i \in 0..n |-> IF i = 0 THEN 0 ELSE Step(i, f[i - 1])]
           Good(f) == f \in [0..n -> Nat] /\ Solves(f)
<1>3. PICK f : Good(f)
  <2>1. PICK step : step = [p \in (1..n) \X Nat |-> Step(p[1], p[2])]  OBVIOUS
  <2>2. \A i \in 1..n, x \in Nat : Step(i, x) \in Nat  BY <1>2
  <2> HIDE DEF Step
  <2>3. \A i \in 1..n, x \in Nat : step[<<i, x>>] = Step(i, x)  BY <2>1
  <2>4. step \in [(1..n) \X Nat -> Nat]  BY <2>1, <2>2
  <2>5. 0 \in Nat  OBVIOUS
  <2>6. PICK f : Iterates(f, Nat, 0, n, step)  BY <2>4, <2>5, Iteration
  <2>7. ASSUME NEW i \in 0..n, i # 0 PROVE step[<<i, f[i - 1]>>] = Step(i, f[i - 1])
    <3>1. i \in 1..n /\ i - 1 \in 0..n  BY <2>7
    <3>2. f[i - 1] \in Nat  BY <2>6, <3>1 DEF Iterates
    <3>3. QED BY <2>3, <3>1, <3>2
  <2>8. Good(f)  BY <2>6, <2>7 DEF Iterates
  <2>9. QED BY <2>8
<1>4. PICK sum : sum = CHOOSE h : Solves(h)  OBVIOUS
<1>5. Solves(sum)  BY <1>3, <1>4
<1>6. total = sum[n]  BY <1>1, <1>4 DEF Cleaning!Total
<1>7. sum[0] = 0 /\ \A i \in 1..n : sum[i] = sum[i - 1] + chunks[i]  BY <1>5
<1>8. sum \in [0..n -> Nat]
  <2> DEFINE S == {i \in Nat : i <= n => sum[i] \in Nat}
  <2>1. 0 \in S  BY <1>7
  <2>2. ASSUME NEW i \in Nat, i \in S PROVE i + 1 \in S
    <3>1. SUFFICES ASSUME i + 1 <= n PROVE sum[i + 1] \in Nat
      OBVIOUS
    <3>2. sum[i] \in Nat /\ i + 1 \in 1..n /\ (i + 1) - 1 = i  BY <2>2, <3>1
    <3> HIDE DEF S
    <3>3. QED BY <1>2, <1>7, <3>2
  <2> HIDE DEF S
  <2>3. \A i \in Nat : i \in S  BY <2>1, <2>2, Induction
  <2>4. \A i \in 0..n : sum[i] \in Nat  BY <2>3 DEF S
  <2>5. QED BY <1>5, <2>4
<1>9. QED BY <1>1, <1>6, <1>7, <1>8

LEMMA CapturedFacts ==
  ASSUME NEW chunks \in Seq(Nat), NEW total, total = Cleaning!Total(chunks), NEW max \in 0..total
  PROVE  Cleaning!Captured(chunks, max) = max
<1>1. PICK n \in Nat : n = Len(chunks)  BY LenProperties
<1>2. \A i \in 1..n : chunks[i] \in Nat  BY <1>1, ElementOfSeq
<1>3. PICK sum \in [0..n -> Nat] : /\ sum[0] = 0 /\ sum[n] = total
                                   /\ \A i \in 1..n : sum[i] = sum[i - 1] + chunks[i]
  BY <1>1, TotalFacts
<1>4. max \in Nat /\ max <= total
  <2>1. total \in Nat  BY <1>3
  <2>2. QED BY <2>1
<1> DEFINE Step(i, x) == x + IF chunks[i] <= max - x THEN chunks[i] ELSE max - x
           Solves(f) == f = [i \in 0..n |-> IF i = 0 THEN 0 ELSE Step(i, f[i - 1])]
<1>5. PICK f : Solves(f)
  <2>1. PICK step : step = [p \in (1..n) \X (0..max) |-> Step(p[1], p[2])]  OBVIOUS
  <2>2. ASSUME NEW i \in 1..n, NEW x \in 0..max PROVE Step(i, x) \in 0..max
    <3>1. PICK b \in Nat : b = chunks[i]  BY <1>2
    <3>2. Step(i, x) = x + IF b <= max - x THEN b ELSE max - x  BY <3>1
    <3> HIDE DEF Step
    <3>3. x \in Nat /\ x <= max  BY <1>4
    <3>4. CASE b <= max - x   BY <1>4, <3>2, <3>3, <3>4
    <3>5. CASE b > max - x
      <4>1. ~(b <= max - x)  BY <1>4, <3>3, <3>5
      <4>2. QED BY <1>4, <3>2, <3>3, <4>1
    <3>6. QED BY <1>4, <3>3, <3>4, <3>5
  <2> HIDE DEF Step
  <2>3. \A i \in 1..n, x \in 0..max : step[<<i, x>>] = Step(i, x)  BY <2>1
  <2>4. step \in [(1..n) \X (0..max) -> 0..max]  BY <2>1, <2>2
  <2>5. 0 \in 0..max  BY <1>4
  <2>6. PICK f : Iterates(f, 0..max, 0, n, step)  BY <2>4, <2>5, Iteration
  <2>7. ASSUME NEW i \in 0..n, i # 0 PROVE step[<<i, f[i - 1]>>] = Step(i, f[i - 1])
    <3>1. i \in 1..n /\ i - 1 \in 0..n  BY <2>7
    <3>2. f[i - 1] \in 0..max  BY <2>6, <3>1 DEF Iterates
    <3>3. QED BY <2>3, <3>1, <3>2
  <2>8. Solves(f)  BY <2>6, <2>7 DEF Iterates
  <2>9. QED BY <2>8
<1>6. PICK buffered : buffered = CHOOSE h : Solves(h)  OBVIOUS
<1>7. Solves(buffered)  BY <1>5, <1>6
<1>8. Cleaning!Captured(chunks, max) = buffered[n]  BY <1>1, <1>6 DEF Cleaning!Captured
<1>9. buffered[0] = 0 /\ \A i \in 1..n : buffered[i] = Step(i, buffered[i - 1])  BY <1>7
<1> DEFINE S == {i \in Nat : i <= n => buffered[i] = IF sum[i] <= max THEN sum[i] ELSE max}
<1>10. 0 \in S  BY <1>3, <1>4, <1>9
<1>11. ASSUME NEW i \in Nat, i \in S PROVE i + 1 \in S
  <2>1. SUFFICES ASSUME i + 1 <= n
                 PROVE  buffered[i + 1] = IF sum[i + 1] <= max THEN sum[i + 1] ELSE max
    OBVIOUS
  <2>2. i + 1 \in 1..n /\ (i + 1) - 1 = i /\ i \in 0..n  BY <2>1
  <2>3. buffered[i] = IF sum[i] <= max THEN sum[i] ELSE max  BY <1>11, <2>1
  <2>4. sum[i + 1] = sum[i] + chunks[i + 1] /\ sum[i] \in Nat /\ chunks[i + 1] \in Nat
    BY <1>2, <1>3, <2>2
  <2>5. buffered[i + 1] = Step(i + 1, buffered[i])  BY <1>9, <2>2
  <2>6. PICK a \in Nat, b \in Nat : a = sum[i] /\ b = chunks[i + 1]  BY <2>4
  <2>7. PICK x : x = buffered[i]  OBVIOUS
  <2>8. buffered[i + 1] = x + IF b <= max - x THEN b ELSE max - x  BY <2>5, <2>6, <2>7
  <2>9. x = IF a <= max THEN a ELSE max  BY <2>3, <2>6, <2>7
  <2>10. buffered[i + 1] = IF a + b <= max THEN a + b ELSE max  BY <1>4, <2>8, <2>9
  <2>11. QED BY <2>4, <2>6, <2>10
<1>12. n \in S
  <2> HIDE DEF S
  <2>1. QED BY <1>10, <1>11, Induction
<1>13. QED BY <1>3, <1>4, <1>8, <1>12

(* A form is redacted like the list of its pairs as maps of one key.        *)
Pairs == [key : DOMAIN Normal, value : {v \in Data : v.kind = "text"}]

IsPair(v, pair) == v = Cleaning!Map([k \in {pair.key} |-> pair.value])
Redacted(pair, policy) ==
  Cleaning!Map([k \in {pair.key} |->
                  IF Normal[pair.key] \in policy.fields
                  THEN Cleaning!RedactValue(pair.value, policy) ELSE pair.value])

LEMMA PairIsWritten ==
  ASSUME NEW pair \in Pairs, NEW v \in Data, IsPair(v, pair),
         NEW policy, policy.mode # "drop", NEW clean, clean = Cleaning!Sanitized(policy, Cleaning!Names)
  PROVE  clean[MaxDepth][v][FALSE] = Redacted(pair, policy)
<1>1. MaxDepth \in Nat \ {0}  BY DataAssumption
<1>2. v.kind = "map" /\ v.items = [k \in {pair.key} |-> pair.value]  BY DEF Cleaning!Map, IsPair
<1>3. ASSUME NEW left \in 0..(MaxDepth + 1), NEW u \in Data, NEW h \in BOOLEAN
      PROVE  clean[left][u][h] =
               Cleaning!SanitizeValue(u, policy, h, MaxDepth + 1 - left, Cleaning!Names,
                                      IF left = 0 THEN <<>> ELSE clean[left - 1])
  BY CleanFacts
<1>4. PICK below : below = clean[MaxDepth - 1]  OBVIOUS
<1>5. clean[MaxDepth][v][FALSE] = Cleaning!SanitizeMapping(v.items, policy, FALSE, 1, Cleaning!Names, below)
  <2>1. MaxDepth \in 0..(MaxDepth + 1) /\ MaxDepth + 1 - MaxDepth = 1 /\ MaxDepth # 0 /\ FALSE \in BOOLEAN
    BY <1>1
  <2>2. clean[MaxDepth][v][FALSE] =
          Cleaning!SanitizeValue(v, policy, FALSE, MaxDepth + 1 - MaxDepth, Cleaning!Names,
                                 IF MaxDepth = 0 THEN <<>> ELSE clean[MaxDepth - 1])
    BY <1>3, <2>1
  <2>3. clean[MaxDepth][v][FALSE] = Cleaning!SanitizeValue(v, policy, FALSE, 1, Cleaning!Names, below)
    BY <1>4, <2>1, <2>2
  <2>4. ~(1 > MaxDepth) /\ 1 <= MaxDepth  BY <1>1
  <2>5. QED BY <1>2, <2>3, <2>4 DEF Cleaning!SanitizeValue, Cleaning!Container
<1>6. ASSUME NEW h \in BOOLEAN PROVE below[pair.value][h] = pair.value
  <2>1. PICK u \in Data : u = pair.value /\ u.kind = "text"  BY DEF Pairs
  <2>2. PICK left \in 0..(MaxDepth + 1) : left = MaxDepth - 1  BY <1>1
  <2>3. below[u][h] = Cleaning!SanitizeValue(u, policy, h, MaxDepth + 1 - left, Cleaning!Names,
                                             IF left = 0 THEN <<>> ELSE clean[left - 1])
    BY <1>3, <1>4, <2>2
  <2>4. below[u][h] = u  BY <2>1, <2>3 DEF Cleaning!SanitizeValue, Cleaning!Container
  <2>5. QED BY <2>1, <2>4
<1> DEFINE Sensitive(k) == \/ Normal[k] \in policy.fields
                           \/ FALSE /\ Normal[k] \in policy.headers
           kept == {k \in DOMAIN v.items :
                      /\ FALSE => Normal[k] \in policy.allowedHeaders
                      /\ 1 = 0 => Normal[k] \in Cleaning!Names
                      /\ ~(Sensitive(k) /\ policy.mode = "drop")}
           Of(k) == IF Sensitive(k) THEN Cleaning!RedactValue(v.items[k], policy)
                    ELSE below[v.items[k]][Normal[k] = "headers"]
           New(k) == IF Normal[pair.key] \in policy.fields
                     THEN Cleaning!RedactValue(pair.value, policy) ELSE pair.value
<1>7. clean[MaxDepth][v][FALSE] = Cleaning!Map([k \in kept |-> Of(k)])
  BY <1>5 DEF Cleaning!SanitizeMapping
<1>8. kept = {pair.key}  BY <1>2
<1>9. \A k \in {pair.key} : Of(k) = New(k)
  <2>1. v.items[pair.key] = pair.value  BY <1>2
  <2>2. (Normal[pair.key] = "headers") \in BOOLEAN  OBVIOUS
  <2>3. below[pair.value][Normal[pair.key] = "headers"] = pair.value  BY <1>6, <2>2
  <2>4. QED BY <2>1, <2>3
<1> HIDE DEF kept, Of, New
<1>10. [k \in kept |-> Of(k)] = [k \in {pair.key} |-> New(k)]  BY <1>8, <1>9
<1>11. QED BY <1>7, <1>10 DEF New, Redacted

LEMMA FormIsWritten ==
  ASSUME NEW pairs \in Seq(Pairs), Cleaning!Listed(pairs) \in Data, NEW form,
         form.kind = "form", form.pairs = pairs,
         NEW policy, Cleaning!Masking(policy).mode # "drop",
         Cleaning!Masking(policy).fields = policy.fields
  PROVE  IsWhole(Cleaning!RedactBody(form, policy), Cleaning!Listed(pairs),
                 Cleaning!Sanitized(Cleaning!Masking(policy), Cleaning!Names))
<1>1. PICK n \in Nat : n = Len(pairs)  BY LenProperties
<1>2. \A i \in 1..n : pairs[i] \in Pairs  BY <1>1, ElementOfSeq
<1>3. PICK masking : masking = Cleaning!Masking(policy)  OBVIOUS
<1>4. PICK clean : clean = Cleaning!Sanitized(masking, Cleaning!Names)  OBVIOUS
<1>5. PICK v \in Data : v = Cleaning!Listed(pairs)  OBVIOUS
<1>6. MaxDepth \in Nat \ {0}  BY DataAssumption
<1> DEFINE One(i) == Cleaning!Map([k \in {pairs[i].key} |-> pairs[i].value])
           New(i) == Cleaning!Map([k \in {pairs[i].key} |->
                                     IF Normal[pairs[i].key] \in policy.fields
                                     THEN Cleaning!RedactValue(pairs[i].value, masking)
                                     ELSE pairs[i].value])
<1> HIDE DEF One, New
<1>7. v = Cleaning!List([i \in 1..n |-> One(i)])  BY <1>1, <1>5 DEF Cleaning!Listed, One
<1>8. PICK ones : ones = [i \in 1..n |-> One(i)]  OBVIOUS
<1>9. v.kind = "list" /\ v.items = ones /\ DOMAIN ones = 1..n  BY <1>7, <1>8 DEF Cleaning!List
<1>10. PICK below : below = clean[MaxDepth]  OBVIOUS
<1>11. \A i \in 1..n : below[ones[i]][FALSE] = New(i)
  <2>1. SUFFICES ASSUME NEW i \in 1..n PROVE below[ones[i]][FALSE] = New(i)
    OBVIOUS
  <2>2. PICK pair \in Pairs : pair = pairs[i]  BY <1>2
  <2>3. PICK u \in Data : u = ones[i]  BY <1>9, DataFacts
  <2>4. IsPair(u, pair)  BY <1>8, <2>2, <2>3 DEF One, IsPair
  <2>5. masking.mode # "drop" /\ masking.fields = policy.fields  BY <1>3
  <2>6. clean[MaxDepth][u][FALSE] = Redacted(pair, masking)
    BY <1>4, <2>4, <2>5, PairIsWritten
  <2>7. New(i) = Redacted(pair, masking)  BY <2>2, <2>5 DEF New, Redacted
  <2>8. QED BY <1>10, <2>3, <2>6, <2>7
<1>12. clean[MaxDepth + 1][v][FALSE] = Cleaning!List([i \in 1..n |-> below[ones[i]][FALSE]])
  <2>1. PICK left \in 0..(MaxDepth + 1) : left = MaxDepth + 1  BY <1>6
  <2>2. left # 0 /\ left - 1 = MaxDepth /\ MaxDepth + 1 - left = 0 /\ ~(0 > MaxDepth) /\ 0 <= MaxDepth
    BY <1>6, <2>1
  <2>3. ASSUME NEW d \in 0..(MaxDepth + 1), NEW u \in Data, NEW h \in BOOLEAN
        PROVE  clean[d][u][h] = Cleaning!SanitizeValue(u, masking, h, MaxDepth + 1 - d, Cleaning!Names,
                                                       IF d = 0 THEN <<>> ELSE clean[d - 1])
    BY <1>4, CleanFacts
  <2>4. FALSE \in BOOLEAN  OBVIOUS
  <2>5. clean[left][v][FALSE] =
          Cleaning!SanitizeValue(v, masking, FALSE, MaxDepth + 1 - left, Cleaning!Names,
                                 IF left = 0 THEN <<>> ELSE clean[left - 1])
    <3> HIDE <1>4, <1>5
    <3>1. QED BY <2>3, <2>4
  <2>6. clean[left][v][FALSE] = Cleaning!SanitizeValue(v, masking, FALSE, 0, Cleaning!Names, below)
    BY <1>10, <2>2, <2>5
  <2>7. clean[left][v][FALSE] = Cleaning!List([i \in DOMAIN v.items |-> below[v.items[i]][FALSE]])
    BY <1>9, <2>2, <2>6 DEF Cleaning!SanitizeValue, Cleaning!Container
  <2>8. QED BY <1>9, <2>1, <2>7
<1>13. [i \in 1..n |-> below[ones[i]][FALSE]] = [i \in 1..n |-> New(i)]  BY <1>11
<1>14. Cleaning!RedactBody(form, policy) = Cleaning!List([i \in 1..n |-> New(i)])
  BY <1>1, <1>3 DEF Cleaning!RedactBody, New
<1>15. QED BY <1>3, <1>4, <1>5, <1>12, <1>13, <1>14 DEF IsWhole

LEMMA MaskingFacts ==
  ASSUME NEW policy \in Policies
  PROVE  Cleaning!Masking(policy).mode # "drop" /\ Cleaning!Masking(policy).fields = policy.fields
BY DEF Cleaning!Masking, Policies

LEMMA NestedFacts ==
  ASSUME NEW c \in Nested
  PROVE  /\ c.value \in Data /\ c.value.kind = "map" /\ c.policy \in Policies
         /\ c.pairs \in Seq(Pairs) /\ c.chunks \in Seq(Nat) /\ c.paths \in SUBSET Seq(Cleaning!Steps)
         /\ Cleaning!Total(c.chunks) = 2 * Len(c.pairs)
         /\ \A n \in 0..Len(c.pairs) : Cleaning!Listed(SubSeq(c.pairs, 1, n)) \in Data
BY DataAssumption DEF Pairs

(* A body that was cut is masked as a whole, unless whole pairs of a form    *)
(* are left of it.                                                            *)
LEMMA BodiesAreWritten ==
  ASSUME NEW c \in Nested, NEW max \in 0..Cleaning!Total(c.chunks)
  PROVE  Cleaning!BodiesAsWritten(c, max)
<1>1. PICK total : total = Cleaning!Total(c.chunks)  OBVIOUS
<1>2. PICK n \in Nat : n = Len(c.pairs) /\ total = 2 * n  BY <1>1, NestedFacts, LenProperties
<1>3. max \in Nat /\ max <= total  BY <1>1, <1>2
<1>4. Cleaning!Captured(c.chunks, max) = max  BY NestedFacts, CapturedFacts
<1>5. PICK json : json = [kind |-> "json", value |-> c.value, size |-> total]  OBVIOUS
<1>6. PICK form : form = [kind |-> "form", pairs |-> c.pairs, size |-> total]  OBVIOUS
<1>7. PICK kept : kept = IF max < total THEN SubSeq(c.pairs, 1, max \div 2) ELSE c.pairs  OBVIOUS
<1> DEFINE Body(whole) == Cleaning!RedactBody(Cleaning!Cut(whole, max), c.policy)
           masking == Cleaning!Masking(c.policy)
<1>8. CASE max < total
  <2>1. ~(total <= max) /\ total > max  BY <1>2, <1>3, <1>8
  <2>2. Body(json) = Cleaning!Mask
    <3>1. json.size = total /\ json.kind = "json"  BY <1>5
    <3>2. PICK cut : cut = Cleaning!Cut(json, max)  OBVIOUS
    <3>3. cut.kind = "cut"  BY <2>1, <3>1, <3>2 DEF Cleaning!Cut
    <3>4. QED BY <3>2, <3>3 DEF Cleaning!RedactBody
  <2>3. ASSUME max % 2 = 1 PROVE Body(form) = Cleaning!Mask
    <3>1. Cleaning!Cut(form, max).kind = "other"  BY <1>6, <2>1, <2>3 DEF Cleaning!Cut
    <3>2. QED BY <3>1 DEF Cleaning!RedactBody
  <2>4. ASSUME ~(max % 2 = 1)
        PROVE  Cleaning!AsWritten(Body(form), Cleaning!Listed(kept), c.paths, masking, Cleaning!Names)
    <3>1. PICK m \in 0..n : m = max \div 2  BY <1>2, <1>3, <1>8
    <3>2. kept \in Seq(Pairs)
      <4>1. 1 \in Nat /\ m \in Nat /\ kept = SubSeq(c.pairs, 1, m)  BY <1>7, <1>8, <3>1
      <4>2. \A i \in 1..m : c.pairs[i] \in Pairs
        <5>1. \A i \in 1..m : i \in 1..Len(c.pairs)  BY <1>2, <3>1
        <5>2. c.pairs \in Seq(Pairs)  BY NestedFacts
        <5>3. QED BY <5>1, <5>2, ElementOfSeq
      <4>3. QED BY <1>2, <3>1, <4>1, <4>2, NestedFacts, SubSeqProperties
    <3>3. Cleaning!Listed(kept) \in Data  BY <1>2, <1>7, <1>8, <3>1, NestedFacts
    <3>4. PICK cut : cut = Cleaning!Cut(form, max)  OBVIOUS
    <3>5. cut.kind = "form" /\ cut.pairs = kept
      BY <1>6, <1>7, <1>8, <2>1, <2>4, <3>4 DEF Cleaning!Cut
    <3>6. IsWhole(Cleaning!RedactBody(cut, c.policy), Cleaning!Listed(kept),
                  Cleaning!Sanitized(masking, Cleaning!Names))
      BY <3>2, <3>3, <3>5, NestedFacts, MaskingFacts, FormIsWritten
    <3>7. QED BY <3>3, <3>4, <3>6, NestedFacts, CleanIsWritten
  <2>5. QED BY <1>1, <1>4, <1>5, <1>6, <1>7, <1>8, <2>2, <2>3, <2>4 DEF Cleaning!BodiesAsWritten
<1>9. CASE ~(max < total)
  <2>1. total <= max  BY <1>2, <1>3, <1>9
  <2>2. Cleaning!AsWritten(Body(json), c.value, c.paths, masking, Cleaning!Names)
    <3>1. Cleaning!Cut(json, max) = json
      <4>1. json.size <= max  BY <1>2, <1>3, <1>5, <2>1
      <4>2. QED BY <4>1 DEF Cleaning!Cut
    <3>2. IsWhole(Cleaning!RedactBody(json, c.policy), c.value, Cleaning!Sanitized(masking, Cleaning!Names))
      BY <1>5 DEF Cleaning!RedactBody, IsWhole
    <3>3. QED BY <3>1, <3>2, NestedFacts, CleanIsWritten
  <2>3. Cleaning!AsWritten(Body(form), Cleaning!Listed(kept), c.paths, masking, Cleaning!Names)
    <3>1. Cleaning!Cut(form, max) = form
      <4>1. form.size <= max  BY <1>2, <1>3, <1>6, <2>1
      <4>2. QED BY <4>1 DEF Cleaning!Cut
    <3>2. kept = c.pairs /\ SubSeq(c.pairs, 1, n) = c.pairs
      BY <1>2, <1>7, <1>9, NestedFacts, SubSeqFull
    <3>3. Cleaning!Listed(kept) \in Data /\ kept \in Seq(Pairs)
      <4>1. n \in 0..Len(c.pairs)  BY <1>2
      <4>2. QED BY <3>2, <4>1, NestedFacts
    <3>4. form.kind = "form" /\ form.pairs = kept  BY <1>6, <3>2
    <3>5. IsWhole(Cleaning!RedactBody(form, c.policy), Cleaning!Listed(kept),
                  Cleaning!Sanitized(masking, Cleaning!Names))
      BY <3>3, <3>4, NestedFacts, MaskingFacts, FormIsWritten
    <3>6. QED BY <3>1, <3>3, <3>5, NestedFacts, CleanIsWritten
  <2>4. QED BY <1>1, <1>4, <1>5, <1>6, <1>7, <1>9, <2>2, <2>3 DEF Cleaning!BodiesAsWritten
<1>10. QED BY <1>8, <1>9

LEMMA NestedIsWritten == ASSUME NEW c \in Nested PROVE Cleaning!WrittenByPath(c)
<1>1. Cleaning!AsWritten(Cleaning!SanitizeEvent(c.value, c.policy), c.value, c.paths, c.policy,
                         c.policy.allowedEvents)
  BY NestedFacts, EventIsWritten
<1>2. Cleaning!RecordAsWritten(Cleaning!SanitizeRecord(c.value, c.policy), c.value, c.paths, c.policy)
  BY NestedFacts, RecordIsWritten
<1>3. \A max \in 0..Cleaning!Total(c.chunks) : Cleaning!BodiesAsWritten(c, max)
  BY BodiesAreWritten
<1>4. QED BY <1>1, <1>2, <1>3 DEF Cleaning!WrittenByPath

(* What is written of an event, of a record and of a body is decided along  *)
(* the path to each part (sanitize_event, sanitize_record, redact_body), at *)
(* any nesting, for any policy, keys and greatest depth, however a body is  *)
(* cut: what an allowlist leaves out is gone, a sensitive key shows nothing *)
(* of its value, a container too deep to inspect is masked, and all else    *)
(* stands as it was, with nothing added.                                    *)
THEOREM RedactionFollowsPaths == PoliciesSpec => []RedactedByPath
<1>1. PoliciesInit => RedactedByPath
  BY NestedIsWritten DEF PoliciesInit, RedactedByPath
<1>2. QED BY <1>1, InputStays, PTL
=============================================================================
