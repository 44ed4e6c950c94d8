--------------------------- MODULE CallRecording ---------------------------
(***************************************************************************)
(* How the calls of a request or an operation are counted: RequestState    *)
(* with its totals, CallHandle, SpanOwners, and the closing of the owner.  *)
(* A call starts in one context and may finish on any thread, twice, late, *)
(* or in a forked child; whoever finishes it, it belongs to the owner that *)
(* was current at its start.                                               *)
(*                                                                         *)
(* _CALLS_LOCK and the locks of CallHandle and SpanOwners make one step of *)
(* each critical section; everything else interleaves. Calls are of one    *)
(* kind (kinds share no state), and durations are left out, except that a  *)
(* total that is no longer finite rejects the call.                        *)
(***************************************************************************)
EXTENDS Naturals, FiniteSets

CONSTANTS
  Owners,      \* RequestState objects
  Operations,  \* those of observe_operation(): summarized and closed in one step
  Handles,     \* CallHandle objects
  Native,      \* the handles of SQLAlchemy's events; the others are manual
  Attempts,    \* calls of finish()
  CallOf,      \* the handle each of them finishes
  Spans,       \* sampled client spans of other libraries
  SpanLimit,   \* SpanOwners.limit
  MaxManual,   \* bound: record_call() calls per owner
  None

ASSUME CallRecordingAssumption ==
  /\ Operations \subseteq Owners
  /\ Native \subseteq Handles
  /\ Handles \cap Spans = {}
  /\ CallOf \in [Attempts -> Handles]
  /\ IsFiniteSet(Handles) /\ IsFiniteSet(Attempts) /\ IsFiniteSet(Spans)
  /\ SpanLimit \in Nat
  /\ MaxManual \in Nat
  /\ None \notin Owners \cup {"parent", "child"}

VARIABLES
  process,    \* "parent", or "child" after a fork: os.getpid()
  closed,     \* RequestState.closed
  token,      \* the process that made _call_owner_token, or None
  count,      \* calls[kind][0]
  pending,    \* pending_calls[kind]
  sql,        \* SQLExecutions
  sources,    \* call_sources[kind]
  dropped,    \* dropped_spans
  report,     \* what summarize_calls() put on the terminal record, or None
  owner,      \* the owner a handle or span was started under, or None
  handle,     \* "new", "started" or "finished" (CallHandle._finished)
  attempt,    \* where each finish() is
  span,       \* where each span is
  manual      \* history: calls recorded by record_call()

totals == <<count, pending, sql, sources>>
vars   == <<process, closed, token, totals, dropped, report, owner, handle,
            attempt, span, manual>>

-----------------------------------------------------------------------------
Source(h) == IF h \in Native THEN "sqlalchemy" ELSE "manual"
Sources == {"sqlalchemy", "manual", "sampled_span"}

OwnedAnywhere(o) == o # None /\ ~closed[o]  \* mutation of Owned: no pid check
\* CallOwner.get(): only in the process that made the token, and only while open.
Owned(o) == o # None /\ ~closed[o] /\ token[o] = process

\* A token lives while its state is open or a finish() holds it; the entries of
\* SpanOwners vanish with it.
Alive(o) == ~closed[o] \/ \E a \in Attempts :
                             attempt[a] \in {"owned", "claimed"} /\ owner[CallOf[a]] = o
Tracked == {s \in Spans : span[s] = "tracked" /\ Alive(owner[s])}

MintToken(o) == token' = [token EXCEPT ![o] = IF @ = None THEN process ELSE @]

\* Mutation of Complete: the pending count is left alone.
LeavesPending(o, source, started) ==
  sources' = [sources EXCEPT ![o] = @ \cup {source}] /\ UNCHANGED pending
Complete(o, source, started) ==
  /\ sources' = [sources EXCEPT ![o] = @ \cup {source}]
  /\ pending' = [pending EXCEPT ![o] = IF started /\ @ > 0 THEN @ - 1 ELSE @]

\* Mutation of Observation: what is in flight is not looked at.
IgnoresPending(o) ==
  IF sources[o] = {} /\ dropped[o] = 0 THEN "unknown"
  ELSE IF \/ "sampled_span" \in sources[o] \/ dropped[o] > 0
          \/ "manual" \in sources[o] /\ sources[o] # {"manual"}
       THEN "partial"
       ELSE IF sources[o] = {"manual"} THEN "caller_reported" ELSE "instrumented_clients"
Observation(o) ==
  IF sources[o] = {} /\ dropped[o] = 0 THEN "unknown"
  ELSE IF \/ "sampled_span" \in sources[o] \/ dropped[o] > 0 \/ pending[o] > 0
          \/ "manual" \in sources[o] /\ sources[o] # {"manual"}
       THEN "partial"
       ELSE IF sources[o] = {"manual"} THEN "caller_reported" ELSE "instrumented_clients"

Init ==
  /\ process = "parent"
  /\ closed = [o \in Owners |-> FALSE]
  /\ token = [o \in Owners |-> None]
  /\ count = [o \in Owners |-> 0]
  /\ pending = [o \in Owners |-> 0]
  /\ sql = [o \in Owners |-> [attempted |-> 0, succeeded |-> 0, failed |-> 0]]
  /\ sources = [o \in Owners |-> {}]
  /\ dropped = [o \in Owners |-> 0]
  /\ report = [o \in Owners |-> None]
  /\ owner = [x \in Handles \cup Spans |-> None]
  /\ handle = [h \in Handles |-> "new"]
  /\ attempt = [a \in Attempts |-> "idle"]
  /\ span = [s \in Spans |-> "new"]
  /\ manual = [o \in Owners |-> 0]

-----------------------------------------------------------------------------
(* Calls with a handle.                                                     *)

\* CallHandle.__init__: a closed owner gives a handle without one.
Start(h, o) ==
  /\ handle[h] = "new"
  /\ handle' = [handle EXCEPT ![h] = "started"]
  /\ IF closed[o]
     THEN UNCHANGED <<owner, token, totals>>
     ELSE /\ owner' = [owner EXCEPT ![h] = o]
          /\ MintToken(o)
          /\ sources' = [sources EXCEPT ![o] = @ \cup {Source(h)}]
          /\ pending' = [pending EXCEPT ![o] = @ + 1]
          /\ sql' = [sql EXCEPT ![o].attempted = IF h \in Native THEN @ + 1 ELSE @]
          /\ UNCHANGED count
  /\ UNCHANGED <<process, closed, dropped, report, attempt, span, manual>>

\* finish() looks its owner up without a lock.
FinishBegin(a) ==
  /\ attempt[a] = "idle" /\ handle[CallOf[a]] # "new"
  /\ attempt' = [attempt EXCEPT ![a] = IF Owned(owner[CallOf[a]]) THEN "owned" ELSE "false"]
  /\ UNCHANGED <<process, closed, token, totals, dropped, report, owner, handle, span, manual>>

FinishClaim(a) ==
  /\ attempt[a] = "owned"
  /\ attempt' = [attempt EXCEPT ![a] =
                   IF handle[CallOf[a]] = "finished" THEN "false" ELSE "claimed"]
  /\ handle' = [handle EXCEPT ![CallOf[a]] = "finished"]
  /\ UNCHANGED <<process, closed, token, totals, dropped, report, owner, span, manual>>

\* _record_call() of a handle: a failed statement has its own counter.
Admit(o, h, error) ==
  /\ Complete(o, Source(h), TRUE)
  /\ IF h \in Native /\ error
     THEN sql' = [sql EXCEPT ![o].failed = @ + 1] /\ UNCHANGED count
     ELSE /\ count' = [count EXCEPT ![o] = @ + 1]
          /\ sql' = [sql EXCEPT ![o].succeeded = IF h \in Native THEN @ + 1 ELSE @]

FinishRecord(a) ==
  LET o == owner[CallOf[a]] IN
  /\ attempt[a] = "claimed"
  /\ \/ /\ ~closed[o]
        /\ \E error \in BOOLEAN : Admit(o, CallOf[a], error)
        /\ attempt' = [attempt EXCEPT ![a] = "true"]
     \/ \* the owner was closed meanwhile, or the total would not be finite
        /\ attempt' = [attempt EXCEPT ![a] = "false"]
        /\ UNCHANGED totals
  /\ UNCHANGED <<process, closed, token, dropped, report, owner, handle, span, manual>>

\* Operation.record_call() and add_call(): one completed call, no handle.
RecordCall(o) ==
  /\ ~closed[o] /\ manual[o] < MaxManual
  /\ manual' = [manual EXCEPT ![o] = @ + 1]
  /\ count' = [count EXCEPT ![o] = @ + 1]
  /\ Complete(o, "manual", FALSE)
  /\ UNCHANGED <<process, closed, token, sql, dropped, report, owner, handle, attempt, span>>

-----------------------------------------------------------------------------
(* Sampled spans: RequestCallTotals.on_start and on_end.                    *)

SpanStart(s, o) ==
  /\ span[s] = "new" /\ ~closed[o]
  /\ owner' = [owner EXCEPT ![s] = o]
  /\ MintToken(o)
  /\ span' = [span EXCEPT ![s] =
                IF Cardinality(Tracked) >= SpanLimit THEN "dropping" ELSE "tracked"]
  /\ UNCHANGED <<process, closed, totals, dropped, report, handle, attempt, manual>>

SpanDrop(s) ==
  /\ span[s] = "dropping"
  /\ span' = [span EXCEPT ![s] = "dropped"]
  /\ dropped' = IF closed[owner[s]] THEN dropped ELSE [dropped EXCEPT ![owner[s]] = @ + 1]
  /\ UNCHANGED <<process, closed, token, totals, report, owner, handle, attempt, manual>>

SpanEnd(s) ==
  /\ span[s] = "tracked"
  /\ span' = [span EXCEPT ![s] = IF Owned(owner[s]) THEN "popped" ELSE "unknown"]
  /\ UNCHANGED <<process, closed, token, totals, dropped, report, owner, handle, attempt, manual>>

SpanRecord(s) ==
  /\ span[s] = "popped"
  /\ \/ /\ ~closed[owner[s]]
        /\ span' = [span EXCEPT ![s] = "counted"]
        /\ count' = [count EXCEPT ![owner[s]] = @ + 1]
        /\ Complete(owner[s], "sampled_span", FALSE)
        /\ UNCHANGED sql
     \/ \* closed meanwhile, no call by its attributes, or a call counted natively
        /\ span' = [span EXCEPT ![s] = "unknown"]
        /\ UNCHANGED totals
  /\ UNCHANGED <<process, closed, token, dropped, report, owner, handle, attempt, manual>>

-----------------------------------------------------------------------------
(* The end of the owner, and a fork.                                        *)

Recorded(h) == \E a \in Attempts : CallOf[a] = h /\ attempt[a] = "true"
HandlesOf(o) == {h \in Handles : owner[h] = o}

\* The terminal record; the last three are history. A span is "running" while it has
\* not ended, and from the refusal of capture() until drop_span() has counted it.
Summary(o) ==
  [count |-> count[o], in_flight |-> pending[o], failed |-> sql[o].failed,
   attempted |-> sql[o].attempted, succeeded |-> sql[o].succeeded,
   coverage |-> Observation(o),
   unfinished |-> {h \in HandlesOf(o) : ~Recorded(h)},
   overflowed |-> {s \in Spans : owner[s] = o /\ span[s] = "dropped"},
   running |-> {s \in Spans : owner[s] = o /\ span[s] \in {"tracked", "dropping", "popped"}}]

Release(o) ==
  /\ closed' = [closed EXCEPT ![o] = TRUE]
  /\ token' = [token EXCEPT ![o] = None]
  /\ count' = [count EXCEPT ![o] = 0]
  /\ pending' = [pending EXCEPT ![o] = 0]
  /\ sql' = [sql EXCEPT ![o] = [attempted |-> 0, succeeded |-> 0, failed |-> 0]]
  /\ sources' = [sources EXCEPT ![o] = {}]

\* The request line: the totals are read first and released at the cleanup.
Summarize(o) ==
  /\ o \notin Operations /\ ~closed[o] /\ report[o] = None
  /\ report' = [report EXCEPT ![o] = Summary(o)]
  /\ UNCHANGED <<process, closed, token, totals, dropped, owner, handle, attempt, span, manual>>

\* Mutation of SummarizeAndClose: the totals are read before the lock is taken to close.
SummarizeOnly(o) ==
  /\ o \in Operations /\ ~closed[o] /\ report[o] = None
  /\ report' = [report EXCEPT ![o] = Summary(o)]
  /\ UNCHANGED <<process, closed, token, totals, dropped, owner, handle, attempt, span, manual>>

SummarizeAndClose(o) ==
  /\ o \in Operations /\ ~closed[o]
  /\ report' = [report EXCEPT ![o] = Summary(o)]
  /\ Release(o)
  /\ UNCHANGED <<process, dropped, owner, handle, attempt, span, manual>>

\* Cleanup of a request, or of an operation whose record could not be made.
Close(o) ==
  /\ ~closed[o]
  /\ Release(o)
  /\ UNCHANGED <<process, dropped, report, owner, handle, attempt, span, manual>>

\* We follow the child: its other threads are gone and it tracks no spans.
Fork ==
  /\ process = "parent"
  /\ process' = "child"
  /\ attempt' = [a \in Attempts |->
                   IF attempt[a] \in {"owned", "claimed"} THEN "gone" ELSE attempt[a]]
  /\ span' = [s \in Spans |-> IF span[s] \in {"tracked", "popped", "dropping"}
                              THEN "unknown" ELSE span[s]]
  /\ UNCHANGED <<closed, token, totals, dropped, report, owner, handle, manual>>

Next ==
  \/ \E h \in Handles, o \in Owners : Start(h, o)
  \/ \E a \in Attempts : FinishBegin(a) \/ FinishClaim(a) \/ FinishRecord(a)
  \/ \E s \in Spans, o \in Owners : SpanStart(s, o)
  \/ \E s \in Spans : SpanDrop(s) \/ SpanEnd(s) \/ SpanRecord(s)
  \/ \E o \in Owners : RecordCall(o) \/ Summarize(o) \/ SummarizeAndClose(o) \/ Close(o)
  \/ Fork

Spec == Init /\ [][Next]_vars

-----------------------------------------------------------------------------
Executions == [attempted : Nat, succeeded : Nat, failed : Nat]

Reports ==
  [count : Nat, in_flight : Nat, failed : Nat, attempted : Nat, succeeded : Nat,
   coverage : {"unknown", "partial", "caller_reported", "instrumented_clients"},
   unfinished : SUBSET Handles, overflowed : SUBSET Spans, running : SUBSET Spans]

ASSUME ReportsAssumption == None \notin Reports

Typed ==
  /\ process \in {"parent", "child"}
  /\ closed \in [Owners -> BOOLEAN]
  /\ token \in [Owners -> {"parent", "child", None}]
  /\ count \in [Owners -> Nat]
  /\ pending \in [Owners -> Nat]
  /\ sql \in [Owners -> Executions]
  /\ sources \in [Owners -> SUBSET Sources]
  /\ dropped \in [Owners -> Nat]
  /\ report \in [Owners -> Reports \cup {None}]
  /\ owner \in [Handles \cup Spans -> Owners \cup {None}]
  /\ handle \in [Handles -> {"new", "started", "finished"}]
  /\ attempt \in [Attempts -> {"idle", "owned", "claimed", "true", "false", "gone"}]
  /\ span \in [Spans -> {"new", "tracked", "dropping", "dropped", "popped", "counted", "unknown"}]
  /\ manual \in [Owners -> 0..MaxManual]
TrackedFits == Cardinality(Tracked) <= SpanLimit
TypeOK == Typed /\ TrackedFits

(* finish() "returns true only for its first admitted completion"           *)
(* (docs/experimental-core.md), whichever threads call it and however their *)
(* steps interleave.                                                        *)
FirstFinishOnly ==
  \A a, b \in Attempts :
    attempt[a] = "true" /\ attempt[b] = "true" /\ CallOf[a] = CallOf[b] => a = b

(* While an owner is open, what it calls in flight is what was started      *)
(* under it and not recorded, for all handles and for SQLAlchemy's:         *)
(* "attempted = succeeded + failed + in_flight"                             *)
(* (docs/request-diagnostics.md).                                           *)
InFlightIsExact ==
  \A o \in Owners : ~closed[o] =>
    LET unrecorded == {h \in HandlesOf(o) : ~Recorded(h)} IN
    /\ pending[o] = Cardinality(unrecorded)
    /\ sql[o].attempted = sql[o].succeeded + sql[o].failed + Cardinality(unrecorded \cap Native)

(* The terminal record of an operation counts exactly the calls whose       *)
(* callers were told so: a finish() that returned true, or a span that was  *)
(* counted, is in the record however late it raced the close, and nothing   *)
(* else is ("Late client completion cannot change closed totals").          *)
ReportIsExact ==
  \A o \in Operations : report[o] # None =>
    report[o].count + report[o].failed =
      Cardinality({h \in HandlesOf(o) : Recorded(h)}) + manual[o]
        + Cardinality({s \in Spans : owner[s] = o /\ span[s] = "counted"})

(* A closed owner retains nothing of its calls: no step after the close,    *)
(* of a late finish, a late span or a start in a copied context, puts       *)
(* anything back.                                                           *)
ClosedIsEmpty ==
  \A o \in Owners : closed[o] =>
    /\ count[o] = 0 /\ pending[o] = 0 /\ sources[o] = {} /\ token[o] = None
    /\ sql[o] = [attempted |-> 0, succeeded |-> 0, failed |-> 0]

(* Calls are over exactly once: reported once, as they ended, and gone      *)
(* after the close, whatever threads and spans still hold.                  *)
ReportsAreFinal == TypeOK /\ FirstFinishOnly /\ ReportIsExact /\ ClosedIsEmpty

(* A terminal record that claims instrumented_clients tells of every call   *)
(* that has a handle (each is counted, none is in flight) and of every      *)
(* refusal of the span tracking that was counted before it: there is none.  *)
(* It does not tell of a span that is still running (UnfinishedIsPartial).  *)
CoverageTellsOfHandles ==
  \A o \in Owners : report[o] # None /\ report[o].coverage = "instrumented_clients" =>
    /\ report[o].unfinished = {} /\ report[o].overflowed = {}
    /\ report[o].attempted = report[o].count + report[o].failed

(* "Sampled spans, mixed manual/native sources, unfinished calls or         *)
(* span-tracking overflow prevent a stronger claim" than partial            *)
(* (docs/request-diagnostics.md:118). The code looks at handles in flight   *)
(* and at what is already counted of the spans: a span that runs, or that   *)
(* capture() has just refused, leaves the claim to instrumented_clients.    *)
UnfinishedIsPartial ==
  \A o \in Owners : report[o] # None /\ report[o].coverage = "instrumented_clients" =>
    report[o].unfinished = {} /\ report[o].overflowed = {} /\ report[o].running = {}

(* "A parent-process call cannot complete in the child"                     *)
(* (core/recording.py:83): nothing started under an owner of the parent is  *)
(* admitted after the fork, though the child inherits every handle.         *)
InheritedNeverCounts ==
  [][\A a \in Attempts : attempt'[a] = "true" /\ attempt[a] # "true" =>
       token[owner[CallOf[a]]] = process]_vars

-----------------------------------------------------------------------------
(* The ledger that the recording implements.                                *)

Open    == {o \in Owners : ~closed[o]}
Foreign == {o \in Open : token[o] \notin {None, process}}
Counted == {h \in Handles : Recorded(h)} \cup {s \in Spans : span[s] = "counted"}

\* Failed statements are calls too.
Stated ==
  [o \in Owners |->
     IF report[o] = None THEN None
     ELSE [counted |-> report[o].count + report[o].failed, in_flight |-> report[o].in_flight]]

Ledger == INSTANCE CallLedger WITH
  Accounts  <- Owners,
  Sealed    <- Operations,
  Calls     <- Handles \cup Spans,
  Announced <- Handles,
  open      <- Open,
  foreign   <- Foreign,
  under     <- owner,
  counted   <- Counted,
  byHand    <- manual,
  statement <- Stated

(* Whatever threads, spans and copied contexts still hold, a call belongs   *)
(* to the owner that was current at its start and is counted there at most  *)
(* once, never after the close nor across a fork; and what the terminal     *)
(* record says is counted and in flight is the truth when it is made, which *)
(* for an operation is the moment of its close.                             *)
ImplementsLedger == Ledger!Spec

=============================================================================
