------------------------- MODULE RequestDiagnostics -------------------------
(***************************************************************************)
(* What a request is told of while it runs: pools that are full when it    *)
(* starts, and a statement it runs once per item.  Each goes to the log,   *)
(* which limits repeats, and once to the request's server span, which may  *)
(* end inside the send of the last body chunk.                             *)
(***************************************************************************)
EXTENDS Naturals, Sequences, FiniteSets, SequencesExt

CONSTANTS
  Requests, Databases, Statements,
  MinRepeats,     \* _N_PLUS_ONE_MIN_REPEATS
  MaxReported,    \* _MAX_REPORTED_STATEMENTS, each with its method and route
  MaxStatements,  \* _MAX_REQUEST_STATEMENTS
  Interval,       \* _WARN_INTERVAL_SECONDS
  MaxTime         \* bound: the clock

ASSUME RequestDiagnosticsAssumption ==
  /\ {MinRepeats, MaxReported, MaxStatements, Interval} \subseteq Nat \ {0}
  /\ MaxTime \in Nat

Pools       == Databases \cup {"threadpool"}
Name(pool)  == IF pool = "threadpool" THEN "threadpool.saturated" ELSE "db.pool_exhausted"
Diagnostics == {"threadpool.saturated", "db.pool_exhausted", "db.n_plus_one"}
Phases      == {"new", "running", "sent", "done"}

VARIABLES
  now,
  full,      \* the pools whose limit is reached, with calls waiting for a thread
  request,   \* of each: phase, span, events on it, statements counted; history: the full
             \* pools it met, when it began, and that its span was due the statement
  warnings,  \* history: the pools warned of, and when
  reportedStatements,  \* _reported_statements, the oldest first
  warnedOf       \* history: the statements warned of

diagnosticsVars == <<now, full, request, warnings, reportedStatements, warnedOf>>

\* Earlier requests may have been warned of a statement.
DiagnosticsInit ==
  /\ now = 0 /\ full = {} /\ warnings = {}
  /\ reportedStatements \in {<<>>} \cup {<<s>> : s \in Statements}
  /\ warnedOf = reportedStatements
  /\ request = [r \in Requests |->
       [phase |-> "new", span |-> "none", events |-> [d \in Diagnostics |-> 0],
        counts |-> [s \in Statements |-> 0], met |-> {}, began |-> 0, due |-> FALSE]]

\* add_diagnostic(): a span that records is given each diagnostic once.
AddDiagnostic(q, d) ==
  IF q.span = "open" /\ q.events[d] = 0 THEN [q EXCEPT !.events[d] = 1] ELSE q
AddDiagnostics(q, ds) ==
  [q EXCEPT !.events = [d \in Diagnostics |->
     IF d \in ds THEN AddDiagnostic(q, d).events[d] ELSE q.events[d]]]

WarnedLately(pool) == \E w \in warnings : w.pool = pool /\ now - w.at < Interval

-----------------------------------------------------------------------------
Elapse == now < MaxTime /\ now' = now + 1
        /\ UNCHANGED <<full, request, warnings, reportedStatements, warnedOf>>

\* Connections and threads are taken and given back by any code.
Fill == \E p \in Pools \ full : full' = full \cup {p}
        /\ UNCHANGED <<now, request, warnings, reportedStatements, warnedOf>>
Free == \E p \in full : full' = full \ {p}
        /\ UNCHANGED <<now, request, warnings, reportedStatements, warnedOf>>

\* check_pools(): the span is told of each full pool, the log once an interval.
Begin(r) ==
  /\ request[r].phase = "new"
  /\ \E span \in {"none", "open"} :
       LET q == [request[r] EXCEPT !.phase = "running", !.span = span, !.met = full,
                                          !.began = now]
       IN  request' = [request EXCEPT ![r] = AddDiagnostics(q, {Name(p) : p \in full})]
  /\ warnings' = warnings \cup {[pool |-> p, at |-> now] : p \in {p \in full : ~WarnedLately(p)}}
  /\ UNCHANGED <<now, full, reportedStatements, warnedOf>>

\* A statement is counted while there is room for it, and until the request is closed.
Query(r, s) ==
  LET q     == request[r]
      known == {t \in Statements : q.counts[t] > 0}
  IN  /\ q.phase \in {"running", "sent"}
      /\ q.counts[s] < MinRepeats  \* bound: more repeats tell no more
      /\ request' = IF s \in known \/ Cardinality(known) < MaxStatements
                    THEN [request EXCEPT ![r].counts[s] = @ + 1] ELSE request
      /\ UNCHANGED <<now, full, warnings, reportedStatements, warnedOf>>

Repeated(q) == {s \in Statements : /\ q.counts[s] >= MinRepeats
                                   /\ \A t \in Statements : q.counts[t] <= q.counts[s]}
Due(q) == q.span = "open" /\ Repeated(q) # {}
ReportToSpan(q) == IF Repeated(q) = {} THEN q ELSE AddDiagnostic(q, "db.n_plus_one")

\* Mutation of FinalSend: the report is left to the end of the request.
FinalSendSilent(r) ==
  /\ request[r].phase = "running"
  /\ request' = [request EXCEPT ![r] =
       [@ EXCEPT !.phase = "sent", !.due = Due(request[r])]]
  /\ UNCHANGED <<now, full, warnings, reportedStatements, warnedOf>>

\* The span is told before the last body chunk is sent, without a warning.
FinalSend(r) ==
  /\ request[r].phase = "running"
  /\ request' = [request EXCEPT ![r] =
       [ReportToSpan(@) EXCEPT !.phase = "sent", !.due = Due(request[r])]]
  /\ UNCHANGED <<now, full, warnings, reportedStatements, warnedOf>>

\* Tracing ends its span inside that send, or later.
SpanEnds(r) ==
  /\ request[r].phase = "sent" /\ request[r].span = "open"
  /\ request' = [request EXCEPT ![r].span = "ended"]
  /\ UNCHANGED <<now, full, warnings, reportedStatements, warnedOf>>

\* _finalize_request() and _report_repeated_statement(), with or without a final send.
End(r) ==
  /\ request[r].phase \in {"running", "sent"}
  /\ request' = [request EXCEPT ![r] =
       [ReportToSpan(request[r]) EXCEPT !.phase = "done",
                                        !.due = @ \/ Due(request[r])]]
  /\ \/ /\ Repeated(request[r]) = {}
        /\ UNCHANGED <<reportedStatements, warnedOf>>
     \/ \E s \in Repeated(request[r]) :
          IF s \in Range(reportedStatements) THEN UNCHANGED <<reportedStatements, warnedOf>>
          ELSE /\ reportedStatements' =
                    Append(IF Len(reportedStatements) >= MaxReported
                           THEN Tail(reportedStatements) ELSE reportedStatements, s)
               /\ warnedOf' = Append(warnedOf, s)
  /\ UNCHANGED <<now, full, warnings>>

DiagnosticsNext ==
  \/ Elapse \/ Fill \/ Free
  \/ \E r \in Requests : \/ Begin(r) \/ FinalSend(r) \/ SpanEnds(r) \/ End(r)
                         \/ \E s \in Statements : Query(r, s)

DiagnosticsSpec == DiagnosticsInit /\ [][DiagnosticsNext]_diagnosticsVars

-----------------------------------------------------------------------------
\* "Add at most one of each fixed diagnostic to the borrowed server span"
\* (request_context.py:177), "Per-request events are independent of process-wide warning
\* rate limits" (pools.py:91) and "ASGI tracing may end its server span inside
\* send(final_body)" (request_logging.py:140): a span has a pool's event exactly if the
\* pool, or another of that name, was full when its request started, and the statement's
\* exactly if it was repeated while the span could still be told.
SpansTellOnce ==
  \A r \in Requests : LET q == request[r] IN
    q.span # "none" =>
      /\ \A d \in Diagnostics \ {"db.n_plus_one"} :
           q.events[d] = IF \E p \in q.met : Name(p) = d THEN 1 ELSE 0
      /\ q.events["db.n_plus_one"] = IF q.due THEN 1 ELSE 0
      /\ q.phase = "done" /\ q.span = "open" /\ Repeated(q) # {} => q.due

\* "a warning at most once a minute per pool" (pools.py:7) and "Warn once per method,
\* route and statement" (request_logging.py:334): two warnings of a pool are an interval
\* apart, and whoever met it full was warned within one; a statement is warned of again
\* only after MaxReported others, and each one a request repeats is on record.
WarningsAreLimited ==
  /\ \A v, w \in warnings : v.pool = w.pool /\ v.at < w.at => w.at - v.at >= Interval
  /\ \A r \in Requests, p \in Pools : p \in request[r].met =>
       \E w \in warnings : w.pool = p /\ w.at <= request[r].began
                          /\ request[r].began - w.at < Interval
  /\ \A i, j \in DOMAIN warnedOf : i < j /\ warnedOf[i] = warnedOf[j] => j - i > MaxReported
  /\ \A r \in Requests : request[r].phase = "done" /\ Repeated(request[r]) # {} =>
       Repeated(request[r]) \cap Range(warnedOf) # {}

TellsOnce == SpansTellOnce /\ WarningsAreLimited

=============================================================================
