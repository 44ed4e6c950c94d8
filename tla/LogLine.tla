------------------------------ MODULE LogLine ------------------------------
(***************************************************************************)
(* One log record on its way to its lines: the filters on the thread that  *)
(* made it, the enrichers and the redaction on the listener's thread, once *)
(* for each output, and the volume counted for its route.  A record's keys *)
(* are a set; its event is shared by every payload made of the record.     *)
(***************************************************************************)
EXTENDS Naturals, Sequences, FiniteSets, SequencesExt

CONSTANTS
  None,    \* no ID, no route
  Secret   \* the keys the policy redacts

-----------------------------------------------------------------------------
(* On the thread that logs.  A context is the request's ID, trace and route *)
(* and the span that is current, each None for none.                        *)

\* RequestIdFilter and TraceContextFilter; a valid span goes before the caller's trace.
Capture(record, context, counting) ==
  LET trace == IF context.span # None THEN context.span ELSE context.trace
  IN  [record EXCEPT !.id    = IF @ # None THEN @ ELSE context.id,
                     !.trace = IF trace # None THEN trace ELSE @,
                     !.route = IF counting THEN context.route ELSE @]

\* A plugin that raises is reported by a record that the same plugins leave alone.
FilterFailed   == [flags |-> {"_skip_enrichers", "_skip_log_filters"}]
EnricherFailed == [flags |-> {"_skip_enrichers"}]

\* The filters asked, up to the first that rejects.
Asked(record, filters) ==
  IF "_skip_log_filters" \in record.flags THEN <<>>
  ELSE LET rejecting == {i \in DOMAIN filters : filters[i] = "rejects"}
       IN  IF rejecting = {} THEN filters
           ELSE SubSeq(filters, 1, CHOOSE i \in rejecting : \A j \in rejecting : i <= j)

ApplyLogFilters(record, filters) ==
  LET asked == Asked(record, filters)
  IN  [passes |-> asked = <<>> \/ Last(asked) # "rejects",
       failed |-> "raises" \in Range(asked)]

-----------------------------------------------------------------------------
(* On the listener's thread.                                                *)

\* One enricher: a copy of the payload, whose event is the record's own.  One that breaks
\* the line adds a value that no redaction touches and orjson.dumps() refuses.
Enrich(payload, enricher) ==
  CASE enricher = "adds"    -> [payload EXCEPT !.keys = @ \cup {"tenant"}]
    [] enricher = "leaks"   -> [payload EXCEPT !.keys = @ \cup Secret]
    [] enricher = "nothing" -> payload
    [] enricher = "notes"   -> [payload EXCEPT !.event = @ \cup {"note"}]
    [] enricher = "raises"  -> [payload EXCEPT !.event = @ \cup {"note"}, !.failed = TRUE]
    [] enricher = "breaks"  -> [payload EXCEPT !.keys = @ \cup {"unwritable"}]

\* Mutation of ApplyLogEnrichers: the first that raises ends the enrichment.
EnrichUpToFailure(payload, enrichers) ==
  FoldLeft(LAMBDA p, e : IF p.failed THEN p ELSE Enrich(p, e), payload, enrichers)

ApplyLogEnrichers(payload, enrichers) ==
  LET after[n \in 0..Len(enrichers)] ==
        IF n = 0 THEN payload ELSE Enrich(after[n - 1], enrichers[n])
  IN after[Len(enrichers)]

\* The error keeps its type when its text has a URL's credentials stripped.
Payload(record) ==
  [keys   |-> {"message"} \cup (IF record.id # None THEN {"request_id"} ELSE {})
                \cup (IF record.error THEN {"error"} ELSE {}),
   event  |-> record.event, failed |-> FALSE]

\* format(): enrichment, then redaction. What a filter captured goes before what is
\* current on the listener's thread.
Format(record, enrichers, listener) ==
  LET found   == [record EXCEPT !.id    = IF @ # None THEN @ ELSE listener.id,
                                !.trace = IF @ # None THEN @ ELSE listener.trace]
      payload == IF "_skip_enrichers" \in record.flags THEN Payload(found)
                 ELSE ApplyLogEnrichers(Payload(found), enrichers)
  IN  [line   |-> [id |-> found.id, trace |-> found.trace,
                   keys |-> payload.keys \ Secret, event |-> payload.event \ Secret],
       event  |-> payload.event, failed |-> payload.failed]

\* One output of the record.  An open breaker skips it, OTLP formats a copy, and a payload
\* that cannot be written raises out of format(): the output has no line and counts none.
Written(sent, output, enrichers, listener) ==
  LET done    == Format(sent.record, enrichers, listener)
      written == "unwritable" \notin done.line.keys
      counts  == written /\ sent.record.route # None /\ ~sent.record.counted
  IN  IF output = "open" THEN sent
      ELSE [record |-> [sent.record EXCEPT !.event = IF output = "otlp" THEN @ ELSE done.event,
                                           !.counted = @ \/ (counts /\ output # "otlp")],
            lines  |-> IF written THEN Append(sent.lines, done.line) ELSE sent.lines,
            count  |-> sent.count + IF counts THEN 1 ELSE 0,
            failed |-> sent.failed \/ done.failed]

\* The outputs of a setup: its sinks, then OTLP.
WriteAll(record, outputs, enrichers, listener) ==
  LET sent[n \in 0..Len(outputs)] ==
        IF n = 0 THEN [record |-> record, lines |-> <<>>, count |-> 0, failed |-> FALSE]
        ELSE Written(sent[n - 1], outputs[n], enrichers, listener)
  IN sent[Len(outputs)]

-----------------------------------------------------------------------------
\* The records that failing plugins add to a log in which a record with these flags was
\* logged.
Causes(flags, filters, enrichers, outputs) ==
  LET record   == [id |-> None, trace |-> None, route |-> None, event |-> {}, error |-> FALSE,
                   counted |-> FALSE, flags |-> flags]
      filtered == ApplyLogFilters(record, filters)
      sent     == WriteAll(record, outputs, enrichers, record)
  IN  (IF filtered.failed THEN {FilterFailed.flags} ELSE {})
      \cup (IF filtered.passes /\ sent.failed THEN {EnricherFailed.flags} ELSE {})

NextCauses(causes, filters, enrichers, outputs) ==
  UNION {Causes(flags, filters, enrichers, outputs) : flags \in causes}

\* "Plugin failures are isolated" (docs/plugins.md:32), "their request's context vars are
\* not visible" where lines are made (logging/filters.py:15), and "every sink formats the
\* same record and it's counted once" (logging/volume.py:36).  A line has the ID and the
\* trace, its span's or its caller's, that the record or its thread had, whatever is current
\* where it is formatted (a record that came without takes what is current there); it has
\* the keys of every enricher that did not raise and none that is secret, the event's too.
\* Every output whose breaker is not open writes one, unless an enricher broke it, and it
\* is counted once however many they are.  A filter that raises lets the record pass; and
\* the records plugins add by failing stop after two more rounds.
LineIsWhole(c) ==
  LET captured == Capture(c.record, c.context, c.counting)
      sent     == WriteAll(captured, c.outputs, c.enrichers, c.listener)
      causes   == Causes(c.record.flags, c.filters, c.enrichers, c.outputs)
      further  == NextCauses(causes, c.filters, c.enrichers, c.outputs)
      enriched == "_skip_enrichers" \notin c.record.flags
  IN  /\ \A i \in DOMAIN sent.lines : LET line == sent.lines[i] IN
           /\ c.record.id # None => line.id = c.record.id
           /\ c.record.id = None /\ c.context.id # None => line.id = c.context.id
           /\ c.context.span # None => line.trace = c.context.span
           /\ c.context.span = None /\ c.context.trace # None => line.trace = c.context.trace
           /\ c.context.span = None /\ c.context.trace = None /\ c.record.trace # None =>
                line.trace = c.record.trace
           /\ (line.keys \cup line.event) \cap Secret = {}
           /\ "tenant" \in line.keys <=> enriched /\ "adds" \in Range(c.enrichers)
           /\ line.event \ {"note"} = c.record.event \ (Secret \cup {"note"})
      /\ Len(sent.lines) =
           IF enriched /\ "breaks" \in Range(c.enrichers) THEN 0
           ELSE Cardinality({i \in DOMAIN c.outputs : c.outputs[i] # "open"})
      /\ sent.count = IF c.counting /\ sent.lines # <<>> THEN 1 ELSE 0
      /\ ApplyLogFilters(c.record, c.filters).passes <=>
           "_skip_log_filters" \in c.record.flags \/ "rejects" \notin Range(c.filters)
      /\ NextCauses(further, c.filters, c.enrichers, c.outputs) = {}

=============================================================================
