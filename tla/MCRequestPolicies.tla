------------------------- MODULE MCRequestPolicies -------------------------
(***************************************************************************)
(* Small inputs for RequestPolicies, each an initial state, and small      *)
(* instances of the control plane and the diagnostics: "part" is also      *)
(* "control" or "diagnostics".                                             *)
(***************************************************************************)
EXTENDS RequestPolicies, RuntimeControl, RequestDiagnostics

MCVars == <<controlVars, diagnosticsVars, part, input>>

UpTo(S, n) == UNION {[1..m -> S] : m \in 0..n}

-----------------------------------------------------------------------------
SmallValidIds == {"valid id"}
SmallSecret   == {"password"}
SmallTexts    == {"proxy", "client", "other", "valid id", "bad id", "trace", Blank,
                  "production", "development", "", "gdpr", "unknown", "card", "none", "accept",
                  "hash", "info", "true", "grpc", "carrier pigeon", "http/protobuf", "/health",
                  "/docs", "caller", "inbound", "span", "/r", "path", "password", "own",
                  "elsewhere"}

Lines == {[name |-> "x-forwarded-for", entries |-> es] :
            es \in UpTo({"proxy", "client", Blank}, 2) \ {<<>>}}
Ids   == {<<>>, <<[name |-> "x-request-id", entries |-> <<"valid id">>],
                  [name |-> "traceparent", entries |-> <<"trace">>]>>,
          <<[name |-> "x-request-id", entries |-> <<"bad id">>]>>}
SmallArrivals ==
  {[peer |-> peer, headers |-> ids \o lines,
    policy |-> [enabled |-> enabled, honor |-> honor, trusted |-> trusted]] :
     peer \in {"proxy", "other", None}, lines \in UpTo(Lines, 2), ids \in Ids,
     enabled \in BOOLEAN, honor \in BOOLEAN, trusted \in SUBSET {"proxy", "other"}}

-----------------------------------------------------------------------------
SmallNormal ==
  [s \in {"pass_word", "Pass-Word", "user", "Headers", "X_Key", "event", "name"} |->
     CASE s \in {"pass_word", "Pass-Word"} -> "pass-word" [] s = "Headers" -> "headers"
       [] s = "X_Key" -> "x-key" [] OTHER -> s]
SmallMaxDepth == 2

\* The shapes of data, whatever data there is.
Shapes == INSTANCE Redaction WITH Normal <- SmallNormal, MaxDepth <- SmallMaxDepth, Data <- {}

Keys     == {"Pass-Word", "user", "Headers", "X_Key"}
Wraps(S) == S \cup {Shapes!Map(k :> v) : k \in Keys, v \in S}
              \cup {Shapes!List(<<v>>) : v \in S}
Values   == Wraps(Wraps(Wraps({Shapes!Text("t")}))) \cup {Shapes!List(<<>>)}
Named(k, v) == Shapes!Map(k :> v @@ "name" :> Shapes!Text("t"))
FormPairs   == <<[key |-> "X_Key", value |-> Shapes!Text("t")],
                 [key |-> "Pass-Word", value |-> Shapes!Text("t")]>>
SmallData ==
  Values \cup {Named(k, v) : k \in {"pass_word", "user", "Headers", "event"}, v \in Values}
         \cup {Shapes!Listed(SubSeq(FormPairs, 1, n)) : n \in 0..2}

SmallSteps == {Cleaning!Key(k) : k \in Keys \cup {"pass_word", "event", "name"}} \cup {Cleaning!Item(1)}

\* The paths through a value, and those one step farther.
RECURSIVE Walks(_)
Walks(v) ==
  {<<>>} \cup (IF v.kind \notin {"map", "list"} THEN {}
               ELSE UNION {{<<step>> \o path : path \in Walks(Cleaning!Part(v, step))} :
                             step \in SmallSteps})

FormPaths == {<<Cleaning!Item(i), Cleaning!Key(k)>> : i \in {1, 2}, k \in {"X_Key", "Pass-Word"}}
NestedCases(v) ==
  LET paths == Walks(v) \cup FormPaths
  IN  {[value |-> v, paths |-> paths, chunks |-> <<1, 0, 3>>,
        pairs |-> FormPairs,
        policy |-> [mode |-> mode, fields |-> {"pass-word"}, headers |-> {"x-key"},
                    allowedHeaders |-> headers, allowedEvents |-> events]] :
         mode \in {"mask", "hash", "drop"}, headers \in {Cleaning!Names, {"x-key", "pass-word"}},
         events \in {Cleaning!Names, {"headers", "pass-word", "name"}}}
SmallNested == UNION {NestedCases(Named(k, v)) : k \in {"pass_word", "user", "Headers", "event"}, v \in Values}

-----------------------------------------------------------------------------
NoVariables == [v \in Variables |-> Unset]
PolicyEnvs ==
  {[NoVariables EXCEPT !.profile = profile, !.preset = preset, !.fields = fields,
                       !.headers = headers, !.mode = mode] :
     profile \in {Unset, "production"}, preset \in {Unset, "", "gdpr", "unknown"},
     fields \in {Unset, "", "card"}, headers \in {Unset, "none", "", "accept"},
     mode \in {Unset, "hash"}}
OtelEnvs ==
  {[NoVariables EXCEPT !.profile = "development", !.level = obsLevel, !.sdkDisabled = disabled,
                       !.otel = "true", !.ownProtocol = own, !.protocol = shared,
                       !.excluded = excluded, !.otelExcluded = otelExcluded] :
     obsLevel \in {Unset, "info"}, disabled \in {Unset, "true"}, own \in {Unset, "grpc", "carrier pigeon"},
     shared \in {Unset, "http/protobuf"}, excluded \in {Unset, "", "/health"},
     otelExcluded \in {Unset, "/docs"}}
SmallEnvironments == {PolicyEnvs, OtelEnvs}

-----------------------------------------------------------------------------
Callers == {[id |-> id, trace |-> trace, span |-> span, route |-> "/r"] :
               id \in {None, "caller"}, trace \in {None, "inbound"}, span \in {None, "span"}}
SmallLogged ==
  {[record |-> [id |-> id, trace |-> id, route |-> None, event |-> {"password", "path"},
                error |-> FALSE, counted |-> FALSE, flags |-> flags],
    context |-> context, counting |-> counting, filters |-> filters, enrichers |-> enrichers,
    outputs |-> outputs, listener |-> [id |-> "other", trace |-> "elsewhere"]] :
     id \in {None, "own"}, flags \in {{}, {"_skip_enrichers"}}, context \in Callers,
     counting \in BOOLEAN, filters \in {<<>>, <<"raises">>, <<"raises", "rejects", "passes">>},
     enrichers \in UpTo({"adds", "leaks", "nothing", "notes", "raises", "breaks"}, 2),
     outputs \in {<<"otlp">>, <<"sink", "otlp">>, <<"open", "sink", "sink">>, <<"open">>}}

-----------------------------------------------------------------------------
ControlRests == /\ ControlInit /\ ~sampler /\ ~managed /\ token = CHOOSE t \in Tokens : TRUE
                /\ level = Warning /\ ratio = CHOOSE r \in Ratios : TRUE
DiagnosticsRest == DiagnosticsInit /\ reportedStatements = <<>>

MCInit ==
  \/ /\ ControlRests /\ DiagnosticsRest
     /\ PoliciesInit
  \/ part = "control" /\ input = None /\ ControlInit /\ DiagnosticsRest
  \/ part = "diagnostics" /\ input = None /\ DiagnosticsInit /\ ControlRests

MCNext ==
  \/ part = "control" /\ ControlNext /\ UNCHANGED <<diagnosticsVars, part, input>>
  \/ part = "diagnostics" /\ DiagnosticsNext /\ UNCHANGED <<controlVars, part, input>>

Interchangeable == Permutations(Requests) \cup Permutations(Statements)

MCSpec == MCInit /\ [][MCNext]_MCVars

=============================================================================
