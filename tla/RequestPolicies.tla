-------------------------- MODULE RequestPolicies ---------------------------
(***************************************************************************)
(* What decides about a request and its record without a state of its own: *)
(* the client's address, the settings, the line of a record and the        *)
(* redaction of nested data.  Each input is an initial state; "part" says  *)
(* which of the four it is for.                                            *)
(***************************************************************************)
EXTENDS Naturals, Sequences

CONSTANTS
  None, Blank, ValidIds, Fresh,  \* of ClientAddress
  Unset, NoList,                 \* of PolicySettings
  Secret,                        \* of LogLine
  Normal, MaxDepth, Data,        \* of Redaction
  Texts,         \* what stands for a text: addresses, header entries, values, IDs, keys
  Arrivals,      \* peers with the headers they sent, and the policy
  Environments,  \* sets of environments that are compared with each other
  Logged,        \* records with their context, plugins and outputs
  Nested         \* data to redact with the policy, and bodies with their chunks

VARIABLES
  part,  \* "address", "settings", "line" or "redaction"
  input

Address  == INSTANCE ClientAddress
Settings == INSTANCE PolicySettings
Line     == INSTANCE LogLine
Cleaning == INSTANCE Redaction

-----------------------------------------------------------------------------
Headers == [name : STRING, entries : Seq(Texts)]
Proxies == [enabled : BOOLEAN, honor : BOOLEAN, trusted : SUBSET Texts]

Variables == {"profile", "preset", "fields", "headers", "mode", "level", "sdkDisabled", "otel",
              "ownProtocol", "protocol", "excluded", "otelExcluded"}

\* Where a line is made no route has been set; while one is counted there is a route.
Records  == [id : Texts \cup {None}, trace : Texts \cup {None}, route : {None},
             event : SUBSET Texts, error : BOOLEAN, counted : {FALSE},
             flags : SUBSET {"_skip_enrichers", "_skip_log_filters"}]
Contexts == [id : Texts \cup {None}, trace : Texts \cup {None}, span : Texts \cup {None},
             route : Texts \ {None}]

\* OTLP comes after every sink.
Outputs == {outputs \in Seq({"sink", "open", "otlp"}) :
              \A i \in 1..Len(outputs) : outputs[i] = "otlp" => i = Len(outputs)}

\* Keys are spellings that have a name; how deep the data goes is left open.
Holders  == {v \in Data : v.kind \in {"map", "list"}}
Policies == [mode : {"mask", "hash", "drop"},
             fields : SUBSET Cleaning!Names, headers : SUBSET Cleaning!Names,
             allowedHeaders : SUBSET Cleaning!Names, allowedEvents : SUBSET Cleaning!Names]

ASSUME DataAssumption ==
  /\ MaxDepth \in Nat \ {0} /\ "event" \in DOMAIN Normal
  /\ \A v \in Data : v.kind \in {"map", "list", "text"}
  /\ \A v \in Holders :
       /\ v = [kind |-> v.kind, items |-> v.items]
       /\ v.kind = "map" => v.items \in [DOMAIN v.items -> Data] /\ DOMAIN v.items \subseteq DOMAIN Normal
       /\ v.kind = "list" => v.items \in Seq(Data)
  /\ \A c \in Nested :
       /\ c.value \in Data /\ c.value.kind = "map" /\ c.policy \in Policies
       /\ c.pairs \in Seq([key : DOMAIN Normal, value : {v \in Data : v.kind = "text"}])
       /\ \A n \in 0..Len(c.pairs) : Cleaning!Listed(SubSeq(c.pairs, 1, n)) \in Data
       /\ c.chunks \in Seq(Nat) /\ Cleaning!Total(c.chunks) = 2 * Len(c.pairs)
       /\ c.paths \subseteq Seq(Cleaning!Steps)

ASSUME RequestPoliciesAssumption ==
  /\ Arrivals \subseteq [peer : Texts \cup {None}, headers : Seq(Headers), policy : Proxies]
  /\ \A envs \in Environments : envs \subseteq [Variables -> Texts \cup {Unset}]
  /\ NoList \notin Texts \cup {Unset, "default fields", "pci fields", "gdpr fields"}
  /\ Unset \notin {"", "none", "true"}

\* No policy names a key that only LogLine has.
ASSUME LoggedAssumption ==
  /\ Logged \subseteq
       [record : Records, context : Contexts, counting : BOOLEAN,
        filters : Seq({"passes", "rejects", "raises"}),
        enrichers : Seq({"adds", "leaks", "nothing", "notes", "raises", "breaks"}),
        outputs : Outputs, listener : [id : Texts \cup {None}, trace : Texts \cup {None}]]
  /\ "tenant" \notin Secret /\ "unwritable" \notin Secret

PoliciesInit ==
  \/ part = "address" /\ input \in Arrivals
  \/ part = "settings" /\ input \in UNION Environments
  \/ part = "line" /\ input \in Logged
  \/ part = "redaction" /\ input \in Nested

PoliciesSpec == PoliciesInit /\ [][FALSE]_<<part, input>>

-----------------------------------------------------------------------------
\* ClientAddress: a request is attributed to the nearest address that only trusted
\* proxies separate from us, and takes its IDs from a trusted peer only.
OnlyTrustedHopsCount == part = "address" => Address!TrustedHopsCount(input)

\* PolicySettings: a variable that is set decides its setting, whatever the others say.
ExplicitWins ==
  part = "settings" =>
    \A envs \in Environments : input \in envs => Settings!SettingsStand(input, envs)

\* LogLine: a record's lines are the caller's, redacted, and counted once.
FaultsStayLocal == part = "line" => Line!LineIsWhole(input)

\* Redaction: what is written of nested data is decided along the paths to its parts.
RedactedByPath == part = "redaction" => Cleaning!WrittenByPath(input)

=============================================================================
