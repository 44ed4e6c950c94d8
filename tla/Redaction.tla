----------------------------- MODULE Redaction -----------------------------
(***************************************************************************)
(* What becomes of nested data before it is written: log events, whole     *)
(* records and captured bodies.  A value is a record of its kind: a text,  *)
(* a map from keys to values, a list, or what replaces one.  A key is a    *)
(* spelling, and Normal gives the name all its spellings share.            *)
(***************************************************************************)
EXTENDS Naturals, Sequences

CONSTANTS
  Normal,   \* a function from spellings to names: case, blanks, "_" for "-"
  MaxDepth, \* MAX_SANITIZE_DEPTH
  Data      \* the values there are; what a map or a list holds is one of them

Names == {Normal[k] : k \in DOMAIN Normal}

Text(t)      == [kind |-> "text", of |-> t]
Map(items)   == [kind |-> "map", items |-> items]
List(items)  == [kind |-> "list", items |-> items]
Mask         == [kind |-> "mask"]
Container(v) == v.kind \in {"map", "list"}

\* In drop mode the key is left out, which SanitizeMapping sees to.
RedactValue(v, policy) ==
  IF policy.mode = "hash" THEN [kind |-> "hash", of |-> v] ELSE Mask

\* A policy's allowlists are sets of names, Names itself for no list.  What becomes of
\* the items one level deeper is below[item][whether "headers" names it].
SanitizeMapping(items, policy, inHeaders, depth, allowed, below) ==
  LET Sensitive(k) == \/ Normal[k] \in policy.fields
                      \/ inHeaders /\ Normal[k] \in policy.headers
      kept == {k \in DOMAIN items :
                 /\ inHeaders => Normal[k] \in policy.allowedHeaders
                 /\ depth = 0 => Normal[k] \in allowed
                 /\ ~(Sensitive(k) /\ policy.mode = "drop")}
  IN  Map([k \in kept |-> IF Sensitive(k) THEN RedactValue(items[k], policy)
                          ELSE below[items[k]][Normal[k] = "headers"]])

\* Mutation of SanitizeValue: the items of a list are what its own name makes of them.
SanitizeListsAlike(v, policy, inHeaders, depth, allowed, below) ==
  CASE depth > MaxDepth /\ Container(v) -> Mask
    [] depth <= MaxDepth /\ v.kind = "map" ->
         SanitizeMapping(v.items, policy, inHeaders, depth, allowed, below)
    [] depth <= MaxDepth /\ v.kind = "list" ->
         List([i \in DOMAIN v.items |-> below[v.items[i]][inHeaders]])
    [] ~Container(v) -> v

SanitizeValue(v, policy, inHeaders, depth, allowed, below) ==
  CASE depth > MaxDepth /\ Container(v) -> Mask
    [] depth <= MaxDepth /\ v.kind = "map" ->
         SanitizeMapping(v.items, policy, inHeaders, depth, allowed, below)
    [] depth <= MaxDepth /\ v.kind = "list" ->
         List([i \in DOMAIN v.items |-> below[v.items[i]][FALSE]])
    [] ~Container(v) -> v

\* What becomes of every value, by the levels left below it: depth + left = MaxDepth + 1.
Sanitized(policy, allowed) ==
  LET clean[left \in 0..(MaxDepth + 1)] ==
        [v \in Data |-> [inHeaders \in BOOLEAN |->
           SanitizeValue(v, policy, inHeaders, MaxDepth + 1 - left, allowed,
                         IF left = 0 THEN <<>> ELSE clean[left - 1])]]
  IN  clean

Sanitize(items, policy, allowed) ==
  SanitizeMapping(items, policy, FALSE, 0, allowed, Sanitized(policy, allowed)[MaxDepth])

SanitizeEvent(v, policy) == Sanitize(v.items, policy, policy.allowedEvents)

\* The allowlist of event keys holds for the record's event only.
SanitizeRecord(v, policy) ==
  LET clean == Sanitize(v.items, policy, Names)
  IN  IF /\ policy.allowedEvents # Names
         /\ "event" \in DOMAIN v.items /\ v.items["event"].kind = "map"
         /\ "event" \in DOMAIN clean.items
      THEN Map([clean.items EXCEPT !["event"] = SanitizeEvent(v.items["event"], policy)])
      ELSE clean

-----------------------------------------------------------------------------
(* Bodies.  A body is a JSON value, a form of key-value pairs, or neither;  *)
(* "size" is the number of bytes, one for each key and each text.           *)

\* bytearray.extend() of what still fits, chunk by chunk.
Captured(chunks, max) ==
  LET buffered[i \in 0..Len(chunks)] ==
        IF i = 0 THEN 0
        ELSE buffered[i - 1] + IF chunks[i] <= max - buffered[i - 1] THEN chunks[i]
                               ELSE max - buffered[i - 1]
  IN  buffered[Len(chunks)]

\* A cut JSON text is no JSON; a form cut behind a key has a pair without "=".
Cut(body, max) ==
  IF body.size <= max THEN body
  ELSE CASE body.kind = "json" -> [kind |-> "cut", size |-> max]
         [] body.kind = "form" ->
              IF max % 2 = 1 THEN [kind |-> "other", size |-> max]
              ELSE [kind |-> "form", size |-> max, pairs |-> SubSeq(body.pairs, 1, max \div 2)]
         [] body.kind = "other" -> [kind |-> "other", size |-> max]

\* Drop is mask here; what cannot be inspected is masked as a whole.
Masking(policy) == IF policy.mode = "drop" THEN [policy EXCEPT !.mode = "mask"] ELSE policy

RedactBody(body, policy) ==
  LET masking == Masking(policy)
      Redacted(pair) == IF Normal[pair.key] \in policy.fields
                        THEN RedactValue(pair.value, masking) ELSE pair.value
  IN  CASE body.kind = "json" -> Sanitized(masking, Names)[MaxDepth + 1][body.value][FALSE]
        [] body.kind = "form" ->
             List([i \in 1..Len(body.pairs) |->
                     Map([k \in {body.pairs[i].key} |-> Redacted(body.pairs[i])])])
        [] body.kind \in {"cut", "other"} -> Mask

-----------------------------------------------------------------------------
(* The same by paths.  A step of a path is a key or the index of an item.   *)
Key(k)  == [key |-> k, item |-> 0]
Item(i) == [key |-> "none", item |-> i]
Steps   == [key : DOMAIN Normal, item : {0}] \cup [key : {"none"}, item : Nat \ {0}]

Nothing == [kind |-> "nothing"]

\* What a value holds under a key or an index, and along a path.
Part(v, step) ==
  IF \/ v.kind = "map" /\ step.item = 0 /\ step.key \in DOMAIN v.items
     \/ v.kind = "list" /\ step.item \in DOMAIN v.items
  THEN v.items[IF v.kind = "map" THEN step.key ELSE step.item] ELSE Nothing
Trail(v, path) ==
  LET at[i \in 0..Len(path)] == IF i = 0 THEN v ELSE Part(at[i - 1], path[i])
  IN  at
At(v, path) == Trail(v, path)[Len(path)]

InHeaders(path, i) ==
  i > 1 /\ path[i - 1].item = 0 /\ Normal[path[i - 1].key] = "headers"
LeftOut(path, i, policy, allowed) ==
  /\ path[i].item = 0
  /\ \/ InHeaders(path, i) /\ Normal[path[i].key] \notin policy.allowedHeaders
     \/ i = 1 /\ Normal[path[i].key] \notin allowed
IsSecret(path, i, policy) ==
  /\ path[i].item = 0
  /\ \/ Normal[path[i].key] \in policy.fields
     \/ InHeaders(path, i) /\ Normal[path[i].key] \in policy.headers

\* Under a path stands what the value holds there, but for what an allowlist leaves out,
\* what is sensitive (nothing is left below it) and what is too deep to inspect.
Written(v, path, policy, allowed) ==
  LET n    == Len(path)
      Gone == \/ At(v, path) = Nothing
              \/ \E i \in 1..n : LeftOut(path, i, policy, allowed)
              \/ \E i \in 1..n : IsSecret(path, i, policy) /\ (i < n \/ policy.mode = "drop")
              \/ n > MaxDepth + 1
  IN  IF Gone THEN Nothing
      ELSE IF n > 0 /\ IsSecret(path, n, policy) THEN RedactValue(At(v, path), policy)
      ELSE IF n = MaxDepth + 1 /\ Container(At(v, path)) THEN Mask
      ELSE At(v, path)

\* Of a map or a list, what it holds is seen along longer paths.
Shown(v) == IF Container(v) THEN [kind |-> v.kind] ELSE v

AsWritten(out, v, paths, policy, allowed) ==
  \A path \in paths : Shown(At(out, path)) = Shown(Written(v, path, policy, allowed))

\* The event of a record is written like an event, if there is an allowlist for events.
EventApart(v, policy) ==
  /\ policy.allowedEvents # Names
  /\ "event" \in DOMAIN v.items /\ v.items["event"].kind = "map"
  /\ ~(policy.mode = "drop" /\ Normal["event"] \in policy.fields)
RecordAsWritten(out, v, paths, policy) ==
  LET inEvent == {path \in paths : EventApart(v, policy) /\ path # <<>> /\ path[1] = Key("event")}
  IN  /\ AsWritten(out, v, paths \ inEvent, policy, Names)
      /\ AsWritten(out.items["event"], v.items["event"], {Tail(path) : path \in inEvent},
                   policy, policy.allowedEvents)

Total(chunks) ==
  LET sum[i \in 0..Len(chunks)] == IF i = 0 THEN 0 ELSE sum[i - 1] + chunks[i]
  IN  sum[Len(chunks)]

\* A form is written like the list of its pairs.
Listed(pairs) ==
  List([i \in 1..Len(pairs) |-> Map([k \in {pairs[i].key} |-> pairs[i].value])])

\* A body cut by the capture is masked, unless it is a form that keeps whole pairs.
BodiesAsWritten(c, max) ==
  LET captured == Captured(c.chunks, max)
      json == [kind |-> "json", value |-> c.value, size |-> Total(c.chunks)]
      form == [kind |-> "form", pairs |-> c.pairs, size |-> Total(c.chunks)]
      Body(whole) == RedactBody(Cut(whole, captured), c.policy)
  IN  /\ IF max < Total(c.chunks) THEN Body(json) = Mask
         ELSE AsWritten(Body(json), c.value, c.paths, Masking(c.policy), Names)
      /\ IF max < Total(c.chunks) /\ max % 2 = 1 THEN Body(form) = Mask
         ELSE LET kept == IF max < Total(c.chunks) THEN SubSeq(c.pairs, 1, max \div 2) ELSE c.pairs
              IN  AsWritten(Body(form), Listed(kept), c.paths, Masking(c.policy), Names)

\* "Matching ignores case and treats underscores as hyphens" (docs/security.md:16), and
\* "cut-off JSON" is "masked as a whole" (docs/security.md:107): sensitive keys are
\* redacted at any depth, in every spelling, and nothing else is lost or added, in an
\* event, in a record and in a body.
WrittenByPath(c) ==
  /\ AsWritten(SanitizeEvent(c.value, c.policy), c.value, c.paths, c.policy, c.policy.allowedEvents)
  /\ RecordAsWritten(SanitizeRecord(c.value, c.policy), c.value, c.paths, c.policy)
  /\ \A max \in 0..Total(c.chunks) : BodiesAsWritten(c, max)

=============================================================================
