----------------------------- MODULE HttpCalls -----------------------------
(***************************************************************************)
(* One task of a request calling instrumented HTTP clients: the wrapper of *)
(* _wrap_send() counts a call, OpenTelemetry's wrapper opens a client span *)
(* which the span processor would count too. Each client is wrapped in     *)
(* layers, whose order is that of the instrumentation calls. A send may    *)
(* send again (a redirect) or run code that calls another client (a hook,  *)
(* an authentication exchange), and its stream may be read long after it   *)
(* returned.                                                               *)
(*                                                                         *)
(* What tasks share, the set of marked spans, is keyed by span, so one     *)
(* task is enough. Every span is recorded: without spans a client has only *)
(* its native layers. Error categories are two: the status of the          *)
(* response, and a failed transfer.                                        *)
(***************************************************************************)
EXTENDS Naturals, Sequences, FiniteSets

CONSTANTS
  Clients,    \* client objects: the owners in _ACTIVE_CLIENT
  Layerings,  \* the ways a client can be wrapped: sequences of "native" and "span"
  MaxCalls,   \* bound: calls, redirects not counted
  MaxSpans,   \* bound: client spans
  MaxFrames,  \* bound: nesting
  None

\* OpenTelemetry opens no second span around the wrapper that counts: it wraps send()
\* once, or the transport below it, which an instance and its class may both be.
OneSpanOutside(layering) ==
  \A i, j \in DOMAIN layering : i < j /\ layering[i] = "span" /\ layering[j] = "span" =>
    \E n \in DOMAIN layering : n < j /\ layering[n] = "native"

ASSUME HttpCallsAssumption ==
  /\ Layerings \subseteq Seq({"native", "span"}) \ {<<>>}
  /\ \A layering \in Layerings : OneSpanOutside(layering)
  /\ MaxCalls \in Nat /\ MaxSpans \in Nat /\ MaxFrames \in Nat
  /\ None \notin Clients

VARIABLES
  layers,     \* each client's layering
  stack,      \* the sends and layers the task is in
  unwinding,  \* "no", or how the top frame is being left: "returns" or "raises"
  active,     \* _ACTIVE_CLIENT
  calls,      \* history: each call's client, whether it is inside a send of its own
              \* client, and whether its wrapper saw the request open
  handles,    \* the CallHandle of each counted call, with its response's stream
  spans,      \* client spans: their call, and "live" or what on_end made of them
  marked,     \* RequestState.http_span_ids
  closed      \* RequestState.closed

vars == <<layers, stack, unwinding, active, calls, handles, spans, marked, closed>>

-----------------------------------------------------------------------------
Top == stack[Len(stack)]
Pop == SubSeq(stack, 1, Len(stack) - 1)
Push(kind, call, todo, item) ==
  Append(stack, [kind |-> kind, call |-> call, todo |-> todo, item |-> item, saved |-> active])

Native(c) == \E i \in DOMAIN layers[c] : layers[c][i] = "native"
Running == stack # <<>> /\ unwinding = "no"

\* trace.get_current_span(): the innermost span that the task is in.
CurrentSpan ==
  LET inside == {i \in DOMAIN stack : stack[i].kind = "span"}
  IN {stack[i].item : i \in {j \in inside : \A n \in inside : n <= j}}

Init ==
  /\ layers \in [Clients -> Layerings]
  /\ stack = <<>>
  /\ unwinding = "no"
  /\ active = None
  /\ calls = <<>>
  /\ handles = <<>>
  /\ spans = <<>>
  /\ marked = {}
  /\ closed = FALSE

-----------------------------------------------------------------------------
(* Into a send.                                                             *)

\* client.send(), by the endpoint or by a hook of the send the task is in.
Send(c) ==
  /\ stack = <<>> \/ (Running /\ Top.kind # "send")
  /\ unwinding = "no"
  /\ Len(calls) < MaxCalls /\ Len(stack) < MaxFrames
  /\ calls' = Append(calls,
       [client |-> c, open |-> FALSE,
        nested |-> \E i \in DOMAIN stack : calls[stack[i].call].client = c])
  /\ stack' = Push("send", Len(calls) + 1, layers[c], 0)
  /\ UNCHANGED <<layers, unwinding, active, handles, spans, marked, closed>>

\* The innermost send follows a redirect by sending again on its client.
Redirect ==
  /\ Running /\ Top.todo = <<>> /\ Len(stack) < MaxFrames
  /\ stack' = Push("send", Top.call, layers[calls[Top.call].client], 0)
  /\ UNCHANGED <<layers, unwinding, active, calls, handles, spans, marked, closed>>

\* Mutations of PassesThrough: a wrapper never lets a send through; every nested one.
NeverThrough(c) == closed
ThroughIfNested(c) == closed \/ active # None

\* begin(): no request, or a wrapper of this client is already counting.
PassesThrough(c) == closed \/ active = c

EnterNative ==
  LET k == Top.call
      c == calls[k].client IN
  /\ Running /\ Top.todo # <<>> /\ Head(Top.todo) = "native"
  /\ calls' = [calls EXCEPT ![k].open = @ \/ ~closed]
  /\ IF PassesThrough(c)
     THEN /\ stack' = Push("native", k, Tail(Top.todo), 0)
          /\ UNCHANGED <<active, handles, marked>>
     ELSE /\ stack' = Push("native", k, Tail(Top.todo), Len(handles) + 1)
          /\ active' = c
          /\ handles' = Append(handles, [call |-> k, state |-> "pending", stream |-> "none"])
          /\ marked' = marked \cup CurrentSpan
  /\ UNCHANGED <<layers, unwinding, spans, closed>>

\* The span starts: on_start captures its owner and marks it inside a counted send.
EnterSpan ==
  LET s == Len(spans) + 1 IN
  /\ Running /\ Top.todo # <<>> /\ Head(Top.todo) = "span" /\ Len(spans) < MaxSpans
  /\ stack' = Push("span", Top.call, Tail(Top.todo), s)
  /\ spans' = Append(spans, [call |-> Top.call, state |-> "live"])
  /\ marked' = IF ~closed /\ active # None THEN marked \cup {s} ELSE marked
  /\ UNCHANGED <<layers, unwinding, active, calls, handles, closed>>

-----------------------------------------------------------------------------
(* Out of it.                                                               *)

\* The transport answers or fails; a hook may raise before it is reached.
Answer ==
  /\ Running /\ Top.kind # "send"
  /\ unwinding' \in (IF Top.todo = <<>> THEN {"returns", "raises"} ELSE {"raises"})
  /\ UNCHANGED <<layers, stack, active, calls, handles, spans, marked, closed>>

\* _Call.finish(): the first finish counts, if the request is still open.
Finish(h, outcome, stream) ==
  handles' = [handles EXCEPT ![h].stream = stream,
                             ![h].state = IF @ = "pending" /\ ~closed THEN outcome ELSE @]

\* Mutation of LeaveNative: a send that raises is not finished.
LeaveUnfinished ==
  /\ unwinding # "no" /\ Top.kind = "native"
  /\ stack' = Pop
  /\ IF Top.item = 0
     THEN UNCHANGED <<active, handles>>
     ELSE /\ active' = Top.saved
          /\ IF unwinding = "raises"
             THEN UNCHANGED handles
             ELSE Finish(Top.item, "status", "none") \/ Finish(Top.item, "pending", "open")
  /\ UNCHANGED <<layers, unwinding, calls, spans, marked, closed>>

\* _watch_response() finishes a consumed response and watches an open stream.
LeaveNative ==
  /\ unwinding # "no" /\ Top.kind = "native"
  /\ stack' = Pop
  /\ IF Top.item = 0
     THEN UNCHANGED <<active, handles>>
     ELSE /\ active' = Top.saved
          /\ IF unwinding = "raises"
             THEN Finish(Top.item, "failed", "none")
             ELSE Finish(Top.item, "status", "none") \/ Finish(Top.item, "pending", "open")
  /\ UNCHANGED <<layers, unwinding, calls, spans, marked, closed>>

\* on_end: a span of a call that is counted natively is not counted again.
LeaveSpan ==
  /\ unwinding # "no" /\ Top.kind = "span"
  /\ stack' = Pop
  /\ spans' = [spans EXCEPT ![Top.item].state =
                 IF closed THEN "late" ELSE IF Top.item \in marked THEN "skipped" ELSE "counted"]
  /\ marked' = marked \ {Top.item}
  /\ UNCHANGED <<layers, unwinding, active, calls, handles, closed>>

\* The caller has the response, or the exception, which a hook need not catch.
LeaveSend ==
  /\ unwinding # "no" /\ Top.kind = "send"
  /\ stack' = Pop
  /\ unwinding' \in (IF unwinding = "raises" /\ Len(stack) > 1 THEN {"no", "raises"} ELSE {"no"})
  /\ UNCHANGED <<layers, active, calls, handles, spans, marked, closed>>

\* A watched stream is read to its end or closed, or one of these raises; a reader
\* that only stops changes nothing.
StreamEnds(h) ==
  /\ handles[h].stream = "open"
  /\ \E outcome \in {"status", "failed"}, stream \in {"open", "closed"} :
       Finish(h, outcome, stream)
  /\ UNCHANGED <<layers, stack, unwinding, active, calls, spans, marked, closed>>

\* The request ends, with the task perhaps still running.
Close ==
  /\ ~closed
  /\ closed' = TRUE
  /\ marked' = {}
  /\ UNCHANGED <<layers, stack, unwinding, active, calls, handles, spans>>

Next ==
  \/ \E c \in Clients : Send(c)
  \/ Redirect \/ EnterNative \/ EnterSpan
  \/ Answer \/ LeaveNative \/ LeaveSpan \/ LeaveSend
  \/ \E h \in DOMAIN handles : StreamEnds(h)
  \/ Close

Spec == Init /\ [][Next]_vars

-----------------------------------------------------------------------------
Frames == [kind : {"send", "native", "span"}, call : DOMAIN calls,
           todo : Seq({"native", "span"}), item : Nat, saved : Clients \cup {None}]

TypeOK ==
  /\ layers \in [Clients -> Layerings]
  /\ stack \in Seq(Frames)
  /\ unwinding \in {"no", "returns", "raises"} /\ (stack = <<>> => unwinding = "no")
  /\ active \in Clients \cup {None}
  /\ calls \in Seq([client : Clients, open : BOOLEAN, nested : BOOLEAN])
  /\ handles \in Seq([call : DOMAIN calls, state : {"pending", "status", "failed"},
                      stream : {"none", "open", "closed"}])
  /\ spans \in Seq([call : DOMAIN calls, state : {"live", "counted", "skipped", "late"}])
  /\ marked \subseteq (IF closed THEN {} ELSE DOMAIN spans)
  /\ closed \in BOOLEAN

HandlesOf(k) == {h \in DOMAIN handles : handles[h].call = k}
Counted(k) == {s \in DOMAIN spans : spans[s].call = k /\ spans[s].state = "counted"}

(* "counting each call once even when it also creates a span"               *)
(* (docs/opentelemetry.md:120): whatever the order of the wrappers, and     *)
(* however often its client is wrapped, a call of a natively counted client *)
(* is counted at most once, redirects included.                             *)
CountedOnce ==
  \A k \in DOMAIN calls :
    Native(calls[k].client) => Cardinality(HandlesOf(k)) + Cardinality(Counted(k)) <= 1

(* "without losing calls made by other clients in a request hook"           *)
(* (http_calls.py:185): a call whose wrapper found the request open has its *)
(* handle, unless it was made from inside a send of the same client, which  *)
(* cannot be told from a redirect.                                          *)
NativeCallsCounted ==
  \A k \in DOMAIN calls : calls[k].open /\ ~calls[k].nested => HandlesOf(k) # {}

(* While the request is open, a call that is in flight is really so: its    *)
(* send is on the stack or its stream is still open. However a send and its *)
(* hooks end, by a response, an error or a cancellation, nothing is left in *)
(* flight.                                                                  *)
InFlightIsReal ==
  \A h \in DOMAIN handles : ~closed /\ handles[h].state = "pending" =>
    \/ handles[h].stream = "open"
    \/ \E i \in DOMAIN stack : stack[i].kind = "native" /\ stack[i].item = h

(* _ACTIVE_CLIENT is the client of the innermost send that is being counted *)
(* and None outside of all of them, so no later call is taken for a part of *)
(* one that is over.                                                        *)
ActiveIsInnermost ==
  LET counting == {i \in DOMAIN stack : stack[i].kind = "native" /\ stack[i].item # 0}
  IN /\ counting = {} => active = None
     /\ \A i \in counting : (\A j \in counting : j <= i) =>
          active = calls[stack[i].call].client

(* A marked span is one that has not ended: the marks of a long request do  *)
(* not pile up, and no mark can hide a span with a reused id.               *)
MarksAreLive == \A s \in marked : spans[s].state = "live"

(* A send leaves nothing of itself behind, however it and its hooks end: no *)
(* call in flight, no active client, no mark on a span that is over.        *)
NothingStaysBehind == TypeOK /\ InFlightIsReal /\ ActiveIsInnermost /\ MarksAreLive

=============================================================================
