--------------------------- MODULE ClientAddress ---------------------------
(***************************************************************************)
(* Whom a request is attributed to: the proxies the settings trust, the    *)
(* chain of X-Forwarded-For, and the request ID and trace taken over from  *)
(* the caller.  A header line is a record of its name and its entries; an  *)
(* address is a model value, and what is none is in neither Addresses set. *)
(***************************************************************************)
EXTENDS Naturals, Sequences, SequencesExt

CONSTANTS
  None,     \* no address, no header
  Blank,    \* an entry of white space between two commas
  ValidIds, \* request IDs that match REQUEST_ID_PATTERN
  Fresh     \* a new uuid4

\* Unparsable text and a missing address are in no network.
IsTrustedClientIp(ip, policy) == ~policy.enabled \/ ip \in policy.trusted

\* The entries of a line that are not blank.
Filled(entries) ==
  LET upTo[n \in 0..Len(entries)] ==
        IF n = 0 THEN <<>>
        ELSE IF entries[n] = Blank THEN upTo[n - 1] ELSE Append(upTo[n - 1], entries[n])
  IN upTo[Len(entries)]

\* Repeated lines form one list.
Hops(headers) ==
  LET upTo[n \in 0..Len(headers)] ==
        IF n = 0 THEN <<>>
        ELSE IF headers[n].name = "x-forwarded-for"
             THEN upTo[n - 1] \o Filled(headers[n].entries) ELSE upTo[n - 1]
  IN upTo[Len(headers)]

\* Mutation of ResolveClientIp: the first address of the list, whoever appended it.
FirstHop(peer, headers, policy) ==
  IF policy.honor /\ IsTrustedClientIp(peer, policy) /\ Hops(headers) # <<>>
  THEN Head(Hops(headers)) ELSE peer

\* The first hop from the right that is no trusted proxy.
ResolveClientIp(peer, headers, policy) ==
  LET hops    == Hops(headers)
      outside == {i \in DOMAIN hops : ~IsTrustedClientIp(hops[i], policy)}
  IN  IF ~policy.honor \/ ~IsTrustedClientIp(peer, policy) THEN peer
      ELSE IF outside # {} THEN hops[Max(outside)]
      ELSE IF hops # <<>> THEN Head(hops) ELSE peer

\* The middleware trusts the source by its peer, not by the address resolved.
Resolve(peer, headers, policy) ==
  [ip |-> ResolveClientIp(peer, headers, policy), trusted |-> IsTrustedClientIp(peer, policy)]

\* The first line of that name.
GetHeader(headers, name) ==
  LET lines == SelectSeq(headers, LAMBDA h : h.name = name)
  IN  IF lines = <<>> THEN None ELSE Head(lines).entries[1]

ResolveRequestId(candidate, trusted) ==
  IF trusted /\ candidate \in ValidIds THEN candidate ELSE Fresh

\* The IDs a request starts with.
Initialize(headers, trusted) ==
  [requestId |-> ResolveRequestId(GetHeader(headers, "x-request-id"), trusted),
   trace     |-> IF trusted THEN GetHeader(headers, "traceparent") ELSE None]

\* Who may call the control plane: not through a proxy unless its header is honored.
IsTrustedCaller(peer, headers, policy) ==
  /\ ~(/\ policy.enabled /\ ~policy.honor
       /\ \E i \in DOMAIN headers : headers[i].name = "x-forwarded-for")
  /\ IsTrustedClientIp(ResolveClientIp(peer, headers, policy), policy)

-----------------------------------------------------------------------------
\* The addresses known of a request, the nearest last.
Chain(r) == (IF r.policy.honor THEN Hops(r.headers) ELSE <<>>) \o <<r.peer>>

\* "only the right-hand entries can be trusted" (proxies.py:38): the address is the
\* nearest one that only trusted proxies separate from us, so that nothing to its left
\* counts; an ID or a trace is taken over from a trusted peer only; and the control
\* plane serves a caller only when every address known of the request is trusted.
TrustedHopsCount(r) ==
  LET chain == Chain(r)
      who   == Resolve(r.peer, r.headers, r.policy)
      start == Initialize(r.headers, who.trusted)
      Near(i) == \A j \in (i + 1)..Len(chain) : IsTrustedClientIp(chain[j], r.policy)
  IN  /\ \E i \in DOMAIN chain :
           /\ who.ip = chain[i] /\ Near(i)
           /\ i > 1 => ~IsTrustedClientIp(chain[i], r.policy)
      /\ ~IsTrustedClientIp(r.peer, r.policy) =>
           start = [requestId |-> Fresh, trace |-> None]
      /\ IsTrustedCaller(r.peer, r.headers, r.policy) =>
           \A i \in DOMAIN chain : IsTrustedClientIp(chain[i], r.policy)

=============================================================================
