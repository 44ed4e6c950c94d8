------------------------ MODULE CallRecordingProofs ------------------------
(***************************************************************************)
(* Proofs about CallRecording for any number of owners, handles, attempts  *)
(* to finish them and spans, and every limit.                              *)
(***************************************************************************)
EXTENDS CallRecording, FiniteSetTheorems, TLAPS

-----------------------------------------------------------------------------
(* Types.                                                                   *)

LEMMA InitTyped == Init => Typed
  BY CallRecordingAssumption DEF Init, Typed, Executions

LEMMA SummaryType == ASSUME Typed, NEW o \in Owners PROVE Summary(o) \in Reports
<1>1. Observation(o) \in {"unknown", "partial", "caller_reported", "instrumented_clients"}
  BY DEF Observation
<1>2. /\ count[o] \in Nat /\ pending[o] \in Nat /\ sql[o].failed \in Nat
      /\ sql[o].attempted \in Nat /\ sql[o].succeeded \in Nat
  BY DEF Typed, Executions
<1>3. QED BY <1>1, <1>2 DEF Summary, Reports, HandlesOf

LEMMA CompleteType ==
  ASSUME Typed, NEW o \in Owners, NEW source \in Sources, NEW started \in BOOLEAN,
         Complete(o, source, started)
  PROVE  sources' \in [Owners -> SUBSET Sources] /\ pending' \in [Owners -> Nat]
<1>1. sources' \in [Owners -> SUBSET Sources] BY DEF Complete, Typed
<1>2. pending' \in [Owners -> Nat]
  BY DEF Complete, Typed
<1>3. QED BY <1>1, <1>2

LEMMA SourceType == \A h : Source(h) \in Sources
  BY DEF Source, Sources

LEMMA HandleTyped ==
  ASSUME Typed,
         \/ \E h \in Handles, o \in Owners : Start(h, o)
         \/ \E a \in Attempts : FinishBegin(a) \/ FinishClaim(a)
  PROVE  Typed'
<1> USE CallRecordingAssumption DEF Typed
<1>1. ASSUME NEW h \in Handles, NEW o \in Owners, Start(h, o) PROVE Typed'
  <2>1. CASE closed[o] BY <1>1, <2>1 DEF Start, totals
  <2>2. CASE ~closed[o]
    <3>1. sql' \in [Owners -> Executions]
      <4>1. sql[o].attempted + 1 \in Nat /\ sql[o].attempted \in Nat BY DEF Executions
      <4>2. \A n \in Nat : [sql[o] EXCEPT !.attempted = n] \in Executions
        BY DEF Executions
      <4>3. QED BY <1>1, <2>2, <4>1, <4>2 DEF Start
    <3>2. sources' \in [Owners -> SUBSET Sources] BY <1>1, <2>2, SourceType DEF Start
    <3>3. token' \in [Owners -> {"parent", "child", None}]
      BY <1>1, <2>2 DEF Start, MintToken
    <3>4. /\ pending' \in [Owners -> Nat]
          /\ owner' \in [Handles \cup Spans -> Owners \cup {None}]
          /\ handle' \in [Handles -> {"new", "started", "finished"}]
      BY <1>1, <2>2 DEF Start
    <3>5. QED BY <1>1, <2>2, <3>1, <3>2, <3>3, <3>4 DEF Start
  <2>3. QED BY <2>1, <2>2
<1>2. ASSUME NEW a \in Attempts, FinishBegin(a) PROVE Typed'
  BY <1>2 DEF FinishBegin, totals
<1>3. ASSUME NEW a \in Attempts, FinishClaim(a) PROVE Typed'
  BY <1>3 DEF FinishClaim, totals
<1>4. QED BY <1>1, <1>2, <1>3

(* The steps that complete a call know its owner.                           *)
Owns ==
  /\ \A a \in Attempts : attempt[a] \in {"owned", "claimed", "true"} =>
       owner[CallOf[a]] \in Owners
  /\ \A s \in Spans : span[s] \in {"tracked", "dropping", "dropped", "popped", "counted"} =>
       owner[s] \in Owners

LEMMA RecordTyped ==
  ASSUME Typed, Owns,
         \/ \E a \in Attempts : FinishRecord(a)
         \/ \E s \in Spans : SpanRecord(s)
         \/ \E o \in Owners : RecordCall(o)
  PROVE  Typed'
<1> USE CallRecordingAssumption DEF Typed
<1>1. ASSUME NEW a \in Attempts, FinishRecord(a) PROVE Typed'
  <2> DEFINE o == owner[CallOf[a]]
  <2>1. o \in Owners BY <1>1 DEF FinishRecord, Owns
  <2>2. CASE UNCHANGED totals BY <1>1, <2>2 DEF FinishRecord, totals
  <2>3. ASSUME NEW error \in BOOLEAN, Admit(o, CallOf[a], error) PROVE Typed'
    <3>1. Complete(o, Source(CallOf[a]), TRUE) BY <2>3 DEF Admit
    <3>2. sources' \in [Owners -> SUBSET Sources] /\ pending' \in [Owners -> Nat]
      BY <2>1, <3>1, CompleteType, SourceType
    <3>3. sql' \in [Owners -> Executions]
      <4>1. /\ sql[o].failed + 1 \in Nat /\ sql[o].succeeded + 1 \in Nat
            /\ sql[o].succeeded \in Nat
        BY <2>1 DEF Executions
      <4>2. \A n \in Nat : /\ [sql[o] EXCEPT !.failed = n] \in Executions
                           /\ [sql[o] EXCEPT !.succeeded = n] \in Executions
        BY SMTT(30), <2>1 DEF Executions
      <4>3. CASE CallOf[a] \in Native /\ error
        <5>1. sql' = [sql EXCEPT ![o] = [sql[o] EXCEPT !.failed = sql[o].failed + 1]]
          BY <2>3, <4>3 DEF Admit
        <5>2. QED BY <2>1, <4>1, <4>2, <5>1
      <4>4. CASE ~(CallOf[a] \in Native /\ error)
        <5>1. PICK n \in Nat : sql' = [sql EXCEPT ![o] = [sql[o] EXCEPT !.succeeded = n]]
          BY <2>3, <4>1, <4>4 DEF Admit
        <5>2. [sql[o] EXCEPT !.succeeded = n] \in Executions BY <4>2
        <5>3. QED BY <2>1, <5>1, <5>2
      <4>5. QED BY <4>3, <4>4
    <3>4. count' \in [Owners -> Nat] BY <2>1, <2>3 DEF Admit
    <3>5. attempt' \in [Attempts -> {"idle", "owned", "claimed", "true", "false", "gone"}]
      BY <1>1 DEF FinishRecord
    <3>6. QED BY <1>1, <3>2, <3>3, <3>4, <3>5 DEF FinishRecord
  <2>4. QED BY <1>1, <2>2, <2>3 DEF FinishRecord
<1>2. ASSUME NEW s \in Spans, SpanRecord(s) PROVE Typed'
  <2>1. CASE UNCHANGED totals BY <1>2, <2>1 DEF SpanRecord, totals
  <2>2. CASE /\ Complete(owner[s], "sampled_span", FALSE) /\ UNCHANGED sql
             /\ count' = [count EXCEPT ![owner[s]] = @ + 1]
    <3>1. owner[s] \in Owners BY <1>2 DEF SpanRecord, Owns
    <3>2. sources' \in [Owners -> SUBSET Sources] /\ pending' \in [Owners -> Nat]
      BY <2>2, <3>1, CompleteType DEF Sources
    <3>3. count' \in [Owners -> Nat] BY <2>2, <3>1
    <3>4. /\ span' \in [Spans -> {"new", "tracked", "dropping", "dropped", "popped",
                                "counted", "unknown"}]
          /\ UNCHANGED <<process, closed, token, dropped, report, owner, handle, attempt, manual>>
      BY <1>2 DEF SpanRecord
    <3>5. QED BY <2>2, <3>2, <3>3, <3>4
  <2>3. QED BY <1>2, <2>1, <2>2 DEF SpanRecord
<1>3. ASSUME NEW o \in Owners, RecordCall(o) PROVE Typed'
  <2>1. sources' \in [Owners -> SUBSET Sources] /\ pending' \in [Owners -> Nat]
    BY <1>3, CompleteType DEF RecordCall, Sources
  <2>2. count' \in [Owners -> Nat] /\ manual' \in [Owners -> 0..MaxManual]
    BY <1>3 DEF RecordCall
  <2>3. QED BY <1>3, <2>1, <2>2 DEF RecordCall
<1>4. QED BY <1>1, <1>2, <1>3

LEMMA SpanTyped ==
  ASSUME Typed, Owns,
         \/ \E s \in Spans, o \in Owners : SpanStart(s, o)
         \/ \E s \in Spans : SpanDrop(s) \/ SpanEnd(s)
  PROVE  Typed'
<1> USE CallRecordingAssumption DEF Typed, totals
<1>1. ASSUME NEW s \in Spans, NEW o \in Owners, SpanStart(s, o) PROVE Typed'
  <2>1. token' \in [Owners -> {"parent", "child", None}]
    BY <1>1 DEF SpanStart, MintToken
  <2>2. QED BY <1>1, <2>1 DEF SpanStart
<1>2. ASSUME NEW s \in Spans, SpanDrop(s) PROVE Typed'
  BY <1>2 DEF SpanDrop, Owns
<1>3. ASSUME NEW s \in Spans, SpanEnd(s) PROVE Typed'
  BY <1>3 DEF SpanEnd
<1>4. QED BY <1>1, <1>2, <1>3

LEMMA EndTyped ==
  ASSUME Typed,
         \/ \E o \in Owners : Summarize(o) \/ SummarizeAndClose(o) \/ Close(o)
         \/ Fork
  PROVE  Typed'
<1> USE CallRecordingAssumption DEF Typed
<1>1. ASSUME NEW o \in Owners, Release(o)
      PROVE  /\ closed' \in [Owners -> BOOLEAN]
             /\ token' \in [Owners -> {"parent", "child", None}]
             /\ count' \in [Owners -> Nat] /\ pending' \in [Owners -> Nat]
             /\ sql' \in [Owners -> Executions]
             /\ sources' \in [Owners -> SUBSET Sources]
  <2>1. closed' \in [Owners -> BOOLEAN] BY <1>1, Zenon DEF Release
  <2>2. sql' \in [Owners -> Executions] BY <1>1 DEF Release, Executions
  <2>3. QED BY <1>1, <2>1, <2>2 DEF Release
<1>2. ASSUME NEW o \in Owners, Summarize(o) PROVE Typed'
  BY <1>2, SummaryType DEF Summarize, totals
<1>3. ASSUME NEW o \in Owners, SummarizeAndClose(o) PROVE Typed'
  BY <1>3, <1>1, SummaryType DEF SummarizeAndClose
<1>4. ASSUME NEW o \in Owners, Close(o) PROVE Typed'
  BY <1>4, <1>1 DEF Close
<1>5. CASE Fork BY <1>5 DEF Fork, totals
<1>6. QED BY <1>2, <1>3, <1>4, <1>5

-----------------------------------------------------------------------------
(* Who may complete a call: nothing is finished before it started, one      *)
(* attempt at most has claimed a handle, and it holds a token made in this  *)
(* process as long as the owner is open.                                    *)
Fresh ==
  /\ \A h \in Handles : handle[h] = "new" =>
       owner[h] = None /\ \A a \in Attempts : CallOf[a] = h => attempt[a] = "idle"
  /\ \A s \in Spans : span[s] = "new" => owner[s] = None
Claimed(a) == attempt[a] \in {"claimed", "true"}
ClaimedOnce ==
  /\ \A a \in Attempts : Claimed(a) => handle[CallOf[a]] = "finished"
  /\ \A a, b \in Attempts : Claimed(a) /\ Claimed(b) /\ CallOf[a] = CallOf[b] => a = b
HeldHere ==
  \A a \in Attempts : attempt[a] \in {"owned", "claimed"} /\ ~closed[owner[CallOf[a]]] =>
    token[owner[CallOf[a]]] = process

ClaimInv == Owns /\ Fresh /\ ClaimedOnce /\ HeldHere

LEMMA InitClaimInv == Init => ClaimInv
  BY CallRecordingAssumption DEF Init, ClaimInv, Owns, Fresh, ClaimedOnce, HeldHere, Claimed

LEMMA HandleClaimInv ==
  ASSUME Typed, ClaimInv,
         \/ \E h \in Handles, o \in Owners : Start(h, o)
         \/ \E a \in Attempts : FinishBegin(a) \/ FinishClaim(a)
  PROVE  ClaimInv'
<1> USE CallRecordingAssumption DEF Typed, ClaimInv, Claimed
<1>1. ASSUME NEW h \in Handles, NEW o \in Owners, Start(h, o) PROVE ClaimInv'
  <2>1. CASE closed[o]
    BY <1>1, <2>1 DEF Start, Owns, Fresh, ClaimedOnce, HeldHere
  <2>2. CASE ~closed[o]
    <3>1. \A a \in Attempts : attempt[a] # "idle" => owner'[CallOf[a]] = owner[CallOf[a]]
      BY <1>1, <2>2 DEF Start, Fresh
    <3>2. \A s \in Spans : owner'[s] = owner[s] BY <1>1, <2>2 DEF Start
    <3>3. \A a \in Attempts : attempt[a] # "idle" => CallOf[a] # h BY <1>1 DEF Start, Fresh
    <3>4. Owns' BY <1>1, <3>1, <3>2 DEF Start, Owns
    <3>5. Fresh' BY <1>1, <2>2, <3>2 DEF Start, Fresh
    <3>6. ClaimedOnce' BY <1>1, <3>3 DEF Start, ClaimedOnce
    <3>7. HeldHere'
      <4>1. token' = [token EXCEPT ![o] = IF @ = None THEN process ELSE @]
        BY <1>1, <2>2 DEF Start, MintToken
      <4>2. UNCHANGED <<process, closed, attempt>> BY <1>1 DEF Start
      <4>3. QED BY <3>1, <4>1, <4>2 DEF HeldHere, Owns
    <3>8. QED BY <3>4, <3>5, <3>6, <3>7
  <2>3. QED BY <2>1, <2>2
<1>2. ASSUME NEW a \in Attempts, FinishBegin(a) PROVE ClaimInv'
  BY <1>2 DEF FinishBegin, Owned, Owns, Fresh, ClaimedOnce, HeldHere
<1>3. ASSUME NEW a \in Attempts, FinishClaim(a) PROVE ClaimInv'
  BY <1>3 DEF FinishClaim, Owns, Fresh, ClaimedOnce, HeldHere
<1>4. QED BY <1>1, <1>2, <1>3

LEMMA RecordClaimInv ==
  ASSUME Typed, ClaimInv,
         \/ \E a \in Attempts : FinishRecord(a)
         \/ \E s \in Spans : SpanRecord(s)
         \/ \E o \in Owners : RecordCall(o)
  PROVE  ClaimInv'
<1> USE CallRecordingAssumption DEF Typed, ClaimInv, Claimed
<1>1. ASSUME NEW a \in Attempts, FinishRecord(a) PROVE ClaimInv'
  BY <1>1 DEF FinishRecord, Owns, Fresh, ClaimedOnce, HeldHere
<1>2. ASSUME NEW s \in Spans, SpanRecord(s) PROVE ClaimInv'
  <2>1. /\ span[s] = "popped" /\ UNCHANGED <<process, closed, token, owner, handle, attempt>>
        /\ \E to \in {"counted", "unknown"} : span' = [span EXCEPT ![s] = to]
    BY <1>2 DEF SpanRecord
  <2>2. Owns' /\ Fresh' BY <2>1 DEF Owns, Fresh
  <2>3. ClaimedOnce' /\ HeldHere' BY <2>1 DEF ClaimedOnce, HeldHere
  <2>4. QED BY <2>2, <2>3
<1>3. ASSUME NEW o \in Owners, RecordCall(o) PROVE ClaimInv'
  BY <1>3 DEF RecordCall, Owns, Fresh, ClaimedOnce, HeldHere
<1>4. QED BY <1>1, <1>2, <1>3

LEMMA SpanClaimInv ==
  ASSUME Typed, ClaimInv,
         \/ \E s \in Spans, o \in Owners : SpanStart(s, o)
         \/ \E s \in Spans : SpanDrop(s) \/ SpanEnd(s)
  PROVE  ClaimInv'
<1> USE CallRecordingAssumption DEF Typed, ClaimInv, Claimed
<1>1. ASSUME NEW s \in Spans, NEW o \in Owners, SpanStart(s, o) PROVE ClaimInv'
  <2>1. \A h \in Handles : owner'[h] = owner[h] BY <1>1 DEF SpanStart
  <2>2. token' = [token EXCEPT ![o] = IF @ = None THEN process ELSE @]
    BY <1>1 DEF SpanStart, MintToken
  <2>3. Owns' BY <1>1, <2>1 DEF SpanStart, Owns
  <2>4. Fresh' /\ ClaimedOnce' BY <1>1, <2>1 DEF SpanStart, Fresh, ClaimedOnce
  <2>5. HeldHere' BY <1>1, <2>1, <2>2 DEF SpanStart, HeldHere, Owns
  <2>6. QED BY <2>3, <2>4, <2>5
<1>2. ASSUME NEW s \in Spans, SpanDrop(s) PROVE ClaimInv'
  BY <1>2 DEF SpanDrop, Owns, Fresh, ClaimedOnce, HeldHere
<1>3. ASSUME NEW s \in Spans, SpanEnd(s) PROVE ClaimInv'
  BY <1>3 DEF SpanEnd, Owns, Fresh, ClaimedOnce, HeldHere
<1>4. QED BY <1>1, <1>2, <1>3

LEMMA EndClaimInv ==
  ASSUME Typed, ClaimInv,
         \/ \E o \in Owners : Summarize(o) \/ SummarizeAndClose(o) \/ Close(o)
         \/ Fork
  PROVE  ClaimInv'
<1> USE CallRecordingAssumption DEF Typed, ClaimInv, Claimed
<1>1. ASSUME NEW o \in Owners, Release(o), UNCHANGED <<process, owner, handle, attempt, span>>
      PROVE  ClaimInv'
  BY <1>1 DEF Release, Owns, Fresh, ClaimedOnce, HeldHere
<1>2. ASSUME NEW o \in Owners, Summarize(o) PROVE ClaimInv'
  BY <1>2 DEF Summarize, Owns, Fresh, ClaimedOnce, HeldHere
<1>3. ASSUME NEW o \in Owners, SummarizeAndClose(o) \/ Close(o) PROVE ClaimInv'
  BY <1>3, <1>1 DEF SummarizeAndClose, Close
<1>4. CASE Fork
  <2>1. \A a \in Attempts : attempt'[a] = IF attempt[a] \in {"owned", "claimed"}
                                        THEN "gone" ELSE attempt[a]
    BY <1>4 DEF Fork
  <2>2. \A s \in Spans : span'[s] = IF span[s] \in {"tracked", "popped", "dropping"}
                                   THEN "unknown" ELSE span[s]
    BY <1>4 DEF Fork
  <2>3. UNCHANGED <<closed, token, owner, handle>> BY <1>4 DEF Fork
  <2>4. Owns' /\ HeldHere' BY <2>1, <2>2, <2>3 DEF Owns, HeldHere
  <2>5. Fresh' /\ ClaimedOnce' BY <2>1, <2>2, <2>3 DEF Fresh, ClaimedOnce
  <2>6. QED BY <2>4, <2>5
<1>5. QED BY <1>2, <1>3, <1>4

LEMMA NextClaimInv == Typed /\ ClaimInv /\ [Next]_vars => Typed' /\ ClaimInv'
<1> SUFFICES ASSUME Typed, ClaimInv, [Next]_vars PROVE Typed' /\ ClaimInv'
  OBVIOUS
<1>1. CASE UNCHANGED vars
  BY <1>1 DEF vars, totals, Typed, ClaimInv, Owns, Fresh, ClaimedOnce, HeldHere, Claimed
<1>2. CASE Next
  BY <1>2, HandleTyped, RecordTyped, SpanTyped, EndTyped,
     HandleClaimInv, RecordClaimInv, SpanClaimInv, EndClaimInv DEF Next, ClaimInv
<1>3. QED BY <1>1, <1>2

(* Nothing started in the parent is admitted in a child.                    *)
THEOREM ChildrenNeverCount == Spec => InheritedNeverCounts
<1>1. Init => Typed /\ ClaimInv BY InitTyped, InitClaimInv
<1>2. Typed /\ ClaimInv /\ [Next]_vars =>
        [\A a \in Attempts : attempt'[a] = "true" /\ attempt[a] # "true" =>
           token[owner[CallOf[a]]] = process]_vars
  <2> SUFFICES ASSUME Typed, ClaimInv, Next, NEW a \in Attempts,
                      attempt'[a] = "true", attempt[a] # "true"
               PROVE  token[owner[CallOf[a]]] = process
    BY DEF vars
  <2>1. CASE \E b \in Attempts : FinishBegin(b) \/ FinishClaim(b)
    BY <2>1 DEF FinishBegin, FinishClaim, Typed
  <2>2. CASE \E b \in Attempts : FinishRecord(b)
    BY <2>2 DEF FinishRecord, Typed, ClaimInv, HeldHere
  <2>3. CASE Fork BY <2>3 DEF Fork, Typed
  <2>4. CASE attempt' = attempt BY <2>4
  <2>5. QED BY <2>1, <2>2, <2>3, <2>4
        DEF Next, Start, SpanStart, SpanDrop, SpanEnd, SpanRecord, RecordCall, Summarize,
            SummarizeAndClose, Close
<1>3. QED BY <1>1, <1>2, NextClaimInv, PTL DEF Spec, InheritedNeverCounts

-----------------------------------------------------------------------------
(* What the totals count.                                                   *)
Unrecorded(o) == {h \in HandlesOf(o) : ~Recorded(h)}
RecordedOf(o) == {h \in HandlesOf(o) : Recorded(h)}
CountedOf(o) == {s \in Spans : owner[s] = o /\ span[s] = "counted"}

Tally(o) ==
  /\ pending[o] = Cardinality(Unrecorded(o))
  /\ sql[o].attempted =
       sql[o].succeeded + sql[o].failed + Cardinality(Unrecorded(o) \cap Native)
  /\ count[o] + sql[o].failed =
       Cardinality(RecordedOf(o)) + manual[o] + Cardinality(CountedOf(o))
  /\ sources[o] \subseteq {"sqlalchemy"} => count[o] = sql[o].succeeded
  /\ \A s \in Spans : owner[s] = o /\ span[s] = "dropped" => dropped[o] > 0
TallyInv == ClosedIsEmpty /\ \A o \in Owners : ~closed[o] => Tally(o)

LEMMA InitTallyInv == Init => TallyInv
<1> SUFFICES ASSUME Init PROVE TallyInv
  OBVIOUS
<1>1. ClosedIsEmpty BY DEF Init, ClosedIsEmpty
<1>2. ASSUME NEW o \in Owners PROVE Tally(o)
  <2>1. HandlesOf(o) = {} BY CallRecordingAssumption DEF Init, HandlesOf
  <2>2. Unrecorded(o) = {} /\ RecordedOf(o) = {} BY <2>1 DEF Unrecorded, RecordedOf
  <2>3. CountedOf(o) = {} BY DEF Init, CountedOf
  <2>4. Unrecorded(o) \cap Native = {} BY <2>2
  <2>5. \A s \in Spans : span[s] # "dropped" BY DEF Init
  <2>6. count[o] = 0 /\ pending[o] = 0 /\ manual[o] = 0
        /\ sql[o] = [attempted |-> 0, succeeded |-> 0, failed |-> 0]
    BY DEF Init
  <2>7. QED BY <2>2, <2>3, <2>4, <2>5, <2>6, FS_EmptySet DEF Tally
<1>3. QED BY <1>1, <1>2 DEF TallyInv

LEMMA TalliesFinite ==
  ASSUME NEW o
  PROVE  /\ IsFiniteSet(Unrecorded(o)) /\ IsFiniteSet(Unrecorded(o) \cap Native)
         /\ IsFiniteSet(RecordedOf(o)) /\ IsFiniteSet(CountedOf(o))
<1>1. /\ Unrecorded(o) \in SUBSET Handles /\ Unrecorded(o) \cap Native \in SUBSET Handles
      /\ RecordedOf(o) \in SUBSET Handles /\ CountedOf(o) \in SUBSET Spans
  BY DEF Unrecorded, RecordedOf, CountedOf, HandlesOf
<1>2. QED BY <1>1, FS_Subset, CallRecordingAssumption

(* Sets that differ in one element.                                         *)
LEMMA OneMore ==
  ASSUME NEW S, NEW T, NEW x, IsFiniteSet(S), x \notin S, T = S \cup {x}
  PROVE  Cardinality(T) = Cardinality(S) + 1
  BY FS_AddElement

LEMMA OneFewer ==
  ASSUME NEW S, NEW T, NEW x, IsFiniteSet(S), x \in S, T = S \ {x}
  PROVE  IsFiniteSet(T) /\ Cardinality(T) = Cardinality(S) - 1
  BY FS_RemoveElement

LEMMA SameSize == ASSUME NEW S, NEW T, S = T PROVE Cardinality(S) = Cardinality(T)
  OBVIOUS

(* A step that leaves an owner's totals and its calls alone.                *)
Keeps(o) ==
  /\ pending'[o] = pending[o] /\ sql'[o] = sql[o] /\ count'[o] = count[o]
  /\ sources'[o] = sources[o] /\ manual'[o] = manual[o]
KeepsCalls(o) ==
  /\ Unrecorded(o)' = Unrecorded(o) /\ RecordedOf(o)' = RecordedOf(o)
  /\ CountedOf(o)' = CountedOf(o)
KeepsDropped(o) ==
  \A s \in Spans : owner'[s] = o /\ span'[s] = "dropped" => dropped'[o] > 0

LEMMA KeptTally ==
  ASSUME NEW o \in Owners, Tally(o), Keeps(o), KeepsCalls(o), KeepsDropped(o)
  PROVE  Tally(o)'
  BY DEF Tally, Keeps, KeepsCalls, KeepsDropped

LEMMA SameCalls ==
  ASSUME NEW o \in Owners,
         \A h \in Handles : (owner'[h] = o <=> owner[h] = o) /\
                             (owner[h] = o => Recorded(h)' = Recorded(h))
  PROVE  Unrecorded(o)' = Unrecorded(o) /\ RecordedOf(o)' = RecordedOf(o)
  BY DEF Unrecorded, RecordedOf, HandlesOf

LEMMA SameSpans ==
  ASSUME NEW o \in Owners,
         \A s \in Spans : owner'[s] = o /\ span'[s] = "counted" <=>
                            owner[s] = o /\ span[s] = "counted"
  PROVE  CountedOf(o)' = CountedOf(o)
  BY DEF CountedOf

LEMMA StartTallyInv ==
  ASSUME Typed, ClaimInv, TallyInv, NEW h \in Handles, NEW o \in Owners, Start(h, o)
  PROVE  TallyInv'
<1> USE CallRecordingAssumption DEF Typed, TallyInv
<1>1. CASE closed[o]
  <2>1. ASSUME NEW p \in Owners, ~closed[p] PROVE Tally(p)'
    <3>1. Keeps(p) /\ KeepsDropped(p)
      BY <1>1, <2>1 DEF Start, totals, Keeps, KeepsDropped, Tally
    <3>2. KeepsCalls(p)
      BY <1>1, SameCalls, SameSpans DEF Start, Recorded, KeepsCalls
    <3>3. QED BY <2>1, <3>1, <3>2, KeptTally
  <2>2. ClosedIsEmpty' BY <1>1 DEF Start, totals, ClosedIsEmpty
  <2>3. QED BY <2>1, <2>2 DEF Start
<1>2. CASE ~closed[o]
  <2> USE <1>2
  <2>1. owner' = [owner EXCEPT ![h] = o] /\ owner[h] = None
    BY DEF Start, ClaimInv, Fresh
  <2>2. \A g \in Handles : Recorded(g)' = Recorded(g) BY DEF Start, Recorded
  <2>3. ~Recorded(h) BY DEF Start, Recorded, ClaimInv, Fresh
  <2>4. ASSUME NEW p \in Owners PROVE CountedOf(p)' = CountedOf(p)
    BY <2>1, SameSpans DEF Start
  <2>5. ASSUME NEW p \in Owners, ~closed[p], p # o PROVE Tally(p)'
    <3>1. Keeps(p) /\ KeepsDropped(p) BY ZenonT(40), <2>1, <2>5 DEF Start, Keeps, KeepsDropped, Tally
    <3>2. Unrecorded(p)' = Unrecorded(p) /\ RecordedOf(p)' = RecordedOf(p)
      BY <2>1, <2>2, <2>5, SameCalls
    <3>3. QED BY <2>4, <2>5, <3>1, <3>2, KeptTally DEF KeepsCalls
  <2>6. Tally(o)'
    <3>1. Unrecorded(o)' = Unrecorded(o) \cup {h} /\ h \notin Unrecorded(o)
      BY <2>1, <2>2, <2>3 DEF Unrecorded, HandlesOf
    <3>2. RecordedOf(o)' = RecordedOf(o)
      BY <2>1, <2>2, <2>3 DEF RecordedOf, HandlesOf
    <3>3. Cardinality(Unrecorded(o)') = Cardinality(Unrecorded(o)) + 1
      BY <3>1, TalliesFinite, OneMore
    <3>4. (Unrecorded(o) \cap Native)' = IF h \in Native THEN (Unrecorded(o) \cap Native) \cup {h}
                                                         ELSE Unrecorded(o) \cap Native
      BY <3>1
    <3>5. Cardinality((Unrecorded(o) \cap Native)') =
            Cardinality(Unrecorded(o) \cap Native) + IF h \in Native THEN 1 ELSE 0
      <4>1. CASE h \in Native
        BY <4>1, <3>1, <3>4, TalliesFinite, OneMore
      <4>2. CASE h \notin Native
        <5>1. Cardinality(Unrecorded(o) \cap Native) \in Nat
          BY TalliesFinite, FS_CardinalityType
        <5>2. Cardinality((Unrecorded(o) \cap Native)') = Cardinality(Unrecorded(o) \cap Native)
          BY <4>2, <3>4, SameSize
        <5>3. QED BY <4>2, <5>1, <5>2
      <4>3. QED BY <4>1, <4>2
    <3>6. sql'[o] = [sql[o] EXCEPT !.attempted = IF h \in Native THEN @ + 1 ELSE @]
      BY DEF Start
    <3>7. /\ pending'[o] = pending[o] + 1 /\ count'[o] = count[o] /\ manual'[o] = manual[o]
          /\ dropped'[o] = dropped[o] /\ span' = span /\ \A s \in Spans : owner'[s] = owner[s]
      BY <2>1 DEF Start
    <3>8. sources'[o] \subseteq {"sqlalchemy"} => sources[o] \subseteq {"sqlalchemy"}
      BY DEF Start
    <3>9. sql[o] \in Executions /\ Tally(o)
      OBVIOUS
    <3>10. /\ sql'[o].succeeded = sql[o].succeeded /\ sql'[o].failed = sql[o].failed
           /\ sql'[o].attempted = sql[o].attempted + IF h \in Native THEN 1 ELSE 0
      <4>1. \A n : LET r == [sql[o] EXCEPT !.attempted = n]
                  IN  r.succeeded = sql[o].succeeded /\ r.failed = sql[o].failed /\ r.attempted = n
        BY <3>9 DEF Executions
      <4>2. sql[o].attempted \in Nat BY <3>9 DEF Executions
      <4>3. CASE h \in Native    BY <3>6, <4>1, <4>2, <4>3
      <4>4. CASE h \notin Native BY <3>6, <4>1, <4>2, <4>4
      <4>5. QED BY <4>3, <4>4
    <3>11. /\ pending'[o] = Cardinality(Unrecorded(o)')
           /\ sql'[o].attempted = sql'[o].succeeded + sql'[o].failed
                                  + Cardinality((Unrecorded(o) \cap Native)')
      <4>1. Cardinality(Unrecorded(o) \cap Native) \in Nat
        BY TalliesFinite, FS_CardinalityType
      <4>2. QED BY <4>1, <3>3, <3>5, <3>7, <3>9, <3>10 DEF Tally, Executions
    <3>12. QED BY <2>4, <3>2, <3>7, <3>8, <3>9, <3>10, <3>11 DEF Tally
  <2>7. ClosedIsEmpty' BY DEF Start, MintToken, ClosedIsEmpty
  <2>8. QED BY <2>5, <2>6, <2>7 DEF Start
<1>3. QED BY <1>1, <1>2

(* A recorded call leaves those in flight, whatever its total counted.      *)
LEMMA FinishTallyInv ==
  ASSUME Typed, ClaimInv, TallyInv,
         NEW a \in Attempts, NEW h \in Handles, NEW o \in Owners,
         CallOf[a] = h, owner[h] = o, FinishRecord(a)
  PROVE  TallyInv'
<1> USE CallRecordingAssumption DEF Typed, TallyInv
<1>1. /\ owner[h] = o /\ attempt[a] = "claimed" /\ o \in Owners /\ h \in Handles
      /\ UNCHANGED <<closed, token, dropped, owner, span, manual>>
  BY DEF FinishRecord, ClaimInv, Owns
<1>2. ASSUME NEW p \in Owners PROVE CountedOf(p)' = CountedOf(p)
  BY <1>1, SameSpans
<1>3. CASE UNCHANGED totals /\ attempt' = [attempt EXCEPT ![a] = "false"]
  <2>1. \A g \in Handles : Recorded(g)' = Recorded(g) BY <1>1, <1>3 DEF Recorded
  <2>2. ASSUME NEW p \in Owners, ~closed[p] PROVE Tally(p)'
    <3>1. Keeps(p) /\ KeepsDropped(p)
      BY <1>1, <1>3, <2>2 DEF totals, Keeps, KeepsDropped, Tally
    <3>2. KeepsCalls(p) BY <1>1, <1>2, <2>1, SameCalls DEF KeepsCalls
    <3>3. QED BY <2>2, <3>1, <3>2, KeptTally
  <2>3. ClosedIsEmpty' BY <1>1, <1>3 DEF totals, ClosedIsEmpty
  <2>4. QED BY <1>1, <2>2, <2>3
<1>4. ASSUME ~closed[o], NEW error \in BOOLEAN, Admit(o, h, error),
             attempt' = [attempt EXCEPT ![a] = "true"]
      PROVE  TallyInv'
  <2> DEFINE one == IF h \in Native THEN 1 ELSE 0
             bad == h \in Native /\ error
  <2>1. Recorded(h)' /\ ~Recorded(h)
    <3>1. Recorded(h)' BY <1>1, <1>4 DEF Recorded
    <3>2. ~Recorded(h) BY <1>1 DEF Recorded, ClaimInv, ClaimedOnce, Claimed
    <3>3. QED BY <3>1, <3>2
  <2>2. \A g \in Handles : g # h => Recorded(g)' = Recorded(g) BY <1>1, <1>4 DEF Recorded
  <2>3. Complete(o, Source(h), TRUE) BY <1>4 DEF Admit
  <2>4. ASSUME NEW p \in Owners, ~closed[p], p # o PROVE Tally(p)'
    <3>1. Keeps(p)
      BY <1>1, <1>4, <2>3, <2>4 DEF Admit, Complete, Keeps
    <3>2. KeepsDropped(p) BY <1>1, <2>4 DEF KeepsDropped, Tally
    <3>3. Unrecorded(p)' = Unrecorded(p) /\ RecordedOf(p)' = RecordedOf(p)
      BY <1>1, <2>2, <2>4, SameCalls
    <3>4. QED BY <1>2, <2>4, <3>1, <3>2, <3>3, KeptTally DEF KeepsCalls
  <2>5. Tally(o)'
    <3>1. Tally(o) /\ sql[o] \in Executions BY <1>1, <1>4
    <3>2. Unrecorded(o)' = Unrecorded(o) \ {h} /\ h \in Unrecorded(o)
      BY <1>1, <2>1, <2>2 DEF Unrecorded, HandlesOf
    <3>3. RecordedOf(o)' = RecordedOf(o) \cup {h} /\ h \notin RecordedOf(o)
      BY <1>1, <2>1, <2>2 DEF RecordedOf, HandlesOf
    <3>4. /\ IsFiniteSet(Unrecorded(o)')
          /\ Cardinality(Unrecorded(o)') = Cardinality(Unrecorded(o)) - 1
      BY <3>2, TalliesFinite, OneFewer
    <3>5. Cardinality(RecordedOf(o)') = Cardinality(RecordedOf(o)) + 1
      BY <3>3, TalliesFinite, OneMore
    <3>6. /\ Cardinality(Unrecorded(o)) \in Nat /\ Cardinality(Unrecorded(o) \cap Native) \in Nat
          /\ Cardinality(RecordedOf(o)) \in Nat /\ Cardinality(CountedOf(o)) \in Nat
          /\ Cardinality(Unrecorded(o)') \in Nat
      BY <3>4, TalliesFinite, FS_CardinalityType
    <3>7. Cardinality((Unrecorded(o) \cap Native)') = Cardinality(Unrecorded(o) \cap Native) - one
      <4>1. CASE h \in Native
        <5>1. (Unrecorded(o) \cap Native)' = (Unrecorded(o) \cap Native) \ {h}
              /\ h \in Unrecorded(o) \cap Native
          BY <4>1, <3>2
        <5>2. QED BY <4>1, <5>1, TalliesFinite, OneFewer
      <4>2. CASE h \notin Native
        <5>1. Cardinality((Unrecorded(o) \cap Native)') = Cardinality(Unrecorded(o) \cap Native)
          <6>1. (Unrecorded(o) \cap Native)' = Unrecorded(o) \cap Native BY <4>2, <3>2
          <6>2. QED BY ONLY <6>1, SameSize, Zenon
        <5>2. QED BY <4>2, <5>1, <3>6
      <4>3. QED BY <4>1, <4>2
    <3>8. pending'[o] = pending[o] - 1
      BY <1>1, <2>3, <3>1, <3>4, <3>6 DEF Complete, Tally
    <3>9. /\ sql'[o].attempted = sql[o].attempted
          /\ sql'[o].failed = sql[o].failed + IF bad THEN 1 ELSE 0
          /\ sql'[o].succeeded = sql[o].succeeded + one - IF bad THEN 1 ELSE 0
          /\ count'[o] = count[o] + 1 - IF bad THEN 1 ELSE 0
      <4>1. \A n : /\ [sql[o] EXCEPT !.failed = n].attempted = sql[o].attempted
                   /\ [sql[o] EXCEPT !.failed = n].succeeded = sql[o].succeeded
                   /\ [sql[o] EXCEPT !.failed = n].failed = n
                   /\ [sql[o] EXCEPT !.succeeded = n].attempted = sql[o].attempted
                   /\ [sql[o] EXCEPT !.succeeded = n].failed = sql[o].failed
                   /\ [sql[o] EXCEPT !.succeeded = n].succeeded = n
        BY <3>1 DEF Executions
      <4>2. /\ sql[o].failed \in Nat /\ sql[o].succeeded \in Nat /\ count[o] \in Nat
        BY <1>1, <3>1 DEF Executions
      <4>3. CASE bad
        <5>1. sql'[o] = [sql[o] EXCEPT !.failed = sql[o].failed + 1] /\ count' = count
          BY <1>1, <1>4, <4>3 DEF Admit
        <5>2. QED BY <4>1, <4>2, <4>3, <5>1
      <4>4. CASE ~bad
        <5>1. /\ sql'[o] = [sql[o] EXCEPT !.succeeded = sql[o].succeeded + one]
              /\ count'[o] = count[o] + 1
          <6>1. /\ sql' = [sql EXCEPT ![o].succeeded = IF h \in Native THEN @ + 1 ELSE @]
                /\ count' = [count EXCEPT ![o] = @ + 1]
            BY <1>4, <4>4 DEF Admit
          <6>2. CASE h \in Native    BY <1>1, <6>1, <6>2
          <6>3. CASE h \notin Native BY <1>1, <4>2, <6>1, <6>3
          <6>4. QED BY <6>2, <6>3
        <5>2. QED BY <4>1, <4>2, <4>4, <5>1
      <4>5. QED BY <4>3, <4>4
    <3>10. sources'[o] \subseteq {"sqlalchemy"} => sources[o] \subseteq {"sqlalchemy"} /\ h \in Native
      BY <1>1, <2>3 DEF Complete, Source
    <3>11. /\ sql[o].attempted \in Nat /\ sql[o].failed \in Nat /\ sql[o].succeeded \in Nat
           /\ count[o] \in Nat /\ manual[o] \in Nat /\ pending[o] \in Nat
      BY <1>1, <3>1 DEF Executions
    <3>12. pending'[o] = Cardinality(Unrecorded(o)') BY <3>1, <3>4, <3>8 DEF Tally
    <3>13. sql'[o].attempted = sql'[o].succeeded + sql'[o].failed
                               + Cardinality((Unrecorded(o) \cap Native)')
      BY <3>1, <3>6, <3>7, <3>9, <3>11 DEF Tally
    <3>14. count'[o] + sql'[o].failed = Cardinality(RecordedOf(o)') + manual'[o]
                                        + Cardinality(CountedOf(o)')
      BY <1>1, <1>2, <3>1, <3>5, <3>6, <3>9, <3>11 DEF Tally
    <3>15. sources'[o] \subseteq {"sqlalchemy"} => count'[o] = sql'[o].succeeded
      BY <3>1, <3>9, <3>10, <3>11 DEF Tally
    <3>16. \A s \in Spans : owner'[s] = o /\ span'[s] = "dropped" => dropped'[o] > 0
      BY <1>1, <3>1 DEF Tally
    <3>17. QED BY <1>1, <3>12, <3>13, <3>14, <3>15, <3>16 DEF Tally
  <2>6. ClosedIsEmpty'
    BY <1>1, <1>4, <2>3 DEF Admit, Complete, ClosedIsEmpty
  <2>7. QED BY <1>1, <2>4, <2>5, <2>6
<1>5. QED BY <1>1, <1>3, <1>4 DEF FinishRecord

(* Calls recorded by hand and sampled spans: no handle, so nothing in       *)
(* flight, and a source that is not SQLAlchemy.                             *)
LEMMA NoHandleTallyInv ==
  ASSUME Typed, ClaimInv, TallyInv, NEW o \in Owners, ~closed[o],
         NEW source \in {"manual", "sampled_span"}, Complete(o, source, FALSE),
         count' = [count EXCEPT ![o] = @ + 1],
         UNCHANGED <<closed, token, sql, dropped>>,
         \A h \in Handles : owner'[h] = owner[h] /\ Recorded(h)' = Recorded(h),
         \A s \in Spans : owner'[s] = owner[s] /\ (span'[s] = "dropped" <=> span[s] = "dropped"),
         \A p \in Owners : p # o => manual'[p] = manual[p] /\ CountedOf(p)' = CountedOf(p),
         manual'[o] + Cardinality(CountedOf(o)') = manual[o] + Cardinality(CountedOf(o)) + 1,
         manual'[o] \in Nat, Cardinality(CountedOf(o)') \in Nat
  PROVE  TallyInv'
<1> USE CallRecordingAssumption DEF Typed, TallyInv
<1>1. /\ sources' = [sources EXCEPT ![o] = @ \cup {source}] /\ pending'[o] = pending[o]
      /\ \A p \in Owners : p # o => pending'[p] = pending[p]
  BY DEF Complete
<1>2. ASSUME NEW p \in Owners
      PROVE  Unrecorded(p)' = Unrecorded(p) /\ RecordedOf(p)' = RecordedOf(p)
  BY SameCalls
<1>3. ASSUME NEW p \in Owners, ~closed[p], p # o PROVE Tally(p)'
  <2>1. Keeps(p) /\ KeepsDropped(p) BY ZenonT(40), <1>1, <1>3 DEF Keeps, KeepsDropped, Tally
  <2>2. KeepsCalls(p) BY <1>2, <1>3 DEF KeepsCalls
  <2>3. QED BY <1>3, <2>1, <2>2, KeptTally
<1>4. Tally(o)'
  <2>1. Tally(o) OBVIOUS
  <2>2. /\ Cardinality(Unrecorded(o)') = Cardinality(Unrecorded(o))
        /\ Cardinality(RecordedOf(o)') = Cardinality(RecordedOf(o))
    BY <1>2, SameSize
  <2>3. Cardinality((Unrecorded(o) \cap Native)') = Cardinality(Unrecorded(o) \cap Native)
    <3>1. (Unrecorded(o) \cap Native)' = Unrecorded(o) \cap Native BY <1>2
    <3>2. QED BY ONLY <3>1, SameSize, Zenon
  <2>4. ~(sources'[o] \subseteq {"sqlalchemy"}) BY <1>1
  <2>5. /\ count[o] \in Nat /\ sql[o].failed \in Nat /\ manual[o] \in Nat
        /\ Cardinality(RecordedOf(o)) \in Nat /\ Cardinality(CountedOf(o)) \in Nat
    <3>1. Cardinality(RecordedOf(o)) \in Nat /\ Cardinality(CountedOf(o)) \in Nat
      BY TalliesFinite, FS_CardinalityType
    <3>2. count[o] \in Nat /\ sql[o].failed \in Nat /\ manual[o] \in Nat BY DEF Executions
    <3>3. QED BY <3>1, <3>2
  <2>6. count'[o] + sql'[o].failed =
          Cardinality(RecordedOf(o)') + manual'[o] + Cardinality(CountedOf(o)')
    <3>1. count'[o] = count[o] + 1 /\ sql'[o] = sql[o] OBVIOUS
    <3>2. count[o] + sql[o].failed = Cardinality(RecordedOf(o)) + manual[o] + Cardinality(CountedOf(o))
      BY <2>1 DEF Tally
    <3>3. QED BY <2>2, <2>5, <3>1, <3>2
  <2>7. pending'[o] = Cardinality(Unrecorded(o)') /\ sql'[o] = sql[o]
    BY <1>1, <2>1, <2>2 DEF Tally
  <2>8. \A s \in Spans : owner'[s] = o /\ span'[s] = "dropped" => dropped'[o] > 0
    BY <2>1 DEF Tally
  <2>9. QED BY <2>1, <2>3, <2>4, <2>6, <2>7, <2>8 DEF Tally
<1>5. ClosedIsEmpty' BY <1>1 DEF Complete, ClosedIsEmpty
<1>6. QED BY <1>3, <1>4, <1>5

LEMMA RecordCallTallyInv ==
  ASSUME Typed, ClaimInv, TallyInv, NEW o \in Owners, RecordCall(o)
  PROVE  TallyInv'
<1> USE CallRecordingAssumption DEF Typed
<1>1. /\ ~closed[o] /\ manual' = [manual EXCEPT ![o] = @ + 1]
      /\ count' = [count EXCEPT ![o] = @ + 1] /\ Complete(o, "manual", FALSE)
      /\ UNCHANGED <<closed, token, sql, dropped, owner, attempt, span>>
  BY DEF RecordCall
<1>2. \A h \in Handles : Recorded(h)' = Recorded(h) BY <1>1 DEF Recorded
<1>3. \A p \in Owners : CountedOf(p)' = CountedOf(p) BY <1>1 DEF CountedOf
<1>4. Cardinality(CountedOf(o)') = Cardinality(CountedOf(o)) BY <1>3, SameSize
<1>5. Cardinality(CountedOf(o)) \in Nat BY TalliesFinite, FS_CardinalityType
<1>6. manual'[o] = manual[o] + 1 /\ manual[o] \in Nat BY <1>1
<1>7. manual'[o] + Cardinality(CountedOf(o)') = manual[o] + Cardinality(CountedOf(o)) + 1
  BY <1>4, <1>5, <1>6
<1>8. Cardinality(CountedOf(o)') \in Nat /\ manual'[o] \in Nat BY <1>4, <1>5, <1>6
<1>9. QED BY <1>1, <1>2, <1>3, <1>7, <1>8, NoHandleTallyInv

LEMMA SpanRecordTallyInv ==
  ASSUME Typed, ClaimInv, TallyInv, NEW s \in Spans, SpanRecord(s)
  PROVE  TallyInv'
<1> USE CallRecordingAssumption DEF Typed
<1>1. /\ span[s] = "popped" /\ UNCHANGED <<closed, token, dropped, owner, attempt, manual>>
      /\ owner[s] \in Owners
  BY DEF SpanRecord, ClaimInv, Owns
<1>2. \A h \in Handles : Recorded(h)' = Recorded(h) BY <1>1 DEF Recorded
<1>3. CASE UNCHANGED totals /\ span' = [span EXCEPT ![s] = "unknown"]
  <2>1. ASSUME NEW p \in Owners, ~closed[p] PROVE Tally(p)'
    <3>1. Keeps(p) /\ KeepsDropped(p)
      BY <1>1, <1>3, <2>1 DEF totals, Keeps, KeepsDropped, Tally, TallyInv
    <3>2. CountedOf(p)' = CountedOf(p) BY <1>1, <1>3 DEF CountedOf
    <3>3. KeepsCalls(p) BY <1>1, <1>2, <3>2, SameCalls DEF KeepsCalls
    <3>4. QED BY <2>1, <3>1, <3>3, KeptTally DEF TallyInv
  <2>2. ClosedIsEmpty' BY <1>1, <1>3 DEF totals, ClosedIsEmpty, TallyInv
  <2>3. QED BY <1>1, <2>1, <2>2 DEF TallyInv
<1>4. ASSUME NEW o \in Owners, owner[s] = o, ~closed[o],
             span' = [span EXCEPT ![s] = "counted"],
             count' = [count EXCEPT ![o] = @ + 1],
             Complete(o, "sampled_span", FALSE), UNCHANGED sql
      PROVE  TallyInv'
  <2>1. \A p \in Owners : p # o => CountedOf(p)' = CountedOf(p)
    BY <1>1, <1>4 DEF CountedOf
  <2>2. CountedOf(o)' = CountedOf(o) \cup {s} /\ s \notin CountedOf(o)
    BY <1>1, <1>4 DEF CountedOf
  <2>3. Cardinality(CountedOf(o)') = Cardinality(CountedOf(o)) + 1
    BY <2>2, TalliesFinite, OneMore
  <2>4. Cardinality(CountedOf(o)) \in Nat /\ manual[o] \in Nat
    <3>1. Cardinality(CountedOf(o)) \in Nat BY TalliesFinite, FS_CardinalityType
    <3>2. QED BY <3>1
  <2>5. manual'[o] + Cardinality(CountedOf(o)') = manual[o] + Cardinality(CountedOf(o)) + 1
        /\ manual'[o] \in Nat /\ Cardinality(CountedOf(o)') \in Nat
    BY <1>1, <2>3, <2>4
  <2>6. \A x \in Spans : span'[x] = "dropped" <=> span[x] = "dropped" BY <1>1, <1>4
  <2>7. QED BY <1>1, <1>2, <1>4, <2>1, <2>5, <2>6, NoHandleTallyInv
<1>5. QED BY <1>1, <1>3, <1>4 DEF SpanRecord

(* Steps that leave every total alone.                                      *)
LEMMA QuietTallyInv ==
  ASSUME Typed, ClaimInv, TallyInv,
         \/ \E a \in Attempts : FinishBegin(a) \/ FinishClaim(a)
         \/ \E s \in Spans, o \in Owners : SpanStart(s, o)
         \/ \E s \in Spans : SpanDrop(s) \/ SpanEnd(s)
         \/ \E o \in Owners : Summarize(o)
         \/ Fork
  PROVE  TallyInv'
<1> USE CallRecordingAssumption DEF Typed
<1>1. UNCHANGED <<closed, totals, manual>>
  BY DEF FinishBegin, FinishClaim, SpanStart, SpanDrop, SpanEnd, Summarize, Fork, totals
<1>2. \A h \in Handles : owner'[h] = owner[h]
  BY DEF FinishBegin, FinishClaim, SpanStart, SpanDrop, SpanEnd, Summarize, Fork
<1>3. \A a \in Attempts : attempt'[a] = "true" <=> attempt[a] = "true"
  BY DEF FinishBegin, FinishClaim, SpanStart, SpanDrop, SpanEnd, Summarize, Fork
<1>4. \A h \in Handles : Recorded(h)' = Recorded(h) BY <1>3 DEF Recorded
<1>5. \A o \in Owners, s \in Spans : owner'[s] = o /\ span'[s] = "counted" <=>
                                     owner[s] = o /\ span[s] = "counted"
  BY DEF FinishBegin, FinishClaim, SpanStart, SpanDrop, SpanEnd, Summarize, Fork
<1>6. \A o \in Owners : ~closed[o] => KeepsDropped(o)
  <2> DEFINE Told(o) == \A s \in Spans : owner[s] = o /\ span[s] = "dropped" => dropped[o] > 0
  <2>0. \A o \in Owners : ~closed[o] => Told(o)
    BY DEF TallyInv, Tally
  <2>1. CASE \E s \in Spans : SpanDrop(s)
    <3>1. PICK s \in Spans : SpanDrop(s) BY <2>1
    <3>2. owner[s] \in Owners BY <3>1 DEF SpanDrop, ClaimInv, Owns
    <3>3. \A o \in Owners : dropped'[o] \in Nat /\ dropped'[o] >= dropped[o]
      BY <3>1, <3>2 DEF SpanDrop
    <3>4. ~closed[owner[s]] => dropped'[owner[s]] > 0 BY <3>1, <3>2 DEF SpanDrop
    <3>5. \A x \in Spans : owner'[x] = owner[x] /\ (span'[x] = "dropped" => span[x] = "dropped" \/ x = s)
      BY <3>1 DEF SpanDrop
    <3>6. QED BY <2>0, <3>2, <3>3, <3>4, <3>5 DEF KeepsDropped
  <2>2. CASE ~\E s \in Spans : SpanDrop(s)
    <3>1. dropped' = dropped
      BY <2>2 DEF FinishBegin, FinishClaim, SpanStart, SpanEnd, Summarize, Fork
    <3>2. \A o \in Owners, s \in Spans : owner'[s] = o /\ span'[s] = "dropped" =>
                                         owner[s] = o /\ span[s] = "dropped"
      BY <2>2 DEF FinishBegin, FinishClaim, SpanStart, SpanEnd, Summarize, Fork
    <3>3. QED BY <2>0, <3>1, <3>2 DEF KeepsDropped
  <2>3. QED BY <2>1, <2>2
<1>7. ASSUME NEW o \in Owners, ~closed[o] PROVE Tally(o)'
  <2>1. Keeps(o) BY <1>1 DEF totals, Keeps
  <2>2. KeepsCalls(o) BY <1>2, <1>4, <1>5, SameCalls, SameSpans DEF KeepsCalls
  <2>3. QED BY <1>6, <1>7, <2>1, <2>2, KeptTally DEF TallyInv
<1>8. ClosedIsEmpty'
  <2>1. \A o \in Owners : closed[o] => token'[o] = token[o]
    BY DEF FinishBegin, FinishClaim, SpanStart, MintToken, SpanDrop, SpanEnd, Summarize, Fork
  <2>2. QED BY <1>1, <2>1 DEF totals, TallyInv, ClosedIsEmpty
<1>9. QED BY <1>1, <1>7, <1>8 DEF TallyInv

LEMMA CloseTallyInv ==
  ASSUME Typed, TallyInv, NEW o \in Owners, SummarizeAndClose(o) \/ Close(o)
  PROVE  TallyInv'
<1> USE CallRecordingAssumption DEF Typed, TallyInv
<1>1. Release(o) /\ UNCHANGED <<process, dropped, owner, handle, attempt, span, manual>>
  BY DEF SummarizeAndClose, Close
<1>2. ClosedIsEmpty' BY <1>1 DEF Release, ClosedIsEmpty
<1>3. ASSUME NEW p \in Owners, ~closed'[p] PROVE Tally(p)'
  <2>1. ~closed[p] /\ p # o BY <1>1, <1>3 DEF Release
  <2>2. Keeps(p) BY <1>1, <2>1 DEF Release, Keeps
  <2>3. KeepsDropped(p) BY <1>1, <2>1 DEF KeepsDropped, Tally
  <2>4. KeepsCalls(p)
    BY <1>1, SameCalls, SameSpans DEF KeepsCalls, Recorded
  <2>5. QED BY <2>1, <2>2, <2>3, <2>4, KeptTally
<1>4. QED BY <1>2, <1>3

LEMMA NextTallyInv == Typed /\ ClaimInv /\ TallyInv /\ [Next]_vars => TallyInv'
<1> SUFFICES ASSUME Typed, ClaimInv, TallyInv, [Next]_vars PROVE TallyInv'
  OBVIOUS
<1>1. CASE UNCHANGED vars
  <2>1. UNCHANGED <<closed, token, count, pending, sql, sources, dropped, owner, attempt, span, manual>>
    BY <1>1 DEF vars, totals
  <2>2. ASSUME NEW o \in Owners, ~closed[o] PROVE Tally(o)'
    <3>1. Keeps(o) /\ KeepsDropped(o) BY <2>1, <2>2 DEF Keeps, KeepsDropped, TallyInv, Tally
    <3>2. KeepsCalls(o) BY <2>1, SameCalls, SameSpans DEF KeepsCalls, Recorded
    <3>3. QED BY <2>2, <3>1, <3>2, KeptTally DEF TallyInv
  <2>3. ClosedIsEmpty' BY <2>1 DEF TallyInv, ClosedIsEmpty
  <2>4. QED BY <2>1, <2>2, <2>3 DEF TallyInv
<1>2. ASSUME NEW a \in Attempts, FinishRecord(a) PROVE TallyInv'
  <2>1. CallOf[a] \in Handles /\ owner[CallOf[a]] \in Owners
    BY <1>2, CallRecordingAssumption DEF FinishRecord, ClaimInv, Owns
  <2>2. QED BY <1>2, <2>1, FinishTallyInv
<1>3. CASE Next
  BY <1>2, <1>3, StartTallyInv, RecordCallTallyInv, SpanRecordTallyInv, QuietTallyInv,
     CloseTallyInv DEF Next
<1>4. QED BY <1>1, <1>3

(* What an open owner has in flight is what was started and not recorded.   *)
THEOREM ExactInFlight == Spec => []InFlightIsExact
<1>1. Init => Typed /\ ClaimInv /\ TallyInv BY InitTyped, InitClaimInv, InitTallyInv
<1>2. TallyInv => InFlightIsExact
  BY DEF TallyInv, Tally, InFlightIsExact, Unrecorded
<1>3. QED BY <1>1, <1>2, NextClaimInv, NextTallyInv, PTL DEF Spec

-----------------------------------------------------------------------------
(* Terminal records.                                                        *)
ReportInv ==
  /\ \A o \in Operations : report[o] # None => closed[o]
  /\ ReportIsExact
  /\ CoverageTellsOfHandles

LEMMA SummaryIsExact ==
  ASSUME Typed, NEW o \in Owners, Tally(o)
  PROVE  /\ Summary(o).count + Summary(o).failed =
              Cardinality(RecordedOf(o)) + manual[o] + Cardinality(CountedOf(o))
         /\ Summary(o).coverage = "instrumented_clients" =>
              /\ Summary(o).unfinished = {} /\ Summary(o).overflowed = {}
              /\ Summary(o).attempted = Summary(o).count + Summary(o).failed
<1> USE DEF Tally
<1>1. /\ Summary(o).count = count[o] /\ Summary(o).failed = sql[o].failed
      /\ Summary(o).attempted = sql[o].attempted /\ Summary(o).coverage = Observation(o)
      /\ Summary(o).unfinished = Unrecorded(o)
      /\ Summary(o).overflowed = {s \in Spans : owner[s] = o /\ span[s] = "dropped"}
  BY DEF Summary, Unrecorded
<1>2. CASE Observation(o) = "instrumented_clients"
  <2>1. /\ pending[o] = 0 /\ dropped[o] = 0 /\ sources[o] \subseteq {"sqlalchemy"}
    <3>1. ~(dropped[o] > 0) /\ ~(pending[o] > 0) /\ "sampled_span" \notin sources[o]
          /\ ~("manual" \in sources[o] /\ sources[o] # {"manual"}) /\ sources[o] # {"manual"}
      BY <1>2 DEF Observation
    <3>2. sources[o] \subseteq Sources /\ dropped[o] \in Nat /\ pending[o] \in Nat BY DEF Typed
    <3>3. QED BY <3>1, <3>2 DEF Sources
  <2>2. Unrecorded(o) = {} BY <2>1, TalliesFinite, FS_EmptySet
  <2>3. Cardinality(Unrecorded(o) \cap Native) = 0
    <3>1. Unrecorded(o) \cap Native = {} BY <2>2
    <3>2. QED BY <3>1, TalliesFinite, FS_EmptySet
  <2>4. sql[o].attempted = count[o] + sql[o].failed
    BY <2>1, <2>3 DEF Typed, Executions
  <2>5. {s \in Spans : owner[s] = o /\ span[s] = "dropped"} = {} BY <2>1
  <2>6. QED BY <1>1, <2>2, <2>4, <2>5
<1>3. QED BY <1>1, <1>2

(* Whatever is still held of a closed owner counts nothing any more.        *)
LEMMA ClosedCounts ==
  ASSUME Typed, ClaimInv, [Next]_vars, NEW o \in Owners, closed[o]
  PROVE  /\ closed'[o]
         /\ RecordedOf(o)' = RecordedOf(o) /\ CountedOf(o)' = CountedOf(o)
         /\ manual'[o] = manual[o]
<1> USE CallRecordingAssumption DEF Typed
<1>1. closed'[o] /\ manual'[o] = manual[o]
  BY ZenonT(40) DEF Next, Start, FinishBegin, FinishClaim, FinishRecord, RecordCall, SpanStart, SpanDrop,
     SpanEnd, SpanRecord, Summarize, SummarizeAndClose, Close, Release, Fork, vars, totals
<1>2. \A h \in Handles : owner'[h] = o <=> owner[h] = o
  <2>1. CASE \E h \in Handles, p \in Owners : Start(h, p)
    BY <2>1 DEF Start, ClaimInv, Fresh
  <2>2. CASE \E s \in Spans, p \in Owners : SpanStart(s, p)
    BY <2>2 DEF SpanStart
  <2>3. CASE owner' = owner BY <2>3
  <2>4. QED
    BY <2>1, <2>2, <2>3 DEF Next, FinishBegin, FinishClaim, FinishRecord, RecordCall, SpanDrop,
       SpanEnd, SpanRecord, Summarize, SummarizeAndClose, Close, Fork, vars
<1>3. \A a \in Attempts : owner[CallOf[a]] = o => (attempt'[a] = "true" <=> attempt[a] = "true")
  <2>1. CASE \/ \E a \in Attempts : FinishBegin(a) \/ FinishClaim(a)
             \/ Fork
    BY <2>1 DEF FinishBegin, FinishClaim, Fork
  <2>2. CASE \E a \in Attempts : FinishRecord(a) BY <2>2 DEF FinishRecord
  <2>3. CASE attempt' = attempt BY <2>3
  <2>4. QED
    BY <2>1, <2>2, <2>3 DEF Next, Start, RecordCall, SpanStart, SpanDrop, SpanEnd, SpanRecord,
       Summarize, SummarizeAndClose, Close, vars
<1>4. \A s \in Spans : owner'[s] = o /\ span'[s] = "counted" <=> owner[s] = o /\ span[s] = "counted"
  <2>1. CASE \/ \E s \in Spans, p \in Owners : SpanStart(s, p)
             \/ \E s \in Spans : SpanDrop(s) \/ SpanEnd(s)
             \/ Fork
    BY <2>1 DEF SpanStart, SpanDrop, SpanEnd, Fork
  <2>2. ASSUME NEW x \in Spans, SpanRecord(x)
        PROVE  \A s \in Spans : owner'[s] = o /\ span'[s] = "counted" <=>
                                owner[s] = o /\ span[s] = "counted"
    <3>1. span[x] = "popped" /\ owner' = owner BY <2>2 DEF SpanRecord
    <3>2. CASE span' = [span EXCEPT ![x] = "unknown"] BY <3>1, <3>2
    <3>3. CASE ~closed[owner[x]] /\ span' = [span EXCEPT ![x] = "counted"] BY <3>1, <3>3
    <3>4. QED BY <2>2, <3>2, <3>3 DEF SpanRecord
  <2>3. CASE span' = span /\ \A s \in Spans : owner'[s] = owner[s] BY <2>3
  <2>4. ASSUME NEW h \in Handles, NEW p \in Owners, Start(h, p)
        PROVE  span' = span /\ \A s \in Spans : owner'[s] = owner[s]
    BY <2>4 DEF Start
  <2>5. QED
    BY <2>1, <2>2, <2>3, <2>4 DEF Next, FinishBegin, FinishClaim, FinishRecord, RecordCall,
       Summarize, SummarizeAndClose, Close, vars
<1>5. \A h \in Handles : owner[h] = o => Recorded(h)' = Recorded(h) BY <1>3 DEF Recorded
<1>6. QED BY <1>1, <1>2, <1>4, <1>5, SameCalls, SameSpans

LEMMA NextReportInv ==
  Typed /\ ClaimInv /\ TallyInv /\ ReportInv /\ [Next]_vars => ReportInv'
<1> SUFFICES ASSUME Typed, ClaimInv, TallyInv, ReportInv, [Next]_vars PROVE ReportInv'
  OBVIOUS
<1> USE CallRecordingAssumption
<1>1. ASSUME NEW o \in Owners, report'[o] = report[o],
             o \in Operations /\ report[o] # None => closed[o]
      PROVE  /\ o \in Operations /\ report'[o] # None =>
                  /\ closed'[o]
                  /\ report'[o].count + report'[o].failed =
                       Cardinality(RecordedOf(o)') + manual'[o] + Cardinality(CountedOf(o)')
             /\ report'[o] # None /\ report'[o].coverage = "instrumented_clients" =>
                  /\ report'[o].unfinished = {} /\ report'[o].overflowed = {}
                  /\ report'[o].attempted = report'[o].count + report'[o].failed
  <2>1. CASE o \in Operations /\ report[o] # None
    <3>1. /\ closed'[o] /\ manual'[o] = manual[o]
          /\ Cardinality(RecordedOf(o)') = Cardinality(RecordedOf(o))
          /\ Cardinality(CountedOf(o)') = Cardinality(CountedOf(o))
      BY <1>1, <2>1, ClosedCounts, SameSize
    <3>2. report[o].count + report[o].failed =
            Cardinality(RecordedOf(o)) + manual[o] + Cardinality(CountedOf(o))
      BY <2>1 DEF ReportInv, ReportIsExact, RecordedOf, CountedOf
    <3>3. QED BY <1>1, <3>1, <3>2 DEF ReportInv, CoverageTellsOfHandles
  <2>2. CASE ~(o \in Operations /\ report[o] # None)
    BY <1>1, <2>2 DEF ReportInv, CoverageTellsOfHandles
  <2>3. QED BY <2>1, <2>2
<1>2. ASSUME NEW o \in Owners, report'[o] # report[o]
      PROVE  /\ o \in Operations =>
                  /\ closed'[o]
                  /\ report'[o].count + report'[o].failed =
                       Cardinality(RecordedOf(o)') + manual'[o] + Cardinality(CountedOf(o)')
             /\ report'[o].coverage = "instrumented_clients" =>
                  /\ report'[o].unfinished = {} /\ report'[o].overflowed = {}
                  /\ report'[o].attempted = report'[o].count + report'[o].failed
  <2>1. /\ report'[o] = Summary(o) /\ ~closed[o] /\ (o \in Operations => closed'[o])
        /\ UNCHANGED <<owner, attempt, span, manual>>
    <3>1. Summarize(o) \/ SummarizeAndClose(o)
      BY <1>2 DEF Next, Start, FinishBegin, FinishClaim, FinishRecord, RecordCall, SpanStart,
         SpanDrop, SpanEnd, SpanRecord, Summarize, SummarizeAndClose, Close, Fork, vars, Typed
    <3>2. QED BY <3>1 DEF Summarize, SummarizeAndClose, Release, Typed
  <2>2. Tally(o) BY <2>1 DEF TallyInv
  <2>3. /\ Cardinality(RecordedOf(o)') = Cardinality(RecordedOf(o))
        /\ Cardinality(CountedOf(o)') = Cardinality(CountedOf(o))
    <3>1. RecordedOf(o)' = RecordedOf(o) /\ CountedOf(o)' = CountedOf(o)
      BY <2>1, SameCalls, SameSpans DEF Recorded
    <3>2. QED BY <3>1, SameSize
  <2>4. manual'[o] = manual[o] BY <2>1
  <2>5. QED BY <2>1, <2>2, <2>3, <2>4, SummaryIsExact
<1>3. (\A o \in Operations : report[o] # None => closed[o])' BY <1>1, <1>2 DEF ReportInv
<1>4. ReportIsExact' BY <1>1, <1>2 DEF ReportInv, ReportIsExact, RecordedOf, CountedOf
<1>5. CoverageTellsOfHandles' BY <1>1, <1>2 DEF ReportInv, CoverageTellsOfHandles
<1>6. QED BY <1>3, <1>4, <1>5 DEF ReportInv

-----------------------------------------------------------------------------
(* The tracking of spans never holds more than its limit, because an entry  *)
(* goes with its owner and no step brings an owner back to life.            *)

LEMMA OnlySpanStartTracks ==
  ASSUME Typed, ClaimInv, [Next]_vars, ~\E s \in Spans, o \in Owners : SpanStart(s, o)
  PROVE  Tracked' \subseteq Tracked
<1> USE CallRecordingAssumption DEF Typed
<1>1. \A s \in Spans : owner'[s] = owner[s]
  <2>1. ASSUME NEW h \in Handles, NEW o \in Owners, Start(h, o), NEW s \in Spans
        PROVE  owner'[s] = owner[s]
    BY <2>1 DEF Start
  <2>2. CASE owner' = owner BY <2>2
  <2>3. QED
    BY <2>1, <2>2 DEF Next, FinishBegin, FinishClaim, FinishRecord, RecordCall, SpanDrop,
       SpanEnd, SpanRecord, Summarize, SummarizeAndClose, Close, Fork, vars
<1>2. \A s \in Spans : span'[s] = "tracked" => span[s] = "tracked"
  <2>1. CASE \/ \E s \in Spans : SpanDrop(s) \/ SpanEnd(s)
             \/ Fork
    BY <2>1 DEF SpanDrop, SpanEnd, Fork
  <2>2. CASE \E s \in Spans : SpanRecord(s) BY <2>2 DEF SpanRecord
  <2>3. CASE span' = span BY <2>3
  <2>4. QED
    BY <2>1, <2>2, <2>3 DEF Next, Start, FinishBegin, FinishClaim, FinishRecord, RecordCall,
       Summarize, SummarizeAndClose, Close, vars
<1>3. \A o \in Owners : closed[o] => closed'[o]
  BY DEF Next, Start, FinishBegin, FinishClaim, FinishRecord, RecordCall, SpanDrop, SpanEnd,
     SpanRecord, Summarize, SummarizeAndClose, Close, Release, Fork, vars
<1>4. \A a \in Attempts : attempt'[a] \in {"owned", "claimed"} =>
        /\ owner'[CallOf[a]] = owner[CallOf[a]] /\ owner[CallOf[a]] \in Owners
        /\ closed[owner[CallOf[a]]] => attempt[a] \in {"owned", "claimed"}
  <2>1. CASE \E h \in Handles, o \in Owners : Start(h, o)
    BY <2>1 DEF Start, ClaimInv, Fresh, Owns
  <2>2. CASE \E a \in Attempts : FinishBegin(a) \/ FinishClaim(a) \/ FinishRecord(a)
    BY <2>2 DEF FinishBegin, FinishClaim, FinishRecord, Owned, ClaimInv, Owns
  <2>3. CASE Fork BY <2>3 DEF Fork
  <2>4. CASE attempt' = attempt /\ owner' = owner BY <2>4 DEF ClaimInv, Owns
  <2>5. QED BY <2>1, <2>2, <2>3, <2>4
        DEF Next, RecordCall, SpanDrop, SpanEnd, SpanRecord, Summarize, SummarizeAndClose, Close,
            vars
<1>5. ASSUME NEW o \in Owners, Alive(o)' PROVE Alive(o)
  BY <1>3, <1>4, <1>5 DEF Alive
<1>6. \A s \in Spans : span[s] = "tracked" => owner[s] \in Owners BY DEF ClaimInv, Owns
<1>7. ASSUME NEW s \in Spans, span'[s] = "tracked", Alive(owner[s])' PROVE s \in Tracked
  BY <1>1, <1>2, <1>5, <1>6, <1>7 DEF Tracked
<1>8. QED BY <1>1, <1>7 DEF Tracked

LEMMA NextTrackedFits == Typed /\ ClaimInv /\ TrackedFits /\ [Next]_vars => TrackedFits'
<1> SUFFICES ASSUME Typed, ClaimInv, TrackedFits, [Next]_vars PROVE TrackedFits'
  OBVIOUS
<1> USE CallRecordingAssumption
<1>1. IsFiniteSet(Tracked) /\ Cardinality(Tracked) \in Nat
  BY FS_Subset, FS_CardinalityType DEF Tracked
<1>2. CASE Tracked' \subseteq Tracked
  <2>1. Cardinality(Tracked') <= Cardinality(Tracked) /\ IsFiniteSet(Tracked')
    BY <1>1, <1>2, FS_Subset
  <2>2. Cardinality(Tracked') \in Nat BY <2>1, FS_CardinalityType
  <2>3. QED BY <1>1, <2>1, <2>2 DEF TrackedFits
<1>3. ASSUME NEW s \in Spans, NEW o \in Owners, SpanStart(s, o) PROVE TrackedFits'
  <2>1. /\ owner' = [owner EXCEPT ![s] = o] /\ UNCHANGED <<closed, attempt>> /\ span[s] = "new"
        /\ span' = [span EXCEPT ![s] = IF Cardinality(Tracked) >= SpanLimit THEN "dropping"
                                                                          ELSE "tracked"]
    BY <1>3 DEF SpanStart
  <2>2. \A p : Alive(p)' <=> Alive(p)
    <3>1. \A a \in Attempts : owner'[CallOf[a]] = owner[CallOf[a]] BY <2>1 DEF Typed
    <3>2. QED BY <2>1, <3>1 DEF Alive
  <2>3. \A x \in Spans : x # s => (x \in Tracked' <=> x \in Tracked)
    BY <2>1, <2>2 DEF Tracked, Typed
  <2>4. CASE Cardinality(Tracked) >= SpanLimit
    <3>1. Tracked' \subseteq Tracked BY <2>1, <2>3, <2>4 DEF Tracked, Typed
    <3>2. QED BY <1>2, <3>1
  <2>5. CASE ~(Cardinality(Tracked) >= SpanLimit)
    <3>1. Tracked' \in SUBSET (Tracked \cup {s}) BY <2>3 DEF Tracked
    <3>2. /\ IsFiniteSet(Tracked \cup {s})
          /\ Cardinality(Tracked \cup {s}) <= Cardinality(Tracked) + 1
          /\ Cardinality(Tracked \cup {s}) \in Nat
      <4>1. /\ IsFiniteSet(Tracked \cup {s})
            /\ Cardinality(Tracked \cup {s}) =
                 IF s \in Tracked THEN Cardinality(Tracked) ELSE Cardinality(Tracked) + 1
        BY <1>1, FS_AddElement, Zenon
      <4>2. QED BY <1>1, <4>1
    <3>3. Cardinality(Tracked') <= Cardinality(Tracked \cup {s}) /\ IsFiniteSet(Tracked')
      BY <3>1, <3>2, FS_Subset
    <3>4. Cardinality(Tracked') \in Nat BY <3>3, FS_CardinalityType
    <3>5. QED BY <1>1, <2>5, <3>2, <3>3, <3>4 DEF TrackedFits
  <2>6. QED BY <2>4, <2>5
<1>4. QED BY <1>2, <1>3, OnlySpanStartTracks

-----------------------------------------------------------------------------
IInv == TypeOK /\ ClaimInv /\ TallyInv /\ ReportInv

LEMMA InitIInv == Init => IInv
<1> SUFFICES ASSUME Init PROVE IInv
  OBVIOUS
<1>1. Typed /\ ClaimInv /\ TallyInv BY InitTyped, InitClaimInv, InitTallyInv
<1>2. Tracked = {} BY DEF Init, Tracked
<1>3. TrackedFits BY <1>2, FS_EmptySet, CallRecordingAssumption DEF TrackedFits
<1>4. ReportInv
  BY CallRecordingAssumption DEF Init, ReportInv, ReportIsExact, CoverageTellsOfHandles
<1>5. QED BY <1>1, <1>3, <1>4 DEF IInv, TypeOK

LEMMA NextIInv == IInv /\ [Next]_vars => IInv'
  BY NextClaimInv, NextTallyInv, NextReportInv, NextTrackedFits DEF IInv, TypeOK

(* The first finish of a call is the only one that counts, the record of an *)
(* operation has exactly the calls whose callers were told so, and nothing  *)
(* is left of a closed owner.                                               *)
THEOREM FinalReports == Spec => []ReportsAreFinal
<1>1. IInv => ReportsAreFinal
  <2> SUFFICES ASSUME IInv PROVE ReportsAreFinal
    OBVIOUS
  <2>1. FirstFinishOnly BY DEF IInv, ClaimInv, ClaimedOnce, Claimed, FirstFinishOnly
  <2>2. QED BY <2>1 DEF IInv, ReportsAreFinal, TallyInv, ReportInv
<1>2. QED BY <1>1, InitIInv, NextIInv, PTL DEF Spec

(* A record that claims to come from instrumented clients tells of every    *)
(* call of its owner that has a handle: each ended and is counted, none was *)
(* reported by hand, and no refused span was counted before the record.     *)
THEOREM HandlesAreTold == Spec => []CoverageTellsOfHandles
<1>1. IInv => CoverageTellsOfHandles BY DEF IInv, ReportInv
<1>2. QED BY <1>1, InitIInv, NextIInv, PTL DEF Spec

-----------------------------------------------------------------------------
(* The ledger.  A token tells whose calls an open owner has: none, those of *)
(* this process, or those of the parent, and a span that was taken out of   *)
(* the tracking to be counted is one of this process.                       *)
TokenInv ==
  /\ process = "parent" => \A o \in Owners : token[o] # "child"
  /\ \A o \in Owners : ~closed[o] =>
       (token[o] # None <=> \E x \in Handles \cup Spans : owner[x] = o)
  /\ \A s \in Spans : span[s] = "popped" /\ ~closed[owner[s]] => token[owner[s]] = process

LEMMA InitTokenInv == Init => TokenInv
  BY CallRecordingAssumption DEF Init, TokenInv

\* A call enters under an open owner.
LEMMA EnterTokenInv ==
  ASSUME Typed, ClaimInv, TokenInv, NEW c \in Handles \cup Spans, NEW o \in Owners,
         ~closed[o], owner[c] = None, owner' = [owner EXCEPT ![c] = o], MintToken(o),
         UNCHANGED <<process, closed>>,
         \A s \in Spans : span'[s] = "popped" => span[s] = "popped" /\ s # c
  PROVE  TokenInv' /\ Foreign' = Foreign
<1> USE CallRecordingAssumption DEF Typed
<1>1. \A p \in Owners : token'[p] = IF p = o /\ token[p] = None THEN process ELSE token[p]
  BY DEF MintToken
<1>2. \A x \in Handles \cup Spans : owner'[x] = IF x = c THEN o ELSE owner[x]
  OBVIOUS
<1>3. (process = "parent" => \A p \in Owners : token[p] # "child")'
  BY <1>1 DEF TokenInv
<1>4. ASSUME NEW p \in Owners, ~closed[p]
      PROVE  token'[p] # None <=> \E x \in Handles \cup Spans : owner'[x] = p
  <2>1. CASE p = o  BY <1>1, <1>2, <2>1
  <2>2. CASE p # o
    <3>1. \A x \in Handles \cup Spans : owner'[x] = p <=> owner[x] = p  BY <1>2, <2>2
    <3>2. QED BY <1>1, <1>4, <2>2, <3>1 DEF TokenInv
  <2>3. QED BY <2>1, <2>2
<1>5. ASSUME NEW s \in Spans, span'[s] = "popped", ~closed[owner'[s]]
      PROVE  token'[owner'[s]] = process
  <2>1. owner'[s] = owner[s] /\ owner[s] \in Owners /\ token[owner[s]] = process
    BY <1>2, <1>5 DEF TokenInv, ClaimInv, Owns
  <2>2. QED BY <1>1, <2>1
<1>6. Foreign' = Foreign
  BY <1>1 DEF Foreign, Open
<1>7. QED BY <1>3, <1>4, <1>5, <1>6 DEF TokenInv

\* No call enters and no owner closes.
LEMMA KeptTokenInv ==
  ASSUME TokenInv, UNCHANGED <<process, closed, token, owner>>,
         \A s \in Spans : span'[s] = "popped" =>
           span[s] = "popped" \/ closed[owner[s]] \/ token[owner[s]] = process
  PROVE  TokenInv'
  BY DEF TokenInv

LEMMA CloseTokenInv ==
  ASSUME Typed, ClaimInv, TokenInv, NEW o \in Owners, Release(o),
         UNCHANGED <<process, owner, span>>
  PROVE  TokenInv'
<1> USE CallRecordingAssumption DEF Typed
<1>1. \A p \in Owners : /\ closed'[p] <=> closed[p] \/ p = o
                        /\ token'[p] = IF p = o THEN None ELSE token[p]
  BY DEF Release
<1>2. (process = "parent" => \A p \in Owners : token[p] # "child")'
  BY <1>1 DEF TokenInv
<1>3. ASSUME NEW p \in Owners, ~closed'[p]
      PROVE  token'[p] # None <=> \E x \in Handles \cup Spans : owner'[x] = p
  BY <1>1, <1>3 DEF TokenInv
<1>4. ASSUME NEW s \in Spans, span'[s] = "popped", ~closed'[owner'[s]]
      PROVE  token'[owner'[s]] = process'
  BY <1>1, <1>4 DEF TokenInv, ClaimInv, Owns
<1>5. QED BY <1>2, <1>3, <1>4 DEF TokenInv

LEMMA NextTokenInv == Typed /\ ClaimInv /\ TokenInv /\ [Next]_vars => TokenInv'
<1> SUFFICES ASSUME Typed, ClaimInv, TokenInv, [Next]_vars PROVE TokenInv'
  OBVIOUS
<1>1. ASSUME NEW h \in Handles, NEW o \in Owners, Start(h, o) PROVE TokenInv'
  <2>1. CASE closed[o]  BY <1>1, <2>1, KeptTokenInv DEF Start
  <2>2. CASE ~closed[o]
    <3>1. owner[h] = None  BY <1>1 DEF Start, ClaimInv, Fresh
    <3>2. h \notin Spans  BY CallRecordingAssumption
    <3>3. QED BY <1>1, <2>2, <3>1, <3>2, EnterTokenInv DEF Start
  <2>3. QED BY <2>1, <2>2
<1>2. ASSUME NEW s \in Spans, NEW o \in Owners, SpanStart(s, o) PROVE TokenInv'
  <2>1. owner[s] = None  BY <1>2 DEF SpanStart, ClaimInv, Fresh
  <2>2. \A x \in Spans : span'[x] = "popped" => span[x] = "popped" /\ x # s
    BY <1>2 DEF SpanStart, Typed
  <2>3. QED BY <1>2, <2>1, <2>2, EnterTokenInv DEF SpanStart
<1>3. ASSUME NEW s \in Spans, SpanDrop(s) \/ SpanEnd(s) \/ SpanRecord(s) PROVE TokenInv'
  <2>1. UNCHANGED <<process, closed, token, owner>>
    BY <1>3 DEF SpanDrop, SpanEnd, SpanRecord
  <2>2. \A x \in Spans : span'[x] = "popped" => span[x] = "popped" \/ Owned(owner[x])
    BY <1>3 DEF SpanDrop, SpanEnd, SpanRecord, Typed
  <2>3. QED BY <2>1, <2>2, KeptTokenInv DEF Owned
<1>4. ASSUME NEW o \in Owners, SummarizeAndClose(o) \/ Close(o) PROVE TokenInv'
  BY <1>4, CloseTokenInv DEF SummarizeAndClose, Close
<1>5. CASE Fork
  <2>1. /\ process' = "child" /\ UNCHANGED <<closed, token, owner>>
        /\ \A s \in Spans : span'[s] # "popped"
    BY <1>5 DEF Fork, Typed
  <2>2. QED BY <2>1 DEF TokenInv
<1>6. CASE \/ \E a \in Attempts : FinishBegin(a) \/ FinishClaim(a) \/ FinishRecord(a)
           \/ \E o \in Owners : RecordCall(o) \/ Summarize(o)
           \/ UNCHANGED vars
  BY <1>6, KeptTokenInv
     DEF FinishBegin, FinishClaim, FinishRecord, RecordCall, Summarize, vars
<1>7. QED BY <1>1, <1>2, <1>3, <1>4, <1>5, <1>6 DEF Next

LEMMA LedgerCounts == ASSUME NEW S PROVE Ledger!Cardinality(S) = Cardinality(S)
  BY Zenon DEF Ledger!Cardinality, Cardinality

\* What a terminal record says is the balance of the ledger.
LEMMA SummaryIsBalance ==
  ASSUME Typed, NEW o \in Owners, Tally(o)
  PROVE  Ledger!Balance(o) = [counted   |-> Summary(o).count + Summary(o).failed,
                              in_flight |-> Summary(o).in_flight]
<1>1. Ledger!Under(o) \cap Counted = RecordedOf(o) \cup CountedOf(o)
  BY CallRecordingAssumption DEF Ledger!Under, Counted, RecordedOf, CountedOf, HandlesOf
<1>2. (Ledger!Under(o) \cap Handles) \ Counted = Unrecorded(o)
  BY CallRecordingAssumption DEF Ledger!Under, Counted, Unrecorded, HandlesOf
<1>3. Cardinality(RecordedOf(o) \cup CountedOf(o)) =
        Cardinality(RecordedOf(o)) + Cardinality(CountedOf(o))
  <2>1. RecordedOf(o) \cap CountedOf(o) = {}
    BY CallRecordingAssumption DEF RecordedOf, CountedOf, HandlesOf
  <2>2. Cardinality(RecordedOf(o)) \in Nat /\ Cardinality(CountedOf(o)) \in Nat
    BY TalliesFinite, FS_CardinalityType
  <2>3. Cardinality(RecordedOf(o) \cup CountedOf(o)) =
          Cardinality(RecordedOf(o)) + Cardinality(CountedOf(o))
            - Cardinality(RecordedOf(o) \cap CountedOf(o))
    BY TalliesFinite, FS_Union, Zenon
  <2>4. Cardinality(RecordedOf(o) \cap CountedOf(o)) = 0
    BY <2>1, FS_EmptySet, Zenon
  <2>5. QED BY ONLY <2>2, <2>3, <2>4
<1>4. /\ Summary(o).count = count[o] /\ Summary(o).failed = sql[o].failed
      /\ Summary(o).in_flight = pending[o]
  BY DEF Summary
<1>5. Cardinality(Ledger!Under(o) \cap Counted) + manual[o] = count[o] + sql[o].failed
  <2>1. Cardinality(RecordedOf(o)) \in Nat /\ Cardinality(CountedOf(o)) \in Nat
    BY TalliesFinite, FS_CardinalityType
  <2>2. manual[o] \in Nat  BY CallRecordingAssumption DEF Typed
  <2>3. Cardinality(Ledger!Under(o) \cap Counted) =
          Cardinality(RecordedOf(o)) + Cardinality(CountedOf(o))
    BY ONLY <1>1, <1>3, Zenon
  <2>4. count[o] + sql[o].failed =
          Cardinality(RecordedOf(o)) + manual[o] + Cardinality(CountedOf(o))
    BY DEF Tally
  <2>5. QED BY ONLY <2>1, <2>2, <2>3, <2>4
<1>6. Cardinality((Ledger!Under(o) \cap Handles) \ Counted) = pending[o]
  <2>1. pending[o] = Cardinality(Unrecorded(o))  BY DEF Tally
  <2>2. QED BY ONLY <1>2, <2>1, Zenon
<1>7. Ledger!Balance(o) =
        [counted   |-> Cardinality(Ledger!Under(o) \cap Counted) + manual[o],
         in_flight |-> Cardinality((Ledger!Under(o) \cap Handles) \ Counted)]
  BY LedgerCounts, Zenon DEF Ledger!Balance
<1>8. QED BY ONLY <1>4, <1>5, <1>6, <1>7, Zenon

LEMMA LedgerStands ==
  ASSUME UNCHANGED <<process, closed, token, owner, manual, report>>, Counted' = Counted
  PROVE  UNCHANGED Ledger!vars
  BY DEF Ledger!vars, Open, Foreign, Stated

\* Whatever thread records a call, it is counted where it was entered.
LEMMA RecordCounts ==
  ASSUME Typed, ClaimInv, TokenInv,
         \/ \E a \in Attempts : FinishRecord(a)
         \/ \E s \in Spans : SpanRecord(s)
  PROVE  [Ledger!Next]_(Ledger!vars)
<1> USE CallRecordingAssumption
<1>1. UNCHANGED <<process, closed, token, owner, manual, report>>
  BY DEF FinishRecord, SpanRecord
<1>2. Open' = Open /\ Foreign' = Foreign /\ Stated' = Stated
  BY <1>1 DEF Open, Foreign, Stated
<1>3. ASSUME NEW c \in Handles \cup Spans, c \notin Counted, Counted' = Counted \cup {c},
             owner[c] \in Owners, ~closed[owner[c]], token[owner[c]] = process
      PROVE  Ledger!Next
  <2>1. owner[c] \in Open \ Foreign  BY <1>3 DEF Open, Foreign
  <2>2. Ledger!Count(c)  BY <1>1, <1>2, <1>3, <2>1 DEF Ledger!Count
  <2>3. QED BY <2>2 DEF Ledger!Next
<1>4. ASSUME NEW a \in Attempts, FinishRecord(a) PROVE [Ledger!Next]_(Ledger!vars)
  <2> DEFINE h == CallOf[a]
  <2>1. h \in Handles /\ h \notin Spans /\ attempt[a] = "claimed" /\ span' = span
    BY <1>4 DEF FinishRecord
  <2>2. CASE ~closed[owner[h]] /\ attempt' = [attempt EXCEPT ![a] = "true"]
    <3>1. owner[h] \in Owners /\ token[owner[h]] = process
      BY <2>1, <2>2 DEF ClaimInv, Owns, HeldHere
    <3>2. ~Recorded(h)
      BY <2>1 DEF Recorded, ClaimInv, ClaimedOnce, Claimed
    <3>3. \A g \in Handles : Recorded(g)' <=> Recorded(g) \/ g = h
      BY <2>1, <2>2 DEF Recorded, Typed
    <3>4. h \notin Counted /\ Counted' = Counted \cup {h}
      BY <2>1, <3>2, <3>3 DEF Counted
    <3>5. QED BY <1>3, <2>1, <2>2, <3>1, <3>4
  <2>3. CASE attempt' = [attempt EXCEPT ![a] = "false"]
    <3>1. \A g \in Handles : Recorded(g)' <=> Recorded(g)
      BY <2>1, <2>3 DEF Recorded, Typed
    <3>2. Counted' = Counted  BY <2>1, <3>1 DEF Counted
    <3>3. QED BY <1>1, <3>2, LedgerStands
  <2>4. QED BY <1>4, <2>2, <2>3 DEF FinishRecord
<1>5. ASSUME NEW s \in Spans, SpanRecord(s) PROVE [Ledger!Next]_(Ledger!vars)
  <2>1. s \notin Handles /\ span[s] = "popped" /\ attempt' = attempt
    BY <1>5 DEF SpanRecord
  <2>2. \A g \in Handles : Recorded(g)' <=> Recorded(g)
    BY <2>1 DEF Recorded
  <2>3. CASE ~closed[owner[s]] /\ span' = [span EXCEPT ![s] = "counted"]
    <3>1. owner[s] \in Owners /\ token[owner[s]] = process
      BY <2>1, <2>3 DEF ClaimInv, Owns, TokenInv
    <3>2. s \notin Counted /\ Counted' = Counted \cup {s}
      BY <2>1, <2>2, <2>3 DEF Counted, Typed
    <3>3. QED BY <1>3, <2>3, <3>1, <3>2
  <2>4. CASE span' = [span EXCEPT ![s] = "unknown"]
    <3>1. Counted' = Counted  BY <2>1, <2>2, <2>4 DEF Counted, Typed
    <3>2. QED BY <1>1, <3>1, LedgerStands
  <2>5. QED BY <1>5, <2>3, <2>4 DEF SpanRecord
<1>6. QED BY <1>4, <1>5

\* A call that starts under an open owner is entered there, with its handle or its span.
LEMMA StartEnters ==
  ASSUME Typed, ClaimInv, TokenInv, NEW o \in Owners,
         (\E h \in Handles : Start(h, o)) \/ (\E s \in Spans : SpanStart(s, o))
  PROVE  [Ledger!Next]_(Ledger!vars)
<1> USE CallRecordingAssumption
<1>1. UNCHANGED <<process, closed, attempt, manual, report>>
  BY DEF Start, SpanStart
<1>2. \A g \in Handles : Recorded(g)' <=> Recorded(g)
  BY <1>1 DEF Recorded
<1>3. Counted' = Counted
  BY <1>2 DEF Counted, Start, SpanStart, Typed
<1>4. Open' = Open /\ Stated' = Stated
  BY <1>1 DEF Open, Stated
<1>5. ASSUME NEW c \in Handles \cup Spans, ~closed[o], owner[c] = None,
             owner' = [owner EXCEPT ![c] = o], Foreign' = Foreign
      PROVE  Ledger!Next
  <2>1. Ledger!Enter(c, o)  BY <1>1, <1>3, <1>4, <1>5 DEF Ledger!Enter, Open
  <2>2. QED BY <2>1 DEF Ledger!Next
<1>6. ASSUME NEW h \in Handles, Start(h, o) PROVE [Ledger!Next]_(Ledger!vars)
  <2>1. CASE closed[o]
    BY <1>1, <1>3, <1>6, <2>1, LedgerStands DEF Start
  <2>2. CASE ~closed[o]
    <3>1. owner[h] = None /\ h \notin Spans /\ span' = span
      BY <1>6 DEF Start, ClaimInv, Fresh
    <3>2. Foreign' = Foreign
      BY <1>1, <1>6, <2>2, <3>1, EnterTokenInv DEF Start
    <3>3. QED BY <1>5, <1>6, <2>2, <3>1, <3>2 DEF Start
  <2>3. QED BY <2>1, <2>2
<1>7. ASSUME NEW s \in Spans, SpanStart(s, o) PROVE [Ledger!Next]_(Ledger!vars)
  <2>1. owner[s] = None /\ \A x \in Spans : span'[x] = "popped" => span[x] = "popped" /\ x # s
    BY <1>7 DEF SpanStart, ClaimInv, Fresh, Typed
  <2>2. Foreign' = Foreign
    BY <1>1, <1>7, <2>1, EnterTokenInv DEF SpanStart
  <2>3. QED BY <1>5, <1>7, <2>1, <2>2 DEF SpanStart
<1>8. QED BY <1>6, <1>7

LEMMA EndStates ==
  ASSUME Typed, TallyInv, ReportInv, NEW o \in Owners,
         Summarize(o) \/ SummarizeAndClose(o) \/ Close(o)
  PROVE  Ledger!Next
<1> USE CallRecordingAssumption
<1>1. /\ ~closed[o] /\ UNCHANGED <<process, owner, attempt, span, manual>>
  BY DEF Summarize, SummarizeAndClose, Close
<1>2. \A g \in Handles : Recorded(g)' <=> Recorded(g)
  BY <1>1 DEF Recorded
<1>3. Counted' = Counted  BY <1>1, <1>2 DEF Counted
<1>4. ASSUME report[o] = None, report' = [report EXCEPT ![o] = Summary(o)] PROVE Ledger!States(o)
  <2>1. Summary(o) \in Reports /\ Summary(o) # None  BY SummaryType, ReportsAssumption
  <2>2. Ledger!Balance(o) = [counted   |-> Summary(o).count + Summary(o).failed,
                             in_flight |-> Summary(o).in_flight]
    BY <1>1, SummaryIsBalance DEF TallyInv
  <2>3. Stated[o] = None /\ Stated' = [Stated EXCEPT ![o] = Ledger!Balance(o)]
    BY <1>4, <2>1, <2>2 DEF Stated, Typed
  <2>4. QED BY <2>3 DEF Ledger!States
<1>5. ASSUME Release(o) PROVE Ledger!Closes(o)
  <2>1. Open' = Open \ {o}  BY <1>5 DEF Release, Open, Typed
  <2>2. Foreign' = Foreign \ {o}  BY <1>1, <1>5, <2>1 DEF Release, Foreign, Open, Typed
  <2>3. QED BY <1>1, <2>1, <2>2 DEF Ledger!Closes, Open
<1>6. CASE Summarize(o)
  <2>1. Ledger!States(o)  BY <1>4, <1>6 DEF Summarize
  <2>2. Open' = Open /\ Foreign' = Foreign /\ o \in Open \ Operations
    BY <1>6 DEF Summarize, Open, Foreign
  <2>3. Ledger!State(o)  BY <1>1, <1>3, <2>1, <2>2 DEF Ledger!State
  <2>4. QED BY <2>3 DEF Ledger!Next
<1>7. CASE SummarizeAndClose(o)
  <2>1. o \in Operations /\ report[o] = None
    BY <1>1, <1>7 DEF SummarizeAndClose, ReportInv
  <2>2. Ledger!States(o) /\ Ledger!Closes(o)
    BY <1>4, <1>5, <1>7, <2>1 DEF SummarizeAndClose
  <2>3. Ledger!StateAndClose(o)  BY <1>1, <1>3, <2>1, <2>2 DEF Ledger!StateAndClose
  <2>4. QED BY <2>3 DEF Ledger!Next
<1>8. CASE Close(o)
  <2>1. Ledger!Closes(o) /\ Stated' = Stated  BY <1>5, <1>8 DEF Close, Stated
  <2>2. Ledger!Close(o)  BY <1>1, <1>3, <2>1 DEF Ledger!Close
  <2>3. QED BY <2>2 DEF Ledger!Next
<1>9. QED BY <1>6, <1>7, <1>8

LEMMA ForkForks == ASSUME Typed, TokenInv, Fork PROVE Ledger!Next
<1> USE CallRecordingAssumption
<1>1. /\ process = "parent" /\ process' = "child"
      /\ UNCHANGED <<closed, token, owner, manual, report>>
  BY DEF Fork
<1>2. \A g \in Handles : Recorded(g)' <=> Recorded(g)
  BY DEF Fork, Recorded, Typed
<1>3. Counted' = Counted  BY <1>2 DEF Counted, Fork, Typed
<1>4. Open' = Open /\ Stated' = Stated  BY <1>1 DEF Open, Stated
<1>5. \A o \in Open : o \in Foreign' <=> Ledger!Under(o) # {}
  BY <1>1 DEF Foreign, Open, Ledger!Under, TokenInv
<1>6. Foreign' = {o \in Open : Ledger!Under(o) # {}}
  BY <1>4, <1>5 DEF Foreign
<1>7. Ledger!Fork  BY <1>1, <1>3, <1>4, <1>6 DEF Ledger!Fork
<1>8. QED BY <1>7 DEF Ledger!Next

LEMMA NextImplementsLedger ==
  IInv /\ TokenInv /\ [Next]_vars => [Ledger!Next]_(Ledger!vars)
<1> SUFFICES ASSUME IInv, TokenInv, [Next]_vars PROVE [Ledger!Next]_(Ledger!vars)
  OBVIOUS
<1> USE DEF IInv, TypeOK
<1>1. ASSUME NEW a \in Attempts, FinishBegin(a) \/ FinishClaim(a)
      PROVE  UNCHANGED Ledger!vars
  <2>1. /\ UNCHANGED <<process, closed, token, owner, manual, report, span>>
        /\ \A b \in Attempts : attempt'[b] = "true" <=> attempt[b] = "true"
    BY <1>1 DEF FinishBegin, FinishClaim, Typed
  <2>2. Counted' = Counted  BY <2>1 DEF Counted, Recorded
  <2>3. QED BY <2>1, <2>2, LedgerStands
<1>2. ASSUME NEW s \in Spans, SpanDrop(s) \/ SpanEnd(s) PROVE UNCHANGED Ledger!vars
  <2>1. /\ UNCHANGED <<process, closed, token, owner, manual, report, attempt>>
        /\ \A x \in Spans : span'[x] = "counted" <=> span[x] = "counted"
    BY <1>2 DEF SpanDrop, SpanEnd, Typed
  <2>2. Counted' = Counted  BY <2>1 DEF Counted, Recorded
  <2>3. QED BY <2>1, <2>2, LedgerStands
<1>3. ASSUME NEW o \in Owners, RecordCall(o) PROVE Ledger!Next
  <2>1. Counted' = Counted  BY <1>3 DEF RecordCall, Counted, Recorded
  <2>2. Open' = Open /\ Foreign' = Foreign /\ Stated' = Stated /\ o \in Open
    BY <1>3 DEF RecordCall, Open, Foreign, Stated
  <2>3. Ledger!CountByHand(o)  BY <1>3, <2>1, <2>2 DEF RecordCall, Ledger!CountByHand
  <2>4. QED BY <2>3 DEF Ledger!Next
<1>4. CASE UNCHANGED vars
  <2>1. Counted' = Counted  BY <1>4 DEF vars, Counted, Recorded
  <2>2. QED BY <1>4, <2>1, LedgerStands DEF vars
<1>5. QED
  BY <1>1, <1>2, <1>3, <1>4, RecordCounts, StartEnters, EndStates, ForkForks DEF Next

(* The recording of calls implements the ledger: each call is entered under *)
(* the owner that was current at its start and counted there at most once,  *)
(* never after the close nor across a fork, and a terminal record states    *)
(* what is counted and in flight at its moment, an operation's at its close *)
(* (CallHandle, SpanOwners, RequestState.summarize_calls, close).           *)
THEOREM RecordingIsALedger == Spec => ImplementsLedger
<1>1. Init => Ledger!Init
  <2> SUFFICES ASSUME Init PROVE Ledger!Init
    OBVIOUS
  <2>1. Open = Owners /\ Foreign = {}  BY DEF Init, Open, Foreign
  <2>2. Counted = {}  BY DEF Init, Counted, Recorded
  <2>3. Stated = [o \in Owners |-> None]  BY DEF Init, Stated
  <2>4. QED BY <2>1, <2>2, <2>3 DEF Init, Ledger!Init
<1>2. QED
  BY <1>1, InitIInv, NextIInv, InitTokenInv, NextTokenInv, NextImplementsLedger, PTL
  DEF Spec, ImplementsLedger, Ledger!Spec, IInv, TypeOK

=============================================================================
