--------------------------- MODULE HttpCallsProofs --------------------------
(***************************************************************************)
(* Proofs about HttpCalls for any number of clients, layers, redirects and *)
(* nested sends: nothing of a send stays behind when it is over, no call   *)
(* is lost because another client is in the middle of its own, and none is *)
(* counted twice, once by its wrapper and once by its span.                *)
(***************************************************************************)
EXTENDS HttpCalls, SequenceTheorems, FiniteSetTheorems, TLAPS

-----------------------------------------------------------------------------
(* What the task's frames say of the rest. A frame that counts refers to    *)
(* its call's handle and a span's frame to a live span of its own; a call   *)
(* made inside a send of its client is known to be nested; and what a frame *)
(* saved of _ACTIVE_CLIENT is the client that was being counted below it.   *)
Counting(frame) == frame.kind = "native" /\ frame.item # 0

\* c is the client of the innermost of the first n frames that counts, of is calls.
IsActive(c, n, frames, of) ==
  /\ (\A i \in 1..n : ~Counting(frames[i])) => c = None
  /\ c # None => \E i \in 1..n : Counting(frames[i]) /\ of[frames[i].call].client = c
  /\ \A i \in 1..n :
       Counting(frames[i]) /\ (\A m \in (i+1)..n : ~Counting(frames[m])) =>
         c = of[frames[i].call].client

BaseInv == stack # <<>> => stack[1].kind = "send"

ItemInv ==
  \A i \in 1..Len(stack) :
    /\ Counting(stack[i]) =>
         /\ stack[i].item \in DOMAIN handles
         /\ handles[stack[i].item].call = stack[i].call
    /\ stack[i].kind = "span" =>
         /\ stack[i].item \in DOMAIN spans
         /\ spans[stack[i].item].state = "live"

SpanInv ==
  \A i, j \in 1..Len(stack) :
    stack[i].kind = "span" /\ stack[j].kind = "span" /\ stack[i].item = stack[j].item => i = j

NestedInv ==
  \A i, j \in 1..Len(stack) :
    /\ i < j /\ stack[i].call # stack[j].call
    /\ calls[stack[i].call].client = calls[stack[j].call].client
    => calls[stack[j].call].nested

SavedInv ==
  /\ IsActive(active, Len(stack), stack, calls)
  /\ \A n \in 1..Len(stack) : IsActive(stack[n].saved, n - 1, stack, calls)

StackInv == BaseInv /\ ItemInv /\ SpanInv /\ NestedInv /\ SavedInv

-----------------------------------------------------------------------------
(* Steps that push a frame, pop one or leave the stack alone.               *)

\* Calls, handles and spans are only added, and keep what they are of.
Grown ==
  /\ DOMAIN calls \subseteq DOMAIN calls'
  /\ \A k \in DOMAIN calls :
       calls'[k].client = calls[k].client /\ calls'[k].nested = calls[k].nested
  /\ DOMAIN handles \subseteq DOMAIN handles'
  /\ \A h \in DOMAIN handles : handles'[h].call = handles[h].call
  /\ DOMAIN spans \subseteq DOMAIN spans'

LEMMA FrameFacts ==
  ASSUME TypeOK
  PROVE  /\ Len(stack) \in Nat /\ DOMAIN stack = 1..Len(stack)
         /\ \A i \in 1..Len(stack) : stack[i] \in Frames /\ stack[i].call \in DOMAIN calls
         /\ stack # <<>> => Len(stack) \in 1..Len(stack)
<1>1. Len(stack) \in Nat /\ DOMAIN stack = 1..Len(stack)  BY LenProperties DEF TypeOK
<1>2. \A i \in 1..Len(stack) : stack[i] \in Frames  BY ElementOfSeq DEF TypeOK
<1>3. \A i \in 1..Len(stack) : stack[i].call \in DOMAIN calls  BY <1>2 DEF Frames
<1>4. stack # <<>> => Len(stack) \in 1..Len(stack)  BY <1>1, EmptySeq DEF TypeOK
<1>5. QED BY <1>1, <1>2, <1>3, <1>4

LEMMA PushFacts ==
  ASSUME TypeOK, NEW frame, stack' = Append(stack, frame), frame \in Frames',
         DOMAIN calls \subseteq DOMAIN calls'
  PROVE  /\ stack' \in Seq(Frames')
         /\ Len(stack') = Len(stack) + 1 /\ stack'[Len(stack) + 1] = frame
         /\ \A i \in 1..Len(stack) : stack'[i] = stack[i]
         /\ \A i \in 1..Len(stack') : i \in 1..Len(stack) \/ i = Len(stack) + 1
<1>1. stack \in Seq(Frames')
  <2>1. Frames \subseteq Frames'  BY DEF Frames
  <2>2. QED BY <2>1 DEF TypeOK
<1>2. QED BY <1>1, LenProperties

LEMMA WithoutLast ==
  ASSUME NEW S, NEW seq \in Seq(S), NEW n \in Nat, Len(seq) = n + 1
  PROVE  /\ SubSeq(seq, 1, n) \in Seq(S) /\ Len(SubSeq(seq, 1, n)) = n
         /\ \A i \in 1..n : SubSeq(seq, 1, n)[i] = seq[i]
  OBVIOUS

LEMMA PopFacts ==
  ASSUME TypeOK, stack # <<>>, stack' = Pop
  PROVE  /\ stack' \in Seq(Frames)
         /\ Len(stack) \in Nat /\ Len(stack) >= 1 /\ Len(stack') = Len(stack) - 1
         /\ stack' = <<>> => Len(stack) = 1
         /\ \A i \in 1..Len(stack') : stack'[i] = stack[i] /\ i \in 1..Len(stack) /\ i # Len(stack)
<1>1. Len(stack) \in Nat /\ Len(stack) >= 1 /\ stack \in Seq(Frames)
  BY FrameFacts, EmptySeq DEF TypeOK
<1>2. PICK n \in Nat : n = Len(stack) - 1  BY <1>1
<1>3. stack' = SubSeq(stack, 1, n) /\ Len(stack) = n + 1  BY <1>1, <1>2 DEF Pop
<1>4. /\ stack' \in Seq(Frames) /\ Len(stack') = n
      /\ \A i \in 1..n : stack'[i] = stack[i]
  BY <1>1, <1>3, WithoutLast
<1>5. ASSUME stack' = <<>> PROVE Len(stack) = 1
  <2>1. Len(<<>>) = 0  BY EmptySeq
  <2>2. n = 0  BY <1>4, <1>5, <2>1, Zenon
  <2>3. QED BY <1>3, <2>2
<1>6. QED BY <1>1, <1>2, <1>4, <1>5

LEMMA SameBelow ==
  ASSUME NEW n \in Nat, NEW c, IsActive(c, n, stack, calls),
         \A i \in 1..n : /\ stack'[i] = stack[i]
                        /\ calls'[stack[i].call].client = calls[stack[i].call].client
  PROVE  IsActive(c, n, stack', calls')
  BY DEF IsActive

LEMMA PushStackInv ==
  ASSUME TypeOK, StackInv, Grown, NEW frame \in Frames', stack' = Append(stack, frame),
         \A s \in DOMAIN spans : spans'[s].state = spans[s].state,
         frame.saved = active,
         stack = <<>> => frame.kind = "send",
         Counting(frame) => /\ frame.item \in DOMAIN handles'
                            /\ handles'[frame.item].call = frame.call
                            /\ active' = calls'[frame.call].client,
         ~Counting(frame) => active' = active,
         frame.kind = "span" => /\ frame.item \in DOMAIN spans' \ DOMAIN spans
                                /\ spans'[frame.item].state = "live",
         \A i \in 1..Len(stack) :
           /\ stack[i].call # frame.call
           /\ calls[stack[i].call].client = calls'[frame.call].client
           => calls'[frame.call].nested
  PROVE  StackInv'
<1>1. /\ Len(stack) \in Nat
      /\ Len(stack') = Len(stack) + 1 /\ stack'[Len(stack) + 1] = frame
      /\ \A i \in 1..Len(stack) : stack'[i] = stack[i] /\ stack[i].call \in DOMAIN calls
      /\ \A i \in 1..Len(stack') : i \in 1..Len(stack) \/ i = Len(stack) + 1
  BY PushFacts, FrameFacts DEF Grown
<1>2. BaseInv'
  <2>1. CASE stack = <<>>   BY <1>1, <2>1, EmptySeq DEF BaseInv, TypeOK
  <2>2. CASE stack # <<>>   BY <1>1, <2>2, FrameFacts DEF BaseInv, StackInv
  <2>3. QED BY <2>1, <2>2
<1>3. ItemInv'  BY <1>1 DEF ItemInv, StackInv, Grown
<1>4. SpanInv'  BY <1>1 DEF SpanInv, StackInv, ItemInv
<1>5. NestedInv'  BY <1>1 DEF NestedInv, StackInv, Grown
<1>6. \A i \in 1..Len(stack) : /\ stack'[i] = stack[i]
                               /\ calls'[stack[i].call].client = calls[stack[i].call].client
  BY <1>1 DEF Grown
<1>7. /\ IsActive(active, Len(stack), stack, calls)
      /\ \A n \in 1..Len(stack) : IsActive(stack[n].saved, n - 1, stack, calls)
  BY DEF StackInv, SavedInv
<1>8. IsActive(active, Len(stack), stack', calls')
  <2>1. Len(stack) \in Nat /\ IsActive(active, Len(stack), stack, calls)  BY <1>1, <1>7
  <2>2. QED BY <1>6, <2>1, SameBelow
<1>9. ASSUME NEW n \in 1..Len(stack') PROVE IsActive(stack'[n].saved, n - 1, stack', calls')
  <2>1. CASE n \in 1..Len(stack)
    <3>1. PICK m \in Nat : m = n - 1 /\ m <= Len(stack)  BY <1>1, <2>1
    <3>2. IsActive(stack'[n].saved, m, stack, calls)  BY <1>1, <1>7, <2>1, <3>1
    <3>3. IsActive(stack'[n].saved, m, stack', calls')
      <4>1. \A i \in 1..m : i \in 1..Len(stack)  BY <1>1, <3>1
      <4>2. \A i \in 1..m : /\ stack'[i] = stack[i]
                            /\ calls'[stack[i].call].client = calls[stack[i].call].client
        BY <1>6, <4>1
      <4>3. QED BY <3>2, <4>2, SameBelow
    <3>4. QED BY <3>1, <3>3
  <2>2. CASE n = Len(stack) + 1
    <3>1. stack'[n].saved = active /\ n - 1 = Len(stack)  BY <1>1, <2>2
    <3>2. QED BY <1>8, <3>1
  <2>3. QED BY <1>1, <2>1, <2>2
<1>10. IsActive(active', Len(stack'), stack', calls')
  <2>1. CASE ~Counting(frame)
    <3>1. active' = active  BY <2>1
    <3>2. QED BY <1>1, <1>8, <2>1, <3>1 DEF IsActive
  <2>2. CASE Counting(frame)
    <3>1. Len(stack') \in 1..Len(stack') /\ Counting(stack'[Len(stack')])  BY <1>1, <2>2
    <3>2. \A i \in 1..Len(stack') : i = Len(stack') \/ Len(stack') \in (i+1)..Len(stack')
      BY <1>1
    <3>3. active' = calls'[stack'[Len(stack')].call].client  BY <1>1, <2>2
    <3>4. QED BY <3>1, <3>2, <3>3 DEF IsActive
  <2>3. QED BY <2>1, <2>2
<1>11. QED BY <1>2, <1>3, <1>4, <1>5, <1>9, <1>10 DEF StackInv, SavedInv

LEMMA PopStackInv ==
  ASSUME TypeOK, StackInv, Grown, stack # <<>>, stack' = Pop,
         \A s \in DOMAIN spans : \/ spans'[s].state = spans[s].state
                                 \/ Top.kind = "span" /\ s = Top.item,
         active' = IF Counting(Top) THEN Top.saved ELSE active
  PROVE  StackInv'
<1>1. /\ Len(stack) \in Nat /\ Len(stack) \in 1..Len(stack) /\ Len(stack') = Len(stack) - 1
      /\ \A i \in 1..Len(stack') : /\ stack'[i] = stack[i] /\ i \in 1..Len(stack) /\ i # Len(stack)
                                   /\ stack[i].call \in DOMAIN calls
  BY PopFacts, FrameFacts
<1>2. BaseInv'
  BY <1>1, PopFacts, EmptySeq DEF BaseInv, StackInv
<1>3. ItemInv'
  <2>1. ASSUME NEW i \in 1..Len(stack'), stack'[i].kind = "span"
        PROVE  spans'[stack[i].item].state = "live"
    <3>1. spans[stack[i].item].state = "live" /\ stack[i].item \in DOMAIN spans
      BY <1>1, <2>1 DEF StackInv, ItemInv
    <3>2. ~(Top.kind = "span" /\ stack[i].item = Top.item)
      BY <1>1, <2>1 DEF StackInv, SpanInv, Top
    <3>3. QED BY <3>1, <3>2
  <2>2. QED BY SMTT(30), <1>1, <2>1 DEF ItemInv, StackInv, Grown
<1>4. SpanInv'  BY <1>1 DEF SpanInv, StackInv
<1>5. NestedInv'
  <2>1. \A i \in 1..Len(stack') :
          /\ calls'[stack[i].call].client = calls[stack[i].call].client
          /\ calls'[stack[i].call].nested = calls[stack[i].call].nested
    BY <1>1 DEF Grown
  <2>2. QED BY SMTT(30), <1>1, <2>1 DEF NestedInv, StackInv
<1>6. \A i \in 1..Len(stack') : /\ stack'[i] = stack[i]
                                /\ calls'[stack[i].call].client = calls[stack[i].call].client
  BY <1>1 DEF Grown
<1>7. /\ IsActive(active, Len(stack), stack, calls)
      /\ \A n \in 1..Len(stack) : IsActive(stack[n].saved, n - 1, stack, calls)
  BY DEF StackInv, SavedInv
<1>8. ASSUME NEW n \in 1..Len(stack') PROVE IsActive(stack'[n].saved, n - 1, stack', calls')
  <2>1. PICK m \in Nat : m = n - 1 /\ m <= Len(stack')  BY <1>1
  <2>2. IsActive(stack'[n].saved, m, stack, calls)  BY <1>1, <1>7, <2>1
  <2>3. \A i \in 1..m : i \in 1..Len(stack')  BY <1>1, <2>1
  <2>4. IsActive(stack'[n].saved, m, stack', calls')  BY <1>6, <2>2, <2>3, SameBelow
  <2>5. QED BY <2>1, <2>4
<1>9. IsActive(active', Len(stack'), stack', calls')
  <2>1. PICK n \in Nat : n = Len(stack) - 1 /\ Len(stack) = n + 1 /\ Len(stack') = n
    BY <1>1
  <2>2. IsActive(active', n, stack, calls)
    <3>1. CASE Counting(Top)  BY <1>1, <1>7, <2>1, <3>1 DEF Top
    <3>2. CASE ~Counting(Top)
      <4>1. active' = active /\ ~Counting(stack[n + 1])
        BY <1>1, <2>1, <3>2 DEF Top
      <4>2. \A i \in 1..n : i \in 1..(n + 1) /\ \A m \in (i+1)..(n + 1) : m \in (i+1)..n \/ m = n + 1
        OBVIOUS
      <4>3. \A i \in 1..(n + 1) : i \in 1..n \/ i = n + 1
        OBVIOUS
      <4>4. IsActive(active, n + 1, stack, calls)  BY <1>7, <2>1
      <4>5. QED BY <4>1, <4>2, <4>3, <4>4 DEF IsActive
    <3>3. QED BY <3>1, <3>2
  <2>3. IsActive(active', n, stack', calls')  BY <1>6, <2>1, <2>2, SameBelow
  <2>4. QED BY <2>1, <2>3
<1>10. QED BY <1>2, <1>3, <1>4, <1>5, <1>8, <1>9 DEF StackInv, SavedInv

LEMMA StayStackInv ==
  ASSUME TypeOK, StackInv, Grown, UNCHANGED <<stack, active, calls, spans>>
  PROVE  StackInv'
<1>1. BaseInv' /\ SpanInv' /\ NestedInv' /\ SavedInv'
  BY DEF StackInv, BaseInv, SpanInv, NestedInv, SavedInv, IsActive
<1>2. ItemInv'  BY DEF StackInv, ItemInv, Grown
<1>3. QED BY <1>1, <1>2 DEF StackInv

-----------------------------------------------------------------------------
(* Every step keeps the state well typed, the frames as they should be, and *)
(* what is promised of handles, marks and calls.                            *)
HasHandle(k) == \E h \in DOMAIN handles : handles[h].call = k
CountedInv == \A k \in DOMAIN calls : calls[k].open /\ ~calls[k].nested => HasHandle(k)

CallsInv == TypeOK /\ StackInv /\ InFlightIsReal /\ MarksAreLive /\ CountedInv

LEMMA InFlightKept ==
  ASSUME InFlightIsReal, DOMAIN handles' = DOMAIN handles, closed => closed',
         \A h \in DOMAIN handles :
           \/ handles'[h].state # "pending" \/ handles'[h].stream = "open" \/ closed'
           \/ /\ handles'[h] = handles[h]
              /\ \A i \in DOMAIN stack : stack[i].kind = "native" /\ stack[i].item = h =>
                   i \in DOMAIN stack' /\ stack'[i] = stack[i]
  PROVE  InFlightIsReal'
  BY DEF InFlightIsReal

LEMMA CountedKept ==
  ASSUME CountedInv, Grown,
         \A k \in DOMAIN calls' : calls'[k].open => k \in DOMAIN calls /\ calls[k].open
  PROVE  CountedInv'
  BY DEF CountedInv, HasHandle, Grown

\* More calls: what refers to the old ones is well typed still.
LEMMA MoreCalls ==
  ASSUME TypeOK, DOMAIN calls \subseteq DOMAIN calls'
  PROVE  /\ handles \in Seq([call : DOMAIN calls', state : {"pending", "status", "failed"},
                            stream : {"none", "open", "closed"}])
         /\ spans \in Seq([call : DOMAIN calls', state : {"live", "counted", "skipped", "late"}])
<1>1. /\ [call : DOMAIN calls, state : {"pending", "status", "failed"},
          stream : {"none", "open", "closed"}]
           \subseteq [call : DOMAIN calls', state : {"pending", "status", "failed"},
                      stream : {"none", "open", "closed"}]
      /\ [call : DOMAIN calls, state : {"live", "counted", "skipped", "late"}]
           \subseteq [call : DOMAIN calls', state : {"live", "counted", "skipped", "late"}]
  OBVIOUS
<1>2. QED BY <1>1, SeqMonotonic DEF TypeOK

LEMMA SendInv == ASSUME CallsInv, NEW c \in Clients, Send(c) PROVE CallsInv'
<1> USE DEF CallsInv
<1> DEFINE k == Len(calls) + 1
           nested == \E i \in DOMAIN stack : calls[stack[i].call].client = c
           call == [client |-> c, open |-> FALSE, nested |-> nested]
           frame == [kind |-> "send", call |-> k, todo |-> layers[c], item |-> 0, saved |-> active]
<1>1. /\ stack' = Append(stack, frame) /\ calls' = Append(calls, call)
      /\ UNCHANGED <<layers, unwinding, active, handles, spans, marked, closed>>
  BY DEF Send, Push
<1>2. /\ calls \in Seq([client : Clients, open : BOOLEAN, nested : BOOLEAN])
      /\ Len(calls) \in Nat /\ DOMAIN calls = 1..Len(calls)
  BY LenProperties DEF TypeOK
<1>3. /\ calls' \in Seq([client : Clients, open : BOOLEAN, nested : BOOLEAN])
      /\ Len(calls') = k /\ calls'[k] = call /\ \A j \in 1..Len(calls) : calls'[j] = calls[j]
      /\ DOMAIN calls' = 1..k
  BY <1>1, <1>2
<1>4. Grown  BY <1>1, <1>2, <1>3 DEF Grown
<1>5. frame \in Frames'
  <2>1. layers[c] \in Seq({"native", "span"})  BY HttpCallsAssumption DEF HttpCallsAssumption, TypeOK
  <2>2. QED BY <1>1, <1>2, <1>3, <2>1 DEF Frames, TypeOK
<1>6. TypeOK'
  <2>1. stack' \in Seq(Frames') /\ Len(stack') = Len(stack) + 1 /\ Len(stack) \in Nat
    BY <1>1, <1>4, <1>5, PushFacts, FrameFacts DEF Grown
  <2>2. stack' # <<>>  BY <2>1, EmptySeq
  <2>3. DOMAIN calls \subseteq DOMAIN calls'  BY <1>4 DEF Grown
  <2>4. QED BY <1>1, <1>3, <2>1, <2>2, <2>3, MoreCalls DEF TypeOK
<1>7. StackInv'
  <2>1. \A i \in 1..Len(stack) : calls[stack[i].call].client = calls'[k].client => calls'[k].nested
    BY <1>3, FrameFacts
  <2>2. QED BY <1>1, <1>4, <1>5, <2>1, PushStackInv DEF Counting
<1>8. InFlightIsReal'
  <2>1. \A i \in DOMAIN stack : i \in DOMAIN stack' /\ stack'[i] = stack[i]
    BY SMTT(30), <1>1, <1>4, <1>5, <1>6, PushFacts, FrameFacts, LenProperties DEF Grown, TypeOK
  <2>2. QED BY <1>1, <2>1, InFlightKept
<1>9. MarksAreLive'  BY <1>1 DEF MarksAreLive
<1>10. CountedInv'  BY <1>2, <1>3, <1>4, CountedKept
<1>11. QED BY <1>6, <1>7, <1>8, <1>9, <1>10

LEMMA TopFacts ==
  ASSUME TypeOK, stack # <<>>
  PROVE  /\ Len(stack) \in 1..Len(stack) /\ Top = stack[Len(stack)] /\ Top \in Frames
         /\ Top.call \in DOMAIN calls /\ calls[Top.call].client \in Clients
         /\ Top.todo \in Seq({"native", "span"})
<1>1. Len(stack) \in 1..Len(stack) /\ Top = stack[Len(stack)] /\ Top \in Frames
  BY FrameFacts DEF Top
<1>2. Top.call \in DOMAIN calls /\ Top.todo \in Seq({"native", "span"})  BY <1>1 DEF Frames
<1>3. calls[Top.call].client \in Clients
  <2>1. calls \in Seq([client : Clients, open : BOOLEAN, nested : BOOLEAN])  BY DEF TypeOK
  <2>2. Top.call \in 1..Len(calls)  BY <1>2, <2>1, LenProperties
  <2>3. calls[Top.call] \in [client : Clients, open : BOOLEAN, nested : BOOLEAN]
    BY <2>1, <2>2, ElementOfSeq
  <2>4. QED BY <2>3
<1>4. QED BY <1>1, <1>2, <1>3

\* A frame for the call the task is in: a redirect or the next layer of the client.
LEMMA SameCall ==
  ASSUME TypeOK, StackInv, stack # <<>>, Grown
  PROVE  \A i \in 1..Len(stack) :
           stack[i].call # Top.call /\ calls[stack[i].call].client = calls'[Top.call].client =>
             calls'[Top.call].nested
<1>1. Len(stack) \in 1..Len(stack) /\ Top = stack[Len(stack)] /\ Top.call \in DOMAIN calls
  BY TopFacts
<1>2. Len(stack) \in Nat  BY FrameFacts
<1>3. QED BY <1>1, <1>2 DEF StackInv, NestedInv, Grown

LEMMA PushKeepsFrames ==
  ASSUME TypeOK, Grown, NEW frame \in Frames', stack' = Append(stack, frame)
  PROVE  /\ stack' \in Seq(Frames') /\ stack' # <<>>
         /\ \A i \in DOMAIN stack : i \in DOMAIN stack' /\ stack'[i] = stack[i]
         /\ Len(stack) + 1 \in DOMAIN stack' /\ stack'[Len(stack) + 1] = frame
<1>1. /\ stack' \in Seq(Frames') /\ Len(stack) \in Nat /\ DOMAIN stack = 1..Len(stack)
      /\ Len(stack') = Len(stack) + 1 /\ stack'[Len(stack) + 1] = frame
      /\ \A i \in 1..Len(stack) : stack'[i] = stack[i]
  BY PushFacts, FrameFacts DEF Grown
<1>2. DOMAIN stack' = 1..Len(stack')  BY <1>1, LenProperties
<1>3. stack' # <<>>  BY <1>1, EmptySeq
<1>4. QED BY <1>1, <1>2, <1>3

LEMMA RedirectInv == ASSUME CallsInv, Redirect PROVE CallsInv'
<1> USE DEF CallsInv
<1> DEFINE frame == [kind |-> "send", call |-> Top.call, todo |-> layers[calls[Top.call].client],
                     item |-> 0, saved |-> active]
<1>1. /\ stack # <<>> /\ stack' = Append(stack, frame)
      /\ UNCHANGED <<layers, unwinding, active, calls, handles, spans, marked, closed>>
  BY DEF Redirect, Running, Push
<1>2. Grown  BY <1>1 DEF Grown
<1>3. frame \in Frames'
  <2>1. layers[calls[Top.call].client] \in Seq({"native", "span"})
    BY <1>1, TopFacts, HttpCallsAssumption DEF HttpCallsAssumption, TypeOK
  <2>2. QED BY <1>1, <2>1, TopFacts DEF Frames, TypeOK
<1>4. /\ stack' \in Seq(Frames') /\ stack' # <<>>
      /\ \A i \in DOMAIN stack : i \in DOMAIN stack' /\ stack'[i] = stack[i]
  BY <1>1, <1>2, <1>3, PushKeepsFrames
<1>5. TypeOK'  BY <1>1, <1>4 DEF TypeOK
<1>6. StackInv'
  <2>1. ~Counting(frame) /\ frame.kind = "send" /\ frame.call = Top.call /\ frame.saved = active
    BY DEF Counting
  <2>2. QED BY <1>1, <1>2, <1>3, <2>1, SameCall, PushStackInv
<1>7. InFlightIsReal'  BY <1>1, <1>4, InFlightKept
<1>8. MarksAreLive' /\ CountedInv'
  BY <1>1 DEF MarksAreLive, CountedInv, HasHandle
<1>9. QED BY <1>5, <1>6, <1>7, <1>8

LEMMA CurrentSpanIsLive ==
  ASSUME TypeOK, StackInv
  PROVE  \A s \in CurrentSpan : s \in DOMAIN spans /\ spans[s].state = "live"
  BY FrameFacts DEF CurrentSpan, StackInv, ItemInv

\* A wrapper that lets a send through on an open request is inside one that counts
\* it, or inside an earlier send of its client.
LEMMA PassedIsCounted ==
  ASSUME TypeOK, StackInv, stack # <<>>, active = calls[Top.call].client
  PROVE  HasHandle(Top.call) \/ calls[Top.call].nested
<1>1. active # None  BY TopFacts, HttpCallsAssumption DEF HttpCallsAssumption
<1>2. PICK i \in 1..Len(stack) : Counting(stack[i]) /\ calls[stack[i].call].client = active
  BY <1>1 DEF StackInv, SavedInv, IsActive
<1>3. CASE stack[i].call = Top.call
  <2>1. stack[i].item \in DOMAIN handles /\ handles[stack[i].item].call = Top.call
    BY <1>2, <1>3 DEF StackInv, ItemInv
  <2>2. QED BY <2>1 DEF HasHandle
<1>4. CASE stack[i].call # Top.call
  BY <1>2, <1>4, SameCall, TopFacts, FrameFacts DEF StackInv, NestedInv
<1>5. QED BY <1>3, <1>4

\* A wrapper notes that it saw the request open, and nothing else of a call.
LEMMA EnterNativeCalls ==
  ASSUME TypeOK, EnterNative
  PROVE  /\ calls' \in Seq([client : Clients, open : BOOLEAN, nested : BOOLEAN])
         /\ DOMAIN calls' = DOMAIN calls
         /\ \A j \in DOMAIN calls :
              /\ calls'[j].client = calls[j].client
              /\ calls'[j].nested = calls[j].nested
              /\ calls'[j].open => calls[j].open \/ (j = Top.call /\ ~closed)
<1> DEFINE k == Top.call
           Call == [client : Clients, open : BOOLEAN, nested : BOOLEAN]
           new == [calls[k] EXCEPT !.open = @ \/ ~closed]
<1>1. stack # <<>> /\ calls' = [calls EXCEPT ![k].open = @ \/ ~closed]
  BY DEF EnterNative, Running
<1>2. /\ calls \in Seq(Call) /\ Len(calls) \in Nat /\ DOMAIN calls = 1..Len(calls)
      /\ k \in 1..Len(calls) /\ k \in DOMAIN calls /\ calls[k] \in Call
  <2>1. calls \in Seq(Call)  BY DEF TypeOK
  <2>2. Len(calls) \in Nat /\ DOMAIN calls = 1..Len(calls)  BY <2>1, LenProperties
  <2>3. k \in DOMAIN calls  BY <1>1, TopFacts
  <2> HIDE DEF Call, k
  <2>4. QED BY <2>1, <2>2, <2>3, ElementOfSeq
<1>3. /\ new \in Call /\ new.client = calls[k].client /\ new.nested = calls[k].nested
      /\ new.open => calls[k].open \/ ~closed
  <2>1. calls[k].open \in BOOLEAN /\ closed \in BOOLEAN  BY <1>2 DEF TypeOK
  <2>2. QED BY <1>2, <2>1
<1>4. calls' = [calls EXCEPT ![k] = new]  BY <1>1
<1>5. /\ calls' \in Seq(Call) /\ DOMAIN calls' = DOMAIN calls
      /\ calls'[k] = new /\ \A j \in DOMAIN calls : j # k => calls'[j] = calls[j]
  <2> HIDE DEF Call, new, k
  <2>1. QED BY <1>2, <1>3, <1>4, ExceptSeq
<1>6. QED BY <1>3, <1>5

LEMMA EnterNativeInv == ASSUME CallsInv, EnterNative PROVE CallsInv'
<1> USE DEF CallsInv
<1> DEFINE k == Top.call
           c == calls[k].client
           h == Len(handles) + 1
           frame(item) == [kind |-> "native", call |-> k, todo |-> Tail(Top.todo),
                           item |-> item, saved |-> active]
           handle == [call |-> k, state |-> "pending", stream |-> "none"]
<1>1. /\ stack # <<>> /\ Top.todo # <<>> /\ UNCHANGED <<layers, unwinding, spans, closed>>
  BY DEF EnterNative, Running
<1>2. \/ /\ closed \/ active = c
         /\ stack' = Append(stack, frame(0)) /\ UNCHANGED <<active, handles, marked>>
      \/ /\ ~closed /\ active # c
         /\ stack' = Append(stack, frame(h)) /\ active' = c
         /\ handles' = Append(handles, handle) /\ marked' = marked \cup CurrentSpan
  BY DEF EnterNative, PassesThrough, Push
<1>6. /\ calls' \in Seq([client : Clients, open : BOOLEAN, nested : BOOLEAN])
      /\ DOMAIN calls' = DOMAIN calls
  BY EnterNativeCalls
<1>7. /\ DOMAIN calls' = DOMAIN calls
      /\ \A j \in DOMAIN calls :
           /\ calls'[j].client = calls[j].client
           /\ calls'[j].nested = calls[j].nested
           /\ calls'[j].open => calls[j].open \/ (j = k /\ ~closed)
  BY EnterNativeCalls
<1>8. /\ Len(handles) \in Nat /\ DOMAIN handles = 1..Len(handles)
      /\ Tail(Top.todo) \in Seq({"native", "span"}) /\ k \in DOMAIN calls /\ c \in Clients
  BY <1>1, TopFacts, LenProperties, HeadTailProperties DEF TypeOK
<1>9. \A item \in Nat : frame(item) \in Frames'
  BY <1>6, <1>8 DEF Frames, TypeOK
<1>10. CASE /\ closed \/ active = c
           /\ stack' = Append(stack, frame(0)) /\ UNCHANGED <<active, handles, marked>>
  <2>1. Grown  BY <1>1, <1>7, <1>10 DEF Grown
  <2>2. frame(0) \in Frames'  BY <1>9
  <2>3. /\ stack' \in Seq(Frames') /\ stack' # <<>>
        /\ \A i \in DOMAIN stack : i \in DOMAIN stack' /\ stack'[i] = stack[i]
    BY <1>10, <2>1, <2>2, PushKeepsFrames
  <2>4. TypeOK'  BY <1>1, <1>6, <1>10, <2>3 DEF TypeOK
  <2>5. StackInv'
    <3>1. ~Counting(frame(0)) /\ frame(0).kind = "native" /\ frame(0).call = Top.call
          /\ frame(0).saved = active
      BY DEF Counting
    <3>2. QED BY <1>1, <1>10, <2>1, <2>2, <3>1, SameCall, PushStackInv
  <2>6. InFlightIsReal'  BY <1>1, <1>10, <2>3, InFlightKept
  <2>7. MarksAreLive'  BY <1>1, <1>10 DEF MarksAreLive
  <2>8. CountedInv'
    <3> SUFFICES ASSUME NEW j \in DOMAIN calls, calls'[j].open, ~calls'[j].nested
                 PROVE  \E g \in DOMAIN handles' : handles'[g].call = j
      BY <1>7 DEF CountedInv, HasHandle
    <3>1. CASE calls[j].open
      <4>1. ~calls[j].nested  BY <1>7
      <4>2. HasHandle(j)  BY <3>1, <4>1 DEF CountedInv
      <4>3. QED BY <1>10, <4>2 DEF HasHandle
    <3>2. CASE ~calls[j].open
      <4>1. j = k /\ ~closed /\ ~calls[j].nested  BY <1>7, <3>2
      <4>2. HasHandle(k)  BY <1>1, <1>10, <4>1, PassedIsCounted
      <4>3. QED BY <1>10, <4>1, <4>2 DEF HasHandle
    <3>3. QED BY <3>1, <3>2
  <2>9. QED BY <2>4, <2>5, <2>6, <2>7, <2>8
<1>11. CASE /\ ~closed /\ active # c
           /\ stack' = Append(stack, frame(h)) /\ active' = c
           /\ handles' = Append(handles, handle) /\ marked' = marked \cup CurrentSpan
  <2>1. /\ h \in Nat /\ h # 0 /\ h \notin DOMAIN handles
        /\ DOMAIN handles' = DOMAIN handles \cup {h} /\ handles'[h] = handle
        /\ \A g \in DOMAIN handles : handles'[g] = handles[g]
        /\ handles' \in Seq([call : DOMAIN calls', state : {"pending", "status", "failed"},
                             stream : {"none", "open", "closed"}])
    <3>1. handles \in Seq([call : DOMAIN calls', state : {"pending", "status", "failed"},
                           stream : {"none", "open", "closed"}])
      BY <1>6, MoreCalls
    <3>2. handle \in [call : DOMAIN calls', state : {"pending", "status", "failed"},
                      stream : {"none", "open", "closed"}]
      BY <1>6, <1>8
    <3>3. QED BY <1>8, <1>11, <3>1, <3>2
  <2>2. Grown  BY <1>1, <1>7, <2>1 DEF Grown
  <2>3. frame(h) \in Frames'  BY <1>9, <2>1
  <2>4. /\ stack' \in Seq(Frames') /\ stack' # <<>>
        /\ \A i \in DOMAIN stack : i \in DOMAIN stack' /\ stack'[i] = stack[i]
        /\ Len(stack) + 1 \in DOMAIN stack' /\ stack'[Len(stack) + 1] = frame(h)
    BY <1>11, <2>2, <2>3, PushKeepsFrames
  <2>5. TypeOK'
    <3>1. marked' \subseteq DOMAIN spans'
      BY <1>1, <1>11, CurrentSpanIsLive DEF TypeOK
    <3>2. QED BY <1>1, <1>6, <1>8, <1>11, <2>1, <2>4, <3>1 DEF TypeOK
  <2>6. StackInv'
    <3>1. /\ Counting(frame(h)) /\ frame(h).kind = "native" /\ frame(h).call = k
          /\ frame(h).saved = active /\ frame(h).item = h
      <4>1. h # 0  BY <2>1
      <4> HIDE DEF h, k
      <4>2. QED BY <4>1 DEF Counting
    <3>2. active' = calls'[k].client  BY <1>7, <1>8, <1>11
    <3>3. h \in DOMAIN handles' /\ handles'[h].call = k  BY <2>1
    <3>4. \A i \in 1..Len(stack) :
            /\ stack[i].call # k
            /\ calls[stack[i].call].client = calls'[k].client
            => calls'[k].nested
      BY <1>1, <2>2, SameCall
    <3>5. \A s \in DOMAIN spans : spans'[s].state = spans[s].state  BY <1>1
    <3>6. stack # <<>> /\ stack' = Append(stack, frame(h))  BY <1>1, <1>11
    <3> HIDE DEF h, k, frame
    <3>7. QED BY <2>2, <2>3, <3>1, <3>2, <3>3, <3>4, <3>5, <3>6, PushStackInv
  <2>7. InFlightIsReal'
    <3>1. ASSUME NEW g \in DOMAIN handles', ~closed', handles'[g].state = "pending"
          PROVE  \/ handles'[g].stream = "open"
                 \/ \E i \in DOMAIN stack' : stack'[i].kind = "native" /\ stack'[i].item = g
      <4>1. frame(h).kind = "native" /\ frame(h).item = h  OBVIOUS
      <4> HIDE DEF h, k, c, frame, handle
      <4>2. CASE g = h  BY <2>4, <4>1, <4>2
      <4>3. CASE g # h  BY <1>1, <2>1, <2>4, <3>1, <4>3 DEF InFlightIsReal
      <4>4. QED BY <4>2, <4>3
    <3>2. QED BY <3>1 DEF InFlightIsReal
  <2>8. MarksAreLive'  BY <1>1, <1>11, CurrentSpanIsLive DEF MarksAreLive
  <2>9. CountedInv'
    <3> SUFFICES ASSUME NEW j \in DOMAIN calls, calls'[j].open, ~calls'[j].nested
                 PROVE  \E g \in DOMAIN handles' : handles'[g].call = j
      BY <1>7 DEF CountedInv, HasHandle
    <3>1. CASE j = k
      BY <2>1, <3>1
    <3>2. CASE j # k
      <4>1. calls[j].open /\ ~calls[j].nested  BY <1>7, <3>2
      <4>2. HasHandle(j)  BY <4>1 DEF CountedInv
      <4>3. QED BY <2>1, <4>2 DEF HasHandle
    <3>3. QED BY <3>1, <3>2
  <2>10. QED BY <2>5, <2>6, <2>7, <2>8, <2>9
<1>12. QED BY <1>2, <1>10, <1>11

LEMMA EnterSpanInv == ASSUME CallsInv, EnterSpan PROVE CallsInv'
<1> USE DEF CallsInv
<1> DEFINE s == Len(spans) + 1
           span == [call |-> Top.call, state |-> "live"]
           frame == [kind |-> "span", call |-> Top.call, todo |-> Tail(Top.todo),
                     item |-> s, saved |-> active]
<1>1. /\ stack # <<>> /\ Top.todo # <<>>
      /\ stack' = Append(stack, frame) /\ spans' = Append(spans, span)
      /\ marked' = IF ~closed /\ active # None THEN marked \cup {s} ELSE marked
      /\ UNCHANGED <<layers, unwinding, active, calls, handles, closed>>
  BY DEF EnterSpan, Running, Push
<1>2. /\ Len(spans) \in Nat /\ DOMAIN spans = 1..Len(spans)
      /\ Tail(Top.todo) \in Seq({"native", "span"}) /\ Top.call \in DOMAIN calls
  BY <1>1, TopFacts, LenProperties, HeadTailProperties DEF TypeOK
<1>3. /\ s \in Nat /\ s \notin DOMAIN spans /\ DOMAIN spans' = DOMAIN spans \cup {s}
      /\ spans'[s] = span /\ \A j \in DOMAIN spans : spans'[j] = spans[j]
      /\ spans' \in Seq([call : DOMAIN calls', state : {"live", "counted", "skipped", "late"}])
  <2>1. spans \in Seq([call : DOMAIN calls, state : {"live", "counted", "skipped", "late"}])
    BY DEF TypeOK
  <2>2. span \in [call : DOMAIN calls, state : {"live", "counted", "skipped", "late"}]  BY <1>2
  <2>3. QED BY <1>1, <1>2, <2>1, <2>2
<1>4. Grown  BY <1>1, <1>3 DEF Grown
<1>5. frame \in Frames'  BY <1>1, <1>2, <1>3 DEF Frames, TypeOK
<1>6. /\ stack' \in Seq(Frames') /\ stack' # <<>>
      /\ \A i \in DOMAIN stack : i \in DOMAIN stack' /\ stack'[i] = stack[i]
  BY <1>1, <1>4, <1>5, PushKeepsFrames
<1>7. TypeOK'
  <2>1. marked' \subseteq (IF closed' THEN {} ELSE DOMAIN spans')  BY <1>1, <1>3 DEF TypeOK
  <2>2. QED BY <1>1, <1>3, <1>6, <2>1 DEF TypeOK
<1>8. StackInv'
  <2>1. ~Counting(frame) /\ frame.kind = "span" /\ frame.item = s /\ frame.saved = active
        /\ frame.call = Top.call
    BY DEF Counting
  <2>2. s \in DOMAIN spans' \ DOMAIN spans /\ spans'[s].state = "live"
        /\ \A j \in DOMAIN spans : spans'[j].state = spans[j].state
    BY <1>3
  <2>3. \A i \in 1..Len(stack) :
          stack[i].call # frame.call /\ calls[stack[i].call].client = calls'[frame.call].client =>
            calls'[frame.call].nested
    BY <1>1, <1>4, <2>1, SameCall
  <2> HIDE DEF frame, s
  <2>4. QED BY <1>1, <1>4, <1>5, <2>1, <2>2, <2>3, PushStackInv
<1>9. InFlightIsReal'  BY <1>1, <1>6, InFlightKept
<1>10. MarksAreLive'
  BY <1>1, <1>3 DEF MarksAreLive, TypeOK
<1>11. CountedInv'  BY <1>1 DEF CountedInv, HasHandle
<1>12. QED BY <1>7, <1>8, <1>9, <1>10, <1>11

LEMMA AnswerInv == ASSUME CallsInv, Answer PROVE CallsInv'
<1>1. /\ stack # <<>> /\ unwinding' \in {"returns", "raises"}
      /\ UNCHANGED <<layers, stack, active, calls, handles, spans, marked, closed>>
  BY DEF Answer, Running
<1>2. Grown  BY <1>1 DEF Grown
<1>3. TypeOK'  BY <1>1 DEF CallsInv, TypeOK, Frames
<1>4. StackInv'  BY <1>1, <1>2, StayStackInv DEF CallsInv
<1>5. QED
  BY <1>1, <1>3, <1>4 DEF CallsInv, InFlightIsReal, MarksAreLive, CountedInv, HasHandle

\* The response, the stream or the exception finishes a handle.
LEMMA FinishFacts ==
  ASSUME TypeOK, NEW h \in DOMAIN handles, NEW outcome \in {"pending", "status", "failed"},
         NEW stream \in {"none", "open", "closed"}, Finish(h, outcome, stream)
  PROVE  /\ handles' \in Seq([call : DOMAIN calls, state : {"pending", "status", "failed"},
                             stream : {"none", "open", "closed"}])
         /\ DOMAIN handles' = DOMAIN handles
         /\ \A g \in DOMAIN handles : handles'[g].call = handles[g].call
         /\ \A g \in DOMAIN handles : g # h => handles'[g] = handles[g]
         /\ handles'[h].stream = stream
         /\ handles'[h].state = "pending" => outcome = "pending" \/ closed
<1> DEFINE Handle == [call : DOMAIN calls, state : {"pending", "status", "failed"},
                      stream : {"none", "open", "closed"}]
           new == [handles[h] EXCEPT !.stream = stream,
                     !.state = IF @ = "pending" /\ ~closed THEN outcome ELSE @]
<1>1. handles \in Seq(Handle) /\ Len(handles) \in Nat /\ DOMAIN handles = 1..Len(handles)
  BY LenProperties DEF TypeOK
<1>2. handles[h] \in Handle
  <2> HIDE DEF Handle
  <2>1. QED BY <1>1, ElementOfSeq
<1>3. /\ new \in Handle /\ new.call = handles[h].call /\ new.stream = stream
      /\ new.state = "pending" => outcome = "pending" \/ closed
  BY <1>2
<1>4. handles' = [handles EXCEPT ![h] = new]  BY DEF Finish
<1>5. /\ handles' \in Seq(Handle) /\ DOMAIN handles' = DOMAIN handles
      /\ handles'[h] = new /\ \A g \in DOMAIN handles : g # h => handles'[g] = handles[g]
  <2> HIDE DEF Handle, new
  <2>1. QED BY <1>1, <1>3, <1>4, ExceptSeq
<1>6. QED BY <1>3, <1>5

LEMMA PopKeepsFrames ==
  ASSUME TypeOK, StackInv, stack # <<>>, stack' = Pop
  PROVE  /\ stack' \in Seq(Frames)
         /\ Top.kind # "send" => stack' # <<>>
         /\ stack' = <<>> => Len(stack) = 1
         /\ Len(stack) \in DOMAIN stack
         /\ \A i \in DOMAIN stack : i # Len(stack) => i \in DOMAIN stack' /\ stack'[i] = stack[i]
<1>1. /\ stack' \in Seq(Frames) /\ Len(stack) \in Nat /\ Len(stack) >= 1
      /\ DOMAIN stack = 1..Len(stack) /\ Len(stack') = Len(stack) - 1
      /\ \A i \in 1..Len(stack') : stack'[i] = stack[i]
  BY PopFacts, FrameFacts
<1>2. DOMAIN stack' = 1..Len(stack')  BY <1>1, LenProperties
<1>3. stack' = <<>> => Len(stack) = 1  BY PopFacts
<1>4. Len(stack) = 1 => Top.kind = "send"  BY DEF StackInv, BaseInv, Top
<1>5. QED BY <1>1, <1>2, <1>3, <1>4

LEMMA LeaveNativeInv == ASSUME CallsInv, LeaveNative PROVE CallsInv'
<1> USE DEF CallsInv
<1>1. /\ stack # <<>> /\ stack' = Pop /\ Top.kind = "native"
      /\ UNCHANGED <<layers, unwinding, calls, spans, marked, closed>>
  BY DEF LeaveNative, TypeOK
<1>2. /\ stack' \in Seq(Frames) /\ stack' # <<>> /\ Len(stack) \in DOMAIN stack
      /\ \A i \in DOMAIN stack : i # Len(stack) => i \in DOMAIN stack' /\ stack'[i] = stack[i]
  BY <1>1, PopKeepsFrames
<1>3. /\ Top \in Frames /\ Top = stack[Len(stack)] /\ Len(stack) \in 1..Len(stack)
  BY <1>1, TopFacts
<1>4. CASE Top.item = 0
  <2>1. UNCHANGED <<active, handles>>  BY <1>4 DEF LeaveNative
  <2>2. Grown  BY <1>1, <2>1 DEF Grown
  <2>3. TypeOK'  BY <1>1, <1>2, <2>1 DEF TypeOK, Frames
  <2>4. StackInv'
    <3>1. ~Counting(Top)  BY <1>4 DEF Counting
    <3>2. QED BY <1>1, <2>1, <2>2, <3>1, PopStackInv
  <2>5. InFlightIsReal'
    <3>1. \A h \in DOMAIN handles : h # Top.item  BY <1>4, LenProperties DEF TypeOK
    <3>2. QED BY <1>1, <1>2, <1>3, <2>1, <3>1, InFlightKept
  <2>6. MarksAreLive' /\ CountedInv'
    BY <1>1, <2>1 DEF MarksAreLive, CountedInv, HasHandle
  <2>7. QED BY <2>3, <2>4, <2>5, <2>6
<1>5. CASE Top.item # 0
  <2> DEFINE h == Top.item
  <2>1. Counting(Top) /\ h \in DOMAIN handles
    BY <1>1, <1>3, <1>5 DEF Counting, StackInv, ItemInv
  <2>2. PICK outcome \in {"pending", "status", "failed"}, stream \in {"none", "open", "closed"} :
          /\ Finish(h, outcome, stream) /\ active' = Top.saved
          /\ outcome = "pending" => stream = "open"
    BY <1>5 DEF LeaveNative
  <2>3. /\ handles' \in Seq([call : DOMAIN calls, state : {"pending", "status", "failed"},
                             stream : {"none", "open", "closed"}])
        /\ DOMAIN handles' = DOMAIN handles
        /\ \A g \in DOMAIN handles : handles'[g].call = handles[g].call
        /\ \A g \in DOMAIN handles : g # h => handles'[g] = handles[g]
        /\ handles'[h].stream = stream
        /\ handles'[h].state = "pending" => outcome = "pending" \/ closed
    BY <2>1, <2>2, FinishFacts
  <2>4. Grown  BY <1>1, <2>3 DEF Grown
  <2>5. TypeOK'
    <3>1. active' \in Clients \cup {None}  BY <1>3, <2>2 DEF Frames
    <3>2. QED BY <1>1, <1>2, <2>3, <3>1 DEF TypeOK, Frames
  <2>6. StackInv'
    <3>1. active' = Top.saved  BY <2>2
    <3>2. QED BY <1>1, <2>1, <2>4, <3>1, PopStackInv
  <2>7. InFlightIsReal'
    <3>1. ASSUME NEW g \in DOMAIN handles
          PROVE  \/ handles'[g].state # "pending" \/ handles'[g].stream = "open" \/ closed'
                 \/ /\ handles'[g] = handles[g]
                    /\ \A i \in DOMAIN stack : stack[i].kind = "native" /\ stack[i].item = g =>
                         i \in DOMAIN stack' /\ stack'[i] = stack[i]
      <4>1. CASE g = h  BY <1>1, <2>2, <2>3, <4>1
      <4>2. CASE g # h  BY <1>2, <1>3, <2>3, <4>2
      <4>3. QED BY <4>1, <4>2
    <3>2. QED BY <1>1, <2>3, <3>1, InFlightKept
  <2>8. MarksAreLive'  BY <1>1 DEF MarksAreLive
  <2>9. CountedInv'  BY <1>1, <2>4, CountedKept
  <2>10. QED BY <2>5, <2>6, <2>7, <2>8, <2>9
<1>6. QED BY <1>4, <1>5

LEMMA LeaveSpanInv == ASSUME CallsInv, LeaveSpan PROVE CallsInv'
<1> USE DEF CallsInv
<1> DEFINE s == Top.item
           end == IF closed THEN "late" ELSE IF s \in marked THEN "skipped" ELSE "counted"
           Span == [call : DOMAIN calls, state : {"live", "counted", "skipped", "late"}]
           new == [spans[s] EXCEPT !.state = end]
<1>1. /\ stack # <<>> /\ stack' = Pop /\ Top.kind = "span"
      /\ spans' = [spans EXCEPT ![s] = new] /\ marked' = marked \ {s}
      /\ UNCHANGED <<layers, unwinding, active, calls, handles, closed>>
  BY DEF LeaveSpan, TypeOK
<1>2. /\ stack' \in Seq(Frames) /\ stack' # <<>> /\ Len(stack) \in DOMAIN stack
      /\ \A i \in DOMAIN stack : i # Len(stack) => i \in DOMAIN stack' /\ stack'[i] = stack[i]
  BY <1>1, PopKeepsFrames
<1>3. /\ Top \in Frames /\ Top = stack[Len(stack)] /\ Len(stack) \in 1..Len(stack)
  BY <1>1, TopFacts
<1>4. s \in DOMAIN spans  BY <1>1, <1>3 DEF StackInv, ItemInv
<1>5. /\ spans' \in Seq(Span) /\ DOMAIN spans' = DOMAIN spans
      /\ \A j \in DOMAIN spans : j # s => spans'[j] = spans[j]
  <2>1. spans \in Seq(Span) /\ DOMAIN spans = 1..Len(spans)
    BY LenProperties DEF TypeOK
  <2>2. spans[s] \in Span
    <3> HIDE DEF Span, s
    <3>1. QED BY <1>4, <2>1, ElementOfSeq
  <2>3. new \in Span  BY <2>2
  <2> HIDE DEF Span, new, s
  <2>4. /\ spans' \in Seq(Span) /\ Len(spans') = Len(spans)
        /\ \A j \in 1..Len(spans) : j # s => spans'[j] = spans[j]
    BY <1>1, <1>4, <2>1, <2>3, ExceptSeq
  <2>5. DOMAIN spans' = 1..Len(spans')  BY <2>4, LenProperties
  <2>6. QED BY <2>1, <2>4, <2>5
<1>6. Grown  BY <1>1, <1>5 DEF Grown
<1>7. TypeOK'  BY <1>1, <1>2, <1>5 DEF TypeOK, Frames
<1>8. StackInv'
  <2>1. ~Counting(Top)  BY <1>1 DEF Counting
  <2>2. \A j \in DOMAIN spans : spans'[j].state = spans[j].state \/ (Top.kind = "span" /\ j = Top.item)
    BY <1>1, <1>5
  <2>3. QED BY <1>1, <1>6, <2>1, <2>2, PopStackInv
<1>9. InFlightIsReal'  BY <1>1, <1>2, <1>3, InFlightKept
<1>10. MarksAreLive'  BY <1>1, <1>5 DEF MarksAreLive, TypeOK
<1>11. CountedInv'  BY <1>1 DEF CountedInv, HasHandle
<1>12. QED BY <1>7, <1>8, <1>9, <1>10, <1>11

LEMMA LeaveSendInv == ASSUME CallsInv, LeaveSend PROVE CallsInv'
<1> USE DEF CallsInv
<1>1. /\ stack # <<>> /\ stack' = Pop /\ Top.kind = "send"
      /\ unwinding' \in {"no", "raises"} /\ (Len(stack) = 1 => unwinding' = "no")
      /\ UNCHANGED <<layers, active, calls, handles, spans, marked, closed>>
  <2>1. /\ unwinding # "no" /\ Top.kind = "send" /\ stack' = Pop
        /\ unwinding' \in (IF unwinding = "raises" /\ Len(stack) > 1 THEN {"no", "raises"} ELSE {"no"})
        /\ UNCHANGED <<layers, active, calls, handles, spans, marked, closed>>
    BY DEF LeaveSend
  <2>2. Len(stack) = 1 => ~(Len(stack) > 1)  OBVIOUS
  <2>3. QED BY <2>1, <2>2 DEF TypeOK
<1>2. /\ stack' \in Seq(Frames) /\ (stack' = <<>> => Len(stack) = 1)
      /\ \A i \in DOMAIN stack : i # Len(stack) => i \in DOMAIN stack' /\ stack'[i] = stack[i]
  BY <1>1, PopKeepsFrames
<1>3. Top = stack[Len(stack)]  BY <1>1, TopFacts
<1>4. Grown  BY <1>1 DEF Grown
<1>5. TypeOK'  BY <1>1, <1>2 DEF TypeOK, Frames
<1>6. StackInv'
  <2>1. ~Counting(Top)  BY <1>1 DEF Counting
  <2>2. QED BY <1>1, <1>4, <2>1, PopStackInv
<1>7. InFlightIsReal'  BY <1>1, <1>2, <1>3, InFlightKept
<1>8. MarksAreLive' /\ CountedInv'
  BY <1>1 DEF MarksAreLive, CountedInv, HasHandle
<1>9. QED BY <1>5, <1>6, <1>7, <1>8

LEMMA StreamEndsInv ==
  ASSUME CallsInv, NEW h \in DOMAIN handles, StreamEnds(h)
  PROVE  CallsInv'
<1> USE DEF CallsInv
<1>1. PICK outcome \in {"status", "failed"}, stream \in {"open", "closed"} :
        Finish(h, outcome, stream)
  BY DEF StreamEnds
<1>2. UNCHANGED <<layers, stack, unwinding, active, calls, spans, marked, closed>>
  BY DEF StreamEnds
<1>3. /\ handles' \in Seq([call : DOMAIN calls, state : {"pending", "status", "failed"},
                           stream : {"none", "open", "closed"}])
      /\ DOMAIN handles' = DOMAIN handles
      /\ \A g \in DOMAIN handles : handles'[g].call = handles[g].call
      /\ \A g \in DOMAIN handles : g # h => handles'[g] = handles[g]
      /\ handles'[h].state = "pending" => outcome = "pending" \/ closed
  BY <1>1, FinishFacts
<1>4. Grown  BY <1>2, <1>3 DEF Grown
<1>5. TypeOK'  BY <1>2, <1>3 DEF TypeOK, Frames
<1>6. StackInv'  BY <1>2, <1>4, StayStackInv
<1>7. InFlightIsReal'  BY <1>2, <1>3, InFlightKept
<1>8. MarksAreLive'  BY <1>2 DEF MarksAreLive
<1>9. CountedInv'  BY <1>2, <1>4, CountedKept
<1>10. QED BY <1>5, <1>6, <1>7, <1>8, <1>9

LEMMA CloseInv == ASSUME CallsInv, Close PROVE CallsInv'
<1>1. /\ closed' = TRUE /\ marked' = {}
      /\ UNCHANGED <<layers, stack, unwinding, active, calls, handles, spans>>
  BY DEF Close
<1>2. Grown  BY <1>1 DEF Grown
<1>3. TypeOK'  BY <1>1 DEF CallsInv, TypeOK, Frames
<1>4. StackInv'  BY <1>1, <1>2, StayStackInv DEF CallsInv
<1>5. QED
  BY <1>1, <1>3, <1>4 DEF CallsInv, InFlightIsReal, MarksAreLive, CountedInv, HasHandle

LEMMA InitCallsInv == Init => CallsInv
<1> SUFFICES ASSUME Init PROVE CallsInv
  OBVIOUS
<1>1. Len(<<>>) = 0 /\ DOMAIN <<>> = {} /\ 1..0 = {}  OBVIOUS
<1>2. TypeOK
  <2>1. /\ stack \in Seq(Frames)
        /\ calls \in Seq([client : Clients, open : BOOLEAN, nested : BOOLEAN])
        /\ handles \in Seq([call : DOMAIN calls, state : {"pending", "status", "failed"},
                            stream : {"none", "open", "closed"}])
        /\ spans \in Seq([call : DOMAIN calls, state : {"live", "counted", "skipped", "late"}])
    BY EmptySeq DEF Init
  <2>2. /\ layers \in [Clients -> Layerings] /\ unwinding = "no" /\ active = None
        /\ marked = {} /\ closed = FALSE
    BY DEF Init
  <2>3. QED BY <2>1, <2>2 DEF TypeOK
<1>3. StackInv
  <2>1. stack = <<>> /\ active = None /\ 1..Len(stack) = {}  BY <1>1 DEF Init
  <2>2. QED BY <2>1 DEF StackInv, BaseInv, ItemInv, SpanInv, NestedInv, SavedInv, IsActive
<1>4. InFlightIsReal /\ MarksAreLive /\ CountedInv
  BY <1>1 DEF Init, InFlightIsReal, MarksAreLive, CountedInv
<1>5. QED BY <1>2, <1>3, <1>4 DEF CallsInv

LEMMA CallsInvariant == Spec => []CallsInv
<1>1. CallsInv /\ [Next]_vars => CallsInv'
  <2> SUFFICES ASSUME CallsInv, [Next]_vars PROVE CallsInv'
    OBVIOUS
  <2>1. CASE UNCHANGED vars
    <3>1. UNCHANGED <<layers, stack, unwinding, active, calls, handles, spans, marked, closed>>
      BY <2>1 DEF vars
    <3>2. Grown  BY <3>1 DEF Grown
    <3>3. TypeOK'  BY <3>1 DEF CallsInv, TypeOK, Frames
    <3>4. StackInv'  BY <3>1, <3>2, StayStackInv DEF CallsInv
    <3>5. QED
      BY <3>1, <3>3, <3>4 DEF CallsInv, InFlightIsReal, MarksAreLive, CountedInv, HasHandle
  <2>2. QED
    BY <2>1, SendInv, RedirectInv, EnterNativeInv, EnterSpanInv, AnswerInv, LeaveNativeInv,
       LeaveSpanInv, LeaveSendInv, StreamEndsInv, CloseInv DEF Next
<1>2. QED BY <1>1, InitCallsInv, PTL DEF Spec

-----------------------------------------------------------------------------
(* A send leaves nothing of itself behind, for any nesting of clients,      *)
(* hooks, redirects and layers: no call in flight that is over, no client   *)
(* taken for active, no mark on a span that has ended.                      *)
THEOREM NothingLeft == Spec => []NothingStaysBehind
<1>1. CallsInv => NothingStaysBehind
  <2> SUFFICES ASSUME CallsInv PROVE ActiveIsInnermost
    BY DEF CallsInv, NothingStaysBehind
  <2>1. DOMAIN stack = 1..Len(stack) /\ Len(stack) \in Nat  BY FrameFacts DEF CallsInv
  <2>2. IsActive(active, Len(stack), stack, calls)  BY DEF CallsInv, StackInv, SavedInv
  <2>3. ASSUME NEW i \in 1..Len(stack), Counting(stack[i]),
               \A j \in 1..Len(stack) : Counting(stack[j]) => j <= i
        PROVE  active = calls[stack[i].call].client
    <3>1. \A m \in (i+1)..Len(stack) : m \in 1..Len(stack) /\ ~(m <= i)  BY <2>1
    <3>2. QED BY <2>2, <2>3, <3>1 DEF IsActive
  <2>4. (\A i \in 1..Len(stack) : ~Counting(stack[i])) => active = None
    BY <2>2 DEF IsActive
  <2>5. QED BY <2>1, <2>3, <2>4 DEF ActiveIsInnermost, Counting
<1>2. QED BY <1>1, CallsInvariant, PTL

(* "Without losing calls made by other clients in a request hook": a call   *)
(* whose wrapper found the request open is counted, whatever send it was    *)
(* made in the middle of, unless that was a send of the same client.        *)
THEOREM NoCallLost == Spec => []NativeCallsCounted
<1>1. CountedInv => NativeCallsCounted
  BY DEF CountedInv, HasHandle, NativeCallsCounted, HandlesOf
<1>2. CallsInv => CountedInv  BY DEF CallsInv
<1>3. QED BY <1>1, <1>2, CallsInvariant, PTL

-----------------------------------------------------------------------------
(* Why a call is counted once. Its frames are one block of the stack, in    *)
(* the order of its client's layers.                                        *)
Natively(k, of, lay) == \E n \in DOMAIN lay[of[k].client] : lay[of[k].client][n] = "native"
HasNative(todo)      == \E n \in DOMAIN todo : todo[n] = "native"
NoSpanOutside(todo)  == \A j \in DOMAIN todo : todo[j] = "span" =>
                          \E n \in DOMAIN todo : n < j /\ todo[n] = "native"
Within(i, f)         == \E j \in 1..i : f[j].call = f[i].call /\ f[j].kind = "native"
ActiveIn(frame, of)  == IF Counting(frame) THEN of[frame.call].client ELSE frame.saved

Contiguous(f, n) ==
  \A i, m, j \in 1..n : i < m /\ m < j /\ f[i].call = f[j].call => f[m].call = f[i].call
Nesting(f, n) ==
  \A i, j \in 1..n : j = i + 1 =>
    /\ f[j].kind # "send" => f[i].call = f[j].call
    /\ f[j].kind = "send" /\ f[i].call = f[j].call => f[i].todo = <<>>
Layered(f, n, of, lay) ==
  \A i \in 1..n : Natively(f[i].call, of, lay) /\ ~Within(i, f) =>
    /\ HasNative(f[i].todo) /\ OneSpanOutside(f[i].todo)
    /\ f[i].kind = "span" => NoSpanOutside(f[i].todo)
Chained(f, n, of, act) ==
  /\ n # 0 => act = ActiveIn(f[n], of)
  /\ \A i, j \in 1..n : j = i + 1 => f[j].saved = ActiveIn(f[i], of)
UnderNative(f, n, of, cl) ==
  \A j, i \in 1..n : j <= i /\ f[j].call = f[i].call /\ f[j].kind = "native" /\ ~cl =>
    ActiveIn(f[i], of) = of[f[i].call].client
FirstCounts(f, n) ==
  \A i, j \in 1..n : i < j /\ f[i].call = f[j].call /\ Counting(f[j]) => f[i].kind # "native"

BlockInv ==
  /\ Contiguous(stack, Len(stack)) /\ Nesting(stack, Len(stack))
  /\ Layered(stack, Len(stack), calls, layers)
  /\ Chained(stack, Len(stack), calls, active)
  /\ UnderNative(stack, Len(stack), calls, closed) /\ FirstCounts(stack, Len(stack))

Told(k, hs, ss) == \/ \E h \in DOMAIN hs : hs[h].call = k
                   \/ \E s \in DOMAIN ss : ss[s].call = k /\ ss[s].state = "counted"

\* A call that was counted is in its native send, or on its way out of one, or over.
OverFor(k, f, n, unw, hs, ss) ==
  Told(k, hs, ss) =>
    \/ \E j \in 1..n : f[j].call = k /\ Counting(f[j])
    \/ /\ unw # "no" /\ n # 0 /\ f[n].call = k
       /\ \A j \in 1..n : f[j].call = k => f[j].kind # "native"
    \/ \A j \in 1..n : f[j].call # k
OverInv == \A k \in DOMAIN calls : Natively(k, calls, layers) =>
             OverFor(k, stack, Len(stack), unwinding, handles, spans)

\* A span that will be counted is outside of every send that is, and its call was not
\* counted yet.
WillCount(frame, of, lay, cl, mk) ==
  frame.kind = "span" /\ Natively(frame.call, of, lay) /\ ~cl /\ frame.item \notin mk
Outside(i, f, n, hs, ss) ==
  /\ f[i].saved = None /\ ~Told(f[i].call, hs, ss)
  /\ \A j \in 1..n : f[j].call = f[i].call => j <= i /\ f[j].kind # "native"
OutsideInv ==
  \A i \in 1..Len(stack) : WillCount(stack[i], calls, layers, closed, marked) =>
    Outside(i, stack, Len(stack), handles, spans)
SpanCallInv ==
  \A i \in 1..Len(stack) :
    stack[i].kind = "span" => spans[stack[i].item].call = stack[i].call

\* Counted once, by a handle or by a span.
Unique(k, hs, ss) ==
  /\ \A g, h \in DOMAIN hs : hs[g].call = k /\ hs[h].call = k => g = h
  /\ \A s, t \in DOMAIN ss : ss[s].call = k /\ ss[t].call = k
        /\ ss[s].state = "counted" /\ ss[t].state = "counted" => s = t
  /\ \A h \in DOMAIN hs, s \in DOMAIN ss :
       ~(hs[h].call = k /\ ss[s].call = k /\ ss[s].state = "counted")
UniqueInv == \A k \in DOMAIN calls : Natively(k, calls, layers) => Unique(k, handles, spans)

OnceInv == BlockInv /\ OverInv /\ OutsideInv /\ SpanCallInv /\ UniqueInv

-----------------------------------------------------------------------------
(* Blocks of frames, when one is pushed: f are the first n frames, and g    *)
(* the same with one more.                                                  *)
LEMMA SameLayers ==
  ASSUME NEW k, NEW of, NEW now, NEW lay, now[k].client = of[k].client
  PROVE  Natively(k, now, lay) <=> Natively(k, of, lay)
  BY DEF Natively

LEMMA PushContiguous ==
  ASSUME NEW f, NEW g, NEW n \in Nat, \A i \in 1..n : g[i] = f[i], Contiguous(f, n),
         \/ \A i \in 1..n : f[i].call # g[n + 1].call
         \/ n # 0 /\ f[n].call = g[n + 1].call
  PROVE  Contiguous(g, n + 1)
<1>1. SUFFICES ASSUME NEW i \in 1..(n + 1), NEW m \in 1..(n + 1), NEW j \in 1..(n + 1),
                      i < m, m < j, g[i].call = g[j].call
               PROVE  g[m].call = g[i].call
  BY DEF Contiguous
<1>2. i \in 1..n /\ m \in 1..n /\ g[i] = f[i] /\ g[m] = f[m]  BY <1>1
<1>3. CASE j \in 1..n  BY <1>1, <1>2, <1>3 DEF Contiguous
<1>4. CASE j = n + 1
  <2>1. n \in 1..n /\ f[n].call = g[j].call /\ f[i].call = f[n].call  BY <1>1, <1>2, <1>4
  <2>2. CASE m = n  BY <1>2, <2>1, <2>2
  <2>3. CASE m # n  BY <1>1, <1>2, <2>1, <2>3 DEF Contiguous
  <2>4. QED BY <2>2, <2>3
<1>5. QED BY <1>1, <1>3, <1>4

LEMMA PushNesting ==
  ASSUME NEW f, NEW g, NEW n \in Nat, \A i \in 1..n : g[i] = f[i], Nesting(f, n),
         n # 0 /\ g[n + 1].kind # "send" => f[n].call = g[n + 1].call,
         n # 0 /\ g[n + 1].kind = "send" /\ f[n].call = g[n + 1].call => f[n].todo = <<>>
  PROVE  Nesting(g, n + 1)
<1>1. SUFFICES ASSUME NEW i \in 1..(n + 1), NEW j \in 1..(n + 1), j = i + 1
               PROVE  /\ g[j].kind # "send" => g[i].call = g[j].call
                      /\ g[j].kind = "send" /\ g[i].call = g[j].call => g[i].todo = <<>>
  BY DEF Nesting
<1>2. CASE j \in 1..n  BY <1>1, <1>2 DEF Nesting
<1>3. CASE j = n + 1
  <2>1. i = n /\ n # 0 /\ n \in 1..n /\ g[i] = f[n]  BY <1>1, <1>3
  <2>2. QED BY <1>3, <2>1
<1>4. QED BY <1>1, <1>2, <1>3

LEMMA PushWithin ==
  ASSUME NEW f, NEW g, NEW n \in Nat, \A i \in 1..n : g[i] = f[i], NEW i \in 1..n
  PROVE  Within(i, g) <=> Within(i, f)
<1>1. g[i] = f[i] /\ \A j \in 1..i : j \in 1..n /\ g[j] = f[j]  OBVIOUS
<1>2. QED BY <1>1 DEF Within

LEMMA PushLayered ==
  ASSUME NEW f, NEW g, NEW n \in Nat, \A i \in 1..n : g[i] = f[i],
         NEW of, NEW now, NEW lay, Layered(f, n, of, lay),
         \A i \in 1..n : now[f[i].call].client = of[f[i].call].client,
         Natively(g[n + 1].call, now, lay) /\ ~Within(n + 1, g) =>
           /\ HasNative(g[n + 1].todo) /\ OneSpanOutside(g[n + 1].todo)
           /\ g[n + 1].kind = "span" => NoSpanOutside(g[n + 1].todo)
  PROVE  Layered(g, n + 1, now, lay)
<1>1. SUFFICES ASSUME NEW i \in 1..(n + 1), Natively(g[i].call, now, lay), ~Within(i, g)
               PROVE  /\ HasNative(g[i].todo) /\ OneSpanOutside(g[i].todo)
                      /\ g[i].kind = "span" => NoSpanOutside(g[i].todo)
  BY DEF Layered
<1>2. CASE i \in 1..n
  <2>1. g[i] = f[i] /\ Natively(f[i].call, of, lay) /\ ~Within(i, f)
    BY <1>1, <1>2, SameLayers, PushWithin
  <2>2. QED BY <1>2, <2>1 DEF Layered
<1>3. CASE i = n + 1  BY <1>1, <1>3
<1>4. QED BY <1>1, <1>2, <1>3

LEMMA SameActiveIn ==
  ASSUME NEW frame, NEW of, NEW now, now[frame.call].client = of[frame.call].client
  PROVE  ActiveIn(frame, now) = ActiveIn(frame, of)
  BY DEF ActiveIn

LEMMA PushChained ==
  ASSUME NEW f, NEW g, NEW n \in Nat, \A i \in 1..n : g[i] = f[i],
         NEW of, NEW now, NEW act, Chained(f, n, of, act),
         \A i \in 1..n : now[f[i].call].client = of[f[i].call].client,
         g[n + 1].saved = act
  PROVE  Chained(g, n + 1, now, ActiveIn(g[n + 1], now))
<1>1. ASSUME NEW i \in 1..(n + 1), NEW j \in 1..(n + 1), j = i + 1
      PROVE  g[j].saved = ActiveIn(g[i], now)
  <2>1. i \in 1..n /\ g[i] = f[i] /\ ActiveIn(g[i], now) = ActiveIn(f[i], of)
    BY <1>1, SameActiveIn
  <2>2. CASE j \in 1..n  BY <1>1, <2>1, <2>2 DEF Chained
  <2>3. CASE j = n + 1
    <3>1. i = n /\ n # 0  BY <1>1, <2>3
    <3>2. QED BY <2>1, <2>3, <3>1 DEF Chained
  <2>4. QED BY <2>2, <2>3
<1>2. QED BY <1>1 DEF Chained

LEMMA PushUnderNative ==
  ASSUME NEW f, NEW g, NEW n \in Nat, \A i \in 1..n : g[i] = f[i],
         NEW of, NEW now, NEW act, NEW cl, Chained(f, n, of, act), UnderNative(f, n, of, cl),
         \A i \in 1..n : now[f[i].call].client = of[f[i].call].client,
         g[n + 1].saved = act,
         \/ \A i \in 1..n : f[i].call # g[n + 1].call
         \/ n # 0 /\ f[n].call = g[n + 1].call,
         g[n + 1].kind = "native" =>
           Counting(g[n + 1]) \/ cl \/ act = now[g[n + 1].call].client
  PROVE  UnderNative(g, n + 1, now, cl)
<1>1. SUFFICES ASSUME NEW j \in 1..(n + 1), NEW i \in 1..(n + 1), j <= i,
                      g[j].call = g[i].call, g[j].kind = "native", ~cl
               PROVE  ActiveIn(g[i], now) = now[g[i].call].client
  BY DEF UnderNative
<1>2. CASE i \in 1..n
  <2>1. j \in 1..n /\ g[i] = f[i] /\ g[j] = f[j]  BY <1>1, <1>2
  <2>2. ActiveIn(f[i], of) = of[f[i].call].client  BY <1>1, <1>2, <2>1 DEF UnderNative
  <2>3. QED BY <1>2, <2>1, <2>2, SameActiveIn
<1>3. CASE i = n + 1
  <2>1. CASE Counting(g[i])  BY <2>1 DEF ActiveIn
  <2>2. CASE ~Counting(g[i])
    <3>1. ActiveIn(g[i], now) = act  BY <1>3, <2>2 DEF ActiveIn
    <3>2. CASE j = n + 1  BY <1>1, <1>3, <2>2, <3>1, <3>2
    <3>3. CASE j \in 1..n
      <4>1. n \in 1..n /\ n # 0 /\ g[j] = f[j] /\ f[n].call = g[i].call /\ j <= n
        BY <1>1, <1>3, <3>3
      <4>2. ActiveIn(f[n], of) = of[f[n].call].client
        BY <1>1, <3>3, <4>1 DEF UnderNative
      <4>3. act = ActiveIn(f[n], of)  BY <4>1 DEF Chained
      <4>4. QED BY <3>1, <4>1, <4>2, <4>3
    <3>4. QED BY <3>2, <3>3
  <2>3. QED BY <2>1, <2>2
<1>4. QED BY <1>1, <1>2, <1>3

LEMMA PushFirstCounts ==
  ASSUME NEW f, NEW g, NEW n \in Nat, \A i \in 1..n : g[i] = f[i], FirstCounts(f, n),
         Counting(g[n + 1]) =>
           \A i \in 1..n : f[i].call = g[n + 1].call => f[i].kind # "native"
  PROVE  FirstCounts(g, n + 1)
<1>1. SUFFICES ASSUME NEW i \in 1..(n + 1), NEW j \in 1..(n + 1), i < j,
                      g[i].call = g[j].call, Counting(g[j])
               PROVE  g[i].kind # "native"
  BY DEF FirstCounts
<1>2. i \in 1..n /\ g[i] = f[i]  BY <1>1
<1>3. CASE j \in 1..n  BY <1>1, <1>2, <1>3 DEF FirstCounts
<1>4. CASE j = n + 1  BY <1>1, <1>2, <1>4
<1>5. QED BY <1>1, <1>3, <1>4

(* Blocks of frames, when one is popped: g are the first n of the n + 1     *)
(* frames f.                                                                *)
LEMMA PopBlocks ==
  ASSUME NEW f, NEW g, NEW n \in Nat, \A i \in 1..n : g[i] = f[i],
         Contiguous(f, n + 1), Nesting(f, n + 1), FirstCounts(f, n + 1)
  PROVE  Contiguous(g, n) /\ Nesting(g, n) /\ FirstCounts(g, n)
<1>1. \A i \in 1..n : i \in 1..(n + 1) /\ g[i] = f[i]  OBVIOUS
<1>2. Contiguous(g, n)   BY <1>1, Zenon DEF Contiguous
<1>3. Nesting(g, n)
  <2>1. SUFFICES ASSUME NEW i \in 1..n, NEW j \in 1..n, j = i + 1
                 PROVE  /\ g[j].kind # "send" => g[i].call = g[j].call
                        /\ g[j].kind = "send" /\ g[i].call = g[j].call => g[i].todo = <<>>
    BY DEF Nesting
  <2>2. QED BY <1>1, <2>1 DEF Nesting
<1>4. FirstCounts(g, n)  BY <1>1, Zenon DEF FirstCounts
<1>5. QED BY <1>2, <1>3, <1>4

LEMMA PopLayered ==
  ASSUME NEW f, NEW g, NEW n \in Nat, \A i \in 1..n : g[i] = f[i],
         NEW of, NEW lay, Layered(f, n + 1, of, lay)
  PROVE  Layered(g, n, of, lay)
<1>1. SUFFICES ASSUME NEW i \in 1..n, Natively(g[i].call, of, lay), ~Within(i, g)
               PROVE  /\ HasNative(g[i].todo) /\ OneSpanOutside(g[i].todo)
                      /\ g[i].kind = "span" => NoSpanOutside(g[i].todo)
  BY DEF Layered
<1>2. i \in 1..(n + 1) /\ g[i] = f[i] /\ ~Within(i, f)  BY <1>1, PushWithin
<1>3. QED BY <1>1, <1>2 DEF Layered

LEMMA PopUnderNative ==
  ASSUME NEW f, NEW g, NEW n \in Nat, \A i \in 1..n : g[i] = f[i],
         NEW of, NEW cl, UnderNative(f, n + 1, of, cl)
  PROVE  UnderNative(g, n, of, cl)
<1>1. \A i \in 1..n : i \in 1..(n + 1) /\ g[i] = f[i]  OBVIOUS
<1>2. QED BY <1>1, Zenon DEF UnderNative

LEMMA PopChained ==
  ASSUME NEW f, NEW g, NEW n \in Nat, \A i \in 1..n : g[i] = f[i],
         NEW of, NEW act, Chained(f, n + 1, of, act)
  PROVE  Chained(g, n, of, IF Counting(f[n + 1]) THEN f[n + 1].saved ELSE act)
<1>1. PICK left : left = IF Counting(f[n + 1]) THEN f[n + 1].saved ELSE act  OBVIOUS
<1>2. \A i \in 1..n : i \in 1..(n + 1) /\ g[i] = f[i]  OBVIOUS
<1>3. left = f[n + 1].saved
  <2>1. n + 1 # 0 /\ act = ActiveIn(f[n + 1], of)  BY DEF Chained
  <2>2. QED BY <1>1, <2>1 DEF ActiveIn
<1>4. ASSUME n # 0 PROVE left = ActiveIn(g[n], of)
  <2>1. n \in 1..(n + 1) /\ n + 1 \in 1..(n + 1) /\ g[n] = f[n]  BY <1>4
  <2>2. QED BY <1>3, <2>1 DEF Chained
<1>5. \A i, j \in 1..n : j = i + 1 => g[j].saved = ActiveIn(g[i], of)
  BY <1>2, Zenon DEF Chained
<1>6. QED BY <1>1, <1>4, <1>5 DEF Chained

-----------------------------------------------------------------------------
(* A call that was counted, before and after a frame is pushed or popped.   *)
LEMMA PushOver ==
  ASSUME NEW k, NEW f, NEW g, NEW n \in Nat, \A i \in 1..n : g[i] = f[i],
         NEW hs, NEW ss, NEW hs2, NEW ss2, OverFor(k, f, n, "no", hs, ss),
         \/ Counting(g[n + 1]) /\ g[n + 1].call = k
         \/ Told(k, hs2, ss2) => Told(k, hs, ss),
         g[n + 1].call = k => n # 0 /\ f[n].call = k
  PROVE  OverFor(k, g, n + 1, "no", hs2, ss2)
<1>1. CASE Counting(g[n + 1]) /\ g[n + 1].call = k
  <2>1. n + 1 \in 1..(n + 1)  OBVIOUS
  <2>2. QED BY <1>1, <2>1 DEF OverFor
<1>2. CASE Told(k, hs2, ss2) => Told(k, hs, ss)
  <2>1. CASE ~Told(k, hs2, ss2)  BY <2>1 DEF OverFor
  <2>2. CASE \E j \in 1..n : f[j].call = k /\ Counting(f[j])
    <3>1. PICK j \in 1..n : f[j].call = k /\ Counting(f[j])  BY <2>2
    <3>2. j \in 1..(n + 1) /\ g[j] = f[j]  OBVIOUS
    <3>3. QED BY <3>1, <3>2 DEF OverFor
  <2>3. CASE \A j \in 1..n : f[j].call # k
    <3>1. g[n + 1].call # k
      <4>1. n # 0 => n \in 1..n  OBVIOUS
      <4>2. QED BY <2>3, <4>1
    <3>2. \A j \in 1..(n + 1) : j \in 1..n \/ j = n + 1  OBVIOUS
    <3>3. \A j \in 1..(n + 1) : g[j].call # k  BY <2>3, <3>1, <3>2
    <3>4. QED BY <3>3 DEF OverFor
  <2>4. QED BY <1>2, <2>1, <2>2, <2>3 DEF OverFor
<1>3. QED BY <1>1, <1>2

LEMMA PopOver ==
  ASSUME NEW k, NEW f, NEW g, NEW n \in Nat, \A i \in 1..n : g[i] = f[i],
         NEW of, NEW lay, Natively(k, of, lay), Contiguous(f, n + 1), Nesting(f, n + 1),
         Layered(f, n + 1, of, lay), FirstCounts(f, n + 1),
         NEW hs, NEW ss, NEW hs2, NEW ss2, NEW unw, NEW unw2, unw # "no",
         OverFor(k, f, n + 1, unw, hs, ss),
         f[n + 1].kind # "send" => unw2 = unw /\ n # 0,
         f[n + 1].kind = "send" => ~Counting(f[n + 1]),
         Told(k, hs2, ss2) => \/ Told(k, hs, ss)
                              \/ /\ f[n + 1].kind = "span" /\ f[n + 1].call = k
                                 /\ \A j \in 1..(n + 1) : f[j].call = k => f[j].kind # "native"
  PROVE  OverFor(k, g, n, unw2, hs2, ss2)
<1>0. /\ n + 1 \in 1..(n + 1) /\ \A i \in 1..n : i \in 1..(n + 1) /\ i < n + 1
      /\ n # 0 => n \in 1..n /\ n \in 1..(n + 1)
      /\ \A i \in 1..(n + 1) : i \in 1..n \/ i = n + 1
  OBVIOUS
<1> DEFINE Bare == f[n + 1].call = k /\ \A j \in 1..(n + 1) : f[j].call = k => f[j].kind # "native"
<1>1. SUFFICES ASSUME Told(k, hs2, ss2)
               PROVE  \/ \E j \in 1..n : g[j].call = k /\ Counting(g[j])
                      \/ /\ unw2 # "no" /\ n # 0 /\ g[n].call = k
                         /\ \A j \in 1..n : g[j].call = k => g[j].kind # "native"
                      \/ \A j \in 1..n : g[j].call # k
  BY DEF OverFor
<1>2. \A i \in 1..n : f[i].call = f[n + 1].call /\ i # n => f[n].call = f[n + 1].call
  <2>1. SUFFICES ASSUME NEW i \in 1..n, f[i].call = f[n + 1].call, i # n
                 PROVE  f[n].call = f[n + 1].call
    OBVIOUS
  <2>2. i < n /\ n < n + 1 /\ n # 0  BY <2>1
  <2>3. QED BY <1>0, <2>1, <2>2 DEF Contiguous
<1>3. CASE Bare
  <2>1. CASE f[n + 1].kind # "send"
    <3>1. n # 0 /\ unw2 # "no" /\ f[n].call = k
      BY <1>0, <1>3, <2>1 DEF Nesting
    <3>2. QED BY <1>0, <1>3, <3>1
  <2>2. CASE f[n + 1].kind = "send"
    <3>1. ASSUME n # 0 PROVE f[n].call # k
      <4>1. SUFFICES ASSUME f[n].call = k PROVE FALSE
        OBVIOUS
      <4>2. f[n].todo = <<>>  BY <1>0, <1>3, <2>2, <3>1, <4>1 DEF Nesting
      <4>3. ~HasNative(f[n].todo)
        <5>1. DOMAIN <<>> = {}  OBVIOUS
        <5>2. QED BY <4>2, <5>1 DEF HasNative
      <4>4. Within(n, f)  BY <1>0, <3>1, <4>1, <4>3 DEF Layered
      <4>5. PICK j \in 1..n : f[j].call = k /\ f[j].kind = "native"
        BY <4>1, <4>4 DEF Within
      <4>6. QED BY <1>0, <1>3, <4>5
    <3>2. \A i \in 1..n : f[i].call # k
      BY <1>2, <1>3, <3>1, <1>0
    <3>3. QED BY <3>2
  <2>3. QED BY <2>1, <2>2
<1>4. CASE ~Bare /\ \E j \in 1..(n + 1) : f[j].call = k /\ Counting(f[j])
  <2>1. PICK j \in 1..(n + 1) : f[j].call = k /\ Counting(f[j])  BY <1>4
  <2>2. CASE j \in 1..n  BY <2>1, <2>2
  <2>3. CASE j = n + 1
    <3>1. f[n + 1].kind # "send"  BY <2>1, <2>3
    <3>2. n # 0 /\ unw2 # "no" /\ f[n].call = k
      BY <1>0, <2>1, <2>3, <3>1 DEF Nesting
    <3>3. \A i \in 1..n : f[i].call = k => f[i].kind # "native"
      BY <1>0, <2>1, <2>3 DEF FirstCounts
    <3>4. QED BY <1>0, <3>2, <3>3
  <2>4. QED BY <1>0, <2>2, <2>3
<1>5. CASE ~Bare /\ \A j \in 1..(n + 1) : f[j].call # k
  BY <1>0, <1>5
<1>6. QED BY <1>0, <1>1, <1>3, <1>4, <1>5 DEF OverFor

(* A span that will be counted, before and after.                           *)
LEMMA PushOutside ==
  ASSUME NEW f, NEW g, NEW n \in Nat, \A i \in 1..n : g[i] = f[i], NEW i \in 1..n,
         NEW of, NEW now, NEW lay, NEW cl, NEW mk, NEW mk2, NEW hs, NEW ss, NEW hs2, NEW ss2,
         now[f[i].call].client = of[f[i].call].client, mk \subseteq mk2, Contiguous(f, n),
         WillCount(f[i], of, lay, cl, mk) => Outside(i, f, n, hs, ss),
         f[i].call # g[n + 1].call => (Told(f[i].call, hs2, ss2) => Told(f[i].call, hs, ss)),
         WillCount(g[i], now, lay, cl, mk2),
         f[i].call = g[n + 1].call =>
           f[n].call = g[n + 1].call /\ (i = n => ~Outside(n, f, n, hs, ss))
  PROVE  Outside(i, g, n + 1, hs2, ss2)
<1>1. g[i] = f[i] /\ n \in 1..n  OBVIOUS
<1>2. WillCount(f[i], of, lay, cl, mk)
  BY <1>1, SameLayers DEF WillCount
<1>3. Outside(i, f, n, hs, ss)  BY <1>2
<1>4. f[i].call # g[n + 1].call
  <2>1. SUFFICES ASSUME f[i].call = g[n + 1].call PROVE FALSE
    OBVIOUS
  <2>2. n <= i  BY <1>1, <1>3, <2>1 DEF Outside
  <2>3. i = n  BY <2>2
  <2>4. QED BY <1>3, <2>1, <2>3
<1>5. \A j \in 1..(n + 1) : (j \in 1..n /\ g[j] = f[j]) \/ j = n + 1  OBVIOUS
<1>6. \A j \in 1..(n + 1) : g[j].call = g[i].call => j <= i /\ g[j].kind # "native"
  BY <1>1, <1>3, <1>4, <1>5 DEF Outside
<1>7. g[i].saved = None /\ ~Told(g[i].call, hs2, ss2)  BY <1>1, <1>3, <1>4 DEF Outside
<1>8. QED BY <1>6, <1>7 DEF Outside

LEMMA PopOutside ==
  ASSUME NEW f, NEW g, NEW n \in Nat, \A i \in 1..n : g[i] = f[i], NEW i \in 1..n,
         NEW of, NEW lay, NEW cl, NEW mk, NEW mk2, NEW hs, NEW ss, NEW hs2, NEW ss2,
         f[i].item \in mk /\ f[i].kind = "span" => f[i].item \in mk2,
         WillCount(f[i], of, lay, cl, mk) => Outside(i, f, n + 1, hs, ss),
         f[i].call # f[n + 1].call => (Told(f[i].call, hs2, ss2) => Told(f[i].call, hs, ss)),
         WillCount(g[i], of, lay, cl, mk2)
  PROVE  Outside(i, g, n, hs2, ss2)
<1>1. g[i] = f[i] /\ n + 1 \in 1..(n + 1) /\ ~(n + 1 <= i)  OBVIOUS
<1>2. Outside(i, f, n + 1, hs, ss)  BY <1>1 DEF WillCount
<1>3. f[i].call # f[n + 1].call  BY <1>1, <1>2 DEF Outside
<1>4. \A j \in 1..n : j \in 1..(n + 1) /\ g[j] = f[j]  OBVIOUS
<1>5. \A j \in 1..n : g[j].call = g[i].call => j <= i /\ g[j].kind # "native"
  BY <1>1, <1>2, <1>4, Zenon DEF Outside
<1>6. g[i].saved = None /\ ~Told(g[i].call, hs2, ss2)  BY <1>1, <1>2, <1>3 DEF Outside
<1>7. QED BY <1>5, <1>6 DEF Outside

-----------------------------------------------------------------------------
(* Handles and counted spans.                                               *)
\* The calls of the handles stay, and which spans were counted.
SameCounts(hs, ss, hs2, ss2) ==
  /\ DOMAIN hs2 = DOMAIN hs /\ \A h \in DOMAIN hs : hs2[h].call = hs[h].call
  /\ DOMAIN ss \subseteq DOMAIN ss2
  /\ \A s \in DOMAIN ss : ss2[s].call = ss[s].call
  /\ \A s \in DOMAIN ss2 : ss2[s].state = "counted" => s \in DOMAIN ss /\ ss[s].state = "counted"

LEMMA SameTold ==
  ASSUME NEW hs, NEW ss, NEW hs2, NEW ss2, SameCounts(hs, ss, hs2, ss2), NEW k
  PROVE  /\ Told(k, hs2, ss2) => Told(k, hs, ss)
         /\ Unique(k, hs, ss) => Unique(k, hs2, ss2)
<1>1. Told(k, hs2, ss2) => Told(k, hs, ss)
  BY DEF SameCounts, Told
<1>2. Unique(k, hs, ss) => Unique(k, hs2, ss2)
  BY DEF SameCounts, Unique
<1>3. QED BY <1>1, <1>2

LEMMA NewHandleTold ==
  ASSUME NEW hs, NEW ss, NEW hs2, NEW h, NEW k, NEW c,
         DOMAIN hs2 = DOMAIN hs \cup {h}, h \notin DOMAIN hs, hs2[h].call = c,
         \A g \in DOMAIN hs : hs2[g] = hs[g]
  PROVE  /\ k # c => (Told(k, hs2, ss) => Told(k, hs, ss))
         /\ Unique(k, hs, ss) /\ (k = c => ~Told(k, hs, ss)) => Unique(k, hs2, ss)
<1>1. k # c => (Told(k, hs2, ss) => Told(k, hs, ss))
  BY DEF Told
<1>2. ASSUME Unique(k, hs, ss), k = c => ~Told(k, hs, ss) PROVE Unique(k, hs2, ss)
  <2>1. CASE k # c  BY <1>2, <2>1 DEF Unique
  <2>2. CASE k = c  BY <1>2, <2>2 DEF Unique, Told
  <2>3. QED BY <2>1, <2>2
<1>3. QED BY <1>1, <1>2

LEMMA NewCountTold ==
  ASSUME NEW hs, NEW ss, NEW ss2, NEW s \in DOMAIN ss, NEW k, NEW c,
         DOMAIN ss2 = DOMAIN ss, ss2[s].call = c, ss[s].call = c,
         \A t \in DOMAIN ss : t # s => ss2[t] = ss[t]
  PROVE  /\ k # c => (Told(k, hs, ss2) => Told(k, hs, ss))
         /\ Unique(k, hs, ss) /\ (k = c => ~Told(k, hs, ss)) => Unique(k, hs, ss2)
<1>1. k # c => (Told(k, hs, ss2) => Told(k, hs, ss))
  BY DEF Told
<1>2. ASSUME Unique(k, hs, ss), k = c => ~Told(k, hs, ss) PROVE Unique(k, hs, ss2)
  <2>1. CASE k # c  BY <1>2, <2>1 DEF Unique
  <2>2. CASE k = c  BY <1>2, <2>2 DEF Unique, Told
  <2>3. QED BY <2>1, <2>2
<1>3. QED BY <1>1, <1>2

-----------------------------------------------------------------------------
(* The layers that are still to come, below a span.                         *)
LEMMA LayersBelowSpan ==
  ASSUME NEW todo \in Seq({"native", "span"}), todo # <<>>, Head(todo) = "span"
  PROVE  /\ HasNative(todo) => HasNative(Tail(todo))
         /\ OneSpanOutside(todo) => OneSpanOutside(Tail(todo)) /\ NoSpanOutside(Tail(todo))
         /\ ~NoSpanOutside(todo)
<1>1. PICK n \in Nat : Len(todo) = n + 1
  <2>1. Len(todo) \in Nat /\ Len(todo) # 0  BY LenProperties, EmptySeq
  <2>2. ASSUME NEW l \in Nat, l # 0 PROVE \E n \in Nat : l = n + 1
    <3>1. l - 1 \in Nat /\ l = (l - 1) + 1  BY <2>2
    <3>2. QED BY <3>1
  <2>3. QED BY <2>1, <2>2
<1>2. PICK rest \in Seq({"native", "span"}) : rest = Tail(todo)  BY HeadTailProperties
<1>3. /\ DOMAIN todo = 1..(n + 1) /\ DOMAIN rest = 1..n /\ todo[1] = "span"
      /\ \A i \in 1..n : rest[i] = todo[i + 1]
  <2>1. Len(rest) = n /\ \A i \in 1..n : rest[i] = todo[i + 1]
    BY <1>1, <1>2, HeadTailProperties
  <2>2. todo[1] = "span"  OBVIOUS
  <2>3. QED BY <1>1, <2>1, <2>2, LenProperties
<1>4. ASSUME NEW i \in 1..(n + 1), i # 1 PROVE i - 1 \in 1..n /\ rest[i - 1] = todo[i]
  <2>1. i - 1 \in 1..n /\ (i - 1) + 1 = i  BY <1>4
  <2>2. QED BY <1>3, <2>1
<1>5. HasNative(todo) => HasNative(rest)
  <2>1. SUFFICES ASSUME NEW i \in 1..(n + 1), todo[i] = "native" PROVE HasNative(rest)
    BY <1>3 DEF HasNative
  <2>2. i # 1  BY <1>3, <2>1
  <2>3. QED BY <1>3, <1>4, <2>1, <2>2 DEF HasNative
<1>6. ASSUME OneSpanOutside(todo), NEW j \in 1..n, rest[j] = "span"
      PROVE  \E m \in 1..n : m < j /\ rest[m] = "native"
  <2>1. j + 1 \in 1..(n + 1) /\ 1 \in 1..(n + 1) /\ 1 < j + 1 /\ todo[j + 1] = "span"
    BY <1>3, <1>6
  <2>2. PICK i \in 1..(n + 1) : i < j + 1 /\ todo[i] = "native"
    BY <1>3, <1>6, <2>1 DEF OneSpanOutside
  <2>3. i # 1  BY <1>3, <2>2
  <2>4. i - 1 \in 1..n /\ rest[i - 1] = "native" /\ i - 1 < j  BY <1>4, <2>2, <2>3
  <2>5. QED BY <2>4
<1>7. OneSpanOutside(todo) => OneSpanOutside(rest) /\ NoSpanOutside(rest)
  BY <1>3, <1>6 DEF OneSpanOutside, NoSpanOutside
<1>8. ~NoSpanOutside(todo)
  <2>1. 1 \in DOMAIN todo /\ todo[1] = "span"  BY <1>3
  <2>2. \A m \in DOMAIN todo : ~(m < 1)  BY <1>3
  <2>3. QED BY <2>1, <2>2 DEF NoSpanOutside
<1>9. QED BY <1>2, <1>5, <1>7, <1>8

-----------------------------------------------------------------------------
(* Steps that push a frame.                                                 *)
LEMMA PushPositions ==
  ASSUME TypeOK, Grown, NEW frame \in Frames', stack' = Append(stack, frame)
  PROVE  /\ Len(stack) \in Nat /\ Len(stack') = Len(stack) + 1
         /\ stack'[Len(stack) + 1] = frame /\ \A i \in 1..Len(stack) : stack'[i] = stack[i]
         /\ \A i \in 1..Len(stack) :
              /\ stack[i].call \in DOMAIN calls
              /\ calls'[stack[i].call].client = calls[stack[i].call].client
         /\ stack # <<>> => Len(stack) # 0 /\ Len(stack) \in 1..Len(stack)
                              /\ Top = stack[Len(stack)]
         /\ stack = <<>> => Len(stack) = 0
  BY PushFacts, FrameFacts, EmptySeq DEF Grown, TypeOK, Top

LEMMA PushBlockInv ==
  ASSUME TypeOK, BlockInv, Grown, UNCHANGED <<layers, closed>>, NEW frame \in Frames',
         stack' = Append(stack, frame),
         frame.saved = active, active' = ActiveIn(frame, calls'),
         \/ frame.kind = "send" /\ \A i \in 1..Len(stack) : stack[i].call # frame.call
         \/ stack # <<>> /\ Top.call = frame.call
              /\ (frame.kind = "send" => Top.todo = <<>>),
         frame.kind = "native" =>
           Counting(frame) \/ closed \/ active = calls'[frame.call].client,
         Counting(frame) =>
           \A i \in 1..Len(stack) : stack[i].call = frame.call => stack[i].kind # "native",
         /\ Natively(frame.call, calls', layers) /\ frame.kind # "native"
         /\ \A i \in 1..Len(stack) : stack[i].call = frame.call => stack[i].kind # "native"
         => /\ HasNative(frame.todo) /\ OneSpanOutside(frame.todo)
            /\ frame.kind = "span" => NoSpanOutside(frame.todo)
  PROVE  BlockInv'
<1>1. PICK n \in Nat : n = Len(stack)  BY PushPositions
<1>2. /\ Len(stack') = n + 1 /\ stack'[n + 1] = frame
      /\ \A i \in 1..n : stack'[i] = stack[i]
      /\ \A i \in 1..n : calls'[stack[i].call].client = calls[stack[i].call].client
  BY <1>1, PushPositions
<1>3. \/ frame.kind = "send" /\ \A i \in 1..n : stack[i].call # frame.call
      \/ n # 0 /\ stack[n].call = frame.call /\ (frame.kind = "send" => stack[n].todo = <<>>)
  BY <1>1, PushPositions
<1>4. /\ Contiguous(stack, n) /\ Nesting(stack, n) /\ Layered(stack, n, calls, layers)
      /\ Chained(stack, n, calls, active) /\ UnderNative(stack, n, calls, closed)
      /\ FirstCounts(stack, n)
  BY <1>1 DEF BlockInv
<1>5. Contiguous(stack', n + 1)  BY <1>2, <1>3, <1>4, PushContiguous
<1>6. Nesting(stack', n + 1)
  <2>1. n # 0 /\ frame.kind # "send" => stack[n].call = frame.call  BY <1>3
  <2>2. n # 0 /\ frame.kind = "send" /\ stack[n].call = frame.call => stack[n].todo = <<>>
    <3>1. n # 0 => n \in 1..n  OBVIOUS
    <3>2. QED BY <1>3, <3>1
  <2>3. QED BY <1>2, <1>4, <2>1, <2>2, PushNesting
<1>7. Layered(stack', n + 1, calls', layers)
  <2>1. ASSUME Natively(frame.call, calls', layers), ~Within(n + 1, stack')
        PROVE  /\ HasNative(frame.todo) /\ OneSpanOutside(frame.todo)
               /\ frame.kind = "span" => NoSpanOutside(frame.todo)
    <3>1. n + 1 \in 1..(n + 1) /\ \A i \in 1..n : i \in 1..(n + 1)  OBVIOUS
    <3>2. frame.kind # "native" /\ \A i \in 1..n : stack[i].call = frame.call =>
                                                     stack[i].kind # "native"
      BY <1>2, <2>1, <3>1 DEF Within
    <3>3. QED BY <1>1, <2>1, <3>2
  <2>2. QED BY <1>2, <1>4, <2>1, PushLayered
<1>8. Chained(stack', n + 1, calls', active')
  <2>1. stack'[n + 1].saved = active /\ active' = ActiveIn(stack'[n + 1], calls')  BY <1>2
  <2>2. Chained(stack', n + 1, calls', ActiveIn(stack'[n + 1], calls'))
    BY <1>2, <1>4, <2>1, PushChained
  <2>3. QED BY <2>1, <2>2
<1>9. UnderNative(stack', n + 1, calls', closed)
  <2>1. \/ \A i \in 1..n : stack[i].call # stack'[n + 1].call
        \/ n # 0 /\ stack[n].call = stack'[n + 1].call
    BY <1>2, <1>3
  <2>2. QED BY <1>2, <1>4, <2>1, PushUnderNative
<1>10. FirstCounts(stack', n + 1)  BY <1>1, <1>2, <1>4, PushFirstCounts
<1>11. QED BY <1>2, <1>5, <1>6, <1>7, <1>8, <1>9, <1>10 DEF BlockInv

LEMMA PushOverInv ==
  ASSUME TypeOK, OverInv, Grown, UNCHANGED <<layers, unwinding>>, unwinding = "no",
         NEW frame \in Frames', stack' = Append(stack, frame),
         \A k \in DOMAIN calls :
           \/ Counting(frame) /\ frame.call = k
           \/ Told(k, handles', spans') => Told(k, handles, spans),
         \A k \in DOMAIN calls' \ DOMAIN calls : ~Told(k, handles', spans'),
         frame.call \in DOMAIN calls => stack # <<>> /\ Top.call = frame.call
  PROVE  OverInv'
<1>1. PICK n \in Nat : n = Len(stack)  BY PushPositions
<1>2. /\ Len(stack') = n + 1 /\ stack'[n + 1] = frame /\ \A i \in 1..n : stack'[i] = stack[i]
      /\ frame.call \in DOMAIN calls => n # 0 /\ stack[n].call = frame.call
  BY <1>1, PushPositions
<1>3. ASSUME NEW k \in DOMAIN calls', Natively(k, calls', layers)
      PROVE  OverFor(k, stack', n + 1, "no", handles', spans')
  <2>1. CASE k \in DOMAIN calls
    <3>1. calls'[k].client = calls[k].client  BY <2>1 DEF Grown
    <3>2. Natively(k, calls, layers)  BY <1>3, <3>1, SameLayers
    <3>3. OverFor(k, stack, n, "no", handles, spans)  BY <1>1, <2>1, <3>2 DEF OverInv
    <3>4. frame.call = k => n # 0 /\ stack[n].call = k  BY <1>2, <2>1
    <3>5. \/ Counting(stack'[n + 1]) /\ stack'[n + 1].call = k
          \/ Told(k, handles', spans') => Told(k, handles, spans)
      BY <1>2, <2>1
    <3>6. QED BY <1>2, <3>3, <3>4, <3>5, PushOver
  <2>2. CASE k \notin DOMAIN calls
    <3>1. ~Told(k, handles', spans')  BY <1>3, <2>2
    <3>2. QED BY <3>1 DEF OverFor
  <2>3. QED BY <2>1, <2>2
<1>4. QED BY <1>2, <1>3 DEF OverInv

LEMMA PushOutsideInv ==
  ASSUME TypeOK, BlockInv, OutsideInv, SpanCallInv, Grown, UNCHANGED <<layers, closed>>,
         NEW frame \in Frames', stack' = Append(stack, frame), marked \subseteq marked',
         \A s \in DOMAIN spans : spans'[s].call = spans[s].call, StackInv,
         \A k \in DOMAIN calls : k # frame.call =>
           (Told(k, handles', spans') => Told(k, handles, spans)),
         \/ \A i \in 1..Len(stack) : stack[i].call # frame.call
         \/ /\ stack # <<>> /\ Top.call = frame.call
            /\ WillCount(Top, calls', layers, closed, marked') =>
                 ~Outside(Len(stack), stack, Len(stack), handles, spans),
         frame.kind = "span" => spans'[frame.item].call = frame.call,
         WillCount(frame, calls', layers, closed, marked') =>
           Outside(Len(stack) + 1, stack', Len(stack) + 1, handles', spans')
  PROVE  OutsideInv' /\ SpanCallInv'
<1>1. PICK n \in Nat : n = Len(stack)  BY PushPositions
<1>2. /\ Len(stack') = n + 1 /\ stack'[n + 1] = frame /\ \A i \in 1..n : stack'[i] = stack[i]
      /\ \A i \in 1..n : /\ stack[i].call \in DOMAIN calls
                         /\ calls'[stack[i].call].client = calls[stack[i].call].client
  BY <1>1, PushPositions
<1>3. \A i \in 1..(n + 1) : i \in 1..n \/ i = n + 1  OBVIOUS
<1>4. SpanCallInv'
  <2>1. ASSUME NEW i \in 1..n, stack[i].kind = "span"
        PROVE  spans'[stack[i].item].call = stack[i].call
    <3>1. stack[i].item \in DOMAIN spans  BY <1>1, <2>1 DEF StackInv, ItemInv
    <3>2. QED BY <1>1, <2>1, <3>1 DEF SpanCallInv
  <2>2. QED BY <1>2, <1>3, <2>1 DEF SpanCallInv
<1>5. ASSUME NEW i \in 1..n, WillCount(stack'[i], calls', layers, closed, marked')
      PROVE  Outside(i, stack', n + 1, handles', spans')
  <2>1. Contiguous(stack, n)  BY <1>1 DEF BlockInv
  <2>2. WillCount(stack[i], calls, layers, closed, marked) =>
          Outside(i, stack, n, handles, spans)
    BY <1>1 DEF OutsideInv
  <2>3. stack[i].call # stack'[n + 1].call =>
          (Told(stack[i].call, handles', spans') => Told(stack[i].call, handles, spans))
    BY <1>2
  <2>4. ASSUME stack[i].call = stack'[n + 1].call
        PROVE  stack[n].call = stack'[n + 1].call
               /\ (i = n => ~Outside(n, stack, n, handles, spans))
    <3>1. stack # <<>> /\ Top = stack[n]  BY <1>1, <1>2, <2>4, PushPositions
    <3>2. /\ Top.call = frame.call
          /\ WillCount(Top, calls', layers, closed, marked') =>
               ~Outside(n, stack, n, handles, spans)
      BY <1>1, <1>2, <2>4
    <3>3. i = n => stack'[i] = Top  BY <1>2, <3>1
    <3>4. QED BY <1>2, <1>5, <3>1, <3>2, <3>3
  <2>5. calls'[stack[i].call].client = calls[stack[i].call].client  BY <1>2
  <2>6. QED BY <1>2, <1>5, <2>1, <2>2, <2>3, <2>4, <2>5, PushOutside
<1>6. \A i \in 1..(n + 1) : WillCount(stack'[i], calls', layers, closed, marked') =>
        Outside(i, stack', n + 1, handles', spans')
  BY <1>1, <1>2, <1>3, <1>5
<1>7. QED BY <1>2, <1>4, <1>6 DEF OutsideInv

-----------------------------------------------------------------------------
(* Each step keeps what is known of how calls are counted.                  *)
LEMMA TypedCalls ==
  ASSUME TypeOK
  PROVE  /\ \A h \in DOMAIN handles : handles[h].call \in DOMAIN calls
         /\ \A s \in DOMAIN spans : spans[s].call \in DOMAIN calls
<1> DEFINE Handle == [call : DOMAIN calls, state : {"pending", "status", "failed"},
                      stream : {"none", "open", "closed"}]
           Span == [call : DOMAIN calls, state : {"live", "counted", "skipped", "late"}]
<1>1. handles \in Seq(Handle) /\ spans \in Seq(Span)  BY DEF TypeOK
<1>2. (\A h \in DOMAIN handles : handles[h] \in Handle) /\ \A s \in DOMAIN spans : spans[s] \in Span
  <2> HIDE DEF Handle, Span
  <2>1. DOMAIN handles = 1..Len(handles) /\ DOMAIN spans = 1..Len(spans)
    BY <1>1, LenProperties
  <2>2. QED BY <1>1, <2>1, ElementOfSeq
<1>3. QED BY <1>2

LEMMA UniqueKept ==
  ASSUME UniqueInv, UNCHANGED layers,
         \A k \in DOMAIN calls : calls'[k].client = calls[k].client,
         \A k \in DOMAIN calls' \ DOMAIN calls : ~Told(k, handles', spans'),
         \A k \in DOMAIN calls : Natively(k, calls, layers) /\ Unique(k, handles, spans) =>
                                   Unique(k, handles', spans')
  PROVE  UniqueInv'
<1>1. ASSUME NEW k \in DOMAIN calls', Natively(k, calls', layers)
      PROVE  Unique(k, handles', spans')
  <2>1. CASE k \in DOMAIN calls
    <3>1. Natively(k, calls, layers)  BY <1>1, <2>1, SameLayers
    <3>2. QED BY <2>1, <3>1 DEF UniqueInv
  <2>2. CASE k \notin DOMAIN calls
    <3>1. ~Told(k, handles', spans')  BY <1>1, <2>2
    <3>2. QED BY <3>1 DEF Told, Unique
  <2>3. QED BY <2>1, <2>2
<1>2. QED BY <1>1 DEF UniqueInv

\* Where no client is active that a call could be a part of, it is not counted yet.
LEMMA CountsOnlyOnce ==
  ASSUME CallsInv, OnceInv, stack # <<>>, unwinding = "no", ~closed,
         active # calls[Top.call].client
  PROVE  /\ \A i \in 1..Len(stack) : stack[i].call = Top.call => stack[i].kind # "native"
         /\ Natively(Top.call, calls, layers) => ~Told(Top.call, handles, spans)
<1>0. Len(stack) \in Nat  BY FrameFacts DEF CallsInv
<1>1. PICK n \in Nat : n = Len(stack)  BY <1>0
<1>2. n \in 1..n /\ n # 0 /\ Top = stack[n] /\ Top.call \in DOMAIN calls
  BY <1>1, TopFacts DEF CallsInv
<1>3. ActiveIn(stack[n], calls) # calls[stack[n].call].client
  BY <1>1, <1>2 DEF OnceInv, BlockInv, Chained
<1>4. ASSUME NEW i \in 1..n, stack[i].call = Top.call, stack[i].kind = "native"
      PROVE  FALSE
  <2>1. i <= n /\ UnderNative(stack, n, calls, closed)  BY <1>1 DEF OnceInv, BlockInv
  <2>2. QED BY <1>2, <1>3, <1>4, <2>1 DEF UnderNative
<1>5. ASSUME Natively(Top.call, calls, layers), Told(Top.call, handles, spans)
      PROVE  FALSE
  <2>1. OverFor(Top.call, stack, n, unwinding, handles, spans)
    BY <1>1, <1>2, <1>5 DEF OnceInv, OverInv
  <2>2. QED BY <1>2, <1>4, <1>5, <2>1 DEF OverFor, Counting
<1>6. QED BY <1>1, <1>4, <1>5

\* The layers of the top frame that are to come, where it is outside of its call's wrapper.
LEMMA BareTop ==
  ASSUME TypeOK, BlockInv, stack # <<>>, Natively(Top.call, calls, layers),
         \/ Outside(Len(stack), stack, Len(stack), handles, spans)
         \/ \A i \in 1..Len(stack) : stack[i].call = Top.call => stack[i].kind # "native"
  PROVE  /\ HasNative(Top.todo) /\ OneSpanOutside(Top.todo)
         /\ Top.kind = "span" => NoSpanOutside(Top.todo)
<1>0. Len(stack) \in Nat  BY FrameFacts
<1>1. PICK n \in Nat : n = Len(stack)  BY <1>0
<1>2. n \in 1..n /\ Top = stack[n]  BY <1>1, TopFacts
<1>3. \A i \in 1..n : stack[i].call = stack[n].call => stack[i].kind # "native"
  BY <1>1, <1>2 DEF Outside
<1>4. ~Within(n, stack)  BY <1>3 DEF Within
<1>5. QED BY <1>1, <1>2, <1>4 DEF BlockInv, Layered

LEMMA SendOnce == ASSUME CallsInv, OnceInv, NEW c \in Clients, Send(c) PROVE OnceInv'
<1> DEFINE k == Len(calls) + 1
           nested == \E i \in DOMAIN stack : calls[stack[i].call].client = c
           call == [client |-> c, open |-> FALSE, nested |-> nested]
<1>1. PICK frame : frame = [kind |-> "send", call |-> k, todo |-> layers[c], item |-> 0,
                            saved |-> active]
  OBVIOUS
<1>2. /\ stack' = Append(stack, frame) /\ calls' = Append(calls, call) /\ unwinding = "no"
      /\ UNCHANGED <<layers, unwinding, active, handles, spans, marked, closed>>
  BY <1>1 DEF Send, Push
<1>3. TypeOK /\ StackInv /\ BlockInv /\ OverInv /\ OutsideInv /\ SpanCallInv /\ UniqueInv
  BY DEF CallsInv, OnceInv
<1>4. /\ DOMAIN calls' = DOMAIN calls \cup {k} /\ k \notin DOMAIN calls /\ calls'[k].client = c
      /\ \A j \in DOMAIN calls : calls'[j] = calls[j]
      /\ calls' \in Seq([client : Clients, open : BOOLEAN, nested : BOOLEAN])
  <2>1. /\ calls \in Seq([client : Clients, open : BOOLEAN, nested : BOOLEAN])
        /\ Len(calls) \in Nat /\ DOMAIN calls = 1..Len(calls)
    BY <1>3, LenProperties DEF TypeOK
  <2>2. QED BY <1>2, <2>1
<1>5. Grown  BY <1>2, <1>4 DEF Grown
<1>6. /\ layers[c] \in Seq({"native", "span"}) /\ OneSpanOutside(layers[c])
  BY <1>3, HttpCallsAssumption DEF HttpCallsAssumption, TypeOK
<1>7. /\ frame.kind = "send" /\ frame.call = k /\ frame.todo = layers[c]
      /\ frame.saved = active /\ ~Counting(frame)
  BY <1>1 DEF Counting
<1>8. frame \in Frames'
  <2>1. active \in Clients \cup {None}  BY <1>3 DEF TypeOK
  <2>2. QED BY <1>1, <1>4, <1>6, <2>1 DEF Frames
<1>9. ~Told(k, handles, spans)  BY <1>3, <1>4, TypedCalls DEF Told
<1>10. \A i \in 1..Len(stack) : stack[i].call # k  BY <1>3, <1>4, FrameFacts
<1> HIDE DEF k, call
<1>11. BlockInv'
  <2>1. active' = ActiveIn(frame, calls')  BY <1>2, <1>7 DEF ActiveIn
  <2>2. Natively(frame.call, calls', layers) => HasNative(frame.todo)
    BY <1>4, <1>7 DEF Natively, HasNative
  <2>3. QED BY <1>2, <1>3, <1>5, <1>6, <1>7, <1>8, <1>10, <2>1, <2>2, PushBlockInv
<1>12. OverInv'
  BY <1>2, <1>3, <1>4, <1>5, <1>7, <1>8, <1>9, PushOverInv
<1>13. OutsideInv' /\ SpanCallInv'
  <2>1. ~WillCount(frame, calls', layers, closed, marked')  BY <1>7 DEF WillCount
  <2>2. QED BY <1>2, <1>3, <1>5, <1>7, <1>8, <1>10, <2>1, PushOutsideInv
<1>14. UniqueInv'  BY <1>2, <1>3, <1>4, <1>9, UniqueKept
<1>15. QED BY <1>11, <1>12, <1>13, <1>14 DEF OnceInv

LEMMA RedirectOnce == ASSUME CallsInv, OnceInv, Redirect PROVE OnceInv'
<1>1. PICK frame : frame = [kind |-> "send", call |-> Top.call,
                            todo |-> layers[calls[Top.call].client], item |-> 0,
                            saved |-> active]
  OBVIOUS
<1>2. /\ stack # <<>> /\ unwinding = "no" /\ Top.todo = <<>> /\ stack' = Append(stack, frame)
      /\ UNCHANGED <<layers, unwinding, active, calls, handles, spans, marked, closed>>
  BY <1>1 DEF Redirect, Running, Push
<1>3. TypeOK /\ StackInv /\ BlockInv /\ OverInv /\ OutsideInv /\ SpanCallInv /\ UniqueInv
  BY DEF CallsInv, OnceInv
<1>4. Grown  BY <1>2 DEF Grown
<1>5. /\ layers[calls[Top.call].client] \in Seq({"native", "span"})
      /\ OneSpanOutside(layers[calls[Top.call].client])
  BY <1>2, <1>3, TopFacts, HttpCallsAssumption DEF HttpCallsAssumption, TypeOK
<1>6. /\ frame.kind = "send" /\ frame.call = Top.call /\ frame.saved = active
      /\ frame.todo = layers[calls[Top.call].client] /\ ~Counting(frame)
  BY <1>1 DEF Counting
<1>7. frame \in Frames'
  <2>1. active \in Clients \cup {None} /\ Top.call \in DOMAIN calls
    BY <1>2, <1>3, TopFacts DEF TypeOK
  <2>2. QED BY <1>1, <1>2, <1>5, <2>1 DEF Frames
<1>8. BlockInv'
  <2>1. active' = ActiveIn(frame, calls')  BY <1>2, <1>6 DEF ActiveIn
  <2>2. Natively(frame.call, calls', layers) => HasNative(frame.todo)
    BY <1>2, <1>6 DEF Natively, HasNative
  <2>3. QED BY <1>2, <1>3, <1>4, <1>5, <1>6, <1>7, <2>1, <2>2, PushBlockInv
<1>9. OverInv'  BY <1>2, <1>3, <1>4, <1>6, <1>7, PushOverInv
<1>10. OutsideInv' /\ SpanCallInv'
  <2>1. ~WillCount(frame, calls', layers, closed, marked')  BY <1>6 DEF WillCount
  <2>2. ASSUME WillCount(Top, calls', layers, closed, marked'),
               Outside(Len(stack), stack, Len(stack), handles, spans)
        PROVE  FALSE
    <3>1. HasNative(Top.todo)  BY <1>2, <1>3, <2>2, BareTop DEF WillCount
    <3>2. DOMAIN <<>> = {}  OBVIOUS
    <3>3. QED BY <1>2, <3>1, <3>2 DEF HasNative
  <2>3. QED BY <1>2, <1>3, <1>4, <1>6, <1>7, <2>1, <2>2, PushOutsideInv
<1>11. UniqueInv'  BY <1>2, <1>3, UniqueKept
<1>12. QED BY <1>8, <1>9, <1>10, <1>11 DEF OnceInv

LEMMA TopSpanIsCurrent ==
  ASSUME TypeOK, stack # <<>>, Top.kind = "span"
  PROVE  Top.item \in CurrentSpan
<1>1. /\ Len(stack) \in Nat /\ DOMAIN stack = 1..Len(stack)
      /\ Len(stack) \in 1..Len(stack) /\ Top = stack[Len(stack)]
  BY FrameFacts, TopFacts
<1>2. \A n \in DOMAIN stack : n <= Len(stack)  BY <1>1
<1>3. QED BY <1>1, <1>2 DEF CurrentSpan

LEMMA EnterNativeOnce == ASSUME CallsInv, OnceInv, EnterNative PROVE OnceInv'
<1> DEFINE c == calls[Top.call].client
<1>1. PICK frame, h, handle :
        /\ h = Len(handles) + 1
        /\ handle = [call |-> Top.call, state |-> "pending", stream |-> "none"]
        /\ frame = [kind |-> "native", call |-> Top.call, todo |-> Tail(Top.todo),
                    item |-> IF closed \/ active = c THEN 0 ELSE h, saved |-> active]
  OBVIOUS
<1>2. /\ stack # <<>> /\ unwinding = "no" /\ Top.todo # <<>> /\ stack' = Append(stack, frame)
      /\ UNCHANGED <<layers, unwinding, spans, closed>>
  BY <1>1 DEF EnterNative, Running, PassesThrough, Push
<1>3. TypeOK /\ StackInv /\ BlockInv /\ OverInv /\ OutsideInv /\ SpanCallInv /\ UniqueInv
  BY DEF CallsInv, OnceInv
<1>4. /\ DOMAIN calls' = DOMAIN calls
      /\ \A k \in DOMAIN calls : /\ calls'[k].client = calls[k].client
                                 /\ calls'[k].nested = calls[k].nested
  BY <1>3, EnterNativeCalls
<1>5. /\ Top.call \in DOMAIN calls /\ c \in Clients /\ c # None
      /\ Tail(Top.todo) \in Seq({"native", "span"})
  BY <1>2, <1>3, TopFacts, HttpCallsAssumption, HeadTailProperties DEF HttpCallsAssumption
<1>6. /\ h \in Nat /\ h # 0 /\ h \notin DOMAIN handles
  <2>1. Len(handles) \in Nat /\ DOMAIN handles = 1..Len(handles)
    BY <1>3, LenProperties DEF TypeOK
  <2>2. QED BY <1>1, <2>1
<1>7. /\ frame.kind = "native" /\ frame.call = Top.call /\ frame.saved = active
      /\ Counting(frame) <=> ~closed /\ active # c
  BY <1>1, <1>6 DEF Counting
<1>8. frame \in Frames'
  <2>1. active \in Clients \cup {None}  BY <1>3 DEF TypeOK
  <2>2. Top.call \in DOMAIN calls'  BY <1>4, <1>5
  <2>3. (IF closed \/ active = c THEN 0 ELSE h) \in Nat  BY <1>6
  <2> HIDE DEF c
  <2>4. QED BY <1>1, <1>5, <2>1, <2>2, <2>3 DEF Frames
<1>9. CASE closed \/ active = c
  <2>1. UNCHANGED <<active, handles, marked>>  BY <1>9 DEF EnterNative, PassesThrough
  <2>2. Grown  BY <1>2, <1>4, <2>1 DEF Grown
  <2>3. BlockInv'
    <3>1. active' = ActiveIn(frame, calls')  BY <1>7, <1>9, <2>1 DEF ActiveIn
    <3>2. closed \/ active = calls'[frame.call].client  BY <1>4, <1>5, <1>7, <1>9
    <3>3. QED BY <1>2, <1>3, <1>7, <1>8, <1>9, <2>2, <3>1, <3>2, PushBlockInv
  <2>4. OverInv'  BY <1>2, <1>3, <1>4, <1>7, <1>8, <2>1, <2>2, PushOverInv
  <2>5. OutsideInv' /\ SpanCallInv'
    <3>1. ~WillCount(frame, calls', layers, closed, marked')  BY <1>7 DEF WillCount
    <3>2. ASSUME WillCount(Top, calls', layers, closed, marked'),
                 Outside(Len(stack), stack, Len(stack), handles, spans)
          PROVE  FALSE
      <4>1. active = c /\ Top.kind = "span"  BY <1>9, <3>2 DEF WillCount
      <4>2. Top = stack[Len(stack)] /\ Len(stack) # 0  BY <1>2, <1>3, TopFacts, FrameFacts
      <4>3. active = ActiveIn(Top, calls) /\ Top.saved = None
        BY <1>3, <3>2, <4>2 DEF BlockInv, Chained, Outside
      <4>4. QED BY <1>5, <4>1, <4>3 DEF ActiveIn, Counting
    <3>3. QED BY <1>2, <1>3, <1>7, <1>8, <2>1, <2>2, <3>1, <3>2, PushOutsideInv
  <2>6. UniqueInv'  BY <1>2, <1>3, <1>4, <2>1, UniqueKept
  <2>7. QED BY <2>3, <2>4, <2>5, <2>6 DEF OnceInv
<1>10. CASE ~closed /\ active # c
  <2>1. /\ active' = c /\ handles' = Append(handles, handle)
        /\ marked' = marked \cup CurrentSpan
    BY <1>1, <1>10 DEF EnterNative, PassesThrough
  <2>2. /\ DOMAIN handles' = DOMAIN handles \cup {h} /\ handles'[h].call = Top.call
        /\ \A g \in DOMAIN handles : handles'[g] = handles[g]
    <3>1. handles \in Seq([call : DOMAIN calls, state : {"pending", "status", "failed"},
                           stream : {"none", "open", "closed"}])
      BY <1>3 DEF TypeOK
    <3>2. handle \in [call : DOMAIN calls, state : {"pending", "status", "failed"},
                      stream : {"none", "open", "closed"}]
      BY <1>1, <1>5
    <3>3. handles'[h] = handle /\ handle.call = Top.call
          /\ DOMAIN handles' = DOMAIN handles \cup {h}
          /\ \A g \in DOMAIN handles : handles'[g] = handles[g]
      BY <1>1, <1>6, <2>1, <3>1, <3>2
    <3>4. QED BY <3>3
  <2>3. Grown  BY <1>2, <1>4, <2>2 DEF Grown
  <2>4. /\ \A i \in 1..Len(stack) : stack[i].call = Top.call => stack[i].kind # "native"
        /\ Natively(Top.call, calls, layers) => ~Told(Top.call, handles, spans)
    BY <1>2, <1>10, CountsOnlyOnce
  <2>5. BlockInv'
    <3>1. active' = ActiveIn(frame, calls')  BY <1>4, <1>5, <1>7, <1>10, <2>1 DEF ActiveIn
    <3>2. QED BY <1>2, <1>3, <1>7, <1>8, <1>10, <2>3, <2>4, <3>1, PushBlockInv
  <2>6. \A k \in DOMAIN calls :
          /\ k # Top.call => (Told(k, handles', spans) => Told(k, handles, spans))
          /\ Unique(k, handles, spans) /\ (k = Top.call => ~Told(k, handles, spans)) =>
               Unique(k, handles', spans)
    BY <1>6, <2>2, NewHandleTold
  <2>7. OverInv'
    <3>1. \A k \in DOMAIN calls : \/ Counting(frame) /\ frame.call = k
                                  \/ Told(k, handles', spans') => Told(k, handles, spans)
      BY <1>2, <1>7, <1>10, <2>6
    <3>2. QED BY <1>2, <1>3, <1>4, <1>7, <1>8, <2>3, <3>1, PushOverInv
  <2>8. OutsideInv' /\ SpanCallInv'
    <3>1. ~WillCount(frame, calls', layers, closed, marked')  BY <1>7 DEF WillCount
    <3>2. ~WillCount(Top, calls', layers, closed, marked')
      BY <1>2, <1>3, <2>1, TopSpanIsCurrent DEF WillCount
    <3>3. marked \subseteq marked'  BY <2>1
    <3>4. \A k \in DOMAIN calls : k # frame.call =>
            (Told(k, handles', spans') => Told(k, handles, spans))
      BY <1>2, <1>7, <2>6
    <3>5. QED BY <1>2, <1>3, <1>7, <1>8, <2>3, <3>1, <3>2, <3>3, <3>4, PushOutsideInv
  <2>9. UniqueInv'
    <3>1. \A k \in DOMAIN calls : Natively(k, calls, layers) /\ Unique(k, handles, spans) =>
                                    Unique(k, handles', spans')
      BY <1>2, <2>4, <2>6
    <3>2. QED BY <1>2, <1>3, <1>4, <3>1, UniqueKept
  <2>10. QED BY <2>5, <2>7, <2>8, <2>9 DEF OnceInv
<1>11. QED BY <1>9, <1>10

LEMMA EnterSpanOnce == ASSUME CallsInv, OnceInv, EnterSpan PROVE OnceInv'
<1>1. PICK frame, s, span :
        /\ s = Len(spans) + 1 /\ span = [call |-> Top.call, state |-> "live"]
        /\ frame = [kind |-> "span", call |-> Top.call, todo |-> Tail(Top.todo),
                    item |-> s, saved |-> active]
  OBVIOUS
<1>2. /\ stack # <<>> /\ unwinding = "no" /\ Top.todo # <<>> /\ Head(Top.todo) = "span"
      /\ stack' = Append(stack, frame) /\ spans' = Append(spans, span)
      /\ marked' = IF ~closed /\ active # None THEN marked \cup {s} ELSE marked
      /\ UNCHANGED <<layers, unwinding, active, calls, handles, closed>>
  BY <1>1 DEF EnterSpan, Running, Push
<1>3. TypeOK /\ StackInv /\ BlockInv /\ OverInv /\ OutsideInv /\ SpanCallInv /\ UniqueInv
  BY DEF CallsInv, OnceInv
<1>4. /\ Top.call \in DOMAIN calls /\ calls[Top.call].client # None
      /\ Top.todo \in Seq({"native", "span"}) /\ Tail(Top.todo) \in Seq({"native", "span"})
  BY <1>2, <1>3, TopFacts, HttpCallsAssumption, HeadTailProperties DEF HttpCallsAssumption
<1>5. /\ s \in Nat /\ s \notin DOMAIN spans /\ DOMAIN spans' = DOMAIN spans \cup {s}
      /\ spans'[s] = span /\ \A t \in DOMAIN spans : spans'[t] = spans[t]
  <2>1. Len(spans) \in Nat /\ DOMAIN spans = 1..Len(spans)
    BY <1>3, LenProperties DEF TypeOK
  <2>2. spans \in Seq([call : DOMAIN calls, state : {"live", "counted", "skipped", "late"}])
    BY <1>3 DEF TypeOK
  <2>3. span \in [call : DOMAIN calls, state : {"live", "counted", "skipped", "late"}]
    BY <1>1, <1>4
  <2>4. QED BY <1>1, <1>2, <2>1, <2>2, <2>3
<1>6. Grown  BY <1>2, <1>5 DEF Grown
<1>7. /\ frame.kind = "span" /\ frame.call = Top.call /\ frame.saved = active
      /\ frame.item = s /\ frame.todo = Tail(Top.todo) /\ ~Counting(frame)
  BY <1>1 DEF Counting
<1>8. frame \in Frames'
  <2>1. active \in Clients \cup {None}  BY <1>3 DEF TypeOK
  <2>2. QED BY <1>1, <1>2, <1>4, <1>5, <2>1 DEF Frames
<1>9. SameCounts(handles, spans, handles', spans')
  <2>1. span.call = Top.call /\ span.state = "live"  BY <1>1
  <2>2. QED BY <1>2, <1>5, <2>1 DEF SameCounts
<1>10. \A k : /\ Told(k, handles', spans') => Told(k, handles, spans)
              /\ Unique(k, handles, spans) => Unique(k, handles', spans')
  BY <1>9, SameTold
<1>11. BlockInv'
  <2>1. active' = ActiveIn(frame, calls')  BY <1>2, <1>7 DEF ActiveIn
  <2>2. ASSUME Natively(frame.call, calls', layers),
               \A i \in 1..Len(stack) : stack[i].call = frame.call => stack[i].kind # "native"
        PROVE  HasNative(frame.todo) /\ OneSpanOutside(frame.todo) /\ NoSpanOutside(frame.todo)
    <3>1. HasNative(Top.todo) /\ OneSpanOutside(Top.todo)
      BY <1>2, <1>3, <1>7, <2>2, BareTop
    <3>2. QED BY <1>2, <1>4, <1>7, <3>1, LayersBelowSpan
  <2>3. QED BY <1>2, <1>3, <1>6, <1>7, <1>8, <2>1, <2>2, PushBlockInv
<1>12. OverInv'
  <2>1. \A k \in DOMAIN calls' \ DOMAIN calls : ~Told(k, handles', spans')  BY <1>2
  <2>2. QED BY <1>2, <1>3, <1>6, <1>7, <1>8, <1>10, <2>1, PushOverInv
<1>13. OutsideInv' /\ SpanCallInv'
  <2>1. ASSUME WillCount(frame, calls', layers, closed, marked')
        PROVE  Outside(Len(stack) + 1, stack', Len(stack) + 1, handles', spans')
    <3>1. ~closed /\ active = None /\ Natively(Top.call, calls, layers)
      BY <1>2, <1>7, <2>1 DEF WillCount
    <3>2. /\ \A i \in 1..Len(stack) : stack[i].call = Top.call => stack[i].kind # "native"
          /\ ~Told(Top.call, handles, spans)
      BY <1>2, <1>4, <3>1, CountsOnlyOnce
    <3>3. /\ Len(stack) \in Nat /\ stack'[Len(stack) + 1] = frame
          /\ \A i \in 1..Len(stack) : stack'[i] = stack[i]
      BY <1>2, <1>3, <1>6, <1>8, PushPositions
    <3>4. \A i \in 1..(Len(stack) + 1) : /\ i <= Len(stack) + 1
                                         /\ i \in 1..Len(stack) \/ i = Len(stack) + 1
      BY <3>3
    <3>5. \A i \in 1..(Len(stack) + 1) : stack'[i].call = Top.call => stack'[i].kind # "native"
      BY <1>7, <3>2, <3>3, <3>4
    <3>6. frame.saved = None /\ ~Told(frame.call, handles', spans')
      BY <1>7, <1>10, <3>1, <3>2
    <3>7. QED BY <1>7, <3>3, <3>4, <3>5, <3>6 DEF Outside
  <2>2. ASSUME WillCount(Top, calls', layers, closed, marked'),
               Outside(Len(stack), stack, Len(stack), handles, spans)
        PROVE  FALSE
    <3>1. NoSpanOutside(Top.todo)  BY <1>2, <1>3, <2>2, BareTop DEF WillCount
    <3>2. QED BY <1>2, <1>4, <3>1, LayersBelowSpan
  <2>3. marked \subseteq marked'  BY <1>2
  <2>4. /\ \A t \in DOMAIN spans : spans'[t].call = spans[t].call
        /\ spans'[frame.item].call = frame.call
    BY <1>1, <1>5, <1>7
  <2>5. QED
    BY <1>2, <1>3, <1>6, <1>7, <1>8, <1>10, <2>1, <2>2, <2>3, <2>4, PushOutsideInv
<1>14. UniqueInv'
  <2>1. \A k \in DOMAIN calls' \ DOMAIN calls : ~Told(k, handles', spans')  BY <1>2
  <2>2. QED BY <1>2, <1>3, <1>10, <2>1, UniqueKept
<1>15. QED BY <1>11, <1>12, <1>13, <1>14 DEF OnceInv

\* A step that leaves the stack and the counts as they are.
LEMMA StayOnce ==
  ASSUME CallsInv, OnceInv, UNCHANGED <<layers, stack, active, calls, spans>>,
         DOMAIN handles' = DOMAIN handles,
         \A h \in DOMAIN handles : handles'[h].call = handles[h].call,
         (closed' = closed /\ marked' = marked) \/ closed' = TRUE,
         unwinding # "no" => unwinding' # "no"
  PROVE  OnceInv'
<1>1. TypeOK /\ BlockInv /\ OverInv /\ OutsideInv /\ SpanCallInv /\ UniqueInv
  BY DEF CallsInv, OnceInv
<1>2. SameCounts(handles, spans, handles', spans')  BY DEF SameCounts
<1>3. \A k : /\ Told(k, handles', spans') => Told(k, handles, spans)
             /\ Unique(k, handles, spans) => Unique(k, handles', spans')
  BY <1>2, SameTold
<1>4. BlockInv'
  <2>1. UnderNative(stack, Len(stack), calls, closed')
    <3>1. closed' = closed \/ closed' = TRUE  OBVIOUS
    <3>2. QED BY <1>1, <3>1 DEF BlockInv, UnderNative
  <2>2. QED BY <1>1, <2>1 DEF BlockInv
<1>5. OverInv'
  <2>1. ASSUME NEW k \in DOMAIN calls, Natively(k, calls, layers)
        PROVE  OverFor(k, stack, Len(stack), unwinding', handles', spans')
    <3>1. OverFor(k, stack, Len(stack), unwinding, handles, spans)  BY <1>1, <2>1 DEF OverInv
    <3>2. QED BY <1>3, <3>1, Zenon DEF OverFor
  <2>2. QED BY <2>1 DEF OverInv
<1>6. OutsideInv'
  <2>1. ASSUME NEW i \in 1..Len(stack), WillCount(stack[i], calls, layers, closed', marked')
        PROVE  Outside(i, stack, Len(stack), handles', spans')
    <3>1. WillCount(stack[i], calls, layers, closed, marked)  BY <2>1 DEF WillCount
    <3>2. Outside(i, stack, Len(stack), handles, spans)  BY <1>1, <3>1 DEF OutsideInv
    <3>3. QED BY <1>3, <3>2, Zenon DEF Outside
  <2>2. QED BY <2>1 DEF OutsideInv
<1>7. SpanCallInv'  BY <1>1 DEF SpanCallInv
<1>8. UniqueInv'  BY <1>1, <1>3, UniqueKept
<1>9. QED BY <1>4, <1>5, <1>6, <1>7, <1>8 DEF OnceInv

LEMMA AnswerOnce == ASSUME CallsInv, OnceInv, Answer PROVE OnceInv'
<1>1. /\ unwinding = "no"
      /\ UNCHANGED <<layers, stack, active, calls, handles, spans, marked, closed>>
  BY DEF Answer, Running
<1>2. QED BY <1>1, StayOnce

LEMMA StreamEndsOnce ==
  ASSUME CallsInv, OnceInv, NEW h \in DOMAIN handles, StreamEnds(h)
  PROVE  OnceInv'
<1>1. PICK outcome \in {"status", "failed"}, stream \in {"open", "closed"} :
        Finish(h, outcome, stream)
  BY DEF StreamEnds
<1>2. UNCHANGED <<layers, stack, unwinding, active, calls, spans, marked, closed>>
  BY DEF StreamEnds
<1>3. /\ DOMAIN handles' = DOMAIN handles
      /\ \A g \in DOMAIN handles : handles'[g].call = handles[g].call
  BY <1>1, FinishFacts DEF CallsInv
<1>4. QED BY <1>2, <1>3, StayOnce

LEMMA CloseOnce == ASSUME CallsInv, OnceInv, Close PROVE OnceInv'
<1>1. closed' = TRUE /\ UNCHANGED <<layers, stack, unwinding, active, calls, handles, spans>>
  BY DEF Close
<1>2. QED BY <1>1, StayOnce

\* A step that leaves the top frame: a span's is where its call may be counted.
LEMMA PopOnce ==
  ASSUME CallsInv, OnceInv, stack # <<>>, unwinding # "no", stack' = Pop,
         UNCHANGED <<layers, calls, closed>>,
         active' = IF Counting(Top) THEN Top.saved ELSE active,
         Top.kind # "send" => unwinding' = unwinding,
         \A s \in DOMAIN spans : spans'[s].call = spans[s].call,
         \A s \in marked : s \in marked' \/ (Top.kind = "span" /\ s = Top.item),
         \A k \in DOMAIN calls : Natively(k, calls, layers) =>
           /\ Told(k, handles', spans') =>
                \/ Told(k, handles, spans)
                \/ /\ Top.kind = "span" /\ Top.call = k
                   /\ \A j \in 1..Len(stack) : stack[j].call = k => stack[j].kind # "native"
           /\ Unique(k, handles, spans) => Unique(k, handles', spans'),
         \A k \in DOMAIN calls : k # Top.call =>
           (Told(k, handles', spans') => Told(k, handles, spans))
  PROVE  OnceInv'
<1>1. TypeOK /\ StackInv /\ BlockInv /\ OverInv /\ OutsideInv /\ SpanCallInv /\ UniqueInv
  BY DEF CallsInv, OnceInv
<1>2. Len(stack) \in Nat /\ Len(stack) >= 1 /\ Len(stack') = Len(stack) - 1
      /\ \A i \in 1..Len(stack') : stack'[i] = stack[i]
  BY <1>1, PopFacts
<1>3. PICK n \in Nat : n = Len(stack) - 1  BY <1>2
<1>4. /\ Len(stack) = n + 1 /\ Len(stack') = n /\ Top = stack[n + 1]
      /\ \A i \in 1..n : stack'[i] = stack[i] /\ i \in 1..(n + 1) /\ i # n + 1
      /\ n + 1 \in 1..(n + 1)
  BY <1>2, <1>3 DEF Top
<1>5. Top.kind # "send" => n # 0  BY <1>1, <1>4 DEF StackInv, BaseInv
<1>6. /\ Contiguous(stack, n + 1) /\ Nesting(stack, n + 1) /\ Layered(stack, n + 1, calls, layers)
      /\ Chained(stack, n + 1, calls, active) /\ UnderNative(stack, n + 1, calls, closed)
      /\ FirstCounts(stack, n + 1)
  BY <1>1, <1>4 DEF BlockInv
<1>7. BlockInv'
  <2>1. Contiguous(stack', n) /\ Nesting(stack', n) /\ FirstCounts(stack', n)
    BY <1>4, <1>6, PopBlocks
  <2>2. Layered(stack', n, calls, layers) /\ UnderNative(stack', n, calls, closed)
    BY <1>4, <1>6, PopLayered, PopUnderNative
  <2>3. Chained(stack', n, calls, active')
    <3>1. Chained(stack', n, calls, IF Counting(stack[n + 1]) THEN stack[n + 1].saved ELSE active)
      BY <1>4, <1>6, PopChained
    <3>2. QED BY <1>4, <3>1
  <2>4. QED BY <1>4, <2>1, <2>2, <2>3 DEF BlockInv
<1>8. OverInv'
  <2>1. ASSUME NEW k \in DOMAIN calls, Natively(k, calls, layers)
        PROVE  OverFor(k, stack', n, unwinding', handles', spans')
    <3>1. OverFor(k, stack, n + 1, unwinding, handles, spans)
      BY <1>1, <1>4, <2>1 DEF OverInv
    <3>2. /\ stack[n + 1].kind # "send" => unwinding' = unwinding /\ n # 0
          /\ stack[n + 1].kind = "send" => ~Counting(stack[n + 1])
      BY <1>4, <1>5 DEF Counting
    <3>3. Told(k, handles', spans') =>
            \/ Told(k, handles, spans)
            \/ /\ stack[n + 1].kind = "span" /\ stack[n + 1].call = k
               /\ \A j \in 1..(n + 1) : stack[j].call = k => stack[j].kind # "native"
      BY <1>4, <2>1
    <3>4. QED BY <1>4, <1>6, <2>1, <3>1, <3>2, <3>3, PopOver
  <2>2. QED BY <1>4, <2>1 DEF OverInv
<1>9. OutsideInv'
  <2>1. ASSUME NEW i \in 1..n, WillCount(stack'[i], calls, layers, closed, marked')
        PROVE  Outside(i, stack', n, handles', spans')
    <3>1. stack[i].item \in marked /\ stack[i].kind = "span" => stack[i].item \in marked'
      BY <1>1, <1>4 DEF StackInv, SpanInv
    <3>2. WillCount(stack[i], calls, layers, closed, marked) =>
            Outside(i, stack, n + 1, handles, spans)
      BY <1>1, <1>4 DEF OutsideInv
    <3>3. stack[i].call # stack[n + 1].call =>
            (Told(stack[i].call, handles', spans') => Told(stack[i].call, handles, spans))
      BY <1>1, <1>4, FrameFacts
    <3>4. QED BY <1>4, <2>1, <3>1, <3>2, <3>3, PopOutside
  <2>2. QED BY <1>4, <2>1 DEF OutsideInv
<1>10. SpanCallInv'
  <2>1. ASSUME NEW i \in 1..n, stack[i].kind = "span"
        PROVE  spans'[stack[i].item].call = stack[i].call
    <3>1. stack[i].item \in DOMAIN spans  BY <1>1, <1>4, <2>1 DEF StackInv, ItemInv
    <3>2. QED BY <1>1, <1>4, <2>1, <3>1 DEF SpanCallInv
  <2>2. QED BY <1>4, <2>1 DEF SpanCallInv
<1>11. UniqueInv'  BY <1>1, UniqueKept
<1>12. QED BY <1>7, <1>8, <1>9, <1>10, <1>11 DEF OnceInv

LEMMA LeaveSendOnce == ASSUME CallsInv, OnceInv, LeaveSend PROVE OnceInv'
<1>1. /\ stack # <<>> /\ unwinding # "no" /\ stack' = Pop /\ Top.kind = "send"
      /\ UNCHANGED <<layers, active, calls, handles, spans, marked, closed>>
  BY DEF LeaveSend, CallsInv, TypeOK
<1>2. ~Counting(Top)  BY <1>1 DEF Counting
<1>3. QED BY <1>1, <1>2, PopOnce

LEMMA LeaveNativeOnce == ASSUME CallsInv, OnceInv, LeaveNative PROVE OnceInv'
<1>1. /\ stack # <<>> /\ unwinding # "no" /\ stack' = Pop /\ Top.kind = "native"
      /\ UNCHANGED <<layers, unwinding, calls, spans, marked, closed>>
  BY DEF LeaveNative, CallsInv, TypeOK
<1>2. /\ active' = IF Counting(Top) THEN Top.saved ELSE active
      /\ DOMAIN handles' = DOMAIN handles
      /\ \A h \in DOMAIN handles : handles'[h].call = handles[h].call
  <2>1. CASE Top.item = 0
    <3>1. UNCHANGED <<active, handles>> /\ ~Counting(Top)
      BY <2>1 DEF LeaveNative, Counting
    <3>2. QED BY <3>1
  <2>2. CASE Top.item # 0
    <3>1. Counting(Top)  BY <1>1, <2>2 DEF Counting
    <3>2. Top.item \in DOMAIN handles
      BY <1>1, <3>1, TopFacts DEF CallsInv, StackInv, ItemInv
    <3>3. PICK outcome \in {"pending", "status", "failed"}, stream \in {"none", "open", "closed"} :
            Finish(Top.item, outcome, stream) /\ active' = Top.saved
      BY <2>2 DEF LeaveNative
    <3>4. QED BY <3>1, <3>2, <3>3, FinishFacts DEF CallsInv
  <2>3. QED BY <2>1, <2>2
<1>3. SameCounts(handles, spans, handles', spans')  BY <1>1, <1>2 DEF SameCounts
<1>4. \A k : /\ Told(k, handles', spans') => Told(k, handles, spans)
             /\ Unique(k, handles, spans) => Unique(k, handles', spans')
  BY <1>3, SameTold
<1>5. QED BY <1>1, <1>2, <1>4, PopOnce

LEMMA LeaveSpanOnce == ASSUME CallsInv, OnceInv, LeaveSpan PROVE OnceInv'
<1>1. PICK s, end : /\ s = Top.item
                    /\ end = IF closed THEN "late" ELSE IF s \in marked THEN "skipped" ELSE "counted"
  OBVIOUS
<1>2. /\ stack # <<>> /\ unwinding # "no" /\ stack' = Pop /\ Top.kind = "span"
      /\ spans' = [spans EXCEPT ![s].state = end] /\ marked' = marked \ {s}
      /\ UNCHANGED <<layers, unwinding, active, calls, handles, closed>>
  BY <1>1 DEF LeaveSpan, CallsInv, TypeOK
<1>3. TypeOK /\ StackInv /\ OutsideInv /\ SpanCallInv /\ Len(stack) \in 1..Len(stack)
      /\ Top = stack[Len(stack)] /\ Top.call \in DOMAIN calls
  BY <1>2, TopFacts DEF CallsInv, OnceInv
<1>4. s \in DOMAIN spans /\ spans[s].call = Top.call
  BY <1>1, <1>2, <1>3 DEF StackInv, ItemInv, SpanCallInv
<1>5. /\ DOMAIN spans' = DOMAIN spans /\ spans'[s].call = Top.call /\ spans'[s].state = end
      /\ \A t \in DOMAIN spans : t # s => spans'[t] = spans[t]
  <2>1. spans[s] \in [call : DOMAIN calls, state : {"live", "counted", "skipped", "late"}]
    <3> DEFINE Span == [call : DOMAIN calls, state : {"live", "counted", "skipped", "late"}]
    <3>1. spans \in Seq(Span)  BY <1>3 DEF TypeOK
    <3> HIDE DEF Span
    <3>2. spans[s] \in Span  BY <1>4, <3>1, LenProperties, ElementOfSeq
    <3>3. QED BY <3>2 DEF Span
  <2>2. QED BY <1>2, <1>4, <2>1
<1>6. ~Counting(Top)  BY <1>2 DEF Counting
<1>7. ASSUME NEW k \in DOMAIN calls
      PROVE  /\ k # Top.call => (Told(k, handles', spans') => Told(k, handles, spans))
             /\ Natively(k, calls, layers) =>
                  /\ Told(k, handles', spans') =>
                       \/ Told(k, handles, spans)
                       \/ /\ Top.call = k
                          /\ \A j \in 1..Len(stack) :
                               stack[j].call = k => stack[j].kind # "native"
                  /\ Unique(k, handles, spans) => Unique(k, handles', spans')
  <2>1. CASE end = "counted"
    <3>1. /\ k # Top.call => (Told(k, handles, spans') => Told(k, handles, spans))
          /\ Unique(k, handles, spans) /\ (k = Top.call => ~Told(k, handles, spans)) =>
               Unique(k, handles, spans')
      BY <1>4, <1>5, NewCountTold
    <3>2. ASSUME Natively(k, calls, layers), k = Top.call
          PROVE  /\ ~Told(k, handles, spans)
                 /\ \A j \in 1..Len(stack) : stack[j].call = k => stack[j].kind # "native"
      <4>1. WillCount(Top, calls, layers, closed, marked)
        BY <1>1, <1>2, <2>1, <3>2 DEF WillCount
      <4>2. Outside(Len(stack), stack, Len(stack), handles, spans)
        BY <1>3, <4>1 DEF OutsideInv
      <4>3. QED BY <1>3, <3>2, <4>2 DEF Outside
    <3>3. QED BY <1>2, <3>1, <3>2
  <2>2. CASE end # "counted"
    <3>1. SameCounts(handles, spans, handles', spans')
      BY <1>2, <1>4, <1>5, <2>2 DEF SameCounts
    <3>2. QED BY <3>1, SameTold
  <2>3. QED BY <2>1, <2>2
<1>8. \A t \in DOMAIN spans : spans'[t].call = spans[t].call  BY <1>4, <1>5
<1>9. QED BY <1>1, <1>2, <1>6, <1>7, <1>8, PopOnce

LEMMA InitOnce == Init => OnceInv
<1> SUFFICES ASSUME Init PROVE OnceInv
  OBVIOUS
<1>1. /\ stack = <<>> /\ Len(stack) = 0 /\ 1..Len(stack) = {} /\ calls = <<>>
      /\ DOMAIN calls = {}
  BY DEF Init
<1>2. BlockInv
  BY <1>1 DEF BlockInv, Contiguous, Nesting, Layered, Chained, UnderNative, FirstCounts
<1>3. OverInv /\ OutsideInv /\ SpanCallInv /\ UniqueInv
  BY <1>1 DEF OverInv, OutsideInv, SpanCallInv, UniqueInv
<1>4. QED BY <1>2, <1>3 DEF OnceInv

LEMMA OnceInvariant == Spec => []OnceInv
<1>1. CallsInv /\ OnceInv /\ [Next]_vars => OnceInv'
  <2> SUFFICES ASSUME CallsInv, OnceInv, [Next]_vars PROVE OnceInv'
    OBVIOUS
  <2>1. CASE UNCHANGED vars
    <3>1. UNCHANGED <<layers, stack, unwinding, active, calls, handles, spans, marked, closed>>
      BY <2>1 DEF vars
    <3>2. QED BY <3>1, StayOnce
  <2>2. QED
    BY <2>1, SendOnce, RedirectOnce, EnterNativeOnce, EnterSpanOnce, AnswerOnce,
       LeaveNativeOnce, LeaveSpanOnce, LeaveSendOnce, StreamEndsOnce, CloseOnce DEF Next
<1>2. QED BY <1>1, InitOnce, CallsInvariant, PTL DEF Spec

LEMMA AtMostOne ==
  ASSUME NEW S, NEW T, \A x, y \in S : x = y, \A x, y \in T : x = y, S = {} \/ T = {}
  PROVE  Cardinality(S) + Cardinality(T) <= 1
<1>1. ASSUME NEW U, \A x, y \in U : x = y
      PROVE  Cardinality(U) \in {0, 1} /\ (U = {} => Cardinality(U) = 0)
  <2>1. CASE U = {}  BY <2>1, FS_EmptySet
  <2>2. CASE U # {}
    <3>1. PICK x \in U : TRUE  BY <2>2
    <3>2. U = {x}  BY <1>1, <3>1
    <3>3. QED BY <2>2, <3>2, FS_Singleton
  <2>3. QED BY <2>1, <2>2
<1>2. QED BY <1>1

-----------------------------------------------------------------------------
(* A call of a natively counted client is counted once, by its handle or by *)
(* a span and never by both, for any number of clients, redirects and hooks *)
(* and any order in which its client was wrapped, as long as OpenTelemetry  *)
(* puts one span at most around the wrapper that counts.                    *)
THEOREM CallsCountOnce == Spec => []CountedOnce
<1>1. OnceInv => CountedOnce
  <2> SUFFICES ASSUME OnceInv, NEW k \in DOMAIN calls, Native(calls[k].client)
               PROVE  Cardinality(HandlesOf(k)) + Cardinality(Counted(k)) <= 1
    BY DEF CountedOnce
  <2>1. Unique(k, handles, spans)
    BY DEF OnceInv, UniqueInv, Natively, Native
  <2>2. /\ \A g, h \in HandlesOf(k) : g = h
        /\ \A s, t \in Counted(k) : s = t
        /\ HandlesOf(k) = {} \/ Counted(k) = {}
    BY <2>1 DEF Unique, HandlesOf, Counted
  <2>3. QED BY <2>2, AtMostOne
<1>2. QED BY <1>1, OnceInvariant, PTL

=============================================================================
