--------------------------- MODULE LogQueueProofs ---------------------------
(***************************************************************************)
(* Proofs about LogQueue for every set of calls, queue size, setting and   *)
(* number of teardowns: type correctness, what teardown and flush promise, *)
(* that the counters account for every record, and that the pipeline       *)
(* implements the lossy log of LossyLog, step by step.                     *)
(***************************************************************************)
EXTENDS LogQueue, SequenceTheorems, FiniteSetTheorems, WellFoundedInduction, TLAPS

-----------------------------------------------------------------------------
(* Every variable keeps its type in every step; the queue never exceeds     *)
(* MaxSize although four kinds of caller put into it.                       *)

LEMMA InitTypeOK == Init => TypeOK
<1> SUFFICES ASSUME Init PROVE TypeOK
  OBVIOUS
<1>1. Len(queue) <= MaxSize /\ teardowns \in 0..MaxTeardowns
  BY LogQueueAssumption DEF Init
<1>2. pc \in [Records -> CallPlaces] /\ stats \in [Counters -> Nat]
  BY DEF Init, CallPlaces
<1>3. /\ queue \in Seq(Items) /\ inHand \in Seq(Records \cup Flushes)
      /\ written \in Seq(Records)
      /\ Len(inHand) = (IF thread \in {"handling", "died"} THEN 1 ELSE 0)
  BY DEF Init
<1>4. QED BY <1>1, <1>2, <1>3 DEF Init, TypeOK, AdminPlaces

LEMMA CallTypeOK ==
  ASSUME TypeOK, NEW r \in Records, Begin(r) \/ CallStep(r)
  PROVE  TypeOK'
<1> USE LogQueueAssumption DEF TypeOK, Items, callVars, listenerVars, adminVars, flushVars,
        CallPlaces, Critical, Returned, Counters, Goto, Put, Full
<1>1. CASE Begin(r)         BY <1>1 DEF Begin
<1>2. CASE PrepareFails(r)  BY <1>2 DEF PrepareFails, Count
<1>3. CASE Enter(r)         BY <1>3 DEF Enter
<1>4. CASE PutNowait(r)     BY <1>4 DEF PutNowait
<1>5. CASE Overflow(r)
  <2>0. \E place \in {"count_rejected", "evicting", "blocked"} : pc' = [pc EXCEPT ![r] = place]
    BY <1>5 DEF Overflow
  <2>1. pc' \in [Records -> CallPlaces]  BY <2>0
  <2>2. stats' = stats \/ Count("blocked")  BY <1>5 DEF Overflow
  <2>3. stats' \in [Counters -> Nat]     BY <2>2 DEF Count
  <2>4. QED BY <1>5, <2>1, <2>3 DEF Overflow
<1>6. CASE Evict(r)
  <2>1. CASE queue = <<>>  BY <1>6, <2>1 DEF Evict
  <2>2. CASE queue # <<>>
    <3>1. /\ Head(queue) \in Items
          /\ Tail(queue) \in Seq(Items) /\ Len(Tail(queue)) = Len(queue) - 1
      BY <2>2, HeadTailProperties
    <3>2. queue' = Tail(queue) /\ evicted' = evicted \cup {Head(queue)}
      BY <1>6, <2>2 DEF Evict
    <3>3. /\ queue' \in Seq(Items) /\ Len(queue') <= MaxSize
          /\ evicted' \in SUBSET Items
      BY <3>1, <3>2, LenProperties
    <3>4. QED BY <1>6, <3>3 DEF Evict
  <2>3. QED BY <2>1, <2>2
<1>7. CASE CountEvicted(r)  BY <1>7 DEF CountEvicted, Count
<1>8. CASE PutAgain(r)
  <2>1. CASE Full   BY <1>8, <2>1 DEF PutAgain
  <2>2. CASE ~Full
    <3>1. queue' = Append(queue, r)                         BY <1>8, <2>2 DEF PutAgain
    <3>2. queue' \in Seq(Items) /\ Len(queue') <= MaxSize  BY <2>2, <3>1
    <3>3. pc' \in [Records -> CallPlaces]                  BY <1>8 DEF PutAgain
    <3>4. QED BY <1>8, <3>2, <3>3 DEF PutAgain
  <2>3. QED BY <2>1, <2>2
<1>9. CASE BlockedPut(r)    BY <1>9 DEF BlockedPut
<1>10. CASE BlockTimeout(r) BY <1>10 DEF BlockTimeout, Count
<1>11. CASE CountEnqueued(r) BY <1>11 DEF CountEnqueued, Count
<1>12. CASE CountRejected(r) BY <1>12 DEF CountRejected, Count
<1>13. QED
  BY <1>1, <1>2, <1>3, <1>4, <1>5, <1>6, <1>7, <1>8, <1>9, <1>10, <1>11, <1>12 DEF CallStep

LEMMA ListenerTypeOK == ASSUME TypeOK, Listener PROVE TypeOK'
<1> USE LogQueueAssumption DEF TypeOK, Items, callVars, listenerVars, adminVars, flushVars
<1>1. CASE Dequeue
  <2>1. /\ Head(queue) \in Items
        /\ queue' \in Seq(Items) /\ Len(queue') <= MaxSize
    BY <1>1, HeadTailProperties, LenProperties DEF Dequeue
  <2>2. CASE Head(queue) = Sentinel  BY <1>1, <2>1, <2>2 DEF Dequeue
  <2>3. CASE Head(queue) # Sentinel
    <3>1. inHand' = <<Head(queue)>> /\ Head(queue) \in Records \cup Flushes
      BY <1>1, <2>1, <2>3 DEF Dequeue
    <3>2. inHand' \in Seq(Records \cup Flushes) /\ Len(inHand') = 1
      BY <3>1
    <3>3. QED BY <1>1, <2>1, <2>3, <3>2 DEF Dequeue
  <2>4. QED BY <2>2, <2>3
<1>2. CASE Write        BY <1>2 DEF Write
<1>3. CASE SinkRaises   BY <1>3 DEF SinkRaises
<1>4. CASE FlushOutputs BY <1>4 DEF FlushOutputs
<1>5. QED BY <1>1, <1>2, <1>3, <1>4 DEF Listener

LEMMA FlushTypeOK ==
  ASSUME TypeOK, NEW f \in Flushes, FlushBegin(f) \/ FlushStep(f)
  PROVE  TypeOK'
<1> USE LogQueueAssumption DEF TypeOK, Items, callVars, listenerVars, adminVars, flushVars
<1>1. CASE FlushBegin(f)      BY <1>1 DEF FlushBegin
<1>2. CASE FlushPut(f)        BY <1>2 DEF FlushPut, Put, Full
<1>3. CASE FlushPutTimeout(f) BY <1>3 DEF FlushPutTimeout
<1>4. CASE FlushDone(f)       BY <1>4 DEF FlushDone
<1>5. CASE FlushTimeout(f)    BY <1>5 DEF FlushTimeout
<1>6. QED BY <1>1, <1>2, <1>3, <1>4, <1>5 DEF FlushStep

LEMMA AdminTypeOK == ASSUME TypeOK, Setup \/ BeginTeardown \/ TeardownStep PROVE TypeOK'
<1> USE LogQueueAssumption
    DEF TypeOK, Items, AdminPlaces, callVars, listenerVars, adminVars, flushVars
<1>1. CASE StartListener   BY <1>1 DEF StartListener
<1>2. CASE PublishListener BY <1>2 DEF PublishListener
<1>3. CASE BeginTeardown   BY <1>3 DEF BeginTeardown
<1>4. CASE CloseHandler    BY <1>4 DEF CloseHandler
<1>5. CASE PutSentinel     BY <1>5 DEF PutSentinel, Put, Full
<1>6. CASE SkipSentinel    BY <1>6 DEF SkipSentinel
<1>7. CASE StopTimeout     BY <1>7 DEF StopTimeout
<1>8. CASE Joined          BY <1>8 DEF Joined
<1>9. CASE CloseOutputs    BY <1>9 DEF CloseOutputs
<1>10. CASE ResetTelemetry BY <1>10 DEF ResetTelemetry
<1>11. QED
  BY <1>1, <1>2, <1>3, <1>4, <1>5, <1>6, <1>7, <1>8, <1>9, <1>10 DEF Setup, TeardownStep

(* The state of the pipeline is well typed in every reachable state.        *)
THEOREM TypeCorrect == Spec => []TypeOK
<1>1. TypeOK /\ [Next]_vars => TypeOK'
  <2> SUFFICES ASSUME TypeOK, [Next]_vars PROVE TypeOK'
    OBVIOUS
  <2>1. CASE UNCHANGED vars
    BY <2>1 DEF vars, callVars, listenerVars, adminVars, flushVars, TypeOK
  <2>2. QED
    BY <2>1, CallTypeOK, ListenerTypeOK, FlushTypeOK, AdminTypeOK DEF Next
<1>2. QED BY <1>1, InitTypeOK, PTL DEF Spec

-----------------------------------------------------------------------------
(* Why teardown is safe. Closing the handler takes its lock, so no call is  *)
(* inside enqueue() when admissions stop; the sentinel is put after that,   *)
(* so no later put or eviction can pass it; the listener leaves its loop    *)
(* only there; and stop() succeeds only when the thread is gone.            *)
NoSentinel == \A i \in 1..Len(queue) : queue[i] # Sentinel

TeardownInv ==
  /\ thread = "unstarted" <=> admin = "starting"
  /\ accepting => admin \in {"starting", "publishing", "configured", "closing"}
  /\ admin \in {"starting", "publishing", "configured"} => accepting
  /\ ~accepting => HandlerLockFree
  /\ listenerSet <=> admin \in {"configured", "closing", "stopping", "joining", "timed_out"}
  /\ outputs = "closed" => admin \in {"down", "reset"}
  /\ admin \in {"stopped", "down", "reset"} => ~Alive
  /\ sentinelEnqueued => ~accepting
  /\ ~sentinelEnqueued => NoSentinel
  /\ thread = "exited" => sentinelEnqueued /\ Logs(queue) = {}
  /\ SentinelReachesListener

LEMMA AppendFacts ==
  ASSUME NEW seq \in Seq(Items), NEW e \in Items
  PROVE  /\ Append(seq, e) \in Seq(Items)
         /\ Len(Append(seq, e)) = Len(seq) + 1
         /\ \A i \in 1..Len(seq) : Append(seq, e)[i] = seq[i]
         /\ Append(seq, e)[Len(seq) + 1] = e
  OBVIOUS

LEMMA TailFacts ==
  ASSUME NEW seq \in Seq(Items), seq # <<>>
  PROVE  /\ Len(seq) \in Nat /\ Len(seq) >= 1
         /\ Head(seq) = seq[1]
         /\ Len(Tail(seq)) = Len(seq) - 1
         /\ \A i \in 1..Len(Tail(seq)) : Tail(seq)[i] = seq[i + 1] /\ i + 1 \in 1..Len(seq)
  BY HeadTailProperties, LenProperties, EmptySeq

\* Before the sentinel is put, the clauses about the queue reduce to its absence.
LEMMA NoSentinelSuffices ==
  ASSUME NoSentinel, ~sentinelEnqueued
  PROVE  SentinelReachesListener
  BY DEF NoSentinel, SentinelReachesListener

LEMMA InitTeardownInv == Init => TeardownInv
  BY NoSentinelSuffices
  DEF Init, TeardownInv, HandlerLockFree, Critical, Alive, NoSentinel, SentinelReachesListener

\* A call inside enqueue() holds the lock: the handler is open, nothing is stopping.
LEMMA CriticalMeansOpen ==
  ASSUME TypeOK, TeardownInv, NEW r \in Records, pc[r] \in Critical
  PROVE  accepting /\ ~sentinelEnqueued /\ NoSentinel /\ thread # "exited"
  BY DEF TypeOK, TeardownInv, HandlerLockFree

LEMMA CallTeardownInv ==
  ASSUME TypeOK, TeardownInv, NEW r \in Records, Begin(r) \/ CallStep(r)
  PROVE  TeardownInv'
<1> USE DEF callVars, listenerVars, adminVars, flushVars
<1>1. /\ UNCHANGED <<accepting, thread, inHand, sentinelEnqueued, listenerSet, outputs, admin>>
      /\ Alive' = Alive
  BY DEF Begin, CallStep, PrepareFails, Enter, PutNowait, Overflow, Evict, CountEvicted,
         PutAgain, BlockedPut, BlockTimeout, CountEnqueued, CountRejected, Alive
<1>2. CASE pc[r] \in Critical
  <2>1. accepting /\ ~sentinelEnqueued /\ NoSentinel /\ thread # "exited"
    BY <1>2, CriticalMeansOpen
  <2>2. \/ UNCHANGED queue
        \/ queue' = Append(queue, r)
        \/ queue # <<>> /\ queue' = Tail(queue)
    BY <1>2 DEF Begin, CallStep, PrepareFails, Enter, PutNowait, Overflow, Evict,
         CountEvicted, PutAgain, BlockedPut, BlockTimeout, CountEnqueued, CountRejected, Put
  <2>3. NoSentinel'
    <3>1. CASE UNCHANGED queue  BY <2>1, <3>1 DEF NoSentinel
    <3>2. CASE queue' = Append(queue, r)
      BY <2>1, <3>2, AppendFacts, LogQueueAssumption, LenProperties
      DEF NoSentinel, TypeOK, Items, LogQueueAssumption
    <3>3. CASE queue # <<>> /\ queue' = Tail(queue)
      BY <2>1, <3>3, TailFacts DEF NoSentinel, TypeOK
    <3>4. QED BY <2>2, <3>1, <3>2, <3>3
  <2>4. SentinelReachesListener'
    BY <1>1, <2>1, <2>3 DEF NoSentinel, SentinelReachesListener
  <2>5. QED BY <1>1, <2>1, <2>3, <2>4 DEF TeardownInv
<1>3. CASE pc[r] \notin Critical
  <2>1. UNCHANGED queue
    BY <1>3 DEF Begin, CallStep, PrepareFails, Enter, PutNowait, Overflow, Evict,
         CountEvicted, PutAgain, BlockedPut, BlockTimeout, CountEnqueued, CountRejected, Critical
  <2>2. ~accepting => HandlerLockFree'
    <3> SUFFICES ASSUME ~accepting PROVE HandlerLockFree'
      OBVIOUS
    <3>1. pc' \in [Records -> CallPlaces] /\ pc'[r] \notin Critical
      BY <1>3 DEF Begin, CallStep, PrepareFails, Enter, PutNowait, Overflow, Evict,
           CountEvicted, PutAgain, BlockedPut, BlockTimeout, CountEnqueued, CountRejected,
           Goto, Critical, Returned, CallPlaces, TypeOK
    <3>2. \A q \in Records : q # r => pc'[q] = pc[q]
      BY <1>3 DEF Begin, CallStep, PrepareFails, Enter, PutNowait, Overflow, Evict,
           CountEvicted, PutAgain, BlockedPut, BlockTimeout, CountEnqueued, CountRejected,
           Goto, Critical, TypeOK
    <3>3. QED BY <3>1, <3>2 DEF TeardownInv, HandlerLockFree
  <2>3. QED
    BY <1>1, <2>1, <2>2 DEF TeardownInv, NoSentinel, SentinelReachesListener, Logs
<1>4. QED BY <1>2, <1>3

LEMMA ListenerTeardownInv ==
  ASSUME TypeOK, TeardownInv, Listener
  PROVE  TeardownInv'
<1> USE DEF callVars, listenerVars, adminVars, flushVars
<1>1. CASE Dequeue
  <2>1. /\ thread = "getting" /\ queue # <<>> /\ queue' = Tail(queue)
        /\ UNCHANGED <<pc, accepting, sentinelEnqueued, listenerSet, outputs, admin>>
        /\ thread' = IF Head(queue) = Sentinel THEN "exited" ELSE "handling"
    BY <1>1 DEF Dequeue
  <2>2. /\ Len(queue) \in Nat /\ Len(queue) >= 1 /\ Head(queue) = queue[1]
        /\ Len(queue') = Len(queue) - 1
        /\ \A i \in 1..Len(queue') : queue'[i] = queue[i + 1] /\ i + 1 \in 1..Len(queue)
    BY <2>1, TailFacts DEF TypeOK
  <2>3. HandlerLockFree' = HandlerLockFree  BY <2>1 DEF HandlerLockFree
  <2>4. NoSentinel => NoSentinel'           BY <2>2 DEF NoSentinel
  <2>5. \A i, j \in 1..Len(queue') :
          i < j /\ queue'[i] = Sentinel => queue'[j] \in Flushes
    <3> SUFFICES ASSUME NEW i \in 1..Len(queue'), NEW j \in 1..Len(queue'),
                        i < j, queue'[i] = Sentinel
                 PROVE  queue'[j] \in Flushes
      OBVIOUS
    <3>1. i + 1 \in 1..Len(queue) /\ j + 1 \in 1..Len(queue) /\ i + 1 < j + 1
      BY <2>2
    <3>2. QED BY <2>2, <3>1 DEF TeardownInv, SentinelReachesListener
  <2>6. CASE Head(queue) = Sentinel
    <3>1. sentinelEnqueued  BY <2>2, <2>6 DEF TeardownInv, NoSentinel
    <3>2. \A j \in 1..Len(queue') : queue'[j] \in Flushes
      <4> SUFFICES ASSUME NEW j \in 1..Len(queue') PROVE queue'[j] \in Flushes
        OBVIOUS
      <4>1. j + 1 \in 1..Len(queue) /\ 1 \in 1..Len(queue) /\ 1 < j + 1  BY <2>2
      <4>2. QED BY <2>2, <2>6, <4>1 DEF TeardownInv, SentinelReachesListener
    <3>3. Logs(queue)' = {}
      BY <3>2, LogQueueAssumption DEF Logs, LogQueueAssumption
    <3>4. ~Alive'  BY <2>1, <2>6 DEF Alive
    <3>5. QED
      BY <2>1, <2>3, <2>4, <2>5, <2>6, <3>1, <3>3, <3>4
      DEF TeardownInv, SentinelReachesListener, Alive
  <2>7. CASE Head(queue) # Sentinel
    <3>1. sentinelEnqueued => \E i \in 1..Len(queue') : queue'[i] = Sentinel
      <4> SUFFICES ASSUME sentinelEnqueued
                   PROVE  \E i \in 1..Len(queue') : queue'[i] = Sentinel
        OBVIOUS
      <4>1. PICK i \in 1..Len(queue) : queue[i] = Sentinel
        BY <2>1 DEF TeardownInv, SentinelReachesListener, Alive
      <4>2. i - 1 \in 1..Len(queue')  BY <2>2, <2>7, <4>1
      <4>3. queue'[i - 1] = Sentinel   BY <2>2, <4>1, <4>2
      <4>4. QED BY <4>2, <4>3
    <3>2. thread' = "handling"  BY <2>1, <2>7
    <3>3. QED
      BY <2>1, <2>3, <2>4, <2>5, <3>1, <3>2
      DEF TeardownInv, SentinelReachesListener, Alive
  <2>8. QED BY <2>6, <2>7
<1>2. CASE Write \/ SinkRaises \/ FlushOutputs
  <2>1. /\ UNCHANGED <<queue, pc, accepting, sentinelEnqueued, listenerSet, outputs, admin>>
        /\ thread = "handling" /\ thread' \in {"getting", "died"}
    BY <1>2 DEF Write, SinkRaises, FlushOutputs
  <2>2. QED
    BY <2>1 DEF TeardownInv, SentinelReachesListener, NoSentinel, HandlerLockFree, Alive, Logs
<1>3. QED BY <1>1, <1>2 DEF Listener

LEMMA FlushTeardownInv ==
  ASSUME TypeOK, TeardownInv, NEW f \in Flushes, FlushBegin(f) \/ FlushStep(f)
  PROVE  TeardownInv'
<1> USE DEF callVars, listenerVars, adminVars, flushVars
<1>1. UNCHANGED <<pc, accepting, thread, sentinelEnqueued, listenerSet, outputs, admin>>
  BY DEF FlushBegin, FlushStep, FlushPut, FlushPutTimeout, FlushDone, FlushTimeout
<1>2. CASE UNCHANGED queue
  BY <1>1, <1>2
  DEF TeardownInv, SentinelReachesListener, NoSentinel, HandlerLockFree, Alive, Logs
<1>3. CASE queue' = Append(queue, f)
  <2>1. /\ Len(queue) \in Nat /\ Len(queue') = Len(queue) + 1
        /\ \A i \in 1..Len(queue) : queue'[i] = queue[i]
        /\ queue'[Len(queue) + 1] = f
    BY <1>3, AppendFacts, LenProperties DEF TypeOK, Items
  <2>2. f # Sentinel /\ f \notin Records
    BY LogQueueAssumption DEF LogQueueAssumption
  <2>3. NoSentinel => NoSentinel'  BY <2>1, <2>2 DEF NoSentinel
  <2>4. Logs(queue)' \subseteq Logs(queue)  BY <2>1, <2>2 DEF Logs
  <2>5. SentinelReachesListener'
    <3>1. (\E i \in 1..Len(queue) : queue[i] = Sentinel) =>
             \E i \in 1..Len(queue') : queue'[i] = Sentinel
      BY <2>1
    <3>2. ASSUME NEW i \in 1..Len(queue'), NEW j \in 1..Len(queue'),
                 i < j, queue'[i] = Sentinel
          PROVE  queue'[j] \in Flushes
      <4>1. i \in 1..Len(queue)  BY <2>1, <3>2
      <4>2. CASE j = Len(queue) + 1  BY <2>1, <4>2
      <4>3. CASE j \in 1..Len(queue)
        BY <2>1, <3>2, <4>1, <4>3 DEF TeardownInv, SentinelReachesListener
      <4>4. QED BY <2>1, <4>2, <4>3
    <3>3. QED BY <1>1, <3>1, <3>2 DEF TeardownInv, SentinelReachesListener, Alive
  <2>6. QED BY <1>1, <2>3, <2>4, <2>5 DEF TeardownInv, HandlerLockFree, Alive
<1>4. QED
  BY <1>2, <1>3
  DEF FlushBegin, FlushStep, FlushPut, FlushPutTimeout, FlushDone, FlushTimeout, Put

LEMMA AdminTeardownInv ==
  ASSUME TypeOK, TeardownInv, Setup \/ BeginTeardown \/ TeardownStep
  PROVE  TeardownInv'
<1> USE DEF callVars, listenerVars, adminVars, flushVars
<1>1. CASE PutSentinel
  <2>1. /\ ~sentinelEnqueued /\ sentinelEnqueued' /\ ~accepting /\ NoSentinel
        /\ queue' = Append(queue, Sentinel) /\ admin = "stopping" /\ admin' = "joining"
        /\ Alive /\ UNCHANGED <<pc, accepting, thread, listenerSet, outputs>>
    BY <1>1 DEF PutSentinel, Put, TeardownInv
  <2>2. /\ Len(queue) \in Nat /\ Len(queue') = Len(queue) + 1
        /\ \A i \in 1..Len(queue) : queue'[i] = queue[i]
        /\ queue'[Len(queue) + 1] = Sentinel
    BY <2>1, AppendFacts, LenProperties DEF TypeOK, Items
  <2>3. SentinelReachesListener'  BY <2>1, <2>2 DEF NoSentinel, SentinelReachesListener
  <2>4. QED BY <2>1, <2>3 DEF TeardownInv, HandlerLockFree, Alive
<1>2. CASE ~PutSentinel
  <2>1. UNCHANGED <<queue, pc, sentinelEnqueued>>
    BY <1>2 DEF Setup, StartListener, PublishListener, BeginTeardown, TeardownStep,
         CloseHandler, SkipSentinel, StopTimeout, Joined, CloseOutputs, ResetTelemetry
  <2>2. SentinelReachesListener'
    <3>1. CASE sentinelEnqueued
      <4>1. Alive' => Alive
        BY <3>1, <1>2 DEF TeardownInv, Alive, Setup, StartListener, PublishListener,
             BeginTeardown, TeardownStep, CloseHandler, SkipSentinel, StopTimeout,
             Joined, CloseOutputs, ResetTelemetry
      <4>2. QED BY <2>1, <4>1 DEF TeardownInv, SentinelReachesListener
    <3>2. CASE ~sentinelEnqueued
      BY <2>1, <3>2 DEF TeardownInv, NoSentinel, SentinelReachesListener
    <3>3. QED BY <3>1, <3>2
  <2>3. CASE StartListener
    BY <2>1, <2>2, <2>3 DEF StartListener, TeardownInv, HandlerLockFree, Alive, NoSentinel
  <2>4. CASE PublishListener
    BY <2>1, <2>2, <2>4 DEF PublishListener, TeardownInv, HandlerLockFree, Alive, NoSentinel, Logs
  <2>5. CASE BeginTeardown
    BY <2>1, <2>2, <2>5 DEF BeginTeardown, TeardownInv, HandlerLockFree, Alive, NoSentinel, Logs
  <2>6. CASE CloseHandler
    BY <2>1, <2>2, <2>6 DEF CloseHandler, TeardownInv, HandlerLockFree, Alive, NoSentinel, Logs
  <2>7. CASE SkipSentinel \/ StopTimeout \/ Joined
    BY <2>1, <2>2, <2>7
    DEF SkipSentinel, StopTimeout, Joined, TeardownInv, HandlerLockFree, Alive, NoSentinel, Logs
  <2>8. CASE CloseOutputs \/ ResetTelemetry
    BY <2>1, <2>2, <2>8
    DEF CloseOutputs, ResetTelemetry, TeardownInv, HandlerLockFree, Alive, NoSentinel, Logs
  <2>9. QED
    BY <1>2, <2>3, <2>4, <2>5, <2>6, <2>7, <2>8 DEF Setup, TeardownStep
<1>3. QED BY <1>1, <1>2

LEMMA TeardownInvariant == Spec => []TeardownInv
<1>1. TypeOK /\ TeardownInv /\ [Next]_vars => TeardownInv'
  <2> SUFFICES ASSUME TypeOK, TeardownInv, [Next]_vars PROVE TeardownInv'
    OBVIOUS
  <2>1. CASE UNCHANGED vars
    BY <2>1 DEF vars, callVars, listenerVars, adminVars, flushVars, TeardownInv,
         SentinelReachesListener, NoSentinel, HandlerLockFree, Alive, Logs
  <2>2. QED
    BY <2>1, CallTeardownInv, ListenerTeardownInv, FlushTeardownInv, AdminTeardownInv DEF Next
<1>2. QED BY <1>1, InitTeardownInv, TypeCorrect, PTL DEF Spec

(* stop() never waits for a sentinel that is gone: drop_oldest cannot take  *)
(* it, and nothing but flush requests follows it (setup.py:71).             *)
THEOREM SentinelSafe == Spec => []SentinelReachesListener
<1>1. TeardownInv => SentinelReachesListener  BY DEF TeardownInv
<1>2. QED BY <1>1, TeardownInvariant, PTL

(* No output handler is closed while the listener may still use it, and a   *)
(* stop() that timed out leaves the listener published for a retry.         *)
THEOREM OutputsSafe == Spec => []OutputsOutliveListener
<1>1. TypeOK /\ TeardownInv => OutputsOutliveListener
  BY DEF TypeOK, TeardownInv, OutputsOutliveListener, Alive, AdminPlaces
<1>2. QED BY <1>1, TypeCorrect, TeardownInvariant, PTL

(* A listener that left on its sentinel left no record behind, queued, in   *)
(* its hand or about to be put by a call inside enqueue().                  *)
THEOREM ShutdownDrains == Spec => []StopDrains
<1>1. TypeOK /\ TeardownInv => StopDrains
  <2> SUFFICES ASSUME TypeOK, TeardownInv, thread = "exited"
               PROVE  Logs(queue) = {} /\ inHand = <<>> /\ HandlerLockFree
    BY DEF StopDrains
  <2>1. Len(inHand) = 0 /\ inHand \in Seq(Records \cup Flushes)  BY DEF TypeOK
  <2>2. inHand = <<>>  BY <2>1, EmptySeq
  <2>3. QED BY <2>2 DEF TeardownInv
<1>2. QED BY <1>1, TypeCorrect, TeardownInvariant, PTL

-----------------------------------------------------------------------------
(* Why flush_logging() may be believed. A flush request is queued behind    *)
(* every record accepted before the flush began, records ahead of it leave  *)
(* only towards the sinks or an eviction, and the listener handles one item *)
(* at a time: when it handles the request nothing ahead of it is pending.   *)
Settled(r) == r \in Logs(written) \cup evicted
Ahead(r, j) == \E i \in 1..Len(queue) : i < j /\ queue[i] = r
Located(r) == Settled(r) \/ r \in Logs(inHand) \/ r \in Logs(queue)

\* A flush request is in the pipeline at most once, between its put and its answer.
RequestInv ==
  \A f \in Flushes :
    /\ flushPc[f] \in {"idle", "putting"} \/ flushed[f] # "pending" =>
         inHand # <<f>> /\ \A j \in 1..Len(queue) : queue[j] # f
    /\ flushPc[f] \in {"idle", "putting"} => flushed[f] = "pending"
    /\ flushPc[f] = "returned_true" => flushed[f] = "ok"
    /\ inHand = <<f>> => \A j \in 1..Len(queue) : queue[j] # f
    /\ \A i, j \in 1..Len(queue) : queue[i] = f /\ queue[j] = f => i = j

\* What a flush has to wait for of a record logged before it.
Covered(f, r) ==
  r \in before[f] =>
    /\ pc[r] \in Returned
    /\ pc[r] = "accepted" =>
         /\ \A j \in 1..Len(queue) :
              queue[j] = f => Settled(r) \/ r \in Logs(inHand) \/ Ahead(r, j)
         /\ inHand = <<f>> \/ flushed[f] # "pending" => Settled(r)

FlushInv ==
  /\ \A r \in Records : pc[r] \in {"count_enqueued", "accepted"} => Located(r)
  /\ \A f \in Flushes, r \in Records : Covered(f, r)

LEMMA InitFlushInv == Init => RequestInv /\ FlushInv
  BY DEF Init, RequestInv, FlushInv, Covered

\* What a step of a logging call does to what FlushInv speaks of.
LEMMA CallShape ==
  ASSUME TypeOK, NEW r \in Records, Begin(r) \/ CallStep(r)
  PROVE  /\ UNCHANGED <<inHand, written, flushPc, flushed, before>>
         /\ pc[r] \notin Returned
         /\ \A q \in Records : q # r => pc'[q] = pc[q]
         /\ \/ /\ queue' = queue /\ evicted' = evicted
               /\ pc'[r] \in {"count_enqueued", "accepted"} => pc[r] = "count_enqueued"
            \/ queue' = Append(queue, r) /\ evicted' = evicted
            \/ /\ queue # <<>> /\ queue' = Tail(queue)
               /\ evicted' = evicted \cup {Head(queue)}
               /\ pc'[r] = "count_evicted"
<1> USE DEF callVars, listenerVars, adminVars, flushVars, Returned, Goto
<1>1. CASE Begin(r) \/ PrepareFails(r) \/ Enter(r)
  BY <1>1 DEF Begin, PrepareFails, Enter, TypeOK
<1>2. CASE PutNowait(r) \/ BlockedPut(r)
  BY <1>2 DEF PutNowait, BlockedPut, Put, TypeOK
<1>3. CASE Overflow(r)
  BY <1>3 DEF Overflow, TypeOK
<1>4. CASE Evict(r)
  BY <1>4 DEF Evict, TypeOK
<1>5. CASE PutAgain(r)
  BY <1>5 DEF PutAgain, Put, TypeOK
<1>6. CASE BlockTimeout(r) \/ CountEvicted(r) \/ CountEnqueued(r) \/ CountRejected(r)
  BY <1>6 DEF BlockTimeout, CountEvicted, CountEnqueued, CountRejected, TypeOK
<1>7. QED BY <1>1, <1>2, <1>3, <1>4, <1>5, <1>6 DEF CallStep

\* An item appended to the queue leaves every record where it is.
LEMMA AppendKeeps ==
  ASSUME TypeOK, NEW e \in Items, queue' = Append(queue, e),
         UNCHANGED <<inHand, written>>, evicted \subseteq evicted'
  PROVE  /\ \A r \in Records : Settled(r) => Settled(r)'
         /\ \A r \in Records : Located(r) => Located(r)'
         /\ \A r \in Records, j \in 1..Len(queue) :
              queue'[j] = queue[j] /\ (Ahead(r, j) => Ahead(r, j)')
         /\ Len(queue') = Len(queue) + 1 /\ queue'[Len(queue')] = e
<1>1. /\ Len(queue) \in Nat /\ Len(queue') = Len(queue) + 1
      /\ \A i \in 1..Len(queue) : queue'[i] = queue[i]
      /\ queue'[Len(queue) + 1] = e
  BY AppendFacts, LenProperties DEF TypeOK
<1>2. \A r \in Records : Settled(r) => Settled(r)'  BY DEF Settled, Logs
<1>3. Logs(queue) \subseteq Logs(queue)'            BY <1>1 DEF Logs
<1>4. QED BY <1>1, <1>2, <1>3 DEF Located, Ahead, Logs

\* The head of the queue leaves it; the records behind move up.
LEMMA TailKeeps ==
  ASSUME TypeOK, queue # <<>>, queue' = Tail(queue)
  PROVE  /\ \A r \in Logs(queue) : r = Head(queue) \/ r \in Logs(queue)'
         /\ \A j \in 1..Len(queue') :
              j + 1 \in 1..Len(queue) /\ queue'[j] = queue[j + 1]
         /\ \A r, j : j \in 1..Len(queue') /\ Ahead(r, j + 1) =>
                        r = Head(queue) \/ Ahead(r, j)'
<1>1. /\ Len(queue) \in Nat /\ Len(queue) >= 1 /\ Head(queue) = queue[1]
      /\ Len(queue') = Len(queue) - 1
      /\ \A i \in 1..Len(queue') : queue'[i] = queue[i + 1] /\ i + 1 \in 1..Len(queue)
  BY TailFacts DEF TypeOK
<1>2. ASSUME NEW i \in 1..Len(queue), i # 1
      PROVE  i - 1 \in 1..Len(queue') /\ queue'[i - 1] = queue[i]
  BY <1>1, <1>2
<1>3. ASSUME NEW r \in Logs(queue), r # Head(queue) PROVE r \in Logs(queue)'
  <2>1. PICK i \in 1..Len(queue) : queue[i] = r  BY DEF Logs
  <2>2. i # 1                                     BY <1>1, <1>3, <2>1
  <2>3. QED BY <1>2, <2>1, <2>2 DEF Logs
<1>4. ASSUME NEW r, NEW j \in 1..Len(queue'), Ahead(r, j + 1), r # Head(queue)
      PROVE  Ahead(r, j)'
  <2>1. PICK i \in 1..Len(queue) : i < j + 1 /\ queue[i] = r  BY <1>4 DEF Ahead
  <2>2. i # 1          BY <1>1, <1>4, <2>1
  <2>3. i - 1 < j      BY <1>1, <2>1
  <2>4. QED BY <1>2, <2>1, <2>2, <2>3 DEF Ahead
<1>5. QED BY <1>1, <1>3, <1>4


LEMMA CallRequestInv ==
  ASSUME TypeOK, RequestInv, NEW r \in Records, Begin(r) \/ CallStep(r)
  PROVE  RequestInv'
<1>1. UNCHANGED <<inHand, flushPc, flushed>>  BY CallShape
<1>2. \A f \in Flushes : r # f  BY LogQueueAssumption DEF LogQueueAssumption
<1>3. CASE queue' = queue
  BY <1>1, <1>3 DEF RequestInv
<1>4. CASE queue' = Append(queue, r)
  <2>1. /\ Len(queue) \in Nat /\ Len(queue') = Len(queue) + 1
        /\ \A i \in 1..Len(queue) : queue'[i] = queue[i]
        /\ queue'[Len(queue) + 1] = r
    BY <1>4, AppendFacts, LenProperties DEF TypeOK, Items
  <2>2. \A f \in Flushes, j \in 1..Len(queue') :
          queue'[j] = f => j \in 1..Len(queue) /\ queue[j] = f
    BY <1>2, <2>1
  <2>3. QED BY <1>1, <2>2 DEF RequestInv
<1>5. CASE queue # <<>> /\ queue' = Tail(queue)
  <2>1. \A j \in 1..Len(queue') : j + 1 \in 1..Len(queue) /\ queue'[j] = queue[j + 1]
    BY <1>5, TailFacts DEF TypeOK
  <2>2. \A i, j \in 1..Len(queue') : i + 1 = j + 1 => i = j  OBVIOUS
  <2>3. QED BY <1>1, <2>1, <2>2 DEF RequestInv
<1>6. QED BY <1>3, <1>4, <1>5, CallShape

LEMMA CallFlushInv ==
  ASSUME TypeOK, FlushInv, NEW r \in Records, Begin(r) \/ CallStep(r)
  PROVE  FlushInv'
<1>1. /\ UNCHANGED <<inHand, written, flushPc, flushed, before>>
      /\ pc[r] \notin Returned
      /\ \A q \in Records : q # r => pc'[q] = pc[q]
  BY CallShape
<1>2. \A f \in Flushes, q \in Records :
        q \in before[f] => pc[q] \in Returned /\ pc'[q] = pc[q] /\ q \in before'[f]
  BY <1>1 DEF FlushInv, Covered
<1>4. CASE queue' = queue /\ evicted' = evicted /\
           (pc'[r] \in {"count_enqueued", "accepted"} => pc[r] = "count_enqueued")
  <2>1. \A q \in Records : /\ Settled(q)' = Settled(q) /\ Located(q)' = Located(q)
                           /\ \A j : Ahead(q, j)' = Ahead(q, j)
    BY <1>1, <1>4 DEF Settled, Located, Ahead, Logs
  <2>2. \A q \in Records : pc'[q] \in {"count_enqueued", "accepted"} => Located(q)'
    BY <1>1, <1>4, <2>1 DEF FlushInv
  <2>3. ASSUME NEW f \in Flushes, NEW q \in Records PROVE Covered(f, q)'
    BY <1>1, <1>2, <1>4, <2>1 DEF FlushInv, Covered
  <2>4. QED BY <2>2, <2>3 DEF FlushInv
<1>5. CASE queue' = Append(queue, r) /\ evicted' = evicted
  <2>1. /\ \A q \in Records : Settled(q) => Settled(q)'
        /\ \A q \in Records : Located(q) => Located(q)'
        /\ \A q \in Records, j \in 1..Len(queue) :
              queue'[j] = queue[j] /\ (Ahead(q, j) => Ahead(q, j)')
        /\ Len(queue') = Len(queue) + 1 /\ queue'[Len(queue')] = r
    BY <1>1, <1>5, AppendKeeps DEF Items
  <2>2. Len(queue) \in Nat  BY LenProperties DEF TypeOK
  <2>3. \A f \in Flushes : r # f  BY LogQueueAssumption DEF LogQueueAssumption
  <2>4. Located(r)'  BY <2>1, <2>2 DEF Located, Logs
  <2>5. \A q \in Records : pc'[q] \in {"count_enqueued", "accepted"} => Located(q)'
    BY <1>1, <2>1, <2>4 DEF FlushInv
  <2>6. \A f \in Flushes, j \in 1..Len(queue') : queue'[j] = f => j \in 1..Len(queue) /\ queue[j] = f
    BY <2>1, <2>2, <2>3
  <2>7. ASSUME NEW f \in Flushes, NEW q \in Records PROVE Covered(f, q)'
    BY <1>1, <1>2, <2>1, <2>6 DEF FlushInv, Covered
  <2>8. QED BY <2>5, <2>7 DEF FlushInv
<1>6. CASE /\ queue # <<>> /\ queue' = Tail(queue)
           /\ evicted' = evicted \cup {Head(queue)} /\ pc'[r] = "count_evicted"
  <2>1. /\ \A q \in Logs(queue) : q = Head(queue) \/ q \in Logs(queue)'
        /\ \A j \in 1..Len(queue') :
             j + 1 \in 1..Len(queue) /\ queue'[j] = queue[j + 1]
        /\ \A q, j : j \in 1..Len(queue') /\ Ahead(q, j + 1) =>
                       q = Head(queue) \/ Ahead(q, j)'
    BY <1>6, TailKeeps
  <2>2. \A q \in Records : /\ Settled(q) => Settled(q)'
                           /\ q = Head(queue) => Settled(q)'
    BY <1>1, <1>6 DEF Settled, Logs
  <2>3. \A q \in Records : pc'[q] \in {"count_enqueued", "accepted"} => Located(q)'
    BY <1>1, <1>6, <2>1, <2>2 DEF FlushInv, Located, Logs
  <2>4. ASSUME NEW f \in Flushes, NEW q \in Records PROVE Covered(f, q)'
    BY <1>1, <1>2, <2>1, <2>2 DEF FlushInv, Covered
  <2>5. QED BY <2>3, <2>4 DEF FlushInv
<1>7. QED BY <1>4, <1>5, <1>6, CallShape

LEMMA ListenerFlushInv ==
  ASSUME TypeOK, FlushInv, Listener
  PROVE  FlushInv'
<1> USE DEF callVars, listenerVars, adminVars, flushVars
<1>1. \A f \in Flushes : f \notin Records /\ f # Sentinel
  BY LogQueueAssumption DEF LogQueueAssumption
<1>2. CASE Dequeue
  <2>1. /\ queue # <<>> /\ queue' = Tail(queue) /\ thread = "getting"
        /\ UNCHANGED <<written, evicted, pc, flushPc, flushed, before>>
        /\ inHand' = IF Head(queue) = Sentinel THEN inHand ELSE <<Head(queue)>>
    BY <1>2 DEF Dequeue
  <2>2. inHand = <<>>  BY <2>1, EmptySeq DEF TypeOK
  <2>3. Logs(inHand) = {}  BY <2>2 DEF Logs
  <2>4. /\ \A q \in Logs(queue) : q = Head(queue) \/ q \in Logs(queue)'
        /\ \A j \in 1..Len(queue') :
             j + 1 \in 1..Len(queue) /\ queue'[j] = queue[j + 1]
        /\ \A q, j : j \in 1..Len(queue') /\ Ahead(q, j + 1) =>
                       q = Head(queue) \/ Ahead(q, j)'
    BY <2>1, TailKeeps
  <2>5. \A q \in Records : /\ Settled(q)' = Settled(q)
                           /\ q = Head(queue) => q \in Logs(inHand)'
    BY <2>1, LogQueueAssumption DEF Settled, Logs, LogQueueAssumption
  <2>6. \A q \in Records : pc'[q] \in {"count_enqueued", "accepted"} => Located(q)'
    BY <2>1, <2>3, <2>4, <2>5 DEF FlushInv, Located
  <2>7. Len(queue) \in Nat /\ 1 \in 1..Len(queue) /\ Head(queue) = queue[1]
    BY <2>1, TailFacts DEF TypeOK
  <2>8. \A q \in Records : ~Ahead(q, 1)  BY <2>7 DEF Ahead
  <2>9. ASSUME NEW f \in Flushes, NEW q \in Records PROVE Covered(f, q)'
    <3> SUFFICES ASSUME q \in before[f], pc[q] = "accepted"
                 PROVE  /\ \A j \in 1..Len(queue') : queue'[j] = f =>
                             Settled(q)' \/ q \in Logs(inHand)' \/ Ahead(q, j)'
                        /\ inHand' = <<f>> \/ flushed'[f] # "pending" => Settled(q)'
      BY <2>1 DEF Covered, FlushInv
    <3>1. /\ \A j \in 1..Len(queue) : queue[j] = f => Settled(q) \/ Ahead(q, j)
          /\ flushed[f] # "pending" => Settled(q)
      BY <2>3 DEF Covered, FlushInv
    <3>2. ASSUME inHand' = <<f>> PROVE Settled(q)
      <4>1. inHand' # <<>>                          BY <3>2
      <4>2. inHand' = <<Head(queue)>>               BY <2>1, <2>2, <4>1
      <4>3. inHand'[1] = Head(queue)                BY <4>2
      <4>4. inHand'[1] = f                          BY <3>2
      <4>5. queue[1] = f                            BY <2>7, <4>3, <4>4
      <4>6. QED BY <2>7, <2>8, <3>1, <4>5
    <3>3. QED BY <2>1, <2>4, <2>5, <3>1, <3>2
  <2>10. QED BY <2>6, <2>9 DEF FlushInv
<1>3. CASE Write
  <2>1. /\ UNCHANGED <<queue, evicted, pc, flushPc, flushed, before>>
        /\ written' = Append(written, inHand[1]) /\ inHand' = <<>>
        /\ thread = "handling" /\ inHand[1] \in Records
    BY <1>3 DEF Write
  <2>2. Len(inHand) = 1  BY <2>1 DEF TypeOK
  <2>3. \A q \in Records : /\ q \in Logs(inHand) => Settled(q)'
                           /\ Settled(q) => Settled(q)'
                           /\ \A j : Ahead(q, j)' = Ahead(q, j)
    <3>1. Logs(inHand) \subseteq {inHand[1]}  BY <2>2 DEF Logs
    <3>2. /\ Len(written) \in Nat /\ Len(written') = Len(written) + 1
          /\ \A i \in 1..Len(written) : written'[i] = written[i]
          /\ written'[Len(written) + 1] = inHand[1]
      BY <2>1, LenProperties DEF TypeOK
    <3>3. QED BY <2>1, <3>1, <3>2 DEF Settled, Logs, Ahead
  <2>4. \A q \in Records : Located(q) => Located(q)'  BY <2>1, <2>3 DEF Located, Logs
  <2>5. ASSUME NEW f \in Flushes, NEW q \in Records PROVE Covered(f, q)'
    BY <2>1, <2>3, EmptySeq DEF FlushInv, Covered
  <2>6. QED BY <2>1, <2>4, <2>5 DEF FlushInv
<1>4. CASE SinkRaises
  <2>1. UNCHANGED <<queue, inHand, written, evicted, pc, flushPc, flushed, before>>
    BY <1>4 DEF SinkRaises
  <2>2. QED BY <2>1 DEF FlushInv, Covered, Located, Settled, Ahead, Logs
<1>5. CASE FlushOutputs
  <2>1. /\ UNCHANGED <<queue, written, evicted, pc, flushPc, before>>
        /\ inHand' = <<>> /\ thread = "handling" /\ inHand[1] \in Flushes
        /\ \E result \in {"ok", "error"} : flushed' = [flushed EXCEPT ![inHand[1]] = result]
    BY <1>5 DEF FlushOutputs
  <2>2. /\ Len(inHand) = 1 /\ inHand \in Seq(Records \cup Flushes)  BY <2>1 DEF TypeOK
  <2>3. inHand = <<inHand[1]>>  BY <2>2
  <2>4. Logs(inHand) = {}       BY <1>1, <2>1, <2>2 DEF Logs
  <2>5. \A q \in Records : /\ Settled(q)' = Settled(q)
                           /\ Located(q) => Located(q)'
                           /\ \A j : Ahead(q, j)' = Ahead(q, j)
    BY <2>1, <2>4 DEF Settled, Located, Ahead, Logs
  <2>6. \A f \in Flushes : f # inHand[1] => flushed'[f] = flushed[f]
    BY <2>1 DEF TypeOK
  <2>7. \A q \in Records : pc'[q] \in {"count_enqueued", "accepted"} => Located(q)'
    BY <2>1, <2>5 DEF FlushInv
  <2>8. ASSUME NEW f \in Flushes, NEW q \in Records PROVE Covered(f, q)'
    BY <2>1, <2>3, <2>4, <2>5, <2>6 DEF FlushInv, Covered
  <2>9. QED BY <2>7, <2>8 DEF FlushInv
<1>6. QED BY <1>2, <1>3, <1>4, <1>5 DEF Listener

LEMMA ListenerRequestInv ==
  ASSUME TypeOK, RequestInv, Listener
  PROVE  RequestInv'
<1> USE DEF callVars, listenerVars, adminVars, flushVars
<1>1. CASE Dequeue
  <2>1. /\ queue # <<>> /\ queue' = Tail(queue) /\ thread = "getting"
        /\ UNCHANGED <<flushPc, flushed>>
        /\ inHand' = IF Head(queue) = Sentinel THEN inHand ELSE <<Head(queue)>>
    BY <1>1 DEF Dequeue
  <2>2. inHand = <<>>  BY <2>1, EmptySeq DEF TypeOK
  <2>3. /\ 1 \in 1..Len(queue) /\ Head(queue) = queue[1]
        /\ \A j \in 1..Len(queue') :
             j + 1 \in 1..Len(queue) /\ j + 1 # 1 /\ queue'[j] = queue[j + 1]
    BY <2>1, TailFacts DEF TypeOK
  <2>4. ASSUME NEW f \in Flushes, inHand' = <<f>> PROVE queue[1] = f
    <3>1. inHand' # <<>>              BY <2>4
    <3>2. inHand' = <<Head(queue)>>   BY <2>1, <2>2, <3>1
    <3>3. inHand'[1] = Head(queue)    BY <3>2
    <3>4. inHand'[1] = f              BY <2>4
    <3>5. QED BY <2>3, <3>3, <3>4
  <2>5. \A i, j \in 1..Len(queue') : i + 1 = j + 1 => i = j  OBVIOUS
  <2>6. QED BY <2>1, <2>3, <2>4, <2>5 DEF RequestInv
<1>2. CASE Write
  <2>1. UNCHANGED <<queue, flushPc, flushed>> /\ inHand' = <<>>  BY <1>2 DEF Write
  <2>2. \A f \in Flushes : inHand' # <<f>>  BY <2>1
  <2>3. QED BY <2>1, <2>2 DEF RequestInv
<1>3. CASE SinkRaises
  BY <1>3 DEF SinkRaises, RequestInv
<1>4. CASE FlushOutputs
  <2>1. /\ UNCHANGED <<queue, flushPc>> /\ inHand' = <<>>
        /\ thread = "handling" /\ inHand[1] \in Flushes
        /\ \E result \in {"ok", "error"} : flushed' = [flushed EXCEPT ![inHand[1]] = result]
    BY <1>4 DEF FlushOutputs
  <2>2. inHand = <<inHand[1]>>                    BY <2>1 DEF TypeOK
  <2>3. \A f \in Flushes : inHand' # <<f>>        BY <2>1
  <2>4. \A f \in Flushes : f # inHand[1] => flushed'[f] = flushed[f]
    BY <2>1 DEF TypeOK
  <2>5. /\ flushPc[inHand[1]] \notin {"idle", "putting", "returned_true"}
        /\ \A j \in 1..Len(queue) : queue[j] # inHand[1]
    BY <2>1, <2>2 DEF RequestInv
  <2>6. QED BY <2>1, <2>3, <2>4, <2>5 DEF RequestInv
<1>5. QED BY <1>1, <1>2, <1>3, <1>4 DEF Listener

LEMMA FlushStepInv ==
  ASSUME TypeOK, RequestInv, FlushInv, NEW f \in Flushes, FlushBegin(f) \/ FlushStep(f)
  PROVE  RequestInv' /\ FlushInv'
<1> USE DEF callVars, listenerVars, adminVars, flushVars
<1>1. /\ UNCHANGED <<pc, inHand, written, evicted, flushed>>
      /\ \A g \in Flushes : g # f => flushPc'[g] = flushPc[g] /\ before'[g] = before[g]
  BY DEF FlushBegin, FlushStep, FlushPut, FlushPutTimeout, FlushDone, FlushTimeout, TypeOK
<1>2. CASE FlushBegin(f)
  <2>1. /\ flushPc[f] = "idle" /\ queue' = queue
        /\ flushPc'[f] \in {"putting", "no_listener"}
        /\ before'[f] = {r \in Records : pc[r] \in Returned}
    BY <1>2 DEF FlushBegin, TypeOK
  <2>2. RequestInv'  BY <1>1, <2>1 DEF RequestInv
  <2>3. \A q \in Records : Settled(q)' = Settled(q) /\ Located(q)' = Located(q)
                            /\ \A j : Ahead(q, j)' = Ahead(q, j)
    BY <1>1, <2>1 DEF Settled, Located, Ahead, Logs
  <2>4. ASSUME NEW g \in Flushes, NEW q \in Records PROVE Covered(g, q)'
    <3>1. CASE g = f   BY <1>1, <2>1, <3>1 DEF RequestInv, Covered
    <3>2. CASE g # f   BY <1>1, <2>1, <2>3, <3>2 DEF FlushInv, Covered
    <3>3. QED BY <3>1, <3>2
  <2>5. \A q \in Records : pc'[q] \in {"count_enqueued", "accepted"} => Located(q)'
    BY <1>1, <2>3 DEF FlushInv
  <2>6. QED BY <2>2, <2>4, <2>5 DEF FlushInv
<1>3. CASE FlushPut(f)
  <2>1. /\ flushPc[f] = "putting" /\ queue' = Append(queue, f)
        /\ flushPc'[f] = "waiting" /\ before' = before
    BY <1>3 DEF FlushPut, Put, TypeOK
  <2>2. /\ \A r \in Records : Settled(r) => Settled(r)'
        /\ \A r \in Records : Located(r) => Located(r)'
        /\ \A r \in Records, j \in 1..Len(queue) :
             queue'[j] = queue[j] /\ (Ahead(r, j) => Ahead(r, j)')
        /\ Len(queue') = Len(queue) + 1 /\ queue'[Len(queue')] = f
    BY <1>1, <2>1, AppendKeeps DEF Items
  <2>3. Len(queue) \in Nat /\ \A j \in 1..Len(queue) : queue'[j] = queue[j]
    BY <2>1, AppendFacts, LenProperties DEF TypeOK, Items
  <2>4. \A j \in 1..Len(queue') : j \in 1..Len(queue) \/ j = Len(queue) + 1
    BY <2>2, <2>3
  <2>5. inHand # <<f>> /\ flushed[f] = "pending" /\ \A j \in 1..Len(queue) : queue[j] # f
    BY <2>1 DEF RequestInv
  <2>6. RequestInv'
    <3>1. ASSUME NEW g \in Flushes, g # f, NEW j \in 1..Len(queue'), queue'[j] = g
          PROVE  j \in 1..Len(queue) /\ queue[j] = g
      BY <2>2, <2>3, <2>4, <3>1
    <3>2. \A j \in 1..Len(queue') : queue'[j] = f => j = Len(queue) + 1
      BY <2>3, <2>4, <2>5
    <3>3. QED BY <1>1, <2>1, <2>5, <3>1, <3>2 DEF RequestInv
  <2>7. ASSUME NEW g \in Flushes, NEW q \in Records PROVE Covered(g, q)'
    <3> SUFFICES ASSUME q \in before[g], pc[q] = "accepted"
                 PROVE  /\ \A j \in 1..Len(queue') : queue'[j] = g =>
                             Settled(q)' \/ q \in Logs(inHand)' \/ Ahead(q, j)'
                        /\ inHand' = <<g>> \/ flushed'[g] # "pending" => Settled(q)'
      BY <1>1, <2>1 DEF Covered, FlushInv
    <3>1. inHand' = <<g>> \/ flushed'[g] # "pending" => Settled(q)'
      BY <1>1, <2>2 DEF Covered, FlushInv
    <3>2. ASSUME NEW j \in 1..Len(queue), queue'[j] = g
          PROVE  Settled(q)' \/ q \in Logs(inHand)' \/ Ahead(q, j)'
      BY <1>1, <2>2, <3>2 DEF Covered, FlushInv
    <3>3. ASSUME NEW j, j = Len(queue) + 1
          PROVE  Settled(q)' \/ q \in Logs(inHand)' \/ Ahead(q, j)'
      <4>1. Located(q)  BY DEF FlushInv
      <4>2. ASSUME q \in Logs(queue) PROVE Ahead(q, j)'
        <5>1. PICK i \in 1..Len(queue) : queue[i] = q  BY <4>2 DEF Logs
        <5>2. i \in 1..Len(queue') /\ i < j /\ queue'[i] = q
          BY <2>2, <2>3, <3>3, <5>1
        <5>3. QED BY <5>2 DEF Ahead
      <4>3. QED BY <1>1, <2>2, <4>1, <4>2 DEF Located
    <3>4. QED BY <2>4, <3>1, <3>2, <3>3
  <2>8. \A q \in Records : pc'[q] \in {"count_enqueued", "accepted"} => Located(q)'
    BY <1>1, <2>2 DEF FlushInv
  <2>9. QED BY <2>6, <2>7, <2>8 DEF FlushInv
<1>4. CASE FlushPutTimeout(f) \/ FlushDone(f) \/ FlushTimeout(f)
  <2>1. /\ UNCHANGED <<queue, before>>
        /\ flushPc'[f] \in {"returned_true", "returned_false"}
        /\ flushPc'[f] = "returned_true" => flushed[f] = "ok"
    BY <1>4 DEF FlushPutTimeout, FlushDone, FlushTimeout, TypeOK
  <2>2. RequestInv'  BY <1>1, <2>1 DEF RequestInv
  <2>3. FlushInv'
    BY <1>1, <2>1 DEF FlushInv, Covered, Located, Settled, Ahead, Logs
  <2>4. QED BY <2>2, <2>3
<1>5. QED BY <1>2, <1>3, <1>4 DEF FlushStep

LEMMA AdminFlushInv ==
  ASSUME TypeOK, RequestInv, FlushInv, Setup \/ BeginTeardown \/ TeardownStep
  PROVE  RequestInv' /\ FlushInv'
<1> USE DEF callVars, listenerVars, adminVars, flushVars
<1>1. /\ UNCHANGED <<pc, inHand, written, evicted, flushed, flushPc, before>>
      /\ queue' = queue \/ queue' = Append(queue, Sentinel)
  BY DEF Setup, StartListener, PublishListener, BeginTeardown, TeardownStep, CloseHandler,
         PutSentinel, SkipSentinel, StopTimeout, Joined, CloseOutputs, ResetTelemetry, Put
<1>2. CASE queue' = queue
  BY <1>1, <1>2 DEF RequestInv, FlushInv, Covered, Located, Settled, Ahead, Logs
<1>3. CASE queue' = Append(queue, Sentinel)
  <2>1. /\ \A r \in Records : Settled(r) => Settled(r)'
        /\ \A r \in Records : Located(r) => Located(r)'
        /\ \A r \in Records, j \in 1..Len(queue) :
             queue'[j] = queue[j] /\ (Ahead(r, j) => Ahead(r, j)')
        /\ Len(queue') = Len(queue) + 1 /\ queue'[Len(queue')] = Sentinel
    BY <1>1, <1>3, AppendKeeps DEF Items
  <2>2. Len(queue) \in Nat /\ \A j \in 1..Len(queue) : queue'[j] = queue[j]
    BY <1>3, AppendFacts, LenProperties DEF TypeOK, Items
  <2>3. \A g \in Flushes, j \in 1..Len(queue') :
          queue'[j] = g => j \in 1..Len(queue) /\ queue[j] = g
    BY <2>1, <2>2, LogQueueAssumption DEF LogQueueAssumption
  <2>4. RequestInv'  BY <1>1, <2>3 DEF RequestInv
  <2>5. ASSUME NEW g \in Flushes, NEW q \in Records PROVE Covered(g, q)'
    BY <1>1, <2>1, <2>3 DEF FlushInv, Covered
  <2>6. \A q \in Records : pc'[q] \in {"count_enqueued", "accepted"} => Located(q)'
    BY <1>1, <2>1 DEF FlushInv
  <2>7. QED BY <2>4, <2>5, <2>6 DEF FlushInv
<1>4. QED BY <1>1, <1>2, <1>3

LEMMA FlushInvariant == Spec => [](RequestInv /\ FlushInv)
<1>1. TypeOK /\ RequestInv /\ FlushInv /\ [Next]_vars => (RequestInv /\ FlushInv)'
  <2> SUFFICES ASSUME TypeOK, RequestInv, FlushInv, [Next]_vars
               PROVE  RequestInv' /\ FlushInv'
    OBVIOUS
  <2>1. CASE UNCHANGED vars
    BY <2>1 DEF vars, callVars, listenerVars, adminVars, flushVars,
                RequestInv, FlushInv, Covered, Located, Settled, Ahead, Logs
  <2>2. CASE Next
    BY <2>2, CallRequestInv, CallFlushInv, ListenerRequestInv, ListenerFlushInv,
       FlushStepInv, AdminFlushInv DEF Next
  <2>3. QED BY <2>1, <2>2
<1>2. QED BY <1>1, InitFlushInv, TypeCorrect, PTL DEF Spec

(* A flush_logging() that went through the queue and returned True has      *)
(* every record accepted before it began written, or evicted by             *)
(* drop_oldest: none is still queued or in the listener's hand.             *)
THEOREM FlushSound == Spec => []FlushedMeansSettled
<1>1. TypeOK /\ RequestInv /\ FlushInv => FlushedMeansSettled
  <2> SUFFICES ASSUME TypeOK, RequestInv, FlushInv, NEW f \in Flushes,
                      flushPc[f] = "returned_true", NEW r \in before[f],
                      pc[r] = "accepted"
               PROVE  Settled(r)
    BY DEF FlushedMeansSettled, Settled
  <2>1. flushed[f] = "ok" /\ r \in Records  BY DEF RequestInv, TypeOK
  <2>2. QED BY <2>1 DEF FlushInv, Covered
<1>2. QED BY <1>1, TypeCorrect, FlushInvariant, PTL

-----------------------------------------------------------------------------
(* Why the counters add up. A record that was put is in exactly one place   *)
(* (the queue, the listener's hand, written or evicted), no item is twice   *)
(* in the queue, and nothing that was evicted comes back; between a step    *)
(* and its count the call is at the place that counts.                      *)
In(places, place) == {r \in Records : places[r] = place}
WasPut == In(pc, "count_enqueued") \cup In(pc, "accepted")
Evicted == evicted \cap Records

PlaceInv ==
  /\ Logs(queue) \cup Logs(inHand) \cup Logs(written) \cup Evicted = WasPut
  /\ Logs(queue) \cap (Logs(inHand) \cup Logs(written) \cup Evicted) = {}
  /\ Logs(inHand) \cap (Logs(written) \cup Evicted) = {}
  /\ Logs(written) \cap Evicted = {}

QueueInv ==
  /\ \A i, j \in 1..Len(queue) : queue[i] = queue[j] => i = j
  /\ \A i \in 1..Len(queue) : queue[i] \notin evicted
  /\ ~sentinelEnqueued => Sentinel \notin evicted
  /\ \A f \in Flushes : flushPc[f] \in {"idle", "putting"} => f \notin evicted

SizeInv == IsFiniteSet(evicted) /\ Len(written) = Cardinality(Logs(written))

CounterInv ==
  admin # "reset" =>
    /\ stats["enqueued"] = Cardinality(In(pc, "accepted"))
    /\ stats["dropped_newest"] = Cardinality(In(pc, "rejected"))
    /\ stats["dropped_oldest"] + Cardinality(In(pc, "count_evicted")) = Cardinality(evicted)

CountInv == PlaceInv /\ QueueInv /\ SizeInv /\ CounterInv

LEMMA OneMore ==
  ASSUME NEW S, NEW x, IsFiniteSet(S), x \notin S
  PROVE  IsFiniteSet(S \cup {x}) /\ Cardinality(S \cup {x}) = Cardinality(S) + 1
  BY FS_AddElement, FS_CardinalityType

LEMMA OneFewer ==
  ASSUME NEW S, NEW x, IsFiniteSet(S), x \in S
  PROVE  Cardinality(S \ {x}) = Cardinality(S) - 1
  BY FS_RemoveElement, FS_CardinalityType

LEMMA Together ==
  ASSUME NEW S, NEW T, IsFiniteSet(S), IsFiniteSet(T), S \cap T = {}
  PROVE  IsFiniteSet(S \cup T) /\ Cardinality(S \cup T) = Cardinality(S) + Cardinality(T)
<1>1. Cardinality(S \cap T) = 0  BY FS_EmptySet
<1>2. Cardinality(S) \in Nat /\ Cardinality(T) \in Nat  BY FS_CardinalityType
<1>3. /\ IsFiniteSet(S \cup T)
      /\ Cardinality(S \cup T) = Cardinality(S) + Cardinality(T) - Cardinality(S \cap T)
  BY FS_Union
<1>4. QED BY <1>1, <1>2, <1>3

LEMMA PlacesAreFinite ==
  ASSUME NEW place
  PROVE  IsFiniteSet(In(pc, place)) /\ Cardinality(In(pc, place)) \in Nat
  BY LogQueueAssumption, FS_Subset, FS_CardinalityType DEF In, LogQueueAssumption

\* Of a sequence with one item more or less.
LEMMA LogsOfAppend ==
  ASSUME NEW seq \in Seq(Items), NEW e \in Items
  PROVE  /\ e \in Records => Logs(Append(seq, e)) = Logs(seq) \cup {e}
         /\ e \notin Records => Logs(Append(seq, e)) = Logs(seq)
<1>1. /\ Len(seq) \in Nat /\ Len(Append(seq, e)) = Len(seq) + 1
      /\ \A i \in 1..Len(seq) : Append(seq, e)[i] = seq[i]
      /\ Append(seq, e)[Len(seq) + 1] = e
  BY AppendFacts, LenProperties
<1>2. \A i \in 1..(Len(seq) + 1) : i \in 1..Len(seq) \/ i = Len(seq) + 1  BY <1>1
<1>3. {Append(seq, e)[i] : i \in 1..Len(Append(seq, e))} = {seq[i] : i \in 1..Len(seq)} \cup {e}
  BY <1>1, <1>2
<1>4. QED BY <1>3 DEF Logs

LEMMA LogsOfTail ==
  ASSUME NEW seq \in Seq(Items), seq # <<>>,
         \A i, j \in 1..Len(seq) : seq[i] = seq[j] => i = j
  PROVE  /\ Logs(Tail(seq)) = Logs(seq) \ {Head(seq)}
         /\ \A i \in 1..Len(Tail(seq)) : Tail(seq)[i] # Head(seq)
<1>1. /\ Len(seq) \in Nat /\ Len(seq) >= 1 /\ Head(seq) = seq[1]
      /\ Len(Tail(seq)) = Len(seq) - 1
      /\ \A i \in 1..Len(Tail(seq)) : Tail(seq)[i] = seq[i + 1] /\ i + 1 \in 1..Len(seq)
  BY TailFacts
<1>2. \A i \in 1..Len(Tail(seq)) : Tail(seq)[i] # Head(seq)  BY <1>1
<1>3. ASSUME NEW i \in 1..Len(seq), seq[i] # Head(seq)
      PROVE  i - 1 \in 1..Len(Tail(seq)) /\ Tail(seq)[i - 1] = seq[i]
  BY <1>1, <1>3
<1>4. {Tail(seq)[i] : i \in 1..Len(Tail(seq))} = {seq[i] : i \in 1..Len(seq)} \ {Head(seq)}
  <2>1. ASSUME NEW x \in {seq[i] : i \in 1..Len(seq)}, x # Head(seq)
        PROVE  x \in {Tail(seq)[i] : i \in 1..Len(Tail(seq))}
    BY <1>3, <2>1
  <2>2. QED BY <1>1, <1>2, <2>1
<1>5. QED BY <1>2, <1>4 DEF Logs

LEMMA InitCountInv == Init => CountInv
<1> SUFFICES ASSUME Init PROVE CountInv
  OBVIOUS
<1>1. \A place \in {"accepted", "rejected", "count_evicted", "count_enqueued"} : In(pc, place) = {}
  BY DEF Init, In
<1>2. Logs(<<>>) = {} /\ Cardinality({}) = 0 /\ IsFiniteSet({}) /\ Len(<<>>) = 0
  BY FS_EmptySet DEF Logs
<1>3. PlaceInv
  BY <1>1, <1>2 DEF Init, PlaceInv, WasPut, Evicted
<1>4. QueueInv /\ SizeInv
  <2>1. 1..Len(queue) = {} /\ queue = <<>> /\ written = <<>> /\ evicted = {}
    BY <1>2 DEF Init
  <2>2. QueueInv  BY <2>1 DEF QueueInv
  <2>3. SizeInv   BY <1>2, <2>1 DEF SizeInv
  <2>4. QED BY <2>2, <2>3
<1>5. CounterInv
  <2>1. /\ Cardinality(In(pc, "accepted")) = 0 /\ Cardinality(In(pc, "rejected")) = 0
        /\ Cardinality(In(pc, "count_evicted")) = 0 /\ Cardinality(evicted) = 0
    BY <1>1, <1>2 DEF Init
  <2>2. stats["enqueued"] = 0 /\ stats["dropped_newest"] = 0 /\ stats["dropped_oldest"] = 0
    BY DEF Init, Counters
  <2>3. QED BY <2>1, <2>2 DEF CounterInv
<1>6. QED BY <1>3, <1>4, <1>5 DEF CountInv

\* What a step of a logging call does to what CountInv speaks of: where the call goes,
\* with the queue, the evicted and the one count that go with it.
Uncounted == UNCHANGED <<stats["enqueued"], stats["dropped_newest"], stats["dropped_oldest"]>>
Elsewhere(place) == place \notin {"count_enqueued", "accepted", "rejected", "count_evicted"}
LEMMA CallCounts ==
  ASSUME TypeOK, NEW r \in Records, Begin(r) \/ CallStep(r)
  PROVE  /\ UNCHANGED <<inHand, written, flushPc, admin, sentinelEnqueued>>
         /\ \A q \in Records : q # r => pc'[q] = pc[q]
         /\ \/ /\ Elsewhere(pc[r]) /\ Elsewhere(pc'[r])
               /\ UNCHANGED <<queue, evicted>> /\ Uncounted
            \/ /\ Elsewhere(pc[r]) /\ pc'[r] = "rejected"
               /\ UNCHANGED <<queue, evicted, stats["enqueued"], stats["dropped_oldest"]>>
               /\ stats'["dropped_newest"] = stats["dropped_newest"] + 1
            \/ /\ Elsewhere(pc[r]) /\ pc'[r] = "count_enqueued"
               /\ queue' = Append(queue, r) /\ UNCHANGED evicted /\ Uncounted
            \/ /\ pc[r] = "evicting" /\ pc'[r] = "count_evicted"
               /\ queue # <<>> /\ queue' = Tail(queue)
               /\ evicted' = evicted \cup {Head(queue)} /\ Uncounted
            \/ /\ pc[r] = "count_evicted" /\ pc'[r] = "putting_again"
               /\ UNCHANGED <<queue, evicted, stats["enqueued"], stats["dropped_newest"]>>
               /\ stats'["dropped_oldest"] = stats["dropped_oldest"] + 1
            \/ /\ pc[r] = "count_enqueued" /\ pc'[r] = "accepted"
               /\ UNCHANGED <<queue, evicted, stats["dropped_newest"], stats["dropped_oldest"]>>
               /\ stats'["enqueued"] = stats["enqueued"] + 1
<1> USE DEF callVars, listenerVars, adminVars, flushVars, Goto, Count, Elsewhere, Uncounted,
            Counters, TypeOK
<1>1. CASE Begin(r) \/ PrepareFails(r) \/ Enter(r)
  BY <1>1 DEF Begin, PrepareFails, Enter
<1>2. CASE PutNowait(r) \/ BlockedPut(r)
  BY <1>2 DEF PutNowait, BlockedPut, Put
<1>3. CASE Overflow(r)
  BY <1>3 DEF Overflow
<1>4. CASE Evict(r)
  BY <1>4 DEF Evict
<1>5. CASE PutAgain(r)
  BY <1>5 DEF PutAgain, Put
<1>6. CASE BlockTimeout(r)
  BY <1>6 DEF BlockTimeout
<1>7. CASE CountEvicted(r)
  BY <1>7 DEF CountEvicted
<1>8. CASE CountEnqueued(r) \/ CountRejected(r)
  BY <1>8 DEF CountEnqueued, CountRejected
<1>9. QED BY <1>1, <1>2, <1>3, <1>4, <1>5, <1>6, <1>7, <1>8 DEF CallStep

\* Where the calls are, in the words of CounterInv and PlaceInv.
LEMMA CallMoves ==
  ASSUME TypeOK, NEW r \in Records, Begin(r) \/ CallStep(r), NEW place
  PROVE  In(pc', place) = IF pc'[r] = place THEN In(pc, place) \cup {r} ELSE In(pc, place) \ {r}
<1>1. \A q \in Records : q # r => pc'[q] = pc[q]
  <2>1. UNCHANGED <<inHand, written, flushPc, admin, sentinelEnqueued>>
        /\ \A q \in Records : q # r => pc'[q] = pc[q]
    BY CallCounts
  <2>2. QED BY <2>1
<1>2. QED BY <1>1 DEF In

LEMMA CallPlaceInv ==
  ASSUME TypeOK, TeardownInv, RequestInv, CountInv, NEW r \in Records, Begin(r) \/ CallStep(r)
  PROVE  PlaceInv' /\ QueueInv' /\ SizeInv'
<1> DEFINE stays == pc'[r] \in {"count_enqueued", "accepted"} <=> pc[r] \in {"count_enqueued", "accepted"}
<1>1. UNCHANGED <<inHand, written, flushPc, admin, sentinelEnqueued>>
  BY CallCounts
<1>2. /\ UNCHANGED <<Logs(inHand), Logs(written)>>
      /\ queue \in Seq(Items) /\ Len(queue) \in Nat /\ r \in Items
  BY <1>1, LenProperties DEF Logs, TypeOK, Items
<1>3. CASE UNCHANGED <<queue, evicted>> /\ stays
  <2>1. WasPut' = WasPut  BY <1>3, CallMoves DEF WasPut, In
  <2>2. UNCHANGED <<Logs(queue), Evicted>>  BY <1>3 DEF Logs, Evicted
  <2>3. QED BY <1>1, <1>2, <1>3, <2>1, <2>2 DEF CountInv, PlaceInv, QueueInv, SizeInv
<1>4. CASE Elsewhere(pc[r]) /\ pc'[r] = "count_enqueued" /\ queue' = Append(queue, r) /\ UNCHANGED evicted
  <2>1. WasPut' = WasPut \cup {r} /\ r \notin WasPut
    <3>1. In(pc', "count_enqueued") = In(pc, "count_enqueued") \cup {r}
      BY <1>4, CallMoves
    <3>2. In(pc', "accepted") = In(pc, "accepted") \ {r} /\ r \notin In(pc, "accepted")
      BY <1>4, CallMoves DEF In, Elsewhere
    <3>3. r \notin In(pc, "count_enqueued")  BY <1>4 DEF In, Elsewhere
    <3>4. QED BY <3>1, <3>2, <3>3 DEF WasPut
  <2>2. Logs(queue)' = Logs(queue) \cup {r} /\ Evicted' = Evicted
    BY <1>2, <1>4, LogsOfAppend DEF Logs, Evicted
  <2>3. /\ Len(queue') = Len(queue) + 1 /\ queue'[Len(queue) + 1] = r
        /\ \A i \in 1..Len(queue) : queue'[i] = queue[i] /\ queue[i] # r
    <3>1. r \notin Logs(queue)  BY <2>1 DEF CountInv, PlaceInv
    <3>2. \A i \in 1..Len(queue) : queue[i] # r  BY <3>1 DEF Logs
    <3>3. QED BY <1>2, <1>4, <3>2, AppendFacts
  <2>4. r \notin evicted  BY <2>1 DEF CountInv, PlaceInv, Evicted
  <2>5. QueueInv'
    BY <1>1, <1>2, <1>4, <2>3, <2>4 DEF CountInv, QueueInv
  <2>6. PlaceInv'
    BY <1>2, <2>1, <2>2 DEF CountInv, PlaceInv
  <2>7. QED BY <1>1, <1>2, <1>4, <2>5, <2>6 DEF CountInv, SizeInv
<1>5. CASE /\ pc[r] = "evicting" /\ pc'[r] = "count_evicted"
           /\ queue # <<>> /\ queue' = Tail(queue) /\ evicted' = evicted \cup {Head(queue)}
  <2>1. WasPut' = WasPut  BY <1>5, CallMoves DEF WasPut, In
  <2>2. /\ Logs(queue)' = Logs(queue) \ {Head(queue)}
        /\ \A i \in 1..Len(queue') : queue'[i] # Head(queue)
    <3>1. \A i, j \in 1..Len(queue) : queue[i] = queue[j] => i = j
      BY DEF CountInv, QueueInv
    <3>2. /\ Logs(Tail(queue)) = Logs(queue) \ {Head(queue)}
          /\ \A i \in 1..Len(Tail(queue)) : Tail(queue)[i] # Head(queue)
      BY <1>2, <1>5, <3>1, LogsOfTail
    <3>3. QED BY <1>5, <3>2 DEF Logs
  <2>3. /\ Len(queue) >= 1 /\ Head(queue) = queue[1]
        /\ \A i \in 1..Len(queue') : queue'[i] = queue[i + 1] /\ i + 1 \in 1..Len(queue)
    BY <1>2, <1>5, TailFacts
  <2>4. Head(queue) # Sentinel /\ Head(queue) \in Items
    <3>1. NoSentinel  BY <1>5, CriticalMeansOpen DEF Critical
    <3>2. QED BY <1>2, <2>3, <3>1, ElementOfSeq DEF NoSentinel
  <2>5. Evicted' = Evicted \cup ({Head(queue)} \cap Records)
    BY <1>5 DEF Evicted
  <2>6. {Head(queue)} \cap Records \subseteq Logs(queue)
    BY <1>2, <2>3 DEF Logs
  <2>7. PlaceInv'
    <3>1. Logs(queue') = Logs(queue) \ ({Head(queue)} \cap Records)
      BY <2>2 DEF Logs
    <3>2. Logs(inHand') = Logs(inHand) /\ Logs(written') = Logs(written)
      BY <1>1
    <3>3. QED BY <2>1, <2>5, <2>6, <3>1, <3>2 DEF CountInv, PlaceInv
  <2>8. \A f \in Flushes : flushPc[f] \in {"idle", "putting"} => f # Head(queue)
    BY <1>2, <2>3 DEF RequestInv
  <2>9. QueueInv'
    <3>1. \A i, j \in 1..Len(queue') : queue'[i] = queue'[j] => i = j
      BY <1>2, <2>3 DEF CountInv, QueueInv
    <3>2. \A i \in 1..Len(queue') : queue'[i] \notin evicted'
      BY <1>5, <2>2, <2>3 DEF CountInv, QueueInv
    <3>3. QED BY <1>1, <1>5, <2>4, <2>8, <3>1, <3>2 DEF CountInv, QueueInv
  <2>10. IsFiniteSet(evicted')  BY <1>5, FS_AddElement DEF CountInv, SizeInv
  <2>11. QED BY <1>1, <1>2, <2>7, <2>9, <2>10 DEF CountInv, SizeInv
<1>6. QED
  BY <1>3, <1>4, <1>5, CallCounts DEF Elsewhere

LEMMA CallCounterInv ==
  ASSUME TypeOK, CountInv, NEW r \in Records, Begin(r) \/ CallStep(r)
  PROVE  CounterInv'

<1>1. SUFFICES ASSUME admin # "reset"
               PROVE  /\ stats'["enqueued"] = Cardinality(In(pc', "accepted"))
                      /\ stats'["dropped_newest"] = Cardinality(In(pc', "rejected"))
                      /\ stats'["dropped_oldest"] + Cardinality(In(pc', "count_evicted")) = Cardinality(evicted')
  BY CallCounts DEF CounterInv
<1>2. /\ stats["enqueued"] = Cardinality(In(pc, "accepted"))
      /\ stats["dropped_newest"] = Cardinality(In(pc, "rejected"))
      /\ stats["dropped_oldest"] + Cardinality(In(pc, "count_evicted")) = Cardinality(evicted)
      /\ IsFiniteSet(evicted)
  BY <1>1 DEF CountInv, CounterInv, SizeInv
<1>3. /\ stats["dropped_oldest"] \in Nat /\ Cardinality(evicted) \in Nat
  BY <1>2, FS_CardinalityType DEF TypeOK, Counters
<1>4. ASSUME NEW place, pc[r] # place, pc'[r] # place
      PROVE  Cardinality(In(pc', place)) = Cardinality(In(pc, place))
  <2>1. In(pc', place) = In(pc, place)  BY <1>4, CallMoves DEF In
  <2>2. QED BY <2>1
<1>5. ASSUME NEW place, pc[r] # place, pc'[r] = place
      PROVE  Cardinality(In(pc', place)) = Cardinality(In(pc, place)) + 1
  <2>1. In(pc', place) = In(pc, place) \cup {r} /\ r \notin In(pc, place)  BY <1>5, CallMoves DEF In
  <2>2. QED BY <2>1, PlacesAreFinite, OneMore
<1>6. ASSUME NEW place, pc[r] = place, pc'[r] # place
      PROVE  Cardinality(In(pc', place)) = Cardinality(In(pc, place)) - 1
  <2>1. In(pc', place) = In(pc, place) \ {r} /\ r \in In(pc, place)  BY <1>6, CallMoves DEF In
  <2>2. QED BY <2>1, PlacesAreFinite, OneFewer
<1>7. \A place : Cardinality(In(pc, place)) \in Nat  BY PlacesAreFinite
<1>8. CASE /\ queue # <<>> /\ queue' = Tail(queue) /\ evicted' = evicted \cup {Head(queue)}
           /\ pc[r] = "evicting" /\ pc'[r] = "count_evicted" /\ Uncounted
  <2>1. Head(queue) \notin evicted
    <3>1. Head(queue) = queue[1] /\ 1 \in 1..Len(queue)  BY <1>8, TailFacts DEF TypeOK
    <3>2. QED BY <3>1 DEF CountInv, QueueInv
  <2>2. Cardinality(evicted \cup {Head(queue)}) = Cardinality(evicted) + 1
    BY <1>2, <2>1, OneMore
  <2>3. Cardinality(evicted') = Cardinality(evicted) + 1  BY <1>8, <2>2
  <2>4. /\ Cardinality(In(pc', "accepted")) = Cardinality(In(pc, "accepted"))
        /\ Cardinality(In(pc', "rejected")) = Cardinality(In(pc, "rejected"))
    BY <1>4, <1>8
  <2>5. Cardinality(In(pc', "count_evicted")) = Cardinality(In(pc, "count_evicted")) + 1
    BY <1>5, <1>8
  <2>6. QED BY <1>2, <1>3, <1>7, <1>8, <2>3, <2>4, <2>5 DEF Uncounted
<1>9. CASE evicted' = evicted /\ Elsewhere(pc[r]) /\ (Elsewhere(pc'[r]) \/ pc'[r] = "count_enqueued") /\ Uncounted
  BY <1>2, <1>3, <1>4, <1>9 DEF Elsewhere, Uncounted
<1>10. CASE /\ Elsewhere(pc[r]) /\ pc'[r] = "rejected"
            /\ UNCHANGED <<evicted, stats["enqueued"], stats["dropped_oldest"]>>
            /\ stats'["dropped_newest"] = stats["dropped_newest"] + 1
  BY <1>2, <1>3, <1>4, <1>5, <1>10 DEF Elsewhere
<1>11. CASE /\ pc[r] = "count_evicted" /\ pc'[r] = "putting_again"
            /\ UNCHANGED <<evicted, stats["enqueued"], stats["dropped_newest"]>>
            /\ stats'["dropped_oldest"] = stats["dropped_oldest"] + 1
  BY <1>2, <1>3, <1>4, <1>6, <1>7, <1>11
<1>12. CASE /\ pc[r] = "count_enqueued" /\ pc'[r] = "accepted"
            /\ UNCHANGED <<evicted, stats["dropped_newest"], stats["dropped_oldest"]>>
            /\ stats'["enqueued"] = stats["enqueued"] + 1
  BY <1>2, <1>3, <1>4, <1>5, <1>12
<1>13. QED
  BY <1>8, <1>9, <1>10, <1>11, <1>12, CallCounts

\* The other threads count nothing. What they may change besides the queue:
Onward ==
  /\ UNCHANGED <<pc, stats, evicted>>
  /\ sentinelEnqueued => sentinelEnqueued'
  /\ \A f \in Flushes : flushPc'[f] \in {"idle", "putting"} => flushPc[f] \in {"idle", "putting"}
  /\ admin' # "reset" => admin # "reset"

LEMMA OnwardKeeps ==
  ASSUME CountInv, Onward
  PROVE  /\ WasPut' = WasPut /\ Evicted' = Evicted
         /\ IsFiniteSet(evicted')
         /\ ~sentinelEnqueued' => Sentinel \notin evicted'
         /\ \A f \in Flushes : flushPc'[f] \in {"idle", "putting"} => f \notin evicted'
         /\ CounterInv'
<1>1. WasPut' = WasPut /\ Evicted' = Evicted  BY DEF Onward, WasPut, Evicted
<1>2. CounterInv'  BY DEF Onward, CountInv, CounterInv
<1>3. QED BY <1>1, <1>2 DEF Onward, CountInv, QueueInv, SizeInv

LEMMA NothingMoves ==
  ASSUME CountInv, Onward, UNCHANGED <<queue, inHand, written>>
  PROVE  CountInv'
<1>1. UNCHANGED <<Logs(queue), Logs(inHand), Logs(written)>>  BY DEF Logs
<1>2. PlaceInv'  BY <1>1, OnwardKeeps DEF CountInv, PlaceInv
<1>3. QueueInv'  BY OnwardKeeps DEF CountInv, QueueInv, Onward
<1>4. SizeInv'   BY <1>1, OnwardKeeps DEF CountInv, SizeInv
<1>5. QED BY <1>2, <1>3, <1>4, OnwardKeeps DEF CountInv

\* A flush request or the sentinel is put.
LEMMA OtherPut ==
  ASSUME TypeOK, CountInv, Onward, NEW e \in Items, e \notin Records, e \notin evicted,
         \A i \in 1..Len(queue) : queue[i] # e,
         queue' = Append(queue, e), UNCHANGED <<inHand, written>>
  PROVE  CountInv'
<1>1. queue \in Seq(Items)  BY DEF TypeOK
<1>2. Logs(queue') = Logs(queue) /\ Logs(inHand') = Logs(inHand) /\ Logs(written') = Logs(written)
  <2>1. Logs(Append(queue, e)) = Logs(queue)  BY <1>1, LogsOfAppend
  <2>2. QED BY <2>1
<1>3. PlaceInv'  BY <1>2, OnwardKeeps DEF CountInv, PlaceInv
<1>4. QueueInv'
  <2>1. /\ Len(queue) \in Nat /\ Len(queue') = Len(queue) + 1
        /\ \A i \in 1..Len(queue) : queue'[i] = queue[i]
        /\ queue'[Len(queue) + 1] = e
    BY <1>1, AppendFacts, LenProperties
  <2>2. \A i, j \in 1..Len(queue') : queue'[i] = queue'[j] => i = j
    BY <2>1 DEF CountInv, QueueInv
  <2>3. \A i \in 1..Len(queue') : queue'[i] \notin evicted'
    BY <2>1 DEF CountInv, QueueInv, Onward
  <2>4. QED BY <2>2, <2>3, OnwardKeeps DEF QueueInv
<1>5. SizeInv'   BY <1>2, OnwardKeeps DEF CountInv, SizeInv
<1>6. QED BY <1>3, <1>4, <1>5, OnwardKeeps DEF CountInv

LEMMA LogsInHand ==
  ASSUME TypeOK
  PROVE  /\ thread = "getting" => inHand = <<>> /\ Logs(inHand) = {}
         /\ thread = "handling" => Logs(inHand) = {inHand[1]} \cap Records
<1>1. ASSUME thread = "getting" PROVE inHand = <<>> /\ Logs(inHand) = {}
  BY <1>1, EmptySeq DEF TypeOK, Logs
<1>2. ASSUME thread = "handling" PROVE Logs(inHand) = {inHand[1]} \cap Records
  BY <1>2 DEF TypeOK, Logs
<1>3. QED BY <1>1, <1>2

LEMMA SeqOfItems == Seq(Records) \subseteq Seq(Items)
  BY DEF Items

LEMMA ListenerCountInv ==
  ASSUME TypeOK, CountInv, Listener
  PROVE  CountInv'
<1> USE DEF callVars, listenerVars, adminVars, flushVars
<1>1. Onward
  BY DEF Listener, Dequeue, Write, SinkRaises, FlushOutputs, Onward
<1>2. CASE Dequeue
  <2>1. /\ queue \in Seq(Items) /\ queue # <<>> /\ queue' = Tail(queue) /\ written' = written
        /\ thread = "getting" /\ inHand = <<>> /\ Logs(inHand) = {}
        /\ \A i, j \in 1..Len(queue) : queue[i] = queue[j] => i = j
    BY <1>2, LogsInHand DEF Dequeue, TypeOK, CountInv, QueueInv
  <2>2. /\ Logs(Tail(queue)) = Logs(queue) \ {Head(queue)}
        /\ Len(queue) >= 1 /\ Len(queue) \in Nat /\ Head(queue) = queue[1]
        /\ \A i \in 1..Len(Tail(queue)) : Tail(queue)[i] = queue[i + 1] /\ i + 1 \in 1..Len(queue)
        /\ Len(Tail(queue)) = Len(queue) - 1
    BY <2>1, LogsOfTail, TailFacts
  <2>3. Logs(inHand') = {Head(queue)} \cap Records
    <3>1. CASE Head(queue) = Sentinel
      BY <1>2, <2>1, <3>1, LogQueueAssumption DEF Dequeue, LogQueueAssumption
    <3>2. CASE Head(queue) # Sentinel
      <4>1. inHand' = <<Head(queue)>>  BY <1>2, <3>2 DEF Dequeue
      <4>2. QED BY <4>1 DEF Logs
    <3>3. QED BY <3>1, <3>2
  <2>4. /\ Logs(queue') = Logs(queue) \ ({Head(queue)} \cap Records)
        /\ {Head(queue)} \cap Records \subseteq Logs(queue)
    <3>1. Logs(queue') = Logs(queue) \ {Head(queue)}  BY <2>1, <2>2
    <3>2. QED BY <2>2, <3>1 DEF Logs
  <2>5. PlaceInv'
    <3>1. Logs(written') = Logs(written)  BY <2>1
    <3>2. QED BY <2>1, <2>3, <2>4, <3>1, <1>1, OnwardKeeps DEF CountInv, PlaceInv
  <2>6. QueueInv'
    <3>1. \A i, j \in 1..Len(queue') : queue'[i] = queue'[j] => i = j
      BY <2>1, <2>2
    <3>2. \A i \in 1..Len(queue') : queue'[i] \notin evicted'
      BY <1>1, <2>1, <2>2 DEF CountInv, QueueInv, Onward
    <3>3. QED BY <1>1, <3>1, <3>2, OnwardKeeps DEF QueueInv
  <2>7. SizeInv'  BY <1>1, <2>1, OnwardKeeps DEF CountInv, SizeInv
  <2>8. QED BY <1>1, <2>5, <2>6, <2>7, OnwardKeeps DEF CountInv
<1>3. CASE Write
  <2> DEFINE x == inHand[1]
  <2>1. /\ x \in Records /\ Logs(inHand) = {x} /\ inHand' = <<>>
        /\ written \in Seq(Records) /\ written' = Append(written, x) /\ queue' = queue
    BY <1>3, LogsInHand DEF Write, TypeOK
  <2>2. x \notin Logs(written)  BY <2>1 DEF CountInv, PlaceInv
  <2>3. Logs(written') = Logs(written) \cup {x}
    <3>1. written \in Seq(Items) /\ x \in Items  BY <2>1, SeqOfItems DEF Items
    <3>2. QED BY <2>1, <3>1, LogsOfAppend
  <2>4. Logs(inHand') = {} /\ Logs(queue') = Logs(queue)  BY <2>1 DEF Logs
  <2>5. PlaceInv'  BY <1>1, <2>1, <2>3, <2>4, OnwardKeeps DEF CountInv, PlaceInv
  <2>6. SizeInv'
    <3>1. IsFiniteSet(Logs(written))
      BY LogQueueAssumption, FS_Subset DEF LogQueueAssumption, Logs
    <3>2. Cardinality(Logs(written) \cup {x}) = Cardinality(Logs(written)) + 1
      BY <2>2, <3>1, OneMore
    <3>3. Len(written') = Len(written) + 1  BY <2>1
    <3>4. QED BY <1>1, <2>3, <3>2, <3>3, OnwardKeeps DEF CountInv, SizeInv
  <2>7. QueueInv'  BY <1>1, <2>1, OnwardKeeps DEF CountInv, QueueInv, Onward
  <2>8. QED BY <1>1, <2>5, <2>6, <2>7, OnwardKeeps DEF CountInv
<1>4. CASE SinkRaises
  BY <1>1, <1>4, NothingMoves DEF SinkRaises
<1>5. CASE FlushOutputs
  <2>1. /\ inHand[1] \in Flushes /\ inHand' = <<>> /\ UNCHANGED <<queue, written>>
        /\ Logs(inHand) = {inHand[1]} \cap Records
    BY <1>5, LogsInHand DEF FlushOutputs
  <2>2. /\ Logs(inHand) = {} /\ Logs(inHand') = {}
        /\ Logs(queue') = Logs(queue) /\ Logs(written') = Logs(written)
    BY <2>1, LogQueueAssumption DEF Logs, LogQueueAssumption
  <2>3. PlaceInv'  BY <1>1, <2>2, OnwardKeeps DEF CountInv, PlaceInv
  <2>4. QueueInv'  BY <1>1, <2>1, OnwardKeeps DEF CountInv, QueueInv, Onward
  <2>5. SizeInv'   BY <1>1, <2>1, <2>2, OnwardKeeps DEF CountInv, SizeInv
  <2>6. QED BY <1>1, <2>3, <2>4, <2>5, OnwardKeeps DEF CountInv
<1>6. QED BY <1>2, <1>3, <1>4, <1>5 DEF Listener

LEMMA FlushCountInv ==
  ASSUME TypeOK, RequestInv, CountInv, NEW f \in Flushes, FlushBegin(f) \/ FlushStep(f)
  PROVE  CountInv'
<1> USE DEF callVars, listenerVars, adminVars, flushVars
<1>1. Onward
  BY DEF FlushBegin, FlushStep, FlushPut, FlushPutTimeout, FlushDone, FlushTimeout, Onward, TypeOK
<1>2. CASE FlushPut(f)
  <2>1. /\ flushPc[f] = "putting" /\ queue' = Append(queue, f) /\ UNCHANGED <<inHand, written>>
    BY <1>2 DEF FlushPut, Put
  <2>2. f \in Items /\ f \notin Records  BY LogQueueAssumption DEF LogQueueAssumption, Items
  <2>3. f \notin evicted /\ \A i \in 1..Len(queue) : queue[i] # f
    BY <2>1 DEF RequestInv, CountInv, QueueInv
  <2>4. QED BY <1>1, <2>1, <2>2, <2>3, OtherPut
<1>3. CASE ~FlushPut(f)
  <2>1. UNCHANGED <<queue, inHand, written>>
    BY <1>3 DEF FlushBegin, FlushStep, FlushPutTimeout, FlushDone, FlushTimeout
  <2>2. QED BY <1>1, <2>1, NothingMoves
<1>4. QED BY <1>2, <1>3

LEMMA AdminCountInv ==
  ASSUME TypeOK, TeardownInv, CountInv, Setup \/ BeginTeardown \/ TeardownStep
  PROVE  CountInv'
<1> USE DEF callVars, listenerVars, adminVars, flushVars
<1>1. CASE ResetTelemetry
  <2>1. UNCHANGED <<queue, inHand, written, evicted, pc, flushPc, sentinelEnqueued>> /\ admin' = "reset"
    BY <1>1 DEF ResetTelemetry
  <2>2. UNCHANGED <<Logs(queue), Logs(inHand), Logs(written), WasPut, Evicted>>
    BY <2>1 DEF Logs, WasPut, Evicted
  <2>3. PlaceInv'  BY <2>2 DEF CountInv, PlaceInv
  <2>4. QED BY <2>1, <2>2, <2>3 DEF CountInv, QueueInv, SizeInv, CounterInv
<1>2. CASE PutSentinel
  <2>1. /\ ~sentinelEnqueued /\ queue' = Append(queue, Sentinel) /\ UNCHANGED <<inHand, written>>
        /\ Onward
    BY <1>2 DEF PutSentinel, Put, Onward
  <2>2. Sentinel \in Items /\ Sentinel \notin Records
    BY LogQueueAssumption DEF LogQueueAssumption, Items
  <2>3. Sentinel \notin evicted /\ \A i \in 1..Len(queue) : queue[i] # Sentinel
    BY <2>1 DEF TeardownInv, NoSentinel, CountInv, QueueInv
  <2>4. QED BY <2>1, <2>2, <2>3, OtherPut
<1>3. CASE ~ResetTelemetry /\ ~PutSentinel
  <2>1. Onward /\ UNCHANGED <<queue, inHand, written>>
    BY <1>3 DEF Setup, TeardownStep, StartListener, PublishListener, BeginTeardown, CloseHandler,
                SkipSentinel, StopTimeout, Joined, CloseOutputs, Onward
  <2>2. QED BY <2>1, NothingMoves
<1>4. QED BY <1>1, <1>2, <1>3

LEMMA CountInvariant == Spec => []CountInv
<1>1. TypeOK /\ TeardownInv /\ RequestInv /\ CountInv /\ [Next]_vars => CountInv'
  <2> SUFFICES ASSUME TypeOK, TeardownInv, RequestInv, CountInv, [Next]_vars PROVE CountInv'
    OBVIOUS
  <2>1. CASE UNCHANGED vars
    BY <2>1, NothingMoves DEF vars, callVars, listenerVars, adminVars, flushVars, Onward
  <2>2. ASSUME NEW r \in Records, Begin(r) \/ CallStep(r) PROVE CountInv'
    BY <2>2, CallPlaceInv, CallCounterInv DEF CountInv
  <2>3. QED
    BY <2>1, <2>2, ListenerCountInv, FlushCountInv, AdminCountInv DEF Next
<1>2. QED
  BY <1>1, InitCountInv, TypeCorrect, TeardownInvariant, FlushInvariant, PTL DEF Spec

(* Decision 0002, "Drops are counted and exported": for any set of calls    *)
(* and any queue size the counters account for every call that returned,    *)
(* through every eviction, time-out, teardown and failure of a sink.        *)
THEOREM DropsCounted == Spec => []DropsAreCounted
<1>1. TypeOK /\ CountInv => DropsAreCounted
  <2> SUFFICES ASSUME TypeOK, CountInv, HandlerLockFree, admin # "reset"
      PROVE  /\ stats["enqueued"] = Cardinality(At("accepted"))
             /\ stats["enqueued"] = Len(written) + Cardinality(Logs(queue) \cup Logs(inHand))
                                      + Cardinality(evicted \cap Records)
             /\ stats["dropped_oldest"] = Cardinality(evicted)
             /\ stats["dropped_newest"] = Cardinality(At("rejected"))
    BY DEF DropsAreCounted
  <2>1. In(pc, "count_enqueued") = {} /\ In(pc, "count_evicted") = {}
    BY DEF HandlerLockFree, Critical, In
  <2>2. /\ stats["enqueued"] = Cardinality(In(pc, "accepted"))
        /\ stats["dropped_newest"] = Cardinality(In(pc, "rejected"))
        /\ stats["dropped_oldest"] + Cardinality(In(pc, "count_evicted")) = Cardinality(evicted)
    BY DEF CountInv, CounterInv
  <2>3. Cardinality(In(pc, "count_evicted")) = 0  BY <2>1, FS_EmptySet
  <2>4. stats["dropped_oldest"] = Cardinality(evicted)
    BY <2>2, <2>3 DEF TypeOK, Counters
  <2> DEFINE waiting == Logs(queue) \cup Logs(inHand)
             done    == Logs(written) \cup Evicted
  <2>5. In(pc, "accepted") = waiting \cup done
    BY <2>1 DEF CountInv, PlaceInv, WasPut
  <2>6. waiting \cap done = {} /\ Logs(written) \cap Evicted = {}
    BY DEF CountInv, PlaceInv
  <2>7. IsFiniteSet(waiting) /\ IsFiniteSet(Logs(written)) /\ IsFiniteSet(Evicted)
    BY LogQueueAssumption, FS_Subset DEF LogQueueAssumption, Logs, Evicted
  <2>8. IsFiniteSet(done) /\ Cardinality(done) = Cardinality(Logs(written)) + Cardinality(Evicted)
    BY <2>6, <2>7, Together
  <2>9. Cardinality(waiting \cup done) = Cardinality(waiting) + Cardinality(done)
    BY <2>6, <2>7, <2>8, Together
  <2>10. /\ Cardinality(waiting) \in Nat /\ Cardinality(Logs(written)) \in Nat
         /\ Cardinality(Evicted) \in Nat
    BY <2>7, FS_CardinalityType
  <2>11. Len(written) = Cardinality(Logs(written))  BY DEF CountInv, SizeInv
  <2>12. stats["enqueued"] = Len(written) + Cardinality(waiting) + Cardinality(Evicted)
    <3>1. Cardinality(In(pc, "accepted")) = Cardinality(waiting \cup done)  BY <2>5
    <3> HIDE DEF waiting, done
    <3>2. QED BY <2>2, <2>8, <2>9, <2>10, <2>11, <3>1
  <2>13. QED BY <2>2, <2>4, <2>12 DEF At, In, Evicted
<1>2. QED BY <1>1, TypeCorrect, CountInvariant, PTL

-----------------------------------------------------------------------------
(* What RecordsOf computes, for every sequence: by induction on the natural *)
(* numbers, put as a statement about sets of them.                          *)
LEMMA LessThanWellFounded == IsWellFoundedOn({ss \in Nat \X Nat : ss[1] < ss[2]}, Nat)
  BY NatLessThanWellFounded DEF OpToRel

LEMMA Induction ==
  ASSUME NEW S, 0 \in S, \A n \in Nat : n \in S => n + 1 \in S
  PROVE  \A n \in Nat : n \in S
<1> DEFINE less == {ss \in Nat \X Nat : ss[1] < ss[2]}
<1>1. SUFFICES ASSUME Nat \ S # {} PROVE FALSE
  OBVIOUS
<1>2. PICK n \in Nat \ S : \A m \in Nat \ S : ~(<<m, n>> \in less)
  <2>1. IsWellFoundedOn(less, Nat) /\ Nat \ S \subseteq Nat  BY LessThanWellFounded
  <2> HIDE DEF less
  <2>2. QED BY <1>1, <2>1, WFMin
<1>3. n # 0 /\ n - 1 \in Nat /\ <<n - 1, n>> \in less /\ n = (n - 1) + 1
  BY <1>2
<1>4. QED BY <1>2, <1>3

\* f[i] are the records among the first i items.
Select(f, items, i) == IF items[i] \in Records THEN Append(f[i - 1], items[i]) ELSE f[i - 1]
Selects(f, items, n) == f[0] = <<>> /\ \A i \in 1..n : f[i] = Select(f, items, i)

LEMMA RecordsOfSelects ==
  ASSUME NEW items, Len(items) \in Nat
  PROVE  \E f : Selects(f, items, Len(items)) /\ RecordsOf(items) = f[Len(items)]
<1> DEFINE Solves(f, n) == f = [i \in 0..n |-> IF i = 0 THEN <<>> ELSE Select(f, items, i)]
           S == {n \in Nat : \E f : Solves(f, n)}
<1>1. 0 \in S
  <2>1. PICK f : f = [i \in 0..0 |-> <<>>]  OBVIOUS
  <2>2. Solves(f, 0)  BY <2>1
  <2>3. QED BY <2>2
<1>2. ASSUME NEW n \in Nat, n \in S PROVE n + 1 \in S
  <2>1. PICK f : Solves(f, n)  BY <1>2
  <2>2. PICK g : g = [i \in 0..(n + 1) |-> IF i \in 0..n THEN f[i] ELSE Select(f, items, i)]
    OBVIOUS
  <2>3. /\ \A i \in 0..n : g[i] = f[i] /\ i \in 0..(n + 1)
        /\ g[n + 1] = Select(f, items, n + 1) /\ n \in 0..n
    BY <2>2
  <2>4. \A i \in 0..n : f[i] = IF i = 0 THEN <<>> ELSE Select(f, items, i)
    <3> HIDE DEF S
    <3>1. QED BY <2>1
  <2>5. \A i \in 0..(n + 1) : g[i] = IF i = 0 THEN <<>> ELSE Select(g, items, i)
    <3>1. ASSUME NEW i \in 0..n, i # 0
          PROVE  Select(g, items, i) = Select(f, items, i)
      <4>1. i - 1 \in 0..n  BY <3>1
      <4>2. g[i - 1] = f[i - 1]  BY <2>3, <4>1
      <4>3. QED BY <4>2 DEF Select
    <3>2. Select(g, items, n + 1) = Select(f, items, n + 1)
      <4>1. (n + 1) - 1 = n /\ g[n] = f[n]  BY <2>3
      <4>2. QED BY <4>1 DEF Select
    <3>3. \A i \in 0..(n + 1) : i \in 0..n \/ (i = n + 1 /\ i # 0)  OBVIOUS
    <3>4. QED BY <2>3, <2>4, <3>1, <3>2, <3>3
  <2>6. Solves(g, n + 1)
    <3>1. g = [i \in 0..(n + 1) |-> g[i]]  BY <2>2
    <3> HIDE DEF S
    <3>2. QED BY <2>5, <3>1
  <2>7. QED BY <2>6
<1>3. Len(items) \in S
  <2> HIDE DEF S
  <2>1. QED BY <1>1, <1>2, Induction
<1>4. PICK f : f = CHOOSE g : Solves(g, Len(items))  OBVIOUS
<1>5. Solves(f, Len(items))  BY <1>3, <1>4
<1>6. RecordsOf(items) = f[Len(items)]  BY <1>4 DEF RecordsOf, Select
<1>7. Selects(f, items, Len(items))
  <2>1. \A i \in 0..Len(items) : f[i] = IF i = 0 THEN <<>> ELSE Select(f, items, i)
    <3> HIDE DEF S
    <3>1. QED BY <1>5
  <2>2. QED BY <2>1 DEF Selects
<1>8. QED BY <1>6, <1>7

LEMMA SelectSame ==
  ASSUME NEW f, NEW items, NEW g, NEW others, NEW n \in Nat,
         Selects(f, items, n), Selects(g, others, n), \A i \in 1..n : others[i] = items[i]
  PROVE  f[n] = g[n]
<1> DEFINE S == {i \in Nat : i <= n => f[i] = g[i]}
<1>1. 0 \in S  BY DEF Selects
<1>2. ASSUME NEW i \in Nat, i \in S PROVE i + 1 \in S
  <2>1. SUFFICES ASSUME i + 1 <= n PROVE f[i + 1] = g[i + 1]
    OBVIOUS
  <2>2. i + 1 \in 1..n /\ f[i] = g[i] /\ (i + 1) - 1 = i  BY <1>2, <2>1
  <2>3. QED BY <2>2 DEF Selects, Select
<1>3. n \in S
  <2> HIDE DEF S
  <2>1. QED BY <1>1, <1>2, Induction
<1>4. QED BY <1>3

\* The records of the items are those that Logs has, each once for each time.
LEMMA RecordsOfType ==
  ASSUME NEW items \in Seq(Items)
  PROVE  /\ RecordsOf(items) \in Seq(Records)
         /\ {RecordsOf(items)[i] : i \in 1..Len(RecordsOf(items))} = Logs(items)
<1>1. PICK n \in Nat : n = Len(items)  BY LenProperties
<1>2. PICK f : Selects(f, items, n) /\ RecordsOf(items) = f[n]  BY <1>1, RecordsOfSelects
<1> DEFINE S == {i \in Nat : i <= n => /\ f[i] \in Seq(Records)
                                       /\ {f[i][j] : j \in 1..Len(f[i])} =
                                            {items[j] : j \in 1..i} \cap Records}
<1>3. 0 \in S
  <2>1. f[0] = <<>>  BY <1>2 DEF Selects
  <2>2. 1..0 = {} /\ Len(<<>>) = 0 /\ <<>> \in Seq(Records)  OBVIOUS
  <2>3. {f[0][j] : j \in 1..Len(f[0])} = {} /\ {items[j] : j \in 1..0} = {}
    BY <2>1, <2>2
  <2>4. QED BY <2>1, <2>2, <2>3
<1>4. ASSUME NEW i \in Nat, i \in S PROVE i + 1 \in S
  <2>1. SUFFICES ASSUME i + 1 <= n
                 PROVE  /\ f[i + 1] \in Seq(Records)
                        /\ {f[i + 1][j] : j \in 1..Len(f[i + 1])} =
                             {items[j] : j \in 1..(i + 1)} \cap Records
    OBVIOUS
  <2>2. /\ i + 1 \in 1..n /\ (i + 1) - 1 = i /\ f[i] \in Seq(Records)
        /\ {f[i][j] : j \in 1..Len(f[i])} = {items[j] : j \in 1..i} \cap Records
    BY <1>4, <2>1
  <2>3. f[i + 1] = IF items[i + 1] \in Records THEN Append(f[i], items[i + 1]) ELSE f[i]
    BY <1>2, <2>2 DEF Selects, Select
  <2>4. {items[j] : j \in 1..(i + 1)} = {items[j] : j \in 1..i} \cup {items[i + 1]}
    <3>1. \A j \in 1..(i + 1) : j \in 1..i \/ j = i + 1  OBVIOUS
    <3>2. i + 1 \in 1..(i + 1) /\ \A j \in 1..i : j \in 1..(i + 1)  OBVIOUS
    <3>3. QED BY <3>1, <3>2
  <2>5. CASE items[i + 1] \in Records
    <3>1. PICK s \in Seq(Records), e \in Records : s = f[i] /\ e = items[i + 1]  BY <2>2, <2>5
    <3>2. f[i + 1] = Append(s, e)  BY <2>3, <2>5, <3>1
    <3>3. /\ Len(s) \in Nat /\ Append(s, e) \in Seq(Records) /\ Len(Append(s, e)) = Len(s) + 1
          /\ \A j \in 1..Len(s) : Append(s, e)[j] = s[j]
          /\ Append(s, e)[Len(s) + 1] = e
      BY LenProperties
    <3>4. \A j \in 1..(Len(s) + 1) : j \in 1..Len(s) \/ j = Len(s) + 1  BY <3>3
    <3>5. {Append(s, e)[j] : j \in 1..Len(Append(s, e))} = {s[j] : j \in 1..Len(s)} \cup {e}
      BY <3>3, <3>4
    <3>6. QED BY SMTT(30), <2>2, <2>4, <2>5, <3>1, <3>2, <3>3, <3>5
  <2>6. CASE items[i + 1] \notin Records  BY <2>2, <2>3, <2>4, <2>6
  <2>7. QED BY <2>5, <2>6
<1>5. n \in S
  <2> HIDE DEF S
  <2>1. QED BY <1>3, <1>4, Induction
<1>6. QED BY <1>1, <1>2, <1>5 DEF Logs

LEMMA RecordsOfAppend ==
  ASSUME NEW items \in Seq(Items), NEW e \in Items
  PROVE  RecordsOf(Append(items, e)) =
           IF e \in Records THEN Append(RecordsOf(items), e) ELSE RecordsOf(items)
<1>1. PICK n \in Nat : n = Len(items)  BY LenProperties
<1>2. PICK more \in Seq(Items) : more = Append(items, e)  BY AppendFacts
<1>3. /\ Len(more) = n + 1 /\ more[n + 1] = e /\ \A i \in 1..n : more[i] = items[i]
  BY <1>1, <1>2, AppendFacts
<1>4. PICK f : Selects(f, items, n) /\ RecordsOf(items) = f[n]  BY <1>1, RecordsOfSelects
<1>5. PICK g : Selects(g, more, n + 1) /\ RecordsOf(more) = g[n + 1]
  BY <1>3, RecordsOfSelects
<1>6. Selects(g, more, n)
  <2>1. \A i \in 1..n : i \in 1..(n + 1)  OBVIOUS
  <2>2. QED BY <1>5, <2>1 DEF Selects
<1>7. f[n] = g[n]  BY <1>3, <1>4, <1>6, SelectSame
<1>8. g[n + 1] = Select(g, more, n + 1) /\ (n + 1) - 1 = n
  <2>1. n + 1 \in 1..(n + 1)  OBVIOUS
  <2>2. QED BY <1>5, <2>1 DEF Selects
<1>9. QED BY <1>2, <1>3, <1>4, <1>5, <1>7, <1>8 DEF Select

LEMMA ConcatAppend ==
  ASSUME NEW h \in Records, NEW s \in Seq(Records), NEW e \in Records
  PROVE  Append(<<h>> \o s, e) = <<h>> \o Append(s, e)
  OBVIOUS

LEMMA RecordsOfTail ==
  ASSUME NEW items \in Seq(Items), items # <<>>
  PROVE  /\ Head(items) \in Records => /\ RecordsOf(items) # <<>>
                                       /\ Head(RecordsOf(items)) = Head(items)
                                       /\ RecordsOf(Tail(items)) = Tail(RecordsOf(items))
         /\ Head(items) \notin Records => RecordsOf(Tail(items)) = RecordsOf(items)
<1>0. Len(Tail(items)) \in Nat /\ Tail(items) \in Seq(Items)
  BY TailFacts, HeadTailProperties, LenProperties
<1>1. PICK n \in Nat : n = Len(Tail(items))  BY <1>0
<1>2. PICK rest, h : rest = Tail(items) /\ h = items[1]  OBVIOUS
<1>3. /\ Len(items) = n + 1 /\ Len(rest) = n /\ Head(items) = h
      /\ \A i \in 1..n : rest[i] = items[i + 1]
  BY <1>1, <1>2, TailFacts
<1>4. PICK f : Selects(f, items, n + 1) /\ RecordsOf(items) = f[n + 1]
  BY <1>3, RecordsOfSelects
<1>5. PICK g : Selects(g, rest, n) /\ RecordsOf(rest) = g[n]
  BY <1>3, RecordsOfSelects
<1> DEFINE S == {i \in Nat : i <= n => /\ g[i] \in Seq(Records)
                                       /\ f[i + 1] = IF h \in Records THEN <<h>> \o g[i] ELSE g[i]}
<1>6. 0 \in S
  <2>1. /\ g[0] = <<>> /\ f[0] = <<>> /\ 0 + 1 = 1 /\ 1 - 1 = 0
        /\ f[1] = Select(f, items, 1)
    <3>1. 1 \in 1..(n + 1)  OBVIOUS
    <3>2. QED BY <1>4, <1>5, <3>1 DEF Selects
  <2>2. f[1] = IF h \in Records THEN Append(<<>>, h) ELSE <<>>
    BY <1>2, <2>1 DEF Select
  <2>3. h \in Records => Append(<<>>, h) = <<h>> \o <<>>  OBVIOUS
  <2>4. <<>> \in Seq(Records)  OBVIOUS
  <2>5. QED BY <2>1, <2>2, <2>3, <2>4
<1>7. ASSUME NEW i \in Nat, i \in S PROVE i + 1 \in S
  <2>1. SUFFICES ASSUME i + 1 <= n
                 PROVE  /\ g[i + 1] \in Seq(Records)
                        /\ f[(i + 1) + 1] = IF h \in Records THEN <<h>> \o g[i + 1] ELSE g[i + 1]
    OBVIOUS
  <2>2. /\ i + 1 \in 1..n /\ (i + 1) + 1 \in 1..(n + 1) /\ i <= n
        /\ (i + 1) - 1 = i /\ ((i + 1) + 1) - 1 = i + 1
    BY <2>1
  <2>3. PICK e, s : e = rest[i + 1] /\ s = g[i]  OBVIOUS
  <2>4. /\ g[i + 1] = IF e \in Records THEN Append(s, e) ELSE s
        /\ f[(i + 1) + 1] = IF e \in Records THEN Append(f[i + 1], e) ELSE f[i + 1]
    <3>1. items[(i + 1) + 1] = e  BY <1>3, <2>2, <2>3
    <3>2. QED BY <1>4, <1>5, <2>2, <2>3, <3>1 DEF Selects, Select
  <2>5. s \in Seq(Records) /\ f[i + 1] = IF h \in Records THEN <<h>> \o s ELSE s
    <3>1. i <= n => g[i] \in Seq(Records)
                    /\ f[i + 1] = IF h \in Records THEN <<h>> \o g[i] ELSE g[i]
      BY <1>7, Zenon
    <3>2. QED BY <2>2, <2>3, <3>1
  <2>6. g[i + 1] \in Seq(Records)
    <3>1. e \in Records => Append(s, e) \in Seq(Records)  BY <2>5
    <3>2. QED BY <2>4, <2>5, <3>1
  <2>7. f[(i + 1) + 1] = IF h \in Records THEN <<h>> \o g[i + 1] ELSE g[i + 1]
    <3>1. CASE h \in Records /\ e \in Records
      <4>1. Append(<<h>> \o s, e) = <<h>> \o Append(s, e)  BY <2>5, <3>1, ConcatAppend
      <4>2. QED BY <2>4, <2>5, <3>1, <4>1, Zenon
    <3>2. CASE ~(h \in Records /\ e \in Records)  BY <2>4, <2>5, <3>2, Zenon
    <3>3. QED BY <3>1, <3>2
  <2>8. QED BY <2>6, <2>7
<1>8. n \in S
  <2> HIDE DEF S
  <2>1. QED BY <1>6, <1>7, Induction
<1>9. PICK s \in Seq(Records) : /\ s = RecordsOf(rest)
                               /\ RecordsOf(items) = IF h \in Records THEN <<h>> \o s ELSE s
  BY <1>4, <1>5, <1>8
<1>10. h \in Records => /\ <<h>> \o s # <<>> /\ Head(<<h>> \o s) = h
                        /\ Tail(<<h>> \o s) = s
  OBVIOUS
<1>11. QED BY <1>2, <1>3, <1>9, <1>10

-----------------------------------------------------------------------------
(* The lossy log that the pipeline is: what LossyLog sees of it.            *)
Buffer == RecordsOf(queue)
Hand   == RecordsOf(inHand)
Lost   == Evicted \cup At("rejected") \cup At("refused")
Phase  == IF thread \in {"exited", "died"} THEN thread
          ELSE IF accepting THEN "open" ELSE "closed"

LEMMA LogStutters ==
  ASSUME UNCHANGED <<Buffer, Hand, written, Lost, Phase>>
  PROVE  UNCHANGED Log!vars
  BY DEF Log!vars, Buffer, Hand, Lost, Phase, Evicted

LEMMA RecordsOfFew ==
  /\ RecordsOf(<<>>) = <<>>
  /\ \A x \in Items : RecordsOf(<<x>>) = IF x \in Records THEN <<x>> ELSE <<>>
<1>1. <<>> \in Seq(Items) /\ Len(<<>>) = 0 /\ Len(<<>>) \in Nat  OBVIOUS
<1>2. PICK f : Selects(f, <<>>, 0) /\ RecordsOf(<<>>) = f[0]  BY <1>1, RecordsOfSelects
<1>3. RecordsOf(<<>>) = <<>>  BY <1>2 DEF Selects
<1>4. ASSUME NEW x \in Items PROVE RecordsOf(<<x>>) = IF x \in Records THEN <<x>> ELSE <<>>
  <2>1. <<x>> = Append(<<>>, x)  OBVIOUS
  <2>2. RecordsOf(Append(<<>>, x)) = IF x \in Records THEN Append(<<>>, x) ELSE <<>>
    BY <1>1, <1>3, RecordsOfAppend
  <2>3. QED BY <2>1, <2>2
<1>5. QED BY <1>3, <1>4

\* A call that did not put its record, nor was refused, has left nothing in the log.
LEMMA NotSeen ==
  ASSUME TypeOK, CountInv, NEW r \in Records,
         pc[r] \notin {"count_enqueued", "accepted", "rejected", "refused"}
  PROVE  r \notin Log!Seen
<1>1. Log!Elements(Buffer) = Logs(queue)
  BY RecordsOfType DEF Log!Elements, Buffer, TypeOK
<1>2. Log!Elements(Hand) = Logs(inHand)
  <2>1. inHand \in Seq(Items)
    <3>1. Seq(Records \cup Flushes) \subseteq Seq(Items)  BY DEF Items
    <3>2. QED BY <3>1 DEF TypeOK
  <2>2. QED BY <2>1, RecordsOfType DEF Log!Elements, Hand
<1>3. Log!Elements(written) = Logs(written)
  <2>1. written \in Seq(Records)  BY DEF TypeOK
  <2>2. \A i \in 1..Len(written) : written[i] \in Records  BY <2>1, ElementOfSeq
  <2>3. QED BY <2>2 DEF Log!Elements, Logs
<1>4. r \notin WasPut  BY DEF WasPut, In
<1>5. r \notin Logs(queue) \cup Logs(inHand) \cup Logs(written) \cup Evicted
  BY <1>4 DEF CountInv, PlaceInv
<1>6. r \notin At("rejected") /\ r \notin At("refused")  BY DEF At
<1>7. QED BY <1>1, <1>2, <1>3, <1>5, <1>6 DEF Log!Seen, Buffer, Hand, Evicted

\* What a step of a logging call does to what the lossy log speaks of.
LEMMA CallLosses ==
  ASSUME TypeOK, NEW r \in Records, Begin(r) \/ CallStep(r)
  PROVE  /\ UNCHANGED <<thread, accepting, inHand, written>>
         /\ \A q \in Records : q # r => pc'[q] = pc[q]
         /\ \/ /\ UNCHANGED <<queue, evicted>>
               /\ pc[r] \notin {"rejected", "refused"} /\ pc'[r] \notin {"rejected", "refused"}
            \/ /\ UNCHANGED <<queue, evicted>> /\ pc'[r] \in {"rejected", "refused"}
               /\ pc[r] \notin {"count_enqueued", "accepted", "rejected", "refused"}
            \/ /\ queue' = Append(queue, r) /\ UNCHANGED evicted
               /\ pc[r] \in {"putting", "putting_again", "blocked"}
               /\ pc'[r] = "count_enqueued"
            \/ /\ queue # <<>> /\ queue' = Tail(queue) /\ evicted' = evicted \cup {Head(queue)}
               /\ pc[r] = "evicting" /\ pc'[r] = "count_evicted"
<1> USE DEF callVars, listenerVars, adminVars, flushVars, Goto, TypeOK
<1>1. CASE Begin(r) \/ PrepareFails(r) \/ Enter(r)
  BY <1>1 DEF Begin, PrepareFails, Enter
<1>2. CASE PutNowait(r) \/ BlockedPut(r)
  BY <1>2 DEF PutNowait, BlockedPut, Put
<1>3. CASE Overflow(r)
  BY <1>3 DEF Overflow
<1>4. CASE Evict(r)
  BY <1>4 DEF Evict
<1>5. CASE PutAgain(r)
  BY <1>5 DEF PutAgain, Put
<1>6. CASE BlockTimeout(r) \/ CountEvicted(r) \/ CountEnqueued(r) \/ CountRejected(r)
  BY <1>6 DEF BlockTimeout, CountEvicted, CountEnqueued, CountRejected
<1>7. QED BY <1>1, <1>2, <1>3, <1>4, <1>5, <1>6 DEF CallStep

LEMMA CallImplements ==
  ASSUME TypeOK, TeardownInv, CountInv, NEW r \in Records, Begin(r) \/ CallStep(r)
  PROVE  [Log!Next]_(Log!vars)
<1>1. /\ UNCHANGED <<thread, accepting, inHand, written>>
      /\ \A q \in Records : q # r => pc'[q] = pc[q]
  BY CallLosses
<1>2. UNCHANGED <<Hand, Phase>>  BY <1>1 DEF Hand, Phase
<1>3. pc'[r] \notin {"rejected", "refused"} /\ pc[r] \notin {"rejected", "refused"} =>
        UNCHANGED <<At("rejected"), At("refused")>>
  BY <1>1 DEF At
<1>4. CASE /\ UNCHANGED <<queue, evicted>>
           /\ pc[r] \notin {"rejected", "refused"} /\ pc'[r] \notin {"rejected", "refused"}
  <2>1. UNCHANGED <<Buffer, Lost>>  BY <1>3, <1>4 DEF Buffer, Lost, Evicted
  <2>2. QED BY <1>1, <1>2, <2>1, LogStutters
<1>5. CASE /\ UNCHANGED <<queue, evicted>> /\ pc'[r] \in {"rejected", "refused"}
           /\ pc[r] \notin {"count_enqueued", "accepted", "rejected", "refused"}
  <2>1. At("rejected")' \cup At("refused")' = At("rejected") \cup At("refused") \cup {r}
    BY <1>1, <1>5 DEF At
  <2>2. UNCHANGED Buffer /\ Lost' = Lost \cup {r}  BY <1>5, <2>1 DEF Buffer, Lost, Evicted
  <2>3. r \notin Log!Seen  BY <1>5, NotSeen
  <2>4. Log!Lose(r)
    BY <1>1, <1>2, <2>2, <2>3 DEF Log!Lose, Buffer, Hand, Lost, Phase, Evicted
  <2>5. QED BY <2>4 DEF Log!Next
<1>6. CASE /\ queue' = Append(queue, r) /\ UNCHANGED evicted
           /\ pc[r] \in {"putting", "putting_again", "blocked"} /\ pc'[r] = "count_enqueued"
  <2>1. r \notin Log!Seen  BY <1>6, NotSeen
  <2>2. accepting /\ thread # "exited"  BY <1>6, CriticalMeansOpen DEF Critical
  <2>3. Phase = "open" \/ Phase = "died"  BY <2>2 DEF Phase
  <2>4. UNCHANGED Lost  BY <1>3, <1>6 DEF Lost, Evicted
  <2>5. Buffer' = Append(Buffer, r)
    <3>1. queue \in Seq(Items) /\ r \in Items  BY DEF TypeOK, Items
    <3>2. RecordsOf(Append(queue, r)) = Append(RecordsOf(queue), r)  BY <3>1, RecordsOfAppend
    <3>3. QED BY <1>6, <3>2 DEF Buffer
  <2>6. Log!Accept(r)
    BY <1>1, <1>2, <2>1, <2>3, <2>4, <2>5 DEF Log!Accept, Buffer, Hand, Lost, Phase, Evicted
  <2>7. QED BY <2>6 DEF Log!Next
<1>7. CASE /\ queue # <<>> /\ queue' = Tail(queue) /\ evicted' = evicted \cup {Head(queue)}
           /\ pc[r] = "evicting" /\ pc'[r] = "count_evicted"
  <2>1. queue \in Seq(Items) /\ UNCHANGED <<At("rejected"), At("refused")>>
    BY <1>3, <1>7 DEF TypeOK
  <2>2. CASE Head(queue) \in Records
    <3>1. Buffer # <<>> /\ Head(Buffer) = Head(queue) /\ Buffer' = Tail(Buffer)
      BY <1>7, <2>1, <2>2, RecordsOfTail DEF Buffer
    <3>2. Lost' = Lost \cup {Head(queue)}  BY <1>7, <2>1, <2>2 DEF Lost, Evicted
    <3>3. Log!Evict
      BY <1>1, <1>2, <3>1, <3>2 DEF Log!Evict, Buffer, Hand, Lost, Phase, Evicted
    <3>4. QED BY <3>3 DEF Log!Next
  <2>3. CASE Head(queue) \notin Records
    <3>1. UNCHANGED Buffer  BY <1>7, <2>1, <2>3, RecordsOfTail DEF Buffer
    <3>2. UNCHANGED Lost  BY <1>7, <2>1, <2>3 DEF Lost, Evicted
    <3>3. QED BY <1>1, <1>2, <3>1, <3>2, LogStutters
  <2>4. QED BY <2>2, <2>3
<1>8. QED BY <1>4, <1>5, <1>6, <1>7, CallLosses

LEMMA SequenceOfOne ==
  ASSUME NEW S, NEW s \in Seq(S), Len(s) = 1
  PROVE  s = <<s[1]>> /\ s[1] \in S
<1>1. s[1] \in S  BY ElementOfSeq
<1>2. <<s[1]>> \in Seq(S) /\ Len(<<s[1]>>) = 1  BY <1>1
<1>3. \A i \in 1..Len(s) : s[i] = <<s[1]>>[i]
  <2>1. \A i \in 1..1 : i = 1  OBVIOUS
  <2>2. QED BY <2>1
<1>4. QED BY <1>1, <1>2, <1>3, SeqEqual

LEMMA ListenerImplements ==
  ASSUME TypeOK, TeardownInv, CountInv, Listener
  PROVE  [Log!Next]_(Log!vars)
<1> USE DEF callVars, listenerVars, adminVars, flushVars
<1>1. UNCHANGED <<accepting, pc, evicted>>
  BY DEF Listener, Dequeue, Write, SinkRaises, FlushOutputs
<1>2. UNCHANGED Lost  BY <1>1 DEF Lost, Evicted, At
<1>3. ASSUME thread = "handling"
      PROVE  inHand = <<inHand[1]>> /\ inHand[1] \in Items /\ Phase \in {"open", "closed"}
  <2>1. inHand \in Seq(Records \cup Flushes) /\ Len(inHand) = 1  BY <1>3 DEF TypeOK
  <2>2. inHand = <<inHand[1]>> /\ inHand[1] \in Records \cup Flushes
    BY <2>1, SequenceOfOne
  <2>3. Phase \in {"open", "closed"}  BY <1>3 DEF Phase
  <2>4. QED BY <2>2, <2>3 DEF Items
<1>4. CASE Dequeue
  <2>1. /\ queue \in Seq(Items) /\ queue # <<>> /\ queue' = Tail(queue) /\ thread = "getting"
        /\ UNCHANGED written /\ Head(queue) \in Items
    BY <1>4, HeadTailProperties DEF Dequeue, TypeOK
  <2>2. Hand = <<>> /\ inHand = <<>> /\ Phase \in {"open", "closed"}
    BY <2>1, RecordsOfFew, LogsInHand DEF Hand, Phase
  <2>3. CASE Head(queue) = Sentinel
    <3>1. thread' = "exited" /\ UNCHANGED inHand  BY <1>4, <2>3 DEF Dequeue
    <3>2. Head(queue) \notin Records
      BY <2>3, LogQueueAssumption DEF LogQueueAssumption
    <3>3. /\ Len(queue) \in Nat /\ 1 \in 1..Len(queue) /\ queue[1] = Sentinel
      BY <2>1, <2>3, TailFacts
    <3>4. ~accepting  BY <3>3 DEF TeardownInv, NoSentinel
    <3>5. \A j \in 1..Len(queue) : queue[j] \notin Records
      <4>1. \A j \in 1..Len(queue) : j = 1 \/ 1 < j  BY <3>3
      <4>2. \A j \in 1..Len(queue) : 1 < j => queue[j] \in Flushes
        BY <3>3 DEF TeardownInv, SentinelReachesListener
      <4>3. QED BY <3>3, <4>1, <4>2, LogQueueAssumption DEF LogQueueAssumption
    <3>6. Buffer = <<>>
      <4>1. /\ Buffer \in Seq(Records)
            /\ {Buffer[i] : i \in 1..Len(Buffer)} = {}
        BY <2>1, <3>5, RecordsOfType DEF Buffer, Logs
      <4>2. Len(Buffer) = 0
        <5>1. Len(Buffer) \in Nat  BY <4>1, LenProperties
        <5>2. 1 \notin 1..Len(Buffer)  BY <4>1
        <5>3. QED BY <5>1, <5>2
      <4>3. QED BY <4>1, <4>2, EmptySeq
    <3>7. UNCHANGED <<Buffer, Hand>>
      BY <2>1, <3>1, <3>2, RecordsOfTail DEF Buffer, Hand
    <3>8. Phase = "closed" /\ Phase' = "exited"
      BY <2>1, <3>1, <3>4 DEF Phase
    <3>9. Log!Stop
      BY <1>2, <2>1, <2>2, <3>6, <3>7, <3>8 DEF Log!Stop, Buffer, Hand, Lost, Phase, Evicted
    <3>10. QED BY <3>9 DEF Log!Next
  <2>4. CASE Head(queue) # Sentinel
    <3>1. thread' = "handling" /\ inHand' = <<Head(queue)>>  BY <1>4, <2>4 DEF Dequeue
    <3>2. UNCHANGED Phase  BY <1>1, <2>1, <3>1 DEF Phase
    <3>3. Hand' = IF Head(queue) \in Records THEN <<Head(queue)>> ELSE <<>>
      BY <2>1, <3>1, RecordsOfFew DEF Hand
    <3>4. CASE Head(queue) \in Records
      <4>1. Buffer # <<>> /\ Head(Buffer) = Head(queue) /\ Buffer' = Tail(Buffer)
        BY <2>1, <3>4, RecordsOfTail DEF Buffer
      <4>2. Hand' = <<Head(Buffer)>>  BY <3>3, <3>4, <4>1
      <4>3. Log!Take
        BY <1>2, <2>1, <2>2, <3>2, <4>1, <4>2
        DEF Log!Take, Buffer, Hand, Lost, Phase, Evicted
      <4>4. QED BY <4>3 DEF Log!Next
    <3>5. CASE Head(queue) \notin Records
      <4>1. UNCHANGED <<Buffer, Hand>>
        BY <2>1, <2>2, <3>3, <3>5, RecordsOfTail DEF Buffer
      <4>2. QED BY <1>2, <2>1, <3>2, <4>1, LogStutters
    <3>6. QED BY <3>4, <3>5
  <2>5. QED BY <2>3, <2>4
<1>5. CASE Write
  <2>1. /\ thread = "handling" /\ thread' = "getting" /\ inHand[1] \in Records
        /\ inHand' = <<>> /\ written' = Append(written, inHand[1]) /\ UNCHANGED queue
    BY <1>5 DEF Write
  <2>2. Hand = <<inHand[1]>> /\ Hand' = <<>>  BY <1>3, <2>1, RecordsOfFew DEF Hand
  <2>3. UNCHANGED <<Buffer, Phase>>  BY <1>1, <2>1 DEF Buffer, Phase
  <2>4. written' = written \o Hand
    <3>1. written \in Seq(Records)  BY DEF TypeOK
    <3>2. Append(written, inHand[1]) = written \o <<inHand[1]>>
      BY <2>1, <3>1
    <3>3. QED BY <2>1, <2>2, <3>2
  <2>5. Hand # <<>>  BY <2>2
  <2>6. Log!Deliver
    BY <1>2, <1>3, <2>1, <2>2, <2>3, <2>4, <2>5
    DEF Log!Deliver, Buffer, Hand, Lost, Phase, Evicted
  <2>7. QED BY <2>6 DEF Log!Next
<1>6. CASE SinkRaises
  <2>1. /\ thread = "handling" /\ thread' = "died" /\ inHand[1] \in Records
        /\ UNCHANGED <<queue, inHand, written>>
    BY <1>6 DEF SinkRaises
  <2>2. Hand # <<>>
    <3>1. Hand = <<inHand[1]>>  BY <1>3, <2>1, RecordsOfFew DEF Hand
    <3>2. QED BY <3>1
  <2>3. UNCHANGED <<Buffer, Hand>> /\ Phase' = "died"  BY <2>1 DEF Buffer, Hand, Phase
  <2>4. Log!Die
    BY <1>2, <1>3, <2>1, <2>2, <2>3 DEF Log!Die, Buffer, Hand, Lost, Phase, Evicted
  <2>5. QED BY <2>4 DEF Log!Next
<1>7. CASE FlushOutputs
  <2>1. /\ thread = "handling" /\ thread' = "getting" /\ inHand[1] \in Flushes
        /\ inHand' = <<>> /\ UNCHANGED <<queue, written>>
    BY <1>7 DEF FlushOutputs
  <2>2. inHand[1] \notin Records  BY <2>1, LogQueueAssumption DEF LogQueueAssumption
  <2>3. UNCHANGED <<Buffer, Hand, Phase>>
    BY <1>1, <1>3, <2>1, <2>2, RecordsOfFew DEF Buffer, Hand, Phase
  <2>4. QED BY <1>2, <2>1, <2>3, LogStutters
<1>8. QED BY <1>4, <1>5, <1>6, <1>7 DEF Listener

\* A flush request or the sentinel is not a record.
LEMMA OtherPutImplements ==
  ASSUME TypeOK, NEW e \in Items, e \notin Records, queue' = Append(queue, e),
         UNCHANGED <<inHand, written, evicted, pc, thread, accepting>>
  PROVE  UNCHANGED Log!vars
<1>1. UNCHANGED Buffer
  <2>1. queue \in Seq(Items)  BY DEF TypeOK
  <2>2. RecordsOf(Append(queue, e)) = RecordsOf(queue)  BY <2>1, RecordsOfAppend
  <2>3. QED BY <2>2 DEF Buffer
<1>2. UNCHANGED <<Hand, Lost, Phase>>  BY DEF Hand, Lost, Phase, Evicted, At
<1>3. QED BY <1>1, <1>2, LogStutters

LEMMA NothingStutters ==
  ASSUME UNCHANGED <<queue, inHand, written, evicted, pc, Phase>>
  PROVE  UNCHANGED Log!vars
<1>1. UNCHANGED <<Buffer, Hand, Lost>>  BY DEF Buffer, Hand, Lost, Evicted, At
<1>2. QED BY <1>1, LogStutters

LEMMA FlushImplements ==
  ASSUME TypeOK, NEW f \in Flushes, FlushBegin(f) \/ FlushStep(f)
  PROVE  UNCHANGED Log!vars
<1> USE DEF callVars, listenerVars, adminVars, flushVars
<1>1. CASE FlushPut(f)
  <2>1. f \in Items /\ f \notin Records  BY LogQueueAssumption DEF LogQueueAssumption, Items
  <2>2. QED BY <1>1, <2>1, OtherPutImplements DEF FlushPut, Put
<1>2. CASE ~FlushPut(f)
  <2>1. UNCHANGED <<queue, inHand, written, evicted, pc, thread, accepting>>
    BY <1>2 DEF FlushBegin, FlushStep, FlushPutTimeout, FlushDone, FlushTimeout
  <2>2. QED BY <2>1, NothingStutters DEF Phase
<1>3. QED BY <1>1, <1>2

LEMMA AdminImplements ==
  ASSUME TypeOK, TeardownInv, Setup \/ BeginTeardown \/ TeardownStep
  PROVE  [Log!Next]_(Log!vars)
<1> USE DEF callVars, listenerVars, adminVars, flushVars
<1>1. CASE StartListener
  <2>1. UNCHANGED <<queue, inHand, written, evicted, pc, accepting>>
        /\ thread = "unstarted" /\ thread' = "getting"
    BY <1>1 DEF StartListener
  <2>2. UNCHANGED Phase  BY <2>1 DEF Phase
  <2>3. QED BY <2>1, <2>2, NothingStutters
<1>2. CASE PutSentinel
  <2>1. Sentinel \in Items /\ Sentinel \notin Records
    BY LogQueueAssumption DEF LogQueueAssumption, Items
  <2>2. QED BY <1>2, <2>1, OtherPutImplements DEF PutSentinel, Put
<1>3. CASE CloseHandler
  <2>1. UNCHANGED <<queue, inHand, written, evicted, pc, thread>> /\ accepting' = FALSE
    BY <1>3 DEF CloseHandler
  <2>2. CASE Phase = "open"
    <3>1. Phase' = "closed"  BY <2>1, <2>2 DEF Phase, TypeOK
    <3>2. UNCHANGED <<Buffer, Hand, Lost>>  BY <2>1 DEF Buffer, Hand, Lost, Evicted, At
    <3>3. Log!Close
      BY <2>1, <2>2, <3>1, <3>2 DEF Log!Close, Buffer, Hand, Lost, Phase, Evicted
    <3>4. QED BY <3>3 DEF Log!Next
  <2>3. CASE Phase # "open"
    <3>1. UNCHANGED Phase  BY <2>1, <2>3 DEF Phase, TypeOK
    <3>2. QED BY <2>1, <3>1, NothingStutters
  <2>4. QED BY <2>2, <2>3
<1>4. CASE ~StartListener /\ ~PutSentinel /\ ~CloseHandler
  <2>1. UNCHANGED <<queue, inHand, written, evicted, pc, thread, accepting>>
    BY <1>4 DEF Setup, TeardownStep, PublishListener, BeginTeardown, SkipSentinel,
                StopTimeout, Joined, CloseOutputs, ResetTelemetry
  <2>2. QED BY <2>1, NothingStutters DEF Phase
<1>5. QED BY <1>1, <1>2, <1>3, <1>4

(* The pipeline is a lossy FIFO log, for any set of calls, queue size and   *)
(* number of teardowns: whatever the threads do, each of their steps is one *)
(* step of LossyLog or none.                                                *)
THEOREM PipelineIsALossyLog == Spec => ImplementsLossyLog
<1>1. Init => Log!Init
  <2> SUFFICES ASSUME Init PROVE Log!Init
    OBVIOUS
  <2>1. Evicted = {} /\ At("rejected") = {} /\ At("refused") = {}  BY DEF Init, Evicted, At
  <2>2. RecordsOf(queue) = <<>> /\ RecordsOf(inHand) = <<>>  BY RecordsOfFew DEF Init
  <2>3. QED BY <2>1, <2>2 DEF Init, Log!Init, Evicted
<1>2. TypeOK /\ TeardownInv /\ CountInv /\ [Next]_vars => [Log!Next]_(Log!vars)
  <2> SUFFICES ASSUME TypeOK, TeardownInv, CountInv, [Next]_vars PROVE [Log!Next]_(Log!vars)
    OBVIOUS
  <2>1. CASE UNCHANGED vars
    <3>1. UNCHANGED <<queue, inHand, written, evicted, pc, thread, accepting>>
      BY <2>1 DEF vars, callVars, listenerVars, adminVars, flushVars
    <3>2. QED BY <3>1, NothingStutters DEF Phase
  <2>2. QED
    BY <2>1, CallImplements, ListenerImplements, FlushImplements, AdminImplements DEF Next
<1>3. QED
  BY <1>1, <1>2, TypeCorrect, TeardownInvariant, CountInvariant, PTL
  DEF Spec, ImplementsLossyLog, Log!Spec

=============================================================================
