-------------------------- MODULE RequestLogProofs --------------------------
(***************************************************************************)
(* Proofs about RequestLog for any number of threads and records and every *)
(* limit of held ones, for requests whose threads end with their           *)
(* application.                                                            *)
(***************************************************************************)
EXTENDS RequestLog, SequenceTheorems, FiniteSetTheorems, TLAPS

-----------------------------------------------------------------------------
(* The response: what is awaited fits what was accepted, so that it ends    *)
(* once and its status is settled by then.                                  *)
Known(m) == CASE m = "start" -> response = "none"
              [] m = "body" -> response = "started"
              [] m = "trailers" -> response = "body"
              [] OTHER -> FALSE

AsgiTypes ==
  /\ app \in {"running", "returned", "raised", "cancelled", "exited"}
  /\ sending \in {None, "start", "body", "trailers"}
  /\ response \in {"none", "started", "body", "finished"}
  /\ trailers \in BOOLEAN /\ status \in Statuses /\ disconnected \in BOOLEAN
  /\ pc \in {"app", "keep", "line", "observe", "cleanup", "done"}
  /\ closed \in BOOLEAN

AsgiInv ==
  /\ AsgiTypes
  /\ pc = "app" <=> app = "running"
  /\ sending # None => Known(sending)
  /\ observed = IF response = "finished" \/ pc \in {"cleanup", "done"} THEN <<status>> ELSE <<>>

LEMMA InitAsgiInv == Init => AsgiInv
  BY DEF Init, AsgiInv, AsgiTypes, Statuses

LEMMA AppendToEmpty == \A x : Append(<<>>, x) = <<x>>
  OBVIOUS

LEMMA MessageAsgiInv ==
  ASSUME AsgiInv, SendStart \/ SendBody \/ SendTrailers \/ Sent \/ SendFails \/ Disconnect
  PROVE  AsgiInv'
<1> USE RequestLogAssumption DEF AsgiInv, AsgiTypes, Known
<1>1. CASE SendStart    BY <1>1 DEF SendStart, Awaiting, Statuses
<1>2. CASE SendBody     BY <1>2 DEF SendBody, Awaiting
<1>3. CASE SendTrailers BY <1>3 DEF SendTrailers, Awaiting
<1>4. CASE Sent
  <2>1. /\ response # "finished" /\ observed = <<>>
        /\ response' \in {"started", "body", "finished"} /\ sending' = None
        /\ observed' = IF response' = "finished" THEN Append(observed, status) ELSE observed
        /\ UNCHANGED <<app, trailers, status, disconnected, pc, closed>>
    BY <1>4 DEF Sent, Accepted
  <2>2. observed' = IF response' = "finished" THEN <<status>> ELSE <<>>
    BY <2>1, AppendToEmpty
  <2>3. pc \notin {"cleanup", "done"} BY <1>4 DEF Sent
  <2>4. QED BY <2>1, <2>2, <2>3
<1>5. CASE SendFails    BY <1>5 DEF SendFails
<1>6. CASE Disconnect   BY <1>6 DEF Disconnect
<1>7. QED BY <1>1, <1>2, <1>3, <1>4, <1>5, <1>6

LEMMA EndAsgiInv ==
  ASSUME AsgiInv, NEW how \in {"returned", "raised", "cancelled", "exited"}, End(how)
  PROVE  AsgiInv'
  BY DEF AsgiInv, AsgiTypes, End, FinalStatus, Statuses

LEMMA OtherAsgiInv ==
  ASSUME AsgiInv,
         \/ \E t \in Threads : Log(t) \/ Decide(t) \/ Hold(t)
         \/ Keep \/ LogLine \/ Observe \/ Cleanup
  PROVE  AsgiInv'
<1> USE DEF AsgiInv, AsgiTypes, asgi, Known
<1>1. CASE \E t \in Threads : Log(t) \/ Decide(t) \/ Hold(t)
  BY <1>1 DEF Log, Decide, Hold
<1>2. CASE Keep    BY <1>2 DEF Keep
<1>3. CASE LogLine BY <1>3 DEF LogLine
<1>4. CASE Observe BY <1>4, AppendToEmpty DEF Observe
<1>5. CASE Cleanup BY <1>5 DEF Cleanup
<1>6. QED BY <1>1, <1>2, <1>3, <1>4, <1>5

LEMMA NextAsgiInv == AsgiInv /\ [Next]_vars => AsgiInv'
<1> SUFFICES ASSUME AsgiInv, [Next]_vars PROVE AsgiInv'
  OBVIOUS
<1>1. CASE Next BY <1>1, MessageAsgiInv, EndAsgiInv, OtherAsgiInv DEF Next
<1>2. CASE UNCHANGED vars
  BY <1>2 DEF vars, asgi, AsgiInv, AsgiTypes, Known
<1>3. QED BY <1>1, <1>2

-----------------------------------------------------------------------------
(* The records: types.                                                      *)
Works == {"idle", "decide", "hold"}
Kept(r) == \E i \in 1..Len(held) : held[i] = r
InHand(r) == \E t \in Threads : thread[t].does # "idle" /\ thread[t].record = r

LogTypes ==
  /\ config \in [verbose : BOOLEAN, sampling : BOOLEAN, trace : {"in", "out"}]
  /\ logged \in Seq({Debug, Info, Warning}) /\ Len(logged) <= MaxRecords
  /\ thread \in [Threads -> [does : Works, record : 0..MaxRecords]]
  /\ \A t \in Threads : thread[t].does # "idle" => thread[t].record \in 1..Len(logged)
  /\ sampled \in {"unset", "in", "out"}
  /\ retention \in {None, "failure", "slow"}
  /\ held \in Seq(1..Len(logged)) /\ Len(held) <= HoldLimit
  /\ written \subseteq 1..Len(logged)
  /\ evicted \subseteq 1..Len(logged)

LEMMA InitLogTypes == Init => LogTypes
  BY RequestLogAssumption DEF Init, LogTypes, Idle, Works

LEMMA WiderSeq == \A m, n \in Nat : m <= n => \A s \in Seq(1..m) : s \in Seq(1..n)
  OBVIOUS

LEMMA LogLogTypes == ASSUME LogTypes, NEW t \in Threads, Log(t) PROVE LogTypes'
<1> USE RequestLogAssumption DEF LogTypes
<1>1. PICK level \in {Debug, Info, Warning} : logged' = Append(logged, level)
  BY DEF Log
<1>2. /\ Len(logged') = Len(logged) + 1 /\ logged' \in Seq({Debug, Info, Warning})
      /\ Len(logged) \in Nat
  BY <1>1
<1>3. Len(logged') <= MaxRecords BY <1>2 DEF Log
<1>4. /\ thread' = thread /\ written' = written \cup {Len(logged) + 1}
      \/ /\ written' = written
         /\ \E what \in {"hold", "decide"} :
              thread' = [thread EXCEPT ![t] = [does |-> what, record |-> Len(logged) + 1]]
  BY DEF Log, Does
<1>5. written' \subseteq 1..Len(logged') /\ evicted' \subseteq 1..Len(logged')
  <2>1. written' \subseteq written \cup {Len(logged) + 1} BY <1>4
  <2>2. evicted' = evicted BY DEF Log
  <2>3. QED BY SMTT(30), <1>2, <2>1, <2>2
<1>6. /\ thread' \in [Threads -> [does : Works, record : 0..MaxRecords]]
      /\ \A u \in Threads : thread'[u].does # "idle" => thread'[u].record \in 1..Len(logged')
  <2>1. CASE thread' = thread BY <1>2, <2>1
  <2>2. ASSUME NEW what \in {"hold", "decide"},
               thread' = [thread EXCEPT ![t] = [does |-> what, record |-> Len(logged) + 1]]
        PROVE  <1>6
    <3>1. Len(logged) + 1 \in 0..MaxRecords BY <1>2, <1>3
    <3>2. [does |-> what, record |-> Len(logged) + 1] \in [does : Works, record : 0..MaxRecords]
      BY <3>1 DEF Works
    <3>3. QED BY <1>2, <2>2, <3>2
  <2>3. QED BY <1>4, <2>1, <2>2
<1>7. held' \in Seq(1..Len(logged')) /\ Len(held') <= HoldLimit
  BY <1>2, WiderSeq DEF Log
<1>8. QED BY <1>2, <1>3, <1>5, <1>6, <1>7 DEF Log

LEMMA DecideLogTypes == ASSUME LogTypes, NEW t \in Threads, Decide(t) PROVE LogTypes'
<1> USE RequestLogAssumption DEF LogTypes
<1>1. /\ thread[t].record \in 1..Len(logged) /\ sampled' = config.trace
      /\ UNCHANGED <<config, logged, retention, held, evicted>>
  BY DEF Decide
<1>2. written' \in {written, written \cup {thread[t].record}} BY DEF Decide
<1>3. \E what \in {"idle", "hold"}, r \in {0, thread[t].record} :
        /\ thread' = [thread EXCEPT ![t] = [does |-> what, record |-> r]]
        /\ what # "idle" => r = thread[t].record
  BY DEF Decide, Does
<1>4. thread' \in [Threads -> [does : Works, record : 0..MaxRecords]]
  BY <1>1, <1>3 DEF Works
<1>5. \A u \in Threads : thread'[u].does # "idle" => thread'[u].record \in 1..Len(logged')
  BY <1>1, <1>3
<1>6. QED BY <1>1, <1>2, <1>4, <1>5

(* What a held record does to those held: it joins them, and at the limit   *)
(* the oldest leaves.                                                       *)
LEMMA HoldHeld ==
  ASSUME LogTypes, NEW t \in Threads, NEW x, x = thread[t].record, Hold(t)
  PROVE  /\ held' \in Seq(1..Len(logged)) /\ Len(held') <= HoldLimit
         /\ \A r : Kept(r)' => Kept(r) \/ r = x
         /\ \A r : Kept(r) => Kept(r)' \/ r \in evicted'
         /\ ~closed => Kept(x)'
         /\ evicted \subseteq evicted' /\ evicted' \subseteq 1..Len(logged)
<1> USE RequestLogAssumption DEF LogTypes
<1>1. x \in 1..Len(logged) BY DEF Hold
<1>2. CASE closed BY <1>2 DEF Hold, Kept
<1>3. CASE ~closed /\ Len(held) < HoldLimit
  <2>1. held' = Append(held, x) /\ evicted' = evicted BY <1>3 DEF Hold
  <2>2. /\ Len(held') = Len(held) + 1 /\ held' \in Seq(1..Len(logged))
        /\ \A i \in 1..Len(held) : held'[i] = held[i]
        /\ held'[Len(held) + 1] = x
    BY <1>1, <2>1, AppendProperties
  <2>3. QED BY <1>3, <2>1, <2>2 DEF Kept
<1>4. CASE ~closed /\ ~(Len(held) < HoldLimit)
  <2>1. held' = Append(Tail(held), x) /\ evicted' = evicted \cup {Head(held)}
    BY <1>4 DEF Hold
  <2>2. held # <<>> /\ Len(held) = HoldLimit BY <1>4
  <2>3. /\ Tail(held) \in Seq(1..Len(logged)) /\ Len(Tail(held)) = Len(held) - 1
        /\ \A i \in 1..Len(Tail(held)) : Tail(held)[i] = held[i + 1]
        /\ Head(held) = held[1] /\ Head(held) \in 1..Len(logged)
    BY <2>2, HeadTailProperties
  <2>4. /\ Len(held') = Len(held) /\ held' \in Seq(1..Len(logged))
        /\ \A i \in 1..(Len(held) - 1) : held'[i] = held[i + 1]
        /\ held'[Len(held)] = x
    BY <1>1, <2>1, <2>3, AppendProperties
  <2>5. ASSUME NEW r, Kept(r)' PROVE Kept(r) \/ r = x
    <3>1. PICK i \in 1..Len(held') : held'[i] = r BY <2>5 DEF Kept
    <3>2. CASE i = Len(held) BY <2>4, <3>1, <3>2
    <3>3. CASE i # Len(held)
      <4>1. i \in 1..(Len(held) - 1) /\ i + 1 \in 1..Len(held) BY <2>2, <2>4, <3>3
      <4>2. held[i + 1] = r BY <2>4, <3>1, <4>1
      <4>3. QED BY <4>1, <4>2 DEF Kept
    <3>4. QED BY <3>2, <3>3
  <2>6. ASSUME NEW r, Kept(r) PROVE Kept(r)' \/ r = Head(held)
    <3>1. PICK i \in 1..Len(held) : held[i] = r BY <2>6 DEF Kept
    <3>2. CASE i = 1 BY <3>1, <3>2, <2>3
    <3>3. CASE i # 1
      <4>1. i - 1 \in 1..(Len(held) - 1) BY <3>3
      <4>2. held'[i - 1] = r BY <2>4, <3>1, <4>1
      <4>3. QED BY <2>4, <4>1, <4>2 DEF Kept
    <3>4. QED BY <3>2, <3>3
  <2>7. Kept(x)' BY <2>2, <2>4 DEF Kept
  <2>8. QED BY <2>1, <2>2, <2>3, <2>4, <2>5, <2>6, <2>7
<1>5. QED BY <1>2, <1>3, <1>4

LEMMA HoldLogTypes == ASSUME LogTypes, NEW t \in Threads, Hold(t) PROVE LogTypes'
<1> USE RequestLogAssumption DEF LogTypes
<1>1. UNCHANGED <<config, logged, sampled, retention, written>> BY DEF Hold
<1>2. thread' = [thread EXCEPT ![t] = [does |-> "idle", record |-> 0]] BY DEF Hold, Does
<1>3. /\ thread' \in [Threads -> [does : Works, record : 0..MaxRecords]]
      /\ \A u \in Threads : thread'[u].does # "idle" => thread'[u].record \in 1..Len(logged)
  BY <1>2 DEF Works
<1>4. QED BY <1>1, <1>3, HoldHeld

LEMMA EndLogTypes ==
  ASSUME LogTypes, Keep \/ LogLine \/ Observe \/ Cleanup
  PROVE  LogTypes'
<1> USE RequestLogAssumption DEF LogTypes
<1>1. CASE Keep
  <2>1. UNCHANGED <<config, logged, thread, evicted>> BY <1>1 DEF Keep
  <2>2. /\ sampled' \in {"unset", "in", "out"} /\ retention' \in {None, "failure", "slow"}
        /\ held' \in Seq(1..Len(logged)) /\ Len(held') <= HoldLimit
        /\ written' \subseteq 1..Len(logged)
    <3>1. \/ UNCHANGED <<sampled, retention, held, written>>
          \/ /\ sampled' = "in" /\ retention' \in {"failure", "slow"} /\ held' = <<>>
             /\ written' \subseteq written \cup DOMAIN logged
      BY <1>1 DEF Keep, KeepRequestLogs
    <3>2. DOMAIN logged = 1..Len(logged) /\ <<>> \in Seq(1..Len(logged)) /\ Len(<<>>) <= HoldLimit
      OBVIOUS
    <3>3. QED BY <3>1, <3>2
  <2>3. QED BY <2>1, <2>2
<1>2. CASE LogLine BY <1>2 DEF LogLine
<1>3. CASE Observe BY <1>3 DEF Observe, logs
<1>4. CASE Cleanup BY <1>4 DEF Cleanup
<1>5. QED BY <1>1, <1>2, <1>3, <1>4

-----------------------------------------------------------------------------
(* The records: where each is. Until the end every record is written, held, *)
(* evicted or in the hands of its thread, and whoever decides on the        *)
(* sampling decides by the trace; the end writes what is held, or none.     *)
Open == pc \in {"app", "keep"}
Records == 1..Len(logged)
Holdable(r) == \/ logged[r] = Debug
               \/ logged[r] = Info /\ config.sampling /\ config.trace = "out"
ThreadInv ==
  /\ pc # "app" => \A t \in Threads : thread[t].does = "idle"
  /\ closed => pc = "done"
  /\ \A t \in Threads :
       /\ thread[t].does = "decide" => config.sampling /\ logged[thread[t].record] = Info
       /\ thread[t].does = "hold" => Holding /\ Holdable(thread[t].record)
OpenInv ==
  Open => /\ retention = None
          /\ \A r \in Records : r \in written \cup evicted \/ Kept(r) \/ InHand(r)
          /\ \A r \in Records : Kept(r) => Holdable(r)
WrittenInv ==
  /\ ~Holding => Records \subseteq written
  /\ retention = None =>
       /\ sampled \in {"unset", config.trace}
       /\ config.sampling => \A r \in written : logged[r] = Info => config.trace = "in"
       /\ config.sampling /\ config.trace = "in" /\ ~Open =>
            \A r \in Records : logged[r] = Info => r \in written \cup evicted
  /\ retention # None =>
       sampled = "in" /\ \A r \in Records : logged[r] = Info => r \in written \cup evicted
  /\ retention = "failure" => Records \subseteq written \cup evicted
  /\ ~Open /\ Holding /\ Level >= Error => retention = "failure"

RecordInv == ThreadInv /\ OpenInv /\ WrittenInv

LEMMA InitRecordInv == Init => RecordInv
<1> SUFFICES ASSUME Init PROVE RecordInv
  OBVIOUS
<1>1. Records = {} BY DEF Init, Records
<1>2. ThreadInv BY DEF Init, ThreadInv, Idle
<1>3. OpenInv BY <1>1 DEF Init, OpenInv
<1>4. WrittenInv BY <1>1 DEF Init, WrittenInv, Open
<1>5. QED BY <1>2, <1>3, <1>4 DEF RecordInv

(* Messages and metrics leave the records alone.                            *)
LEMMA QuietRecordInv ==
  ASSUME AsgiInv, LogTypes, RecordInv, UNCHANGED <<config, closed, logs>>,
         \/ pc = "app" /\ pc' = "app"
         \/ pc = "observe" /\ pc' = "cleanup" /\ UNCHANGED <<app, disconnected, status>>
         \/ pc' = pc /\ UNCHANGED <<app, disconnected, status>>
  PROVE  RecordInv'
<1> USE DEF RecordInv, logs
<1>1. ThreadInv' BY DEF ThreadInv, Holding, Holdable, AsgiInv, AsgiTypes
<1>2. OpenInv' BY DEF OpenInv, Open, Records, Kept, InHand, Holdable
<1>3. WrittenInv'
  <2>1. ~Open' => ~Open /\ (Level' >= Error <=> Level >= Error)
    BY DEF Open, Level, Message
  <2>2. QED BY <2>1 DEF WrittenInv, Open, Records, Holding
<1>4. QED BY <1>1, <1>2, <1>3

LEMMA LogRecordInv ==
  ASSUME ~Detached, LogTypes, AsgiInv, RecordInv, NEW t \in Threads, Log(t),
         NEW n, n = Len(logged) + 1
  PROVE  RecordInv'
<1> USE DEF RecordInv
<1>1. /\ pc = "app" /\ Open /\ Open' /\ thread[t].does = "idle"
      /\ UNCHANGED <<config, asgi, pc, closed, sampled, retention, held, evicted>>
  BY DEF Log, AsgiInv, Open
<1>2. PICK level \in {Debug, Info, Warning} :
        /\ logged' = Append(logged, level)
        /\ IF \/ ~Holding \/ level >= Warning
              \/ level >= Info /\ (~config.sampling \/ sampled = "in")
           THEN written' = written \cup {n} /\ UNCHANGED thread
           ELSE /\ Does(t, IF level < Info \/ sampled = "out" THEN "hold" ELSE "decide",
                        n)
                /\ UNCHANGED written
  BY DEF Log
<1>3. /\ Len(logged') = n /\ Records' = Records \cup {n} /\ n \notin Records
      /\ \A r \in Records : logged'[r] = logged[r]
      /\ logged'[n] = level
  BY <1>2 DEF LogTypes, Records
<1>4. /\ \A u \in Threads : thread[u].does # "idle" => thread[u].record \in Records
      /\ \A r : Kept(r) => r \in Records
      /\ written \subseteq Records
  BY DEF LogTypes, Records, Kept
<1>5. \A r : Kept(r)' <=> Kept(r) BY <1>1 DEF Kept
<1>6. \A r \in Records : Holdable(r)' <=> Holdable(r) BY <1>1, <1>3 DEF Holdable
<1>7. Holding' <=> Holding BY <1>1 DEF Holding
<1>8. retention = None /\ sampled \in {"unset", config.trace}
  BY <1>1 DEF OpenInv, WrittenInv
<1>9. CASE /\ \/ ~Holding \/ level >= Warning
              \/ level >= Info /\ (~config.sampling \/ sampled = "in")
           /\ written' = written \cup {n} /\ UNCHANGED thread
  <2>1. ThreadInv' BY <1>1, <1>3, <1>4, <1>6, <1>7, <1>9 DEF ThreadInv
  <2>2. OpenInv'
    <3>1. \A r : InHand(r)' <=> InHand(r) BY <1>9 DEF InHand
    <3>2. QED BY <1>1, <1>3, <1>4, <1>5, <1>6, <1>9, <3>1 DEF OpenInv
  <2>3. level = Info /\ config.sampling => config.trace = "in"
    BY <1>8, <1>9 DEF Holding, Info, Warning
  <2>4. WrittenInv'
    BY <1>1, <1>3, <1>4, <1>7, <1>8, <1>9, <2>3 DEF WrittenInv
  <2>5. QED BY <2>1, <2>2, <2>4
<1>10. CASE /\ ~(\/ ~Holding \/ level >= Warning
                 \/ level >= Info /\ (~config.sampling \/ sampled = "in"))
            /\ Does(t, IF level < Info \/ sampled = "out" THEN "hold" ELSE "decide", n)
            /\ UNCHANGED written
  <2>1. Holding /\ level \in {Debug, Info} /\ (level = Info => config.sampling /\ sampled # "in")
    BY <1>2, <1>10 DEF Debug, Info, Warning
  <2>2. /\ \A u \in Threads : u # t => thread'[u] = thread[u]
        /\ thread'[t].record = n
        /\ thread'[t].does = "hold" => Holdable(n)'
        /\ thread'[t].does = "decide" => config.sampling /\ level = Info
        /\ thread'[t].does \in {"hold", "decide"}
    BY <1>1, <1>3, <1>8, <1>10, <2>1 DEF Does, LogTypes, Holdable, Debug, Info
  <2>3. ThreadInv'
    <3>1. ASSUME NEW u \in Threads, thread'[u].does = "decide"
          PROVE  config'.sampling /\ logged'[thread'[u].record] = Info
      BY <1>1, <1>3, <1>4, <2>2, <3>1 DEF ThreadInv
    <3>2. ASSUME NEW u \in Threads, thread'[u].does = "hold", NEW r, r = thread'[u].record
          PROVE  Holding' /\ Holdable(r)'
      <4>1. CASE u = t BY <1>7, <2>1, <2>2, <3>2, <4>1
      <4>2. CASE u # t
        <5>1. thread[u].does = "hold" /\ r = thread[u].record BY <2>2, <3>2, <4>2
        <5>2. r \in Records /\ Holding /\ Holdable(r) BY <1>4, <5>1 DEF ThreadInv
        <5>3. QED BY <1>6, <1>7, <5>2
      <4>3. QED BY <4>1, <4>2
    <3>3. \A u \in Threads : thread'[u].does = "hold" =>
            /\ Holding'
            /\ \/ logged'[thread'[u].record] = Debug
               \/ logged'[thread'[u].record] = Info /\ config'.sampling /\ config'.trace = "out"
      BY <3>2 DEF Holdable
    <3>4. QED BY <1>1, <3>1, <3>3 DEF ThreadInv, Holdable
  <2>4. OpenInv'
    <3>1. ASSUME NEW r, InHand(r) PROVE InHand(r)' BY <1>1, <2>2, <3>1 DEF InHand
    <3>2. InHand(n)'
      BY <2>2 DEF InHand
    <3>3. QED BY <1>1, <1>3, <1>4, <1>5, <1>6, <1>10, <3>1, <3>2 DEF OpenInv
  <2>5. WrittenInv'
    <3>1. UNCHANGED <<config, sampled, retention, written>> /\ Open' /\ Holding' /\ retention = None
      BY <1>1, <1>7, <1>8, <1>10, <2>1
    <3>2. \A r \in written : logged'[r] = logged[r] BY <1>3, <1>4
    <3>3. retention \notin {"failure"} BY <3>1, RequestLogAssumption
    <3>4. QED BY <1>8, <3>1, <3>2, <3>3 DEF WrittenInv
  <2>6. QED BY <2>3, <2>4, <2>5
<1>11. QED BY <1>2, <1>9, <1>10

LEMMA DecideRecordInv ==
  ASSUME ~Detached, LogTypes, AsgiInv, RecordInv, NEW t \in Threads, Decide(t),
         NEW n, n = thread[t].record
  PROVE  RecordInv'
<1> USE DEF RecordInv
<1>1. /\ pc = "app" /\ Open /\ Open' /\ config.sampling /\ logged[n] = Info /\ n \in Records
      /\ Holding
      /\ UNCHANGED <<config, asgi, pc, closed, logged, retention, held, evicted>>
      /\ sampled' = config.trace
  BY DEF Decide, ThreadInv, AsgiInv, AsgiTypes, Open, LogTypes, Records, Holding
<1>2. retention = None /\ retention # "failure" BY <1>1, RequestLogAssumption DEF OpenInv
<1>3. /\ \A r : Kept(r)' <=> Kept(r)
      /\ \A r : Holdable(r)' <=> Holdable(r)
      /\ Holding' /\ Records' = Records
  BY <1>1 DEF Kept, Holdable, Holding, Records
<1>4. /\ \A u \in Threads : u # t => thread'[u] = thread[u]
      /\ \/ /\ config.trace = "in" /\ thread'[t].does = "idle" /\ written' = written \cup {n}
         \/ /\ config.trace = "out" /\ thread'[t].does = "hold" /\ thread'[t].record = n
            /\ written' = written
  BY DEF Decide, Does, LogTypes
<1>5. ThreadInv'
  <2>1. thread'[t].does = "hold" => Holdable(n) BY <1>1, <1>4 DEF Holdable
  <2>2. \A u \in Threads :
          /\ thread'[u].does = "decide" => config.sampling /\ logged[thread'[u].record] = Info
          /\ thread'[u].does = "hold" =>
               \/ logged[thread'[u].record] = Debug
               \/ logged[thread'[u].record] = Info /\ config.sampling /\ config.trace = "out"
    BY <1>4, <2>1 DEF ThreadInv, Holdable
  <2>3. QED BY <1>1, <1>3, <2>2 DEF ThreadInv, Holdable
<1>6. OpenInv'
  <2>1. \A r : InHand(r) => InHand(r)' \/ r \in written' BY <1>4 DEF InHand
  <2>2. QED BY <1>1, <1>2, <1>3, <1>4, <2>1 DEF OpenInv
<1>7. WrittenInv' BY <1>1, <1>2, <1>3, <1>4 DEF WrittenInv
<1>8. QED BY <1>5, <1>6, <1>7

LEMMA HoldRecordInv ==
  ASSUME ~Detached, LogTypes, AsgiInv, RecordInv, NEW t \in Threads, Hold(t),
         NEW n, n = thread[t].record
  PROVE  RecordInv'
<1> USE DEF RecordInv
<1>1. /\ pc = "app" /\ Open /\ Open' /\ ~closed /\ Holding /\ Holdable(n)
      /\ UNCHANGED <<config, asgi, pc, closed, logged, sampled, retention, written>>
  BY DEF Hold, ThreadInv, AsgiInv, AsgiTypes, Open
<1>2. retention = None /\ retention # "failure" BY <1>1, RequestLogAssumption DEF OpenInv
<1>3. /\ \A r : Holdable(r)' <=> Holdable(r)
      /\ Holding' /\ Records' = Records
  BY <1>1 DEF Holdable, Holding, Records
<1>4. /\ \A r : Kept(r)' => Kept(r) \/ r = n
      /\ \A r : Kept(r) => Kept(r)' \/ r \in evicted'
      /\ Kept(n)' /\ evicted \subseteq evicted'
  BY <1>1, HoldHeld
<1>5. /\ \A u \in Threads : u # t => thread'[u] = thread[u]
      /\ thread'[t].does = "idle"
  BY DEF Hold, Does, LogTypes
<1>6. ThreadInv' BY <1>1, <1>3, <1>5 DEF ThreadInv, Holdable
<1>7. OpenInv'
  <2>1. \A r : InHand(r) => InHand(r)' \/ r = n BY <1>5 DEF InHand
  <2>2. QED BY <1>1, <1>2, <1>3, <1>4, <2>1 DEF OpenInv
<1>8. WrittenInv' BY <1>1, <1>2, <1>3 DEF WrittenInv
<1>9. QED BY <1>6, <1>7, <1>8

LEMMA EndRecordInv ==
  ASSUME ~Detached, LogTypes, AsgiInv, RecordInv,
         NEW how \in {"returned", "raised", "cancelled", "exited"}, End(how)
  PROVE  RecordInv'
<1> USE DEF RecordInv
<1>1. /\ pc = "app" /\ pc' = "keep" /\ Open /\ Open' /\ UNCHANGED <<config, closed>>
      /\ UNCHANGED <<logged, thread, sampled, retention, held, written, evicted>>
      /\ \A t \in Threads : thread[t].does = "idle"
  BY DEF End, logs, AsgiInv, Open
<1>2. ThreadInv' BY <1>1 DEF ThreadInv
<1>3. OpenInv' BY <1>1 DEF OpenInv, Records, Kept, InHand, Holdable
<1>4. WrittenInv'
  <2>1. retention = None BY <1>1 DEF OpenInv
  <2>2. Holding' <=> Holding BY <1>1 DEF Holding
  <2>3. QED BY <1>1, <2>1, <2>2 DEF WrittenInv, Records
<1>5. QED BY <1>2, <1>3, <1>4

LEMMA KeepRecordInv ==
  ASSUME LogTypes, AsgiInv, RecordInv, Keep
  PROVE  RecordInv'
<1> USE DEF RecordInv
<1>1. /\ pc = "keep" /\ pc' = "line" /\ Open /\ ~Open'
      /\ UNCHANGED <<config, app, disconnected, status, closed, logged, thread, evicted>>
      /\ \A t \in Threads : thread[t].does = "idle"
  BY DEF Keep, asgi, Open, ThreadInv
<1>2. /\ retention = None
      /\ \A r \in Records : r \in written \cup evicted \/ Kept(r)
      /\ \A r \in Records : Kept(r) => Holdable(r)
  BY <1>1 DEF OpenInv, InHand
<1>3. /\ Records' = Records /\ (Holding' <=> Holding) /\ (Level' >= Error <=> Level >= Error)
  BY <1>1 DEF Records, Holding, Level, Message
<1>4. ThreadInv' BY <1>1, <1>3 DEF ThreadInv
<1>5. OpenInv' BY <1>1 DEF OpenInv
<1>6. WrittenInv'
  <2>1. CASE UNCHANGED <<sampled, retention, held, written>> /\ ~(Holding /\ Level >= Error)
    <3>1. config.sampling /\ config.trace = "in" =>
            \A r \in Records : logged[r] = Info => r \in written \cup evicted
      BY <1>2 DEF Holdable, Info, Debug
    <3>2. QED BY <1>1, <1>2, <1>3, <2>1, <3>1 DEF WrittenInv
  <2>2. ASSUME NEW failed \in BOOLEAN, failed <=> Level >= Error, KeepRequestLogs(failed), Holding
        PROVE  WrittenInv'
    <3>1. /\ sampled' = "in" /\ retention' = IF failed THEN "failure" ELSE "slow"
          /\ written \subseteq written'
          /\ \A r \in Records : Kept(r) /\ (failed \/ logged[r] >= Info) => r \in written'
      BY <2>2 DEF KeepRequestLogs, Kept, Records, LogTypes
    <3>2. failed => Records \subseteq written' \cup evicted' BY <1>1, <1>2, <3>1
    <3>3. \A r \in Records : logged[r] = Info => r \in written' \cup evicted'
      BY <1>1, <1>2, <3>1 DEF Info
    <3>4. retention' # None BY <3>1, RequestLogAssumption
    <3>5. QED BY <1>1, <1>3, <2>2, <3>1, <3>2, <3>3, <3>4 DEF WrittenInv
  <2>3. Level \in {20, 30, 40} BY DEF Level, Error, Info, Warning
  <2>4. CASE Holding /\ KeepRequestLogs(Level >= Error)
    <3>1. CASE Level >= Error
      <4>1. KeepRequestLogs(TRUE) BY <2>4, <3>1 DEF KeepRequestLogs
      <4>2. QED BY <2>2, <2>4, <3>1, <4>1
    <3>2. CASE ~(Level >= Error)
      <4>1. KeepRequestLogs(FALSE) BY <2>4, <3>2 DEF KeepRequestLogs
      <4>2. QED BY <2>2, <2>4, <3>2, <4>1
    <3>3. QED BY <3>1, <3>2
  <2>5. QED BY <2>1, <2>4 DEF Keep
<1>7. QED BY <1>4, <1>5, <1>6

LEMMA LineRecordInv ==
  ASSUME LogTypes, AsgiInv, RecordInv, LogLine
  PROVE  RecordInv'
<1> USE DEF RecordInv
<1>1. /\ pc = "line" /\ pc' = "observe" /\ ~Open /\ ~Open'
      /\ UNCHANGED <<config, app, disconnected, status, closed, logged, thread, retention, held,
                     written, evicted>>
  BY DEF LogLine, asgi, Open
<1>2. /\ sampled' \in {sampled, config.trace}
      /\ sampled = "in" => sampled' = "in"
  BY DEF LogLine
<1>3. /\ Records' = Records /\ (Holding' <=> Holding) /\ (Level' >= Error <=> Level >= Error)
  BY <1>1 DEF Records, Holding, Level, Message
<1>4. ThreadInv' BY <1>1, <1>3 DEF ThreadInv
<1>5. OpenInv' BY <1>1 DEF OpenInv
<1>6. WrittenInv' BY <1>1, <1>2, <1>3 DEF WrittenInv
<1>7. QED BY <1>4, <1>5, <1>6

LEMMA CleanupRecordInv ==
  ASSUME LogTypes, AsgiInv, RecordInv, Cleanup
  PROVE  RecordInv'
<1> USE DEF RecordInv
<1>1. /\ pc = "cleanup" /\ pc' = "done" /\ ~Open /\ ~Open'
      /\ UNCHANGED <<config, app, disconnected, status, logged, thread, sampled, retention,
                     written, evicted>>
  BY DEF Cleanup, asgi, Open
<1>2. /\ Records' = Records /\ (Holding' <=> Holding) /\ (Level' >= Error <=> Level >= Error)
  BY <1>1 DEF Records, Holding, Level, Message
<1>3. ThreadInv' BY <1>1, <1>2 DEF ThreadInv
<1>4. QED BY <1>1, <1>2, <1>3 DEF OpenInv, WrittenInv

(* The line tells what the request ended as, under a reason that follows    *)
(* from what was kept.                                                      *)
Lines == [message : Messages, status : Statuses, written : BOOLEAN,
          reason : {"failure", "slow", "warning", "sampled", "all"}]
Told == pc \in {"observe", "cleanup", "done"}
WrittenLine == Level >= Warning \/ ~config.sampling \/ retention # None \/ config.trace = "in"
LineInv ==
  /\ line \in Lines \cup {None}
  /\ line # None => Told
  /\ Told => /\ line.message = Message /\ line.status = status /\ line.reason = Reason
             /\ line.written <=> WrittenLine

LEMMA LogLineLineInv ==
  ASSUME LogTypes, AsgiInv, RecordInv, LogLine
  PROVE  LineInv'
<1> DEFINE decision == IF config.sampling /\ sampled = "unset" THEN config.trace ELSE sampled
           w == Level >= Warning \/ ~config.sampling \/ decision = "in"
<1>1. line' = [message |-> Message, status |-> status, reason |-> Reason, written |-> w]
  BY DEF LogLine
<1>2. w \in BOOLEAN
  BY Zenon
<1>3. /\ Message \in Messages /\ status \in Statuses
      /\ Reason \in {"failure", "slow", "warning", "sampled", "all"}
  BY DEF Message, Messages, Reason, AsgiInv, AsgiTypes, LogTypes
<1>4. line' \in Lines
  <2> HIDE DEF w
  <2>1. QED BY <1>1, <1>2, <1>3 DEF Lines
<1>5. /\ line'.message = Message /\ line'.status = status /\ line'.reason = Reason
      /\ line'.written <=> w
  <2> HIDE DEF w
  <2>1. QED BY <1>1, <1>2, Zenon
<1>6. w <=> WrittenLine
  <2>1. ~Open BY DEF LogLine, Open
  <2>2. /\ retention = None => sampled \in {"unset", config.trace}
        /\ retention # None => sampled = "in"
    BY DEF RecordInv, WrittenInv
  <2>3. config.sampling => (decision = "in" <=> retention # None \/ config.trace = "in")
    BY <2>2 DEF LogTypes
  <2>4. QED BY <2>3 DEF WrittenLine
<1>7. UNCHANGED <<config, app, disconnected, status, retention>> BY DEF LogLine, asgi
<1>8. /\ Message' = Message /\ Reason' = Reason /\ (WrittenLine' <=> WrittenLine)
  BY <1>7 DEF Message, Reason, Level, WrittenLine
<1>9. Told' BY DEF LogLine, Told
<1>10. QED BY <1>4, <1>5, <1>6, <1>7, <1>8, <1>9 DEF LineInv

LEMMA KeptLineInv ==
  ASSUME AsgiInv, LineInv, line' = line,
         \/ pc \in {"app", "keep"} /\ pc' \in {"app", "keep", "line"}
         \/ /\ UNCHANGED <<config, app, disconnected, status, retention>>
            /\ Told <=> Told'
  PROVE  LineInv'
<1>1. CASE pc \in {"app", "keep"} /\ pc' \in {"app", "keep", "line"}
  BY <1>1 DEF LineInv, Told
<1>2. CASE UNCHANGED <<config, app, disconnected, status, retention>> /\ (Told <=> Told')
  <2>1. /\ Message' = Message /\ Reason' = Reason /\ (WrittenLine' <=> WrittenLine)
    BY <1>2 DEF Message, Reason, Level, WrittenLine
  <2>2. QED BY <1>2, <2>1 DEF LineInv
<1>3. QED BY <1>1, <1>2

-----------------------------------------------------------------------------
IInv == AsgiInv /\ LogTypes /\ RecordInv /\ LineInv

LEMMA InitIInv == Init => IInv
<1> SUFFICES ASSUME Init PROVE IInv
  OBVIOUS
<1>1. LineInv BY DEF Init, LineInv, Told
<1>2. QED BY <1>1, InitAsgiInv, InitLogTypes, InitRecordInv DEF IInv

LEMMA NextIInv == ASSUME ~Detached PROVE IInv /\ [Next]_vars => IInv'
<1> SUFFICES ASSUME IInv, [Next]_vars PROVE IInv'
  OBVIOUS
<1>1. AsgiInv' BY NextAsgiInv DEF IInv
<1> USE DEF IInv
<1>2. CASE UNCHANGED vars
  <2>1. UNCHANGED <<config, closed, logs, app, disconnected, status, pc, line, retention>>
    BY <1>2 DEF vars, asgi, logs
  <2>2. LogTypes' BY <2>1 DEF LogTypes, logs
  <2>3. RecordInv' BY <2>1, QuietRecordInv
  <2>4. LineInv' BY <2>1, KeptLineInv DEF Told
  <2>5. QED BY <1>1, <2>2, <2>3, <2>4
<1>3. CASE SendStart \/ SendBody \/ SendTrailers \/ Sent \/ SendFails \/ Disconnect
  <2>1. /\ pc = "app" /\ pc' = "app" /\ line' = line /\ UNCHANGED <<config, closed, logs>>
    BY <1>3 DEF SendStart, SendBody, SendTrailers, Sent, SendFails, Disconnect, Awaiting, AsgiInv
  <2>2. LogTypes' BY <2>1 DEF LogTypes, logs
  <2>3. QED BY <1>1, <2>1, <2>2, QuietRecordInv, KeptLineInv
<1>4. ASSUME NEW t \in Threads, Log(t) \/ Decide(t) \/ Hold(t) PROVE IInv'
  <2>1. pc = "app" /\ pc' = "app" /\ line' = line
    BY <1>4 DEF Log, Decide, Hold, RecordInv, ThreadInv, AsgiInv
  <2>2. LogTypes' BY <1>4, LogLogTypes, DecideLogTypes, HoldLogTypes
  <2>3. RecordInv' BY <1>4, LogRecordInv, DecideRecordInv, HoldRecordInv
  <2>4. QED BY <1>1, <2>1, <2>2, <2>3, KeptLineInv
<1>5. ASSUME NEW how \in {"returned", "raised", "cancelled", "exited"}, End(how) PROVE IInv'
  <2>1. pc = "app" /\ pc' = "keep" /\ line' = line /\ UNCHANGED <<config, logs>>
    BY <1>5 DEF End, AsgiInv
  <2>2. LogTypes' BY <2>1 DEF LogTypes, logs
  <2>3. QED BY <1>1, <1>5, <2>1, <2>2, EndRecordInv, KeptLineInv
<1>6. CASE Keep
  <2>1. pc = "keep" /\ pc' = "line" /\ line' = line BY <1>6 DEF Keep
  <2>2. QED BY <1>1, <1>6, <2>1, EndLogTypes, KeepRecordInv, KeptLineInv
<1>7. CASE LogLine
  BY <1>1, <1>7, EndLogTypes, LineRecordInv, LogLineLineInv
<1>8. CASE Observe
  <2>1. /\ pc = "observe" /\ pc' = "cleanup" /\ line' = line
        /\ UNCHANGED <<config, closed, logs, app, disconnected, status, retention>>
    BY <1>8 DEF Observe, asgi, logs
  <2>2. QED BY <1>1, <1>8, <2>1, EndLogTypes, QuietRecordInv, KeptLineInv DEF Told
<1>9. CASE Cleanup
  <2>1. /\ pc = "cleanup" /\ pc' = "done" /\ line' = line
        /\ UNCHANGED <<config, app, disconnected, status, retention>>
    BY <1>9 DEF Cleanup, asgi
  <2>2. QED BY <1>1, <1>9, <2>1, EndLogTypes, CleanupRecordInv, KeptLineInv DEF Told
<1>10. QED BY <1>2, <1>3, <1>4, <1>5, <1>6, <1>7, <1>8, <1>9 DEF Next

(* Every request is counted once, under the status of its line.             *)
THEOREM CountedOnce == ASSUME ~Detached PROVE Spec => []ObservedOnce
<1>1. IInv => ObservedOnce BY DEF IInv, AsgiInv, LineInv, Told, ObservedOnce
<1>2. QED BY <1>1, InitIInv, NextIInv, PTL DEF Spec

(* A sampled request is kept or dropped as a whole, whichever of its        *)
(* threads logged and decided.                                              *)
THEOREM Whole == ASSUME ~Detached PROVE Spec => []KeptAsAWhole
<1>1. ASSUME IInv PROVE KeptAsAWhole
  <2> DEFINE infos == {r \in DOMAIN logged : logged[r] = Info}
  <2> SUFFICES ASSUME pc = "done", config.sampling
               PROVE  \/ line.written /\ infos \subseteq written \cup evicted
                      \/ infos \cap written = {}
                           /\ (line.written => line.message # "request.completed")
    BY DEF KeptAsAWhole
  <2>1. DOMAIN logged = Records BY <1>1 DEF IInv, LogTypes, Records
  <2>2. /\ line.message = Message /\ (line.written <=> WrittenLine) /\ ~Open
    BY <1>1 DEF IInv, LineInv, Told, Open
  <2>3. CASE retention # None \/ config.trace = "in"
    <3>1. infos \subseteq written \cup evicted
      BY <1>1, <2>1, <2>2, <2>3 DEF IInv, RecordInv, WrittenInv
    <3>2. line.written BY <2>2, <2>3 DEF WrittenLine
    <3>3. QED BY <3>1, <3>2
  <2>4. CASE retention = None /\ config.trace # "in"
    <3>1. infos \cap written = {} BY <1>1, <2>4 DEF IInv, RecordInv, WrittenInv
    <3>2. line.written => Level >= Warning BY <2>2, <2>4 DEF WrittenLine
    <3>3. Message = "request.completed" => ~(Level >= Warning) BY DEF Level, Info, Warning
    <3>4. QED BY <2>2, <3>1, <3>2, <3>3
  <2>5. QED BY <2>3, <2>4
<1>2. QED BY <1>1, InitIInv, NextIInv, PTL DEF Spec

(* A request that is logged as failed tells all it logged, at every level,  *)
(* but for what the limit pushed out.                                       *)
THEOREM FailuresTell == ASSUME ~Detached PROVE Spec => []FailureTellsAll
<1>1. ASSUME IInv PROVE FailureTellsAll
  <2> SUFFICES ASSUME line # None, line.message \in {"request.failed", "request.server_error"}
               PROVE  line.written /\ DOMAIN logged \subseteq written \cup evicted
    BY DEF FailureTellsAll
  <2>1. DOMAIN logged = Records BY <1>1 DEF IInv, LogTypes, Records
  <2>2. line.message = Message /\ (line.written <=> WrittenLine) /\ ~Open
    BY <1>1 DEF IInv, LineInv, Told, Open
  <2>3. Level = Error BY <2>2 DEF Level
  <2>4. Level >= Error /\ Level >= Warning BY <2>3 DEF Error, Warning
  <2>5. Records \subseteq written \cup evicted
    BY <1>1, <2>2, <2>4 DEF IInv, RecordInv, WrittenInv
  <2>6. QED BY <2>1, <2>2, <2>4, <2>5 DEF WrittenLine
<1>2. QED BY <1>1, InitIInv, NextIInv, PTL DEF Spec

(* The types, and a line that says truly why it was written.                *)
THEOREM HonestReason == ASSUME ~Detached PROVE Spec => []ReasonIsHonest
<1>1. ASSUME IInv PROVE ReasonIsHonest
  <2>1. TypeOK
    <3>1. DOMAIN logged = 1..Len(logged) BY <1>1 DEF IInv, LogTypes
    <3>2. observed \in Seq(Statuses) BY <1>1 DEF IInv, AsgiInv, AsgiTypes
    <3>3. QED BY <1>1, <3>1, <3>2
          DEF IInv, AsgiInv, AsgiTypes, LogTypes, LineInv, Lines, Works, TypeOK
  <2>2. ASSUME line # None PROVE line.written <=> (line.reason = "sampled" => config.trace = "in")
    <3>1. line.reason = Reason /\ (line.written <=> WrittenLine)
      BY <1>1, <2>2 DEF IInv, LineInv
    <3>2. retention # None => Reason # "sampled"
      BY <1>1 DEF IInv, LogTypes, Reason
    <3>3. QED BY <3>1, <3>2 DEF Reason, WrittenLine
  <2>3. QED BY <2>1, <2>2 DEF ReasonIsHonest
<1>2. QED BY <1>1, InitIInv, NextIInv, PTL DEF Spec

-----------------------------------------------------------------------------
(* The journal. A record is in one place: no two threads have the same one, *)
(* none is held twice, and none is held while a thread has it. What is held *)
(* when the line is logged is still what the decision leaves out.           *)
Busy(t) == thread[t].does # "idle"
Once == \A i, j \in 1..Len(held) : held[i] = held[j] => i = j
Apart == \A t, u \in Threads : Busy(t) /\ Busy(u) /\ thread[t].record = thread[u].record => t = u
PlaceInv ==
  /\ Open => Once /\ Apart /\ \A r : Kept(r) => ~InHand(r)
  /\ pc = "line" => \A r : Kept(r) => Holdable(r)

LEMMA InitPlaceInv == Init => PlaceInv
  BY DEF Init, PlaceInv, Once, Apart, Busy, Kept, Idle

LEMMA SamePlaceInv ==
  ASSUME PlaceInv, UNCHANGED <<held, thread>>, Open' => Open, pc' # "line"
  PROVE  PlaceInv'
<1>1. Once' = Once /\ Apart' = Apart /\ \A r : (Kept(r)' <=> Kept(r)) /\ (InHand(r)' <=> InHand(r))
  BY DEF Once, Apart, Busy, Kept, InHand
<1>2. QED BY <1>1 DEF PlaceInv

LEMMA LogPlaceInv ==
  ASSUME LogTypes, PlaceInv, NEW t \in Threads, NEW n, n = Len(logged) + 1, Log(t), Open, pc' = pc
  PROVE  /\ PlaceInv'
         /\ \A r : Kept(r)' <=> Kept(r)
         /\ \/ UNCHANGED thread
            \/ /\ n \notin Records
               /\ \A r : InHand(r)' <=> InHand(r) \/ r = n
<1>1. UNCHANGED held /\ ~Busy(t) BY DEF Log, Busy
<1>2. /\ \A u \in Threads : Busy(u) => thread[u].record \in Records
      /\ \A r : Kept(r) => r \in Records
      /\ n \notin Records
  BY DEF LogTypes, Busy, Records, Kept
<1>3. (Once' <=> Once) /\ \A r : Kept(r)' <=> Kept(r) BY <1>1 DEF Once, Kept
<1>4. pc # "line" BY DEF Open
<1>5. CASE UNCHANGED thread
  <2>1. (Apart' <=> Apart) /\ \A r : InHand(r)' <=> InHand(r) BY <1>5 DEF Apart, Busy, InHand
  <2>2. QED BY <1>3, <1>4, <1>5, <2>1 DEF PlaceInv, Open
<1>6. ASSUME NEW what \in {"hold", "decide"}, Does(t, what, n)
      PROVE  PlaceInv' /\ \A r : InHand(r)' <=> InHand(r) \/ r = n
  <2>1. /\ \A u \in Threads : u # t => thread'[u] = thread[u]
        /\ Busy(t)' /\ thread'[t].record = n
    BY <1>6 DEF Does, LogTypes, Busy
  <2>2. \A u \in Threads : u # t => (Busy(u)' <=> Busy(u)) BY <2>1 DEF Busy
  <2>3. Apart'
    <3>1. Apart BY DEF PlaceInv
    <3>2. QED BY <1>2, <2>1, <2>2, <3>1 DEF Apart
  <2>4. \A r : InHand(r)' <=> InHand(r) \/ r = n
    BY <1>1, <2>1, <2>2 DEF InHand, Busy
  <2>5. QED BY <1>2, <1>3, <1>4, <2>3, <2>4 DEF PlaceInv, Open
<1>7. UNCHANGED thread \/ \E what \in {"hold", "decide"} : Does(t, what, n) BY DEF Log
<1>8. QED BY <1>2, <1>3, <1>5, <1>6, <1>7

(* A thread that decides has its record still, or no more.                  *)
LEMMA DecidePlaceInv ==
  ASSUME LogTypes, PlaceInv, NEW t \in Threads, NEW x, x = thread[t].record, Decide(t), Open,
         pc' = pc
  PROVE  /\ PlaceInv'
         /\ \A r : Kept(r)' <=> Kept(r)
         /\ ~Kept(x) /\ InHand(x)
         /\ config.trace = "in" => \A r : InHand(r)' <=> InHand(r) /\ r # x
         /\ config.trace = "out" => \A r : InHand(r)' <=> InHand(r)
<1>1. UNCHANGED held /\ Busy(t) BY DEF Decide, Busy
<1>2. (Once' <=> Once) /\ \A r : Kept(r)' <=> Kept(r) BY <1>1 DEF Once, Kept
<1>3. /\ \A u \in Threads : u # t => thread'[u] = thread[u]
      /\ config.trace = "in" => ~Busy(t)'
      /\ config.trace # "in" => Busy(t)' /\ thread'[t].record = x
  BY DEF Decide, Does, LogTypes, Busy
<1>4. \A u \in Threads : u # t => (Busy(u)' <=> Busy(u)) BY <1>3 DEF Busy
<1>5. Apart /\ pc # "line" BY DEF PlaceInv, Open
<1>6. Apart' BY <1>1, <1>3, <1>4, <1>5 DEF Apart
<1>7. ~Kept(x) /\ InHand(x) BY <1>1 DEF PlaceInv, InHand, Busy
<1>8. config.trace = "in" => \A r : InHand(r)' <=> InHand(r) /\ r # x
  BY <1>1, <1>3, <1>4, <1>5 DEF InHand, Apart, Busy
<1>9. config.trace # "in" => \A r : InHand(r)' <=> InHand(r)
  BY <1>1, <1>3, <1>4 DEF InHand, Busy
<1>10. \A r : InHand(r)' => InHand(r) BY <1>8, <1>9
<1>11. QED BY <1>2, <1>5, <1>6, <1>7, <1>8, <1>9, <1>10 DEF PlaceInv, Open

(* What is held once is as many records as there are places.                *)
LEMMA HeldCount ==
  ASSUME LogTypes, Once, NEW S, S = {r \in Records : Kept(r)}
  PROVE  IsFiniteSet(S) /\ Cardinality(S) = Len(held)
<1>1. /\ Len(held) \in Nat /\ held \in [1..Len(held) -> Records]
      /\ Len(logged) \in Nat /\ Records = 1..Len(logged)
  BY DEF LogTypes, Records
<1>2. held \in Bijection(1..Len(held), S)
  <2>1. \A i \in 1..Len(held) : held[i] \in S BY <1>1 DEF Kept
  <2>2. \A r \in S : \E i \in 1..Len(held) : held[i] = r BY DEF Kept
  <2>3. held \in [1..Len(held) -> S] BY <1>1, <2>1
  <2>4. QED BY <2>2, <2>3 DEF Once, Bijection, Injection, Surjection, IsInjective
<1>3. Cardinality(S) = Len(held) BY <1>1, <1>2, FS_CountingElements DEF ExistsBijection
<1>4. S \subseteq Records /\ IsFiniteSet(Records) BY <1>1, FS_Interval
<1>5. QED BY <1>3, <1>4, FS_Subset

(* At the limit the oldest leaves, and is nowhere else.                     *)
LEMMA HoldOnce ==
  ASSUME LogTypes, PlaceInv, Open, ~closed, NEW t \in Threads, NEW x, x = thread[t].record, Hold(t)
  PROVE  /\ Once' /\ InHand(x) /\ ~Kept(x)
         /\ \/ /\ Len(held) < HoldLimit
               /\ \A r : Kept(r)' <=> Kept(r) \/ r = x
            \/ /\ Len(held) = HoldLimit /\ Kept(Head(held)) /\ Head(held) \in Records
               /\ \A r : Kept(r)' <=> (Kept(r) /\ r # Head(held)) \/ r = x
<1> USE RequestLogAssumption
<1>1. /\ held \in Seq(Records) /\ x \in Records /\ Len(held) <= HoldLimit /\ Len(held) \in Nat
      /\ InHand(x) /\ HoldLimit \in Nat \ {0}
  BY DEF LogTypes, Records, Hold, InHand
<1>2. Once /\ ~Kept(x) BY <1>1 DEF PlaceInv
<1>3. CASE Len(held) < HoldLimit
  <2>1. held' = Append(held, x) BY <1>3 DEF Hold
  <2>2. /\ Len(held') = Len(held) + 1
        /\ \A i \in 1..Len(held) : held'[i] = held[i]
        /\ held'[Len(held) + 1] = x
    BY <1>1, <2>1, AppendProperties
  <2>3. \A i \in 1..Len(held) : held[i] # x BY <1>2 DEF Kept
  <2>4. Once' BY <1>1, <1>2, <2>2, <2>3 DEF Once
  <2>5. QED BY <1>1, <1>2, <1>3, <2>2, <2>4 DEF Kept
<1>4. CASE ~(Len(held) < HoldLimit)
  <2>1. held' = Append(Tail(held), x) /\ Len(held) = HoldLimit /\ held # <<>>
    BY <1>1, <1>4 DEF Hold
  <2>2. /\ Tail(held) \in Seq(Records) /\ Len(Tail(held)) = Len(held) - 1
        /\ \A i \in 1..Len(Tail(held)) : Tail(held)[i] = held[i + 1]
        /\ Head(held) = held[1] /\ Head(held) \in Records
    BY <1>1, <2>1, HeadTailProperties
  <2>3. /\ Len(held') = Len(held)
        /\ \A i \in 1..(Len(held) - 1) : held'[i] = held[i + 1]
        /\ held'[Len(held)] = x
    BY <1>1, <2>1, <2>2, AppendProperties
  <2>4. \A i \in 1..Len(held) : held[i] # x BY <1>2 DEF Kept
  <2>5. Once'
    <3> SUFFICES ASSUME NEW i \in 1..Len(held), NEW j \in 1..Len(held), held'[i] = held'[j]
                 PROVE  i = j
      BY <2>3 DEF Once
    <3>1. \A k \in 1..Len(held) : k = Len(held) \/ (k \in 1..(Len(held) - 1) /\ k + 1 \in 1..Len(held))
      BY <1>1
    <3>2. QED BY <1>1, <1>2, <2>3, <2>4, <3>1 DEF Once
  <2>6. ASSUME NEW r, Kept(r)' PROVE (Kept(r) /\ r # Head(held)) \/ r = x
    <3>1. PICK i \in 1..Len(held) : held'[i] = r BY <2>3, <2>6 DEF Kept
    <3>2. CASE i = Len(held) BY <2>3, <3>1, <3>2
    <3>3. CASE i # Len(held)
      <4>1. i \in 1..(Len(held) - 1) /\ i + 1 \in 1..Len(held) /\ i + 1 # 1 /\ 1 \in 1..Len(held)
        BY <1>1, <2>1, <3>3
      <4>2. held[i + 1] = r BY <2>3, <3>1, <4>1
      <4>3. held[i + 1] # held[1] BY <1>2, <4>1 DEF Once
      <4>4. QED BY <2>2, <4>1, <4>2, <4>3 DEF Kept
    <3>4. QED BY <3>2, <3>3
  <2>7. ASSUME NEW r, Kept(r), r # Head(held) PROVE Kept(r)'
    <3>1. PICK i \in 1..Len(held) : held[i] = r BY <2>7 DEF Kept
    <3>2. i # 1 BY <2>2, <2>7, <3>1
    <3>3. i - 1 \in 1..(Len(held) - 1) /\ (i - 1) + 1 = i BY <1>1, <3>2
    <3>4. held'[i - 1] = r BY <2>3, <3>1, <3>3
    <3>5. i - 1 \in 1..Len(held') BY <1>1, <2>3, <3>3
    <3>6. QED BY <3>4, <3>5 DEF Kept
  <2>8. Kept(x)'
    <3>1. Len(held) \in 1..Len(held') BY <1>1, <2>1, <2>3
    <3>2. QED BY <2>3, <3>1 DEF Kept
  <2>9. Kept(Head(held))
    <3>1. 1 \in 1..Len(held) BY <1>1, <2>1
    <3>2. QED BY <2>2, <3>1 DEF Kept
  <2>10. \A r : Kept(r)' <=> (Kept(r) /\ r # Head(held)) \/ r = x BY <2>6, <2>7, <2>8
  <2>11. QED BY <1>1, <1>2, <2>1, <2>2, <2>5, <2>9, <2>10
<1>5. QED BY <1>3, <1>4

LEMMA HoldPlaceInv ==
  ASSUME LogTypes, PlaceInv, Open, ~closed, NEW t \in Threads, NEW x, x = thread[t].record, Hold(t),
         pc' = pc
  PROVE  PlaceInv' /\ \A r : InHand(r)' <=> InHand(r) /\ r # x
<1>1. Busy(t) BY DEF Hold, Busy
<1>2. /\ \A u \in Threads : u # t => thread'[u] = thread[u]
      /\ ~Busy(t)'
  BY DEF Hold, Does, LogTypes, Busy
<1>3. \A u \in Threads : u # t => (Busy(u)' <=> Busy(u)) BY <1>2 DEF Busy
<1>4. Apart /\ pc # "line" /\ \A r : Kept(r) => ~InHand(r) BY DEF PlaceInv, Open
<1>5. Apart' BY <1>2, <1>3, <1>4 DEF Apart
<1>6. \A r : InHand(r)' <=> InHand(r) /\ r # x
  BY <1>1, <1>2, <1>3, <1>4 DEF InHand, Apart, Busy
<1>7. Once' /\ \A r : Kept(r)' => Kept(r) \/ r = x BY HoldOnce
<1>8. QED BY <1>4, <1>5, <1>6, <1>7 DEF PlaceInv, Open

(* The steps of the journal.                                                *)
LEMMA JournalCounts == ASSUME NEW S PROVE Journal!Cardinality(S) = Cardinality(S)
  BY Zenon DEF Journal!Cardinality, Cardinality

LEMMA WaitingIs ==
  ASSUME LogTypes
  PROVE  /\ Waiting = {r \in Records : Kept(r) \/ InHand(r)}
         /\ Waiting' = {r \in Records' : Kept(r)' \/ InHand(r)'}
         /\ \A r : Kept(r) \/ InHand(r) => r \in Records
  BY DEF Waiting, Kept, InHand, Records, LogTypes

LEMMA LogJournal ==
  ASSUME LogTypes, PlaceInv, NEW t \in Threads, Log(t), Open, UNCHANGED <<config, pc>>
  PROVE  Journal!Next
<1> DEFINE n == Len(logged) + 1
<1>1. PICK level \in {Debug, Info, Warning} :
        /\ level >= Lowest
        /\ logged' = Append(logged, level)
        /\ IF \/ ~Holding \/ level >= Warning
              \/ level >= Info /\ (~config.sampling \/ sampled = "in")
           THEN written' = written \cup {n} /\ UNCHANGED thread
           ELSE /\ Does(t, IF level < Info \/ sampled = "out" THEN "hold" ELSE "decide", n)
                /\ UNCHANGED written
  BY DEF Log
<1>2. /\ UNCHANGED <<sampled, held>> /\ thread[t].does = "idle"
      /\ Stance' = Stance /\ Signed' = Signed /\ Phase' = Phase /\ Phase = "open"
  BY DEF Log, Stance, Signed, Phase, Open
<1>3. Len(logged') = n /\ Records' = Records \cup {n} /\ n \notin Records
  BY <1>1 DEF LogTypes, Records
<1>4. n = Len(logged) + 1 OBVIOUS
<1> HIDE DEF n
<1>5. /\ \A r : Kept(r)' <=> Kept(r)
      /\ UNCHANGED thread \/ \A r : InHand(r)' <=> InHand(r) \/ r = n
  BY <1>2, <1>4, LogPlaceInv
<1>6. /\ Waiting = {r \in Records : Kept(r) \/ InHand(r)}
      /\ \A r : Kept(r) \/ InHand(r) => r \in Records
      /\ Waiting' = {r \in Records' : Kept(r)' \/ InHand(r)'}
  BY WaitingIs
<1> DEFINE tells == level = Warning \/ (level = Info /\ Stance = "in")
<1>7. CASE /\ \/ ~Holding \/ level >= Warning
              \/ level >= Info /\ (~config.sampling \/ sampled = "in")
           /\ written' = written \cup {n} /\ UNCHANGED thread
  <2>1. tells BY <1>1, <1>7 DEF Stance, Holding, Lowest, Debug, Info, Warning
  <2>2. \A r : InHand(r)' <=> InHand(r) BY <1>7 DEF InHand
  <2>3. Waiting' = Waiting BY <1>3, <1>5, <1>6, <2>2
  <2>4. Journal!Enter(level) BY <1>1, <1>2, <1>3, <1>7, <2>1, <2>3 DEF Journal!Enter
  <2>5. QED BY <2>4 DEF Journal!Next
<1>8. CASE /\ ~(\/ ~Holding \/ level >= Warning
                \/ level >= Info /\ (~config.sampling \/ sampled = "in"))
           /\ Does(t, IF level < Info \/ sampled = "out" THEN "hold" ELSE "decide", n)
           /\ UNCHANGED written
  <2>1. ~tells BY <1>1, <1>8 DEF Stance, Info, Warning
  <2>2. thread'[t].does # "idle" BY <1>8 DEF Does, LogTypes
  <2>3. \A r : InHand(r)' <=> InHand(r) \/ r = n BY <1>2, <1>5, <2>2
  <2>4. Waiting' = Waiting \cup {n} BY <1>3, <1>5, <1>6, <2>3
  <2>5. Journal!Enter(level) BY <1>1, <1>2, <1>3, <1>8, <2>1, <2>4 DEF Journal!Enter
  <2>6. QED BY <2>5 DEF Journal!Next
<1>9. QED BY <1>1, <1>7, <1>8

LEMMA DecideJournal ==
  ASSUME LogTypes, PlaceInv, RecordInv, NEW t \in Threads, Decide(t), Open,
         UNCHANGED <<config, pc>>
  PROVE  Journal!Next
<1> DEFINE x == thread[t].record
<1>1. /\ config.sampling /\ logged[x] = Info /\ retention = None
      /\ sampled \in {"unset", config.trace} /\ sampled' = config.trace
      /\ config.trace \in {"in", "out"}
      /\ UNCHANGED <<logged, held>>
  BY DEF Decide, RecordInv, ThreadInv, OpenInv, WrittenInv, LogTypes
<1>2. /\ Stance \in {"unknown", config.trace} /\ Stance' = config.trace
      /\ Signed' = Signed /\ Phase' = Phase /\ Phase = "open"
  BY <1>1 DEF Stance, Signed, Phase, Open
<1>3. /\ config.trace = "in" => written' = written \cup {x}
      /\ config.trace # "in" => written' = written
  BY DEF Decide
<1>4. x = thread[t].record OBVIOUS
<1> HIDE DEF x
<1>5. /\ \A r : Kept(r)' <=> Kept(r)
      /\ ~Kept(x) /\ InHand(x)
      /\ config.trace = "in" => \A r : InHand(r)' <=> InHand(r) /\ r # x
      /\ config.trace = "out" => \A r : InHand(r)' <=> InHand(r)
  BY <1>4, DecidePlaceInv
<1>6. /\ Waiting = {r \in Records : Kept(r) \/ InHand(r)}
      /\ \A r : Kept(r) \/ InHand(r) => r \in Records
      /\ Waiting' = {r \in Records' : Kept(r)' \/ InHand(r)'}
      /\ Records' = Records
  BY <1>1, WaitingIs DEF Records
<1>7. /\ config.trace = "in" => Waiting' = Waiting \ {x}
      /\ config.trace = "out" => Waiting' = Waiting
  BY <1>5, <1>6
<1>8. x \in Waiting /\ x \in Journal!Waiting(Info) BY <1>1, <1>5, <1>6 DEF Journal!Waiting
<1>9. Journal!Takes(config.trace) BY <1>2 DEF Journal!Takes
<1>10. Journal!Settle(x, config.trace)
  BY <1>1, <1>2, <1>3, <1>7, <1>8, <1>9 DEF Journal!Settle
<1>11. QED BY <1>1, <1>8, <1>10 DEF Journal!Next

LEMMA HoldJournal ==
  ASSUME LogTypes, PlaceInv, NEW t \in Threads, Hold(t), Open, ~closed,
         UNCHANGED <<config, pc>>
  PROVE  Journal!Next \/ UNCHANGED Journal!vars
<1> DEFINE x == thread[t].record
           h == Head(held)
<1>1. UNCHANGED <<logged, written, sampled>> BY DEF Hold
<1>2. Stance' = Stance /\ Signed' = Signed /\ Phase' = Phase /\ Phase = "open"
  BY <1>1 DEF Stance, Signed, Phase, Open
<1>3. x = thread[t].record /\ h = Head(held) OBVIOUS
<1> HIDE DEF x, h
<1>4. /\ InHand(x) /\ ~Kept(x)
      /\ \/ \A r : Kept(r)' <=> Kept(r) \/ r = x
         \/ /\ Len(held) = HoldLimit /\ Kept(h) /\ h \in Records
            /\ \A r : Kept(r)' <=> (Kept(r) /\ r # h) \/ r = x
  BY <1>3, HoldOnce
<1>5. (\A r : InHand(r)' <=> InHand(r) /\ r # x) /\ \A r : Kept(r) => ~InHand(r)
  BY <1>3, HoldPlaceInv DEF PlaceInv
<1>6. /\ Waiting = {r \in Records : Kept(r) \/ InHand(r)}
      /\ \A r : Kept(r) \/ InHand(r) => r \in Records
      /\ Waiting' = {r \in Records' : Kept(r)' \/ InHand(r)'}
      /\ Records' = Records
  BY <1>1, WaitingIs DEF Records
<1>7. CASE \A r : Kept(r)' <=> Kept(r) \/ r = x
  <2>1. Waiting' = Waiting BY <1>4, <1>5, <1>6, <1>7
  <2>2. QED BY <1>1, <1>2, <2>1 DEF Journal!vars
<1>8. CASE /\ Len(held) = HoldLimit /\ Kept(h) /\ h \in Records
           /\ \A r : Kept(r)' <=> (Kept(r) /\ r # h) \/ r = x
  <2>1. Waiting' = Waiting \ {h} /\ h \in Waiting BY <1>4, <1>5, <1>6, <1>8
  <2>2. Cardinality(Waiting) > HoldLimit
    <3> DEFINE S == {r \in Records : Kept(r)}
    <3>1. S = {r \in Records : Kept(r)} /\ Once BY DEF PlaceInv
    <3>2. x \notin S /\ S \cup {x} \subseteq Waiting BY <1>4, <1>6
    <3> HIDE DEF S
    <3>3. IsFiniteSet(S) /\ Cardinality(S) = HoldLimit BY <1>8, <3>1, HeldCount
    <3>4. Cardinality(S \cup {x}) = HoldLimit + 1 BY <3>2, <3>3, FS_AddElement
    <3>5. IsFiniteSet(Waiting)
      <4>1. Waiting \subseteq Records /\ IsFiniteSet(Records)
        BY <1>6, FS_Interval DEF LogTypes, Records
      <4>2. QED BY <4>1, FS_Subset
    <3>6. Cardinality(Waiting) \in Nat /\ HoldLimit + 1 <= Cardinality(Waiting)
      BY <3>2, <3>4, <3>5, FS_Subset, FS_CardinalityType
    <3>7. QED BY <3>6, RequestLogAssumption
  <2>3. Journal!Cardinality(Waiting) > HoldLimit BY <2>2, JournalCounts
  <2>4. Journal!Lose(h) BY <1>1, <1>2, <2>1, <2>3 DEF Journal!Lose
  <2>5. QED BY <2>1, <2>4 DEF Journal!Next
<1>9. QED BY <1>4, <1>7, <1>8

LEMMA KeepPlaceInv ==
  ASSUME PlaceInv, RecordInv, LogTypes, Keep
  PROVE  PlaceInv'
<1>1. pc = "keep" /\ pc' = "line" /\ ~Open' /\ UNCHANGED <<config, logged>> BY DEF Keep, Open
<1>2. held' \in {held, <<>>} BY DEF Keep, KeepRequestLogs
<1>3. \A r : Kept(r) => Holdable(r) BY <1>1 DEF RecordInv, OpenInv, Open, Kept, Records, LogTypes
<1>4. \A r : (Holdable(r)' <=> Holdable(r)) /\ (Kept(r)' => Kept(r))
  <2>1. CASE held' = held BY <1>1, <2>1 DEF Holdable, Kept
  <2>2. CASE held' = <<>>
    <3>1. \A r : ~Kept(r)' BY <2>2 DEF Kept
    <3>2. QED BY <1>1, <3>1 DEF Holdable
  <2>3. QED BY <1>2, <2>1, <2>2
<1>5. QED BY <1>1, <1>3, <1>4 DEF PlaceInv

\* The request is judged: what is held is told, or what is no detail of it, or none.
LEMMA KeepJournal ==
  ASSUME LogTypes, PlaceInv, RecordInv, Keep
  PROVE  Journal!Next
<1>1. /\ pc = "keep" /\ pc' = "line" /\ Open
      /\ UNCHANGED <<config, logged, thread>>
      /\ \A t \in Threads : thread[t].does = "idle"
  BY DEF Keep, Open, RecordInv, ThreadInv
<1>2. Phase = "open" /\ Phase' = "judged" /\ Signed' = Signed BY <1>1 DEF Phase, Signed
<1>3. \A r : ~InHand(r) /\ ~InHand(r)' BY <1>1 DEF InHand
<1>4. /\ Waiting = {r \in Records : Kept(r)}
      /\ Waiting' = {r \in Records : Kept(r)'}
      /\ Records = DOMAIN logged
  BY <1>1, <1>3, WaitingIs DEF Records, LogTypes
<1>5. Journal!Cardinality(Waiting) <= HoldLimit
  <2>1. Cardinality(Waiting) = Len(held) BY <1>1, <1>4, HeldCount DEF PlaceInv
  <2>2. Journal!Cardinality(Waiting) = Len(held) BY <2>1, JournalCounts
  <2>3. QED BY <2>2 DEF LogTypes
<1>6. \A r \in Waiting : Holdable(r) BY <1>1, <1>4 DEF RecordInv, OpenInv
<1>7. Stance = "in" => Journal!Waiting(Info) = {}
  <2>1. sampled \in {"unset", config.trace} BY <1>1 DEF RecordInv, OpenInv, WrittenInv
  <2>2. Stance = "in" => ~(config.sampling /\ config.trace = "out") BY <2>1 DEF Stance
  <2>3. QED BY <1>6, <2>2 DEF Journal!Waiting, Holdable, Debug, Info
<1>8. CASE UNCHANGED <<sampled, retention, held, written>>
  <2>1. Stance' = Stance /\ Waiting' = Waiting BY <1>1, <1>4, <1>8 DEF Stance, Kept
  <2>2. Journal!Judge BY <1>1, <1>2, <1>5, <1>7, <1>8, <2>1 DEF Journal!Judge
  <2>3. QED BY <2>2 DEF Journal!Next
<1>9. ASSUME NEW failed \in BOOLEAN, KeepRequestLogs(failed) PROVE Journal!Next
  <2>1. /\ sampled' = "in" /\ held' = <<>>
        /\ written' = written \cup {r \in DOMAIN logged : \E i \in DOMAIN held : held[i] = r
                                                            /\ (failed \/ logged[r] >= Info)}
    BY <1>9 DEF KeepRequestLogs
  <2>2. Stance' = "in" BY <2>1 DEF Stance
  <2>3. Waiting' = {} BY <1>4, <2>1 DEF Kept
  <2>4. DOMAIN held = 1..Len(held) BY DEF LogTypes
  <2>5. written' = written \cup {r \in Waiting : failed \/ logged[r] >= Info}
    BY <1>4, <2>1, <2>4 DEF Kept
  <2>6. \A r \in Waiting : logged[r] >= Info <=> logged[r] = Info
    BY <1>6 DEF Holdable, Debug, Info
  <2>7. written' \in {written \cup Waiting, written \cup Journal!Waiting(Info)}
    BY <2>5, <2>6 DEF Journal!Waiting
  <2>8. Journal!Judge BY <1>1, <1>2, <1>5, <1>7, <2>2, <2>3, <2>7 DEF Journal!Judge
  <2>9. QED BY <2>8 DEF Journal!Next
<1>10. \/ UNCHANGED <<sampled, retention, held, written>>
       \/ KeepRequestLogs(Level >= Error)
  BY DEF Keep
<1>11. (Level >= Error) \in BOOLEAN BY DEF Level, Error, Info, Warning
<1>12. QED BY <1>8, <1>9, <1>10, <1>11

LEMMA LogLineJournal ==
  ASSUME LogTypes, AsgiInv, PlaceInv, RecordInv, LogLine
  PROVE  Journal!Next
<1> DEFINE decision == IF config.sampling /\ sampled = "unset" THEN config.trace ELSE sampled
           loud == Level >= Warning
<1>1. /\ pc = "line" /\ pc' = "observe"
      /\ UNCHANGED <<config, logged, thread, held, written>>
      /\ sampled' = IF loud THEN sampled ELSE decision
  BY DEF LogLine
<1>2. /\ Phase = "judged" /\ Phase' = Phase /\ Signed = "none" BY <1>1 DEF Phase, Signed
<1>3. line'.written <=> loud \/ ~config.sampling \/ decision = "in" BY Zenon DEF LogLine
<1>4. Signed' = IF loud \/ ~config.sampling \/ decision = "in" THEN "told" ELSE "lost"
  BY <1>1, <1>3 DEF Signed
<1>5. Waiting' = Waiting BY <1>1 DEF Waiting
<1>6. /\ sampled \in {"unset", "in", "out"} /\ config.trace \in {"in", "out"}
      /\ config.sampling \in BOOLEAN
  BY DEF LogTypes
<1> HIDE DEF loud
<1>7. CASE Stance' = Stance /\ Signed' = "told"
  <2>1. Journal!Sign BY <1>1, <1>2, <1>5, <1>7 DEF Journal!Sign
  <2>2. QED BY <2>1 DEF Journal!Next
<1>8. CASE Signed' = "lost"
  <2>1. Stance \in {"unknown", "out"} /\ Stance' = "out" BY <1>1, <1>4, <1>6, <1>8 DEF Stance
  <2>2. Journal!Takes("out") BY <2>1 DEF Journal!Takes
  <2>3. Journal!Sign BY <1>1, <1>2, <1>5, <1>8, <2>2 DEF Journal!Sign
  <2>4. QED BY <2>3 DEF Journal!Next
<1>9. CASE Stance' # Stance /\ Signed' = "told"
  <2>1. /\ Stance = "unknown" /\ Stance' = "in"
        /\ sampled = "unset" /\ config.trace = "in"
    BY <1>1, <1>4, <1>6, <1>9 DEF Stance
  <2>2. \A r \in Waiting : logged[r] # Info
    <3>1. \A r : ~InHand(r) BY <1>1 DEF RecordInv, ThreadInv, InHand
    <3>2. \A r \in Waiting : Holdable(r) BY <1>1, <3>1, WaitingIs DEF PlaceInv
    <3>3. QED BY <2>1, <3>2 DEF Holdable, Debug, Info
  <2>3. Journal!Waiting(Info) = {} BY <2>2 DEF Journal!Waiting
  <2>4. Journal!Takes("in") BY <2>1 DEF Journal!Takes
  <2>5. Journal!Sign BY <1>1, <1>2, <1>5, <1>9, <2>3, <2>4 DEF Journal!Sign
  <2>6. QED BY <2>5 DEF Journal!Next
<1>10. QED BY <1>4, <1>7, <1>8, <1>9

LEMMA CleanupJournal ==
  ASSUME LogTypes, RecordInv, Cleanup
  PROVE  Journal!Next
<1>1. /\ pc = "cleanup" /\ pc' = "done" /\ held' = <<>>
      /\ UNCHANGED <<config, line, logged, thread, sampled, written>>
  BY DEF Cleanup
<1>2. /\ Phase = "judged" /\ Phase' = "closed" /\ Signed' = Signed /\ Signed # "none"
      /\ Stance' = Stance
  BY <1>1 DEF Phase, Signed, Stance
<1>3. \A r : ~Kept(r)' /\ ~InHand(r)' BY <1>1 DEF Kept, InHand, RecordInv, ThreadInv
<1>4. Waiting' = {} BY <1>3, WaitingIs
<1>5. Journal!Close BY <1>1, <1>2, <1>4 DEF Journal!Close
<1>6. QED BY <1>5 DEF Journal!Next

(* The log of a request is a journal: every record is told, waits or is     *)
(* lost as the journal allows, and so is the request's own line.            *)
THEOREM LogIsAJournal == ASSUME ~Detached PROVE Spec => ImplementsJournal
<1>1. Init => Journal!Init
  <2> SUFFICES ASSUME Init PROVE Journal!Init
    OBVIOUS
  <2>1. Waiting = {} /\ logged = <<>> /\ written = {} BY DEF Init, Waiting
  <2>2. Stance \in {"unknown", "in"} /\ Signed = "none" /\ Phase = "open"
    BY DEF Init, Stance, Signed, Phase
  <2>3. QED BY <2>1, <2>2 DEF Journal!Init
<1>2. ASSUME IInv, PlaceInv, [Next]_vars
      PROVE  PlaceInv' /\ (Journal!Next \/ UNCHANGED Journal!vars)
  <2>1. AsgiInv /\ LogTypes /\ RecordInv BY <1>2 DEF IInv
  <2>2. ASSUME UNCHANGED <<config, logged, thread, sampled, held, written>>,
               Phase' = Phase, Signed' = Signed, Open' => Open, pc' # "line" \/ pc = "line"
        PROVE  PlaceInv' /\ UNCHANGED Journal!vars
    <3>1. Waiting' = Waiting /\ Stance' = Stance BY <2>2 DEF Waiting, Stance
    <3>2. ASSUME pc' # "line" PROVE PlaceInv'
      BY <1>2, <2>2, <3>2, SamePlaceInv
    <3>3. ASSUME pc' = "line" PROVE PlaceInv'
      <4>1. \A r : (Kept(r)' <=> Kept(r)) /\ (Holdable(r)' <=> Holdable(r))
        BY <2>2 DEF Kept, Holdable
      <4>2. QED BY <1>2, <2>2, <3>3, <4>1 DEF PlaceInv, Open
    <3>4. UNCHANGED Journal!vars BY <2>2, <3>1 DEF Journal!vars
    <3>5. QED BY <3>2, <3>3, <3>4
  <2>3. CASE UNCHANGED vars
    <3>1. UNCHANGED <<config, logged, thread, sampled, held, written, pc, line>>
      BY <2>3 DEF vars, logs
    <3>2. Phase' = Phase /\ Signed' = Signed BY <3>1 DEF Phase, Signed
    <3>3. QED BY <2>2, <3>1, <3>2 DEF Open
  <2>4. CASE SendStart \/ SendBody \/ SendTrailers \/ Sent \/ SendFails \/ Disconnect
    <3>1. pc = "app" /\ pc' = "app" /\ UNCHANGED <<config, logs>>
      BY <2>1, <2>4 DEF SendStart, SendBody, SendTrailers, Sent, SendFails, Disconnect, Awaiting,
                        AsgiInv
    <3>2. Phase' = Phase /\ Signed' = Signed BY <3>1 DEF Phase, Signed
    <3>3. QED BY <2>2, <3>1, <3>2 DEF Open, logs
  <2>5. ASSUME NEW t \in Threads, Log(t) \/ Decide(t) \/ Hold(t)
        PROVE  PlaceInv' /\ (Journal!Next \/ UNCHANGED Journal!vars)
    <3>1. pc = "app" /\ UNCHANGED <<config, pc>> /\ Open /\ ~closed
      BY <2>1, <2>5 DEF Log, Decide, Hold, RecordInv, ThreadInv, AsgiInv, AsgiTypes, Open
    <3>2. CASE Log(t)
      BY <1>2, <2>1, <3>1, <3>2, LogPlaceInv, LogJournal
    <3>3. CASE Decide(t)
      BY <1>2, <2>1, <3>1, <3>3, DecidePlaceInv, DecideJournal
    <3>4. CASE Hold(t)
      BY <1>2, <2>1, <3>1, <3>4, HoldPlaceInv, HoldJournal
    <3>5. QED BY <2>5, <3>2, <3>3, <3>4
  <2>6. ASSUME NEW how \in {"returned", "raised", "cancelled", "exited"}, End(how)
        PROVE  PlaceInv' /\ UNCHANGED Journal!vars
    <3>1. pc = "app" /\ pc' = "keep" /\ UNCHANGED <<config, logs>>
      BY <2>1, <2>6 DEF End, AsgiInv
    <3>2. Phase' = Phase /\ Signed' = Signed BY <3>1 DEF Phase, Signed
    <3>3. QED BY <2>2, <3>1, <3>2 DEF Open, logs
  <2>7. CASE Keep BY <1>2, <2>1, <2>7, KeepPlaceInv, KeepJournal
  <2>8. CASE LogLine
    <3>1. pc = "line" /\ pc' = "observe" /\ ~Open' BY <2>8 DEF LogLine, Open
    <3>2. PlaceInv' BY <3>1 DEF PlaceInv
    <3>3. QED BY <1>2, <2>1, <2>8, <3>2, LogLineJournal
  <2>9. CASE Observe
    <3>1. pc = "observe" /\ pc' = "cleanup" /\ UNCHANGED <<config, line, logs>>
      BY <2>9 DEF Observe
    <3>2. Phase' = Phase /\ Signed' = Signed BY <3>1 DEF Phase, Signed
    <3>3. QED BY <2>2, <3>1, <3>2 DEF Open, logs
  <2>10. CASE Cleanup
    <3>1. pc' = "done" /\ ~Open' BY <2>10 DEF Cleanup, Open
    <3>2. PlaceInv' BY <3>1 DEF PlaceInv
    <3>3. QED BY <2>1, <2>10, <3>2, CleanupJournal
  <2>11. QED BY <1>2, <2>3, <2>4, <2>5, <2>6, <2>7, <2>8, <2>9, <2>10, <2>2 DEF Next
<1>3. QED BY <1>1, <1>2, InitIInv, NextIInv, InitPlaceInv, PTL DEF Spec, ImplementsJournal, Journal!Spec

=============================================================================
