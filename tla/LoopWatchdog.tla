---------------------------- MODULE LoopWatchdog ----------------------------
(***************************************************************************)
(* EventLoopWatchdog: a thread that sends the event loop a callback and    *)
(* reports a block when the callback stays unanswered for the threshold.   *)
(* The app's lifespan starts one watchdog per start of the app and stops   *)
(* it on exit, on the loop itself.  Time is a clock of ticks; the thread   *)
(* sleeps Half ticks between two looks and the threshold is 2 * Half.      *)
(* The thread's reads and writes of _sent_at interleave with the loop's.   *)
(***************************************************************************)
EXTENDS Naturals

CONSTANTS
  Starts,   \* bound: the starts of the app, each with a watchdog of its own
  Half      \* half of loop_block_threshold_ms, in ticks

ASSUME LoopWatchdogAssumption == Starts \in Nat /\ Half \in Nat \ {0}

Watchdogs == 1..Starts
Threshold == 2 * Half

VARIABLES
  loop,     \* what the loop does: "idle", "blocked", "joining" (in stop()), "closed"
  lasting,  \* environment: the present block never ends
  current,  \* the last watchdog started, 0 before the first
  stopped,  \* the watchdogs whose _stopped is set
  orphans,  \* the watchdogs whose loop is closed
  pc,       \* where _watch() is
  rest,     \* ticks until wait() times out
  sent,     \* _sent_at is not None
  posted,   \* _answer is scheduled on the loop
  age,      \* ticks since the last send, up to Threshold
  reported, \* the local of _watch()
  reports   \* history: decisions to report since the last send

vars == <<loop, lasting, current, stopped, orphans, pc, rest, sent, posted, age,
          reported, reports>>
lifeVars == <<loop, lasting, current, stopped, orphans>>

Init ==
  /\ loop = "closed" /\ lasting = FALSE /\ current = 0
  /\ stopped = {} /\ orphans = {}
  /\ pc = [w \in Watchdogs |-> "new"]
  /\ rest = [w \in Watchdogs |-> 0]
  /\ sent = [w \in Watchdogs |-> FALSE]
  /\ posted = [w \in Watchdogs |-> FALSE]
  /\ age = [w \in Watchdogs |-> 0]
  /\ reported = [w \in Watchdogs |-> FALSE]
  /\ reports = [w \in Watchdogs |-> 0]

Alive(w) == pc[w] \notin {"new", "ended"}

-----------------------------------------------------------------------------
(* The thread.                                                              *)
\* wait() times out, and _sent_at is read.  Without an answer to wait for, the
\* time is taken and stored at once; else the read is compared in Compare.
Look(w) ==
  /\ pc[w] = "waiting" /\ rest[w] = 0 /\ w \notin stopped
  /\ IF sent[w]
     THEN /\ pc' = [pc EXCEPT ![w] = "comparing"]
          /\ UNCHANGED <<sent, age, reported, reports>>
     ELSE /\ pc' = [pc EXCEPT ![w] = "posting"]
          /\ sent' = [sent EXCEPT ![w] = TRUE]
          /\ age' = [age EXCEPT ![w] = 0]
          /\ reported' = [reported EXCEPT ![w] = FALSE]
          /\ reports' = [reports EXCEPT ![w] = 0]
  /\ UNCHANGED <<lifeVars, rest, posted>>

Sleep(w) ==
  /\ pc' = [pc EXCEPT ![w] = "waiting"]
  /\ rest' = [rest EXCEPT ![w] = Half]

\* call_soon_threadsafe() raises RuntimeError when the loop is closed.
Post(w) ==
  /\ pc[w] = "posting"
  /\ IF w \in orphans
     THEN pc' = [pc EXCEPT ![w] = "ended"] /\ UNCHANGED <<rest, posted>>
     ELSE Sleep(w) /\ posted' = [posted EXCEPT ![w] = TRUE]
  /\ UNCHANGED <<lifeVars, sent, age, reported, reports>>

\* Mutation of Compare: a block is reported at every look.
ComparesOften(w) ==
  /\ pc[w] = "comparing"
  /\ IF age[w] >= Threshold
     THEN /\ pc' = [pc EXCEPT ![w] = "reporting"]
          /\ reports' = [reports EXCEPT ![w] = (@ + 1) % 3]
          /\ UNCHANGED <<rest, reported>>
     ELSE Sleep(w) /\ UNCHANGED <<reported, reports>>
  /\ UNCHANGED <<lifeVars, sent, posted, age>>
\* Mutation of Compare: the threshold is passed, never met.
ComparesLate(w) ==
  /\ pc[w] = "comparing"
  /\ IF ~reported[w] /\ age[w] > Threshold
     THEN /\ pc' = [pc EXCEPT ![w] = "reporting"]
          /\ reported' = [reported EXCEPT ![w] = TRUE]
          /\ reports' = [reports EXCEPT ![w] = @ + 1]
          /\ UNCHANGED rest
     ELSE Sleep(w) /\ UNCHANGED <<reported, reports>>
  /\ UNCHANGED <<lifeVars, sent, posted, age>>

Compare(w) ==
  /\ pc[w] = "comparing"
  /\ IF ~reported[w] /\ age[w] >= Threshold
     THEN /\ pc' = [pc EXCEPT ![w] = "reporting"]
          /\ reported' = [reported EXCEPT ![w] = TRUE]
          /\ reports' = [reports EXCEPT ![w] = @ + 1]
          /\ UNCHANGED rest
     ELSE Sleep(w) /\ UNCHANGED <<reported, reports>>
  /\ UNCHANGED <<lifeVars, sent, posted, age>>

\* The warning, with the loop thread's stack.
Report(w) ==
  /\ pc[w] = "reporting"
  /\ Sleep(w)
  /\ UNCHANGED <<lifeVars, sent, posted, age, reported, reports>>

\* Mutation of Leave: a thread with an unanswered callback goes on waiting for it.
LeavesWhenAnswered(w) ==
  /\ pc[w] = "waiting" /\ w \in stopped /\ ~sent[w]
  /\ pc' = [pc EXCEPT ![w] = "ended"]
  /\ UNCHANGED <<lifeVars, rest, sent, posted, age, reported, reports>>

\* wait() returns True.
Leave(w) ==
  /\ pc[w] = "waiting" /\ w \in stopped
  /\ pc' = [pc EXCEPT ![w] = "ended"]
  /\ UNCHANGED <<lifeVars, rest, sent, posted, age, reported, reports>>

Thread(w) == Look(w) \/ Post(w) \/ Compare(w) \/ Report(w) \/ Leave(w)

-----------------------------------------------------------------------------
(* The loop.                                                                *)
Answer(w) ==
  /\ loop = "idle" /\ posted[w] /\ w \notin orphans
  /\ sent' = [sent EXCEPT ![w] = FALSE]
  /\ posted' = [posted EXCEPT ![w] = FALSE]
  /\ UNCHANGED <<lifeVars, pc, rest, age, reported, reports>>

Block ==
  /\ loop = "idle"
  /\ loop' = "blocked" /\ lasting' \in BOOLEAN
  /\ UNCHANGED <<current, stopped, orphans, pc, rest, sent, posted, age, reported, reports>>

Unblock ==
  /\ loop = "blocked" /\ ~lasting
  /\ loop' = "idle"
  /\ UNCHANGED <<lasting, current, stopped, orphans, pc, rest, sent, posted, age,
                 reported, reports>>

\* Entering the lifespan creates the watchdog on the running loop and starts it.
Start ==
  /\ loop = "idle" /\ current < Starts
  /\ current = 0 \/ current \in stopped \cup orphans
  /\ current' = current + 1
  /\ pc' = [pc EXCEPT ![current'] = "waiting"]
  /\ rest' = [rest EXCEPT ![current'] = Half]
  /\ UNCHANGED <<loop, lasting, stopped, orphans, sent, posted, age, reported, reports>>

\* Leaving it: stop() sets the event and joins for at most a second, on the loop.
Stop ==
  /\ loop = "idle" /\ current # 0 /\ current \notin stopped \cup orphans
  /\ stopped' = stopped \cup {current}
  /\ loop' = "joining"
  /\ UNCHANGED <<lasting, current, orphans, pc, rest, sent, posted, age, reported, reports>>

\* The thread has ended, or it has not and the second is over.
Joined ==
  /\ loop = "joining"
  /\ loop' = "idle"
  /\ UNCHANGED <<lasting, current, stopped, orphans, pc, rest, sent, posted, age,
                 reported, reports>>

\* A loop may close without the lifespan's exit; every start has a loop of its own.
Close ==
  /\ loop = "idle"
  /\ loop' = "closed"
  /\ orphans' = 1..current
  /\ UNCHANGED <<lasting, current, stopped, pc, rest, sent, posted, age, reported, reports>>
Open ==
  /\ loop = "closed" /\ current < Starts
  /\ loop' = "idle"
  /\ UNCHANGED <<lasting, current, stopped, orphans, pc, rest, sent, posted, age,
                 reported, reports>>

Tick ==
  /\ \E w \in Watchdogs : Alive(w)
  /\ rest' = [w \in Watchdogs |-> IF rest[w] > 0 THEN rest[w] - 1 ELSE 0]
  /\ age' = [w \in Watchdogs |-> IF sent[w] \/ pc[w] = "comparing"
                                THEN IF age[w] < Threshold THEN age[w] + 1 ELSE age[w]
                                ELSE age[w]]
  /\ UNCHANGED <<lifeVars, pc, sent, posted, reported, reports>>

Next ==
  \/ \E w \in Watchdogs : Thread(w) \/ Answer(w)
  \/ Block \/ Unblock \/ Start \/ Stop \/ Joined \/ Close \/ Open \/ Tick

Spec == Init /\ [][Next]_vars

\* The thread runs while it can, time passes, and the loop works its callbacks off
\* and goes on after a block that ends.  Nobody has to stop, close or start again.
Fairness ==
  /\ WF_vars(Tick) /\ WF_vars(Unblock) /\ WF_vars(Joined)
  /\ \A w \in Watchdogs : WF_vars(Thread(w)) /\ SF_vars(Answer(w))

-----------------------------------------------------------------------------
TypeOK ==
  /\ loop \in {"idle", "blocked", "joining", "closed"} /\ lasting \in BOOLEAN
  /\ current \in 0..Starts
  /\ stopped \subseteq Watchdogs /\ orphans \subseteq Watchdogs
  /\ pc \in [Watchdogs -> {"new", "waiting", "posting", "comparing", "reporting", "ended"}]
  /\ rest \in [Watchdogs -> 0..Half] /\ age \in [Watchdogs -> 0..Threshold]
  /\ sent \in [Watchdogs -> BOOLEAN] /\ posted \in [Watchdogs -> BOOLEAN]
  /\ reported \in [Watchdogs -> BOOLEAN] /\ reports \in [Watchdogs -> Nat]

Watching(w) == Alive(w) /\ w \notin stopped \cup orphans

\* "once per block" (loop_watchdog.py:25): one thread at a time watches the loop, over
\* all restarts of the app, and it decides to report at most once about a callback.
OneReportPerCallback ==
  /\ TypeOK
  /\ \A v, w \in Watchdogs : Watching(v) /\ Watching(w) => v = w
  /\ \A w \in Watchdogs : reports[w] <= 1

\* A block that lasts is reported, whatever the thread was doing when it began.
LastingBlockIsReported ==
  \A w \in Watchdogs :
    (loop = "blocked" /\ lasting /\ Watching(w)) ~> (reports[w] > 0)

\* A stopped thread ends, also when join() gave up on it and the loop is closed since.
StoppedThreadsEnd ==
  \A w \in Watchdogs : (w \in stopped) ~> (pc[w] = "ended")

=============================================================================
