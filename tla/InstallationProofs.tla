------------------------- MODULE InstallationProofs -------------------------
(***************************************************************************)
(* Proofs about Installation for any number of apps, engines and starts,   *)
(* whatever settings each app is installed with.                           *)
(***************************************************************************)
EXTENDS Installation, SequenceTheorems, TLAPS

-----------------------------------------------------------------------------
(* Sequences of wrappers and contexts.                                      *)
LEMMA ReverseFacts ==
  ASSUME NEW S, NEW seq \in Seq(S)
  PROVE  /\ Reverse(seq) \in Seq(S) /\ Len(Reverse(seq)) = Len(seq)
         /\ \A i \in 1..Len(seq) : Reverse(seq)[i] = seq[Len(seq) - i + 1]
<1>1. \A i \in 1..Len(seq) : seq[Len(seq) - i + 1] \in S
  OBVIOUS
<1>2. QED BY <1>1 DEF Reverse

LEMMA WithoutLast ==
  ASSUME NEW S, NEW seq \in Seq(S), NEW n \in Nat, Len(seq) = n + 1
  PROVE  /\ SubSeq(seq, 1, n) \in Seq(S) /\ Len(SubSeq(seq, 1, n)) = n
         /\ \A i \in 1..n : SubSeq(seq, 1, n)[i] = seq[i]
  OBVIOUS

LEMMA FrontFacts ==
  ASSUME NEW S, NEW seq \in Seq(S), seq # <<>>
  PROVE  /\ Front(seq) \in Seq(S) /\ Len(seq) \in Nat \ {0}
         /\ Len(Front(seq)) = Len(seq) - 1 /\ Last(seq) = seq[Len(seq)]
         /\ \A i \in 1..(Len(seq) - 1) : Front(seq)[i] = seq[i]
<1>1. Len(seq) \in Nat /\ Len(seq) # 0  BY EmptySeq
<1>2. PICK n \in Nat : n = Len(seq) - 1  BY <1>1
<1>3. Len(seq) = n + 1  BY <1>1, <1>2
<1>4. Front(seq) = SubSeq(seq, 1, n)  BY <1>2 DEF Front
<1>5. QED BY <1>1, <1>2, <1>3, <1>4, WithoutLast DEF Last

LEMMA TailFacts ==
  ASSUME NEW S, NEW seq \in Seq(S), seq # <<>>
  PROVE  /\ Tail(seq) \in Seq(S) /\ Len(Tail(seq)) = Len(seq) - 1 /\ Head(seq) = seq[1]
         /\ \A i \in 1..Len(Tail(seq)) : Tail(seq)[i] = seq[i + 1]
  OBVIOUS

LEMMA AppendFacts ==
  ASSUME NEW S, NEW seq \in Seq(S), NEW e \in S
  PROVE  /\ Append(seq, e) \in Seq(S) /\ Len(Append(seq, e)) = Len(seq) + 1
         /\ Append(seq, e)[Len(seq) + 1] = e
         /\ \A i \in 1..Len(seq) : Append(seq, e)[i] = seq[i]
  OBVIOUS

-----------------------------------------------------------------------------
(* What an app's state says of itself.  x is the state of one app.          *)
Owns(x)      == \E i \in 1..Len(x.open) : x.open[i].owner
Has(x, kind) == \E i \in 1..Len(x.open) : x.open[i].kind = kind

\* The app's lifespan is wrapped first by observability_lifespan(), then by the hooks.
WrapperInv(x) ==
  /\ x.step # "bare" => x.runtime
  /\ ~x.runtime => x.wrappers = <<"user">>
  /\ x.runtime =>
       /\ Len(x.wrappers) >= 2 /\ x.wrappers[1] = "user" /\ x.wrappers[2] = "observability"
       /\ \A i \in 3..Len(x.wrappers) : x.wrappers[i] \in {"logs", "traces", "meters"}
  /\ \A i \in 1..Len(x.wrappers) : x.wrappers[i] = "logs" => x.config.configure

\* An app that is not installed enters observability_lifespan() last, by its own doing.
LifeInv(x) ==
  /\ x.life = "down" => x.open = <<>>
  /\ x.life = "starting" => x.todo # <<>>
  /\ x.starts = 0 => x.life = "down" /\ x.word = "none"
  /\ ~x.runtime => \A i \in 1..Len(x.todo) : x.todo[i] = "observability" => i = Len(x.todo)

\* One open context owns the watchdog; lifespan_running is set without one only by a
\* start that failed.
WatchInv(x) ==
  /\ \A i, j \in 1..Len(x.open) : x.open[i].owner /\ x.open[j].owner => i = j
  /\ Owns(x) => \/ x.running /\ x.watchdogs = 1
                \/ ~x.running /\ x.watchdogs = 0 /\ x.life # "starting"
  /\ ~Owns(x) => x.watchdogs = 0 /\ x.running = x.broken
  /\ x.broken => ~Owns(x)
  /\ x.step = "installed" /\ ~x.broken /\ x.life = "starting" =>
       x.watchdogs = 1 \/ \E i \in 1..Len(x.todo) : x.todo[i] = "observability"
  /\ x.step = "installed" /\ ~x.broken /\ x.life = "up" => x.watchdogs = 1

HiddenInv(x) == x.step = "installed" /\ Owns(x) => x.hidden # "added"

\* The lifespan of the app is wrapped by the hook of OTLP's logs.
Logs(x) == \E i \in 1..Len(x.wrappers) : x.wrappers[i] = "logs"

\* The contexts of an app are entered, and so left in reverse, in this order: the hook
\* of the logs, if it has one, the owner of the watchdog, the app's own lifespan.
OrderInv(x) ==
  /\ Logs(x) => \A i \in 1..Len(x.open) : x.open[i].owner =>
       \E j \in 1..(i-1) : x.open[j].kind = "logs"
  /\ \A i \in 1..Len(x.open) : x.open[i].kind = "user" =>
       \E j \in 1..(i-1) : x.open[j].owner
  /\ x.life = "starting" =>
       \A i \in 1..Len(x.todo) :
         /\ x.todo[i] = "user" => Owns(x) \/ \E j \in 1..(i-1) : x.todo[j] = "observability"
         /\ Logs(x) /\ x.todo[i] = "observability" =>
              Has(x, "logs") \/ \E j \in 1..(i-1) : x.todo[j] = "logs"

\* So there is still a context to leave that takes the last word on, or a flush gave up.
WordInv(x) ==
  /\ x.config.configure /\ x.word = "queued" =>
       (x.life = "stopping" /\ Owns(x)) \/ "queue" \in x.gaveUp
  /\ Logs(x) /\ x.word = "batched" =>
       (x.life = "stopping" /\ Has(x, "logs")) \/ x.gaveUp # {}

Promised(x) == x.step = "installed" /\ ~x.broken

AppInv(x) ==
  /\ WrapperInv(x) /\ LifeInv(x) /\ WatchInv(x) /\ HiddenInv(x)
  /\ Promised(x) => OrderInv(x) /\ WordInv(x)

-----------------------------------------------------------------------------
(* Install steps touch the step and the wrappers, the lifespan the rest.    *)
InstallAs(x, y) ==
  y.config = x.config /\ y.step = x.step /\ y.runtime = x.runtime /\ y.wrappers = x.wrappers
LifeAs(x, y) ==
  /\ y.life = x.life /\ y.todo = x.todo /\ y.open = x.open /\ y.starts = x.starts
  /\ y.running = x.running /\ y.watchdogs = x.watchdogs /\ y.broken = x.broken
  /\ y.hidden = x.hidden /\ y.gaveUp = x.gaveUp

LEMMA BeginInv ==
  ASSUME NEW x \in AppStates, NEW y \in AppStates, AppInv(x), ~x.runtime,
         LifeAs(x, y), y.word = x.word, y.config = x.config,
         y.runtime, y.step = "logging", y.wrappers = Append(x.wrappers, "observability")
  PROVE  AppInv(y)
<1>1. x.wrappers = <<"user">>  BY DEF AppInv, WrapperInv
<1>2. Len(y.wrappers) = 2 /\ y.wrappers[1] = "user" /\ y.wrappers[2] = "observability"
  BY <1>1
<1>3. WrapperInv(y)  BY <1>2 DEF WrapperInv
<1>4. LifeInv(y)  BY DEF AppInv, LifeInv, LifeAs
<1>5. WatchInv(y) /\ HiddenInv(y) /\ ~Promised(y)
  BY DEF AppInv, WatchInv, HiddenInv, Promised, LifeAs, Owns
<1>6. QED BY <1>3, <1>4, <1>5 DEF AppInv

LEMMA InstallStepInv ==
  ASSUME NEW x \in AppStates, NEW y \in AppStates, AppInv(x), x.step # "bare",
         LifeAs(x, y), y.word = x.word, y.config = x.config, y.runtime = x.runtime,
         y.step # "bare", y.step = "installed" => x.starts = 0,
         \/ y.wrappers = x.wrappers
         \/ \E kind \in {"logs", "traces", "meters"} :
              y.wrappers = Append(x.wrappers, kind) /\ (kind = "logs" => x.config.configure)
  PROVE  AppInv(y)
<1>1. WrapperInv(y)
  <2>1. CASE y.wrappers = x.wrappers  BY <2>1 DEF AppInv, WrapperInv
  <2>2. ASSUME NEW kind \in {"logs", "traces", "meters"},
               y.wrappers = Append(x.wrappers, kind), kind = "logs" => x.config.configure
        PROVE  WrapperInv(y)
    <3>1. x.wrappers \in Seq(Kinds) /\ x.runtime  BY DEF AppStates, AppInv, WrapperInv
    <3>2. /\ Len(y.wrappers) = Len(x.wrappers) + 1 /\ Len(x.wrappers) \in Nat
          /\ y.wrappers[Len(x.wrappers) + 1] = kind
          /\ \A i \in 1..Len(x.wrappers) : y.wrappers[i] = x.wrappers[i]
      BY <2>2, <3>1
    <3>3. \A i \in 1..Len(y.wrappers) : i \in 1..Len(x.wrappers) \/ i = Len(x.wrappers) + 1
      BY <3>2
    <3>4. QED BY <2>2, <3>1, <3>2, <3>3 DEF AppInv, WrapperInv
  <2>3. QED BY <2>1, <2>2
<1>2. LifeInv(y)  BY DEF AppInv, LifeInv, LifeAs
<1>3. CASE y.step # "installed"
  <2>1. WatchInv(y) /\ HiddenInv(y) /\ ~Promised(y)
    BY <1>3 DEF AppInv, WatchInv, HiddenInv, Promised, LifeAs, Owns
  <2>2. QED BY <1>1, <1>2, <2>1 DEF AppInv
<1>4. CASE y.step = "installed"
  <2>1. y.life = "down" /\ y.open = <<>> /\ y.word = "none" /\ Len(y.open) = 0
    BY <1>4 DEF AppInv, LifeInv, LifeAs
  <2>2. WatchInv(y)  BY <2>1 DEF AppInv, WatchInv, LifeAs, Owns
  <2>3. HiddenInv(y) /\ OrderInv(y) /\ WordInv(y)
    BY <2>1 DEF HiddenInv, OrderInv, WordInv, Owns
  <2>4. QED BY <1>1, <1>2, <2>2, <2>3 DEF AppInv
<1>5. QED BY <1>3, <1>4
-----------------------------------------------------------------------------
(* The lifespan, up to the word that is on its way.                         *)

\* What a step of the lifespan leaves alone besides.
Still(x, y) ==
  /\ InstallAs(x, y) /\ y.starts = x.starts /\ y.hidden = x.hidden /\ y.gaveUp = x.gaveUp

LEMMA HiddenRouteInv ==
  ASSUME NEW x \in AppStates, NEW y \in AppStates, AppInv(x), x.life = "down",
         InstallAs(x, y), y.word = x.word, y.gaveUp = x.gaveUp,
         y.life = x.life, y.todo = x.todo, y.open = x.open, y.starts = x.starts,
         y.running = x.running, y.watchdogs = x.watchdogs, y.broken = x.broken
  PROVE  AppInv(y)
<1>1. WrapperInv(y) /\ LifeInv(y) /\ WatchInv(y)
  BY DEF AppInv, WrapperInv, LifeInv, WatchInv, InstallAs, Owns
<1>2. HiddenInv(y)
  <2>1. Len(y.open) = 0  BY DEF AppInv, LifeInv
  <2>2. QED BY <2>1 DEF HiddenInv, Owns
<1>3. Promised(y) => OrderInv(y) /\ WordInv(y)
  BY DEF AppInv, Promised, OrderInv, WordInv, InstallAs, Owns, Has, Logs
<1>4. QED BY <1>1, <1>2, <1>3 DEF AppInv

LEMMA StopInv ==
  ASSUME NEW x \in AppStates, NEW y \in AppStates, AppInv(x), x.life \in {"up", "starting"},
         Still(x, y), y.word = x.word, y.life = "stopping", y.todo = <<>>, y.open = x.open,
         y.running = x.running, y.watchdogs = x.watchdogs, y.broken = x.broken
  PROVE  AppInv(y)
<1> USE DEF Still, InstallAs
<1>1. WrapperInv(y) /\ HiddenInv(y)  BY DEF AppInv, WrapperInv, HiddenInv, Owns
<1>2. LifeInv(y)
  <2>1. Len(y.todo) = 0  OBVIOUS
  <2>2. x.starts # 0  BY DEF AppInv, LifeInv
  <2>3. QED BY <2>1, <2>2 DEF LifeInv
<1>3. WatchInv(y)  BY DEF AppInv, WatchInv, Owns
<1>4. Promised(y) => OrderInv(y) /\ WordInv(y)
  BY DEF AppInv, Promised, OrderInv, WordInv, Owns, Has, Logs
<1>5. QED BY <1>1, <1>2, <1>3, <1>4 DEF AppInv

\* The contexts to enter: the n wrappers outermost first, then the app's own entering.
Unwraps(todo, wrappers, n) ==
  /\ Len(todo) \in Nat /\ n <= Len(todo)
  /\ \A i \in 1..n : todo[i] = wrappers[n - i + 1]
  /\ \A i \in 1..Len(todo) :
       i \in 1..n \/ (i = n + 1 /\ i = Len(todo) /\ todo[i] = "observability")

LEMMA UnwrapsFacts ==
  ASSUME NEW wrappers \in Seq(Kinds), NEW n \in Nat, n = Len(wrappers),
         NEW last \in {<<>>, <<"observability">>},
         NEW todo, todo = Reverse(wrappers) \o last
  PROVE  todo \in Seq(Kinds) /\ Unwraps(todo, wrappers, n)
<1>1. PICK turned \in Seq(Kinds) :
        /\ turned = Reverse(wrappers) /\ Len(turned) = n
        /\ \A i \in 1..n : turned[i] = wrappers[n - i + 1]
  BY ReverseFacts
<1>2. CASE last = <<>>
  <2>1. todo = turned  BY <1>1, <1>2
  <2>2. QED BY <1>1, <2>1 DEF Unwraps
<1>3. CASE last = <<"observability">>
  <2>1. todo = Append(turned, "observability")  BY <1>1, <1>3
  <2>2. "observability" \in Kinds  BY DEF Kinds
  <2>3. /\ todo \in Seq(Kinds) /\ Len(todo) = n + 1 /\ todo[n + 1] = "observability"
        /\ \A i \in 1..n : todo[i] = turned[i]
    BY <1>1, <2>1, <2>2
  <2>4. QED BY <1>1, <2>3 DEF Unwraps
<1>4. QED BY <1>2, <1>3

LEMMA UnwrapsInOrder ==
  ASSUME NEW x \in AppStates, WrapperInv(x), x.runtime,
         NEW n \in Nat, n = Len(x.wrappers), NEW todo, Unwraps(todo, x.wrappers, n)
  PROVE  /\ n >= 2 /\ todo[n - 1] = "observability" /\ n - 1 \in 1..Len(todo)
         /\ \A i \in 1..Len(todo) : todo[i] = "user" => n - 1 \in 1..(i - 1)
         /\ \A i \in 1..Len(todo), k \in 3..n :
              todo[i] = "observability" => n - k + 1 \in 1..(i - 1)
<1>1. /\ n >= 2 /\ x.wrappers[1] = "user" /\ x.wrappers[2] = "observability"
      /\ \A k \in 3..n : x.wrappers[k] \in {"logs", "traces", "meters"}
  BY DEF WrapperInv
<1>2. todo[n - 1] = "observability"  
  <2>1. n - 1 \in 1..n /\ n - (n - 1) + 1 = 2  BY <1>1
  <2>2. QED BY <1>1, <2>1 DEF Unwraps
<1>3. \A i \in 1..(n - 2) : todo[i] \in {"logs", "traces", "meters"}
  <2>1. ASSUME NEW i \in 1..(n - 2) PROVE todo[i] \in {"logs", "traces", "meters"}
    <3>1. i \in 1..n /\ n - i + 1 \in 3..n  BY <1>1
    <3>2. QED BY <1>1, <3>1 DEF Unwraps
  <2>2. QED BY <2>1
<1>4. \A i \in 1..Len(todo) : i \in 1..(n - 2) \/ i = n - 1 \/ i >= n
  BY <1>1 DEF Unwraps
<1>5. \A i \in 1..Len(todo) : todo[i] = "user" => i >= n
  BY <1>2, <1>3, <1>4
<1>6. \A i \in 1..Len(todo) : todo[i] = "observability" => i >= n - 1
  BY <1>1, <1>3, <1>4
<1>7. n - 1 \in 1..Len(todo)  BY <1>1 DEF Unwraps
<1>8. QED BY <1>1, <1>2, <1>5, <1>6, <1>7

LEMMA StartInv ==
  ASSUME NEW x \in AppStates, NEW y \in AppStates, AppInv(x), x.life = "down",
         InstallAs(x, y), y.hidden = x.hidden, y.starts = x.starts + 1, y.word = "none",
         y.life = "starting", y.open = x.open,
         y.running = x.running, y.watchdogs = x.watchdogs, y.broken = x.broken,
         NEW n \in Nat, n = Len(x.wrappers), Unwraps(y.todo, x.wrappers, n)
  PROVE  AppInv(y)
<1> USE DEF InstallAs
<1>1. n # 0 /\ Len(x.open) = 0 /\ ~Owns(x) /\ ~Owns(y)
  <2>1. x.open = <<>> /\ Len(x.open) = 0  BY DEF AppInv, LifeInv
  <2>2. n # 0  BY DEF AppInv, WrapperInv
  <2>3. QED BY <2>1, <2>2 DEF Owns
<1>2. /\ Len(y.todo) \in Nat /\ n <= Len(y.todo)
      /\ \A i \in 1..n : y.todo[i] = x.wrappers[n - i + 1]
      /\ \A i \in 1..Len(y.todo) :
           i \in 1..n \/ (i = n + 1 /\ i = Len(y.todo) /\ y.todo[i] = "observability")
  BY DEF Unwraps
<1>3. WrapperInv(y) /\ HiddenInv(y)  BY <1>1 DEF AppInv, WrapperInv, HiddenInv
<1>4. LifeInv(y)
  <2>1. y.todo # <<>>  BY <1>1, <1>2
  <2>2. y.starts # 0  BY DEF AppStates
  <2>3. ASSUME ~x.runtime, NEW i \in 1..Len(y.todo), y.todo[i] = "observability"
        PROVE  i = Len(y.todo)
    <3>0. x.wrappers = <<"user">>  BY <2>3 DEF AppInv, WrapperInv
    <3>1. n = 1 /\ x.wrappers[1] = "user"  BY <3>0
    <3>2. i # 1  BY <1>2, <2>3, <3>1
    <3>3. QED BY <1>2, <3>1, <3>2
  <2>4. QED BY <2>1, <2>2, <2>3 DEF LifeInv
<1>5. x.runtime =>
        /\ n >= 2 /\ y.todo[n - 1] = "observability" /\ n - 1 \in 1..Len(y.todo)
        /\ \A i \in 1..Len(y.todo) : y.todo[i] = "user" => n - 1 \in 1..(i - 1)
        /\ \A i \in 1..Len(y.todo), k \in 3..n :
             y.todo[i] = "observability" => n - k + 1 \in 1..(i - 1)
  BY UnwrapsInOrder DEF AppInv
<1>6. WatchInv(y)
  <2>1. y.step = "installed" => \E i \in 1..Len(y.todo) : y.todo[i] = "observability"
    BY <1>5 DEF AppInv, WrapperInv
  <2>2. QED BY <1>1, <2>1 DEF AppInv, WatchInv
<1>7. ASSUME Promised(y) PROVE OrderInv(y) /\ WordInv(y)
  <2>1. x.runtime  BY <1>7 DEF Promised, AppInv, WrapperInv
  <2>2. \A i \in 1..Len(y.todo) : y.todo[i] = "user" =>
          \E j \in 1..(i-1) : y.todo[j] = "observability"
    BY <1>5, <2>1
  <2>3. ASSUME Logs(y), NEW i \in 1..Len(y.todo), y.todo[i] = "observability"
        PROVE  \E j \in 1..(i-1) : y.todo[j] = "logs"
    <3>1. PICK k \in 1..n : x.wrappers[k] = "logs"  BY <2>3 DEF Logs
    <3>2. k \in 3..n  BY <1>1, <2>1, <3>1 DEF AppInv, WrapperInv
    <3>3. y.todo[n - k + 1] = "logs"  BY <1>1, <1>2, <3>1, <3>2
    <3>4. n - k + 1 \in 1..(i-1)  BY <1>5, <2>1, <2>3, <3>2
    <3>5. QED BY <3>3, <3>4
  <2>4. Len(y.open) = 0  BY <1>1
  <2>5. OrderInv(y)  BY <2>2, <2>3, <2>4 DEF OrderInv
  <2>6. QED BY <2>5 DEF WordInv
<1>8. QED BY <1>3, <1>4, <1>6, <1>7 DEF AppInv
-----------------------------------------------------------------------------
(* Entering a context moves it from the head of todo to the end of open.    *)
Enters(x, y, context) ==
  /\ InstallAs(x, y) /\ y.starts = x.starts /\ y.broken = x.broken /\ y.gaveUp = x.gaveUp
  /\ x.life = "starting" /\ y.life \in {"starting", "up"}
  /\ x.todo # <<>> /\ x.todo[1] = context.kind
  /\ y.life = "up" <=> Len(x.todo) = 1
  /\ Len(y.todo) = Len(x.todo) - 1
  /\ \A i \in 1..Len(y.todo) : y.todo[i] = x.todo[i + 1]
  /\ Len(y.open) = Len(x.open) + 1 /\ y.open[Len(x.open) + 1] = context
  /\ \A i \in 1..Len(x.open) : y.open[i] = x.open[i]

LEMMA EntersFacts ==
  ASSUME NEW x \in AppStates, NEW y \in AppStates, NEW context \in Contexts,
         Enters(x, y, context)
  PROVE  /\ Len(x.todo) \in Nat \ {0} /\ Len(y.todo) \in Nat
         /\ Len(x.open) \in Nat /\ Len(y.open) \in Nat
         /\ \A i \in 1..Len(y.open) : i \in 1..Len(x.open) \/ i = Len(x.open) + 1
         /\ \A i \in 1..Len(y.todo) : i + 1 \in 1..Len(x.todo)
         /\ \A i \in 1..Len(x.todo) : i = 1 \/ (i - 1 \in 1..Len(y.todo) /\ y.todo[i - 1] = x.todo[i])
         /\ Owns(y) <=> Owns(x) \/ context.owner
         /\ \A kind \in Kinds : Has(y, kind) <=> Has(x, kind) \/ context.kind = kind
<1>1. /\ Len(x.todo) \in Nat /\ Len(x.todo) # 0
      /\ Len(y.todo) \in Nat /\ Len(x.open) \in Nat /\ Len(y.open) \in Nat
  <2>1. x.todo \in Seq(Kinds) /\ y.todo \in Seq(Kinds) /\ x.todo # <<>>
        /\ x.open \in Seq(Contexts) /\ y.open \in Seq(Contexts)
    BY DEF AppStates, Enters
  <2>2. QED BY <2>1, EmptySeq, LenProperties
<1>2. \A i \in 1..Len(y.open) : i \in 1..Len(x.open) \/ i = Len(x.open) + 1
  BY <1>1 DEF Enters
<1>3. /\ \A i \in 1..Len(y.todo) : i + 1 \in 1..Len(x.todo)
      /\ \A i \in 1..Len(x.todo) : i = 1 \/ (i - 1 \in 1..Len(y.todo) /\ y.todo[i - 1] = x.todo[i])
  BY <1>1 DEF Enters
<1>4. Len(x.open) + 1 \in 1..Len(y.open) /\ \A i \in 1..Len(x.open) : i \in 1..Len(y.open)
  BY <1>1 DEF Enters
<1>5. Owns(y) <=> Owns(x) \/ context.owner
  BY <1>2, <1>4 DEF Owns, Enters
<1>6. \A kind \in Kinds : Has(y, kind) <=> Has(x, kind) \/ context.kind = kind
  BY <1>2, <1>4 DEF Has, Enters
<1>7. QED BY <1>1, <1>2, <1>3, <1>5, <1>6

LEMMA EntersLifeInv ==
  ASSUME NEW x \in AppStates, NEW y \in AppStates, AppInv(x), NEW context \in Contexts,
         Enters(x, y, context)
  PROVE  WrapperInv(y) /\ LifeInv(y)
<1>1. WrapperInv(y)  BY DEF AppInv, WrapperInv, Enters, InstallAs
<1>2. x.starts # 0 /\ y.life # "down"  BY DEF AppInv, LifeInv, Enters
<1>3. y.life = "starting" => y.todo # <<>>
  <2>1. ASSUME y.life = "starting" PROVE Len(y.todo) # 0
    BY <2>1, EntersFacts DEF Enters
  <2>2. Len(<<>>) = 0  BY EmptySeq
  <2>3. QED BY <2>1, <2>2
<1>4. ASSUME ~y.runtime, NEW i \in 1..Len(y.todo), y.todo[i] = "observability"
      PROVE  i = Len(y.todo)
  <2>1. i + 1 \in 1..Len(x.todo) /\ x.todo[i + 1] = "observability" /\ ~x.runtime
    BY <1>4, EntersFacts DEF Enters, InstallAs
  <2>2. i + 1 = Len(x.todo)  BY <2>1 DEF AppInv, LifeInv
  <2>3. QED BY <2>2, EntersFacts DEF Enters
<1>5. QED BY <1>1, <1>2, <1>3, <1>4 DEF LifeInv, Enters

\* The order of what is open and what is still to enter.
LEMMA EntersOrderInv ==
  ASSUME NEW x \in AppStates, NEW y \in AppStates, AppInv(x), NEW context \in Contexts,
         Enters(x, y, context), OrderInv(x),
         context.owner => context.kind = "observability",
         context.kind = "observability" => context.owner \/ Owns(x)
  PROVE  OrderInv(y)
<1>0. /\ Len(x.todo) \in Nat \ {0} /\ Len(y.todo) \in Nat
      /\ Len(x.open) \in Nat /\ Len(y.open) \in Nat
      /\ \A i \in 1..Len(y.open) : i \in 1..Len(x.open) \/ i = Len(x.open) + 1
      /\ \A i \in 1..Len(x.open) : y.open[i] = x.open[i]
      /\ y.open[Len(x.open) + 1] = context
      /\ x.todo[1] = context.kind /\ x.life = "starting" /\ 1 \in 1..Len(x.todo)
  <2>1. Len(x.todo) \in Nat \ {0}  BY EntersFacts
  <2>2. 1 \in 1..Len(x.todo)  BY <2>1
  <2>3. QED BY <2>1, <2>2, EntersFacts DEF Enters
<1>1. /\ context.kind = "user" => Owns(x)
      /\ Logs(x) /\ context.kind = "observability" => Has(x, "logs")
  <2>1. \A j \in 1..(1-1) : FALSE  OBVIOUS
  <2>2. QED BY <1>0, <2>1 DEF OrderInv
<1>7. Logs(y) <=> Logs(x)  BY DEF Logs, Enters, InstallAs
<1>2. Logs(y) => \A i \in 1..Len(y.open) : y.open[i].owner =>
                   \E j \in 1..(i-1) : y.open[j].kind = "logs"
  <2>1. SUFFICES ASSUME Logs(x), NEW i \in 1..Len(y.open), y.open[i].owner
                 PROVE  \E j \in 1..(i-1) : y.open[j].kind = "logs"
    BY <1>7
  <2>2. CASE i \in 1..Len(x.open)
    <3>1. PICK j \in 1..(i-1) : x.open[j].kind = "logs"
      BY <1>0, <2>1, <2>2 DEF OrderInv
    <3>2. j \in 1..Len(x.open)  BY <1>0, <2>2
    <3>3. QED BY <1>0, <3>1, <3>2
  <2>3. CASE i = Len(x.open) + 1
    <3>1. PICK j \in 1..Len(x.open) : x.open[j].kind = "logs"
      BY <1>0, <1>1, <2>1, <2>3 DEF Has
    <3>2. j \in 1..(i-1)  BY <1>0, <2>3
    <3>3. QED BY <1>0, <3>1, <3>2
  <2>4. QED BY <1>0, <2>2, <2>3
<1>3. \A i \in 1..Len(y.open) : y.open[i].kind = "user" => \E j \in 1..(i-1) : y.open[j].owner
  <2>1. SUFFICES ASSUME NEW i \in 1..Len(y.open), y.open[i].kind = "user"
                 PROVE  \E j \in 1..(i-1) : y.open[j].owner
    OBVIOUS
  <2>2. CASE i \in 1..Len(x.open)
    <3>1. PICK j \in 1..(i-1) : x.open[j].owner
      BY <1>0, <2>1, <2>2 DEF OrderInv
    <3>2. j \in 1..Len(x.open)  BY <1>0, <2>2
    <3>3. QED BY <1>0, <3>1, <3>2
  <2>3. CASE i = Len(x.open) + 1
    <3>1. PICK j \in 1..Len(x.open) : x.open[j].owner
      BY <1>0, <1>1, <2>1, <2>3 DEF Owns
    <3>2. j \in 1..(i-1)  BY <1>0, <2>3
    <3>3. QED BY <1>0, <3>1, <3>2
  <2>4. QED BY <1>0, <2>2, <2>3
<1>4. /\ Owns(y) <=> Owns(x) \/ context.owner
      /\ Has(y, "logs") <=> Has(x, "logs") \/ context.kind = "logs"
  BY EntersFacts DEF Kinds
<1>5. ASSUME NEW i \in 1..Len(y.todo)
      PROVE  /\ y.todo[i] = "user" => Owns(y) \/ \E j \in 1..(i-1) : y.todo[j] = "observability"
             /\ Logs(y) /\ y.todo[i] = "observability" =>
                  Has(y, "logs") \/ \E j \in 1..(i-1) : y.todo[j] = "logs"
  <2>1. i + 1 \in 1..Len(x.todo) /\ y.todo[i] = x.todo[i + 1]
    BY <1>5, EntersFacts DEF Enters
  <2>2. \A j \in 1..((i+1)-1) : j = 1 \/ (j - 1 \in 1..(i-1) /\ y.todo[j - 1] = x.todo[j])
    BY <1>0, <1>5 DEF Enters
  <2>3. y.todo[i] = "user" => Owns(x) \/ \E j \in 1..((i+1)-1) : x.todo[j] = "observability"
    BY <1>0, <2>1 DEF OrderInv
  <2>4. Logs(x) /\ y.todo[i] = "observability" =>
          Has(x, "logs") \/ \E j \in 1..((i+1)-1) : x.todo[j] = "logs"
    BY <1>0, <2>1 DEF OrderInv
  <2>5. ASSUME y.todo[i] = "user"
        PROVE  Owns(y) \/ \E j \in 1..(i-1) : y.todo[j] = "observability"
    <3>1. CASE Owns(x)  BY <1>4, <3>1
    <3>2. ASSUME NEW j \in 1..((i+1)-1), x.todo[j] = "observability"
          PROVE  Owns(y) \/ \E k \in 1..(i-1) : y.todo[k] = "observability"
      BY <1>0, <1>4, <2>2, <3>2
    <3>3. QED BY <2>3, <2>5, <3>1, <3>2
  <2>6. ASSUME Logs(x), y.todo[i] = "observability"
        PROVE  Has(y, "logs") \/ \E j \in 1..(i-1) : y.todo[j] = "logs"
    <3>1. CASE Has(x, "logs")  BY <1>4, <3>1
    <3>2. ASSUME NEW j \in 1..((i+1)-1), x.todo[j] = "logs"
          PROVE  Has(y, "logs") \/ \E k \in 1..(i-1) : y.todo[k] = "logs"
      BY <1>0, <1>4, <2>2, <3>2
    <3>3. QED BY <2>4, <2>6, <3>1, <3>2
  <2>7. QED BY <1>7, <2>5, <2>6
<1>6. QED BY <1>2, <1>3, <1>5 DEF OrderInv

LEMMA EnterOtherInv ==
  ASSUME NEW x \in AppStates, NEW y \in AppStates, AppInv(x), NEW context \in Contexts,
         Enters(x, y, context), ~context.owner, context.kind = "observability" => x.running,
         y.running = x.running, y.watchdogs = x.watchdogs, y.hidden = x.hidden, y.word = x.word
  PROVE  AppInv(y)
<1>1. WrapperInv(y) /\ LifeInv(y)  BY EntersLifeInv
<1>2. Owns(y) <=> Owns(x)  BY EntersFacts
<1>3. InstallAs(x, y) /\ x.life = "starting" /\ y.broken = x.broken
  BY DEF Enters
<1>4. HiddenInv(y)  BY <1>2, <1>3 DEF AppInv, HiddenInv, InstallAs
<1>5. WatchInv(y)
  <2>1. \A i, j \in 1..Len(y.open) : y.open[i].owner /\ y.open[j].owner => i = j
    <3>1. \A i \in 1..Len(y.open) : y.open[i].owner => i \in 1..Len(x.open) /\ x.open[i].owner
      BY EntersFacts DEF Enters
    <3>2. QED BY <3>1 DEF AppInv, WatchInv
  <2>2. /\ Owns(y) => y.running /\ y.watchdogs = 1
        /\ ~Owns(y) => y.watchdogs = 0 /\ y.running = y.broken
        /\ y.broken => ~Owns(y)
    BY <1>2, <1>3 DEF AppInv, WatchInv
  <2>3. ASSUME y.step = "installed", ~y.broken, y.watchdogs # 1
        PROVE  y.life = "starting" /\ \E i \in 1..Len(y.todo) : y.todo[i] = "observability"
    <3>1. ~Owns(x) /\ ~x.running /\ x.step = "installed" /\ ~x.broken /\ x.watchdogs # 1
      BY <1>2, <1>3, <2>2, <2>3 DEF AppInv, WatchInv, InstallAs
    <3>2. PICK i \in 1..Len(x.todo) : x.todo[i] = "observability"
      BY <1>3, <3>1 DEF AppInv, WatchInv
    <3>3. i # 1  BY <3>1, <3>2 DEF Enters
    <3>4. i - 1 \in 1..Len(y.todo) /\ y.todo[i - 1] = "observability"
      BY <3>2, <3>3, EntersFacts
    <3>5. Len(x.todo) # 1  BY <3>2, <3>3
    <3>6. QED BY <3>4, <3>5 DEF Enters
  <2>4. QED BY <2>1, <2>2, <2>3 DEF WatchInv
<1>6. ASSUME Promised(y) PROVE OrderInv(y) /\ WordInv(y)
  <2>1. Promised(x)  BY <1>3, <1>6 DEF Promised, InstallAs
  <2>2. context.kind = "observability" => Owns(x)
    BY <2>1 DEF Promised, AppInv, WatchInv
  <2>3. OrderInv(y)  BY <2>1, <2>2, EntersOrderInv DEF AppInv
  <2>4. WordInv(y)  BY <1>3, <2>1 DEF AppInv, WordInv, Enters, InstallAs, Logs
  <2>5. QED BY <2>3, <2>4
<1>7. QED BY <1>1, <1>4, <1>5, <1>6 DEF AppInv

LEMMA EnterOwnerInv ==
  ASSUME NEW x \in AppStates, NEW y \in AppStates, AppInv(x), NEW context \in Contexts,
         Enters(x, y, context), context.owner, context.kind = "observability", ~x.running,
         y.running = x.runtime, y.watchdogs = IF x.runtime THEN x.watchdogs + 1 ELSE x.watchdogs,
         y.word = x.word, x.runtime => y.hidden # "added"
  PROVE  AppInv(y)
<1>1. WrapperInv(y) /\ LifeInv(y)  BY EntersLifeInv
<1>2. Owns(y)  BY EntersFacts
<1>3. InstallAs(x, y) /\ x.life = "starting" /\ y.broken = x.broken /\ x.todo[1] = "observability"
  BY DEF Enters
<1>4. ~Owns(x) /\ x.watchdogs = 0 /\ ~x.broken
  BY <1>3 DEF AppInv, WatchInv
<1>5. HiddenInv(y)  BY <1>1, <1>3 DEF HiddenInv, InstallAs, WrapperInv
<1>6. WatchInv(y)
  <2>1. \A i, j \in 1..Len(y.open) : y.open[i].owner /\ y.open[j].owner => i = j
    <3>1. \A i \in 1..Len(x.open) : ~x.open[i].owner  BY <1>4 DEF Owns
    <3>2. \A i \in 1..Len(y.open) : y.open[i].owner => i = Len(x.open) + 1
      BY SMTT(30), <3>1, EntersFacts DEF Enters
    <3>3. QED BY <3>2
  <2>2. CASE x.runtime
    BY <1>1, <1>2, <1>3, <1>4, <2>1, <2>2 DEF WatchInv
  <2>3. CASE ~x.runtime
    <3>1. 1 \in 1..Len(x.todo)  BY EntersFacts
    <3>2. Len(x.todo) = 1  BY <1>3, <2>3, <3>1 DEF AppInv, LifeInv
    <3>3. y.life = "up"  BY <3>2 DEF Enters
    <3>4. y.step # "installed" /\ y.watchdogs = 0 /\ ~y.running
      BY <1>3, <1>4, <2>3 DEF AppInv, WrapperInv, InstallAs
    <3>5. QED BY <1>2, <1>3, <1>4, <2>1, <3>3, <3>4 DEF WatchInv
  <2>4. QED BY <2>2, <2>3
<1>7. ASSUME Promised(y) PROVE OrderInv(y) /\ WordInv(y)
  <2>1. Promised(x)  BY <1>3, <1>7 DEF Promised, InstallAs
  <2>2. OrderInv(y)  BY <2>1, EntersOrderInv DEF AppInv
  <2>3. WordInv(y)  BY <1>3, <2>1 DEF AppInv, WordInv, Enters, InstallAs, Logs
  <2>4. QED BY <2>2, <2>3
<1>8. QED BY <1>1, <1>5, <1>6, <1>7 DEF AppInv

LEMMA EnterRaisesInv ==
  ASSUME NEW x \in AppStates, NEW y \in AppStates, AppInv(x),
         InstallAs(x, y), x.life = "starting", ~x.running, y.running, y.broken,
         y.life = IF x.open = <<>> THEN "down" ELSE "stopping", y.todo = <<>>, y.open = x.open,
         y.starts = x.starts, y.hidden = x.hidden, y.watchdogs = x.watchdogs
  PROVE  AppInv(y)
<1> USE DEF InstallAs
<1>1. ~Owns(x) /\ x.watchdogs = 0 /\ x.starts # 0
  BY DEF AppInv, WatchInv, LifeInv
<1>2. ~Owns(y)  BY <1>1 DEF Owns
<1>3. WrapperInv(y) /\ HiddenInv(y) /\ ~Promised(y)
  BY <1>2 DEF AppInv, WrapperInv, HiddenInv, Promised
<1>4. LifeInv(y)
  <2>1. Len(y.todo) = 0  OBVIOUS
  <2>2. y.life # "starting" /\ (y.life = "down" => y.open = <<>>)  OBVIOUS
  <2>3. QED BY <1>1, <2>1, <2>2 DEF LifeInv
<1>5. WatchInv(y)  BY <1>1, <1>2 DEF AppInv, WatchInv
<1>6. QED BY <1>3, <1>4, <1>5 DEF AppInv

-----------------------------------------------------------------------------
(* Leaving the context entered last.                                        *)
Leaves(x, y) ==
  /\ InstallAs(x, y) /\ y.starts = x.starts /\ y.broken = x.broken /\ y.todo = x.todo
  /\ y.hidden = x.hidden /\ x.gaveUp \subseteq y.gaveUp
  /\ x.life = "stopping" /\ x.open # <<>>
  /\ y.life = IF Len(x.open) = 1 THEN "down" ELSE "stopping"
  /\ y.open = Front(x.open)

LEMMA LeavesFacts ==
  ASSUME NEW x \in AppStates, NEW y \in AppStates, AppInv(x), Leaves(x, y)
  PROVE  /\ WrapperInv(y) /\ LifeInv(y)
         /\ Len(x.open) \in Nat \ {0} /\ Len(y.open) \in Nat /\ Len(y.open) = Len(x.open) - 1
         /\ \A i \in 1..Len(y.open) : i \in 1..Len(x.open) /\ i # Len(x.open) /\ y.open[i] = x.open[i]
         /\ \A i \in 1..Len(x.open) : i = Len(x.open) \/ i \in 1..Len(y.open)
         /\ Last(x.open) = x.open[Len(x.open)] /\ Last(x.open) \in Contexts
         /\ Len(x.open) \in 1..Len(x.open)
<1>1. x.open \in Seq(Contexts) /\ x.open # <<>>  BY DEF AppStates, Leaves
<1>2. /\ y.open \in Seq(Contexts) /\ Len(x.open) \in Nat \ {0} /\ Len(y.open) = Len(x.open) - 1
      /\ Last(x.open) = x.open[Len(x.open)]
      /\ \A i \in 1..(Len(x.open) - 1) : y.open[i] = x.open[i]
  BY <1>1, FrontFacts DEF Leaves
<1>3. Last(x.open) \in Contexts
  <2>1. Len(x.open) \in 1..Len(x.open)  BY <1>2
  <2>2. QED BY <1>1, <1>2, <2>1, ElementOfSeq
<1>4. WrapperInv(y)  BY DEF AppInv, WrapperInv, Leaves, InstallAs
<1>5. LifeInv(y)
  <2>1. y.life = "down" => y.open = <<>>
    <3>1. Len(x.open) = 1 => Len(y.open) = 0  BY <1>2
    <3>2. QED BY <1>2, <3>1, EmptySeq DEF Leaves
  <2>2. x.starts # 0  BY DEF AppInv, LifeInv, Leaves
  <2>3. QED BY <2>1, <2>2 DEF AppInv, LifeInv, Leaves, InstallAs
<1>6. QED BY <1>2, <1>3, <1>4, <1>5

LEMMA LeavesOrderInv ==
  ASSUME NEW x \in AppStates, NEW y \in AppStates, AppInv(x), Leaves(x, y), Promised(y)
  PROVE  Promised(x) /\ OrderInv(x) /\ WordInv(x) /\ OrderInv(y) /\ (Logs(y) <=> Logs(x))
<1>1. Promised(x)  BY DEF Promised, Leaves, InstallAs
<1>2. OrderInv(x) /\ WordInv(x)  BY <1>1 DEF AppInv
<1>3. y.life # "starting"  BY DEF Leaves
<1>4. \A i \in 1..Len(y.open) :
        /\ i \in 1..Len(x.open) /\ y.open[i] = x.open[i]
        /\ \A j \in 1..(i-1) : y.open[j] = x.open[j]
  BY LeavesFacts
<1>5. Logs(y) <=> Logs(x)  BY DEF Logs, Leaves, InstallAs
<1>6. OrderInv(y)  BY <1>2, <1>3, <1>4, <1>5 DEF OrderInv
<1>7. QED BY <1>1, <1>2, <1>5, <1>6

\* What is open without its last context.
LEMMA LeavesOpen ==
  ASSUME NEW x \in AppStates, NEW y \in AppStates, AppInv(x), Leaves(x, y)
  PROVE  /\ Owns(y) => Owns(x) /\ y.life = "stopping"
         /\ Owns(x) /\ ~Last(x.open).owner => Owns(y)
         /\ Owns(x) /\ Last(x.open).owner => ~Owns(y)
         /\ \A kind \in Kinds : Has(y, kind) => y.life = "stopping"
         /\ \A kind \in Kinds : Has(x, kind) /\ Last(x.open).kind # kind => Has(y, kind)
<1>1. Len(y.open) # 0 => y.life = "stopping"
  BY LeavesFacts DEF Leaves
<1>2. Owns(y) => Owns(x) /\ y.life = "stopping"  BY <1>1, LeavesFacts DEF Owns
<1>3. Owns(x) /\ ~Last(x.open).owner => Owns(y)
  BY LeavesFacts DEF Owns
<1>4. Owns(x) /\ Last(x.open).owner => ~Owns(y)
  <2>1. SUFFICES ASSUME Last(x.open).owner, NEW i \in 1..Len(y.open), y.open[i].owner
                 PROVE  FALSE
    BY DEF Owns
  <2>2. i \in 1..Len(x.open) /\ x.open[i].owner /\ i # Len(x.open)  BY <2>1, LeavesFacts
  <2>3. Len(x.open) \in 1..Len(x.open) /\ x.open[Len(x.open)].owner  BY <2>1, LeavesFacts
  <2>4. QED BY <2>2, <2>3 DEF AppInv, WatchInv
<1>5. \A kind \in Kinds : Has(y, kind) => y.life = "stopping"
  BY <1>1, LeavesFacts DEF Has
<1>6. \A kind \in Kinds : Has(x, kind) /\ Last(x.open).kind # kind => Has(y, kind)
  BY LeavesFacts DEF Has
<1>7. QED BY <1>2, <1>3, <1>4, <1>5, <1>6

LEMMA LeaveOtherInv ==
  ASSUME NEW x \in AppStates, NEW y \in AppStates, AppInv(x), Leaves(x, y),
         ~Last(x.open).owner, y.running = x.running, y.watchdogs = x.watchdogs,
         \/ y.word = x.word /\ Last(x.open).kind # "logs"
         \/ y.word \in {"queued", "local"} /\ Last(x.open).kind = "user"
         \/ y.word = IF x.word = "batched" THEN "exported" ELSE x.word
         \/ y.word = x.word /\ y.gaveUp # {} /\ Last(x.open).kind = "logs"
  PROVE  AppInv(y)
<1>1. WrapperInv(y) /\ LifeInv(y)  BY LeavesFacts
<1>2. Owns(y) <=> Owns(x)  BY LeavesOpen
<1>3. InstallAs(x, y) /\ y.hidden = x.hidden /\ y.broken = x.broken
      /\ y.life # "starting" /\ y.life # "up"
  BY DEF Leaves
<1>4. HiddenInv(y)  BY <1>2, <1>3 DEF AppInv, HiddenInv, InstallAs
<1>5. WatchInv(y)
  <2>1. \A i, j \in 1..Len(y.open) : y.open[i].owner /\ y.open[j].owner => i = j
    BY LeavesFacts DEF AppInv, WatchInv
  <2>2. QED BY <1>2, <1>3, <2>1 DEF AppInv, WatchInv
<1>6. ASSUME Promised(y) PROVE OrderInv(y) /\ WordInv(y)
  <2>1. /\ OrderInv(x) /\ WordInv(x) /\ OrderInv(y) /\ (Logs(y) <=> Logs(x))
        /\ x.gaveUp \subseteq y.gaveUp /\ y.config = x.config
    <3>1. x.gaveUp \subseteq y.gaveUp /\ y.config = x.config  BY DEF Leaves, InstallAs
    <3>2. QED BY <1>6, <3>1, LeavesOrderInv
  <2>2. ASSUME y.config.configure, y.word = "queued" PROVE Owns(x) \/ "queue" \in y.gaveUp
    <3>1. CASE Last(x.open).kind = "user"
      BY <3>1, <2>1, LeavesFacts DEF OrderInv, Owns
    <3>2. CASE Last(x.open).kind # "user"
      BY <2>1, <2>2, <3>2 DEF WordInv
    <3>3. QED BY <3>1, <3>2
  <2>3. ASSUME Logs(y), y.word = "batched"
        PROVE  (Has(x, "logs") /\ Last(x.open).kind # "logs") \/ y.gaveUp # {}
    BY <2>1, <2>3 DEF WordInv
  <2>4. WordInv(y)  BY <1>2, <2>2, <2>3, LeavesOpen DEF WordInv, Kinds
  <2>5. QED BY <2>1, <2>4
<1>7. QED BY <1>1, <1>4, <1>5, <1>6 DEF AppInv

LEMMA LeaveOwnerInv ==
  ASSUME NEW x \in AppStates, NEW y \in AppStates, AppInv(x), Leaves(x, y),
         Last(x.open).owner, Last(x.open).kind = "observability", ~y.running, y.watchdogs = 0,
         NEW outputs,
         \/ y.word = IF x.runtime /\ ~x.config.configure THEN x.word
                     ELSE Delivered(x.word, outputs)
         \/ y.word = x.word /\ "queue" \in y.gaveUp
  PROVE  AppInv(y)
<1>1. WrapperInv(y) /\ LifeInv(y)  BY LeavesFacts
<1>2. Owns(x) /\ ~Owns(y)  BY LeavesFacts, LeavesOpen DEF Owns
<1>3. InstallAs(x, y) /\ y.hidden = x.hidden /\ y.broken = x.broken
      /\ y.life # "starting" /\ y.life # "up"
  BY DEF Leaves
<1>4. HiddenInv(y)  BY <1>2 DEF HiddenInv
<1>5. ~x.broken  BY <1>2 DEF AppInv, WatchInv
<1>6. WatchInv(y)
  <2>1. y.running = y.broken  BY <1>3, <1>5 DEF AppStates
  <2>2. \A i, j \in 1..Len(y.open) : y.open[i].owner /\ y.open[j].owner => i = j
    BY <1>2 DEF Owns
  <2>3. QED BY <1>2, <1>3, <1>5, <2>1, <2>2 DEF WatchInv
<1>7. ASSUME Promised(y) PROVE OrderInv(y) /\ WordInv(y)
  <2>1. /\ OrderInv(x) /\ WordInv(x) /\ OrderInv(y) /\ Promised(x) /\ (Logs(y) <=> Logs(x))
        /\ y.config = x.config
    BY <1>7, LeavesOrderInv DEF Leaves, InstallAs
  <2>2. y.config.configure => y.word # "queued" \/ "queue" \in y.gaveUp
    BY <2>1 DEF Delivered
  <2>3. ASSUME Logs(y) PROVE Has(y, "logs") /\ y.life = "stopping"
    <3>1. Has(x, "logs")  BY <2>1, <2>3, LeavesFacts DEF OrderInv, Has
    <3>2. QED BY <3>1, LeavesOpen DEF Kinds
  <2>4. QED BY <2>1, <2>2, <2>3 DEF WordInv
<1>8. QED BY <1>1, <1>4, <1>6, <1>7 DEF AppInv

\* The threads take the word on.
WordTaken(x, y, outputs) ==
  y.word = Delivered(x.word, outputs) \/ y.word = IF x.word = "batched" THEN "exported" ELSE x.word

LEMMA WordTakenInv ==
  ASSUME NEW x \in AppStates, NEW y \in AppStates, AppInv(x), InstallAs(x, y), LifeAs(x, y),
         NEW outputs, WordTaken(x, y, outputs)
  PROVE  AppInv(y)
<1>1. WrapperInv(y) /\ LifeInv(y) /\ WatchInv(y) /\ HiddenInv(y)
  <2>1. x.word = "none" => y.word = "none"  BY DEF WordTaken, Delivered
  <2>2. QED BY <2>1 DEF AppInv, WrapperInv, LifeInv, WatchInv, HiddenInv, InstallAs, LifeAs, Owns
<1>2. ASSUME Promised(y) PROVE OrderInv(y) /\ WordInv(y)
  <2>1. OrderInv(x) /\ WordInv(x) /\ WrapperInv(x) /\ (Logs(y) <=> Logs(x))
    BY <1>2 DEF AppInv, Promised, InstallAs, LifeAs, Logs
  <2>2. OrderInv(y)  BY <2>1 DEF OrderInv, LifeAs, Owns, Has
  <2>3. Logs(x) /\ Owns(x) => Has(x, "logs")
    <3>1. SUFFICES ASSUME Logs(x), NEW i \in 1..Len(x.open), x.open[i].owner
                   PROVE  Has(x, "logs")
      BY DEF Owns
    <3>2. PICK j \in 1..(i-1) : x.open[j].kind = "logs"  BY <2>1, <3>1 DEF OrderInv
    <3>3. j \in 1..Len(x.open)  BY DEF AppStates
    <3>4. QED BY <3>2, <3>3 DEF Has
  <2>4. /\ y.word = "queued" => x.word = "queued"
        /\ y.word = "batched" => x.word \in {"queued", "batched"}
    BY DEF WordTaken, Delivered
  <2>5. Logs(x) => x.config.configure  BY <2>1 DEF Logs, WrapperInv
  <2>6. WordInv(y)
    <3>1. /\ y.life = x.life /\ y.gaveUp = x.gaveUp /\ y.config = x.config
          /\ (Owns(y) <=> Owns(x)) /\ (Has(y, "logs") <=> Has(x, "logs"))
      BY DEF InstallAs, LifeAs, Owns, Has
    <3>2. QED BY <2>1, <2>3, <2>4, <2>5, <3>1 DEF WordInv
  <2>7. QED BY <2>2, <2>6
<1>3. QED BY <1>1, <1>2 DEF AppInv
-----------------------------------------------------------------------------
(* All apps, and what they share.                                           *)
AppsInv(apps) == apps \in [Apps -> AppStates] /\ \A a \in Apps : AppInv(apps[a])

ProcessInv(p) ==
  /\ p \in ProcessStates
  /\ \A s \in {"logs", "traces", "totals"} : p.processors[s] <= 1
  /\ "traces" \in p.providers => p.processors["totals"] = 1
  /\ p.collectors.queue <= 1
  /\ "queue" \notin p.described => p.collectors.queue = 0
  /\ p.propagators <= 1
  /\ p.instrumented => p.known \subseteq p.traced

StartsInv == \A a \in Apps : app[a].starts <= process.starts

IInv == AppsInv(app) /\ ProcessInv(process) /\ StartsInv

LEMMA InitAppInv ==
  ASSUME NEW c \in Configs, NEW x,
         x = [config |-> c, step |-> "bare", runtime |-> FALSE, running |-> FALSE,
              wrappers |-> <<"user">>, middleware |-> FALSE, hidden |-> "none",
              life |-> "down", todo |-> <<>>, open |-> <<>>, watchdogs |-> 0,
              starts |-> 0, broken |-> FALSE, gaveUp |-> {}, word |-> "none"]
  PROVE  x \in AppStates /\ AppInv(x)
<1>1. "user" \in Kinds /\ 0 \in 0..MaxStarts  BY InstallationAssumption DEF Kinds
<1>2. x \in AppStates  BY <1>1 DEF AppStates
<1>3. Len(x.open) = 0 /\ Len(x.todo) = 0 /\ Len(x.wrappers) = 1 /\ x.wrappers[1] = "user"
  OBVIOUS
<1>4. WrapperInv(x)  BY <1>3 DEF WrapperInv
<1>5. LifeInv(x) /\ HiddenInv(x) /\ ~Promised(x)  BY <1>3 DEF LifeInv, HiddenInv, Promised
<1>6. WatchInv(x)  BY <1>3 DEF WatchInv, Owns
<1>7. QED BY <1>2, <1>4, <1>5, <1>6 DEF AppInv

LEMMA InitIInv == Init => IInv
<1> SUFFICES ASSUME Init PROVE IInv
  OBVIOUS
<1>1. AppsInv(app)
  <2>1. PICK c \in [Apps -> Configs] : app = [a \in Apps |->
          [config |-> c[a], step |-> "bare", runtime |-> FALSE, running |-> FALSE,
              wrappers |-> <<"user">>, middleware |-> FALSE, hidden |-> "none",
              life |-> "down", todo |-> <<>>, open |-> <<>>, watchdogs |-> 0,
              starts |-> 0, broken |-> FALSE, gaveUp |-> {}, word |-> "none"]]
    BY DEF Init
  <2>2. \A a \in Apps : app[a] \in AppStates /\ AppInv(app[a])
    BY <2>1, InitAppInv
  <2>3. QED BY <2>1, <2>2 DEF AppsInv
<1>2. ProcessInv(process)
  BY InstallationAssumption DEF Init, ProcessInv, ProcessStates
<1>3. StartsInv  BY DEF Init, StartsInv
<1>4. QED BY <1>1, <1>2, <1>3 DEF IInv
-----------------------------------------------------------------------------
(* The install steps.                                                       *)
Steps == {"logging", "metrics", "tracing", "database", "meters", "middleware", "installed",
          "raised"}

\* Apps keep their counts of starts.
KeepsStarts(apps) == \A b \in Apps : apps[b].starts = app[b].starts

LEMMA ToInv ==
  ASSUME AppsInv(app), NEW a \in Apps, app[a].step # "bare", NEW s \in Steps,
         s = "installed" => app[a].starts = 0
  PROVE  AppsInv(To(a, s)) /\ KeepsStarts(To(a, s))
<1>1. PICK y : y = [app[a] EXCEPT !.step = s]  OBVIOUS
<1>2. To(a, s) = [app EXCEPT ![a] = y]  BY <1>1 DEF To
<1>3. app[a] \in AppStates /\ AppInv(app[a]) /\ app \in [Apps -> AppStates]  BY DEF AppsInv
<1>4. y \in AppStates  BY <1>1, <1>3 DEF AppStates, Steps
<1>5. /\ LifeAs(app[a], y) /\ y.word = app[a].word /\ y.config = app[a].config
      /\ y.runtime = app[a].runtime /\ y.wrappers = app[a].wrappers /\ y.step = s
  BY <1>1, <1>3 DEF AppStates, LifeAs
<1>6. AppInv(y)
  <2>1. y.step # "bare" /\ (y.step = "installed" => app[a].starts = 0)  BY <1>5 DEF Steps
  <2>2. QED BY <1>3, <1>4, <1>5, <2>1, InstallStepInv, Zenon
<1>7. AppsInv(To(a, s))  BY <1>2, <1>3, <1>4, <1>6 DEF AppsInv
<1>8. KeepsStarts(To(a, s))  BY <1>2, <1>3, <1>5 DEF KeepsStarts, LifeAs
<1>9. QED BY <1>7, <1>8

LEMMA WrapInv ==
  ASSUME AppsInv(app), NEW a \in Apps, app[a].step # "bare", NEW s \in Steps \ {"installed"},
         NEW kind \in {"logs", "traces", "meters"}, kind = "logs" => app[a].config.configure
  PROVE  AppsInv(Wrap(a, s, kind)) /\ KeepsStarts(Wrap(a, s, kind))
<1>1. PICK y : y = [app[a] EXCEPT !.step = s, !.wrappers = Append(@, kind)]  OBVIOUS
<1>2. app[a] \in AppStates /\ AppInv(app[a]) /\ app \in [Apps -> AppStates]  BY DEF AppsInv
<1>3. Wrap(a, s, kind) = [app EXCEPT ![a] = y]  BY <1>1, <1>2 DEF Wrap
<1>4. Append(app[a].wrappers, kind) \in Seq(Kinds)  BY <1>2 DEF AppStates, Kinds
<1>5. y \in AppStates  BY <1>1, <1>2, <1>4 DEF AppStates, Steps
<1>6. /\ LifeAs(app[a], y) /\ y.word = app[a].word /\ y.config = app[a].config
      /\ y.runtime = app[a].runtime /\ y.wrappers = Append(app[a].wrappers, kind) /\ y.step = s
  BY <1>1, <1>2 DEF AppStates, LifeAs
<1>7. AppInv(y)
  <2>1. y.step # "bare" /\ y.step # "installed"  BY <1>6 DEF Steps
  <2>2. QED BY <1>2, <1>5, <1>6, <2>1, InstallStepInv, Zenon
<1>8. AppsInv(Wrap(a, s, kind))  BY <1>2, <1>3, <1>5, <1>7 DEF AppsInv
<1>9. KeepsStarts(Wrap(a, s, kind))  BY <1>2, <1>3, <1>6 DEF KeepsStarts, LifeAs
<1>10. QED BY <1>8, <1>9

\* The word of each app is taken on.
LEMMA WordsTakenInv ==
  ASSUME NEW apps, AppsInv(apps), NEW new, NEW outputs,
         \/ new = [a \in Apps |-> [apps[a] EXCEPT !.word = Delivered(@, outputs)]]
         \/ new = [a \in Apps |-> [apps[a] EXCEPT !.word = IF @ = "batched" THEN "exported" ELSE @]]
  PROVE  AppsInv(new) /\ \A b \in Apps : new[b].starts = apps[b].starts
<1>1. ASSUME NEW a \in Apps PROVE new[a] \in AppStates /\ AppInv(new[a]) /\ new[a].starts = apps[a].starts
  <2>1. apps[a] \in AppStates /\ AppInv(apps[a])  BY DEF AppsInv
  <2>2. PICK word \in {"none", "queued", "batched", "exported", "local"} :
          /\ new[a] = [apps[a] EXCEPT !.word = word]
          /\ word = Delivered(apps[a].word, outputs)
             \/ word = IF apps[a].word = "batched" THEN "exported" ELSE apps[a].word
    <3>1. apps[a].word \in {"none", "queued", "batched", "exported", "local"}
      BY <2>1 DEF AppStates
    <3>2. Delivered(apps[a].word, outputs) \in {"none", "queued", "batched", "exported", "local"}
      BY <3>1 DEF Delivered
    <3>3. QED BY <3>1, <3>2
  <2>3. new[a] \in AppStates  BY <2>1, <2>2 DEF AppStates
  <2>4. InstallAs(apps[a], new[a]) /\ LifeAs(apps[a], new[a]) /\ new[a].word = word
    BY <2>1, <2>2 DEF AppStates, InstallAs, LifeAs
  <2>5. AppInv(new[a])  BY <2>1, <2>2, <2>3, <2>4, WordTakenInv DEF WordTaken
  <2>6. QED BY <2>3, <2>4, <2>5 DEF LifeAs
<1>2. new \in [Apps -> AppStates]  BY <1>1
<1>3. QED BY <1>1, <1>2 DEF AppsInv

LEMMA DeliverAllInv ==
  ASSUME NEW apps, AppsInv(apps)
  PROVE  AppsInv(DeliverAll(apps)) /\ \A b \in Apps : DeliverAll(apps)[b].starts = apps[b].starts
<1>1. PICK outputs : outputs = process.outputs  OBVIOUS
<1>2. PICK new : new = DeliverAll(apps)  OBVIOUS
<1>3. new = [a \in Apps |-> [apps[a] EXCEPT !.word = Delivered(@, outputs)]]
  BY <1>1, <1>2 DEF DeliverAll
<1>4. AppsInv(new) /\ \A b \in Apps : new[b].starts = apps[b].starts
  BY <1>3, WordsTakenInv
<1>5. QED BY <1>2, <1>4

LEMMA ExportAllInv ==
  ASSUME NEW apps, AppsInv(apps)
  PROVE  AppsInv(ExportAll(apps)) /\ \A b \in Apps : ExportAll(apps)[b].starts = apps[b].starts
  BY WordsTakenInv DEF ExportAll

-----------------------------------------------------------------------------
(* What the steps do to what is shared.                                     *)
LEMMA AttachOnceInv ==
  ASSUME NEW p \in ProcessStates, \A s \in {"logs", "traces", "totals"} : p.processors[s] <= 1,
         NEW key \in {"logs", "traces", "totals"}, NEW q, q = AttachOnce(p, key)
  PROVE  /\ q \in ProcessStates /\ \A s \in {"logs", "traces", "totals"} : q.processors[s] <= 1
         /\ q.processors[key] = 1
         /\ \A s \in {"logs", "traces", "totals"} : s # key => q.processors[s] = p.processors[s]
         /\ q.providers = p.providers /\ q.collectors = p.collectors /\ q.described = p.described
         /\ q.propagators = p.propagators
         /\ q.known = p.known /\ q.traced = p.traced /\ q.instrumented = p.instrumented
         /\ q.starts = p.starts
<1>1. PICK f : f = [p.processors EXCEPT ![key] = IF @ = 0 THEN 1 ELSE @]  OBVIOUS
<1>2. q = [p EXCEPT !.processors = f]  BY <1>1 DEF AttachOnce
<1>3. p.processors \in [{"logs", "traces", "totals"} -> Nat]  BY DEF ProcessStates
<1>4. /\ f \in [{"logs", "traces", "totals"} -> Nat] /\ f[key] = 1
      /\ \A s \in {"logs", "traces", "totals"} : s # key => f[s] = p.processors[s]
      /\ \A s \in {"logs", "traces", "totals"} : f[s] <= 1
  BY <1>1, <1>3
<1>5. q.processors = f  BY <1>2 DEF ProcessStates
<1>6. QED BY <1>2, <1>4, <1>5 DEF ProcessStates

LEMMA InstallOtelLogsInv ==
  ASSUME NEW p, ProcessInv(p), NEW q, q = InstallOtelLogs(p)
  PROVE  ProcessInv(q) /\ q.starts = p.starts
<1>1. PICK r : r = [p EXCEPT !.providers = @ \cup {"logs"}]  OBVIOUS
<1>2. /\ r \in ProcessStates /\ \A s \in {"logs", "traces", "totals"} : r.processors[s] <= 1
      /\ r.providers = p.providers \cup {"logs"} /\ r.processors = p.processors
      /\ r.collectors = p.collectors /\ r.described = p.described /\ r.starts = p.starts
      /\ r.propagators = p.propagators
      /\ r.known = p.known /\ r.traced = p.traced /\ r.instrumented = p.instrumented
  BY <1>1 DEF ProcessInv, ProcessStates
<1>3. q = AttachOnce(r, "logs")  BY <1>1 DEF InstallOtelLogs
<1>4. /\ q \in ProcessStates /\ \A s \in {"logs", "traces", "totals"} : q.processors[s] <= 1
      /\ q.processors["totals"] = p.processors["totals"]
      /\ q.providers = r.providers /\ q.collectors = r.collectors /\ q.described = r.described
      /\ q.known = r.known /\ q.traced = r.traced /\ q.instrumented = r.instrumented
      /\ q.propagators = r.propagators /\ q.starts = r.starts
  BY <1>2, <1>3, AttachOnceInv
<1>5. QED BY <1>2, <1>4 DEF ProcessInv

LEMMA InstallOtelInv ==
  ASSUME NEW p, ProcessInv(p), NEW q, q = InstallOtel(p)
  PROVE  ProcessInv(q) /\ q.starts = p.starts
<1>1. PICK own : own = IF "traces" \in p.providers THEN p ELSE AttachOnce(p, "traces")  OBVIOUS
<1>2. /\ own \in ProcessStates /\ \A s \in {"logs", "traces", "totals"} : own.processors[s] <= 1
      /\ own.providers = p.providers /\ own.collectors = p.collectors
      /\ own.described = p.described /\ own.propagators = p.propagators
      /\ own.known = p.known /\ own.traced = p.traced /\ own.instrumented = p.instrumented /\ own.starts = p.starts
  BY <1>1, AttachOnceInv DEF ProcessInv
<1>3. PICK r : r = [own EXCEPT !.providers = @ \cup {"traces"}]  OBVIOUS
<1>4. /\ r \in ProcessStates /\ r.processors = own.processors
      /\ r.collectors = own.collectors /\ r.described = own.described /\ r.starts = own.starts
      /\ r.propagators = own.propagators
      /\ r.known = own.known /\ r.traced = own.traced /\ r.instrumented = own.instrumented
  BY <1>2, <1>3 DEF ProcessStates
<1>5. q = AttachOnce(r, "totals")  BY <1>1, <1>3 DEF InstallOtel
<1>6. /\ q \in ProcessStates /\ \A s \in {"logs", "traces", "totals"} : q.processors[s] <= 1
      /\ q.processors["totals"] = 1
      /\ q.collectors = r.collectors /\ q.described = r.described /\ q.starts = r.starts
      /\ q.propagators = r.propagators
      /\ q.known = r.known /\ q.traced = r.traced /\ q.instrumented = r.instrumented
  BY <1>2, <1>4, <1>5, AttachOnceInv
<1>7. QED BY <1>2, <1>4, <1>6 DEF ProcessInv

LEMMA RegisterCollectorsInv ==
  ASSUME NEW p, ProcessInv(p), NEW q, q = RegisterCollectors(p)
  PROVE  ProcessInv(q) /\ q.starts = p.starts
<1>1. CASE p.multiprocess  BY <1>1 DEF RegisterCollectors
<1>2. CASE ~p.multiprocess
  <2>1. p \in ProcessStates /\ p.collectors \in [queue : Nat, pools : Nat]
    BY DEF ProcessInv, ProcessStates
  <2>2. PICK m, n : /\ m = IF QueueFamilies \cap p.described = {}
                           THEN p.collectors.queue + 1 ELSE p.collectors.queue
                    /\ n = IF PoolFamilies \cap p.described = {}
                           THEN p.collectors.pools + 1 ELSE p.collectors.pools
    OBVIOUS
  <2>3. PICK c : c = [p.collectors EXCEPT !.queue = m, !.pools = n]  OBVIOUS
  <2>4. PICK d : d = p.described \cup QueueFamilies \cup PoolFamilies  OBVIOUS
  <2>5. q = [p EXCEPT !.collectors = c, !.described = d]
    <3>1. q = [p EXCEPT !.collectors.queue = m, !.collectors.pools = n, !.described = d]
      BY <1>2, <2>2, <2>4 DEF RegisterCollectors
    <3>2. QED BY <2>1, <2>3, <3>1 DEF ProcessStates
  <2>6. d \subseteq {"queue", "threads", "db"} /\ "queue" \in d
    BY <2>1, <2>4 DEF ProcessStates, QueueFamilies, PoolFamilies
  <2>7. m \in Nat /\ n \in Nat  BY <2>1, <2>2
  <2>8. m <= 1
    <3>1. QueueFamilies \cap p.described = {} <=> "queue" \notin p.described
      BY DEF QueueFamilies
    <3>2. QED BY <2>1, <2>2, <3>1 DEF ProcessInv
  <2>9. c \in [queue : Nat, pools : Nat] /\ c.queue = m  BY <2>1, <2>3, <2>7
  <2>10. /\ q \in ProcessStates /\ q.collectors = c /\ q.described = d
         /\ q.processors = p.processors /\ q.providers = p.providers /\ q.starts = p.starts
         /\ q.propagators = p.propagators
         /\ q.known = p.known /\ q.traced = p.traced /\ q.instrumented = p.instrumented
    <3>1. c \in [queue : Nat, pools : Nat] /\ d \in SUBSET {"queue", "threads", "db"}
      BY <2>6, <2>9
    <3>2. q \in ProcessStates  BY <2>1, <2>5, <3>1 DEF ProcessStates
    <3>3. QED BY <2>1, <2>5, <3>2 DEF ProcessStates
  <2>11. QED BY <2>6, <2>8, <2>9, <2>10 DEF ProcessInv
<1>3. QED BY <1>1, <1>2

LEMMA WatchDbPoolInv ==
  ASSUME NEW p, ProcessInv(p), NEW engine \in Engines, NEW q, q = WatchDbPool(p, engine)
  PROVE  ProcessInv(q) /\ q.starts = p.starts
<1>1. /\ q \in ProcessStates /\ q.collectors = p.collectors /\ q.described = p.described
      /\ q.processors = p.processors /\ q.providers = p.providers /\ q.starts = p.starts
      /\ q.propagators = p.propagators
      /\ q.known = p.known /\ q.traced = p.traced /\ q.instrumented = p.instrumented
  BY DEF ProcessInv, ProcessStates, WatchDbPool
<1>2. QED BY <1>1 DEF ProcessInv

LEMMA InstrumentSqlalchemyInv ==
  ASSUME NEW p, ProcessInv(p), NEW engine \in Engines, NEW fault,
         NEW q \in InstrumentSqlalchemy(p, engine, fault)
  PROVE  ProcessInv(q) /\ q.starts = p.starts
<1>1. PICK known : known = p.known \cup {engine}  OBVIOUS
<1>2. PICK instrumented \in BOOLEAN : instrumented = (fault \notin {"refused", "sqlalchemy"})
  OBVIOUS
<1>3. PICK heard : /\ heard \subseteq known /\ (instrumented => heard = known)
                   /\ q = [p EXCEPT !.known = known, !.traced = TakenOff(p) \cup heard,
                                    !.instrumented = instrumented]
  BY <1>1, <1>2 DEF InstrumentSqlalchemy
<1>4. PICK traced : traced = TakenOff(p) \cup heard  OBVIOUS
<1>5. p \in ProcessStates /\ known \in SUBSET Engines /\ traced \in SUBSET Engines
  BY <1>1, <1>3, <1>4 DEF ProcessInv, ProcessStates, TakenOff
<1>6. /\ q \in ProcessStates /\ q.collectors = p.collectors /\ q.described = p.described
      /\ q.processors = p.processors /\ q.providers = p.providers /\ q.starts = p.starts
      /\ q.propagators = p.propagators
      /\ q.known = known /\ q.traced = traced /\ q.instrumented = instrumented
  BY <1>3, <1>4, <1>5 DEF ProcessStates
<1>7. QED BY <1>3, <1>4, <1>6 DEF ProcessInv

LEMMA RequestIdPropagationInv ==
  ASSUME NEW p, ProcessInv(p), NEW q, q = InstallRequestIdPropagation(p)
  PROVE  ProcessInv(q) /\ q.starts = p.starts
<1>1. /\ q \in ProcessStates /\ q.collectors = p.collectors /\ q.described = p.described
      /\ q.processors = p.processors /\ q.providers = p.providers /\ q.starts = p.starts
      /\ q.propagators \in {p.propagators, 1}
      /\ q.known = p.known /\ q.traced = p.traced /\ q.instrumented = p.instrumented
  BY DEF ProcessInv, ProcessStates, InstallRequestIdPropagation
<1>2. QED BY <1>1 DEF ProcessInv

LEMMA PipelineInv ==
  ASSUME NEW p, ProcessInv(p), NEW outputs \in {"local", "otlp"}, NEW attached \in BOOLEAN,
         NEW q, q = [p EXCEPT !.outputs = outputs, !.attached = attached]
  PROVE  ProcessInv(q) /\ q.starts = p.starts
<1>1. /\ q \in ProcessStates /\ q.collectors = p.collectors /\ q.described = p.described
      /\ q.processors = p.processors /\ q.providers = p.providers /\ q.starts = p.starts
      /\ q.propagators = p.propagators
      /\ q.known = p.known /\ q.traced = p.traced /\ q.instrumented = p.instrumented
  BY DEF ProcessInv, ProcessStates
<1>2. QED BY <1>1 DEF ProcessInv

LEMMA MetersProviderInv ==
  ASSUME NEW p, ProcessInv(p), NEW q, q = [p EXCEPT !.providers = @ \cup {"meters"}]
  PROVE  ProcessInv(q) /\ q.starts = p.starts
<1>1. /\ q \in ProcessStates /\ q.collectors = p.collectors /\ q.described = p.described
      /\ q.processors = p.processors /\ q.providers = p.providers \cup {"meters"}
      /\ q.propagators = p.propagators
      /\ q.known = p.known /\ q.traced = p.traced /\ q.instrumented = p.instrumented
      /\ q.starts = p.starts
  BY DEF ProcessInv, ProcessStates
<1>2. QED BY <1>1 DEF ProcessInv

LEMMA LimiterInv ==
  ASSUME NEW p, ProcessInv(p), NEW limiter \in BOOLEAN, NEW q, q = [p EXCEPT !.limiter = limiter]
  PROVE  ProcessInv(q) /\ q.starts = p.starts
<1>1. /\ q \in ProcessStates /\ q.collectors = p.collectors /\ q.described = p.described
      /\ q.processors = p.processors /\ q.providers = p.providers /\ q.starts = p.starts
      /\ q.propagators = p.propagators
      /\ q.known = p.known /\ q.traced = p.traced /\ q.instrumented = p.instrumented
  BY DEF ProcessInv, ProcessStates
<1>2. QED BY <1>1 DEF ProcessInv

-----------------------------------------------------------------------------
(* One step per action.                                                     *)
Kept ==
  /\ AppsInv(app') /\ KeepsStarts(app')
  /\ ProcessInv(process') /\ process'.starts = process.starts

LEMMA KeptSuffices == ASSUME IInv, Kept PROVE IInv'
<1>1. StartsInv'  BY DEF IInv, Kept, KeepsStarts, StartsInv
<1>2. QED BY <1>1 DEF Kept, IInv

LEMMA ConfigFacts ==
  ASSUME IInv, NEW a \in Apps
  PROVE  /\ app[a].config.engine \in Engines \cup {None}
         /\ app \in [Apps -> AppStates] /\ app[a] \in AppStates /\ AppInv(app[a])
<1>1. app \in [Apps -> AppStates] /\ app[a] \in AppStates /\ AppInv(app[a])
  BY DEF IInv, AppsInv
<1>2. app[a].config \in Configs  BY <1>1 DEF AppStates
<1>3. QED BY <1>1, <1>2, InstallationAssumption

LEMMA BeginKept == ASSUME IInv, NEW a \in Apps, Begin(a) PROVE Kept
<1>1. PICK y : y = [app[a] EXCEPT !.runtime = TRUE, !.step = "logging",
                                  !.wrappers = Append(@, "observability")]
  OBVIOUS
<1>2. app \in [Apps -> AppStates] /\ app[a] \in AppStates /\ AppInv(app[a])  BY ConfigFacts
<1>3. app' = [app EXCEPT ![a] = y]  BY <1>1, <1>2 DEF Begin
<1>4. Append(app[a].wrappers, "observability") \in Seq(Kinds)  BY <1>2 DEF AppStates, Kinds
<1>5. y \in AppStates  BY <1>1, <1>2, <1>4 DEF AppStates
<1>6. /\ LifeAs(app[a], y) /\ y.word = app[a].word /\ y.config = app[a].config
      /\ y.runtime /\ y.wrappers = Append(app[a].wrappers, "observability") /\ y.step = "logging"
  BY <1>1, <1>2 DEF AppStates, LifeAs
<1>7. ~app[a].runtime  BY DEF Begin
<1>8. AppInv(y)  BY <1>2, <1>5, <1>6, <1>7, BeginInv, Zenon
<1>9. AppsInv(app')  BY <1>2, <1>3, <1>5, <1>8 DEF IInv, AppsInv
<1>10. KeepsStarts(app')  BY <1>2, <1>3, <1>6 DEF KeepsStarts, LifeAs
<1>11. QED BY <1>9, <1>10 DEF Begin, Kept, IInv

LEMMA RaiseKept == ASSUME IInv, NEW a \in Apps, app[a].step # "bare", Raise(a) PROVE Kept
<1>1. app' = To(a, "raised") /\ process' = process  BY DEF Raise, To
<1>2. AppsInv(app') /\ KeepsStarts(app')  BY <1>1, ToInv DEF IInv, Steps
<1>3. QED BY <1>1, <1>2 DEF Kept, IInv

LEMMA LoggingKept == ASSUME IInv, NEW a \in Apps, Logging(a) PROVE Kept
<1> DEFINE c      == app[a].config
           otlp   == c.otlp /\ c.fault # "otlp"
           raises == c.fault = "setup"
           next   == IF raises THEN "raised" ELSE "metrics"
<1>1. /\ app[a].step # "bare" /\ AppsInv(app) /\ ProcessInv(process)
      /\ "metrics" \in Steps \ {"installed"} /\ next \in Steps \ {"installed"}
  BY DEF Logging, Steps, IInv
<1>2. PICK apps : apps = IF otlp THEN Wrap(a, next, "logs") ELSE To(a, next)  OBVIOUS
<1>3. PICK shared : shared = IF otlp THEN InstallOtelLogs(process) ELSE process  OBVIOUS
<1>4. PICK outputs : outputs = IF raises THEN process.outputs
                               ELSE IF otlp THEN "otlp" ELSE "local"
  OBVIOUS
<1>5. \/ ~c.configure /\ app' = To(a, "metrics") /\ UNCHANGED process
      \/ Raise(a)
      \/ /\ c.configure /\ app' \in {DeliverAll(apps), apps}
         /\ process' = [shared EXCEPT !.outputs = outputs, !.attached = ~raises]
  BY <1>2, <1>3, <1>4 DEF Logging
<1>6. CASE ~c.configure /\ app' = To(a, "metrics") /\ UNCHANGED process
  BY <1>1, <1>6, ToInv DEF Kept
<1>7. CASE Raise(a)  BY <1>1, <1>7, RaiseKept
<1>8. CASE /\ c.configure /\ app' \in {DeliverAll(apps), apps}
           /\ process' = [shared EXCEPT !.outputs = outputs, !.attached = ~raises]
  <2>1. AppsInv(apps) /\ KeepsStarts(apps)
    <3>1. CASE otlp  BY <1>1, <1>2, <1>8, <3>1, WrapInv
    <3>2. CASE ~otlp  BY <1>1, <1>2, <3>2, ToInv
    <3>3. QED BY <3>1, <3>2
  <2>2. AppsInv(app') /\ KeepsStarts(app')
    BY <1>8, <2>1, DeliverAllInv DEF KeepsStarts
  <2>3. ProcessInv(shared) /\ shared.starts = process.starts
    BY <1>1, <1>3, InstallOtelLogsInv
  <2>4. outputs \in {"local", "otlp"}  BY <1>1, <1>4 DEF ProcessInv, ProcessStates
  <2>5. PICK attached \in BOOLEAN : attached = ~raises  OBVIOUS
  <2>6. ProcessInv(process') /\ process'.starts = process.starts
    BY <1>8, <2>3, <2>4, <2>5, PipelineInv
  <2>7. QED BY <2>2, <2>6 DEF Kept
<1>9. QED BY <1>5, <1>6, <1>7, <1>8

LEMMA MetricsKept == ASSUME IInv, NEW a \in Apps, Metrics(a) PROVE Kept
<1>1. app[a].step # "bare" /\ "tracing" \in Steps \ {"installed"} /\ AppsInv(app) /\ ProcessInv(process)
  BY DEF Metrics, Steps, IInv
<1>2. PICK p : p = RegisterCollectors(process) /\ ProcessInv(p) /\ p.starts = process.starts
  BY <1>1, RegisterCollectorsInv
<1>3. CASE Raise(a)  BY <1>1, <1>3, RaiseKept
<1>4. CASE app' = To(a, "tracing") /\ process' \in {p, process}
  BY <1>1, <1>2, <1>4, ToInv DEF Kept
<1>5. QED BY <1>2, <1>3, <1>4 DEF Metrics

LEMMA TracingKept == ASSUME IInv, NEW a \in Apps, Tracing(a) PROVE Kept
<1>1. /\ app[a].step # "bare" /\ AppsInv(app) /\ ProcessInv(process)
      /\ "database" \in Steps \ {"installed"} /\ "raised" \in Steps \ {"installed"}
  BY DEF Tracing, Steps, IInv
<1>2. PICK p : p = InstallOtel(process) /\ ProcessInv(p) /\ p.starts = process.starts
  BY <1>1, InstallOtelInv
<1>3. CASE Raise(a)  BY <1>1, <1>3, RaiseKept
<1>4. CASE app' = To(a, "database") /\ process' = process
  BY <1>1, <1>4, ToInv DEF Kept
<1>5. CASE app' \in {To(a, "raised"), Wrap(a, "database", "traces")} /\ process' = p
  <2>1. CASE app' = To(a, "raised")  BY <1>1, <1>2, <1>5, <2>1, ToInv DEF Kept
  <2>2. CASE app' = Wrap(a, "database", "traces")
    BY <1>1, <1>2, <1>5, <2>2, WrapInv DEF Kept
  <2>3. QED BY <1>5, <2>1, <2>2
<1>6. QED BY <1>2, <1>3, <1>4, <1>5 DEF Tracing

LEMMA DatabaseKept == ASSUME IInv, NEW a \in Apps, Database(a) PROVE Kept
<1>1. /\ app[a].step # "bare" /\ AppsInv(app) /\ ProcessInv(process)
      /\ "meters" \in Steps \ {"installed"} /\ "raised" \in Steps \ {"installed"}
  BY DEF Database, Steps, IInv
<1>2. app' \in {To(a, "meters"), To(a, "raised")}  BY DEF Database
<1>3. AppsInv(app') /\ KeepsStarts(app')
  <2>1. CASE app' = To(a, "meters")  BY <1>1, <2>1, ToInv
  <2>2. CASE app' = To(a, "raised")  BY <1>1, <2>2, ToInv
  <2>3. QED BY <1>2, <2>1, <2>2
<1>4. ProcessInv(process') /\ process'.starts = process.starts
  <2>1. PICK engine : engine = app[a].config.engine  OBVIOUS
  <2>2. CASE engine = None  BY <1>1, <2>1, <2>2 DEF Database
  <2>3. CASE engine # None
    <3>1. engine \in Engines  BY <2>1, <2>3, ConfigFacts
    <3>2. PICK p : p = WatchDbPool(process, engine) /\ ProcessInv(p) /\ p.starts = process.starts
      BY <1>1, <3>1, WatchDbPoolInv
    <3>3. process' = p \/ process' \in InstrumentSqlalchemy(p, engine, app[a].config.fault)
      BY <2>1, <2>3, <3>2 DEF Database
    <3>4. QED BY <3>1, <3>2, <3>3, InstrumentSqlalchemyInv
  <2>4. QED BY <2>2, <2>3
<1>5. QED BY <1>3, <1>4 DEF Kept

LEMMA MetersKept == ASSUME IInv, NEW a \in Apps, Meters(a) PROVE Kept
<1>1. /\ app[a].step # "bare" /\ AppsInv(app) /\ ProcessInv(process)
      /\ "middleware" \in Steps \ {"installed"}
  BY DEF Meters, Steps, IInv
<1>2. AppsInv(app') /\ KeepsStarts(app')
  <2>1. CASE app' = To(a, "middleware")  BY <1>1, <2>1, ToInv
  <2>2. CASE app' = Wrap(a, "middleware", "meters")  BY <1>1, <2>2, WrapInv
  <2>3. QED BY <2>1, <2>2 DEF Meters
<1>3. PICK p : /\ p = [process EXCEPT !.providers = @ \cup {"meters"}]
               /\ ProcessInv(p) /\ p.starts = process.starts
  BY <1>1, MetersProviderInv
<1>4. process' \in {p, process}  BY <1>3 DEF Meters
<1>5. QED BY <1>1, <1>2, <1>3, <1>4 DEF Kept

LEMMA MiddlewareKept == ASSUME IInv, NEW a \in Apps, Middleware(a) PROVE Kept
<1>1. app[a].step # "bare" /\ AppsInv(app) /\ ProcessInv(process) /\ app[a].starts \in Nat
  <2>1. app[a].starts \in Nat  BY ConfigFacts DEF AppStates
  <2>2. QED BY <2>1 DEF Middleware, Steps, IInv
<1>2. CASE Raise(a)  BY <1>1, <1>2, RaiseKept
<1>3. CASE ~(app[a].starts > 0)
  <2>1. PICK to : to = To(a, "installed") /\ AppsInv(to) /\ KeepsStarts(to)
    BY <1>1, <1>3, ToInv DEF Steps
  <2>2. PICK y : y = [to[a] EXCEPT !.middleware = TRUE]  OBVIOUS
  <2>3. to \in [Apps -> AppStates] /\ to[a] \in AppStates /\ AppInv(to[a])  BY <2>1 DEF AppsInv
  <2>4. app' = [to EXCEPT ![a] = y]  BY <1>3, <2>1, <2>2, <2>3 DEF Middleware
  <2>5. y \in AppStates  BY <2>2, <2>3 DEF AppStates
  <2>6. InstallAs(to[a], y) /\ LifeAs(to[a], y) /\ y.word = to[a].word
    BY <2>2, <2>3 DEF AppStates, InstallAs, LifeAs
  <2>7. AppInv(y)
    BY <2>3, <2>6 DEF AppInv, WrapperInv, LifeInv, WatchInv, HiddenInv, Promised, OrderInv,
                      WordInv, Owns, Has, Logs, InstallAs, LifeAs
  <2>8. AppsInv(app')  BY <2>1, <2>3, <2>4, <2>5, <2>7 DEF AppsInv
  <2>9. KeepsStarts(app')  BY <2>1, <2>3, <2>4, <2>6 DEF KeepsStarts, LifeAs
  <2>10. process' = InstallRequestIdPropagation(process)  BY <1>3 DEF Middleware
  <2>11. QED BY <1>1, <2>8, <2>9, <2>10, RequestIdPropagationInv DEF Kept
<1>4. QED BY <1>1, <1>2, <1>3 DEF Middleware

LEMMA UninstrumentKept == ASSUME IInv, Uninstrument PROVE Kept
<1>1. /\ ProcessInv(process) /\ app' = app
      /\ process' = [process EXCEPT !.known = {}, !.traced = TakenOff(process),
                                   !.instrumented = FALSE]
  BY DEF Uninstrument, IInv
<1>2. ProcessInv(process') /\ process'.starts = process.starts
  <2>1. PICK traced \in SUBSET Engines : traced = TakenOff(process)
    BY <1>1 DEF ProcessInv, ProcessStates, TakenOff
  <2>2. QED BY <1>1, <2>1 DEF ProcessInv, ProcessStates
<1>3. QED BY <1>1, <1>2 DEF Kept, IInv, KeepsStarts
-----------------------------------------------------------------------------
LEMMA AddHiddenRouteKept == ASSUME IInv, NEW a \in Apps, AddHiddenRoute(a) PROVE Kept
<1>1. PICK y : y = [app[a] EXCEPT !.hidden = "added"]  OBVIOUS
<1>2. app \in [Apps -> AppStates] /\ app[a] \in AppStates /\ AppInv(app[a])  BY ConfigFacts
<1>3. app' = [app EXCEPT ![a] = y] /\ process' = process /\ app[a].life = "down"
  BY <1>1, <1>2 DEF AddHiddenRoute
<1>4. y \in AppStates  BY <1>1, <1>2 DEF AppStates
<1>5. /\ InstallAs(app[a], y) /\ y.word = app[a].word /\ y.gaveUp = app[a].gaveUp
      /\ y.life = app[a].life /\ y.todo = app[a].todo /\ y.open = app[a].open
      /\ y.starts = app[a].starts /\ y.running = app[a].running
      /\ y.watchdogs = app[a].watchdogs /\ y.broken = app[a].broken
  BY <1>1, <1>2 DEF AppStates, InstallAs
<1>6. AppInv(y)  BY <1>2, <1>3, <1>4, <1>5, HiddenRouteInv, Zenon
<1>7. AppsInv(app')  BY <1>2, <1>3, <1>4, <1>6 DEF IInv, AppsInv
<1>8. KeepsStarts(app')  BY <1>2, <1>3, <1>5 DEF KeepsStarts
<1>9. QED BY <1>3, <1>7, <1>8 DEF Kept, IInv

LEMMA StopKept == ASSUME IInv, NEW a \in Apps, Stop(a) PROVE Kept
<1>1. PICK y : y = [app[a] EXCEPT !.life = "stopping", !.todo = <<>>]  OBVIOUS
<1>2. app \in [Apps -> AppStates] /\ app[a] \in AppStates /\ AppInv(app[a])  BY ConfigFacts
<1>3. /\ app' = [app EXCEPT ![a] = y] /\ process' = process
      /\ app[a].life \in {"up", "starting"}
  BY <1>1, <1>2 DEF Stop
<1>4. y \in AppStates
  <2>1. <<>> \in Seq(Kinds)  OBVIOUS
  <2>2. QED BY <1>1, <1>2, <2>1 DEF AppStates
<1>5. /\ Still(app[a], y) /\ y.word = app[a].word /\ y.life = "stopping" /\ y.todo = <<>>
      /\ y.open = app[a].open /\ y.starts = app[a].starts /\ y.running = app[a].running
      /\ y.watchdogs = app[a].watchdogs /\ y.broken = app[a].broken
  BY <1>1, <1>2 DEF AppStates, Still, InstallAs
<1>6. AppInv(y)  BY <1>2, <1>3, <1>4, <1>5, StopInv, Zenon
<1>7. AppsInv(app')  BY <1>2, <1>3, <1>4, <1>6 DEF IInv, AppsInv
<1>8. KeepsStarts(app')  BY <1>2, <1>3, <1>5 DEF KeepsStarts
<1>9. QED BY <1>3, <1>7, <1>8 DEF Kept, IInv

LEMMA StartIInv == ASSUME IInv, NEW a \in Apps, Start(a) PROVE IInv'
<1>1. PICK todo :
        todo = Reverse(app[a].wrappers)
                 \o (IF app[a].config.nested THEN <<"observability">> ELSE <<>>)
  OBVIOUS
<1>2. app \in [Apps -> AppStates] /\ app[a] \in AppStates /\ AppInv(app[a])  BY ConfigFacts
<1>3. PICK n \in Nat : n = Len(app[a].wrappers)
  <2>1. app[a].wrappers \in Seq(Kinds)  BY <1>2 DEF AppStates
  <2>2. QED BY <2>1
<1>4. todo \in Seq(Kinds) /\ Unwraps(todo, app[a].wrappers, n)
  BY <1>1, <1>2, <1>3, UnwrapsFacts DEF AppStates
<1>5. PICK y : y = [app[a] EXCEPT !.life = "starting", !.starts = @ + 1, !.word = "none",
                                  !.gaveUp = {}, !.todo = todo]
  OBVIOUS
<1>6. /\ app' = [app EXCEPT ![a] = y] /\ process' = [process EXCEPT !.starts = @ + 1]
      /\ app[a].life = "down" /\ process.starts < MaxStarts
  BY <1>1, <1>2, <1>5 DEF Start
<1>7. /\ app[a].starts <= process.starts /\ ProcessInv(process)
      /\ app[a].starts \in Nat /\ process.starts \in Nat /\ MaxStarts \in Nat
  BY <1>2, InstallationAssumption DEF IInv, StartsInv, ProcessInv, ProcessStates, AppStates
<1>8. app[a].starts + 1 \in 0..MaxStarts /\ process.starts + 1 \in 0..MaxStarts
  BY <1>6, <1>7
<1>9. y \in AppStates  BY <1>2, <1>4, <1>5, <1>8 DEF AppStates
<1>10. /\ InstallAs(app[a], y) /\ y.hidden = app[a].hidden /\ y.starts = app[a].starts + 1
       /\ y.word = "none" /\ y.life = "starting" /\ y.todo = todo /\ y.open = app[a].open
       /\ y.running = app[a].running /\ y.watchdogs = app[a].watchdogs
       /\ y.broken = app[a].broken
  BY <1>2, <1>5 DEF AppStates, InstallAs
<1>11. AppInv(y)
  <2>1. Unwraps(y.todo, app[a].wrappers, n)  BY <1>4, <1>10
  <2>2. QED BY <1>2, <1>3, <1>6, <1>9, <1>10, <2>1, StartInv, Zenon
<1>12. AppsInv(app')  BY <1>2, <1>6, <1>9, <1>11 DEF IInv, AppsInv
<1>13. ProcessInv(process') /\ process'.starts = process.starts + 1
  <2>1. PICK p : p = process  OBVIOUS
  <2>2. PICK q : q = [p EXCEPT !.starts = @ + 1]  OBVIOUS
  <2>3. /\ q \in ProcessStates /\ q.collectors = p.collectors /\ q.described = p.described
        /\ q.processors = p.processors /\ q.providers = p.providers
        /\ q.propagators = p.propagators
        /\ q.known = p.known /\ q.traced = p.traced /\ q.instrumented = p.instrumented
        /\ q.starts = p.starts + 1
    BY <1>7, <1>8, <2>1, <2>2 DEF ProcessInv, ProcessStates
  <2>4. QED BY <1>6, <1>7, <2>1, <2>2, <2>3 DEF ProcessInv
<1>14. StartsInv'
  <2>1. \A b \in Apps : /\ app'[b].starts = app[b].starts \/ b = a
                        /\ app[b].starts <= process.starts /\ app[b].starts \in Nat
    BY <1>2, <1>6 DEF IInv, StartsInv, AppStates
  <2>2. app'[a].starts = app[a].starts + 1  BY <1>2, <1>6, <1>10
  <2>3. QED BY <1>7, <1>13, <2>1, <2>2 DEF StartsInv
<1>15. QED BY <1>12, <1>13, <1>14 DEF IInv
\* The fields that change when a context is entered.
LEMMA EnteredFacts ==
  ASSUME IInv, NEW a \in Apps, NEW context \in Contexts, app[a].life = "starting",
         Head(app[a].todo) = context.kind, NEW new, new = Entered(a, context),
         NEW y, y = new[a]
  PROVE  /\ new = [app EXCEPT ![a] = y] /\ y \in AppStates /\ Enters(app[a], y, context)
         /\ y.running = app[a].running /\ y.watchdogs = app[a].watchdogs
         /\ y.hidden = app[a].hidden /\ y.word = app[a].word
<1>1. app \in [Apps -> AppStates] /\ app[a] \in AppStates /\ AppInv(app[a])  BY ConfigFacts
<1>2. /\ app[a].todo \in Seq(Kinds) /\ app[a].open \in Seq(Contexts) /\ app[a].todo # <<>>
  BY <1>1 DEF AppStates, AppInv, LifeInv
<1>3. PICK todo : /\ todo = Tail(app[a].todo) /\ todo \in Seq(Kinds)
                  /\ Len(todo) = Len(app[a].todo) - 1
                  /\ \A i \in 1..Len(todo) : todo[i] = app[a].todo[i + 1]
                  /\ Head(app[a].todo) = app[a].todo[1]
  BY <1>2, TailFacts
<1>4. PICK open : /\ open = Append(app[a].open, context) /\ open \in Seq(Contexts)
                  /\ Len(open) = Len(app[a].open) + 1 /\ open[Len(app[a].open) + 1] = context
                  /\ \A i \in 1..Len(app[a].open) : open[i] = app[a].open[i]
  <2>1. PICK seq \in Seq(Contexts) : seq = app[a].open  BY <1>2
  <2>2. PICK open : open = Append(seq, context)  OBVIOUS
  <2>3. /\ open \in Seq(Contexts) /\ Len(open) = Len(seq) + 1 /\ open[Len(seq) + 1] = context
        /\ \A i \in 1..Len(seq) : open[i] = seq[i]
    BY <2>2, AppendFacts
  <2>4. QED BY <2>1, <2>2, <2>3
<1>5. PICK life \in {"starting", "up"} : life = IF Len(app[a].todo) = 1 THEN "up" ELSE "starting"
  OBVIOUS
<1>6. PICK x : x = [app[a] EXCEPT !.todo = todo, !.open = open, !.life = life]  OBVIOUS
<1>7. new = [app EXCEPT ![a] = x]
  BY <1>1, <1>3, <1>4, <1>5, <1>6 DEF Entered
<1>8. y = x  BY <1>1, <1>7
<1>9. y \in AppStates  BY ZenonT(40), <1>1, <1>3, <1>4, <1>6, <1>8 DEF AppStates
<1>10. /\ y.todo = todo /\ y.open = open /\ y.life = life
       /\ InstallAs(app[a], y) /\ y.starts = app[a].starts /\ y.broken = app[a].broken
       /\ y.running = app[a].running /\ y.watchdogs = app[a].watchdogs
       /\ y.hidden = app[a].hidden /\ y.word = app[a].word /\ y.gaveUp = app[a].gaveUp
  BY <1>1, <1>6, <1>8 DEF AppStates, InstallAs
<1>11. Enters(app[a], y, context)
  BY <1>2, <1>3, <1>4, <1>5, <1>10 DEF Enters
<1>12. QED BY <1>7, <1>8, <1>9, <1>10, <1>11

LEMMA EnterOtherKept == ASSUME IInv, NEW a \in Apps, EnterOther(a) PROVE Kept
<1>1. app \in [Apps -> AppStates] /\ app[a] \in AppStates /\ AppInv(app[a])  BY ConfigFacts
<1>2. PICK context : context = [kind |-> Head(app[a].todo), owner |-> FALSE]  OBVIOUS
<1>3. /\ context \in Contexts /\ context.kind = Head(app[a].todo) /\ ~context.owner
      /\ context.kind # "observability"
  <2>1. app[a].todo \in Seq(Kinds) /\ app[a].todo # <<>>
    BY <1>1 DEF EnterOther, AppStates, AppInv, LifeInv
  <2>2. Head(app[a].todo) \in Kinds  BY <2>1
  <2>3. QED BY <1>2, <2>2 DEF EnterOther, Contexts
<1>4. PICK y : y = app'[a]  OBVIOUS
<1>5. /\ app' = [app EXCEPT ![a] = y] /\ y \in AppStates /\ Enters(app[a], y, context)
      /\ y.running = app[a].running /\ y.watchdogs = app[a].watchdogs
      /\ y.hidden = app[a].hidden /\ y.word = app[a].word
  BY <1>2, <1>3, <1>4, EnteredFacts DEF EnterOther
<1>6. AppInv(y)  BY <1>1, <1>3, <1>5, EnterOtherInv, Zenon
<1>7. AppsInv(app')  BY <1>1, <1>5, <1>6 DEF IInv, AppsInv
<1>8. KeepsStarts(app')  BY <1>1, <1>5 DEF KeepsStarts, Enters
<1>9. QED BY <1>7, <1>8 DEF EnterOther, Kept, IInv

LEMMA EnterObservabilityKept == ASSUME IInv, NEW a \in Apps, EnterObservability(a) PROVE Kept
<1>1. app \in [Apps -> AppStates] /\ app[a] \in AppStates /\ AppInv(app[a])  BY ConfigFacts
<1>2. ProcessInv(process') /\ process'.starts = process.starts
  <2>1. ProcessInv(process)  BY DEF IInv
  <2>2. CASE process' = process  BY <2>1, <2>2
  <2>3. CASE process' = [process EXCEPT !.limiter = @ \/ app[a].runtime]
    <3>1. PICK limiter \in BOOLEAN : limiter = (process.limiter \/ app[a].runtime)  OBVIOUS
    <3>2. process' = [process EXCEPT !.limiter = limiter]  BY <2>3, <3>1
    <3>3. QED BY <2>1, <3>2, LimiterInv
  <2>4. QED BY <2>2, <2>3 DEF EnterObservability
<1>3. CASE app[a].running
  <2>1. PICK context : context = [kind |-> "observability", owner |-> FALSE]  OBVIOUS
  <2>2. /\ context \in Contexts /\ context.kind = "observability" /\ ~context.owner
    BY <2>1 DEF Contexts, Kinds
  <2>3. PICK y : y = app'[a]  OBVIOUS
  <2>4. /\ app' = [app EXCEPT ![a] = y] /\ y \in AppStates /\ Enters(app[a], y, context)
        /\ y.running = app[a].running /\ y.watchdogs = app[a].watchdogs
        /\ y.hidden = app[a].hidden /\ y.word = app[a].word
    <3>1. app' = Entered(a, context) /\ app[a].life = "starting" /\ Head(app[a].todo) = context.kind
      BY <1>3, <2>1, <2>2 DEF EnterObservability
    <3>2. QED BY <2>2, <2>3, <3>1, EnteredFacts
  <2>5. AppInv(y)  BY <1>1, <1>3, <2>2, <2>4, EnterOtherInv, Zenon
  <2>6. AppsInv(app')  BY <1>1, <2>4, <2>5 DEF IInv, AppsInv
  <2>7. KeepsStarts(app')  BY <1>1, <2>4 DEF KeepsStarts, Enters
  <2>8. QED BY <1>2, <2>6, <2>7 DEF Kept
<1>4. CASE ~app[a].running
  <2>1. PICK context : context = [kind |-> "observability", owner |-> TRUE]  OBVIOUS
  <2>2. /\ context \in Contexts /\ context.kind = "observability" /\ context.owner
    BY <2>1 DEF Contexts, Kinds
  <2>3. PICK new, x : new = Entered(a, context) /\ x = new[a]  OBVIOUS
  <2>4. /\ new = [app EXCEPT ![a] = x] /\ x \in AppStates /\ Enters(app[a], x, context)
        /\ x.running = app[a].running /\ x.watchdogs = app[a].watchdogs
        /\ x.hidden = app[a].hidden /\ x.word = app[a].word
    BY <2>2, <2>3, EnteredFacts DEF EnterObservability
  <2>5. PICK watchdogs, hidden :
          /\ watchdogs = IF app[a].runtime THEN app[a].watchdogs + 1 ELSE app[a].watchdogs
          /\ hidden = IF app[a].runtime THEN Discovered(a, app[a].hidden) ELSE app[a].hidden
    OBVIOUS
  <2>6. PICK y : y = [x EXCEPT !.running = app[a].runtime, !.watchdogs = watchdogs,
                               !.hidden = hidden]
    OBVIOUS
  <2>7. app' = [app EXCEPT ![a] = y]
    <3>1. app' = [new EXCEPT ![a].running = app[a].runtime,
                             ![a].watchdogs = watchdogs, ![a].hidden = hidden]
      BY <1>1, <1>4, <2>1, <2>3, <2>4, <2>5 DEF EnterObservability
    <3>2. QED BY <1>1, <2>4, <2>6, <3>1
  <2>8. /\ watchdogs \in Nat /\ hidden \in {"none", "added", "excluded"}
        /\ app[a].runtime \in BOOLEAN /\ (app[a].runtime => hidden # "added")
    BY <1>1, <2>5 DEF AppStates, Discovered
  <2>9. y \in AppStates  BY <2>4, <2>6, <2>8 DEF AppStates
  <2>10. /\ y.running = app[a].runtime /\ y.watchdogs = watchdogs /\ y.hidden = hidden
         /\ y.word = app[a].word /\ InstallAs(x, y) /\ y.life = x.life /\ y.todo = x.todo
         /\ y.gaveUp = x.gaveUp
         /\ y.open = x.open /\ y.starts = x.starts /\ y.broken = x.broken
    BY <2>4, <2>6 DEF AppStates, InstallAs
  <2>11. Enters(app[a], y, context)  BY <2>4, <2>10 DEF Enters, InstallAs
  <2>12. AppInv(y)
    BY <1>1, <1>4, <2>2, <2>5, <2>8, <2>9, <2>10, <2>11, EnterOwnerInv, Zenon
  <2>13. AppsInv(app')  BY <1>1, <2>7, <2>9, <2>12 DEF IInv, AppsInv
  <2>14. KeepsStarts(app')  BY <1>1, <2>7, <2>11 DEF KeepsStarts, Enters
  <2>15. QED BY <1>2, <2>13, <2>14 DEF Kept
<1>5. QED BY <1>3, <1>4
LEMMA EnterRaisesKept == ASSUME IInv, NEW a \in Apps, EnterRaises(a) PROVE Kept
<1>1. app \in [Apps -> AppStates] /\ app[a] \in AppStates /\ AppInv(app[a])  BY ConfigFacts
<1>2. PICK life \in {"down", "stopping"} : life = IF app[a].open = <<>> THEN "down" ELSE "stopping"
  OBVIOUS
<1>3. PICK y : y = [app[a] EXCEPT !.life = life, !.running = TRUE, !.broken = TRUE, !.todo = <<>>]
  OBVIOUS
<1>4. app' = [app EXCEPT ![a] = y] /\ process' = [process EXCEPT !.limiter = TRUE]
  BY <1>1, <1>2, <1>3 DEF EnterRaises
<1>5. y \in AppStates
  <2>1. <<>> \in Seq(Kinds)  OBVIOUS
  <2>2. QED BY <1>1, <1>3, <2>1 DEF AppStates
<1>6. /\ InstallAs(app[a], y) /\ y.running /\ y.broken /\ y.life = life /\ y.todo = <<>>
      /\ y.open = app[a].open /\ y.starts = app[a].starts /\ y.hidden = app[a].hidden
      /\ y.watchdogs = app[a].watchdogs
  BY <1>1, <1>3 DEF AppStates, InstallAs
<1>7. app[a].life = "starting" /\ ~app[a].running  BY DEF EnterRaises
<1>8. AppInv(y)  BY <1>1, <1>2, <1>5, <1>6, <1>7, EnterRaisesInv, Zenon
<1>9. AppsInv(app')  BY <1>1, <1>4, <1>5, <1>8 DEF IInv, AppsInv
<1>10. KeepsStarts(app')  BY <1>1, <1>4, <1>6 DEF KeepsStarts
<1>11. QED BY <1>4, <1>9, <1>10, LimiterInv DEF Kept, IInv

\* The fields that change when a context is left.
LEMMA LeftFacts ==
  ASSUME IInv, NEW a \in Apps, NEW kind, Leaving(a, kind), NEW new, new = Left(a, app),
         NEW y, y = new[a]
  PROVE  /\ new = [app EXCEPT ![a] = y] /\ y \in AppStates /\ Leaves(app[a], y)
         /\ y.running = app[a].running /\ y.watchdogs = app[a].watchdogs
         /\ y.word = app[a].word /\ Last(app[a].open).kind = kind
<1>1. app \in [Apps -> AppStates] /\ app[a] \in AppStates /\ AppInv(app[a])  BY ConfigFacts
<1>2. /\ app[a].open \in Seq(Contexts) /\ app[a].open # <<>>
      /\ app[a].life = "stopping" /\ Last(app[a].open).kind = kind
  BY <1>1 DEF AppStates, Leaving
<1>3. PICK open : open = Front(app[a].open) /\ open \in Seq(Contexts)
  BY <1>2, FrontFacts
<1>4. PICK life \in {"down", "stopping"} : life = IF Len(app[a].open) = 1 THEN "down" ELSE "stopping"
  OBVIOUS
<1>5. PICK x : x = [app[a] EXCEPT !.open = open, !.life = life]  OBVIOUS
<1>6. new = [app EXCEPT ![a] = x]
  BY <1>1, <1>2, <1>3, <1>4, <1>5 DEF Left
<1>7. y = x  BY <1>1, <1>6
<1>8. y \in AppStates  BY ZenonT(40), <1>1, <1>3, <1>5, <1>7 DEF AppStates
<1>9. /\ y.open = open /\ y.life = life /\ y.todo = app[a].todo /\ y.hidden = app[a].hidden
      /\ InstallAs(app[a], y) /\ y.starts = app[a].starts /\ y.broken = app[a].broken
      /\ y.running = app[a].running /\ y.watchdogs = app[a].watchdogs /\ y.word = app[a].word
      /\ y.gaveUp = app[a].gaveUp
  BY <1>1, <1>5, <1>7 DEF AppStates, InstallAs
<1>10. Leaves(app[a], y)  BY <1>2, <1>3, <1>4, <1>9 DEF Leaves
<1>11. QED BY <1>2, <1>6, <1>7, <1>8, <1>9, <1>10

\* Two states of an app that differ in the word.
LEMMA SetWordFacts ==
  ASSUME NEW x \in AppStates, NEW word \in {"none", "queued", "batched", "exported", "local"},
         NEW y, y = [x EXCEPT !.word = word]
  PROVE  /\ y \in AppStates /\ y.word = word /\ InstallAs(x, y) /\ LifeAs(x, y)
  BY DEF AppStates, InstallAs, LifeAs

LEMMA SetWordLeaves ==
  ASSUME NEW w, NEW x, NEW y, Leaves(w, x), InstallAs(x, y), LifeAs(x, y)
  PROVE  Leaves(w, y)
  BY DEF Leaves, InstallAs, LifeAs

\* A flush that gave up.
LEMMA GaveUpFacts ==
  ASSUME NEW x \in AppStates, NEW flush \in {"queue", "batch"},
         NEW y, y = [x EXCEPT !.gaveUp = @ \cup {flush}]
  PROVE  /\ y \in AppStates /\ y.word = x.word /\ flush \in y.gaveUp
         /\ y.running = x.running /\ y.watchdogs = x.watchdogs
         /\ \A w : Leaves(w, x) => Leaves(w, y)
<1>1. PICK gaveUp \in SUBSET {"queue", "batch"} : gaveUp = x.gaveUp \cup {flush}
  BY DEF AppStates
<1>2. y = [x EXCEPT !.gaveUp = gaveUp]  BY <1>1
<1>3. y \in AppStates  BY <1>2 DEF AppStates
<1>4. /\ InstallAs(x, y) /\ y.gaveUp = gaveUp /\ y.word = x.word /\ y.starts = x.starts
      /\ y.broken = x.broken /\ y.todo = x.todo /\ y.hidden = x.hidden /\ y.life = x.life
      /\ y.open = x.open /\ y.running = x.running /\ y.watchdogs = x.watchdogs
  BY <1>2 DEF AppStates, InstallAs
<1>5. QED BY <1>1, <1>3, <1>4 DEF Leaves, InstallAs

LEMMA DeliveredType ==
  ASSUME NEW word \in {"none", "queued", "batched", "exported", "local"}, NEW outputs
  PROVE  Delivered(word, outputs) \in {"none", "queued", "batched", "exported", "local"}
  BY DEF Delivered

LEMMA LeaveUserKept == ASSUME IInv, NEW a \in Apps, LeaveUser(a) PROVE Kept
<1>1. app \in [Apps -> AppStates] /\ app[a] \in AppStates /\ AppInv(app[a])  BY ConfigFacts
<1>2. PICK x : x = Left(a, app)[a]  OBVIOUS
<1>3. /\ Left(a, app) = [app EXCEPT ![a] = x] /\ x \in AppStates /\ Leaves(app[a], x)
      /\ x.running = app[a].running /\ x.watchdogs = app[a].watchdogs
      /\ Last(app[a].open).kind = "user"
  BY <1>2, LeftFacts DEF LeaveUser
<1>4. PICK word \in {"local", "queued"} :
        word = IF process.attached THEN "queued" ELSE "local"
  OBVIOUS
<1>5. PICK y : y = [x EXCEPT !.word = word]  OBVIOUS
<1>6. app' = [app EXCEPT ![a] = y] /\ process' = process
  BY <1>1, <1>3, <1>4, <1>5 DEF LeaveUser
<1>7. y \in AppStates /\ y.word = word /\ InstallAs(x, y) /\ LifeAs(x, y)
  BY <1>3, <1>4, <1>5, SetWordFacts
<1>8. Leaves(app[a], y) /\ y.running = app[a].running /\ y.watchdogs = app[a].watchdogs
  BY <1>3, <1>7, SetWordLeaves DEF LifeAs
<1>9. ~Last(app[a].open).owner
  BY <1>1, <1>3, LeavesFacts DEF Contexts
<1>10. AppInv(y)
  <2>1. \/ y.word = app[a].word /\ Last(app[a].open).kind # "logs"
        \/ y.word \in {"queued", "local"} /\ Last(app[a].open).kind = "user"
        \/ y.word = IF app[a].word = "batched" THEN "exported" ELSE app[a].word
    BY <1>3, <1>4, <1>7
  <2>2. QED BY <1>1, <1>7, <1>8, <1>9, <2>1, LeaveOtherInv, Zenon
<1>11. AppsInv(app')  BY <1>1, <1>6, <1>7, <1>10 DEF IInv, AppsInv
<1>12. KeepsStarts(app')  BY <1>1, <1>6, <1>8 DEF KeepsStarts, Leaves
<1>13. QED BY <1>6, <1>11, <1>12 DEF Kept, IInv

LEMMA LeaveObservabilityKept == ASSUME IInv, NEW a \in Apps, LeaveObservability(a) PROVE Kept
<1>1. app \in [Apps -> AppStates] /\ app[a] \in AppStates /\ AppInv(app[a]) /\ AppsInv(app)
  BY ConfigFacts DEF IInv
<1>2. PICK new, x : new = Left(a, app) /\ x = new[a]  OBVIOUS
<1>3. /\ new = [app EXCEPT ![a] = x] /\ x \in AppStates /\ Leaves(app[a], x)
      /\ x.running = app[a].running /\ x.watchdogs = app[a].watchdogs
      /\ x.word = app[a].word /\ Last(app[a].open).kind = "observability"
  BY <1>2, LeftFacts DEF LeaveObservability
<1>4. CASE ~Last(app[a].open).owner
  <2>1. app' = new  BY <1>2, <1>4 DEF LeaveObservability
  <2>2. AppInv(x)  BY <1>1, <1>3, <1>4, LeaveOtherInv
  <2>3. AppsInv(app')  BY <1>1, <1>3, <2>1, <2>2 DEF AppsInv
  <2>4. KeepsStarts(app')  BY <1>1, <1>3, <2>1 DEF KeepsStarts, Leaves
  <2>5. QED BY <2>3, <2>4 DEF Kept, IInv, LeaveObservability
<1>5. CASE Last(app[a].open).owner
  <2>1. PICK y : y = [x EXCEPT !.running = FALSE, !.watchdogs = 0]  OBVIOUS
  <2>2. PICK left : left = [app EXCEPT ![a] = y]  OBVIOUS
  <2>3. app' \in Teardown(a, left)
    <3>1. left = [new EXCEPT ![a].running = FALSE, ![a].watchdogs = 0]
      BY <1>1, <1>3, <2>1, <2>2
    <3>2. QED BY <1>2, <1>5, <3>1 DEF LeaveObservability
  <2>4. /\ y \in AppStates /\ Leaves(app[a], y) /\ ~y.running /\ y.watchdogs = 0
        /\ y.word = app[a].word
    BY <1>3, <2>1 DEF AppStates, Leaves, InstallAs
  <2>5. CASE app[a].runtime /\ ~app[a].config.configure
    <3>1. app' = left  BY <2>3, <2>5 DEF Teardown
    <3>2. AppInv(y)  BY <1>1, <1>3, <1>5, <2>4, <2>5, LeaveOwnerInv
    <3>3. AppsInv(app')  BY <1>1, <2>2, <2>4, <3>1, <3>2 DEF AppsInv
    <3>4. KeepsStarts(app')  BY <1>1, <2>2, <2>4, <3>1 DEF KeepsStarts, Leaves
    <3>5. QED BY <3>3, <3>4 DEF Kept, IInv, LeaveObservability
  <2>6. CASE /\ ~(app[a].runtime /\ ~app[a].config.configure)
             /\ app' = DeliverAll(left)
    <3>1. PICK word : word = Delivered(app[a].word, process.outputs)  OBVIOUS
    <3>2. word \in {"none", "queued", "batched", "exported", "local"}
      BY <1>1, <3>1, DeliveredType DEF AppStates
    <3>3. PICK z : z = [y EXCEPT !.word = word]  OBVIOUS
    <3>4. z \in AppStates /\ z.word = word /\ InstallAs(y, z) /\ LifeAs(y, z)
      BY <2>4, <3>2, <3>3, SetWordFacts
    <3>5. Leaves(app[a], z) /\ ~z.running /\ z.watchdogs = 0
      BY <2>4, <3>4, SetWordLeaves DEF LifeAs
    <3>6. AppInv(z)
      <4>1. z.word = IF app[a].runtime /\ ~app[a].config.configure THEN app[a].word
                     ELSE Delivered(app[a].word, process.outputs)
        BY <2>6, <3>1, <3>4
      <4>2. QED BY <1>1, <1>3, <1>5, <3>4, <3>5, <4>1, LeaveOwnerInv
    <3>7. PICK told : told = DeliverAll(app) /\ AppsInv(told)
                      /\ \A b \in Apps : told[b].starts = app[b].starts
      BY <1>1, DeliverAllInv
    <3>8. app' = [told EXCEPT ![a] = z]
      BY <1>1, <2>2, <2>4, <2>6, <3>1, <3>3, <3>7 DEF DeliverAll
    <3>9. AppsInv(app')  BY <3>4, <3>6, <3>7, <3>8 DEF AppsInv
    <3>10. KeepsStarts(app')  BY <3>5, <3>7, <3>8 DEF KeepsStarts, Leaves, AppsInv
    <3>11. QED BY <3>9, <3>10 DEF Kept, IInv, LeaveObservability
  <2>7. CASE app' = [left EXCEPT ![a].gaveUp = @ \cup {"queue"}]
    <3>1. PICK z : z = [y EXCEPT !.gaveUp = @ \cup {"queue"}]  OBVIOUS
    <3>2. /\ z \in AppStates /\ z.word = app[a].word /\ "queue" \in z.gaveUp
          /\ ~z.running /\ z.watchdogs = 0 /\ Leaves(app[a], z)
      BY <2>4, <3>1, GaveUpFacts
    <3>3. app' = [app EXCEPT ![a] = z]  BY <1>1, <2>2, <2>7, <3>1
    <3>4. AppInv(z)  BY <1>1, <1>3, <1>5, <3>2, LeaveOwnerInv
    <3>5. AppsInv(app')  BY <1>1, <3>2, <3>3, <3>4 DEF AppsInv
    <3>6. KeepsStarts(app')  BY <1>1, <3>2, <3>3 DEF KeepsStarts, Leaves
    <3>7. QED BY <3>5, <3>6 DEF Kept, IInv, LeaveObservability
  <2>8. QED BY <2>3, <2>5, <2>6, <2>7 DEF Teardown, Flush
<1>6. QED BY <1>4, <1>5

LEMMA LeaveHookKept == ASSUME IInv, NEW a \in Apps, LeaveHook(a) PROVE Kept
<1>1. app \in [Apps -> AppStates] /\ app[a] \in AppStates /\ AppInv(app[a]) /\ AppsInv(app)
  BY ConfigFacts DEF IInv
<1>2. PICK signal \in {"logs", "traces", "meters"} :
        /\ Leaving(a, signal)
        /\ app' \in IF signal # "logs" THEN {Left(a, app)}
                    ELSE Flush(a, Left(a, app), ExportAll(Left(a, app)), "batch")
  BY DEF LeaveHook
<1>3. PICK new, x : new = Left(a, app) /\ x = new[a]  OBVIOUS
<1>4. /\ new = [app EXCEPT ![a] = x] /\ x \in AppStates /\ Leaves(app[a], x)
      /\ x.running = app[a].running /\ x.watchdogs = app[a].watchdogs
      /\ x.word = app[a].word /\ Last(app[a].open).kind = signal
  BY <1>2, <1>3, LeftFacts
<1>5. ~Last(app[a].open).owner  BY <1>1, <1>2, <1>4, LeavesFacts DEF Contexts
<1>6. CASE signal # "logs"
  <2>1. app' = new  BY <1>2, <1>3, <1>6
  <2>2. AppInv(x)  BY <1>1, <1>4, <1>5, <1>6, LeaveOtherInv
  <2>3. AppsInv(app')  BY <1>1, <1>4, <2>1, <2>2 DEF AppsInv
  <2>4. KeepsStarts(app')  BY <1>1, <1>4, <2>1 DEF KeepsStarts, Leaves
  <2>5. QED BY <2>3, <2>4 DEF Kept, IInv, LeaveHook
<1>7. CASE signal = "logs" /\ app' = ExportAll(new)
  <2>1. PICK word : word = IF x.word = "batched" THEN "exported" ELSE x.word  OBVIOUS
  <2>2. word \in {"none", "queued", "batched", "exported", "local"}
    BY <1>4, <2>1 DEF AppStates
  <2>3. PICK z : z = [x EXCEPT !.word = word]  OBVIOUS
  <2>4. z \in AppStates /\ z.word = word /\ InstallAs(x, z) /\ LifeAs(x, z)
    BY <1>4, <2>2, <2>3, SetWordFacts
  <2>5. Leaves(app[a], z) /\ z.running = app[a].running /\ z.watchdogs = app[a].watchdogs
    BY <1>4, <2>4, SetWordLeaves DEF LifeAs
  <2>6. AppInv(z)
    <3>1. z.word = IF app[a].word = "batched" THEN "exported" ELSE app[a].word
      BY <1>4, <2>1, <2>4
    <3>2. QED BY <1>1, <1>5, <2>4, <2>5, <3>1, LeaveOtherInv
  <2>7. PICK told : told = ExportAll(app) /\ AppsInv(told)
                    /\ \A b \in Apps : told[b].starts = app[b].starts
    BY <1>1, ExportAllInv
  <2>8. app' = [told EXCEPT ![a] = z]
    BY <1>1, <1>4, <1>7, <2>1, <2>3, <2>7 DEF ExportAll
  <2>9. AppsInv(app')  BY <2>4, <2>6, <2>7, <2>8 DEF AppsInv
  <2>10. KeepsStarts(app')  BY <2>5, <2>7, <2>8 DEF KeepsStarts, Leaves, AppsInv
  <2>11. QED BY <2>9, <2>10 DEF Kept, IInv, LeaveHook
<1>8. CASE signal = "logs" /\ app' = [new EXCEPT ![a].gaveUp = @ \cup {"batch"}]
  <2>1. PICK z : z = [x EXCEPT !.gaveUp = @ \cup {"batch"}]  OBVIOUS
  <2>2. /\ z \in AppStates /\ z.word = app[a].word /\ z.gaveUp # {}
        /\ z.running = app[a].running /\ z.watchdogs = app[a].watchdogs /\ Leaves(app[a], z)
    BY <1>4, <2>1, GaveUpFacts
  <2>3. app' = [app EXCEPT ![a] = z]  BY <1>1, <1>4, <1>8, <2>1
  <2>4. AppInv(z)  BY <1>1, <1>4, <1>5, <1>8, <2>2, LeaveOtherInv
  <2>5. AppsInv(app')  BY <1>1, <2>2, <2>3, <2>4 DEF AppsInv
  <2>6. KeepsStarts(app')  BY <1>1, <2>2, <2>3 DEF KeepsStarts, Leaves
  <2>7. QED BY <2>5, <2>6 DEF Kept, IInv, LeaveHook
<1>9. QED BY <1>2, <1>3, <1>6, <1>7, <1>8 DEF Flush

LEMMA ThreadsKept == ASSUME IInv, Listener \/ Exporter PROVE Kept
<1>1. CASE Listener
  BY <1>1, DeliverAllInv DEF Listener, Kept, IInv, KeepsStarts
<1>2. CASE Exporter
  BY <1>2, ExportAllInv DEF Exporter, Kept, IInv, KeepsStarts
<1>3. QED BY <1>1, <1>2

LEMMA NextIInv == IInv /\ [Next]_vars => IInv'
<1> SUFFICES ASSUME IInv, [Next]_vars PROVE IInv'
  OBVIOUS
<1>1. ASSUME NEW a \in Apps, Install(a) PROVE IInv'
  <2>1. Kept
    BY <1>1, BeginKept, LoggingKept, MetricsKept, TracingKept, DatabaseKept, MetersKept,
       MiddlewareKept DEF Install
  <2>2. QED BY <2>1, KeptSuffices
<1>2. ASSUME NEW a \in Apps, Lifespan(a) PROVE IInv'
  <2>1. CASE Start(a)  BY <2>1, StartIInv
  <2>2. CASE ~Start(a)
    <3>1. Kept
      BY <1>2, <2>2, AddHiddenRouteKept, EnterOtherKept, EnterObservabilityKept,
         EnterRaisesKept, StopKept, LeaveUserKept, LeaveObservabilityKept, LeaveHookKept
         DEF Lifespan
    <3>2. QED BY <3>1, KeptSuffices
  <2>3. QED BY <2>1, <2>2
<1>3. CASE Uninstrument  BY <1>3, UninstrumentKept, KeptSuffices
<1>4. CASE Listener \/ Exporter  BY <1>4, ThreadsKept, KeptSuffices
<1>5. CASE UNCHANGED vars
  BY <1>5 DEF vars, IInv, StartsInv
<1>6. QED BY <1>1, <1>2, <1>3, <1>4, <1>5 DEF Next

LEMMA SpecIInv == Spec => []IInv
  BY InitIInv, NextIInv, PTL DEF Spec
-----------------------------------------------------------------------------
(* What every install touches exists once, however many apps are installed, *)
(* and whichever installs raised: OTLP's processors, the call totals, the   *)
(* queue's collector and the request ID's propagator; and while SQLAlchemy  *)
(* is instrumented, every engine that any install has seen is traced.       *)
THEOREM SharedPartsExistOnce == Spec => []SharedOnce
<1>1. IInv => SharedOnce
  BY DEF IInv, AppsInv, ProcessInv, ProcessStates, SharedOnce, TypeOK
<1>2. QED BY <1>1, SpecIInv, PTL

LEMMA AppIInv ==
  ASSUME IInv, NEW a \in Apps
  PROVE  /\ app[a] \in AppStates /\ AppInv(app[a])
         /\ Len(app[a].open) \in Nat /\ app[a].open \in Seq(Contexts)
         /\ app[a].life = "down" => ~Owns(app[a])
<1>1. app[a] \in AppStates /\ AppInv(app[a])  BY DEF IInv, AppsInv
<1>2. app[a].open \in Seq(Contexts)  BY <1>1 DEF AppStates
<1>3. Len(app[a].open) \in Nat  BY <1>2
<1>4. ASSUME app[a].life = "down" PROVE ~Owns(app[a])
  <2>1. app[a].open = <<>>  BY <1>1, <1>4 DEF AppInv, LifeInv
  <2>2. Len(app[a].open) = 0  BY <2>1
  <2>3. QED BY <2>2 DEF Owns
<1>5. QED BY <1>1, <1>2, <1>3, <1>4

(* However lifespans nest and restart and starts fail, an app has at most   *)
(* one watchdog, none while it is down, and an installed app that is served *)
(* has one unless a start failed inside observability_lifespan().           *)
THEOREM OneWatchdogPerApp == Spec => []OneWatchdog
<1>1. ASSUME IInv PROVE OneWatchdog
  <2>1. SUFFICES ASSUME NEW a \in Apps
                 PROVE  /\ app[a].watchdogs <= 1
                        /\ app[a].life = "down" => app[a].watchdogs = 0
                        /\ app[a].life = "up" /\ app[a].step = "installed" /\ ~app[a].broken =>
                             app[a].watchdogs = 1
    BY DEF OneWatchdog
  <2>2. WatchInv(app[a]) /\ (app[a].life = "down" => ~Owns(app[a]))
    BY <1>1, AppIInv DEF AppInv
  <2>3. QED BY <2>2 DEF WatchInv
<1>2. QED BY <1>1, SpecIInv, PTL

(* When an installed app is down whose logging is the library's, the last   *)
(* record of its own shutdown has left the queue, and with OTLP logs the    *)
(* provider's batch, unless a flush of that shutdown gave up.               *)
THEOREM TheLastWordLeaves == Spec => []LastWordsLeave
<1>1. ASSUME IInv PROVE LastWordsLeave
  <2>1. SUFFICES ASSUME NEW a \in Apps, app[a].life = "down", app[a].step = "installed",
                        ~app[a].broken
                 PROVE  /\ app[a].config.configure /\ "queue" \notin app[a].gaveUp =>
                             app[a].word # "queued"
                        /\ "logs" \in Range(app[a].wrappers) /\ app[a].gaveUp = {} =>
                             app[a].word # "batched"
    BY DEF LastWordsLeave
  <2>2. app[a] \in AppStates /\ AppInv(app[a])  BY <1>1, AppIInv
  <2>3. WordInv(app[a])  BY <2>1, <2>2 DEF AppInv, Promised
  <2>4. "logs" \in Range(app[a].wrappers) => Logs(app[a])
    <3>1. app[a].wrappers \in Seq(Kinds)  BY <2>2 DEF AppStates
    <3>2. QED BY <3>1 DEF Range, Logs
  <2>5. QED BY <2>1, <2>3, <2>4 DEF WordInv
<1>2. QED BY <1>1, SpecIInv, PTL

(* A route hidden while its app is down is excluded from the metrics        *)
(* whenever the app is served again.                                        *)
THEOREM HiddenRoutesAreExcluded == Spec => []HiddenIsExcluded
<1>1. ASSUME IInv PROVE HiddenIsExcluded
  <2>1. SUFFICES ASSUME NEW a \in Apps, Served(a), app[a].step = "installed"
                 PROVE  app[a].hidden # "added"
    BY DEF HiddenIsExcluded
  <2>2. AppInv(app[a]) /\ app[a].open \in Seq(Contexts)  BY <1>1, AppIInv
  <2>3. Owns(app[a])  BY <2>1, <2>2 DEF Served, Owns
  <2>4. QED BY <2>1, <2>2, <2>3 DEF AppInv, HiddenInv
<1>2. QED BY <1>1, SpecIInv, PTL

=============================================================================
