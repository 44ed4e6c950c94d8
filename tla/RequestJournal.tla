--------------------------- MODULE RequestJournal ---------------------------
(***************************************************************************)
(* What the log of a request promises, without threads, a deque or ASGI.   *)
(* An entry is told at once, or waits while it is not known to be told,    *)
(* with room for Limit.  When the request is judged, what waits is told,   *)
(* or what is no detail of it, or none of it; then the request's own line  *)
(* is told if its normal entries are; what still waits is lost.            *)
(***************************************************************************)
EXTENDS Naturals, Sequences, FiniteSets

CONSTANTS
  Limit,
  Detail, Normal, Loud  \* the levels of entries

VARIABLES
  entries,  \* the levels of the entries; an entry is its index
  waiting,
  told,     \* an entry that neither waits nor was told is lost
  stance,   \* whether normal entries are told: "unknown", "in" or "out"
  line,     \* the request's own line: "none", "told" or "lost"
  phase     \* "open", "judged" or "closed"

vars == <<entries, waiting, told, stance, line, phase>>

Waiting(level) == {r \in waiting : entries[r] = level}

Init ==
  /\ entries = <<>> /\ waiting = {} /\ told = {}
  /\ stance \in {"unknown", "in"}
  /\ line = "none" /\ phase = "open"

Enter(level) ==
  /\ phase = "open"
  /\ entries' = Append(entries, level)
  /\ IF level = Loud \/ (level = Normal /\ stance = "in")
     THEN told' = told \cup {Len(entries')} /\ UNCHANGED waiting
     ELSE waiting' = waiting \cup {Len(entries')} /\ UNCHANGED told
  /\ UNCHANGED <<stance, line, phase>>

\* A stance is taken once, for all normal entries.
Takes(choice) == stance \in {"unknown", choice} /\ stance' = choice

Settle(r, choice) ==
  /\ phase = "open" /\ r \in Waiting(Normal)
  /\ Takes(choice)
  /\ IF choice = "in" THEN told' = told \cup {r} /\ waiting' = waiting \ {r}
     ELSE UNCHANGED <<told, waiting>>
  /\ UNCHANGED <<entries, line, phase>>

Lose(r) ==
  /\ phase = "open" /\ r \in waiting /\ Cardinality(waiting) > Limit
  /\ waiting' = waiting \ {r}
  /\ UNCHANGED <<entries, told, stance, line, phase>>

\* By now nobody is about to tell a normal entry.
Judge ==
  /\ phase = "open" /\ phase' = "judged"
  /\ Cardinality(waiting) <= Limit
  /\ stance = "in" => Waiting(Normal) = {}
  /\ \/ UNCHANGED <<waiting, told, stance>>
     \/ /\ told' \in {told \cup waiting, told \cup Waiting(Normal)}
        /\ waiting' = {} /\ stance' = "in"
  /\ UNCHANGED <<entries, line>>

\* A loud line is told whatever the stance.
Sign ==
  /\ phase = "judged" /\ line = "none"
  /\ \/ line' = "told" /\ UNCHANGED stance
     \/ Takes("in") /\ Waiting(Normal) = {} /\ line' = "told"
     \/ Takes("out") /\ line' = "lost"
  /\ UNCHANGED <<entries, waiting, told, phase>>

Close ==
  /\ phase = "judged" /\ line # "none"
  /\ phase' = "closed" /\ waiting' = {}
  /\ UNCHANGED <<entries, told, stance, line>>

Next ==
  \/ \E level \in {Detail, Normal, Loud} : Enter(level)
  \/ \E r \in waiting : Lose(r) \/ \E choice \in {"in", "out"} : Settle(r, choice)
  \/ Judge \/ Sign \/ Close

Spec == Init /\ [][Next]_vars

=============================================================================
