------------------------------ MODULE LossyLog ------------------------------
(***************************************************************************)
(* What the log pipeline promises, without threads, locks or a queue: a    *)
(* FIFO log that may lose records, but only before it accepts them or from *)
(* the front of what it holds, and that stops only when it is empty.       *)
(***************************************************************************)
EXTENDS Naturals, Sequences

CONSTANT Records

VARIABLES
  buffer,     \* accepted, not yet taken by the writer
  taken,      \* being written: <<>> or <<record>>
  delivered,  \* written, in order
  lost,       \* dropped, evicted or refused
  phase       \* "open", "closed", "exited" or "died"

vars == <<buffer, taken, delivered, lost, phase>>

Elements(seq) == {seq[i] : i \in 1..Len(seq)}
Seen == Elements(buffer) \cup Elements(taken) \cup Elements(delivered) \cup lost

Init ==
  /\ buffer = <<>> /\ taken = <<>> /\ delivered = <<>>
  /\ lost = {}
  /\ phase = "open"

Accept(r) ==
  /\ r \notin Seen
  /\ phase = "open" \/ phase = "died"
  /\ buffer' = Append(buffer, r)
  /\ UNCHANGED <<taken, delivered, lost, phase>>

Lose(r) ==
  /\ r \notin Seen
  /\ lost' = lost \cup {r}
  /\ UNCHANGED <<buffer, taken, delivered, phase>>

Evict ==
  /\ buffer # <<>>
  /\ lost' = lost \cup {Head(buffer)}
  /\ buffer' = Tail(buffer)
  /\ UNCHANGED <<taken, delivered, phase>>

Take ==
  /\ phase \in {"open", "closed"}
  /\ taken = <<>> /\ buffer # <<>>
  /\ taken' = <<Head(buffer)>>
  /\ buffer' = Tail(buffer)
  /\ UNCHANGED <<delivered, lost, phase>>

Deliver ==
  /\ phase \in {"open", "closed"}
  /\ taken # <<>>
  /\ delivered' = delivered \o taken
  /\ taken' = <<>>
  /\ UNCHANGED <<buffer, lost, phase>>

Close ==
  /\ phase = "open"
  /\ phase' = "closed"
  /\ UNCHANGED <<buffer, taken, delivered, lost>>

Stop ==
  /\ phase = "closed"
  /\ buffer = <<>> /\ taken = <<>>
  /\ phase' = "exited"
  /\ UNCHANGED <<buffer, taken, delivered, lost>>

\* The writer fails on the record in its hand; what it held stays undelivered.
Die ==
  /\ phase \in {"open", "closed"}
  /\ taken # <<>>
  /\ phase' = "died"
  /\ UNCHANGED <<buffer, taken, delivered, lost>>

Next ==
  \/ \E r \in Records : Accept(r) \/ Lose(r)
  \/ Evict \/ Take \/ Deliver \/ Close \/ Stop \/ Die

Spec == Init /\ [][Next]_vars

=============================================================================
