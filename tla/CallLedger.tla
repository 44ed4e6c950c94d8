----------------------------- MODULE CallLedger -----------------------------
(***************************************************************************)
(* What the recording of calls promises, without threads, handles, locks   *)
(* or totals: a ledger of accounts.  A call is entered under one account   *)
(* and counted there at most once, while the account is open and in the    *)
(* process that entered calls under it; what an account states of its      *)
(* calls is the truth at that moment, and nothing changes once it is       *)
(* closed.                                                                 *)
(***************************************************************************)
EXTENDS Naturals, FiniteSets

CONSTANTS
  Accounts,
  Sealed,     \* the accounts that are closed as they make their statement
  Calls,
  Announced,  \* the calls that are told of when they begin, not only when they end
  None

VARIABLES
  open,       \* the open accounts
  foreign,    \* the open accounts that have calls of another process
  under,      \* the account each call was entered under, or None
  counted,    \* the calls that were counted
  byHand,     \* the number of calls counted without having been entered
  statement   \* what each account stated, or None

vars == <<open, foreign, under, counted, byHand, statement>>

Under(o) == {c \in Calls : under[c] = o}

Balance(o) ==
  [counted   |-> Cardinality(Under(o) \cap counted) + byHand[o],
   in_flight |-> Cardinality((Under(o) \cap Announced) \ counted)]

Init ==
  /\ open = Accounts /\ foreign = {}
  /\ under = [c \in Calls |-> None]
  /\ counted = {}
  /\ byHand = [o \in Accounts |-> 0]
  /\ statement = [o \in Accounts |-> None]

Enter(c, o) ==
  /\ under[c] = None /\ o \in open
  /\ under' = [under EXCEPT ![c] = o]
  /\ UNCHANGED <<open, foreign, counted, byHand, statement>>

Count(c) ==
  /\ c \notin counted /\ under[c] \in open \ foreign
  /\ counted' = counted \cup {c}
  /\ UNCHANGED <<open, foreign, under, byHand, statement>>

CountByHand(o) ==
  /\ o \in open
  /\ byHand' = [byHand EXCEPT ![o] = @ + 1]
  /\ UNCHANGED <<open, foreign, under, counted, statement>>

States(o) == statement[o] = None /\ statement' = [statement EXCEPT ![o] = Balance(o)]
Closes(o) == o \in open /\ open' = open \ {o} /\ foreign' = foreign \ {o}

State(o) ==
  /\ o \in open \ Sealed
  /\ States(o)
  /\ UNCHANGED <<open, foreign, under, counted, byHand>>

StateAndClose(o) ==
  /\ o \in Sealed
  /\ States(o) /\ Closes(o)
  /\ UNCHANGED <<under, counted, byHand>>

\* Without a statement, or after it.
Close(o) ==
  /\ Closes(o)
  /\ UNCHANGED <<under, counted, byHand, statement>>

\* We follow the child.
Fork ==
  /\ foreign' = {o \in open : Under(o) # {}}
  /\ UNCHANGED <<open, under, counted, byHand, statement>>

Next ==
  \/ \E c \in Calls : Count(c) \/ \E o \in Accounts : Enter(c, o)
  \/ \E o \in Accounts : CountByHand(o) \/ State(o) \/ StateAndClose(o) \/ Close(o)
  \/ Fork

Spec == Init /\ [][Next]_vars

=============================================================================
