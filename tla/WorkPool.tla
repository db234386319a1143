------------------------------- MODULE WorkPool -------------------------------
(***************************************************************************)
(* What the scheduler promises, without its mutex, channels or workers: a   *)
(* pool that is open or closed, a FIFO of pending calls, a bounded set of   *)
(* active ones, the callers who left, and one outcome per call.             *)
(* Scheduler.tla is shown to implement it.                                  *)
(***************************************************************************)
EXTENDS Naturals, Sequences, FiniteSets, SequencesExt

CONSTANTS Calls,       \* the calls of Do
          Width,       \* how many calls may be active at once
          Depth,       \* how many calls may be pending at once
          Reports,     \* what an active call may end with by itself
          Unset        \* the outcome of a call that has none yet

VARIABLES open, pending, active, gone, outcome

poolVars == <<open, pending, active, gone, outcome>>

PoolInit ==
  /\ open = TRUE
  /\ pending = <<>>
  /\ active = {}
  /\ gone = {}
  /\ outcome = [c \in Calls |-> Unset]

New(c) == outcome[c] = Unset /\ c \notin ToSet(pending) /\ c \notin active

\* A closed pool answers "shuttingDown" and nothing else, an open one never; an
\* open pool answers "canceled" to a caller who left and to nobody else.
Honest(c, o) ==
  /\ open <=> o # "shuttingDown"
  /\ open => (c \in gone <=> o = "canceled")

\* The caller leaves: from then on no other answer of an open pool reaches it.
Left(c) ==
  /\ c \notin gone
  /\ gone' = gone \cup {c}
  /\ UNCHANGED <<open, pending, active, outcome>>

\* A call that is turned away is never active.
Refused(c, o) ==
  /\ New(c)
  /\ Honest(c, o)
  /\ o \in {"shuttingDown", "canceled", "queueTimeout", "queueFull"}
  /\ outcome' = [outcome EXCEPT ![c] = o]
  /\ UNCHANGED <<open, pending, active, gone>>

Accepted(c) ==
  /\ New(c)
  /\ open
  /\ Len(pending) < Depth
  /\ pending' = Append(pending, c)
  /\ UNCHANGED <<open, active, gone, outcome>>

\* First in, first out: only the oldest pending call becomes active.
Activated ==
  /\ pending # <<>>
  /\ Cardinality(active) < Width
  /\ active' = active \cup {Head(pending)}
  /\ pending' = Tail(pending)
  /\ UNCHANGED <<open, gone, outcome>>

\* A pending call whose caller or deadline is gone leaves from anywhere in
\* the queue, and the others keep their order.
Abandoned(c, o) ==
  /\ o \in {"canceled", "queueTimeout"}
  /\ Honest(c, o)
  /\ \E i \in DOMAIN pending : pending[i] = c /\ pending' = RemoveAt(pending, i)
  /\ outcome' = [outcome EXCEPT ![c] = o]
  /\ UNCHANGED <<open, active, gone>>

\* An active call ends: with its own report while the pool is open and its
\* caller there, with "canceled" or "shuttingDown" after that.
Ended(c, o) ==
  /\ c \in active
  /\ o \in Reports \cup {"canceled", "shuttingDown"}
  /\ Honest(c, o)
  /\ active' = active \ {c}
  /\ outcome' = [outcome EXCEPT ![c] = o]
  /\ UNCHANGED <<open, pending, gone>>

\* Closing ends everything pending in the same step.
Closed ==
  /\ open
  /\ open' = FALSE
  /\ pending' = <<>>
  /\ outcome' = [c \in Calls |-> IF c \in ToSet(pending) THEN "shuttingDown" ELSE outcome[c]]
  /\ UNCHANGED <<active, gone>>

Outcomes == Reports \cup {"shuttingDown", "canceled", "queueTimeout", "queueFull"}

PoolNext ==
  \/ \E c \in Calls, o \in Outcomes : Refused(c, o) \/ Abandoned(c, o) \/ Ended(c, o)
  \/ \E c \in Calls : Accepted(c) \/ Left(c)
  \/ Activated
  \/ Closed

PoolSpec == PoolInit /\ [][PoolNext]_poolVars

=============================================================================
