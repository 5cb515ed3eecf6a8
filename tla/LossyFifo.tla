------------------------------ MODULE LossyFifo ------------------------------
(***************************************************************************)
(* What one subject tree of the event path promises to whoever reads the   *)
(* stores: a first-in first-out channel that may drop messages and may be  *)
(* late with some, and never repeats or invents one.                       *)
(*                                                                         *)
(* `log` is the order in which the NATS server took the messages of the    *)
(* subject; `stored` holds the positions of `log` whose envelope reached a *)
(* storage backend, in the order in which it got there; `overdue` those    *)
(* whose write was given up on, so that nothing waits for it.              *)
(***************************************************************************)
EXTENDS Naturals, Sequences

CONSTANT Message

VARIABLES log, stored, overdue

vars == <<log, stored, overdue>>

Arrived == {stored[i] : i \in DOMAIN stored}

\* The channel has not come to position o: it is after all it was busy with.
Ahead(o) == \A p \in Arrived \cup overdue : p < o

Init ==
  /\ log = <<>>
  /\ stored = <<>>
  /\ overdue = {}

Publish(m) ==
  /\ log' = Append(log, m)
  /\ UNCHANGED <<stored, overdue>>

\* A message is stored after those before it in the log were stored, dropped
\* or found overdue: every position between the last one and o is skipped.
Store(o) ==
  /\ Ahead(o)
  /\ stored' = Append(stored, o)
  /\ UNCHANGED <<log, overdue>>

\* The channel stops waiting for a message.
Delay(o) ==
  /\ Ahead(o)
  /\ overdue' = overdue \cup {o}
  /\ UNCHANGED <<log, stored>>

\* An overdue message arrives, once, whatever was stored in between.
Overtaken(o) ==
  /\ o \in overdue \ Arrived
  /\ stored' = Append(stored, o)
  /\ UNCHANGED <<log, overdue>>

Next ==
  \/ \E m \in Message : Publish(m)
  \/ \E o \in 1 .. Len(log) : Store(o) \/ Delay(o) \/ Overtaken(o)

Spec == Init /\ [][Next]_vars
=============================================================================
