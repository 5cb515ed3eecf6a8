--------------------------- MODULE ContiguousFeed ---------------------------
(***************************************************************************)
(* What the broadcaster promises for one subject tree: a browser gets, from*)
(* the moment it joins, each message announced after that moment, once and *)
(* in order.  It may stop anywhere, but it never skips one.                *)
(***************************************************************************)
EXTENDS Naturals, Sequences

CONSTANTS Connection

VARIABLES
  announced,   \* how many messages have been announced
  joined,      \* the connections that have joined, also those that left since
  since,       \* what had been announced when a connection joined
  got          \* the messages a connection was sent, by number

vars == <<announced, joined, since, got>>

Init ==
  /\ announced = 0
  /\ joined = {}
  /\ since = [c \in Connection |-> 0]
  /\ got = [c \in Connection |-> <<>>]

Announce ==
  /\ announced' = announced + 1
  /\ UNCHANGED <<joined, since, got>>

Join(c) ==
  /\ c \notin joined
  /\ joined' = joined \cup {c}
  /\ since' = [since EXCEPT ![c] = announced]
  /\ UNCHANGED <<announced, got>>

Deliver(c) ==
  LET next == since[c] + Len(got[c]) + 1 IN
    /\ c \in joined
    /\ next <= announced
    /\ got' = [got EXCEPT ![c] = Append(@, next)]
    /\ UNCHANGED <<announced, joined, since>>

Next == Announce \/ \E c \in Connection : Join(c) \/ Deliver(c)

Spec == Init /\ [][Next]_vars
=============================================================================
