------------------------------- MODULE PubSub -------------------------------
(***************************************************************************)
(* What a broker promises, whatever it keeps in its maps.  A SUBSCRIBE and *)
(* a FLUSH are intervals, not instants: a client may be sent copies from   *)
(* the moment its SUBSCRIBE is received, and must be sent them once it has *)
(* been acknowledged; the other way round for a FLUSH.  A message is owed  *)
(* to the clients that were acknowledged all the time it was handled.      *)
(***************************************************************************)
CONSTANTS Topics, Clients, Packets, Absent

VARIABLES
  joined,  \* topic -> clients that must be sent its messages
  maybe,   \* topic -> clients that may be sent its messages
  open,    \* the messages being handled
  topic,   \* message -> its topic
  owed,    \* message -> clients in joined ever since it arrived
  elig,    \* message -> clients in maybe at some time since then
  got,     \* message -> clients a copy was sent to
  lost     \* message -> clients whose copy failed

vars == <<joined, maybe, open, topic, owed, elig, got, lost>>

Init ==
  /\ joined = [t \in Topics |-> {}]
  /\ maybe = [t \in Topics |-> {}]
  /\ open = {}
  /\ topic = [p \in Packets |-> Absent]
  /\ owed = [p \in Packets |-> {}]
  /\ elig = [p \in Packets |-> {}]
  /\ got = [p \in Packets |-> {}]
  /\ lost = [p \in Packets |-> {}]

Handled(p, t) == p \in open /\ topic[p] = t

\* A SUBSCRIBE of c is received.
Subscribing(c, t) ==
  /\ maybe' = [maybe EXCEPT ![t] = @ \cup {c}]
  /\ elig' = [p \in Packets |-> IF Handled(p, t) THEN elig[p] \cup {c} ELSE elig[p]]
  /\ UNCHANGED <<joined, open, topic, owed, got, lost>>

\* A successful SUBSCRIBE of c is acknowledged.
Subscribed(c, t) ==
  /\ c \in maybe[t]
  /\ joined' = [joined EXCEPT ![t] = @ \cup {c}]
  /\ UNCHANGED <<maybe, open, topic, owed, elig, got, lost>>

\* A FLUSH starts.
Unsubscribing(t) ==
  /\ joined' = [joined EXCEPT ![t] = {}]
  /\ owed' = [p \in Packets |-> IF Handled(p, t) THEN {} ELSE owed[p]]
  /\ UNCHANGED <<maybe, open, topic, elig, got, lost>>

\* A successful FLUSH is complete.
Unsubscribed(t) ==
  /\ joined[t] = {}
  /\ maybe' = [maybe EXCEPT ![t] = {}]
  /\ UNCHANGED <<joined, open, topic, owed, elig, got, lost>>

Publish(p, t) ==
  /\ p \notin open
  /\ open' = open \cup {p}
  /\ topic' = [topic EXCEPT ![p] = t]
  /\ owed' = [owed EXCEPT ![p] = joined[t]]
  /\ elig' = [elig EXCEPT ![p] = maybe[t]]
  /\ got' = [got EXCEPT ![p] = {}]
  /\ lost' = [lost EXCEPT ![p] = {}]
  /\ UNCHANGED <<joined, maybe>>

\* A copy is sent, to one who may have it, or fails; copies for others may fail
\* along with it.
Send(p) ==
  /\ \E S \in SUBSET elig[p] : got' = [got EXCEPT ![p] = @ \cup S]
  /\ \E S \in SUBSET elig[p] : lost' = [lost EXCEPT ![p] = @ \cup S]

\* The message is handled further, and done with only when everyone it is owed
\* to has been dealt with.
Deliver(p) ==
  /\ p \in open
  /\ Send(p)
  /\ \/ UNCHANGED open
     \/ /\ owed[p] \subseteq got'[p] \cup lost'[p]
        /\ open' = open \ {p}
  /\ UNCHANGED <<joined, maybe, topic, owed, elig>>

Next ==
  \/ \E t \in Topics : Unsubscribing(t) \/ Unsubscribed(t)
  \/ \E t \in Topics, c \in Clients : Subscribing(c, t) \/ Subscribed(c, t)
  \/ \E p \in Packets, t \in Topics : Publish(p, t)
  \/ \E p \in Packets : Deliver(p)

Spec == Init /\ [][Next]_vars

=============================================================================
