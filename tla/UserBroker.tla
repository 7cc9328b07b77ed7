----------------------------- MODULE UserBroker -----------------------------
(***************************************************************************)
(* mqttsn-udp-sr: the broker in user space.  One thread receives datagrams *)
(* and handles each with handle_message before it receives the next, so    *)
(* the guards of the DashMap are never contended.  All state is in memory: *)
(* a restarted broker begins in Init.                                      *)
(***************************************************************************)
EXTENDS Naturals, FiniteSets

CONSTANTS
  Topics,    \* topic names
  Clients,   \* socket addresses of subscribers and publishers
  Msg,       \* the name of the message being published
  Absent     \* no such topic, no topic given

ASSUME AbsentAssumption ==
  /\ Absent \notin Topics \cup Clients
  /\ \A S \in SUBSET Clients : Absent # S

ASSUME ClientsAssumption == IsFiniteSet(Clients)

VARIABLES
  topics,   \* topic -> its SubscriberSet, Absent when there is no entry
  pc,       \* "recv" in recv_from, "handle" in handle_message
  arm,      \* the arm of the match for the last message
  topic,    \* its topic
  sender,   \* the client it came from
  reply,    \* the answer sent to it
  todo,     \* subscribers still to be sent the message
  got,      \* those a copy was sent to
  lost,     \* those for whom send_to failed
  clones,   \* what the message added to clone_counter
  joined,   \* history: topic -> clients whose SUBSCRIBE was acknowledged
  maybe,    \* history: topic -> clients whose SUBSCRIBE was received
  published, \* history: the topic of the last PUBLISH
  owed,     \* history: the clients in joined when it was received
  elig      \* history: the clients in maybe then

message == <<pc, arm, topic, sender, reply>>
walk == <<todo, got, lost, clones>>
publication == <<published, owed, elig>>
history == <<joined, maybe, publication>>
vars == <<topics, message, walk, history>>

Arms == {"register", "subscribe", "publish", "flush", "other"}

Subscribers(t) == IF topics[t] = Absent THEN {} ELSE topics[t]

Init ==
  /\ topics = [t \in Topics |-> Absent]
  /\ pc = "recv"
  /\ arm = "none"
  /\ topic = Absent
  /\ sender = Absent
  /\ reply = "none"
  /\ todo = {} /\ got = {} /\ lost = {} /\ clones = 0
  /\ joined = [t \in Topics |-> {}]
  /\ maybe = [t \in Topics |-> {}]
  /\ published = Absent /\ owed = {} /\ elig = {}

-----------------------------------------------------------------------------
\* The words of a message select an arm.
Recv(c, t, a) ==
  /\ pc = "recv"
  /\ pc' = "handle"
  /\ arm' = a
  /\ topic' = t
  /\ sender' = c
  /\ reply' = "none"

Handling(a) == pc = "handle" /\ arm = a

\* The answer, if there is one, and back to recv_from.
Answer(r) ==
  /\ pc' = "recv"
  /\ reply' = r
  /\ UNCHANGED <<arm, topic, sender>>

\* A first word that is none of the four commands, or a command without the words
\* it needs: nothing changes and nothing is answered.
RecvOther(c) ==
  /\ Recv(c, Absent, "other")
  /\ UNCHANGED <<topics, walk, history>>

Other ==
  /\ Handling("other")
  /\ Answer("none")
  /\ UNCHANGED <<topics, walk, history>>

RecvRegister(c, t) ==
  /\ Recv(c, t, "register")
  /\ UNCHANGED <<topics, walk, history>>

\* entry(topic).or_insert(HashSet::new()) keeps what is there.
OrInsert_Overwrite(t) == {}
OrInsert(t) == Subscribers(t)

Register ==
  /\ Handling("register")
  /\ topics' = [topics EXCEPT ![topic] = OrInsert(topic)]
  /\ Answer("REGACK")
  /\ UNCHANGED <<walk, history>>

RecvSubscribe(c, t) ==
  /\ Recv(c, t, "subscribe")
  /\ maybe' = [maybe EXCEPT ![t] = @ \cup {c}]
  /\ UNCHANGED <<topics, walk, joined, publication>>

Subscribe ==
  /\ Handling("subscribe")
  /\ topics' = [topics EXCEPT ![topic] = OrInsert(topic) \cup {sender}]
  /\ Answer("SUBACK")
  /\ joined' = [joined EXCEPT ![topic] = @ \cup {sender}]
  /\ UNCHANGED <<walk, maybe, publication>>

RecvFlush(c, t) ==
  /\ Recv(c, t, "flush")
  /\ joined' = [joined EXCEPT ![t] = {}]
  /\ UNCHANGED <<topics, walk, maybe, publication>>

\* subs.clear() of an existing topic, whose entry stays.
Flush ==
  /\ Handling("flush")
  /\ topics' = [topics EXCEPT ![topic] = IF @ = Absent THEN Absent ELSE {}]
  /\ Answer("FLUSHED")
  /\ maybe' = [maybe EXCEPT ![topic] = {}]
  /\ UNCHANGED <<walk, joined, publication>>

\* topics.get(topic): the walk is over the set it returns.
RecvPublish(c, t) ==
  /\ Recv(c, t, "publish")
  /\ todo' = Subscribers(t)
  /\ got' = {} /\ lost' = {} /\ clones' = 0
  /\ published' = t /\ owed' = joined[t] /\ elig' = maybe[t]
  /\ UNCHANGED <<topics, joined, maybe>>

\* A failing send_to (the socket does not block) costs one subscriber its copy,
\* and clone_counter is incremented all the same.
Rest_Same(s, ok) == todo
Rest_Break(s, ok) == IF ok THEN todo \ {s} ELSE {}
Rest(s, ok) == todo \ {s}

PublishTo(s, ok) ==
  /\ Handling("publish")
  /\ s \in todo
  /\ todo' = Rest(s, ok)
  /\ got' = IF ok THEN got \cup {s} ELSE got
  /\ lost' = IF ok THEN lost ELSE lost \cup {s}
  /\ clones' = clones + 1
  /\ UNCHANGED <<topics, message, history>>

PublishDone ==
  /\ Handling("publish")
  /\ todo = {}
  /\ Answer("none")
  /\ UNCHANGED <<topics, walk, history>>

-----------------------------------------------------------------------------
Receive ==
  \E c \in Clients :
    \/ RecvOther(c)
    \/ \E t \in Topics : RecvRegister(c, t) \/ RecvSubscribe(c, t)
                           \/ RecvFlush(c, t) \/ RecvPublish(c, t)

Handle ==
  \/ Other \/ Register \/ Subscribe \/ Flush
  \/ \E s \in Clients, ok \in BOOLEAN : PublishTo(s, ok)
  \/ PublishDone

Next == Receive \/ Handle

Spec == Init /\ [][Next]_vars

-----------------------------------------------------------------------------
TypeOK ==
  /\ topics \in [Topics -> (SUBSET Clients) \cup {Absent}]
  /\ pc \in {"recv", "handle"}
  /\ arm \in Arms \cup {"none"}
  /\ topic \in Topics \cup {Absent}
  /\ sender \in Clients \cup {Absent}
  /\ reply \in {"none", "REGACK", "SUBACK", "FLUSHED"}
  /\ todo \subseteq Clients
  /\ got \subseteq Clients
  /\ lost \subseteq Clients
  /\ clones \in 0..Cardinality(Clients)
  /\ joined \in [Topics -> SUBSET Clients]
  /\ maybe \in [Topics -> SUBSET Clients]
  /\ published \in Topics \cup {Absent}
  /\ owed \subseteq Clients
  /\ elig \subseteq Clients

\* The map agrees with what clients were told: a topic's set holds everyone who
\* was acknowledged and only clients who asked, at every step of handle_message,
\* and the walk still has to visit, or has dealt with, everyone owed a copy.
Agreement ==
  /\ \A t \in Topics : joined[t] \subseteq Subscribers(t) /\ Subscribers(t) \subseteq maybe[t]
  /\ pc = "handle" /\ arm # "other" => topic \in Topics /\ sender \in Clients
  /\ Handling("subscribe") => sender \in maybe[topic]
  /\ Handling("flush") => joined[topic] = {}
  /\ Handling("publish") => owed \subseteq got \cup lost \cup todo /\ todo \subseteq elig

\* In terms of PubSub there is one message at a time.
Service == INSTANCE PubSub WITH
  Packets <- {Msg},
  open <- IF Handling("publish") THEN {Msg} ELSE {},
  topic <- [p \in {Msg} |-> published],
  owed <- [p \in {Msg} |-> owed],
  elig <- [p \in {Msg} |-> elig],
  got <- [p \in {Msg} |-> got],
  lost <- [p \in {Msg} |-> lost]

\* The user-space broker keeps the same promise as the kernel brokers: a PUBLISH
\* reaches every acknowledged subscriber or fails for that one only, reaches
\* nobody else, and a FLUSH ends what it says it ends (handle_message).
RefinesPubSub == Service!Spec

=============================================================================
