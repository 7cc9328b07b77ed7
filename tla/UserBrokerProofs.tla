-------------------------- MODULE UserBrokerProofs --------------------------
(* UserBroker implements PubSub, for every set of topics and clients.      *)
EXTENDS UserBroker, FiniteSetTheorems, TLAPS

\* What the proof needs of the types.
Types ==
  /\ topics \in [Topics -> (SUBSET Clients) \cup {Absent}]
  /\ joined \in [Topics -> SUBSET Clients]
  /\ maybe \in [Topics -> SUBSET Clients]
  /\ todo \subseteq Clients

UInv == Types /\ Agreement

LEMMA SubscribersType ==
  ASSUME Types, NEW t \in Topics
  PROVE  Subscribers(t) \subseteq Clients
  BY DEF Types, Subscribers

LEMMA InitInv == Init => UInv
  BY DEF Init, UInv, Types, Agreement, Subscribers, Handling

\* Receiving a message.
LEMMA ReceiveInv ==
  ASSUME UInv, Receive
  PROVE  UInv'
<1> USE DEF UInv, Types, Agreement, Recv, Handling, history, publication, walk, Subscribers
<1> PICK c \in Clients :
      \/ RecvOther(c)
      \/ \E t \in Topics : RecvRegister(c, t) \/ RecvSubscribe(c, t)
                             \/ RecvFlush(c, t) \/ RecvPublish(c, t)
  BY DEF Receive
<1>1. CASE RecvOther(c)
  BY <1>1 DEF RecvOther
<1>2. ASSUME NEW t \in Topics, RecvRegister(c, t) PROVE UInv'
  BY <1>2 DEF RecvRegister
<1>3. ASSUME NEW t \in Topics, RecvSubscribe(c, t) PROVE UInv'
  BY <1>3 DEF RecvSubscribe
<1>4. ASSUME NEW t \in Topics, RecvFlush(c, t) PROVE UInv'
  BY <1>4 DEF RecvFlush
<1>5. ASSUME NEW t \in Topics, RecvPublish(c, t) PROVE UInv'
  BY <1>5, SubscribersType DEF RecvPublish
<1> QED BY <1>1, <1>2, <1>3, <1>4, <1>5

\* Handling it.
LEMMA HandleInv ==
  ASSUME UInv, Handle
  PROVE  UInv'
<1> USE AbsentAssumption DEF UInv, Types, Agreement, Answer, Handling, history,
        publication, walk, message, Subscribers
<1>1. CASE Other
  BY <1>1 DEF Other
<1>2. CASE Register
  BY <1>2 DEF Register, OrInsert
<1>3. CASE Subscribe
  BY <1>3 DEF Subscribe, OrInsert
<1>4. CASE Flush
  BY <1>4 DEF Flush
<1>5. ASSUME NEW s \in Clients, NEW ok \in BOOLEAN, PublishTo(s, ok) PROVE UInv'
  BY <1>5 DEF PublishTo, Rest
<1>6. CASE PublishDone
  BY <1>6 DEF PublishDone
<1> QED BY <1>1, <1>2, <1>3, <1>4, <1>5, <1>6 DEF Handle

LEMMA StepInv == UInv /\ [Next]_vars => UInv'
<1> SUFFICES ASSUME UInv, [Next]_vars PROVE UInv'
  OBVIOUS
<1>1. CASE UNCHANGED vars
  BY <1>1 DEF UInv, Types, Agreement, Handling, Subscribers, vars, history,
     publication, walk, message
<1> QED BY <1>1, ReceiveInv, HandleInv DEF Next

LEMMA UserInvariance == Spec => []UInv
  BY InitInv, StepInv, PTL DEF Spec

\* At every step of handle_message the subscriber sets hold everyone who was
\* acknowledged and nobody who did not ask.
THEOREM MapAgrees == Spec => []Agreement
  BY UserInvariance, PTL DEF UInv

-----------------------------------------------------------------------------
\* No more copies are counted than subscribers are left: why clone_counter grows
\* by at most one for each client.
WalkInv == TypeOK /\ clones + Cardinality(todo) <= Cardinality(Clients)

LEMMA Counting ==
  ASSUME NEW S \in SUBSET Clients
  PROVE  /\ Cardinality(S) \in Nat /\ Cardinality(Clients) \in Nat
         /\ Cardinality(S) <= Cardinality(Clients)
         /\ \A s \in S : Cardinality(S \ {s}) = Cardinality(S) - 1
<1>1. IsFiniteSet(S) /\ Cardinality(S) <= Cardinality(Clients)
  BY ClientsAssumption, FS_Subset
<1>2. Cardinality(S) \in Nat /\ Cardinality(Clients) \in Nat
  BY <1>1, ClientsAssumption, FS_CardinalityType
<1>3. \A s \in S : Cardinality(S \ {s}) = Cardinality(S) - 1
  BY <1>1, FS_RemoveElement
<1> QED BY <1>1, <1>2, <1>3

LEMMA InitWalk == Init => WalkInv
<1> SUFFICES ASSUME Init PROVE WalkInv
  OBVIOUS
<1>1. Cardinality({}) = 0 /\ Cardinality(Clients) \in Nat
  BY Counting, FS_EmptySet
<1> QED BY <1>1 DEF Init, WalkInv, TypeOK

LEMMA StepWalk == UInv /\ WalkInv /\ [Next]_vars => WalkInv'
<1> SUFFICES ASSUME UInv, WalkInv, [Next]_vars PROVE WalkInv'
  OBVIOUS
<1> USE DEF WalkInv, TypeOK, Arms, Recv, Answer, Handling, history, publication, walk, message
<1>1. CASE UNCHANGED vars
  BY <1>1 DEF vars
<1>2. ASSUME NEW c \in Clients, RecvOther(c) PROVE WalkInv'
  BY <1>2 DEF RecvOther
<1>3. ASSUME NEW c \in Clients, NEW t \in Topics,
             RecvRegister(c, t) \/ RecvSubscribe(c, t) \/ RecvFlush(c, t)
      PROVE  WalkInv'
  BY <1>3 DEF RecvRegister, RecvSubscribe, RecvFlush
<1>4. ASSUME NEW c \in Clients, NEW t \in Topics, RecvPublish(c, t) PROVE WalkInv'
  <2>1. Subscribers(t) \subseteq Clients
    BY SubscribersType DEF UInv
  <2>2. /\ Cardinality(Subscribers(t)) \in Nat /\ Cardinality(Clients) \in Nat
        /\ Cardinality(Subscribers(t)) <= Cardinality(Clients)
    BY <2>1, Counting
  <2> QED BY <1>4, <2>1, <2>2 DEF RecvPublish
<1>5. CASE Other \/ Register \/ Subscribe \/ Flush \/ PublishDone
  <2>1. pc = "handle" /\ arm # "other" => topic \in Topics /\ sender \in Clients
    BY DEF UInv, Agreement
  <2> QED
    BY <1>5, <2>1 DEF Other, Register, Subscribe, Flush, PublishDone, OrInsert, Subscribers
<1>6. ASSUME NEW s \in Clients, NEW ok \in BOOLEAN, PublishTo(s, ok) PROVE WalkInv'
  <2>1. /\ s \in todo /\ todo' = todo \ {s} /\ clones' = clones + 1
    BY <1>6 DEF PublishTo, Rest
  <2>2. /\ Cardinality(todo) \in Nat /\ Cardinality(Clients) \in Nat
        /\ Cardinality(todo \ {s}) = Cardinality(todo) - 1 /\ Cardinality(todo \ {s}) \in Nat
    BY <2>1, Counting
  <2>3. clones' \in 0..Cardinality(Clients) /\ clones' + Cardinality(todo') <= Cardinality(Clients)
    BY <2>1, <2>2
  <2> QED BY <1>6, <2>1, <2>3 DEF PublishTo
<1> QED BY <1>1, <1>2, <1>3, <1>4, <1>5, <1>6 DEF Next, Receive, Handle

\* Types are kept, and a PUBLISH adds at most one per client to clone_counter:
\* handle_message visits nobody twice.
THEOREM UserTypes == Spec => []TypeOK
<1>1. WalkInv => TypeOK
  BY DEF WalkInv
<1> QED BY <1>1, InitWalk, StepWalk, UserInvariance, PTL DEF Spec

-----------------------------------------------------------------------------
LEMMA ServiceInit == Init => Service!Init
  BY DEF Init, Service!Init, Handling

LEMMA ServiceReceive ==
  ASSUME UInv, Receive
  PROVE  Service!Next \/ UNCHANGED Service!vars
<1> USE DEF Recv, Handling, history, publication, walk, Service!vars
<1> PICK c \in Clients :
      \/ RecvOther(c)
      \/ \E t \in Topics : RecvRegister(c, t) \/ RecvSubscribe(c, t)
                             \/ RecvFlush(c, t) \/ RecvPublish(c, t)
  BY DEF Receive
<1>1. CASE RecvOther(c)
  BY <1>1 DEF RecvOther
<1>2. ASSUME NEW t \in Topics, RecvRegister(c, t) PROVE UNCHANGED Service!vars
  BY <1>2 DEF RecvRegister
<1>3. ASSUME NEW t \in Topics, RecvSubscribe(c, t) PROVE Service!Subscribing(c, t)
  BY <1>3 DEF RecvSubscribe, Service!Subscribing, Service!Handled
<1>4. ASSUME NEW t \in Topics, RecvFlush(c, t) PROVE Service!Unsubscribing(t)
  BY <1>4 DEF RecvFlush, Service!Unsubscribing, Service!Handled
<1>5. ASSUME NEW t \in Topics, RecvPublish(c, t) PROVE Service!Publish(Msg, t)
  BY <1>5 DEF RecvPublish, Service!Publish
<1> QED BY <1>1, <1>2, <1>3, <1>4, <1>5 DEF Service!Next

LEMMA ServiceHandle ==
  ASSUME UInv, Handle
  PROVE  Service!Next \/ UNCHANGED Service!vars
<1> USE DEF Answer, Handling, history, publication, walk, message, Service!vars
<1>1. CASE Other
  BY <1>1 DEF Other
<1>2. CASE Register
  BY <1>2 DEF Register
<1>3. CASE Subscribe
  <2>1. topic \in Topics /\ sender \in Clients /\ sender \in maybe[topic]
    BY <1>3 DEF Subscribe, UInv, Agreement
  <2>2. Service!Subscribed(sender, topic)
    BY <1>3, <2>1 DEF Subscribe, Service!Subscribed
  <2> QED BY <2>1, <2>2 DEF Service!Next
<1>4. CASE Flush
  <2>1. topic \in Topics /\ joined[topic] = {}
    BY <1>4 DEF Flush, UInv, Agreement
  <2>2. Service!Unsubscribed(topic)
    BY <1>4, <2>1 DEF Flush, Service!Unsubscribed
  <2> QED BY <2>1, <2>2 DEF Service!Next
<1>5. ASSUME NEW s \in Clients, NEW ok \in BOOLEAN, PublishTo(s, ok)
      PROVE  Service!Deliver(Msg)
  <2>1. {s} \in SUBSET elig /\ {} \in SUBSET elig
    BY <1>5 DEF PublishTo, UInv, Agreement
  <2>2. \E S \in SUBSET elig : got' = got \cup S
    BY <1>5, <2>1 DEF PublishTo
  <2>3. \E S \in SUBSET elig : lost' = lost \cup S
    BY <1>5, <2>1 DEF PublishTo
  <2>4. Service!Send(Msg)
    BY <2>2, <2>3 DEF Service!Send
  <2> QED BY <1>5, <2>4 DEF PublishTo, Service!Deliver
<1>6. CASE PublishDone
  <2>1. owed \subseteq got' \cup lost'
    BY <1>6 DEF PublishDone, UInv, Agreement
  <2>2. {} \in SUBSET elig /\ got' = got \cup {} /\ lost' = lost \cup {}
    BY <1>6 DEF PublishDone
  <2>3. Service!Send(Msg)
    BY <2>2 DEF Service!Send
  <2>4. Service!Deliver(Msg)
    BY <1>6, <2>1, <2>3 DEF PublishDone, Service!Deliver
  <2> QED BY <2>4 DEF Service!Next
<1> QED BY <1>1, <1>2, <1>3, <1>4, <1>5, <1>6 DEF Handle, Service!Next

LEMMA ServiceStep == UInv /\ [Next]_vars => [Service!Next]_(Service!vars)
<1> SUFFICES ASSUME UInv, [Next]_vars
             PROVE  Service!Next \/ UNCHANGED Service!vars
  OBVIOUS
<1>1. CASE UNCHANGED vars
  BY <1>1 DEF vars, history, publication, walk, message, Service!vars, Handling
<1> QED BY <1>1, ServiceReceive, ServiceHandle DEF Next

\* handle_message implements the service that the kernel brokers implement.
THEOREM UserImplements == Spec => RefinesPubSub
  BY ServiceInit, ServiceStep, UserInvariance, PTL
     DEF Spec, RefinesPubSub, Service!Spec

=============================================================================
