-------------------------- MODULE HashBrokerProofs --------------------------
(***************************************************************************)
(* IInv is an invariant of HashBroker, for every set of topics, clients    *)
(* and packets and every size of the maps, and the safety properties       *)
(* follow from it.                                                         *)
(***************************************************************************)
EXTENDS HashBrokerInv, FiniteSetTheorems, TLAPS

USE AbsentAssumption, BoundsAssumption

\* A count below its bound does not wrap.
LEMMA NextCountSum ==
  ASSUME NEW n \in Nat, n < MaxCount
  PROVE  NextCount(n) = n + 1
BY DEF NextCount

\* The records that daemon can be.
DaemonType ==
  [pc : DaemonPcs, topic : Topics \cup {Absent}, client : Clients \cup {Absent}, ret : {0, -1}]

\* Inside a request, only the place of the daemon and what it returns change.
LEMMA DaemonMoves ==
  ASSUME TypeOK, (\E l \in DaemonPcs : Goto(l)) \/ GiveUp
  PROVE  daemon' \in DaemonType /\ daemon'.topic = daemon.topic
<1>1. daemon \in DaemonType
  BY DEF TypeOK, DaemonType
<1>2. ASSUME NEW l \in DaemonPcs, Goto(l)
      PROVE  daemon' \in DaemonType /\ daemon'.topic = daemon.topic
  BY <1>1, <1>2 DEF Goto, DaemonType
<1>3. CASE GiveUp
  BY <1>1, <1>3 DEF GiveUp, DaemonType, DaemonPcs
<1> QED BY <1>2, <1>3

\* How the steps of add_subscriber and flush_topic move the daemon.
LEMMA SubMoves ==
  ASSUME TypeOK, SubInner \/ SubCnt \/ SubFirst \/ FlushCnt
  PROVE  daemon' \in DaemonType /\ daemon'.topic = daemon.topic /\ daemon.pc # "recv"
<1>1. {"sub_cnt", "sub_first", "suback", "flush_first"} \subseteq DaemonPcs
  BY DEF DaemonPcs
<1>2. (\E l \in DaemonPcs : Goto(l)) \/ GiveUp
  <2>1. CASE SubInner
    BY <1>1, <2>1 DEF SubInner
  <2>2. CASE SubCnt
    BY <1>1, <2>2 DEF SubCnt
  <2>3. CASE SubFirst
    BY <1>1, <2>3 DEF SubFirst
  <2>4. CASE FlushCnt
    BY <1>1, <2>4 DEF FlushCnt
  <2> QED BY <2>1, <2>2, <2>3, <2>4
<1>3. daemon.pc # "recv"
  BY DEF SubInner, SubCnt, SubFirst, FlushCnt, At
<1> QED BY <1>2, <1>3, DaemonMoves

\* Every step of the daemon keeps the types.
LEMMA TypeDaemon ==
  ASSUME IInv,
         (\E t \in Topics : Request(t)) \/ DaemonStep \/ DaemonCrash
  PROVE  TypeOK'
<1>0. TypeOK
  BY DEF IInv
<1> USE DEF IInv, TypeOK, DaemonInv, At, Idle, Goto, GiveUp, DaemonPcs, SubPcs,
            WritingPcs, maps, packet, members, promise
<1>1. ASSUME NEW t \in Topics, Register(t) PROVE TypeOK'
  BY <1>1 DEF Register
<1>2. ASSUME NEW t \in Topics, NEW c \in Clients, RecvSubscribe(c, t) PROVE TypeOK'
  BY <1>2 DEF RecvSubscribe, Overlap, MayAdd
<1>3. ASSUME NEW t \in Topics, RecvFlush(t) PROVE TypeOK'
  BY <1>3 DEF RecvFlush, Overlap
<1>4. CASE SubInner
  <2>1. topic_subscribe' \in [Topics -> (SUBSET Clients) \cup {Absent}]
    BY <1>4 DEF SubInner, Inner, Known
  <2>2. daemon' \in [pc : DaemonPcs, topic : Topics \cup {Absent},
                    client : Clients \cup {Absent}, ret : {0, -1}]
    BY <1>4, <1>0, SubMoves DEF DaemonType
  <2> QED BY <1>4, <2>1, <2>2 DEF SubInner
<1>5. CASE SubCnt
  <2>1. NextCount(CountOf(daemon.topic)) \in 0..MaxCount
    BY <1>5, NextCountSum DEF SubCnt, CountOf
  <2>2. topic_sub_cnt' \in [Topics -> (0..MaxCount) \cup {Absent}]
    BY <1>5, <2>1 DEF SubCnt, IsFirst
  <2>3. daemon' \in [pc : DaemonPcs, topic : Topics \cup {Absent},
                    client : Clients \cup {Absent}, ret : {0, -1}]
    BY <1>0, <1>5, SubMoves DEF DaemonType
  <2> QED BY <1>5, <2>2, <2>3 DEF SubCnt, IsFirst
<1>6. CASE SubFirst
  <2>1. topic_first_sub' \in [Topics -> Clients \cup {Absent}]
    BY <1>6 DEF SubFirst
  <2>2. daemon' \in [pc : DaemonPcs, topic : Topics \cup {Absent},
                    client : Clients \cup {Absent}, ret : {0, -1}]
    BY <1>0, <1>6, SubMoves DEF DaemonType
  <2> QED BY <1>6, <2>1, <2>2 DEF SubFirst
<1>7. CASE SubAck
  BY <1>7 DEF SubAck
<1>8. CASE FlushKey
  BY <1>8 DEF FlushKey, RemoveKey, Inner, Known
<1>9. CASE FlushCnt
  BY <1>9 DEF FlushCnt
<1>10. CASE FlushFirst
  BY <1>10 DEF FlushFirst, NoFirst
<1>11. CASE Flushed
  BY <1>11 DEF Flushed
<1>12. CASE DaemonCrash
  BY <1>12 DEF DaemonCrash
<1> QED
  BY <1>1, <1>2, <1>3, <1>4, <1>5, <1>6, <1>7, <1>8, <1>9, <1>10, <1>11, <1>12, Zenon
     DEF Request, DaemonStep

\* The programs (and the arrival of a packet) write nothing the daemon owns.
LEMMA PacketFrame ==
  ASSUME NEW p \in Packets,
         PacketStep(p) \/ \E t \in Topics : Arrive(p, t)
  PROVE  UNCHANGED <<topic_subscribe, topic_sub_cnt, topic_first_sub, daemon,
                     joined, maybe, torn>>
BY DEF PacketStep, Arrive, XdpBroker, XdpFirst, TcIngress, TcFail, TcCallback,
       TcDone, Shared, maps, members

\* Every step of a packet keeps the types.
LEMMA TypePacket ==
  ASSUME IInv, NEW p \in Packets,
         PacketStep(p) \/ \E t \in Topics : Arrive(p, t)
  PROVE  TypeOK'
<1> USE DEF IInv, TypeOK, LivePcs, Verdicts, Live, Move, Count, Shared,
            maps, members, promise
<1>1. ASSUME NEW t \in Topics, Arrive(p, t) PROVE TypeOK'
  BY <1>1 DEF Arrive
<1>2. CASE XdpBroker(p)
  BY <1>2 DEF XdpBroker, PacketInv
<1>3. CASE XdpFirst(p)
  BY <1>3 DEF XdpFirst, PacketInv
<1>4. CASE TcIngress(p)
  BY <1>4 DEF TcIngress, PacketInv, Inner, Known
<1>5. CASE TcFail(p)
  BY <1>5 DEF TcFail, PacketInv, Inner, Known
<1>6. ASSUME NEW c \in Clients, TcCallback(p, c) PROVE TypeOK'
  BY <1>6 DEF TcCallback, Visited
<1>7. CASE TcDone(p)
  BY <1>7 DEF TcDone
<1> QED
  BY <1>1, <1>2, <1>3, <1>4, <1>5, <1>6, <1>7 DEF PacketStep

\* Room in the outer map is room in the two maps whose keys are among its keys.
LEMMA RoomForKnown ==
  ASSUME TypeOK, KeysInv, NEW t \in Topics, Known(t)
  PROVE  Fits(topic_sub_cnt, t) /\ Fits(topic_first_sub, t)
<1>1. ASSUME NEW m, Keys(m) \subseteq Keys(topic_subscribe)
      PROVE  Fits(m, t)
  <2>1. t \in Keys(topic_subscribe)
    BY DEF Known, Keys
  <2>2. CASE t \notin Keys(m)
    <3>1. /\ IsFiniteSet(Keys(topic_subscribe) \ {t})
          /\ Cardinality(Keys(topic_subscribe) \ {t})
               = Cardinality(Keys(topic_subscribe)) - 1
      BY <2>1, FS_RemoveElement DEF KeysInv
    <3>2. Cardinality(Keys(m)) <= Cardinality(Keys(topic_subscribe) \ {t})
      BY <1>1, <2>2, <3>1, FS_Subset
    <3>3. /\ Cardinality(Keys(topic_subscribe)) \in Nat
          /\ Cardinality(Keys(m)) \in Nat
      BY <1>1, FS_CardinalityType, FS_Subset DEF KeysInv
    <3> QED BY <3>1, <3>2, <3>3 DEF KeysInv, Fits
  <2> QED BY <2>2 DEF Fits
<1> QED BY <1>1 DEF KeysInv

\* No step of the daemon runs out of room in a topic map.
LEMMA KeysDaemon ==
  ASSUME IInv,
         (\E t \in Topics : Request(t)) \/ DaemonStep \/ DaemonCrash
  PROVE  KeysInv'
<1> USE DEF IInv, TypeOK, DaemonInv, WritingPcs, At, maps
<1>1. ASSUME UNCHANGED topic_subscribe,
             Keys(topic_sub_cnt)' \subseteq Keys(topic_subscribe),
             Keys(topic_first_sub)' \subseteq Keys(topic_subscribe)
      PROVE  KeysInv'
  BY <1>1 DEF KeysInv, Keys
<1>2. ASSUME NEW t \in Topics, NEW S \in SUBSET Clients, Known(t),
             topic_subscribe' = [topic_subscribe EXCEPT ![t] = S],
             UNCHANGED <<topic_sub_cnt, topic_first_sub>>
      PROVE  KeysInv'
  <2>1. Keys(topic_subscribe)' = Keys(topic_subscribe)
    BY <1>2 DEF Keys, Known
  <2> QED BY <1>2, <2>1 DEF KeysInv, Keys
<1>3. ASSUME NEW t \in Topics, Register(t) PROVE KeysInv'
  <2>1. CASE Fits(topic_subscribe, t)
    <3>1. t \notin Keys(topic_subscribe)
      BY <1>3 DEF Register, Known, Keys
    <3>2. Keys(topic_subscribe)' = Keys(topic_subscribe) \cup {t}
      <4>1. topic_subscribe' = [topic_subscribe EXCEPT ![t] = {}]
        BY <1>3, <2>1 DEF Register
      <4>2. {} # Absent
        OBVIOUS
      <4> QED BY <4>1, <4>2 DEF Keys
    <3>3. /\ IsFiniteSet(Keys(topic_subscribe) \cup {t})
          /\ Cardinality(Keys(topic_subscribe) \cup {t})
               = Cardinality(Keys(topic_subscribe)) + 1
      <4>1. IsFiniteSet(Keys(topic_subscribe))
        BY DEF KeysInv
      <4> HIDE DEF IInv, TypeOK, DaemonInv
      <4> QED BY <3>1, <4>1, FS_AddElement
    <3>4. Cardinality(Keys(topic_subscribe)) < MAX_TOPIC_ID
      BY <2>1, <3>1 DEF Fits
    <3>5. Cardinality(Keys(topic_subscribe)) \in Nat
      BY FS_CardinalityType DEF KeysInv
    <3>6. /\ Keys(topic_sub_cnt)' = Keys(topic_sub_cnt)
          /\ Keys(topic_first_sub)' = Keys(topic_first_sub)
      BY <1>3 DEF Register, Keys
    <3> QED BY <3>2, <3>3, <3>4, <3>5, <3>6 DEF KeysInv
  <2>2. CASE ~Fits(topic_subscribe, t)
    <3>1. topic_subscribe' = topic_subscribe
      BY <1>3, <2>2 DEF Register
    <3> QED BY <1>1, <1>3, <3>1 DEF Register, KeysInv, Keys
  <2> QED BY <2>1, <2>2
<1>4. CASE SubInner
  <2>1. CASE UNCHANGED topic_subscribe
    BY <1>1, <1>4, <2>1 DEF SubInner, KeysInv, Keys
  <2>2. CASE topic_subscribe' = [topic_subscribe EXCEPT
               ![daemon.topic] = Inner(daemon.topic) \cup {daemon.client}]
    <3>1. Inner(daemon.topic) \cup {daemon.client} \in SUBSET Clients
      BY <1>4 DEF SubInner, Inner, Known, SubPcs
    <3>2. Known(daemon.topic) /\ daemon.topic \in Topics
      BY <1>4 DEF SubInner
    <3>3. UNCHANGED <<topic_sub_cnt, topic_first_sub>>
      BY <1>4 DEF SubInner
    <3> HIDE DEF IInv, TypeOK, DaemonInv, At
    <3> QED BY <1>2, <2>2, <3>1, <3>2, <3>3
  <2> QED BY <1>4, <2>1, <2>2 DEF SubInner
<1>5. CASE SubCnt
  <2>1. Keys(topic_sub_cnt)' \subseteq Keys(topic_sub_cnt) \cup {daemon.topic}
    BY <1>5 DEF SubCnt, Keys
  <2> QED BY <1>1, <1>5, <2>1 DEF SubCnt, KeysInv, Keys, Known
<1>6. CASE SubFirst
  <2>1. Keys(topic_first_sub)' \subseteq Keys(topic_first_sub) \cup {daemon.topic}
    BY <1>6 DEF SubFirst, Keys
  <2> QED BY <1>1, <1>6, <2>1 DEF SubFirst, KeysInv, Keys, Known
<1>7. CASE FlushKey
  <2>1. PICK c \in Inner(daemon.topic) :
          topic_subscribe' = [topic_subscribe EXCEPT
                               ![daemon.topic] = RemoveKey(Inner(daemon.topic), c)]
    BY <1>7 DEF FlushKey
  <2>2. RemoveKey(Inner(daemon.topic), c) \in SUBSET Clients
    BY <1>7 DEF FlushKey, RemoveKey, Inner, Known
  <2> QED BY <1>2, <1>7, <2>1, <2>2 DEF FlushKey
<1>8. CASE FlushCnt
  <2>1. Keys(topic_sub_cnt)' \subseteq Keys(topic_sub_cnt) \cup {daemon.topic}
    BY <1>8 DEF FlushCnt, Keys
  <2> QED BY <1>1, <1>8, <2>1 DEF FlushCnt, KeysInv, Keys, Known
<1>9. CASE FlushFirst
  <2>1. Keys(topic_first_sub)' \subseteq Keys(topic_first_sub)
    BY <1>9 DEF FlushFirst, NoFirst, Keys
  <2> QED BY <1>1, <1>9, <2>1 DEF FlushFirst, KeysInv, Keys
<1>10. CASE \/ \E t \in Topics : RecvFlush(t)
            \/ \E t \in Topics, c \in Clients : RecvSubscribe(c, t)
            \/ SubAck \/ Flushed \/ DaemonCrash
  BY <1>1, <1>10 DEF RecvFlush, RecvSubscribe, SubAck, Flushed, DaemonCrash, KeysInv, Keys
<1> QED
  BY <1>3, <1>4, <1>5, <1>6, <1>7, <1>8, <1>9, <1>10 DEF Request, DaemonStep

\* Every step of the daemon leaves behind what its next step relies on.
LEMMA DaemonDaemon ==
  ASSUME IInv,
         (\E t \in Topics : Request(t)) \/ DaemonStep \/ DaemonCrash
  PROVE  DaemonInv'
<1> USE DEF TypeOK, DaemonInv, SubPcs, WritingPcs, DaemonPcs, At, Goto, GiveUp,
            Idle, Inner, Known, CountOf, maps, members
<1> USE DEF IInv
<1>1. ASSUME NEW t \in Topics, Register(t) PROVE DaemonInv'
  BY <1>1 DEF Register
<1>2. ASSUME NEW t \in Topics, NEW c \in Clients, RecvSubscribe(c, t) PROVE DaemonInv'
  BY <1>2 DEF RecvSubscribe, MayAdd
<1>3. ASSUME NEW t \in Topics, RecvFlush(t) PROVE DaemonInv'
  BY <1>3 DEF RecvFlush, TopicInv, KeysInv, Keys
<1>4. CASE SubInner
  <2>1. CASE GiveUp
    BY <1>4, <2>1 DEF SubInner
  <2>2. CASE Goto("sub_cnt") /\ topic_subscribe' = [topic_subscribe EXCEPT
               ![daemon.topic] = Inner(daemon.topic) \cup {daemon.client}]
    BY <1>4, <2>2 DEF SubInner
  <2> QED BY <1>4, <2>1, <2>2 DEF SubInner
<1>5. CASE SubCnt
  <2>1. Fits(topic_sub_cnt, daemon.topic)
    BY <1>5, RoomForKnown DEF SubCnt, IsFirst
  <2>2. NextCount(CountOf(daemon.topic)) = CountOf(daemon.topic) + 1
    BY <1>5, NextCountSum DEF SubCnt, IsFirst
  <2>3. topic_sub_cnt' = [topic_sub_cnt EXCEPT ![daemon.topic] = CountOf(daemon.topic) + 1]
    BY <1>5, <2>1, <2>2 DEF SubCnt, IsFirst
  <2>4. CASE CountOf(daemon.topic) = 0 /\ Goto("sub_first")
    BY <1>5, <2>3, <2>4 DEF SubCnt, IsFirst, TopicInv
  <2>5. CASE CountOf(daemon.topic) # 0 /\ Goto("suback")
    BY <1>5, <2>3, <2>5 DEF SubCnt, IsFirst
  <2>6. \/ CountOf(daemon.topic) = 0 /\ Goto("sub_first")
        \/ CountOf(daemon.topic) # 0 /\ Goto("suback")
    <3>1. Goto(IF IsFirst(NextCount(CountOf(daemon.topic))) THEN "sub_first" ELSE "suback")
      BY <1>5, <2>1 DEF SubCnt
    <3>2. IsFirst(NextCount(CountOf(daemon.topic))) <=> CountOf(daemon.topic) = 0
      <4>1. CountOf(daemon.topic) \in Nat
        BY <1>5 DEF SubCnt
      <4> QED BY <2>2, <4>1 DEF IsFirst
    <3> QED BY <3>1, <3>2
  <2> QED BY <2>4, <2>5, <2>6
<1>6. CASE SubFirst
  <2>1. Fits(topic_first_sub, daemon.topic)
    BY <1>6, RoomForKnown DEF SubFirst
  <2>2. /\ topic_first_sub' = [topic_first_sub EXCEPT ![daemon.topic] = daemon.client]
        /\ Goto("suback")
    BY <1>6, <2>1 DEF SubFirst
  <2> QED BY <1>6, <2>2 DEF SubFirst
<1>7. CASE SubAck \/ Flushed \/ DaemonCrash
  BY <1>7 DEF SubAck, Flushed, DaemonCrash
<1>8. CASE FlushKey
  BY <1>8 DEF FlushKey, RemoveKey
<1>9. CASE FlushCnt
  BY <1>9, RoomForKnown DEF FlushCnt
<1>10. CASE FlushFirst
  BY <1>10 DEF FlushFirst, NoFirst
<1> QED
  BY <1>1, <1>2, <1>3, <1>4, <1>5, <1>6, <1>7, <1>8, <1>9, <1>10
     DEF Request, DaemonStep

\* Every step of the daemon keeps the maps of a topic in step with its members.
LEMMA TopicDaemon ==
  ASSUME IInv,
         (\E t \in Topics : Request(t)) \/ DaemonStep \/ DaemonCrash
  PROVE  TopicInv'
<1> USE DEF IInv, TypeOK, DaemonInv, TopicInv, SubPcs, WritingPcs, At,
            Inner, Known, CountOf, maps, members
<1>1. ASSUME NEW t \in Topics, Register(t) PROVE TopicInv'
  BY <1>1 DEF Register
<1>2. ASSUME NEW t \in Topics, NEW c \in Clients, RecvSubscribe(c, t) PROVE TopicInv'
  BY <1>2 DEF RecvSubscribe
<1>3. ASSUME NEW t \in Topics, RecvFlush(t) PROVE TopicInv'
  BY <1>3 DEF RecvFlush
<1>4. CASE SubInner
  BY <1>4 DEF SubInner
<1>5. CASE SubCnt
  <2>1. daemon.topic \in Topics /\ CountOf(daemon.topic) \in Nat
        /\ NextCount(CountOf(daemon.topic)) = CountOf(daemon.topic) + 1
    BY <1>5, NextCountSum DEF SubCnt
  <2>2. /\ UNCHANGED <<topic_subscribe, topic_first_sub, joined, maybe>>
        /\ \/ topic_sub_cnt' = topic_sub_cnt
           \/ topic_sub_cnt' = [topic_sub_cnt EXCEPT ![daemon.topic] = CountOf(daemon.topic) + 1]
    BY <1>5, <2>1 DEF SubCnt
  <2>3. ASSUME NEW t \in Topics
        PROVE  \/ CountOf(t)' = CountOf(t)
               \/ t = daemon.topic /\ CountOf(t)' = CountOf(t) + 1
    BY <2>1, <2>2
  <2>4. CountOf(daemon.topic) = 0 => joined[daemon.topic] = {}
    BY <2>1
  <2>5. ASSUME NEW t \in Topics
        PROVE  /\ (CountOf(t) = 0 => joined[t] = {})'
               /\ (CountOf(t) = 1 => joined[t] \subseteq {topic_first_sub[t]})'
    <3>1. CASE CountOf(t)' = CountOf(t)
      BY <2>2, <3>1
    <3>2. CASE t = daemon.topic /\ CountOf(t)' = CountOf(t) + 1
      <4>1. CountOf(t) \in Nat /\ CountOf(t)' # 0 /\ (CountOf(t)' = 1 => CountOf(t) = 0)
        BY <2>1, <3>2
      <4> QED BY <2>2, <2>4, <3>2, <4>1
    <3> QED BY <2>3, <3>1, <3>2
  <2> QED BY <2>2, <2>5
<1>6. CASE SubFirst
  BY <1>6 DEF SubFirst
<1>7. CASE SubAck
  BY <1>7 DEF SubAck
<1>8. CASE FlushKey
  BY <1>8 DEF FlushKey, RemoveKey
<1>9. CASE FlushCnt
  BY <1>9 DEF FlushCnt
<1>10. CASE FlushFirst
  BY <1>10 DEF FlushFirst, NoFirst
<1>11. CASE Flushed
  BY <1>11 DEF Flushed
<1>12. CASE DaemonCrash
  BY <1>12 DEF DaemonCrash
<1> QED
  BY <1>1, <1>2, <1>3, <1>4, <1>5, <1>6, <1>7, <1>8, <1>9, <1>10, <1>11, <1>12
     DEF Request, DaemonStep

\* Every step of the daemon keeps the promises made to the packets in flight.
LEMMA PacketDaemon ==
  ASSUME IInv,
         (\E t \in Topics : Request(t)) \/ DaemonStep \/ DaemonCrash
  PROVE  PacketInv'
<1> USE DEF IInv, TypeOK, DaemonInv, TopicInv, PacketInv, SubPcs, WritingPcs, At,
            Live, Done, LivePcs, Verdicts, maps, packet, members, promise
<1>1. ASSUME NEW t \in Topics, Register(t) PROVE PacketInv'
  BY <1>1 DEF Register
<1>2. ASSUME NEW t \in Topics, NEW c \in Clients, RecvSubscribe(c, t) PROVE PacketInv'
  BY <1>2 DEF RecvSubscribe, Overlap
<1>3. ASSUME NEW t \in Topics, RecvFlush(t) PROVE PacketInv'
  BY <1>3 DEF RecvFlush, Overlap
<1>4. CASE SubInner \/ SubCnt \/ FlushCnt \/ DaemonCrash
  BY <1>4 DEF SubInner, SubCnt, FlushCnt, DaemonCrash
<1>5. CASE SubFirst
  BY <1>5 DEF SubFirst
<1>6. CASE SubAck
  BY <1>6 DEF SubAck
<1>7. CASE FlushKey
  BY <1>7 DEF FlushKey
<1>8. CASE FlushFirst
  BY <1>8 DEF FlushFirst
<1>9. CASE Flushed
  BY <1>9 DEF Flushed
<1> QED
  BY <1>1, <1>2, <1>3, <1>4, <1>5, <1>6, <1>7, <1>8, <1>9 DEF Request, DaemonStep

\* Every step of a packet keeps the promises made to the packets in flight.
LEMMA PacketPacket ==
  ASSUME IInv, NEW p \in Packets,
         PacketStep(p) \/ \E t \in Topics : Arrive(p, t)
  PROVE  PacketInv'
<1> USE DEF IInv, TypeOK, TopicInv, PacketInv, Inner, Known, CountOf, Live, Done,
            LivePcs, Verdicts, Move, Count, Shared, maps, members, promise
<1>1. ASSUME NEW t \in Topics, Arrive(p, t) PROVE PacketInv'
  BY <1>1 DEF Arrive
<1>2. CASE XdpBroker(p)
  BY <1>2 DEF XdpBroker, FastPath
<1>3. CASE XdpFirst(p)
  BY <1>3 DEF XdpFirst
<1>4. CASE TcIngress(p)
  BY <1>4 DEF TcIngress
<1>5. CASE TcFail(p)
  BY <1>5 DEF TcFail
<1>6. ASSUME NEW c \in Clients, TcCallback(p, c) PROVE PacketInv'
  BY <1>6 DEF TcCallback, Visited
<1>7. CASE TcDone(p)
  BY <1>7 DEF TcDone
<1> QED
  BY <1>1, <1>2, <1>3, <1>4, <1>5, <1>6, <1>7 DEF PacketStep

\* Every step of the daemon keeps the maps of a topic that is not torn exact.
LEMMA ExactDaemon ==
  ASSUME IInv,
         (\E t \in Topics : Request(t)) \/ DaemonStep \/ DaemonCrash
  PROVE  ExactInv'
<1> USE DEF IInv, TypeOK, DaemonInv, TopicInv, ExactInv, Untouched, FirstExact, Busy,
            SubPcs, WritingPcs, At, Goto, GiveUp, Idle, Inner, Known, CountOf,
            maps, members
<1>1. ASSUME NEW t \in Topics, Register(t) PROVE ExactInv'
  BY <1>1 DEF Register
<1>2. ASSUME NEW t \in Topics, NEW c \in Clients, RecvSubscribe(c, t) PROVE ExactInv'
  BY <1>2 DEF RecvSubscribe, MayAdd
<1>3. ASSUME NEW t \in Topics, RecvFlush(t) PROVE ExactInv'
  <2> SUFFICES ASSUME NEW u \in Topics \ torn
               PROVE  /\ Untouched(u)' => (Inner(u) = joined[u] /\ FirstExact(u))'
                      /\ Busy(u)' => ~At("sub_cnt")' /\ ~At("sub_first")' /\ ~At("suback")'
    BY <1>3 DEF RecvFlush
  <2>1. CASE u # t
    BY <1>3, <2>1 DEF RecvFlush
  <2>2. CASE u = t
    BY <1>3, <2>2 DEF RecvFlush
  <2> QED BY <2>1, <2>2
<1>4. CASE SubInner
  <2>1. CASE GiveUp /\ UNCHANGED topic_subscribe
    BY <1>4, <2>1 DEF SubInner
  <2>2. CASE Goto("sub_cnt") /\ topic_subscribe' = [topic_subscribe EXCEPT
               ![daemon.topic] = Inner(daemon.topic) \cup {daemon.client}]
    BY <1>4, <2>2 DEF SubInner
  <2> QED BY <1>4, <2>1, <2>2 DEF SubInner
<1>5. CASE SubCnt
  <2>1. Fits(topic_sub_cnt, daemon.topic)
    BY <1>5, RoomForKnown DEF SubCnt, IsFirst
  <2>2. NextCount(CountOf(daemon.topic)) = CountOf(daemon.topic) + 1
    BY <1>5, NextCountSum DEF SubCnt, IsFirst
  <2>3. topic_sub_cnt' = [topic_sub_cnt EXCEPT ![daemon.topic] = CountOf(daemon.topic) + 1]
    BY <1>5, <2>1, <2>2 DEF SubCnt, IsFirst
  <2>4. Goto("sub_first") \/ Goto("suback")
    BY <1>5, <2>1 DEF SubCnt, IsFirst
  <2> QED BY <1>5, <2>3, <2>4 DEF SubCnt, IsFirst
<1>6. CASE SubFirst
  <2>1. Fits(topic_first_sub, daemon.topic)
    BY <1>6, RoomForKnown DEF SubFirst
  <2>2. /\ topic_first_sub' = [topic_first_sub EXCEPT ![daemon.topic] = daemon.client]
        /\ Goto("suback")
    BY <1>6, <2>1 DEF SubFirst
  <2> QED BY <1>6, <2>2 DEF SubFirst
<1>7. CASE SubAck
  <2> SUFFICES ASSUME NEW u \in Topics \ torn
               PROVE  (Inner(u) = joined[u] /\ FirstExact(u))'
    BY <1>7 DEF SubAck
  <2>1. CASE u # daemon.topic
    BY <1>7, <2>1 DEF SubAck
  <2>2. CASE u = daemon.topic /\ daemon.ret = 0
    BY <1>7, <2>2 DEF SubAck
  <2>3. CASE u = daemon.topic /\ daemon.ret # 0
    BY <1>7, <2>3 DEF SubAck
  <2> QED BY <2>1, <2>2, <2>3
<1>8. CASE FlushKey
  BY <1>8 DEF FlushKey, RemoveKey
<1>9. CASE FlushCnt
  BY <1>9 DEF FlushCnt
<1>10. CASE FlushFirst
  BY <1>10 DEF FlushFirst, NoFirst
<1>11. CASE Flushed
  <2> SUFFICES ASSUME NEW u \in Topics \ torn'
               PROVE  (Inner(u) = joined[u] /\ FirstExact(u))'
    BY <1>11 DEF Flushed
  <2>1. CASE u # daemon.topic
    BY <1>11, <2>1 DEF Flushed
  <2>2. CASE u = daemon.topic /\ daemon.ret = 0
    <3>1. joined[u] = {} /\ Inner(u) = {} /\ CountOf(u) = 0
      BY <1>11, <2>2 DEF Flushed
    <3>2. UNCHANGED <<joined, topic_subscribe, topic_sub_cnt>>
      BY <1>11 DEF Flushed
    <3>3. joined'[u] = {} /\ Inner(u)' = {} /\ CountOf(u)' = 0
      BY <3>1, <3>2
    <3> HIDE DEF IInv, Inner, CountOf
    <3> QED BY <3>3
  <2>3. CASE u = daemon.topic /\ daemon.ret # 0
    BY <1>11, <2>3 DEF Flushed
  <2> QED BY <2>1, <2>2, <2>3
<1>12. CASE DaemonCrash
  BY <1>12 DEF DaemonCrash
<1> QED
  BY <1>1, <1>2, <1>3, <1>4, <1>5, <1>6, <1>7, <1>8, <1>9, <1>10, <1>11, <1>12, Zenon
     DEF Request, DaemonStep

\* Every step of the daemon leaves a calm packet the maps of its arrival.
LEMMA CalmDaemon ==
  ASSUME IInv,
         (\E t \in Topics : Request(t)) \/ DaemonStep \/ DaemonCrash
  PROVE  CalmInv'
<1>0. TypeOK
  BY DEF IInv
<1> USE DEF IInv, TypeOK, DaemonInv, CalmInv, Busy, SubPcs, WritingPcs, At, Goto,
            GiveUp, Idle, Live, Done, LivePcs, Verdicts, maps, packet, members, promise
<1>1. ASSUME NEW t \in Topics, Register(t) PROVE CalmInv'
  BY <1>1 DEF Register
<1>2. ASSUME NEW t \in Topics, NEW c \in Clients, RecvSubscribe(c, t) PROVE CalmInv'
  BY <1>2 DEF RecvSubscribe, Overlap
<1>3. ASSUME NEW t \in Topics, RecvFlush(t) PROVE CalmInv'
  BY <1>3 DEF RecvFlush, Overlap
<1>4. CASE SubInner \/ SubCnt \/ FlushCnt
  <2>1. daemon'.topic = daemon.topic /\ daemon.pc # "recv"
    BY <1>0, <1>4, SubMoves
  <2>2. UNCHANGED <<topic_first_sub, packet, members, promise>>
    BY <1>4 DEF SubInner, SubCnt, FlushCnt
  <2> QED BY <2>1, <2>2
<1>5. CASE SubFirst
  <2>1. daemon'.topic = daemon.topic /\ daemon.pc # "recv"
    BY <1>0, <1>5, SubMoves
  <2>2. \A t \in Topics : t # daemon.topic => topic_first_sub'[t] = topic_first_sub[t]
    BY <1>5 DEF SubFirst
  <2>3. UNCHANGED <<packet, members, promise>>
    BY <1>5 DEF SubFirst
  <2> QED BY <2>1, <2>2, <2>3 DEF PacketInv
<1>6. CASE SubAck
  BY <1>6 DEF SubAck
<1>7. CASE FlushKey
  BY <1>7 DEF FlushKey
<1>8. CASE FlushFirst
  BY <1>8 DEF FlushFirst
<1>9. CASE Flushed
  BY <1>9 DEF Flushed
<1>10. CASE DaemonCrash
  BY <1>10 DEF DaemonCrash
<1> QED
  BY <1>1, <1>2, <1>3, <1>4, <1>5, <1>6, <1>7, <1>8, <1>9, <1>10 DEF Request, DaemonStep

\* Every step of a calm packet serves the subscribers it is owed to and no other.
LEMMA CalmPacket ==
  ASSUME IInv, NEW p \in Packets,
         PacketStep(p) \/ \E t \in Topics : Arrive(p, t)
  PROVE  CalmInv'
<1> USE DEF IInv, TypeOK, TopicInv, PacketInv, ExactInv, CalmInv, Untouched, FirstExact,
            Busy, At, Inner, Known, CountOf, Live, Done, LivePcs, Verdicts, Move, Count,
            Shared, maps, members, promise
<1>1. ASSUME NEW t \in Topics, Arrive(p, t) PROVE CalmInv'
  BY <1>1 DEF Arrive
<1>2. CASE XdpBroker(p)
  BY <1>2 DEF XdpBroker, FastPath
<1>3. CASE XdpFirst(p)
  BY <1>3 DEF XdpFirst
<1>4. CASE TcIngress(p)
  BY <1>4 DEF TcIngress
<1>5. CASE TcFail(p)
  BY <1>5 DEF TcFail
<1>6. ASSUME NEW c \in Clients, TcCallback(p, c) PROVE CalmInv'
  BY <1>6 DEF TcCallback, Visited
<1>7. CASE TcDone(p)
  BY <1>7 DEF TcDone
<1> QED
  BY <1>1, <1>2, <1>3, <1>4, <1>5, <1>6, <1>7 DEF PacketStep

\* The invariant holds when the maps have just been loaded.
LEMMA InitInv == Init => IInv
<1> SUFFICES ASSUME Init PROVE IInv
  OBVIOUS
<1> USE DEF Init, Idle
<1>1. TypeOK
  BY DEF TypeOK, DaemonPcs, LivePcs, Verdicts
<1>2. KeysInv
  <2>1. /\ Keys(topic_subscribe) = {}
        /\ Keys(topic_sub_cnt) = {}
        /\ Keys(topic_first_sub) = {}
    BY DEF Keys
  <2>2. IsFiniteSet({}) /\ Cardinality({}) = 0
    BY FS_EmptySet
  <2> HIDE DEF Init
  <2> QED BY <2>1, <2>2 DEF KeysInv
<1>3. DaemonInv
  BY DEF DaemonInv, SubPcs, WritingPcs, At
<1>4. TopicInv /\ ExactInv
  BY DEF TopicInv, ExactInv, FirstExact, Untouched, Busy, Inner, Known, CountOf, At
<1>5. PacketInv /\ CalmInv
  BY DEF PacketInv, CalmInv, Live, Done, LivePcs, Verdicts
<1> QED
  BY <1>1, <1>2, <1>3, <1>4, <1>5 DEF IInv

\* Every step keeps the invariant, also one that changes nothing.
LEMMA StepInv == IInv /\ [Next]_vars => IInv'
<1> SUFFICES ASSUME IInv, [Next]_vars PROVE IInv'
  OBVIOUS
<1>1. CASE (\E t \in Topics : Request(t)) \/ DaemonStep \/ DaemonCrash
  BY <1>1, TypeDaemon, KeysDaemon, DaemonDaemon, TopicDaemon, PacketDaemon, ExactDaemon,
     CalmDaemon DEF IInv
<1>2. ASSUME NEW p \in Packets, PacketStep(p) \/ \E t \in Topics : Arrive(p, t)
      PROVE  IInv'
  <2>1. UNCHANGED <<topic_subscribe, topic_sub_cnt, topic_first_sub, daemon,
                    joined, maybe, torn>>
    BY <1>2, PacketFrame
  <2>2. KeysInv'
    BY <2>1 DEF IInv, KeysInv, Keys
  <2>3. DaemonInv'
    BY <2>1 DEF IInv, DaemonInv, At, Known, Inner, CountOf
  <2>4. TopicInv'
    BY <2>1 DEF IInv, TopicInv, Known, Inner, CountOf
  <2>5. ExactInv'
    BY <2>1 DEF IInv, ExactInv, FirstExact, Untouched, Busy, At, Known, Inner, CountOf
  <2> QED
    BY <1>2, <2>2, <2>3, <2>4, <2>5, TypePacket, PacketPacket, CalmPacket DEF IInv
<1>3. CASE UNCHANGED vars
  <2>1. UNCHANGED <<maps, daemon, packet, members, promise>>
    BY <1>3 DEF vars
  <2> QED
    BY <2>1 DEF IInv, TypeOK, KeysInv, DaemonInv, TopicInv, PacketInv, ExactInv, CalmInv,
       FirstExact, Untouched, Busy, At, Known, Inner, CountOf, Keys, Live, Done,
       maps, packet, members, promise
<1> QED
  BY <1>1, <1>2, <1>3 DEF Next

\* The maps, the daemon and the packets in flight agree at every step of
\* add_subscriber, flush_topic, xdp_broker and tc_ingress_broker, and after every
\* crash of the daemon: IInv is an invariant.
THEOREM Invariance == Spec => []IInv
BY InitInv, StepInv, PTL DEF Spec

\* Every map, the daemon and every packet hold values of their types; a
\* subscriber count below MaxCount does not wrap.
THEOREM TypeCorrect == Spec => []TypeOK
<1>1. IInv => TypeOK
  BY DEF IInv
<1> QED BY <1>1, Invariance, PTL

\* No acknowledged subscriber is forgotten by xdp_broker's shortcut or by the
\* map walk of tc_ingress_broker, however they interleave with the daemon.
THEOREM NobodyForgotten == Spec => []Complete
<1>1. IInv => Complete
  BY DEF IInv, PacketInv, Complete
<1> QED BY <1>1, Invariance, PTL

\* No copy is sent to a client that did not ask, or whose topic had been flushed
\* before the packet arrived: topic_first_sub is never stale in this sense.
THEOREM NobodyElse == Spec => []Sound
<1>1. IInv => Sound
  BY DEF IInv, PacketInv, Sound
<1> QED BY <1>1, Invariance, PTL

\* Without an overlapping request or an unrepaired crash a packet is sent to
\* exactly the acknowledged subscribers of its topic.
THEOREM ExactWhenCalm == Spec => []CalmExact
<1>1. IInv => CalmExact
  BY DEF IInv, CalmInv, CalmExact
<1> QED BY <1>1, Invariance, PTL

\* The unchecked map updates of flush_topic and the late ones of add_subscriber
\* always find room.
THEOREM UpdatesFit == Spec => []MapUpdatesFit
<1>1. IInv => MapUpdatesFit
  BY RoomForKnown DEF IInv, DaemonInv, WritingPcs, At, MapUpdatesFit
<1> QED BY <1>1, Invariance, PTL

-----------------------------------------------------------------------------
(* HashBroker implements PubSub.                                           *)

Opened == {p \in Packets : Live(p)}

\* The freshly loaded broker is a service without members and messages.
LEMMA ServiceInit == Init => Service!Init
BY DEF Init, Service!Init, Live, LivePcs

\* A step of the daemon is a membership step of the service or invisible in it.
LEMMA ServiceDaemon ==
  ASSUME IInv,
         (\E t \in Topics : Request(t)) \/ DaemonStep \/ DaemonCrash
  PROVE  Service!Next \/ UNCHANGED Service!vars
<1> USE DEF IInv, TypeOK, DaemonInv, At, SubPcs, WritingPcs, Live, Service!vars,
            maps, packet, members, promise
<1>1. CASE \/ \E t \in Topics : Register(t)
           \/ SubInner \/ SubCnt \/ SubFirst \/ FlushKey \/ FlushCnt \/ FlushFirst
           \/ DaemonCrash
  BY <1>1 DEF Register, SubInner, SubCnt, SubFirst, FlushKey, FlushCnt, FlushFirst,
              DaemonCrash
<1>2. ASSUME NEW t \in Topics, NEW c \in Clients, RecvSubscribe(c, t)
      PROVE  Service!Subscribing(c, t)
  BY <1>2 DEF RecvSubscribe, Overlap, Service!Subscribing, Service!Handled
<1>3. ASSUME NEW t \in Topics, RecvFlush(t)
      PROVE  Service!Unsubscribing(t) \/ UNCHANGED Service!vars
  <2>1. PICK fd \in BOOLEAN :
          LET start == Known(t) /\ fd IN
          /\ joined' = [joined EXCEPT ![t] = IF start THEN {} ELSE @]
          /\ Overlap(t, {}, IF start THEN Clients ELSE {})
    BY <1>3 DEF RecvFlush
  <2>2. CASE Known(t) /\ fd
    <3>1. joined' = [joined EXCEPT ![t] = {}] /\ Overlap(t, {}, Clients)
      BY <2>1, <2>2
    <3>2. UNCHANGED <<maybe, pc, topic, got, lost>>
      BY <1>3 DEF RecvFlush
    <3>3. elig' = elig
      BY <3>1 DEF Overlap
    <3>4. owed' = [p \in Packets |->
                     IF Live(p) /\ topic[p] = t THEN {} ELSE owed[p]]
      <4>1. owed' = [p \in Packets |->
                       IF Live(p) /\ topic[p] = t THEN owed[p] \ Clients ELSE owed[p]]
        BY <3>1 DEF Overlap
      <4>2. \A p \in Packets : owed[p] \ Clients = {}
        BY DEF IInv, TypeOK
      <4> QED BY <4>1, <4>2
    <3> QED BY <3>1, <3>2, <3>3, <3>4 DEF Service!Unsubscribing, Service!Handled
  <2>3. CASE ~(Known(t) /\ fd)
    BY <1>3, <2>1, <2>3 DEF RecvFlush, Overlap
  <2> QED BY <2>2, <2>3
<1>4. CASE SubAck
  <2>1. CASE daemon.ret = 0
    BY <1>4, <2>1, Zenon DEF SubAck, Service!Next, Service!Subscribed
  <2>2. CASE daemon.ret # 0
    BY <1>4, <2>2 DEF SubAck
  <2> QED BY <2>1, <2>2
<1>5. CASE Flushed
  <2>1. CASE daemon.ret = 0
    BY <1>5, <2>1 DEF Flushed, Service!Next, Service!Unsubscribed
  <2>2. CASE daemon.ret # 0
    BY <1>5, <2>2 DEF Flushed
  <2> QED BY <2>1, <2>2
<1> QED
  BY <1>1, <1>2, <1>3, <1>4, <1>5 DEF Request, DaemonStep, Service!Next

\* A step of a packet is a publication, a delivery or invisible in the service.
LEMMA ServicePacket ==
  ASSUME IInv, NEW p \in Packets,
         PacketStep(p) \/ \E t \in Topics : Arrive(p, t)
  PROVE  Service!Next
<1> USE DEF IInv, TypeOK, TopicInv, PacketInv, Live, LivePcs, Verdicts, Move, Shared,
            maps, members, promise
<1>1. ASSUME NEW t \in Topics, Arrive(p, t) PROVE Service!Publish(p, t)
  BY <1>1 DEF Arrive, Service!Publish
<1>2. ASSUME PacketStep(p), Service!Send(p) PROVE Service!Deliver(p)
  <2>1. /\ pc[p] \in LivePcs
        /\ pc'[p] \in LivePcs \cup Verdicts
        /\ \A q \in Packets : q # p => pc'[q] = pc[q]
        /\ UNCHANGED <<joined, maybe, topic, owed, elig>>
    BY <1>2 DEF PacketStep, XdpBroker, XdpFirst, TcIngress, TcFail, TcCallback, TcDone
  <2>2. pc'[p] \in LivePcs => Opened' = Opened
    BY <2>1 DEF Opened
  <2>3. pc'[p] \in Verdicts => Opened' = Opened \ {p}
    BY <2>1 DEF Opened
  <2>4. pc'[p] \in Verdicts => owed[p] \subseteq got'[p] \cup lost'[p]
    BY <2>1, PacketPacket DEF Done
  <2> HIDE DEF IInv, TypeOK, PacketInv, LivePcs, Verdicts
  <2> QED BY <1>2, <2>1, <2>2, <2>3, <2>4 DEF Service!Deliver, Opened, Live
<1>3. ASSUME NEW S \in SUBSET elig[p], got' = [got EXCEPT ![p] = @ \cup S],
             NEW L \in SUBSET elig[p], lost' = [lost EXCEPT ![p] = @ \cup L]
      PROVE  Service!Send(p)
  BY <1>3 DEF Service!Send
<1>4. /\ {} \in SUBSET elig[p]
      /\ got = [got EXCEPT ![p] = @ \cup {}]
      /\ lost = [lost EXCEPT ![p] = @ \cup {}]
  OBVIOUS
<1>5. ASSUME UNCHANGED <<got, lost>> PROVE Service!Send(p)
  BY <1>3, <1>4, <1>5
<1>6. ASSUME XdpFirst(p) PROVE Service!Send(p)
  <2>1. CASE topic_first_sub[topic[p]] = Absent
    BY <1>5, <1>6, <2>1 DEF XdpFirst
  <2>2. CASE topic_first_sub[topic[p]] # Absent
    <3>1. {topic_first_sub[topic[p]]} \in SUBSET elig[p]
      BY <1>6, <2>2 DEF XdpFirst
    <3>2. got' = [got EXCEPT ![p] = @ \cup {topic_first_sub[topic[p]]}]
      BY <1>6, <2>2 DEF XdpFirst
    <3>3. lost' = lost
      BY <1>6 DEF XdpFirst
    <3> HIDE DEF IInv, TypeOK, TopicInv, PacketInv
    <3>4. lost' = [lost EXCEPT ![p] = @ \cup {}]
      BY <1>4, <3>3
    <3> QED BY <1>3, <1>4, <3>1, <3>2, <3>4
  <2> QED BY <2>1, <2>2
<1>7. ASSUME TcFail(p) PROVE Service!Send(p)
  <2>1. Inner(topic[p]) \in SUBSET elig[p]
    BY <1>7 DEF TcFail
  <2>2. lost' = [lost EXCEPT ![p] = @ \cup Inner(topic[p])]
    <3>1. lost[p] \cup Inner(topic[p]) = Inner(topic[p])
      BY <1>7 DEF TcFail
    <3>2. lost' = [lost EXCEPT ![p] = Inner(topic[p])]
      BY <1>7 DEF TcFail
    <3> QED BY <3>1, <3>2
  <2>3. got' = got
    BY <1>7 DEF TcFail
  <2> HIDE DEF IInv, TypeOK, TopicInv, PacketInv, Inner
  <2>4. got' = [got EXCEPT ![p] = @ \cup {}]
    BY <1>4, <2>3
  <2> QED BY <1>3, <1>4, <2>1, <2>2, <2>4
<1>8. ASSUME NEW c \in Clients, TcCallback(p, c) PROVE Service!Send(p)
  <2>1. {c} \in SUBSET elig[p]
    BY <1>8 DEF TcCallback
  <2>2. CASE got' = [got EXCEPT ![p] = @ \cup {c}] /\ lost' = lost
    BY <1>3, <1>4, <2>1, <2>2
  <2>3. CASE lost' = [lost EXCEPT ![p] = @ \cup {c}] /\ got' = got
    BY <1>3, <1>4, <2>1, <2>3
  <2> QED BY <1>8, <2>2, <2>3 DEF TcCallback
<1>9. ASSUME XdpBroker(p) \/ TcIngress(p) \/ TcDone(p) PROVE Service!Send(p)
  BY <1>5, <1>9 DEF XdpBroker, TcIngress, TcDone
<1>10. PacketStep(p) => Service!Send(p)
  BY <1>6, <1>7, <1>8, <1>9 DEF PacketStep
<1> QED
  BY <1>1, <1>2, <1>10 DEF Service!Next

\* Every step of the broker is a step of the service or invisible in it.
LEMMA ServiceStep == IInv /\ [Next]_vars => [Service!Next]_(Service!vars)
<1> SUFFICES ASSUME IInv, [Next]_vars
             PROVE  Service!Next \/ UNCHANGED Service!vars
  OBVIOUS
<1>1. CASE UNCHANGED vars
  BY <1>1 DEF vars, maps, packet, members, promise, Service!vars, Live
<1> QED
  BY <1>1, ServiceDaemon, ServicePacket DEF Next

\* The maps and the programs that read them without a lock implement the
\* service: every SUBSCRIBE, FLUSH and PUBLISH behaves as if it worked on one
\* set of members per topic.
THEOREM Implements == Spec => RefinesPubSub
BY ServiceInit, ServiceStep, Invariance, PTL DEF Spec, RefinesPubSub, Service!Spec


-----------------------------------------------------------------------------
(* Progress: the packets and the daemon count down.                        *)

\* The clients a walk may still meet, and what is left of them after one visit.
LEMMA ClientsLeft ==
  ASSUME IsFiniteSet(Clients), NEW S \in SUBSET Clients
  PROVE  IsFiniteSet(S) /\ Cardinality(S) \in 0..Cardinality(Clients)
<1>1. IsFiniteSet(S) /\ Cardinality(S) <= Cardinality(Clients)
  BY FS_Subset
<1>2. Cardinality(S) \in Nat /\ Cardinality(Clients) \in Nat
  BY <1>1, FS_CardinalityType
<1> QED BY <1>1, <1>2

LEMMA OneLess ==
  ASSUME IsFiniteSet(Clients), NEW S \in SUBSET Clients, NEW c
  PROVE  /\ Cardinality(S \ {c}) <= Cardinality(S)
         /\ c \in S => Cardinality(S \ {c}) < Cardinality(S)
<1>1. IsFiniteSet(S) /\ Cardinality(S) \in Nat
  BY ClientsLeft
<1>2. Cardinality(S \ {c}) = IF c \in S THEN Cardinality(S) - 1 ELSE Cardinality(S)
  BY <1>1, FS_RemoveElement
<1> QED BY <1>1, <1>2

\* A packet has at most two steps for every client before it, and three more.
LEMMA PacketRankType ==
  ASSUME IsFiniteSet(Clients), TypeOK, NEW p \in Packets
  PROVE  PacketRank(p) \in 0..(2 * Cardinality(Clients) + 3)
<1>1. /\ Cardinality(Clients) \in Nat
      /\ Cardinality(todo[p]) \in 0..Cardinality(Clients)
      /\ Cardinality(Clients \ (got[p] \cup lost[p])) \in 0..Cardinality(Clients)
  <2>1. todo[p] \in SUBSET Clients /\ Clients \ (got[p] \cup lost[p]) \in SUBSET Clients
    BY DEF TypeOK
  <2> QED BY <2>1, ClientsLeft, FS_CardinalityType
<1> QED BY <1>1 DEF PacketRank

\* The walk: callback_fn strikes its key off one of the two sets that are counted.
LEMMA WalkRuns ==
  ASSUME IsFiniteSet(Clients), TypeOK, NEW p \in Packets, NEW c \in Clients, TcCallback(p, c)
  PROVE  PacketRank(p)' < PacketRank(p)
<1> DEFINE left == Clients \ (got[p] \cup lost[p])
<1>1. pc[p] = "tc_each" /\ pc' = pc /\ todo'[p] = todo[p] \ {c}
  BY DEF TcCallback, Visited, TypeOK
<1>2. /\ Clients \ (got'[p] \cup lost'[p]) = left \ {c}
      /\ c \in todo[p] \/ c \in left
  BY DEF TcCallback, TypeOK
<1>3. todo[p] \in SUBSET Clients /\ left \in SUBSET Clients
  BY DEF TypeOK
<1>4. /\ PacketRank(p) = Cardinality(todo[p]) + Cardinality(left) + 1
      /\ PacketRank(p)' = Cardinality(todo[p] \ {c}) + Cardinality(left \ {c}) + 1
  BY <1>1, <1>2 DEF PacketRank
<1> HIDE DEF left
<1>5. /\ Cardinality(todo[p] \ {c}) <= Cardinality(todo[p])
      /\ Cardinality(left \ {c}) <= Cardinality(left)
      /\ \/ Cardinality(todo[p] \ {c}) < Cardinality(todo[p])
         \/ Cardinality(left \ {c}) < Cardinality(left)
  BY <1>2, <1>3, OneLess
<1>6. /\ Cardinality(todo[p]) \in Int /\ Cardinality(left) \in Int
      /\ Cardinality(todo[p] \ {c}) \in Int /\ Cardinality(left \ {c}) \in Int
  <2>1. todo[p] \ {c} \in SUBSET Clients /\ left \ {c} \in SUBSET Clients
    BY <1>3
  <2>2. \A S \in SUBSET Clients : Cardinality(S) \in Int
    BY ClientsLeft
  <2> QED BY <1>3, <2>1, <2>2
<1> QED BY <1>4, <1>5, <1>6

\* Every step of a packet brings its verdict closer.
LEMMA PacketRuns ==
  ASSUME IsFiniteSet(Clients), IInv, NEW p \in Packets, PacketStep(p)
  PROVE  PacketRank(p)' < PacketRank(p)
<1> DEFINE N == Cardinality(Clients)
<1>1. TypeOK /\ TypeOK' /\ N \in Nat
  BY TypePacket, FS_CardinalityType DEF IInv
<1>2. CASE XdpBroker(p)
  <2>1. pc[p] = "xdp" /\ pc'[p] \in {"xdp_first", "tc"}
    BY <1>1, <1>2 DEF XdpBroker, Move, TypeOK
  <2> QED BY <1>1, <2>1 DEF PacketRank
<1>3. CASE XdpFirst(p)
  <2>1. pc[p] = "xdp_first" /\ pc'[p] \in {"drop", "tx"}
    BY <1>1, <1>3 DEF XdpFirst, Move, TypeOK
  <2> QED BY <2>1 DEF PacketRank
<1>4. CASE TcIngress(p) \/ TcFail(p)
  <2>1. pc[p] = "tc" /\ pc'[p] \in {"tc_each", "ok"}
    BY <1>1, <1>4 DEF TcIngress, TcFail, Move, TypeOK
  <2>2. CASE pc'[p] = "ok"
    BY <1>1, <2>1, <2>2 DEF PacketRank
  <2>3. CASE pc'[p] = "tc_each"
    <3>1. todo'[p] \in SUBSET Clients /\ Clients \ (got'[p] \cup lost'[p]) \in SUBSET Clients
      BY <1>1 DEF TypeOK
    <3>2. /\ Cardinality(todo'[p]) \in 0..N
          /\ Cardinality(Clients \ (got'[p] \cup lost'[p])) \in 0..N
      BY <3>1, ClientsLeft
    <3>3. /\ PacketRank(p) = 2 * N + 2
          /\ PacketRank(p)' = Cardinality(todo'[p])
                                + Cardinality(Clients \ (got'[p] \cup lost'[p])) + 1
      BY <2>1, <2>3 DEF PacketRank
    <3> QED BY <1>1, <3>2, <3>3
  <2> QED BY <2>1, <2>2, <2>3
<1>5. ASSUME NEW c \in Clients, TcCallback(p, c) PROVE PacketRank(p)' < PacketRank(p)
  BY <1>1, <1>5, WalkRuns
<1>6. CASE TcDone(p)
  <2>1. pc[p] = "tc_each" /\ pc'[p] = "shot"
    BY <1>1, <1>6 DEF TcDone, Move, TypeOK
  <2>2. todo[p] \in SUBSET Clients /\ Clients \ (got[p] \cup lost[p]) \in SUBSET Clients
    BY <1>1 DEF TypeOK
  <2>3. Cardinality(todo[p]) \in Nat /\ Cardinality(Clients \ (got[p] \cup lost[p])) \in Nat
    BY <1>1, <2>2, ClientsLeft
  <2> QED BY <2>1, <2>3 DEF PacketRank
<1> QED BY <1>2, <1>3, <1>4, <1>5, <1>6 DEF PacketStep


\* So it does after a step.
LEMMA PacketRankNext ==
  ASSUME IsFiniteSet(Clients), TypeOK', NEW p \in Packets
  PROVE  PacketRank(p)' \in Int
<1>1. /\ Cardinality(Clients) \in Int
      /\ Cardinality(todo'[p]) \in Int
      /\ Cardinality(Clients \ (got'[p] \cup lost'[p])) \in Int
  <2>1. todo'[p] \in SUBSET Clients /\ Clients \ (got'[p] \cup lost'[p]) \in SUBSET Clients
    BY DEF TypeOK
  <2>2. Cardinality(Clients) \in Int /\ \A S \in SUBSET Clients : Cardinality(S) \in Int
    BY ClientsLeft, FS_CardinalityType
  <2> QED BY <2>1, <2>2
<1> QED BY <1>1 DEF PacketRank

\* No step of anyone else puts the verdict of a packet off.
LEMMA PacketWaits ==
  ASSUME IsFiniteSet(Clients), IInv, [Next]_vars, NEW p \in Packets, Live(p)
  PROVE  PacketRank(p)' <= PacketRank(p)
<1>1. TypeOK /\ TypeOK'
  BY StepInv DEF IInv
<1>2. PacketRank(p) \in Int
  BY <1>1, PacketRankType, FS_CardinalityType
<1>3. PacketRank(p)' \in Int
  BY <1>1, PacketRankNext
<1>4. CASE pc'[p] = pc[p] /\ todo'[p] = todo[p] /\ got'[p] = got[p] /\ lost'[p] = lost[p]
  <2>1. PacketRank(p)' = PacketRank(p)
    BY <1>4 DEF PacketRank
  <2> QED BY <1>2, <2>1
<1>5. CASE FlushKey
  <2>1. pc' = pc /\ got' = got /\ lost' = lost /\ (todo'[p] = todo[p] \/ todo'[p] = {})
    BY <1>5 DEF FlushKey
  <2>2. CASE pc[p] = "tc_each" /\ todo'[p] = {}
    <3>1. todo[p] \in SUBSET Clients /\ Clients \ (got[p] \cup lost[p]) \in SUBSET Clients
      BY <1>1 DEF TypeOK
    <3>2. Cardinality(todo[p]) \in Nat /\ Cardinality(Clients \ (got[p] \cup lost[p])) \in Nat
      BY <3>1, ClientsLeft
    <3>3. Cardinality(todo'[p]) = 0
      BY <2>2, FS_EmptySet
    <3> QED BY <2>1, <2>2, <3>2, <3>3 DEF PacketRank
  <2>3. CASE pc[p] # "tc_each"
    <3>1. PacketRank(p)' = PacketRank(p)
      BY <2>1, <2>3 DEF PacketRank
    <3> QED BY <1>2, <3>1
  <2> QED BY <1>4, <2>1, <2>2, <2>3
<1>6. CASE (\E t \in Topics : Request(t)) \/ (DaemonStep /\ ~FlushKey) \/ DaemonCrash
  <2>1. UNCHANGED packet
    BY <1>6 DEF Request, Register, RecvFlush, RecvSubscribe, DaemonStep, SubInner, SubCnt, SubFirst,
                SubAck, FlushCnt, FlushFirst, Flushed, DaemonCrash
  <2> QED BY <1>4, <2>1 DEF packet
<1>7. ASSUME NEW q \in Packets, PacketStep(q) \/ \E t \in Topics : Arrive(q, t)
      PROVE  PacketRank(p)' <= PacketRank(p)
  <2>1. CASE q # p
    <3>1. pc'[p] = pc[p] /\ todo'[p] = todo[p] /\ got'[p] = got[p] /\ lost'[p] = lost[p]
      <4> USE <1>1, <2>1 DEF TypeOK, Move
      <4>1. CASE XdpBroker(q) \/ XdpFirst(q)
        BY <4>1 DEF XdpBroker, XdpFirst
      <4>2. CASE TcIngress(q) \/ TcFail(q)
        BY <4>2 DEF TcIngress, TcFail
      <4>3. CASE TcDone(q) \/ \E c \in Clients : TcCallback(q, c)
        BY <4>3 DEF TcDone, TcCallback
      <4>4. CASE \E t \in Topics : Arrive(q, t)
        BY <4>4 DEF Arrive
      <4> QED BY <1>7, <4>1, <4>2, <4>3, <4>4 DEF PacketStep
    <3> QED BY <1>4, <3>1
  <2>2. CASE q = p
    <3>1. PacketStep(p)
      BY <1>7, <2>2 DEF Arrive
    <3>2. PacketRank(p)' < PacketRank(p)
      BY <3>1, PacketRuns
    <3> QED BY <1>2, <1>3, <3>2
  <2> QED BY <2>1, <2>2
<1>8. CASE UNCHANGED vars
  BY <1>4, <1>8 DEF vars, packet
<1> QED BY <1>5, <1>6, <1>7, <1>8 DEF Next

\* A request has at most one step for every client before it, and four more.
LEMMA DaemonRankType ==
  ASSUME IsFiniteSet(Clients), IInv
  PROVE  DaemonRank \in 0..(Cardinality(Clients) + 4)
<1>1. At("flush_keys") => Inner(daemon.topic) \in SUBSET Clients
  BY DEF IInv, DaemonInv, TypeOK, Inner, Known, At
<1>2. /\ Cardinality(Clients) \in Nat
      /\ At("flush_keys") => Cardinality(Inner(daemon.topic)) \in 0..Cardinality(Clients)
  BY <1>1, ClientsLeft, FS_CardinalityType
<1> QED BY <1>2 DEF DaemonRank

LEMMA DaemonRankNext ==
  ASSUME IsFiniteSet(Clients), IInv'
  PROVE  DaemonRank' \in Nat
<1>1. At("flush_keys")' => Inner(daemon.topic)' \in SUBSET Clients
  BY DEF IInv, DaemonInv, TypeOK, Inner, Known, At
<1>2. At("flush_keys")' => Cardinality(Inner(daemon.topic)') \in Nat
  BY <1>1, ClientsLeft
<1> QED BY <1>2 DEF DaemonRank

\* Every system call of the daemon brings its answer closer.
LEMMA DaemonRuns ==
  ASSUME IsFiniteSet(Clients), IInv, DaemonStep
  PROVE  DaemonRank' < DaemonRank
<1>1. TypeOK /\ daemon \in DaemonType
  BY DEF IInv, TypeOK, DaemonType
<1>2. ASSUME NEW l, Goto(l) PROVE daemon'.pc = l
  BY <1>1, <1>2 DEF Goto, DaemonType
<1>3. ASSUME GiveUp PROVE daemon'.pc = "suback"
  BY <1>1, <1>3 DEF GiveUp, DaemonType
<1>4. CASE SubInner
  <2>1. daemon.pc = "sub_inner" /\ daemon'.pc \in {"sub_cnt", "suback"}
    BY <1>2, <1>3, <1>4 DEF SubInner, At
  <2> QED BY <2>1 DEF DaemonRank, At
<1>5. CASE SubCnt
  <2>1. daemon.pc = "sub_cnt" /\ daemon'.pc \in {"sub_first", "suback"}
    BY <1>2, <1>3, <1>5 DEF SubCnt, At
  <2> QED BY <2>1 DEF DaemonRank, At
<1>6. CASE SubFirst
  <2>1. daemon.pc = "sub_first" /\ daemon'.pc = "suback"
    BY <1>2, <1>3, <1>6 DEF SubFirst, At
  <2> QED BY <2>1 DEF DaemonRank, At
<1>7. CASE FlushFirst
  <2>1. daemon.pc = "flush_first" /\ daemon'.pc = "flushed"
    BY <1>2, <1>7 DEF FlushFirst, At
  <2> QED BY <2>1 DEF DaemonRank, At
<1>8. CASE SubAck \/ Flushed
  <2>1. daemon.pc \in {"suback", "flushed"} /\ daemon'.pc = "recv"
    BY <1>8 DEF SubAck, Flushed, At, Idle
  <2> QED BY <2>1 DEF DaemonRank, At
<1>9. ASSUME At("flush_keys")
      PROVE  /\ Inner(daemon.topic) \in SUBSET Clients /\ daemon.topic \in Topics
             /\ DaemonRank = Cardinality(Inner(daemon.topic)) + 3
  <2>1. daemon.topic \in Topics /\ Inner(daemon.topic) \in SUBSET Clients
    BY <1>9 DEF IInv, DaemonInv, TypeOK, Inner, Known, At
  <2>2. DaemonRank = Cardinality(Inner(daemon.topic)) + 3
    BY <1>9 DEF DaemonRank, At
  <2> QED BY <2>1, <2>2
<1>10. CASE FlushCnt
  <2>1. At("flush_keys") /\ daemon'.pc = "flush_first"
    BY <1>2, <1>10 DEF FlushCnt
  <2>2. DaemonRank' = 2
    BY <2>1 DEF DaemonRank, At
  <2>3. Cardinality(Inner(daemon.topic)) \in Nat
    BY <1>9, <2>1, ClientsLeft
  <2> QED BY <1>9, <2>1, <2>2, <2>3
<1>11. CASE FlushKey
  <2> DEFINE S == Inner(daemon.topic)
  <2>1. PICK c \in S : topic_subscribe' = [topic_subscribe EXCEPT ![daemon.topic] = S \ {c}]
    BY <1>11 DEF FlushKey, RemoveKey
  <2>2. At("flush_keys") /\ daemon' = daemon
    BY <1>11 DEF FlushKey
  <2>3. S \in SUBSET Clients /\ daemon.topic \in Topics /\ DaemonRank = Cardinality(S) + 3
    BY <1>9, <2>2
  <2>4. Inner(daemon.topic)' = S \ {c}
    <3>1. topic_subscribe'[daemon.topic] = S \ {c} /\ S \ {c} # Absent
      BY <1>1, <2>1, <2>3 DEF TypeOK
    <3> QED BY <2>2, <3>1 DEF Inner, Known
  <2>5. DaemonRank' = Cardinality(S \ {c}) + 3
    BY <2>2, <2>4 DEF DaemonRank, At
  <2> HIDE DEF S
  <2>6. Cardinality(S \ {c}) < Cardinality(S)
    BY <2>1, <2>3, OneLess
  <2>7. Cardinality(S) \in Nat /\ Cardinality(S \ {c}) \in Nat
    BY <2>3, ClientsLeft
  <2> QED BY <2>3, <2>5, <2>6, <2>7
<1> QED BY <1>4, <1>5, <1>6, <1>7, <1>8, <1>10, <1>11 DEF DaemonStep

\* No packet puts the answer of the daemon off; a crash ends the request.
LEMMA DaemonWaits ==
  ASSUME IsFiniteSet(Clients), IInv, [Next]_vars, ~At("recv")
  PROVE  DaemonRank' <= DaemonRank
<1>1. DaemonRank \in Nat /\ DaemonRank' \in Nat
  BY StepInv, DaemonRankType, DaemonRankNext
<1>2. CASE daemon' = daemon /\ topic_subscribe' = topic_subscribe
  <2>1. DaemonRank' = DaemonRank
    BY <1>2 DEF DaemonRank, At, Inner, Known
  <2> QED BY <1>1, <2>1
<1>3. CASE DaemonStep
  BY <1>1, <1>3, DaemonRuns
<1>4. CASE DaemonCrash
  <2>1. DaemonRank' = 0
    BY <1>4 DEF DaemonCrash, Idle, DaemonRank, At
  <2> QED BY <1>1, <2>1
<1>5. ASSUME NEW p \in Packets, PacketStep(p) \/ \E t \in Topics : Arrive(p, t)
      PROVE  DaemonRank' <= DaemonRank
  BY <1>2, <1>5, PacketFrame
<1>6. ~(\E t \in Topics : Request(t))
  BY DEF Request, Register, RecvFlush, RecvSubscribe
<1>7. CASE UNCHANGED vars
  BY <1>2, <1>7 DEF vars, maps
<1> QED BY <1>3, <1>4, <1>5, <1>6, <1>7 DEF Next

\* From its arrival a packet takes at most three steps more than twice the number of
\* clients until its verdict, whatever requests, crashes and packets come between, and
\* from its receipt a request takes at most four steps more than the number of clients.
RanksBounded ==
  /\ \A p \in Packets : PacketRank(p) \in 0..(2 * Cardinality(Clients) + 3)
  /\ DaemonRank \in 0..(Cardinality(Clients) + 4)

\* xdp_broker, tc_ingress_broker with its walk of the inner map, add_subscriber and
\* flush_topic all run down: each step of a packet or of the daemon lowers a bounded
\* count that no step of another raises.  (With finitely many addresses; that some
\* step is possible until the count is zero is left to the liveness run.)
THEOREM RunsDown ==
  ASSUME IsFiniteSet(Clients)
  PROVE  Spec => Progress /\ []RanksBounded
<1>1. IInv => RanksBounded
  BY PacketRankType, DaemonRankType DEF RanksBounded, IInv
<1>2. IInv /\ [Next]_vars =>
        [\A p \in Packets : /\ PacketStep(p) => PacketRank(p)' < PacketRank(p)
                            /\ Live(p) => PacketRank(p)' <= PacketRank(p)]_vars
  BY PacketRuns, PacketWaits
<1>3. IInv /\ [Next]_vars =>
        [/\ DaemonStep => DaemonRank' < DaemonRank
         /\ ~At("recv") => DaemonRank' <= DaemonRank]_vars
  BY DaemonRuns, DaemonWaits
<1> QED BY <1>1, <1>2, <1>3, Invariance, PTL DEF Spec, Progress, PacketProgress, DaemonProgress

=============================================================================
