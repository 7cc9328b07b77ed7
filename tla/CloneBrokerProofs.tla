-------------------------- MODULE CloneBrokerProofs --------------------------
(***************************************************************************)
(* IInv is an invariant of CloneBroker, for every set of topics, clients   *)
(* and packets and every size of the maps; the safety properties and the   *)
(* refinement of PubSub follow from it.                                    *)
(***************************************************************************)
EXTENDS CloneBrokerInv, FiniteSetTheorems, TLAPS

USE AbsentAssumption, BoundsAssumption

-----------------------------------------------------------------------------
(* Counting copies.                                                        *)

\* A copy that is made moves from the copies to come to the copies tallied.
LEMMA OneMore ==
  ASSUME NEW a \in Nat, NEW b \in Nat, NEW r \in Nat, NEW m \in Nat, r > 0, a + b + r <= m
  PROVE  a + 1 \in 0..m /\ b + 1 \in 0..m
OBVIOUS

LEMMA OneMoved ==
  ASSUME NEW a \in Nat, NEW r \in Nat, NEW one \in {0, 1}
  PROVE  /\ (a + one) + (r - one) = a + r
         /\ (a + one) + (r - 1) <= a + r
OBVIOUS

LEMMA StillWithin ==
  ASSUME NEW x \in Int, NEW y \in Int, NEW m \in Int, x <= y, y <= m
  PROVE  x <= m
OBVIOUS

LEMMA SumType ==
  ASSUME NEW a \in Nat, NEW b \in Nat, NEW r \in Nat
  PROVE  a + b \in Nat /\ a + b + r \in Int
OBVIOUS

\* A set of copy numbers has at most MAX_SUBSCRIBERS elements.
LEMMA CopyNumbers ==
  ASSUME NEW S \in SUBSET (1..MAX_SUBSCRIBERS)
  PROVE  IsFiniteSet(S) /\ Cardinality(S) \in 0..MAX_SUBSCRIBERS
<1>1. IsFiniteSet(1..MAX_SUBSCRIBERS) /\ Cardinality(1..MAX_SUBSCRIBERS) = MAX_SUBSCRIBERS
  <2>1. 1 \in Int /\ MAX_SUBSCRIBERS \in Int
    OBVIOUS
  <2>2. IsFiniteSet(1..MAX_SUBSCRIBERS)
        /\ Cardinality(1..MAX_SUBSCRIBERS)
             = IF 1 > MAX_SUBSCRIBERS THEN 0 ELSE MAX_SUBSCRIBERS - 1 + 1
    BY <2>1, FS_Interval, Zenon
  <2> QED BY <2>1, <2>2
<1>2. IsFiniteSet(S) /\ Cardinality(S) <= MAX_SUBSCRIBERS
  BY <1>1, FS_Subset, Zenon
<1>3. Cardinality(S) \in Nat
  BY <1>2, FS_CardinalityType
<1> QED BY <1>2, <1>3

\* A count is the number of slots in use.
LEMMA CountType ==
  ASSUME TypeOK, NEW t \in Topics
  PROVE  CountOf(t) \in 0..MAX_SUBSCRIBERS
BY DEF TypeOK, CountOf

LEMMA CopiesType ==
  ASSUME TypeOK, NEW t \in Topics, NEW c \in Clients
  PROVE  /\ Copies(t, c) \in SUBSET (1..MAX_SUBSCRIBERS)
         /\ IsFiniteSet(Copies(t, c))
         /\ Cardinality(Copies(t, c)) \in 0..MAX_SUBSCRIBERS
<1>1. Copies(t, c) \in SUBSET (1..MAX_SUBSCRIBERS)
  BY CountType DEF Copies
<1> QED BY <1>1, CopyNumbers

LEMMA CopiesNext ==
  ASSUME TypeOK', NEW t \in Topics, NEW c \in Clients
  PROVE  Cardinality(Copies(t, c))' \in Nat
<1>1. Copies(t, c)' \in SUBSET (1..MAX_SUBSCRIBERS)
  BY DEF Copies, TypeOK, CountOf
<1> QED BY <1>1, CopyNumbers

LEMMA RemainingType ==
  ASSUME TypeOK, NEW p \in Packets, NEW c \in Clients
  PROVE  /\ IsFiniteSet(left[p])
         /\ Cardinality(left[p]) \in 0..MAX_SUBSCRIBERS
         /\ IsFiniteSet(Remaining(p, c))
         /\ Cardinality(Remaining(p, c)) \in 0..MAX_SUBSCRIBERS
<1>1. left[p] \in SUBSET (1..MAX_SUBSCRIBERS)
  BY DEF TypeOK
<1>2. Remaining(p, c) \in SUBSET (1..MAX_SUBSCRIBERS)
  BY <1>1 DEF Remaining
<1> QED BY <1>1, <1>2, CopyNumbers

LEMMA RemainingNext ==
  ASSUME TypeOK', NEW p \in Packets, NEW c \in Clients
  PROVE  Cardinality(Remaining(p, c))' \in Nat
<1>1. Remaining(p, c)' \in SUBSET (1..MAX_SUBSCRIBERS)
  BY DEF Remaining, TypeOK
<1> QED BY <1>1, CopyNumbers

\* A tally of nothing but zeros, and one of something else.
LEMMA TallyZero ==
  ASSUME NEW f \in Tally, \A c \in Clients : f[c] = 0
  PROVE  f = None
BY DEF Tally, None

LEMMA ArrayPresent == Absent \notin Arrays
BY DEF Arrays, Slots

LEMMA NoneType == None \in Tally /\ \A c \in Clients : None[c] = 0
BY DEF None, Tally

\* What a tally of every packet, or of every topic, says of one client is a number.
LEMMA TallyType ==
  ASSUME NEW S, NEW f \in [S -> Tally], NEW x \in S, NEW c \in Clients
  PROVE  f[x][c] \in Nat
<1>1. f[x] \in Tally
  OBVIOUS
<1>2. f[x][c] \in 0..MAX_SUBSCRIBERS
  BY <1>1 DEF Tally
<1> QED BY <1>2

-----------------------------------------------------------------------------
(* The invariant, part by part: the steps of the daemon and of a packet.   *)

\* Every step of the daemon keeps the types.
LEMMA TypeDaemon ==
  ASSUME IInv,
         (\E t \in Topics : Request(t)) \/ DaemonStep \/ DaemonCrash
  PROVE  TypeOK'
<1> USE NoneType DEF IInv, TypeOK, DaemonInv, At, Idle, Goto, GiveUp, DaemonPcs, Arrays,
            maps, packet, members, promise
<1> DEFINE DaemonStates ==
      [pc : DaemonPcs, topic : Topics \cup {Absent}, client : Clients \cup {Absent},
       ret : {0, -1}, i : 0..MAX_SUBSCRIBERS]
<1>1. ASSUME NEW t \in Topics, Register(t) PROVE TypeOK'
  BY <1>1 DEF Register
<1>2. ASSUME NEW t \in Topics, NEW c \in Clients, RecvSubscribe(c, t) PROVE TypeOK'
  <2>1. daemon' \in DaemonStates
    <3>1. PICK l \in DaemonPcs, r \in {0, -1} :
            daemon' = [Idle EXCEPT !.pc = l, !.topic = t, !.client = c, !.ret = r]
      BY <1>2 DEF RecvSubscribe
    <3>2. daemon' = [pc |-> l, topic |-> t, client |-> c, ret |-> r, i |-> 0]
      BY <3>1
    <3> QED BY <3>2
  <2>2. /\ maybe' \in [Topics -> SUBSET Clients]
        /\ elig' \in [Packets -> SUBSET Clients]
        /\ due' \in [Packets -> Tally]
        /\ calm' \in SUBSET Packets
    BY <1>2 DEF RecvSubscribe, Overlap
  <2> QED BY <1>2, <2>1, <2>2 DEF RecvSubscribe
<1>3. ASSUME NEW t \in Topics, RecvFlush(t) PROVE TypeOK'
  <2>1. daemon' \in DaemonStates
    <3>1. PICK l \in DaemonPcs, r \in {0, -1} :
            daemon' = [Idle EXCEPT !.pc = l, !.topic = t, !.ret = r]
      BY <1>3 DEF RecvFlush
    <3>2. daemon' = [pc |-> l, topic |-> t, client |-> Absent, ret |-> r, i |-> 0]
      BY <3>1
    <3> QED BY <3>2
  <2>2. asked' \in [Topics -> Tally]
    BY <1>3 DEF RecvFlush
  <2>3. /\ elig' \in [Packets -> SUBSET Clients]
        /\ due' \in [Packets -> Tally]
        /\ calm' \in SUBSET Packets
    BY <1>3 DEF RecvFlush, Overlap
  <2> QED BY <1>3, <2>1, <2>2, <2>3 DEF RecvFlush
<1>4. CASE SubSlot
  <2>1. topic_sub_array' \in [Topics -> Arrays \cup {Absent}]
    <3>1. topic_sub_array[daemon.topic] \in Arrays /\ daemon.topic \in Topics
      BY <1>4 DEF SubSlot, Known
    <3>2. CASE UNCHANGED topic_sub_array
      BY <3>2
    <3>3. ASSUME NEW k \in Slots,
                 topic_sub_array' = [topic_sub_array EXCEPT
                                       ![daemon.topic][k] = daemon.client]
          PROVE  topic_sub_array' \in [Topics -> Arrays \cup {Absent}]
      BY <1>4, <3>1, <3>3 DEF SubSlot
    <3> QED BY <1>4, <3>2, <3>3 DEF SubSlot
  <2>2. Goto("sub_cnt") \/ GiveUp
    BY <1>4 DEF SubSlot
  <2>3. daemon' \in DaemonStates
    <3>1. CASE Goto("sub_cnt")
      BY <3>1
    <3>2. CASE GiveUp
      BY <3>2
    <3> QED BY <2>2, <3>1, <3>2
  <2> QED BY <1>4, <2>1, <2>3 DEF SubSlot
<1>5. CASE SubCnt
  <2>1. CountOf(daemon.topic) + 1 \in 0..MAX_SUBSCRIBERS
    BY <1>5, CountType DEF SubCnt, Slots
  <2>2. topic_sub_cnt' \in [Topics -> (0..MAX_SUBSCRIBERS) \cup {Absent}]
    BY <1>5, <2>1 DEF SubCnt, NextCount
  <2>3. daemon' \in DaemonStates
    <3>1. CASE Goto("suback")
      BY <3>1
    <3>2. CASE GiveUp
      BY <3>2, Zenon
    <3> QED BY <1>5, <3>1, <3>2 DEF SubCnt
  <2> QED BY <1>5, <2>2, <2>3 DEF SubCnt
<1>6. CASE SubAck
  <2>1. CASE daemon.ret = 0
    <3>1. asked[daemon.topic][daemon.client] + 1 \in 0..MAX_SUBSCRIBERS
      BY <1>6, <2>1, CopiesType DEF SubAck, SlotsInv, Unanswered, Acking, Tally
    <3>2. asked' \in [Topics -> Tally]
      BY <1>6, <2>1, <3>1 DEF SubAck, Tally
    <3> QED BY <1>6, <3>2 DEF SubAck
  <2>2. CASE daemon.ret # 0
    BY <1>6, <2>2 DEF SubAck
  <2> QED BY <2>1, <2>2
<1>7. CASE FlushSlot
  <2>1. daemon.i \in Slots /\ daemon.i + 1 \in 0..MAX_SUBSCRIBERS
    BY <1>7, CountType DEF FlushSlot, Slots
  <2>2. topic_sub_array' \in [Topics -> Arrays \cup {Absent}]
    BY <1>7, <2>1 DEF FlushSlot, Known
  <2>3. daemon' \in DaemonStates
    BY <1>7, <2>1, Zenon DEF FlushSlot
  <2> QED BY <1>7, <2>2, <2>3 DEF FlushSlot
<1>8. CASE FlushCnt
  BY <1>8 DEF FlushCnt
<1>9. CASE Flushed
  BY <1>9 DEF Flushed
<1>10. CASE DaemonCrash
  BY <1>10 DEF DaemonCrash
<1> QED
  BY <1>1, <1>2, <1>3, <1>4, <1>5, <1>6, <1>7, <1>8, <1>9, <1>10, Zenon
     DEF Request, DaemonStep

\* The program (and the arrival of a packet) writes nothing the daemon owns.
LEMMA PacketFrame ==
  ASSUME NEW p \in Packets,
         PacketStep(p) \/ \E t \in Topics : Arrive(p, t)
  PROVE  UNCHANGED <<topic_sub_array, topic_sub_cnt, daemon, asked, maybe, torn>>
BY DEF PacketStep, Arrive, XdpOriginal, XdpClone, CloneLost, ClonesDone, Shared,
       maps, members

\* One copy less is left.
LEMMA OneCopyLess ==
  ASSUME TypeOK, NEW p \in Packets, NEW k \in left[p]
  PROVE  Cardinality(left[p] \ {k}) = Cardinality(left[p]) - 1
<1>1. IsFiniteSet(left[p])
  BY CopyNumbers DEF TypeOK
<1> QED BY <1>1, FS_RemoveElement

\* Every step of a packet keeps the types.
LEMMA TypePacket ==
  ASSUME IInv, NEW p \in Packets,
         PacketStep(p) \/ \E t \in Topics : Arrive(p, t)
  PROVE  TypeOK'
<1> USE NoneType DEF IInv, TypeOK, Live, Move, Shared, maps, members, promise
<1>1. ASSUME NEW t \in Topics, Arrive(p, t) PROVE TypeOK'
  BY <1>1 DEF Arrive
<1>2. CASE XdpOriginal(p)
  <2>1. CountOf(topic[p]) \in 0..MAX_SUBSCRIBERS
    BY <1>2, CountType DEF XdpOriginal, PacketInv
  <2>2. 1..CountOf(topic[p]) \in SUBSET (1..MAX_SUBSCRIBERS)
    BY <2>1
  <2> QED BY <1>2, <2>2 DEF XdpOriginal
<1>3. ASSUME NEW k \in 1..MAX_SUBSCRIBERS, XdpClone(p, k) \/ CloneLost(p, k)
      PROVE  TypeOK'
  <2> DEFINE dest == topic_sub_array[topic[p]][k - 1]
  <2>1. k - 1 \in Slots
    BY DEF Slots
  <2>2. dest \in Clients \cup {NoAddr}
    BY <1>3, <2>1 DEF XdpClone, CloneLost, PacketInv, Known, Arrays
  <2>3. Cardinality(left[p]) > 0
    <3>1. k \in left[p] /\ left[p] # {}
      BY <1>3 DEF XdpClone, CloneLost
    <3>2. IsFiniteSet(left[p]) /\ Cardinality(left[p]) \in Nat
      BY CopyNumbers
    <3> QED BY <3>1, <3>2, FS_EmptySet
  <2>4. \A c \in Clients : /\ sent[p][c] + 1 \in 0..MAX_SUBSCRIBERS
                           /\ failed[p][c] + 1 \in 0..MAX_SUBSCRIBERS
    <3> TAKE c \in Clients
    <3>1. sent[p][c] + failed[p][c] + Cardinality(left[p]) <= MAX_SUBSCRIBERS
      BY <1>3 DEF XdpClone, CloneLost, PacketInv
    <3>2. Cardinality(left[p]) \in Nat
      BY RemainingType
    <3>3. sent[p][c] \in Nat /\ failed[p][c] \in Nat
      BY DEF Tally
    <3> HIDE DEF IInv, TypeOK, maps, members, promise
    <3> QED BY <2>3, <3>1, <3>2, <3>3, OneMore, Zenon
  <2>5. sent' \in [Packets -> Tally] /\ failed' \in [Packets -> Tally]
    <3>1. CASE XdpClone(p, k)
      <4>1. UNCHANGED failed
        BY <3>1 DEF XdpClone
      <4>2. CASE UNCHANGED sent
        BY <4>1, <4>2
      <4>3. CASE dest \in Clients /\ sent' = [sent EXCEPT ![p][dest] = @ + 1]
        BY <2>4, <4>1, <4>3, Zenon DEF Tally
      <4> QED BY <2>1, <2>2, <3>1, <4>2, <4>3 DEF XdpClone, SlotOf
    <3>2. CASE CloneLost(p, k)
      BY <2>2, <2>4, <3>2, Zenon DEF CloneLost, Tally
    <3> QED BY <1>3, <3>1, <3>2
  <2>6. /\ left' = [left EXCEPT ![p] = @ \ {k}] /\ UNCHANGED <<Shared, pc>>
        /\ stray' = stray \/ stray' = stray \cup {p}
    BY <1>3 DEF XdpClone, CloneLost
  <2>7. left' \in [Packets -> SUBSET (1..MAX_SUBSCRIBERS)] /\ stray' \in SUBSET Packets
    BY <2>6
  <2> QED BY <2>5, <2>6, <2>7
<1>4. CASE ClonesDone(p)
  BY <1>4 DEF ClonesDone
<1> QED
  BY <1>1, <1>2, <1>3, <1>4 DEF PacketStep

\* Room in the outer map is room in the map of the counts.
LEMMA RoomForKnown ==
  ASSUME TypeOK, KeysInv, NEW t \in Topics, Known(t)
  PROVE  Fits(topic_sub_cnt, t)
<1> DEFINE outer == Keys(topic_sub_array)
           counts == Keys(topic_sub_cnt)
<1>1. t \in outer /\ counts \subseteq outer /\ IsFiniteSet(outer)
  BY DEF Known, Keys, KeysInv
<1>2. CASE t \notin counts
  <2>1. IsFiniteSet(outer \ {t}) /\ Cardinality(outer \ {t}) = Cardinality(outer) - 1
    <3> HIDE DEF outer
    <3> QED BY <1>1, FS_RemoveElement
  <2>2. Cardinality(counts) <= Cardinality(outer \ {t})
    BY <1>1, <1>2, <2>1, FS_Subset
  <2>3. Cardinality(outer) \in Nat /\ Cardinality(counts) \in Nat
    BY <1>1, FS_CardinalityType, FS_Subset
  <2> QED BY <2>1, <2>2, <2>3 DEF KeysInv, Fits
<1> QED BY <1>2 DEF Fits

\* A new request: what the daemon starts with.
LEMMA NewSubscribe ==
  ASSUME NEW t \in Topics, NEW c \in Clients, RecvSubscribe(c, t)
  PROVE  /\ daemon'.topic = t
         /\ daemon'.client = c
         /\ \/ daemon'.pc = "sub_slot" /\ daemon'.ret = 0 /\ Known(t)
            \/ daemon'.pc = "suback" /\ daemon'.ret = -1
<1>1. PICK fd \in BOOLEAN :
        daemon' = [Idle EXCEPT !.pc     = IF Known(t) /\ fd THEN "sub_slot" ELSE "suback",
                               !.topic  = t,
                               !.client = c,
                               !.ret    = IF Known(t) /\ fd THEN 0 ELSE -1]
  BY DEF RecvSubscribe
<1>2. CASE Known(t) /\ fd
  BY <1>1, <1>2 DEF Idle
<1>3. CASE ~(Known(t) /\ fd)
  BY <1>1, <1>3 DEF Idle
<1> QED BY <1>2, <1>3

LEMMA NewFlush ==
  ASSUME TypeOK, KeysInv, NEW t \in Topics, RecvFlush(t)
  PROVE  /\ daemon'.topic = t
         /\ \/ /\ daemon'.pc = "flush_slots" /\ daemon'.ret = 0 /\ daemon'.i = 0
               /\ Known(t)
               /\ asked' = [asked EXCEPT ![t] = None]
               /\ Overlap(t, {}, TRUE)
            \/ /\ daemon'.pc = "flushed"
               /\ daemon'.ret = 0 => CountOf(t) = 0
               /\ asked' = asked
               /\ Overlap(t, {}, FALSE)
<1>1. PICK fd \in BOOLEAN :
        LET some  == CountOf(t) # 0 /\ Known(t)
            start == some /\ fd
        IN
        /\ daemon' = [Idle EXCEPT !.pc    = IF start THEN "flush_slots" ELSE "flushed",
                                  !.topic = t,
                                  !.ret   = IF some /\ ~fd THEN -1 ELSE 0]
        /\ asked' = [asked EXCEPT ![t] = IF start THEN None ELSE @]
        /\ Overlap(t, {}, start)
  BY DEF RecvFlush
<1>2. CASE CountOf(t) # 0 /\ Known(t) /\ fd
  BY <1>1, <1>2 DEF Idle
<1>3. CASE CountOf(t) # 0 /\ Known(t) /\ ~fd
  <2>1. asked' = asked /\ Overlap(t, {}, FALSE)
    BY <1>1, <1>3 DEF TypeOK
  <2>2. daemon' = [Idle EXCEPT !.pc = "flushed", !.topic = t, !.ret = -1]
    BY <1>1, <1>3
  <2>3. daemon'.pc = "flushed" /\ daemon'.topic = t /\ daemon'.ret = -1
    BY <2>2 DEF Idle
  <2>4. daemon'.ret # 0
    BY <2>3
  <2> QED BY <2>1, <2>3, <2>4
<1>4. CASE ~(CountOf(t) # 0 /\ Known(t))
  <2>1. CountOf(t) = 0
    BY <1>4 DEF KeysInv, Keys, Known, CountOf
  <2>2. asked' = asked /\ Overlap(t, {}, FALSE)
    BY <1>1, <1>4 DEF TypeOK
  <2>3. daemon' = [Idle EXCEPT !.pc = "flushed", !.topic = t, !.ret = 0]
    BY <1>1, <1>4
  <2> QED BY <2>1, <2>2, <2>3 DEF Idle
<1> QED BY <1>2, <1>3, <1>4

\* add_subscriber's update of the count succeeds.
LEMMA CountSucceeds ==
  ASSUME IInv, SubCnt
  PROVE  /\ daemon.topic \in Topics /\ daemon.client \in Clients
         /\ topic_sub_cnt' = [topic_sub_cnt EXCEPT ![daemon.topic] = CountOf(daemon.topic) + 1]
         /\ daemon' = [daemon EXCEPT !.pc = "suback"]
<1>1. At("sub_cnt") /\ daemon.topic \in Topics /\ Known(daemon.topic)
  BY DEF SubCnt, IInv, DaemonInv, At
<1>2. Fits(topic_sub_cnt, daemon.topic)
  BY <1>1, RoomForKnown DEF IInv
<1> QED BY <1>1, <1>2 DEF SubCnt, NextCount, Goto, IInv, DaemonInv, At

\* flush_topic's update of the count succeeds.
LEMMA ResetSucceeds ==
  ASSUME IInv, FlushCnt
  PROVE  /\ daemon.topic \in Topics
         /\ topic_sub_cnt' = [topic_sub_cnt EXCEPT ![daemon.topic] = 0]
         /\ daemon' = [daemon EXCEPT !.pc = "flushed"]
<1>1. At("flush_slots") /\ daemon.topic \in Topics /\ Known(daemon.topic)
  BY DEF FlushCnt, IInv, DaemonInv, At
<1>2. Fits(topic_sub_cnt, daemon.topic)
  BY <1>1, RoomForKnown DEF IInv
<1> QED BY <1>1, <1>2 DEF FlushCnt, Goto

\* Writing a slot neither adds nor removes an array.
LEMMA ArrayKept ==
  ASSUME TypeOK, NEW t \in Topics, Known(t), NEW k \in Slots, NEW a \in Clients \cup {NoAddr},
         topic_sub_array' = [topic_sub_array EXCEPT ![t][k] = a]
  PROVE  Keys(topic_sub_array)' = Keys(topic_sub_array)
<1>1. topic_sub_array[t] \in Arrays
  BY DEF TypeOK, Known
<1>2. [topic_sub_array[t] EXCEPT ![k] = a] \in Arrays
  BY <1>1 DEF Arrays
<1>3. topic_sub_array' = [topic_sub_array EXCEPT ![t] = [topic_sub_array[t] EXCEPT ![k] = a]]
  OBVIOUS
<1>4. topic_sub_array'[t] = [topic_sub_array[t] EXCEPT ![k] = a]
  BY <1>3 DEF TypeOK
<1>5. (topic_sub_array'[t] = Absent <=> topic_sub_array[t] = Absent)
  BY <1>1, <1>2, <1>4, ArrayPresent
<1> QED BY <1>3, <1>5 DEF Keys, TypeOK

\* No step of the daemon runs out of room in a topic map.
LEMMA KeysDaemon ==
  ASSUME IInv,
         (\E t \in Topics : Request(t)) \/ DaemonStep \/ DaemonCrash
  PROVE  KeysInv'
<1>1. ASSUME Keys(topic_sub_array)' = Keys(topic_sub_array),
             Keys(topic_sub_cnt)' \subseteq Keys(topic_sub_array)
      PROVE  KeysInv'
  BY <1>1 DEF IInv, KeysInv
<1>2. ASSUME NEW t \in Topics, Register(t) PROVE KeysInv'
  <2>1. Keys(topic_sub_cnt)' = Keys(topic_sub_cnt) /\ t \notin Keys(topic_sub_array)
    BY <1>2 DEF Register, Keys, Known
  <2>2. CASE Admits(t)
    <3>1. Keys(topic_sub_array)' = Keys(topic_sub_array) \cup {t}
      <4>1. topic_sub_array' = [topic_sub_array EXCEPT ![t] = [k \in Slots |-> NoAddr]]
        BY <1>2, <2>2 DEF Register
      <4>2. [k \in Slots |-> NoAddr] # Absent
        BY ArrayPresent DEF Arrays
      <4> QED BY <4>1, <4>2 DEF Keys, IInv, TypeOK
    <3>2. Cardinality(Keys(topic_sub_array)) < MAX_TOPIC_ID
      BY <2>1, <2>2 DEF Admits, Fits
    <3>3. /\ IsFiniteSet(Keys(topic_sub_array) \cup {t})
          /\ Cardinality(Keys(topic_sub_array) \cup {t})
               = Cardinality(Keys(topic_sub_array)) + 1
      BY <2>1, FS_AddElement DEF IInv, KeysInv
    <3>4. Cardinality(Keys(topic_sub_array)) \in Nat
      BY FS_CardinalityType DEF IInv, KeysInv
    <3> QED BY <2>1, <3>1, <3>2, <3>3, <3>4 DEF IInv, KeysInv
  <2>3. CASE ~Admits(t)
    <3>1. topic_sub_array' = topic_sub_array
      BY <1>2, <2>3 DEF Register, IInv, TypeOK
    <3> QED BY <1>1, <2>1, <3>1 DEF Keys, IInv, KeysInv
  <2> QED BY <2>2, <2>3
<1>3. CASE SubSlot
  <2>1. ASSUME NEW k \in Slots,
               topic_sub_array' = [topic_sub_array EXCEPT ![daemon.topic][k] = daemon.client]
        PROVE  Keys(topic_sub_array)' = Keys(topic_sub_array)
    BY <1>3, <2>1, ArrayKept DEF SubSlot, IInv, DaemonInv, At
  <2>2. Keys(topic_sub_array)' = Keys(topic_sub_array)
    BY <1>3, <2>1 DEF SubSlot, Keys
  <2> QED BY <1>1, <1>3, <2>2 DEF SubSlot, IInv, KeysInv, Keys
<1>4. CASE SubCnt
  <2>1. Keys(topic_sub_cnt)' \subseteq Keys(topic_sub_cnt) \cup {daemon.topic}
    BY <1>4, CountSucceeds DEF Keys, IInv, TypeOK
  <2>2. Keys(topic_sub_array)' = Keys(topic_sub_array) /\ daemon.topic \in Keys(topic_sub_array)
    BY <1>4 DEF SubCnt, Keys, IInv, DaemonInv, At, Known
  <2> QED BY <1>1, <2>1, <2>2 DEF IInv, KeysInv
<1>5. CASE FlushSlot
  <2>1. daemon.i \in Slots
    BY <1>5, CountType DEF FlushSlot, IInv, TypeOK, DaemonInv, At, Slots
  <2>2. Keys(topic_sub_array)' = Keys(topic_sub_array)
    BY <1>5, <2>1, ArrayKept DEF FlushSlot, IInv, DaemonInv, At
  <2> QED BY <1>1, <1>5, <2>2 DEF FlushSlot, IInv, KeysInv, Keys
<1>6. CASE FlushCnt
  <2>1. Keys(topic_sub_cnt)' \subseteq Keys(topic_sub_cnt) \cup {daemon.topic}
    BY <1>6, ResetSucceeds DEF Keys, IInv, TypeOK
  <2>2. Keys(topic_sub_array)' = Keys(topic_sub_array) /\ daemon.topic \in Keys(topic_sub_array)
    BY <1>6 DEF FlushCnt, Keys, IInv, DaemonInv, At, Known
  <2> QED BY <1>1, <2>1, <2>2 DEF IInv, KeysInv
<1>7. CASE \/ \E t \in Topics : RecvFlush(t)
           \/ \E t \in Topics, c \in Clients : RecvSubscribe(c, t)
           \/ SubAck \/ Flushed \/ DaemonCrash
  BY <1>1, <1>7, Zenon DEF RecvFlush, RecvSubscribe, SubAck, Flushed, DaemonCrash, IInv, KeysInv,
                    Keys, maps
<1> QED
  BY <1>2, <1>3, <1>4, <1>5, <1>6, <1>7 DEF Request, DaemonStep

\* No step of the daemon but flush_topic's touches a slot below the count or takes
\* from the count, and only the update of the count adds to it.
LEMMA SlotsKept ==
  ASSUME IInv,
         (\E t \in Topics : Request(t)) \/ DaemonStep \/ DaemonCrash,
         NEW u \in Topics,
         daemon.topic = u => ~FlushSlot /\ ~FlushCnt
  PROVE  /\ \A k \in 1..CountOf(u) :
              topic_sub_array'[u][k - 1] = topic_sub_array[u][k - 1]
         /\ \/ CountOf(u)' = CountOf(u)
            \/ SubCnt /\ daemon.topic = u /\ CountOf(u)' = CountOf(u) + 1
<1> USE DEF IInv, maps
<1>1. ASSUME NEW t \in Topics, Register(t)
      PROVE  /\ CountOf(u)' = CountOf(u)
             /\ u # t => topic_sub_array'[u] = topic_sub_array[u]
             /\ u = t => CountOf(u) = 0
             /\ At("recv")
  BY <1>1 DEF Register, CountOf, TypeOK, Known, KeysInv, Keys
<1>2. CASE SubSlot
  <2> DEFINE t == daemon.topic
  <2>1. /\ t \in Topics /\ Known(t) /\ At("sub_slot")
        /\ CountOf(u)' = CountOf(u)
    BY <1>2 DEF SubSlot, DaemonInv, At, CountOf
  <2>2. CASE UNCHANGED topic_sub_array
    BY <2>1, <2>2 DEF At
  <2>3. CASE /\ CountOf(t) \in Slots
             /\ topic_sub_array' = [topic_sub_array EXCEPT ![t][CountOf(t)] = daemon.client]
    <3>1. CASE u # t
      BY <2>1, <2>3, <3>1 DEF TypeOK, At
    <3>2. CASE u = t
      <4> SUFFICES ASSUME NEW k \in 1..CountOf(u)
                   PROVE  topic_sub_array'[u][k - 1] = topic_sub_array[u][k - 1]
        BY <2>1 DEF At
      <4>1. topic_sub_array[t] \in Arrays
        BY <2>1 DEF TypeOK, Known
      <4>2. k - 1 \in Slots /\ k - 1 # CountOf(t)
        BY <3>2, CountType DEF Slots
      <4> QED BY <2>1, <2>3, <3>2, <4>1, <4>2 DEF Arrays, TypeOK
    <3> QED BY <3>1, <3>2
  <2> QED BY <1>2, <2>2, <2>3 DEF SubSlot, FreeSlot
<1>3. CASE SubCnt
  BY <1>3, CountSucceeds DEF SubCnt, CountOf, TypeOK
<1>4. CASE FlushSlot
  BY <1>4 DEF FlushSlot, CountOf, TypeOK, DaemonInv, At
<1>5. CASE FlushCnt
  BY <1>5, ResetSucceeds DEF FlushCnt, CountOf, TypeOK, At
<1>6. CASE \/ \E t \in Topics : RecvFlush(t)
           \/ \E t \in Topics, c \in Clients : RecvSubscribe(c, t)
           \/ SubAck \/ Flushed
  BY <1>6, Zenon DEF RecvFlush, RecvSubscribe, SubAck, Flushed, At, CountOf
<1>7. CASE DaemonCrash
  BY <1>7 DEF DaemonCrash, CountOf
<1> QED
  BY <1>1, <1>2, <1>3, <1>4, <1>5, <1>6, <1>7 DEF Request, DaemonStep, At

\* Every step of the daemon leaves behind what its next step relies on.
LEMMA DaemonDaemon ==
  ASSUME IInv,
         (\E t \in Topics : Request(t)) \/ DaemonStep \/ DaemonCrash
  PROVE  DaemonInv'
<1> USE DEF IInv, TypeOK, DaemonInv, DaemonPcs, At, Known, CountOf, maps, members
<1>1. ASSUME NEW t \in Topics, Register(t) PROVE DaemonInv'
  BY <1>1 DEF Register
<1>2. ASSUME NEW t \in Topics, NEW c \in Clients, RecvSubscribe(c, t) PROVE DaemonInv'
  <2>1. c \in maybe'[t] /\ UNCHANGED <<topic_sub_array, topic_sub_cnt, asked>>
    BY <1>2 DEF RecvSubscribe
  <2>2. /\ daemon'.topic = t /\ daemon'.client = c
        /\ \/ daemon'.pc = "sub_slot" /\ daemon'.ret = 0 /\ Known(t)
           \/ daemon'.pc = "suback" /\ daemon'.ret = -1
    BY <1>2, NewSubscribe
  <2> QED BY <2>1, <2>2
<1>3. ASSUME NEW t \in Topics, RecvFlush(t) PROVE DaemonInv'
  <2>1. UNCHANGED <<topic_sub_array, topic_sub_cnt>> /\ 0 <= CountOf(t)
    BY <1>3, CountType DEF RecvFlush
  <2>2. CASE /\ daemon'.pc = "flush_slots" /\ daemon'.topic = t /\ daemon'.ret = 0
             /\ daemon'.i = 0 /\ Known(t)
             /\ asked' = [asked EXCEPT ![t] = None]
    BY <2>1, <2>2
  <2>3. CASE /\ daemon'.pc = "flushed" /\ daemon'.topic = t
             /\ daemon'.ret = 0 => CountOf(t) = 0
    BY <2>1, <2>3
  <2> QED BY <1>3, <2>2, <2>3, NewFlush, Zenon
<1>4. CASE SubSlot
  <2> DEFINE t == daemon.topic
  <2>1. t \in Topics /\ daemon.client \in Clients /\ topic_sub_array[t] \in Arrays
    BY <1>4 DEF SubSlot
  <2>2. CASE GiveUp
    <3>1. daemon'.pc = "suback" /\ UNCHANGED <<maybe, asked>>
          /\ daemon'.topic = t /\ daemon'.client = daemon.client
      BY <1>4, <2>2 DEF SubSlot, GiveUp
    <3> QED BY <1>4, <2>1, <3>1 DEF SubSlot
  <2>3. CASE /\ CountOf(t) \in Slots
             /\ topic_sub_array' = [topic_sub_array EXCEPT ![t][CountOf(t)] = daemon.client]
             /\ Goto("sub_cnt")
    <3>1. /\ topic_sub_array'[t] # Absent
          /\ topic_sub_array'[t][CountOf(t)] = daemon.client
      <4>1. topic_sub_array'[t] = [topic_sub_array[t] EXCEPT ![CountOf(t)] = daemon.client]
        BY <2>1, <2>3
      <4>2. topic_sub_array'[t] \in Arrays
        BY <2>1, <2>3, <4>1 DEF Arrays
      <4> QED BY <2>1, <2>3, <4>1, <4>2, ArrayPresent DEF Arrays
    <3>2. daemon'.pc = "sub_cnt" /\ daemon'.topic = t /\ daemon'.client = daemon.client
          /\ daemon'.ret = daemon.ret /\ UNCHANGED <<maybe, asked, topic_sub_cnt>>
      BY <1>4, <2>3 DEF SubSlot, Goto
    <3> QED BY <1>4, <2>1, <2>3, <3>1, <3>2 DEF SubSlot
  <2> QED BY <1>4, <2>2, <2>3 DEF SubSlot, FreeSlot
<1>5. CASE SubCnt
  <2>1. /\ daemon'.pc = "suback" /\ daemon'.topic = daemon.topic
        /\ daemon'.client = daemon.client /\ UNCHANGED maybe
    BY <1>5, CountSucceeds DEF SubCnt
  <2> QED BY <1>5, <2>1 DEF SubCnt
<1>6. CASE SubAck \/ Flushed \/ DaemonCrash
  BY <1>6 DEF SubAck, Flushed, DaemonCrash, Idle
<1>7. CASE FlushSlot
  <2>1. daemon.i \in Slots
    BY <1>7, CountType DEF FlushSlot, Slots
  <2>2. topic_sub_array[daemon.topic] \in Arrays /\ daemon.topic \in Topics
    BY <1>7 DEF FlushSlot
  <2>3. topic_sub_array'[daemon.topic] # Absent
    <3>1. topic_sub_array'[daemon.topic] = [topic_sub_array[daemon.topic] EXCEPT ![daemon.i] = NoAddr]
      BY <1>7, <2>2 DEF FlushSlot
    <3>2. topic_sub_array'[daemon.topic] \in Arrays
      BY <2>1, <2>2, <3>1 DEF Arrays
    <3> QED BY <3>2, ArrayPresent
  <2>4. /\ daemon'.pc = "flush_slots" /\ daemon'.topic = daemon.topic
        /\ daemon'.ret = daemon.ret /\ daemon'.i = daemon.i + 1
        /\ UNCHANGED <<topic_sub_cnt, asked>>
    BY <1>7 DEF FlushSlot
  <2>5. CountOf(daemon.topic) \in Nat /\ daemon.i < CountOf(daemon.topic)
    BY <1>7, <2>2, CountType DEF FlushSlot
  <2> QED BY <1>7, <2>2, <2>3, <2>4, <2>5 DEF FlushSlot
<1>8. CASE FlushCnt
  <2>1. daemon'.pc = "flushed" /\ daemon'.topic = daemon.topic
    BY <1>8, ResetSucceeds
  <2> QED BY <1>8, <2>1, ResetSucceeds DEF FlushCnt
<1> QED
  BY <1>1, <1>2, <1>3, <1>4, <1>5, <1>6, <1>7, <1>8 DEF Request, DaemonStep

\* The copies for c are the same when the slots below the count are.
LEMMA CopiesKept ==
  ASSUME NEW u \in Topics, NEW c \in Clients,
         CountOf(u)' = CountOf(u),
         \A k \in 1..CountOf(u) : topic_sub_array'[u][k - 1] = topic_sub_array[u][k - 1]
  PROVE  Copies(u, c)' = Copies(u, c)
BY DEF Copies

\* A SUBSCRIBE that updates the count adds one copy for its client.
LEMMA CopyAdded ==
  ASSUME IInv, SubCnt, NEW t \in Topics, t = daemon.topic, NEW c \in Clients
  PROVE  Cardinality(Copies(t, c))' =
           Cardinality(Copies(t, c)) + (IF c = daemon.client THEN 1 ELSE 0)
<1> DEFINE n == CountOf(t)
<1>1. /\ n \in Nat
      /\ CountOf(t)' = n + 1
      /\ topic_sub_array' = topic_sub_array
      /\ topic_sub_array[t][n] = daemon.client
  <2>1. n \in Nat
    BY CountType DEF IInv
  <2> QED BY <2>1, CountSucceeds DEF SubCnt, IInv, TypeOK, DaemonInv, CountOf, At
<1> DEFINE old == Copies(t, c)
<1>2. old \in SUBSET (1..n) /\ IsFiniteSet(old) /\ Cardinality(old) \in Nat
  <2>1. old \in SUBSET (1..n)
    BY DEF Copies
  <2> HIDE DEF n, old
  <2>2. IsFiniteSet(Copies(t, c)) /\ Cardinality(Copies(t, c)) \in Nat
    BY CopiesType DEF IInv
  <2> QED BY <2>1, <2>2 DEF old
<1>3. old = {k \in 1..n : topic_sub_array[t][k - 1] = c}
  BY DEF Copies
<1>4. Copies(t, c)' = {k \in 1..(n + 1) : topic_sub_array[t][k - 1] = c}
  BY <1>1 DEF Copies
<1> HIDE DEF n, old
<1>5. 1..(n + 1) = (1..n) \cup {n + 1} /\ n + 1 \notin 1..n /\ (n + 1) - 1 = n
  BY <1>1
<1>6. CASE c = daemon.client
  <2>1. Copies(t, c)' = old \cup {n + 1}
    BY <1>1, <1>3, <1>4, <1>5, <1>6
  <2>2. Cardinality(old \cup {n + 1}) = Cardinality(old) + 1
    BY <1>2, <1>5, FS_AddElement
  <2> QED BY <1>6, <2>1, <2>2 DEF old
<1>7. CASE c # daemon.client
  <2>1. Copies(t, c)' = old
    BY <1>1, <1>3, <1>4, <1>5, <1>7
  <2> QED BY <1>2, <1>7, <2>1 DEF old
<1> QED BY <1>6, <1>7

\* What the steps that write neither the count nor a slot below it change.
LEMMA QuietStep ==
  ASSUME IInv,
         (\E t \in Topics : Request(t)) \/ DaemonStep \/ DaemonCrash,
         ~SubCnt, ~FlushSlot, ~FlushCnt,
         NEW u \in Topics
  PROVE  /\ maybe[u] \subseteq maybe'[u] \/ CountOf(u) = 0
         /\ \A c \in Clients :
              asked'[u][c] + Unanswered(u, c)' <= asked[u][c] + Unanswered(u, c)
         /\ u \notin torn' /\ ~(Busy(u) /\ At("flush_slots"))' =>
              \/ CountOf(u) = 0
              \/ /\ u \notin torn
                 /\ ~(Busy(u) /\ At("flush_slots"))
                 /\ \A c \in Clients :
                      asked'[u][c] + Unanswered(u, c)' = asked[u][c] + Unanswered(u, c)
<1> USE DEF IInv, TypeOK, Tally, DaemonInv, DaemonPcs, At, Busy, Unanswered, Acking, members
<1>1. ASSUME NEW t \in Topics, Register(t)
      PROVE  UNCHANGED <<daemon, asked, maybe, torn>>
  BY <1>1 DEF Register
<1>2. ASSUME NEW t \in Topics, NEW c \in Clients, RecvSubscribe(c, t)
      PROVE  /\ UNCHANGED <<asked, torn>>
             /\ daemon.pc = "recv" /\ daemon'.pc \in {"sub_slot", "suback"}
             /\ daemon'.pc = "suback" => daemon'.ret # 0
             /\ maybe[u] \subseteq maybe'[u]
  <2>1. \/ daemon'.pc = "sub_slot" /\ daemon'.ret = 0
        \/ daemon'.pc = "suback" /\ daemon'.ret = -1
    BY <1>2, NewSubscribe
  <2>2. /\ UNCHANGED <<asked, torn>> /\ daemon.pc = "recv"
        /\ maybe' = [maybe EXCEPT ![t] = @ \cup {c}]
    BY <1>2 DEF RecvSubscribe
  <2> QED BY <2>1, <2>2
<1>3. ASSUME NEW t \in Topics, RecvFlush(t)
      PROVE  /\ UNCHANGED <<maybe, torn>>
             /\ daemon.pc = "recv" /\ daemon'.pc \in {"flush_slots", "flushed"}
             /\ daemon'.topic = t
             /\ \/ asked' = asked
                \/ daemon'.pc = "flush_slots" /\ asked' = [asked EXCEPT ![t] = None]
  <2>1. UNCHANGED <<maybe, torn>> /\ daemon.pc = "recv"
    BY <1>3 DEF RecvFlush
  <2> QED BY <1>3, <2>1, NewFlush
<1>4. CASE SubSlot
  <2>1. /\ UNCHANGED <<asked, maybe, torn>>
        /\ daemon.pc = "sub_slot" /\ daemon'.topic = daemon.topic
        /\ \/ daemon'.pc = "sub_cnt"
           \/ daemon'.pc = "suback" /\ daemon'.ret = -1
    <3>1. UNCHANGED <<asked, maybe, torn>> /\ daemon.pc = "sub_slot" /\ (Goto("sub_cnt") \/ GiveUp)
      BY <1>4 DEF SubSlot
    <3>2. CASE Goto("sub_cnt")
      BY <3>1, <3>2 DEF Goto
    <3>3. CASE GiveUp
      BY <3>1, <3>3 DEF GiveUp
    <3> QED BY <3>1, <3>2, <3>3
  <2>2. daemon'.pc = "suback" => daemon'.ret # 0
    BY <2>1
  <2> QED BY <2>1, <2>2
<1>5. CASE SubAck
  <2>1. /\ UNCHANGED <<maybe, torn>>
        /\ daemon.pc = "suback" /\ daemon'.pc = "recv"
        /\ daemon.topic \in Topics /\ daemon.client \in Clients
    BY <1>5 DEF SubAck, Idle
  <2>2. CASE daemon.ret = 0
    <3>1. asked' = [asked EXCEPT ![daemon.topic][daemon.client] = @ + 1]
      BY <1>5, <2>2 DEF SubAck
    <3>2. \A c \in Clients : asked'[u][c] =
            asked[u][c] + (IF u = daemon.topic /\ c = daemon.client THEN 1 ELSE 0)
      BY <2>1, <3>1
    <3> QED BY <2>1, <2>2, <3>2
  <2>3. CASE daemon.ret # 0
    <3>1. asked' = asked
      BY <1>5, <2>3 DEF SubAck
    <3> QED BY <2>1, <2>3, <3>1
  <2> QED BY <2>2, <2>3
<1>6. CASE Flushed
  <2>1. UNCHANGED asked /\ daemon.pc = "flushed" /\ daemon'.pc = "recv"
    BY <1>6 DEF Flushed, Idle
  <2>2. CASE u = daemon.topic /\ daemon.ret = 0
    BY <2>1, <2>2
  <2>3. CASE ~(u = daemon.topic /\ daemon.ret = 0)
    <3>1. maybe'[u] = maybe[u] /\ (u \in torn' <=> u \in torn)
      BY <1>6, <2>3 DEF Flushed
    <3> QED BY <2>1, <3>1
  <2> QED BY <2>2, <2>3
<1>7. CASE DaemonCrash
  <2>1. /\ UNCHANGED <<asked, maybe>> /\ daemon.pc # "recv" /\ daemon'.pc = "recv"
        /\ torn' = torn \cup {daemon.topic}
    BY <1>7 DEF DaemonCrash, Idle
  <2> QED BY <2>1
<1>8. CASE \E t \in Topics : Register(t)
  <2>1. UNCHANGED <<daemon, asked, maybe, torn>>
    BY <1>1, <1>8
  <2> QED BY <2>1
<1>9. CASE \E t \in Topics, c \in Clients : RecvSubscribe(c, t)
  <2>1. PICK t \in Topics, c \in Clients : RecvSubscribe(c, t)
    BY <1>9
  <2>2. /\ UNCHANGED <<asked, torn>>
        /\ daemon.pc = "recv" /\ daemon'.pc \in {"sub_slot", "suback"}
        /\ daemon'.pc = "suback" => daemon'.ret # 0
        /\ maybe[u] \subseteq maybe'[u]
    BY <1>2, <2>1
  <2> QED BY <2>2
<1>10. CASE \E t \in Topics : RecvFlush(t)
  <2> PICK t \in Topics : RecvFlush(t)
    BY <1>10
  <2>1. /\ UNCHANGED <<maybe, torn>>
        /\ daemon.pc = "recv" /\ daemon'.pc \in {"flush_slots", "flushed"}
        /\ daemon'.topic = t
    BY <1>3
  <2>2. CASE asked' = asked
    BY <2>1, <2>2
  <2>3. CASE daemon'.pc = "flush_slots" /\ asked' = [asked EXCEPT ![t] = None]
    <3>1. CASE u = t
      BY <2>1, <2>3, <3>1, NoneType
    <3>2. CASE u # t
      BY <2>1, <2>3, <3>2
    <3> QED BY <3>1, <3>2
  <2> QED BY <1>3, <2>2, <2>3
<1> QED
  BY <1>4, <1>5, <1>6, <1>7, <1>8, <1>9, <1>10 DEF Request, DaemonStep

\* Every step of the daemon keeps enough copies for those acknowledged.
LEMMA SlotsDaemon ==
  ASSUME IInv,
         (\E t \in Topics : Request(t)) \/ DaemonStep \/ DaemonCrash
  PROVE  SlotsInv'
<1> SUFFICES ASSUME NEW u \in Topics
    PROVE  /\ \A k \in 1..CountOf(u)' : topic_sub_array'[u][k - 1] \in maybe'[u] \cup {NoAddr}
           /\ \A c \in Clients :
                asked'[u][c] + Unanswered(u, c)' <= Cardinality(Copies(u, c))'
  BY DEF SlotsInv
<1>1. /\ \A k \in 1..CountOf(u) : topic_sub_array[u][k - 1] \in maybe[u] \cup {NoAddr}
      /\ CountOf(u) \in Nat
      /\ \A c \in Clients :
           /\ asked[u][c] + Unanswered(u, c) <= Cardinality(Copies(u, c))
           /\ asked[u][c] \in Nat /\ Unanswered(u, c) \in {0, 1}
           /\ Cardinality(Copies(u, c)) \in Nat
  BY CopiesType, CountType DEF IInv, SlotsInv, TypeOK, Tally, Unanswered
<1>2. TypeOK'
  BY TypeDaemon
<1>3. \A c \in Clients :
        /\ asked'[u][c] \in Nat /\ Unanswered(u, c)' \in {0, 1}
        /\ Cardinality(Copies(u, c))' \in Nat
  BY <1>2, CopiesNext DEF TypeOK, Tally, Unanswered
<1>4. CASE ~SubCnt /\ ~FlushSlot /\ ~FlushCnt
  <2>1. /\ \A k \in 1..CountOf(u) : topic_sub_array'[u][k - 1] = topic_sub_array[u][k - 1]
        /\ CountOf(u)' = CountOf(u)
    BY <1>4, SlotsKept
  <2>2. \A c \in Clients : Copies(u, c)' = Copies(u, c)
    BY <2>1, CopiesKept
  <2>3. /\ maybe[u] \subseteq maybe'[u] \/ CountOf(u) = 0
        /\ \A c \in Clients :
             asked'[u][c] + Unanswered(u, c)' <= asked[u][c] + Unanswered(u, c)
    BY <1>4, QuietStep
  <2>4. \A k \in 1..CountOf(u)' : topic_sub_array'[u][k - 1] \in maybe'[u] \cup {NoAddr}
    BY <1>1, <2>1, <2>3
  <2>5. ASSUME NEW c \in Clients
        PROVE  (asked[u][c] + Unanswered(u, c) <= Cardinality(Copies(u, c)))'
    <3>1. Cardinality(Copies(u, c))' = Cardinality(Copies(u, c))
      BY <2>2
    <3>2. asked[u][c] + Unanswered(u, c) \in Int /\ Cardinality(Copies(u, c)) \in Int
      BY <1>1
    <3>3. asked'[u][c] + Unanswered(u, c)' \in Int
      BY <1>3
    <3> QED BY <1>1, <2>3, <3>1, <3>2, <3>3, StillWithin, Zenon
  <2> QED BY <2>4, <2>5
<1>5. CASE SubCnt
  <2>1. /\ UNCHANGED <<asked, maybe>>
        /\ daemon.pc = "sub_cnt" /\ daemon'.pc = "suback"
        /\ daemon'.topic = daemon.topic /\ daemon'.client = daemon.client /\ daemon'.ret = 0
    BY <1>5, CountSucceeds DEF SubCnt, IInv, TypeOK, DaemonInv, At, members
  <2>2. \A k \in 1..CountOf(u) : topic_sub_array'[u][k - 1] = topic_sub_array[u][k - 1]
    BY <1>5 DEF SubCnt
  <2>3. CASE u # daemon.topic
    <3>1. CountOf(u)' = CountOf(u)
      BY <1>5, <2>3, CountSucceeds DEF CountOf, IInv, TypeOK
    <3>2. \A c \in Clients : Copies(u, c)' = Copies(u, c)
      BY <2>2, <3>1, CopiesKept
    <3>3. \A c \in Clients : Unanswered(u, c)' = 0
      BY <2>1, <2>3 DEF Unanswered, Acking, At
    <3> QED BY <1>1, <1>3, <2>1, <2>2, <3>1, <3>2, <3>3
  <2>4. CASE u = daemon.topic
    <3>1. CountOf(u)' = CountOf(u) + 1 /\ topic_sub_array' = topic_sub_array
      BY <1>5, <2>4, CountSucceeds DEF SubCnt, CountOf, IInv, TypeOK
    <3>2. topic_sub_array[u][CountOf(u)] \in maybe[u]
      BY <2>1, <2>4 DEF IInv, DaemonInv, At
    <3>3. \A k \in 1..CountOf(u)' : topic_sub_array'[u][k - 1] \in maybe'[u] \cup {NoAddr}
      <4> SUFFICES ASSUME NEW k \in 1..(CountOf(u) + 1)
                   PROVE  topic_sub_array[u][k - 1] \in maybe[u] \cup {NoAddr}
        BY <2>1, <3>1
      <4>1. k \in 1..CountOf(u) \/ k - 1 = CountOf(u)
        BY <1>1
      <4> QED BY <1>1, <3>2, <4>1
    <3>4. ASSUME NEW c \in Clients
          PROVE  asked'[u][c] + Unanswered(u, c)' <= Cardinality(Copies(u, c))'
      <4>1. Unanswered(u, c)' = (IF c = daemon.client THEN 1 ELSE 0) /\ Unanswered(u, c) = 0
        BY <2>1, <2>4 DEF Unanswered, Acking, At
      <4>2. Cardinality(Copies(u, c))' =
              Cardinality(Copies(u, c)) + (IF c = daemon.client THEN 1 ELSE 0)
        BY <1>5, <2>4, CopyAdded
      <4> QED BY <1>1, <2>1, <4>1, <4>2
    <3> QED BY <3>3, <3>4
  <2> QED BY <2>3, <2>4
<1>6. CASE FlushSlot \/ FlushCnt
  <2>1. /\ UNCHANGED <<asked, maybe>>
        /\ daemon.pc = "flush_slots" /\ asked[daemon.topic] = None
        /\ daemon'.pc # "suback"
    BY <1>6, ResetSucceeds DEF FlushSlot, FlushCnt, IInv, TypeOK, DaemonInv, At, members
  <2>2. \A c \in Clients : Unanswered(u, c)' = 0
    BY <2>1 DEF Unanswered, Acking, At
  <2>3. CASE u # daemon.topic
    <3>1. /\ \A k \in 1..CountOf(u) : topic_sub_array'[u][k - 1] = topic_sub_array[u][k - 1]
          /\ CountOf(u)' = CountOf(u)
      BY <1>6, <2>1, <2>3, SlotsKept DEF SubCnt, At
    <3>2. \A c \in Clients : Copies(u, c)' = Copies(u, c)
      BY <3>1, CopiesKept
    <3> QED BY <1>1, <1>3, <2>1, <2>2, <3>1, <3>2
  <2>4. CASE u = daemon.topic
    <3>1. \A c \in Clients : asked'[u][c] = 0
      BY <2>1, <2>4, NoneType
    <3>2. \A k \in 1..CountOf(u)' : topic_sub_array'[u][k - 1] \in maybe'[u] \cup {NoAddr}
      <4>1. CASE FlushCnt
        BY <2>4, <4>1, ResetSucceeds DEF CountOf, IInv, TypeOK
      <4>2. CASE FlushSlot
        <5>1. CountOf(u)' = CountOf(u)
          BY <4>2 DEF FlushSlot, CountOf
        <5>2. \A k \in 1..CountOf(u) : \/ topic_sub_array'[u][k - 1] = NoAddr
                                       \/ topic_sub_array'[u][k - 1] = topic_sub_array[u][k - 1]
          <6>1. topic_sub_array[u] \in Arrays /\ Known(u)
            BY <2>1, <2>4 DEF IInv, TypeOK, DaemonInv, At, Known
          <6>2. topic_sub_array'[u] = [topic_sub_array[u] EXCEPT ![daemon.i] = NoAddr]
            BY <2>4, <4>2, <6>1 DEF FlushSlot, IInv, TypeOK
          <6>3. \A k \in 1..CountOf(u) : k - 1 \in Slots
            BY CountType DEF Slots, IInv
          <6> QED BY <6>1, <6>2, <6>3 DEF Arrays
        <5> QED BY <1>1, <2>1, <5>1, <5>2
      <4> QED BY <1>6, <4>1, <4>2
    <3> QED BY <1>3, <2>2, <3>1, <3>2
  <2> QED BY <2>3, <2>4
<1> QED BY <1>4, <1>5, <1>6

\* Every step of the daemon keeps the copies of a topic that is not torn exact.
LEMMA ExactDaemon ==
  ASSUME IInv,
         (\E t \in Topics : Request(t)) \/ DaemonStep \/ DaemonCrash
  PROVE  ExactInv'
<1> SUFFICES ASSUME NEW u \in Topics, u \notin torn', ~(Busy(u) /\ At("flush_slots"))'
    PROVE  /\ \A k \in 1..CountOf(u)' : topic_sub_array'[u][k - 1] # NoAddr
           /\ \A c \in Clients :
                asked'[u][c] + Unanswered(u, c)' = Cardinality(Copies(u, c))'
  BY DEF ExactInv
<1>1. CASE CountOf(u)' = 0
  <2>1. \A c \in Clients : Cardinality(Copies(u, c))' = 0
    <3>1. \A c \in Clients : Copies(u, c)' = {}
      BY <1>1 DEF Copies
    <3> QED BY <3>1, FS_EmptySet
  <2>2. \A c \in Clients : /\ asked'[u][c] \in Nat /\ Unanswered(u, c)' \in {0, 1}
                           /\ asked'[u][c] + Unanswered(u, c)' <= Cardinality(Copies(u, c))'
    BY TypeDaemon, SlotsDaemon DEF TypeOK, Tally, Unanswered, SlotsInv
  <2> QED BY <1>1, <2>1, <2>2
<1>2. CASE ~SubCnt /\ ~FlushSlot /\ ~FlushCnt /\ CountOf(u)' # 0
  <2>1. /\ \A k \in 1..CountOf(u) : topic_sub_array'[u][k - 1] = topic_sub_array[u][k - 1]
        /\ CountOf(u)' = CountOf(u)
    BY <1>2, SlotsKept
  <2>2. \A c \in Clients : Copies(u, c)' = Copies(u, c)
    BY <2>1, CopiesKept
  <2>3. /\ u \notin torn
        /\ ~(Busy(u) /\ At("flush_slots"))
        /\ \A c \in Clients :
             asked'[u][c] + Unanswered(u, c)' = asked[u][c] + Unanswered(u, c)
    BY <1>2, <2>1, QuietStep
  <2> QED BY <2>1, <2>2, <2>3 DEF IInv, ExactInv
<1>3. CASE SubCnt
  <2>1. /\ UNCHANGED <<asked, torn>>
        /\ daemon.pc = "sub_cnt" /\ daemon'.pc = "suback"
        /\ daemon'.topic = daemon.topic /\ daemon'.client = daemon.client /\ daemon'.ret = 0
    BY <1>3, CountSucceeds DEF SubCnt, IInv, TypeOK, DaemonInv, At, members
  <2>2. /\ \A k \in 1..CountOf(u) : topic_sub_array[u][k - 1] # NoAddr
        /\ \A c \in Clients :
             asked[u][c] + Unanswered(u, c) = Cardinality(Copies(u, c))
    BY <2>1 DEF IInv, ExactInv, At
  <2>3. \A c \in Clients : asked[u][c] \in Nat
    BY DEF IInv, TypeOK, Tally
  <2>4. CASE u # daemon.topic
    <3>1. CountOf(u)' = CountOf(u) /\ topic_sub_array' = topic_sub_array
      BY <1>3, <2>4, CountSucceeds DEF SubCnt, CountOf, IInv, TypeOK
    <3>2. \A c \in Clients : Copies(u, c)' = Copies(u, c)
      BY <3>1, CopiesKept
    <3>3. \A c \in Clients : Unanswered(u, c)' = 0 /\ Unanswered(u, c) = 0
      BY <2>1, <2>4 DEF Unanswered, Acking, At
    <3> QED BY <2>1, <2>2, <3>1, <3>2, <3>3
  <2>5. CASE u = daemon.topic
    <3>1. CountOf(u)' = CountOf(u) + 1 /\ topic_sub_array' = topic_sub_array /\ CountOf(u) \in Nat
      BY <1>3, <2>5, CountSucceeds, CountType DEF SubCnt, CountOf, IInv, TypeOK
    <3>2. topic_sub_array[u][CountOf(u)] # NoAddr
      BY <2>1, <2>5 DEF IInv, DaemonInv, At
    <3>3. \A k \in 1..CountOf(u)' : topic_sub_array'[u][k - 1] # NoAddr
      <4> SUFFICES ASSUME NEW k \in 1..(CountOf(u) + 1)
                   PROVE  topic_sub_array[u][k - 1] # NoAddr
        BY <3>1
      <4>1. k \in 1..CountOf(u) \/ k - 1 = CountOf(u)
        BY <3>1
      <4> QED BY <2>2, <3>2, <4>1
    <3>4. ASSUME NEW c \in Clients
          PROVE  asked'[u][c] + Unanswered(u, c)' = Cardinality(Copies(u, c))'
      <4>1. Unanswered(u, c)' = (IF c = daemon.client THEN 1 ELSE 0) /\ Unanswered(u, c) = 0
        BY <2>1, <2>5 DEF Unanswered, Acking, At
      <4>2. Cardinality(Copies(u, c))' =
              Cardinality(Copies(u, c)) + (IF c = daemon.client THEN 1 ELSE 0)
        BY <1>3, <2>5, CopyAdded
      <4> QED BY <2>1, <2>2, <2>3, <4>1, <4>2
    <3> QED BY <3>3, <3>4
  <2> QED BY <2>4, <2>5
<1>4. CASE FlushSlot \/ FlushCnt
  <2>1. /\ UNCHANGED <<asked, torn>>
        /\ daemon.pc = "flush_slots" /\ daemon'.topic = daemon.topic
        /\ FlushSlot => daemon'.pc = "flush_slots"
        /\ daemon'.pc # "suback"
    BY <1>4, ResetSucceeds DEF FlushSlot, FlushCnt, IInv, TypeOK, At, members
  <2>2. CASE u # daemon.topic
    <3>1. /\ \A k \in 1..CountOf(u) : topic_sub_array'[u][k - 1] = topic_sub_array[u][k - 1]
          /\ CountOf(u)' = CountOf(u)
      BY <1>4, <2>1, <2>2, SlotsKept DEF SubCnt, At
    <3>2. \A c \in Clients : Copies(u, c)' = Copies(u, c)
      BY <3>1, CopiesKept
    <3>3. \A c \in Clients : Unanswered(u, c)' = 0 /\ Unanswered(u, c) = 0
      BY <2>1 DEF Unanswered, Acking, At
    <3>4. ~Busy(u)
      BY <2>2 DEF Busy
    <3> QED BY <2>1, <3>1, <3>2, <3>3, <3>4 DEF IInv, ExactInv
  <2>3. CASE u = daemon.topic
    <3>1. FlushCnt
      BY <1>4, <2>1, <2>3 DEF Busy, At
    <3>2. CountOf(u)' = 0
      BY <2>3, <3>1, ResetSucceeds DEF CountOf, IInv, TypeOK
    <3> QED BY <1>1, <3>2
  <2> QED BY <2>2, <2>3
<1> QED BY <1>1, <1>2, <1>3, <1>4

\* What a step of the daemon may write to a slot: nothing, zero, or its client.
LEMMA SlotWritten ==
  ASSUME IInv,
         (\E t \in Topics : Request(t)) \/ DaemonStep \/ DaemonCrash,
         NEW u \in Topics, Known(u)
  PROVE  /\ Known(u)'
         /\ \A k \in Slots :
              \/ topic_sub_array'[u][k] \in {topic_sub_array[u][k], NoAddr}
              \/ topic_sub_array'[u][k] \in maybe[u]
<1> USE DEF IInv, TypeOK, DaemonInv, At, Known, maps
<1>1. ASSUME NEW i \in Slots, NEW a \in Clients \cup {NoAddr}, daemon.topic \in Topics,
             topic_sub_array' = [topic_sub_array EXCEPT ![daemon.topic][i] = a],
             a = NoAddr \/ a \in maybe[daemon.topic]
      PROVE  /\ Known(u)'
             /\ \A k \in Slots :
                  \/ topic_sub_array'[u][k] \in {topic_sub_array[u][k], NoAddr}
                  \/ topic_sub_array'[u][k] \in maybe[u]
  <2>1. CASE u # daemon.topic
    BY <1>1, <2>1
  <2>2. CASE u = daemon.topic
    <3>1. topic_sub_array[u] \in Arrays
      OBVIOUS
    <3>2. topic_sub_array'[u] = [topic_sub_array[u] EXCEPT ![i] = a]
      BY <1>1, <2>2
    <3>3. topic_sub_array'[u] \in Arrays
      BY <1>1, <3>1, <3>2 DEF Arrays
    <3>4. topic_sub_array'[u] # Absent
      BY <3>3, ArrayPresent
    <3>5. \A k \in Slots : topic_sub_array'[u][k] \in {topic_sub_array[u][k], a}
      BY <3>1, <3>2 DEF Arrays
    <3> QED BY <1>1, <2>2, <3>4, <3>5
  <2> QED BY <2>1, <2>2
<1>2. ASSUME NEW t \in Topics, Register(t) PROVE topic_sub_array'[u] = topic_sub_array[u]
  BY <1>2 DEF Register
<1>3. CASE SubSlot
  <2>1. CASE UNCHANGED topic_sub_array
    BY <2>1
  <2>2. CASE /\ CountOf(daemon.topic) \in Slots
             /\ topic_sub_array' = [topic_sub_array EXCEPT
                                      ![daemon.topic][CountOf(daemon.topic)] = daemon.client]
    <3>1. /\ daemon.topic \in Topics /\ daemon.client \in Clients
          /\ daemon.client \in maybe[daemon.topic]
      BY <1>3 DEF SubSlot
    <3> QED BY <1>1, <2>2, <3>1, Zenon
  <2> QED BY <1>3, <2>1, <2>2 DEF SubSlot, FreeSlot
<1>4. CASE FlushSlot
  <2>1. daemon.i \in Slots /\ daemon.topic \in Topics
    BY <1>4, CountType DEF FlushSlot, Slots
  <2> QED BY <1>1, <1>4, <2>1, Zenon DEF FlushSlot
<1>5. CASE \/ \E t \in Topics : RecvFlush(t)
           \/ \E t \in Topics, c \in Clients : RecvSubscribe(c, t)
           \/ SubCnt \/ SubAck \/ FlushCnt \/ Flushed \/ DaemonCrash
  <2>1. UNCHANGED topic_sub_array
    BY <1>5, Zenon DEF RecvFlush, RecvSubscribe, SubCnt, SubAck, FlushCnt, Flushed, DaemonCrash
  <2> QED BY <2>1
<1> QED
  BY <1>2, <1>3, <1>4, <1>5 DEF Request, DaemonStep

\* What a step of the daemon means for the packets in flight.
LEMMA PromiseKept ==
  ASSUME IInv,
         (\E t \in Topics : Request(t)) \/ DaemonStep \/ DaemonCrash,
         NEW p \in Packets
  PROVE  /\ UNCHANGED packet
         /\ elig[p] \subseteq elig'[p]
         /\ due'[p] = due[p] \/ (Live(p) /\ due'[p] = None)
         /\ Live(p) => /\ maybe'[topic[p]] \subseteq elig'[p]
                       /\ \A c \in Clients : due'[p][c] <= asked'[topic[p]][c]
<1> USE DEF IInv, TypeOK, PacketInv, Live, packet, members, promise
<1>1. ASSUME UNCHANGED <<packet, asked, maybe, promise>>
      PROVE  /\ UNCHANGED packet
             /\ elig[p] \subseteq elig'[p]
             /\ due'[p] = due[p]
             /\ Live(p) => /\ maybe'[topic[p]] \subseteq elig'[p]
                           /\ \A c \in Clients : due'[p][c] <= asked'[topic[p]][c]
  BY <1>1
<1>2. CASE (\E t \in Topics : Register(t)) \/ SubSlot \/ SubCnt \/ FlushSlot \/ FlushCnt
           \/ DaemonCrash
  <2>1. UNCHANGED <<packet, asked, maybe, promise>>
    BY <1>2 DEF Register, SubSlot, SubCnt, FlushSlot, FlushCnt, DaemonCrash
  <2> QED BY <1>1, <2>1
<1>3. ASSUME NEW t \in Topics, NEW c \in Clients, RecvSubscribe(c, t)
      PROVE  /\ UNCHANGED <<packet, asked>>
             /\ elig[p] \subseteq elig'[p]
             /\ due'[p] = due[p]
             /\ Live(p) => maybe'[topic[p]] \subseteq elig'[p]
  <2>1. /\ UNCHANGED <<packet, asked>>
        /\ maybe' = [maybe EXCEPT ![t] = @ \cup {c}]
        /\ Overlap(t, {c}, FALSE)
    BY <1>3, Zenon DEF RecvSubscribe
  <2>2. /\ due'[p] = due[p]
        /\ elig'[p] = IF Live(p) /\ topic[p] = t THEN elig[p] \cup {c} ELSE elig[p]
    BY <2>1 DEF Overlap
  <2> QED BY <2>1, <2>2
<1>4. ASSUME NEW t \in Topics, RecvFlush(t)
      PROVE  /\ UNCHANGED <<packet, maybe>>
             /\ elig'[p] = elig[p]
             /\ due'[p] = due[p] \/ (Live(p) /\ due'[p] = None)
             /\ Live(p) => \A c \in Clients : due'[p][c] <= asked'[topic[p]][c]
  <2>1. UNCHANGED <<packet, maybe>>
    BY <1>4 DEF RecvFlush
  <2>2. CASE asked' = asked /\ Overlap(t, {}, FALSE)
    BY <2>1, <2>2 DEF Overlap
  <2>3. CASE asked' = [asked EXCEPT ![t] = None] /\ Overlap(t, {}, TRUE)
    <3>1. /\ elig'[p] = elig[p]
          /\ due'[p] = IF Live(p) /\ topic[p] = t THEN None ELSE due[p]
      BY <2>3 DEF Overlap
    <3>2. Live(p) => \A c \in Clients : due'[p][c] <= asked'[topic[p]][c]
      BY <2>3, <3>1, NoneType
    <3> QED BY <2>1, <3>1, <3>2
  <2> QED BY <1>4, <2>2, <2>3, NewFlush, Zenon
<1>5. CASE SubAck
  <2>1. /\ UNCHANGED <<packet, maybe, promise>>
        /\ \/ asked' = asked
           \/ asked' = [asked EXCEPT ![daemon.topic][daemon.client] = @ + 1]
    BY <1>5 DEF SubAck
  <2>2. \A u \in Topics, c \in Clients : asked[u][c] <= asked'[u][c] /\ asked'[u][c] \in Nat
    <3>1. \A u \in Topics, c \in Clients : asked[u][c] \in Nat
      BY DEF Tally
    <3>2. \A u \in Topics, c \in Clients :
            asked'[u][c] = asked[u][c] \/ asked'[u][c] = asked[u][c] + 1
      <4>1. daemon.topic \in Topics /\ daemon.client \in Clients
        BY <1>5 DEF SubAck, DaemonInv, At
      <4>2. asked \in [Topics -> [Clients -> 0..MAX_SUBSCRIBERS]]
        BY DEF Tally
      <4> HIDE DEF IInv, TypeOK, PacketInv
      <4>3. CASE asked' = [asked EXCEPT ![daemon.topic][daemon.client] = @ + 1]
        BY <4>1, <4>2, <4>3
      <4> QED BY <2>1, <4>3
    <3> QED BY <3>1, <3>2
  <2>3. \A c \in Clients : due[p][c] \in Nat /\ \A u \in Topics : asked[u][c] \in Nat
    BY DEF Tally
  <2> QED BY <2>1, <2>2, <2>3
<1>6. CASE Flushed
  <2>1. /\ UNCHANGED <<packet, asked, promise>>
        /\ \A u \in Topics : maybe'[u] \subseteq maybe[u]
    BY <1>6 DEF Flushed
  <2> QED BY <2>1
<1>7. CASE \E t \in Topics, c \in Clients : RecvSubscribe(c, t)
  BY <1>3, <1>7
<1>8. CASE \E t \in Topics : RecvFlush(t)
  BY <1>4, <1>8
<1> QED
  BY <1>2, <1>5, <1>6, <1>7, <1>8 DEF Request, DaemonStep

\* The copies still to be made for a packet are the same when the slots it counts
\* on are.
LEMMA RemainingKept ==
  ASSUME NEW p \in Packets, NEW c \in Clients, UNCHANGED <<left, topic>>,
         left[p] \subseteq 1..CountOf(topic[p]),
         \A k \in 1..CountOf(topic[p]) :
           topic_sub_array'[topic[p]][k - 1] = topic_sub_array[topic[p]][k - 1]
  PROVE  Remaining(p, c)' = Remaining(p, c)
BY DEF Remaining

\* Every step of the daemon keeps the promises made to the packets in flight.
LEMMA PacketDaemon ==
  ASSUME IInv,
         (\E t \in Topics : Request(t)) \/ DaemonStep \/ DaemonCrash
  PROVE  PacketInv'
<1> SUFFICES ASSUME NEW p \in Packets PROVE PacketInv!(p)'
  BY DEF PacketInv
<1> DEFINE u == topic[p]
<1>1. /\ UNCHANGED <<pc, topic, left, sent, failed>>
      /\ elig[p] \subseteq elig'[p]
      /\ due'[p] = due[p] \/ (Live(p) /\ due'[p] = None)
      /\ Live(p) => /\ maybe'[u] \subseteq elig'[p]
                    /\ \A c \in Clients : due'[p][c] <= asked'[u][c]
  BY PromiseKept DEF packet
<1>2. PacketInv!(p)
  BY DEF IInv, PacketInv
<1>3. (Live(p) <=> Live(p)') /\ (Done(p) <=> Done(p)')
  BY <1>1 DEF Live, Done
<1>4. (Support(sent[p]) \cup Support(failed[p]) \subseteq elig[p])'
  BY <1>1, <1>2 DEF Support
<1>5. Done(p)' => \A c \in Clients : due'[p][c] <= sent'[p][c] + failed'[p][c]
  <2>1. Done(p) => ~Live(p)
    BY DEF Done, Live
  <2> QED BY <1>1, <1>2, <1>3, <2>1
<1>6. ASSUME pc[p] = "clones"
      PROVE  /\ Known(u)'
             /\ \A k \in left[p] : topic_sub_array'[u][k - 1] \in elig'[p] \cup {NoAddr}
             /\ due'[p] # None => left[p] \subseteq 1..CountOf(u)'
             /\ \A c \in Clients :
                  due'[p][c] <= sent[p][c] + failed[p][c] + Cardinality(Remaining(p, c))'
  <2>1. /\ u \in Topics /\ Known(u) /\ maybe[u] \subseteq elig[p]
        /\ \A k \in left[p] : k - 1 \in Slots
    BY <1>2, <1>6 DEF Live, IInv, TypeOK, Slots
  <2>2. /\ Known(u)'
        /\ \A k \in left[p] : topic_sub_array'[u][k - 1] \in elig'[p] \cup {NoAddr}
    <3>1. \A k \in left[p] :
            \/ topic_sub_array'[u][k - 1] \in {topic_sub_array[u][k - 1], NoAddr}
            \/ topic_sub_array'[u][k - 1] \in maybe[u]
      BY <2>1, SlotWritten
    <3> QED BY <1>1, <1>2, <1>6, <2>1, <3>1, SlotWritten
  <2>3. CASE due'[p] = None
    <3>1. \A c \in Clients : sent[p][c] \in Nat /\ failed[p][c] \in Nat
      BY DEF IInv, TypeOK, Tally
    <3>2. \A c \in Clients : Cardinality(Remaining(p, c))' \in Nat
      BY TypeDaemon, RemainingNext
    <3> QED BY <2>2, <2>3, <3>1, <3>2, NoneType
  <2>4. CASE due'[p] # None
    <3>1. due'[p] = due[p] /\ left[p] \subseteq 1..CountOf(u)
      BY <1>1, <1>2, <1>6, <2>4
    <3>2. daemon.topic = u => ~FlushSlot /\ ~FlushCnt
      <4> SUFFICES ASSUME daemon.topic = u, FlushSlot \/ FlushCnt PROVE due[p] = None
        BY <2>4, <3>1
      <4>1. asked[u] = None
        BY DEF FlushSlot, FlushCnt, IInv, DaemonInv
      <4>2. \A c \in Clients : due[p][c] \in Nat /\ due[p][c] <= 0
        BY <1>2, <1>6, <4>1, NoneType DEF Live, IInv, TypeOK, Tally
      <4> QED BY <4>2, TallyZero DEF IInv, TypeOK
    <3>3. /\ \A k \in 1..CountOf(u) : topic_sub_array'[u][k - 1] = topic_sub_array[u][k - 1]
          /\ CountOf(u)' \in {CountOf(u), CountOf(u) + 1}
      BY <2>1, <3>2, SlotsKept, <1>1
    <3>4. \A c \in Clients : Remaining(p, c)' = Remaining(p, c)
      BY <1>1, <3>1, <3>3, RemainingKept
    <3>5. left[p] \subseteq 1..CountOf(u)'
      BY <2>1, <3>1, <3>3, CountType DEF IInv
    <3> QED BY <1>2, <1>6, <2>2, <3>1, <3>4, <3>5
  <2> QED BY <2>3, <2>4
<1> QED
  BY <1>1, <1>2, <1>3, <1>4, <1>5, <1>6

\* Every step of the daemon leaves a calm packet the array of its arrival.
LEMMA CalmDaemon ==
  ASSUME IInv,
         (\E t \in Topics : Request(t)) \/ DaemonStep \/ DaemonCrash
  PROVE  CalmInv'
<1> SUFFICES ASSUME NEW p \in Packets, p \in calm' PROVE CalmInv!(p)!2'
  BY DEF CalmInv
<1> DEFINE u == topic[p]
<1>1. /\ UNCHANGED <<pc, topic, left, sent, failed, stray>>
      /\ due'[p] = due[p] \/ (Live(p) /\ due'[p] = None)
  BY PromiseKept DEF packet
<1>2. (Live(p) <=> Live(p)') /\ (Done(p) <=> Done(p)') /\ (Done(p) => ~Live(p))
  BY <1>1 DEF Live, Done
<1>3. p \in calm
  BY Zenon DEF Request, DaemonStep, Register, RecvSubscribe, RecvFlush, Overlap, SubSlot, SubCnt,
     SubAck, FlushSlot, FlushCnt, Flushed, DaemonCrash, promise
<1>4. CalmInv!(p)!2
  BY <1>3 DEF IInv, CalmInv
<1>5. CASE ~Live(p)
  BY <1>1, <1>2, <1>4, <1>5 DEF Live
<1>6. CASE Live(p)
  <2>1. u \in Topics /\ u \notin torn /\ ~Busy(u) /\ due[p] = asked[u]
    BY <1>4, <1>6 DEF IInv, PacketInv
  <2>2. u \notin torn' /\ ~Busy(u)' /\ asked'[u] = asked[u] /\ due'[p] = due[p]
    <3> USE DEF IInv, TypeOK, Busy, At, Live, members, promise
    <3>1. ASSUME NEW t \in Topics, Register(t)
          PROVE  UNCHANGED <<torn, daemon, asked, due>>
      BY <3>1 DEF Register
    <3>2. ASSUME NEW t \in Topics, NEW c \in Clients, RecvSubscribe(c, t)
          PROVE  /\ daemon'.topic = t /\ t # u
                 /\ UNCHANGED <<torn, asked>> /\ due'[p] = due[p]
      <4>1. daemon'.topic = t
        BY <3>2, NewSubscribe
      <4>2. UNCHANGED <<torn, asked>> /\ Overlap(t, {c}, FALSE)
        BY <3>2 DEF RecvSubscribe
      <4> QED BY <1>6, <4>1, <4>2 DEF Overlap
    <3>3. ASSUME NEW t \in Topics, RecvFlush(t)
          PROVE  /\ daemon'.topic = t /\ t # u
                 /\ UNCHANGED torn /\ asked'[u] = asked[u] /\ due'[p] = due[p]
      <4>1. UNCHANGED torn
        BY <3>3 DEF RecvFlush
      <4>2. daemon'.topic = t
        BY <3>3, NewFlush
      <4>3. CASE asked' = asked /\ Overlap(t, {}, FALSE)
        BY <1>6, <4>1, <4>2, <4>3 DEF Overlap
      <4>4. CASE asked' = [asked EXCEPT ![t] = None] /\ Overlap(t, {}, TRUE)
        <5>1. t # u /\ due'[p] = due[p]
          BY <1>6, <4>4 DEF Overlap
        <5> QED BY <2>1, <4>1, <4>2, <4>4, <5>1
      <4> QED BY <3>3, <4>3, <4>4, NewFlush, Zenon
    <3>4. CASE SubSlot \/ SubCnt \/ FlushSlot \/ FlushCnt
      <4>1. daemon'.topic = daemon.topic /\ daemon.pc # "recv"
        <5>1. CASE SubSlot
          BY <5>1, Zenon DEF SubSlot, Goto, GiveUp
        <5>2. CASE SubCnt
          BY <5>2, CountSucceeds DEF SubCnt
        <5>3. CASE FlushSlot
          BY <5>3 DEF FlushSlot
        <5>4. CASE FlushCnt
          BY <5>4, ResetSucceeds DEF FlushCnt
        <5> QED BY <3>4, <5>1, <5>2, <5>3, <5>4
      <4>2. UNCHANGED <<torn, asked, due>>
        BY <3>4 DEF SubSlot, SubCnt, FlushSlot, FlushCnt
      <4> QED BY <2>1, <4>1, <4>2, <1>1
    <3>5. CASE SubAck \/ Flushed \/ DaemonCrash
      <4>1. daemon.topic # u /\ daemon'.pc = "recv" /\ UNCHANGED due
        BY <2>1, <3>5 DEF SubAck, Flushed, DaemonCrash, Idle
      <4>2. asked'[u] = asked[u] /\ torn' \subseteq torn \cup {daemon.topic}
        BY <2>1, <3>5, <4>1 DEF SubAck, Flushed, DaemonCrash
      <4> QED BY <2>1, <4>1, <4>2
    <3>6. CASE \E t \in Topics : Register(t)
      BY <1>1, <2>1, <3>1, <3>6
    <3>7. CASE \E t \in Topics, c \in Clients : RecvSubscribe(c, t)
      BY <1>1, <2>1, <3>2, <3>7
    <3>8. CASE \E t \in Topics : RecvFlush(t)
      BY <1>1, <2>1, <3>3, <3>8
    <3> QED BY <3>4, <3>5, <3>6, <3>7, <3>8 DEF Request, DaemonStep
  <2>3. CASE pc[p] = "clones"
    <3>1. daemon.topic = u => ~FlushSlot /\ ~FlushCnt /\ ~SubCnt
      BY <2>1 DEF Busy, FlushSlot, FlushCnt, SubCnt, At
    <3>2. /\ \A k \in 1..CountOf(u) : topic_sub_array'[u][k - 1] = topic_sub_array[u][k - 1]
          /\ CountOf(u)' = CountOf(u)
      BY <1>1, <2>1, <3>1, SlotsKept
    <3>3. \A c \in Clients : Remaining(p, c)' = Remaining(p, c)
      BY <1>1, <1>4, <2>3, <3>2, RemainingKept
    <3> QED BY <1>1, <1>2, <1>4, <1>6, <2>1, <2>2, <2>3, <3>2, <3>3
  <2>4. CASE pc[p] # "clones"
    BY <1>1, <1>2, <1>4, <1>6, <2>1, <2>2, <2>4
  <2> QED BY <2>3, <2>4
<1> QED BY <1>5, <1>6

\* A step of one packet leaves the others alone.
LEMMA OtherPackets ==
  ASSUME IInv, NEW p \in Packets,
         PacketStep(p) \/ \E t \in Topics : Arrive(p, t),
         NEW q \in Packets, q # p
  PROVE  /\ PacketInv!(q)'
         /\ q \in calm' => CalmInv!(q)!2'
<1>1. /\ pc'[q] = pc[q] /\ topic'[q] = topic[q] /\ left'[q] = left[q]
      /\ sent'[q] = sent[q] /\ failed'[q] = failed[q]
      /\ due'[q] = due[q] /\ elig'[q] = elig[q]
      /\ q \in calm' <=> q \in calm
      /\ q \in stray' <=> q \in stray
  <2> USE DEF IInv, TypeOK, Move, Shared, promise
  <2>1. ASSUME NEW t \in Topics, Arrive(p, t) PROVE <1>1!:
    BY <2>1 DEF Arrive
  <2>2. CASE XdpOriginal(p)
    BY <2>2 DEF XdpOriginal
  <2>3. ASSUME NEW k \in 1..MAX_SUBSCRIBERS, XdpClone(p, k) PROVE <1>1!:
    BY <2>3 DEF XdpClone
  <2>4. ASSUME NEW k \in 1..MAX_SUBSCRIBERS, CloneLost(p, k) PROVE <1>1!:
    BY <2>4 DEF CloneLost
  <2>5. CASE ClonesDone(p)
    BY <2>5 DEF ClonesDone
  <2> QED BY <2>1, <2>2, <2>3, <2>4, <2>5 DEF PacketStep
<1>2. UNCHANGED <<topic_sub_array, topic_sub_cnt, daemon, asked, maybe, torn>>
  BY PacketFrame
<1>3. /\ Live(q)' = Live(q) /\ Done(q)' = Done(q)
      /\ Known(topic[q])' = Known(topic[q])
      /\ Busy(topic[q])' = Busy(topic[q])
      /\ CountOf(topic[q])' = CountOf(topic[q])
      /\ \A c \in Clients : Remaining(q, c)' = Remaining(q, c)
  BY <1>1, <1>2 DEF Live, Done, Known, Busy, At, CountOf, Remaining
<1>4. PacketInv!(q)'
  <2>1. PacketInv!(q)
    BY DEF IInv, PacketInv
  <2> QED BY <1>1, <1>2, <1>3, <2>1 DEF Support
<1>5. ASSUME q \in calm' PROVE CalmInv!(q)!2'
  <2>1. CalmInv!(q)!2
    BY <1>1, <1>5 DEF IInv, CalmInv
  <2> QED BY <1>1, <1>2, <1>3, <2>1
<1> QED BY <1>4, <1>5

\* What is known of a copy about to be made, and what it changes: the number of
\* copies that c got, lost or is still to be sent stays the same.
LEMMA CopyMade ==
  ASSUME IInv, NEW p \in Packets, NEW k \in 1..MAX_SUBSCRIBERS,
         XdpClone(p, k) \/ CloneLost(p, k), NEW c \in Clients
  PROVE  /\ sent'[p][c] + failed'[p][c] + Cardinality(Remaining(p, c))'
              = sent[p][c] + failed[p][c] + Cardinality(Remaining(p, c))
         /\ sent'[p][c] + failed'[p][c] + Cardinality(left'[p])
              <= sent[p][c] + failed[p][c] + Cardinality(left[p])
         /\ c \notin elig[p] => sent'[p][c] = sent[p][c] /\ failed'[p][c] = failed[p][c]
<1> DEFINE dest == topic_sub_array[topic[p]][k - 1]
           rem == Remaining(p, c)
           one == IF dest = c THEN 1 ELSE 0
<1>1. /\ pc[p] = "clones" /\ k \in left[p]
      /\ left'[p] = left[p] \ {k}
      /\ UNCHANGED <<topic, topic_sub_array>>
  BY DEF XdpClone, CloneLost, IInv, TypeOK, Shared, maps
<1>2. /\ k - 1 \in Slots /\ dest \in Clients \cup {NoAddr} /\ dest \in elig[p] \cup {NoAddr}
      /\ sent[p][c] \in Nat /\ failed[p][c] \in Nat
  <2>1. k - 1 \in Slots
    BY DEF Slots
  <2>2. sent[p][c] \in Nat /\ failed[p][c] \in Nat
    <3>1. sent \in [Packets -> Tally] /\ failed \in [Packets -> Tally]
      BY DEF IInv, TypeOK
    <3> QED BY <3>1, TallyType
  <2>3. dest \in Clients \cup {NoAddr}
    BY <1>1, <2>1 DEF IInv, TypeOK, PacketInv, Known, Arrays
  <2>4. dest \in elig[p] \cup {NoAddr}
    BY <1>1 DEF IInv, PacketInv
  <2> QED BY <2>1, <2>2, <2>3, <2>4
<1>3. sent'[p][c] + failed'[p][c] = sent[p][c] + failed[p][c] + one
      /\ (c \notin elig[p] => sent'[p][c] = sent[p][c] /\ failed'[p][c] = failed[p][c])
  <2>1. \/ /\ dest = NoAddr /\ UNCHANGED <<sent, failed>>
        \/ /\ dest # NoAddr /\ sent' = [sent EXCEPT ![p][dest] = @ + 1] /\ UNCHANGED failed
        \/ /\ dest # NoAddr /\ failed' = [failed EXCEPT ![p][dest] = @ + 1] /\ UNCHANGED sent
    BY <1>2 DEF XdpClone, CloneLost, SlotOf
  <2>2. sent \in [Packets -> [Clients -> Nat]] /\ failed \in [Packets -> [Clients -> Nat]]
    BY DEF IInv, TypeOK, Tally
  <2>3. CASE dest = NoAddr /\ UNCHANGED <<sent, failed>>
    BY <1>2, <2>3
  <2>4. CASE dest # NoAddr /\ sent' = [sent EXCEPT ![p][dest] = @ + 1] /\ UNCHANGED failed
    <3>1. sent'[p][c] = sent[p][c] + one
      BY <1>2, <2>2, <2>4
    <3> QED BY <1>2, <2>4, <3>1
  <2>5. CASE dest # NoAddr /\ failed' = [failed EXCEPT ![p][dest] = @ + 1] /\ UNCHANGED sent
    <3>1. failed'[p][c] = failed[p][c] + one
      BY <1>2, <2>2, <2>5
    <3> QED BY <1>2, <2>5, <3>1
  <2> QED BY <2>1, <2>3, <2>4, <2>5
<1>4. IsFiniteSet(rem) /\ Cardinality(rem) \in Nat /\ Cardinality(left[p]) \in Nat
  BY RemainingType DEF IInv
<1>5. Cardinality(left'[p]) = Cardinality(left[p]) - 1
  BY <1>1, OneCopyLess DEF IInv
<1>6. Cardinality(Remaining(p, c))' = Cardinality(rem) - one
  <2>1. Remaining(p, c)' = rem \ {k} /\ (k \in rem <=> dest = c)
    BY <1>1 DEF Remaining
  <2>2. Cardinality(rem \ {k}) = IF k \in rem THEN Cardinality(rem) - 1 ELSE Cardinality(rem)
    <3> HIDE DEF rem
    <3> QED BY <1>4, FS_RemoveElement
  <2> HIDE DEF rem, dest
  <2> QED BY <1>4, <2>1, <2>2
<1> HIDE DEF dest, rem
<1>7. one \in {0, 1}
  OBVIOUS
<1> HIDE DEF one
<1>8. sent'[p][c] + failed'[p][c] + Cardinality(Remaining(p, c))'
        = sent[p][c] + failed[p][c] + Cardinality(rem)
  <2>1. sent[p][c] + failed[p][c] \in Nat
    BY <1>2, <1>4, SumType, Zenon
  <2>2. (sent[p][c] + failed[p][c] + one) + (Cardinality(rem) - one)
          = sent[p][c] + failed[p][c] + Cardinality(rem)
    BY <1>4, <1>7, <2>1, OneMoved, Zenon
  <2> QED BY <1>3, <1>6, <2>2
<1>9. sent'[p][c] + failed'[p][c] + Cardinality(left'[p])
        <= sent[p][c] + failed[p][c] + Cardinality(left[p])
  <2>1. sent[p][c] + failed[p][c] \in Nat
    BY <1>2, <1>4, SumType, Zenon
  <2> QED BY <1>3, <1>4, <1>5, <1>7, <2>1, OneMoved, Zenon
<1> QED BY <1>3, <1>8, <1>9 DEF rem

\* A packet that arrives has been promised what is acknowledged and got nothing.
LEMMA ArriveOwn ==
  ASSUME IInv, NEW p \in Packets, NEW t \in Topics, Arrive(p, t)
  PROVE  PacketInv!(p)' /\ (p \in calm' => CalmInv!(p)!2')
<1>1. /\ pc'[p] = "xdp" /\ topic'[p] = t
      /\ sent'[p] = None /\ failed'[p] = None /\ p \notin stray'
      /\ due'[p] = asked[t] /\ elig'[p] = maybe[t]
      /\ p \in calm' => t \notin torn /\ ~Busy(t)
  BY DEF Arrive, Move, IInv, TypeOK
<1>2. UNCHANGED <<topic_sub_array, topic_sub_cnt, daemon, asked, maybe, torn>>
  BY PacketFrame
<1>3. Support(None) = {}
  BY NoneType DEF Support
<1>4. \A c \in Clients : asked[t][c] \in Nat
  BY DEF IInv, TypeOK, Tally
<1>5. Live(p)' /\ ~Done(p)' /\ Busy(topic[p])' = Busy(t)
  BY <1>1, <1>2 DEF Live, Done, Busy, At
<1> QED BY <1>1, <1>2, <1>3, <1>4, <1>5 DEF Support

\* The number of copies asked for is the number of slots in use.
LEMMA OriginalOwn ==
  ASSUME IInv, NEW p \in Packets, XdpOriginal(p)
  PROVE  PacketInv!(p)' /\ (p \in calm' => CalmInv!(p)!2')
<1> DEFINE u == topic[p]
           n == CountOf(u)
<1>1. /\ pc[p] = "xdp" /\ pc'[p] = (IF n = 0 THEN "pass" ELSE "clones")
      /\ left'[p] = 1..n
      /\ UNCHANGED <<topic, sent, failed, stray, due, elig, calm>>
  BY DEF XdpOriginal, Move, Shared, promise, IInv, TypeOK
<1>2. UNCHANGED <<topic_sub_array, topic_sub_cnt, daemon, asked, maybe, torn>>
  BY PacketFrame DEF PacketStep
<1>3. /\ u \in Topics /\ maybe[u] \subseteq elig[p] /\ n \in 0..MAX_SUBSCRIBERS
      /\ \A c \in Clients : due[p][c] <= asked[u][c]
      /\ Support(sent[p]) \cup Support(failed[p]) \subseteq elig[p]
      /\ \A c \in Clients : sent[p][c] = 0 /\ failed[p][c] = 0
  <2>1. PacketInv!(p)
    BY DEF IInv, PacketInv
  <2>2. u \in Topics
    BY <1>1, <2>1 DEF Live
  <2> QED BY <1>1, <2>1, <2>2, NoneType, CountType DEF Live, IInv
<1>4. \A c \in Clients :
        /\ asked[u][c] \in Nat /\ due[p][c] \in Nat
        /\ asked[u][c] <= Cardinality(Copies(u, c))
        /\ Cardinality(Copies(u, c)) \in Nat
        /\ Unanswered(u, c) \in {0, 1}
        /\ ~Busy(u) => Unanswered(u, c) = 0
  <2>1. \A c \in Clients : /\ asked[u][c] \in Nat /\ due[p][c] \in Nat
                           /\ Cardinality(Copies(u, c)) \in Nat
                           /\ Unanswered(u, c) \in {0, 1}
                           /\ ~Busy(u) => Unanswered(u, c) = 0
    BY <1>3, CopiesType DEF IInv, TypeOK, Tally, Unanswered, Acking, Busy, At
  <2>2. \A c \in Clients : asked[u][c] + Unanswered(u, c) <= Cardinality(Copies(u, c))
    BY <1>3 DEF IInv, SlotsInv
  <2> QED BY <2>1, <2>2
<1>5. p \in calm =>
        /\ p \notin stray /\ u \notin torn /\ ~Busy(u) /\ due[p] = asked[u]
        /\ \A c \in Clients : asked[u][c] = Cardinality(Copies(u, c))
  <2> SUFFICES ASSUME p \in calm PROVE <1>5!2
    OBVIOUS
  <2>1. p \notin stray /\ u \notin torn /\ ~Busy(u) /\ due[p] = asked[u]
    BY <1>1 DEF IInv, CalmInv, Live
  <2>2. \A c \in Clients : asked[u][c] + Unanswered(u, c) = Cardinality(Copies(u, c))
    BY <1>3, <2>1 DEF IInv, ExactInv
  <2> QED BY <1>4, <2>1, <2>2
<1>6. CountOf(topic[p])' = n /\ Busy(topic[p])' = Busy(u) /\ topic'[p] = u
  BY <1>1, <1>2 DEF CountOf, Busy, At
<1>7. CASE n = 0
  <2>1. \A c \in Clients : Cardinality(Copies(u, c)) = 0
    <3>1. \A c \in Clients : Copies(u, c) = {}
      BY <1>7 DEF Copies
    <3> QED BY <3>1, FS_EmptySet
  <2>2. \A c \in Clients : due[p][c] = 0
    BY <1>3, <1>4, <2>1
  <2>3. pc'[p] = "pass" /\ Done(p)' /\ ~Live(p)'
    BY <1>1, <1>7 DEF Done, Live
  <2> HIDE DEF n
  <2> QED BY <1>1, <1>3, <1>5, <2>2, <2>3 DEF Support
<1>8. CASE n # 0
  <2>1. pc'[p] = "clones" /\ ~Done(p)' /\ Live(p)'
    BY <1>1, <1>8 DEF Done, Live
  <2>2. Known(topic[p])'
    BY <1>1, <1>2, <1>3, <1>8 DEF Known, CountOf, IInv, KeysInv, Keys
  <2>3. \A k \in left'[p] : topic_sub_array'[u][k - 1] \in elig'[p] \cup {NoAddr}
    BY <1>1, <1>2, <1>3 DEF IInv, SlotsInv
  <2>4. \A c \in Clients : Remaining(p, c)' = Copies(u, c)
    BY <1>1, <1>2 DEF Remaining, Copies
  <2>5. Cardinality(left'[p]) <= MAX_SUBSCRIBERS /\ Cardinality(left'[p]) \in Nat
    <3>1. 1..n \in SUBSET (1..MAX_SUBSCRIBERS)
      BY <1>3
    <3>2. Cardinality(1..n) \in 0..MAX_SUBSCRIBERS
      BY <3>1, CopyNumbers
    <3> HIDE DEF n
    <3> QED BY <1>1, <3>2
  <2>6. \A c \in Clients :
          /\ sent'[p][c] + failed'[p][c] + Cardinality(left'[p]) <= MAX_SUBSCRIBERS
          /\ sent'[p][c] + failed'[p][c] + Cardinality(Remaining(p, c))'
               = Cardinality(Copies(u, c))
    BY <1>1, <1>3, <1>4, <2>4, <2>5
  <2>7. \A c \in Clients :
          due'[p][c] <= sent'[p][c] + failed'[p][c] + Cardinality(Remaining(p, c))'
    BY <1>1, <1>3, <1>4, <2>6
  <2> HIDE DEF n
  <2>8. PacketInv!(p)'
    BY <1>1, <1>2, <1>3, <1>6, <2>1, <2>2, <2>3, <2>6, <2>7 DEF Support
  <2>9. p \in calm' => CalmInv!(p)!2'
    BY <1>1, <1>2, <1>5, <1>6, <2>1, <2>6
  <2> QED BY <2>8, <2>9
<1> QED BY <1>7, <1>8

\* A copy goes to whom it is due, or to one whose SUBSCRIBE overlapped.
LEMMA CloneOwn ==
  ASSUME IInv, NEW p \in Packets, NEW k \in 1..MAX_SUBSCRIBERS,
         XdpClone(p, k) \/ CloneLost(p, k)
  PROVE  PacketInv!(p)' /\ (p \in calm' => CalmInv!(p)!2')
<1> DEFINE u == topic[p]
<1>1. /\ pc[p] = "clones" /\ k \in left[p] /\ left'[p] = left[p] \ {k}
      /\ UNCHANGED <<pc, topic, due, elig, calm>>
      /\ p \in stray' => p \in stray \/ topic_sub_array[u][k - 1] = NoAddr
  BY DEF XdpClone, CloneLost, SlotOf, Shared, promise, IInv, TypeOK
<1>2. UNCHANGED <<topic_sub_array, topic_sub_cnt, daemon, asked, maybe, torn>>
  BY PacketFrame DEF PacketStep
<1>3. \A c \in Clients :
        /\ sent'[p][c] + failed'[p][c] + Cardinality(Remaining(p, c))'
             = sent[p][c] + failed[p][c] + Cardinality(Remaining(p, c))
        /\ sent'[p][c] + failed'[p][c] + Cardinality(left'[p])
             <= sent[p][c] + failed[p][c] + Cardinality(left[p])
        /\ c \notin elig[p] => sent'[p][c] = sent[p][c] /\ failed'[p][c] = failed[p][c]
  BY CopyMade
<1>4. PacketInv!(p)
  BY DEF IInv, PacketInv
<1>5. /\ Live(p)' /\ Live(p) /\ ~Done(p)'
      /\ Known(topic[p])' = Known(u) /\ CountOf(topic[p])' = CountOf(u)
      /\ Busy(topic[p])' = Busy(u) /\ topic'[p] = u
  BY <1>1, <1>2 DEF Live, Done, Known, CountOf, Busy, At
<1>6. \A c \in Clients :
        sent'[p][c] + failed'[p][c] + Cardinality(left'[p]) <= MAX_SUBSCRIBERS
  <2>1. TypeOK'
    BY TypePacket DEF PacketStep
  <2>2. left'[p] \in SUBSET (1..MAX_SUBSCRIBERS) /\ left[p] \in SUBSET (1..MAX_SUBSCRIBERS)
    BY <2>1 DEF IInv, TypeOK
  <2>3. Cardinality(left'[p]) \in Nat /\ Cardinality(left[p]) \in Nat
    BY <2>2, CopyNumbers
  <2>4. \A c \in Clients : /\ sent'[p][c] \in Nat /\ failed'[p][c] \in Nat
                           /\ sent[p][c] \in Nat /\ failed[p][c] \in Nat
    <3>1. /\ sent' \in [Packets -> Tally] /\ failed' \in [Packets -> Tally]
          /\ sent \in [Packets -> Tally] /\ failed \in [Packets -> Tally]
      BY <2>1 DEF IInv, TypeOK
    <3> QED BY <3>1, TallyType
  <2>5. \A c \in Clients :
          sent[p][c] + failed[p][c] + Cardinality(left[p]) <= MAX_SUBSCRIBERS
    BY <1>1, <1>4
  <2>6. ASSUME NEW c \in Clients
        PROVE  sent'[p][c] + failed'[p][c] + Cardinality(left'[p]) <= MAX_SUBSCRIBERS
    <3>1. sent'[p][c] + failed'[p][c] + Cardinality(left'[p])
            <= sent[p][c] + failed[p][c] + Cardinality(left[p])
      BY <1>3
    <3>2. sent[p][c] + failed[p][c] + Cardinality(left[p]) <= MAX_SUBSCRIBERS
      BY <2>5
    <3>3. /\ sent'[p][c] \in Nat /\ failed'[p][c] \in Nat
          /\ sent[p][c] \in Nat /\ failed[p][c] \in Nat
      BY <2>4
    <3>4. /\ sent'[p][c] + failed'[p][c] + Cardinality(left'[p]) \in Int
          /\ sent[p][c] + failed[p][c] + Cardinality(left[p]) \in Int
      BY <2>3, <3>3, SumType, Zenon
    <3>5. MAX_SUBSCRIBERS \in Int
      OBVIOUS
    <3> QED BY <3>1, <3>2, <3>4, <3>5, StillWithin, Zenon
  <2> QED BY <2>6
<1>7. (Support(sent[p]) \cup Support(failed[p]) \subseteq elig[p])'
  BY <1>1, <1>3, <1>4 DEF Support
<1>8. PacketInv!(p)'
  BY <1>1, <1>2, <1>3, <1>4, <1>5, <1>6, <1>7, Zenon
<1>9. ASSUME p \in calm' PROVE CalmInv!(p)!2'
  <2>1. CalmInv!(p)!2
    BY <1>1, <1>9 DEF IInv, CalmInv
  <2>2. topic_sub_array[u][k - 1] # NoAddr
    BY <1>1, <1>4, <1>5, <2>1 DEF IInv, ExactInv
  <2> QED BY <1>1, <1>2, <1>3, <1>5, <2>1, <2>2
<1> QED BY <1>8, <1>9

\* When no copy is left everyone a copy is due to has been dealt with.
LEMMA ClonesDoneOwn ==
  ASSUME IInv, NEW p \in Packets, ClonesDone(p)
  PROVE  PacketInv!(p)' /\ (p \in calm' => CalmInv!(p)!2')
<1>1. /\ pc[p] = "clones" /\ pc'[p] = "sent" /\ left[p] = {}
      /\ UNCHANGED <<topic, left, sent, failed, stray, due, elig, calm>>
  BY DEF ClonesDone, Move, Shared, promise, IInv, TypeOK
<1>2. \A c \in Clients : Cardinality(Remaining(p, c)) = 0 /\ sent[p][c] + failed[p][c] \in Nat
  <2>1. \A c \in Clients : Remaining(p, c) = {}
    BY <1>1 DEF Remaining
  <2>2. \A c \in Clients : sent[p][c] + failed[p][c] \in Nat
    <3>1. sent \in [Packets -> Tally] /\ failed \in [Packets -> Tally]
      BY DEF IInv, TypeOK
    <3>2. \A c \in Clients : sent[p][c] \in Nat /\ failed[p][c] \in Nat
      BY <3>1, TallyType
    <3> QED BY <3>2
  <2> QED BY <2>1, <2>2, FS_EmptySet
<1>3. ~Live(p)' /\ Done(p)'
  BY <1>1 DEF Live, Done
<1>4. PacketInv!(p)'
  <2>1. PacketInv!(p)
    BY DEF IInv, PacketInv
  <2>2. \A c \in Clients : due[p][c] <= sent[p][c] + failed[p][c]
    BY <1>1, <1>2, <2>1
  <2> QED BY <1>1, <1>3, <2>1, <2>2 DEF Support
<1>5. ASSUME p \in calm' PROVE CalmInv!(p)!2'
  <2>1. CalmInv!(p)!2
    BY <1>1, <1>5 DEF IInv, CalmInv
  <2>2. \A c \in Clients : sent[p][c] + failed[p][c] = due[p][c]
    BY <1>1, <1>2, <2>1
  <2> QED BY <1>1, <1>3, <2>1, <2>2
<1> QED BY <1>4, <1>5

\* Every step of a packet keeps the promises made to the packets in flight.
LEMMA PacketPacket ==
  ASSUME IInv, NEW p \in Packets,
         PacketStep(p) \/ \E t \in Topics : Arrive(p, t)
  PROVE  PacketInv' /\ CalmInv'
<1>1. PacketInv!(p)' /\ (p \in calm' => CalmInv!(p)!2')
  BY ArriveOwn, OriginalOwn, CloneOwn, ClonesDoneOwn DEF PacketStep
<1>2. \A q \in Packets : PacketInv!(q)' /\ (q \in calm' => CalmInv!(q)!2')
  BY <1>1, OtherPackets
<1> QED BY <1>2 DEF PacketInv, CalmInv

\* The invariant holds when the maps have just been loaded.
LEMMA InitInv == Init => IInv
<1> SUFFICES ASSUME Init PROVE IInv
  OBVIOUS
<1> USE DEF Init, Idle
<1>1. TypeOK
  BY NoneType DEF TypeOK, DaemonPcs
<1>2. KeysInv
  <2>1. Keys(topic_sub_array) = {} /\ Keys(topic_sub_cnt) = {}
    BY DEF Keys
  <2>2. IsFiniteSet({}) /\ Cardinality({}) = 0
    BY FS_EmptySet
  <2> HIDE DEF Init
  <2> QED BY <2>1, <2>2 DEF KeysInv
<1>3. DaemonInv
  BY DEF DaemonInv, At
<1>4. SlotsInv /\ ExactInv
  <2> SUFFICES ASSUME NEW t \in Topics
      PROVE  /\ CountOf(t) = 0
             /\ \A c \in Clients : /\ Unanswered(t, c) = 0 /\ asked[t][c] = 0
                                   /\ Cardinality(Copies(t, c)) = 0
    BY DEF SlotsInv, ExactInv
  <2>1. CountOf(t) = 0
    BY DEF CountOf
  <2>2. \A c \in Clients : Copies(t, c) = {}
    BY <2>1 DEF Copies
  <2>3. \A c \in Clients : Unanswered(t, c) = 0 /\ asked[t][c] = 0
    BY NoneType DEF Unanswered, Acking, At
  <2> QED BY <2>1, <2>2, <2>3, FS_EmptySet
<1>5. PacketInv /\ CalmInv
  BY NoneType DEF PacketInv, CalmInv, Live, Done, Support
<1> QED
  BY <1>1, <1>2, <1>3, <1>4, <1>5 DEF IInv

\* Every step keeps the invariant, also one that changes nothing.
LEMMA StepInv == IInv /\ [Next]_vars => IInv'
<1> SUFFICES ASSUME IInv, [Next]_vars PROVE IInv'
  OBVIOUS
<1>1. CASE (\E t \in Topics : Request(t)) \/ DaemonStep \/ DaemonCrash
  BY <1>1, TypeDaemon, KeysDaemon, DaemonDaemon, SlotsDaemon, ExactDaemon, PacketDaemon,
     CalmDaemon DEF IInv
<1>2. ASSUME NEW p \in Packets, PacketStep(p) \/ \E t \in Topics : Arrive(p, t)
      PROVE  IInv'
  <2>1. UNCHANGED <<topic_sub_array, topic_sub_cnt, daemon, asked, maybe, torn>>
    BY <1>2, PacketFrame
  <2>2. KeysInv'
    BY <2>1 DEF IInv, KeysInv, Keys
  <2>3. DaemonInv'
    BY <2>1 DEF IInv, DaemonInv, At, Known, CountOf
  <2>4. SlotsInv' /\ ExactInv'
    BY <2>1 DEF IInv, SlotsInv, ExactInv, Copies, Unanswered, Acking, Busy, At, CountOf
  <2> QED BY <1>2, <2>2, <2>3, <2>4, TypePacket, PacketPacket DEF IInv
<1>3. CASE UNCHANGED vars
  <2>1. UNCHANGED <<maps, daemon, packet, members, promise>>
    BY <1>3 DEF vars
  <2>2. TypeOK'
    BY <2>1 DEF IInv, TypeOK, maps, packet, members, promise
  <2>3. KeysInv' /\ DaemonInv'
    BY <2>1 DEF IInv, KeysInv, DaemonInv, Keys, At, Known, CountOf, maps, packet, members, promise
  <2>4. SlotsInv' /\ ExactInv'
    BY <2>1 DEF IInv, SlotsInv, ExactInv, Copies, Unanswered, Acking, Busy, At, CountOf,
       maps, members
  <2>5. PacketInv'
    BY <2>1 DEF IInv, PacketInv, Support, Live, Done, Remaining, Known, CountOf,
       maps, packet, members, promise
  <2>6. CalmInv'
    BY <2>1 DEF IInv, CalmInv, Live, Done, Remaining, CountOf, Busy, At,
       maps, packet, members, promise
  <2> QED BY <2>2, <2>3, <2>4, <2>5, <2>6 DEF IInv
<1> QED
  BY <1>1, <1>2, <1>3 DEF Next

-----------------------------------------------------------------------------
(* What follows.                                                           *)

\* The array, its count, the daemon and the copies of every packet agree at every
\* step of add_subscriber, flush_topic and xdp_broker, and after every crash of
\* the daemon: IInv is an invariant.
THEOREM Invariance == Spec => []IInv
BY InitInv, StepInv, PTL DEF Spec

\* Every map, the daemon and every packet hold values of their types: no count
\* exceeds the length of its array, and no client is sent more copies than that.
THEOREM TypeCorrect == Spec => []TypeOK
<1>1. IInv => TypeOK
  BY DEF IInv
<1> QED BY <1>1, Invariance, PTL

\* Without an overlapping request or an unrepaired crash xdp_broker sends every
\* client one copy for each of its acknowledged SUBSCRIBEs, and none to 0.0.0.0:0.
THEOREM ExactWhenCalm == Spec => []CalmExact
<1>1. IInv => CalmExact
  BY DEF IInv, CalmInv, CalmExact
<1> QED BY <1>1, Invariance, PTL

\* The unchecked count update of flush_topic and the late one of add_subscriber
\* always find room.
THEOREM UpdatesFit == Spec => []MapUpdatesFit
<1>1. IInv => MapUpdatesFit
  BY RoomForKnown DEF IInv, DaemonInv, At, MapUpdatesFit
<1> QED BY <1>1, Invariance, PTL

-----------------------------------------------------------------------------
(* CloneBroker implements PubSub.                                          *)

\* The freshly loaded broker is a service without members and messages.
LEMMA ServiceInit == Init => Service!Init
<1> SUFFICES ASSUME Init PROVE Service!Init
  OBVIOUS
<1>1. Support(None) = {}
  BY NoneType DEF Support
<1> QED BY <1>1 DEF Init, Service!Init, Live

\* The members, the messages owed and sent are the same when their tallies are.
LEMMA ServiceSame ==
  ASSUME UNCHANGED <<pc, topic, sent, failed, asked, maybe, due, elig>>
  PROVE  UNCHANGED Service!vars
BY DEF Service!vars, Support, Live

\* Nobody is a member of a topic without subscribers.
LEMMA NoMembers ==
  ASSUME IInv, NEW t \in Topics, CountOf(t) = 0
  PROVE  Support(asked[t]) = {}
<1> SUFFICES ASSUME NEW c \in Clients PROVE ~(asked[t][c] > 0)
  BY DEF Support
<1>1. Copies(t, c) = {}
  BY DEF Copies
<1>2. Cardinality(Copies(t, c)) = 0
  BY <1>1, FS_EmptySet
<1>3. asked[t][c] + Unanswered(t, c) <= 0 /\ asked[t][c] \in Nat /\ Unanswered(t, c) \in {0, 1}
  BY <1>2 DEF IInv, SlotsInv, TypeOK, Tally, Unanswered
<1> QED BY <1>3

\* A step of the daemon is a membership step of the service or invisible in it.
LEMMA ServiceDaemon ==
  ASSUME IInv,
         (\E t \in Topics : Request(t)) \/ DaemonStep \/ DaemonCrash
  PROVE  Service!Next \/ UNCHANGED Service!vars
<1> USE DEF packet, members, promise
<1>1. CASE \/ \E t \in Topics : Register(t)
           \/ SubSlot \/ SubCnt \/ FlushSlot \/ FlushCnt \/ DaemonCrash
  <2>1. UNCHANGED <<pc, topic, sent, failed, asked, maybe, due, elig>>
    BY <1>1 DEF Register, SubSlot, SubCnt, FlushSlot, FlushCnt, DaemonCrash
  <2> QED BY <2>1, ServiceSame
<1>2. ASSUME NEW t \in Topics, NEW c \in Clients, RecvSubscribe(c, t)
      PROVE  Service!Subscribing(c, t)
  <2>1. /\ UNCHANGED <<pc, topic, sent, failed, asked>>
        /\ maybe' = [maybe EXCEPT ![t] = @ \cup {c}]
        /\ Overlap(t, {c}, FALSE)
    BY <1>2 DEF RecvSubscribe
  <2>2. due' = due
    BY <2>1 DEF Overlap, IInv, TypeOK
  <2>3. elig' = [p \in Packets |->
                   IF Live(p) /\ topic[p] = t THEN elig[p] \cup {c} ELSE elig[p]]
    BY <2>1 DEF Overlap
  <2> QED BY <2>1, <2>2, <2>3 DEF Service!Subscribing, Service!Handled, Live, Support
<1>3. ASSUME NEW t \in Topics, RecvFlush(t)
      PROVE  Service!Unsubscribing(t) \/ UNCHANGED Service!vars
  <2>1. UNCHANGED <<pc, topic, sent, failed, maybe>>
    BY <1>3 DEF RecvFlush
  <2>2. CASE asked' = asked /\ Overlap(t, {}, FALSE)
    <3>1. due' = due /\ elig' = elig
      BY <2>2 DEF Overlap, IInv, TypeOK
    <3> QED BY <2>1, <2>2, <3>1, ServiceSame
  <2>3. CASE asked' = [asked EXCEPT ![t] = None] /\ Overlap(t, {}, TRUE)
    <3>1. elig' = elig
      BY <2>3 DEF Overlap, IInv, TypeOK
    <3>2. due' = [p \in Packets |-> IF Live(p) /\ topic[p] = t THEN None ELSE due[p]]
      BY <2>3 DEF Overlap
    <3>3. Support(None) = {}
      BY NoneType DEF Support
    <3>4. /\ [v \in Topics |-> Support(asked'[v])]
               = [[v \in Topics |-> Support(asked[v])] EXCEPT ![t] = {}]
          /\ [p \in Packets |-> Support(due'[p])]
               = [p \in Packets |-> IF Live(p) /\ topic[p] = t THEN {} ELSE Support(due[p])]
      BY <2>3, <3>2, <3>3, Zenon DEF IInv, TypeOK
    <3> QED BY <2>1, <3>1, <3>4 DEF Service!Unsubscribing, Service!Handled, Live, Support
  <2> QED BY <1>3, <2>2, <2>3, NewFlush DEF IInv
<1>4. CASE SubAck
  <2>1. UNCHANGED <<pc, topic, sent, failed, maybe, due, elig>>
    BY <1>4 DEF SubAck
  <2>2. CASE daemon.ret # 0
    BY <1>4, <2>1, <2>2, ServiceSame DEF SubAck
  <2>3. CASE daemon.ret = 0
    <3>1. /\ daemon.topic \in Topics /\ daemon.client \in Clients
          /\ daemon.client \in maybe[daemon.topic]
          /\ asked' = [asked EXCEPT ![daemon.topic][daemon.client] = @ + 1]
      BY <1>4, <2>3 DEF SubAck, IInv, DaemonInv, At
    <3>2. asked \in [Topics -> [Clients -> Nat]]
      BY DEF IInv, TypeOK, Tally
    <3>3. \A v \in Topics, c \in Clients : asked'[v][c] =
            IF v = daemon.topic /\ c = daemon.client THEN asked[v][c] + 1 ELSE asked[v][c]
      BY <3>1, <3>2
    <3>4. \A v \in Topics : Support(asked'[v]) =
            IF v = daemon.topic THEN Support(asked[v]) \cup {daemon.client}
            ELSE Support(asked[v])
      BY <3>1, <3>2, <3>3 DEF Support
    <3>5. [v \in Topics |-> Support(asked'[v])]
            = [[v \in Topics |-> Support(asked[v])] EXCEPT
                 ![daemon.topic] = @ \cup {daemon.client}]
      BY <3>1, <3>4, Zenon
    <3>6. Service!Subscribed(daemon.client, daemon.topic)
      BY <2>1, <3>1, <3>5 DEF Service!Subscribed, Live, Support
    <3> QED BY <3>1, <3>6 DEF Service!Next
  <2> QED BY <2>2, <2>3
<1>5. CASE Flushed
  <2>1. UNCHANGED <<pc, topic, sent, failed, asked, due, elig>>
    BY <1>5 DEF Flushed
  <2>2. CASE daemon.ret # 0
    BY <1>5, <2>1, <2>2, ServiceSame DEF Flushed
  <2>3. CASE daemon.ret = 0
    <3>1. /\ daemon.topic \in Topics /\ CountOf(daemon.topic) = 0
          /\ maybe' = [maybe EXCEPT ![daemon.topic] = {}]
      BY <1>5, <2>3 DEF Flushed, IInv, DaemonInv, At
    <3>2. Support(asked[daemon.topic]) = {}
      BY <3>1, NoMembers
    <3>3. Service!Unsubscribed(daemon.topic)
      BY <2>1, <3>1, <3>2 DEF Service!Unsubscribed, Live, Support
    <3> QED BY <3>1, <3>3 DEF Service!Next
  <2> QED BY <2>2, <2>3
<1> QED
  BY <1>1, <1>2, <1>3, <1>4, <1>5 DEF Request, DaemonStep, Service!Next

\* A copy sent, or lost, is one more for a client that may have it.
LEMMA ServiceCopy ==
  ASSUME IInv, NEW p \in Packets, NEW k \in 1..MAX_SUBSCRIBERS,
         XdpClone(p, k) \/ CloneLost(p, k)
  PROVE  Service!Send(p)
<1> DEFINE dest == topic_sub_array[topic[p]][k - 1]
           got == [q \in Packets |-> Support(sent[q])]
           lost == [q \in Packets |-> Support(failed[q])]
<1>1. dest \in elig[p] \cup {NoAddr} /\ k - 1 \in Slots
  <2>1. pc[p] = "clones" /\ k \in left[p]
    BY DEF XdpClone, CloneLost
  <2> QED BY <2>1 DEF IInv, PacketInv, Slots
<1>2. sent \in [Packets -> [Clients -> Nat]] /\ failed \in [Packets -> [Clients -> Nat]]
      /\ elig[p] \subseteq Clients
  BY DEF IInv, TypeOK, Tally
<1>3. ASSUME NEW S \in SUBSET elig[p], got' = [got EXCEPT ![p] = @ \cup S],
             NEW L \in SUBSET elig[p], lost' = [lost EXCEPT ![p] = @ \cup L]
      PROVE  Service!Send(p)
  BY <1>3 DEF Service!Send
<1>4. /\ {} \in SUBSET elig[p]
      /\ got = [got EXCEPT ![p] = @ \cup {}]
      /\ lost = [lost EXCEPT ![p] = @ \cup {}]
  OBVIOUS
<1>5. CASE UNCHANGED <<sent, failed>>
  <2>1. got' = got /\ lost' = lost
    BY <1>5 DEF Support
  <2> QED BY <1>3, <1>4, <2>1
<1>6. CASE dest # NoAddr /\ sent' = [sent EXCEPT ![p][dest] = @ + 1] /\ UNCHANGED failed
  <2>1. got' = [got EXCEPT ![p] = @ \cup {dest}]
    <3>1. dest \in Clients
      BY <1>1, <1>2, <1>6
    <3>2. sent' = [sent EXCEPT ![p][dest] = @ + 1]
      BY <1>6
    <3> HIDE DEF dest
    <3>3. \A q \in Packets : Support(sent'[q])
            = IF q = p THEN Support(sent[q]) \cup {dest} ELSE Support(sent[q])
      <4>1. \A q \in Packets, c \in Clients : sent'[q][c]
              = IF q = p /\ c = dest THEN sent[q][c] + 1 ELSE sent[q][c]
        BY <1>2, <3>1, <3>2
      <4> QED BY <1>2, <3>1, <4>1 DEF Support
    <3>4. got' = [q \in Packets |-> Support(sent'[q])]
      BY DEF Support
    <3> QED BY <3>3, <3>4
  <2>2. lost' = lost /\ {dest} \in SUBSET elig[p]
    BY <1>1, <1>6 DEF Support
  <2> HIDE DEF got, lost, dest
  <2> QED BY <1>3, <1>4, <2>1, <2>2
<1>7. CASE dest # NoAddr /\ failed' = [failed EXCEPT ![p][dest] = @ + 1] /\ UNCHANGED sent
  <2>1. lost' = [lost EXCEPT ![p] = @ \cup {dest}]
    <3>1. dest \in Clients
      BY <1>1, <1>2, <1>7
    <3>2. failed' = [failed EXCEPT ![p][dest] = @ + 1]
      BY <1>7
    <3> HIDE DEF dest
    <3>3. \A q \in Packets : Support(failed'[q])
            = IF q = p THEN Support(failed[q]) \cup {dest} ELSE Support(failed[q])
      <4>1. \A q \in Packets, c \in Clients : failed'[q][c]
              = IF q = p /\ c = dest THEN failed[q][c] + 1 ELSE failed[q][c]
        BY <1>2, <3>1, <3>2
      <4> QED BY <1>2, <3>1, <4>1 DEF Support
    <3>4. lost' = [q \in Packets |-> Support(failed'[q])]
      BY DEF Support
    <3> QED BY <3>3, <3>4
  <2>2. got' = got /\ {dest} \in SUBSET elig[p]
    BY <1>1, <1>7 DEF Support
  <2> HIDE DEF got, lost, dest
  <2> QED BY <1>3, <1>4, <2>1, <2>2
<1> QED BY <1>1, <1>5, <1>6, <1>7 DEF XdpClone, CloneLost, SlotOf

Opened == {p \in Packets : Live(p)}

\* Replacing the tally of one packet replaces the clients it names.
LEMMA SupportExcept ==
  ASSUME NEW f, NEW p \in Packets, NEW v, DOMAIN f = Packets
  PROVE  [q \in Packets |-> Support([f EXCEPT ![p] = v][q])]
           = [[q \in Packets |-> Support(f[q])] EXCEPT ![p] = Support(v)]
<1>1. \A q \in Packets : [f EXCEPT ![p] = v][q] = IF q = p THEN v ELSE f[q]
  OBVIOUS
<1> QED BY <1>1

\* A step of a packet is a publication, a delivery or invisible in the service.
LEMMA ServicePacket ==
  ASSUME IInv, NEW p \in Packets,
         PacketStep(p) \/ \E t \in Topics : Arrive(p, t)
  PROVE  Service!Next
<1>1. ASSUME NEW t \in Topics, Arrive(p, t) PROVE Service!Publish(p, t)
  <2>1. /\ ~Live(p) /\ pc' = [pc EXCEPT ![p] = "xdp"]
        /\ topic' = [topic EXCEPT ![p] = t]
        /\ sent' = [sent EXCEPT ![p] = None]
        /\ failed' = [failed EXCEPT ![p] = None]
        /\ due' = [due EXCEPT ![p] = asked[t]]
        /\ elig' = [elig EXCEPT ![p] = maybe[t]]
        /\ UNCHANGED <<asked, maybe>>
    BY <1>1 DEF Arrive, Move, members
  <2>2. Opened' = Opened \cup {p} /\ p \notin Opened
    BY <2>1 DEF Opened, Live, IInv, TypeOK
  <2>3. Support(None) = {}
    BY NoneType DEF Support
  <2>4. /\ [q \in Packets |-> Support(sent'[q])]
             = [[q \in Packets |-> Support(sent[q])] EXCEPT ![p] = {}]
        /\ [q \in Packets |-> Support(failed'[q])]
             = [[q \in Packets |-> Support(failed[q])] EXCEPT ![p] = {}]
        /\ [q \in Packets |-> Support(due'[q])]
             = [[q \in Packets |-> Support(due[q])] EXCEPT ![p] = Support(asked[t])]
    <3>1. DOMAIN sent = Packets /\ DOMAIN failed = Packets /\ DOMAIN due = Packets
      BY DEF IInv, TypeOK
    <3> QED BY <2>1, <2>3, <3>1, SupportExcept, Zenon
  <2> QED BY <2>1, <2>2, <2>4 DEF Service!Publish, Opened, Support
<1>2. ASSUME PacketStep(p), Service!Send(p) PROVE Service!Deliver(p)
  <2>1. /\ pc[p] \in {"xdp", "clones"}
        /\ pc'[p] \in {"xdp", "clones", "pass", "sent"}
        /\ \A q \in Packets : q # p => pc'[q] = pc[q]
        /\ UNCHANGED <<asked, maybe, topic, due, elig>>
    <3> USE DEF Move, Shared, members, promise, IInv, TypeOK
    <3>1. CASE XdpOriginal(p)
      BY <3>1 DEF XdpOriginal
    <3>2. CASE \E k \in 1..MAX_SUBSCRIBERS : XdpClone(p, k) \/ CloneLost(p, k)
      BY <3>2 DEF XdpClone, CloneLost
    <3>3. CASE ClonesDone(p)
      BY <3>3 DEF ClonesDone
    <3> QED BY <1>2, <3>1, <3>2, <3>3 DEF PacketStep
  <2>2. pc'[p] \in {"xdp", "clones"} => Opened' = Opened
    BY <2>1 DEF Opened, Live
  <2>3. pc'[p] \in {"pass", "sent"} => Opened' = Opened \ {p}
    BY <2>1 DEF Opened, Live
  <2>4. pc'[p] \in {"pass", "sent"} =>
          Support(due[p]) \subseteq Support(sent'[p]) \cup Support(failed'[p])
    <3> SUFFICES ASSUME Done(p)', NEW c \in Clients, due[p][c] > 0
                 PROVE  sent'[p][c] > 0 \/ failed'[p][c] > 0
      BY <2>1 DEF Done, Support
    <3>1. due'[p][c] <= sent'[p][c] + failed'[p][c]
      BY PacketPacket DEF PacketInv
    <3>2. sent'[p][c] \in Nat /\ failed'[p][c] \in Nat /\ due[p][c] \in Nat
      <4>1. TypeOK'
        BY TypePacket
      <4>2. /\ sent' \in [Packets -> Tally] /\ failed' \in [Packets -> Tally]
            /\ due \in [Packets -> Tally]
        BY <4>1 DEF IInv, TypeOK
      <4> QED BY <4>2, TallyType
    <3> QED BY <2>1, <3>1, <3>2
  <2>5. p \in Opened
    BY <2>1 DEF Opened, Live
  <2>6. \/ Opened' = Opened
        \/ /\ Support(due[p]) \subseteq Support(sent'[p]) \cup Support(failed'[p])
           /\ Opened' = Opened \ {p}
    BY <2>1, <2>2, <2>3, <2>4
  <2>7. /\ [q \in Packets |-> Support(due[q])][p] = Support(due[p])
        /\ [q \in Packets |-> Support(sent'[q])][p] = Support(sent'[p])
        /\ [q \in Packets |-> Support(failed'[q])][p] = Support(failed'[p])
    OBVIOUS
  <2>8. UNCHANGED <<[t \in Topics |-> Support(asked[t])], maybe, topic,
                    [q \in Packets |-> Support(due[q])], elig>>
    BY <2>1 DEF Support
  <2> QED BY <1>2, <2>5, <2>6, <2>7, <2>8 DEF Service!Deliver, Opened
<1>3. ASSUME XdpOriginal(p) \/ ClonesDone(p) PROVE Service!Send(p)
  <2>1. UNCHANGED <<sent, failed>>
    BY <1>3 DEF XdpOriginal, ClonesDone
  <2>2. {} \in SUBSET elig[p]
    OBVIOUS
  <2> QED BY <2>1, <2>2, Zenon DEF Service!Send, Support
<1>4. PacketStep(p) => Service!Send(p)
  BY <1>3, ServiceCopy DEF PacketStep
<1> QED BY <1>1, <1>2, <1>4 DEF Service!Next

\* Every step of the broker is a step of the service or invisible in it.
LEMMA ServiceStep == IInv /\ [Next]_vars => [Service!Next]_(Service!vars)
<1> SUFFICES ASSUME IInv, [Next]_vars
             PROVE  Service!Next \/ UNCHANGED Service!vars
  OBVIOUS
<1>1. CASE UNCHANGED vars
  BY <1>1, ServiceSame DEF vars, maps, packet, members, promise
<1> QED
  BY <1>1, ServiceDaemon, ServicePacket DEF Next

\* The array, the count read before it and the copies made one by one implement
\* the service: nobody acknowledged is forgotten by xdp_broker and nobody else is
\* addressed, however add_subscriber and flush_topic interleave with the clones.
THEOREM Implements == Spec => RefinesPubSub
BY ServiceInit, ServiceStep, Invariance, PTL DEF Spec, RefinesPubSub, Service!Spec


-----------------------------------------------------------------------------
(* Progress: the packets and the daemon count down.                        *)

\* A packet has at most one step for every copy before it, and two more.
LEMMA PacketRankType ==
  ASSUME TypeOK, NEW p \in Packets
  PROVE  PacketRank(p) \in 0..(MAX_SUBSCRIBERS + 2)
<1>1. left[p] \in SUBSET (1..MAX_SUBSCRIBERS)
  BY DEF TypeOK
<1>2. Cardinality(left[p]) \in 0..MAX_SUBSCRIBERS
  BY <1>1, CopyNumbers
<1> QED BY <1>2 DEF PacketRank

LEMMA PacketRankNext ==
  ASSUME TypeOK', NEW p \in Packets
  PROVE  PacketRank(p)' \in Int
<1>1. left'[p] \in SUBSET (1..MAX_SUBSCRIBERS)
  BY DEF TypeOK
<1>2. Cardinality(left'[p]) \in 0..MAX_SUBSCRIBERS
  BY <1>1, CopyNumbers
<1> QED BY <1>2 DEF PacketRank

\* Every step of a packet brings its end closer.
LEMMA PacketRuns ==
  ASSUME IInv, NEW p \in Packets, PacketStep(p)
  PROVE  PacketRank(p)' < PacketRank(p)
<1>1. TypeOK /\ TypeOK'
  BY TypePacket DEF IInv
<1>2. left[p] \in SUBSET (1..MAX_SUBSCRIBERS) /\ left'[p] \in SUBSET (1..MAX_SUBSCRIBERS)
  BY <1>1 DEF TypeOK
<1>3. Cardinality(left[p]) \in 0..MAX_SUBSCRIBERS /\ Cardinality(left'[p]) \in 0..MAX_SUBSCRIBERS
  BY <1>2, CopyNumbers
<1>4. CASE XdpOriginal(p)
  <2>1. pc[p] = "xdp" /\ pc'[p] \in {"pass", "clones"}
    BY <1>1, <1>4 DEF XdpOriginal, Move, TypeOK
  <2> QED BY <1>3, <2>1 DEF PacketRank
<1>5. ASSUME NEW k \in 1..MAX_SUBSCRIBERS, XdpClone(p, k) \/ CloneLost(p, k)
      PROVE  PacketRank(p)' < PacketRank(p)
  <2>1. pc[p] = "clones" /\ pc'[p] = "clones" /\ k \in left[p] /\ left'[p] = left[p] \ {k}
    BY <1>1, <1>5 DEF XdpClone, CloneLost, TypeOK
  <2>2. Cardinality(left'[p]) = Cardinality(left[p]) - 1
    BY <1>1, <2>1, OneCopyLess
  <2> QED BY <1>3, <2>1, <2>2 DEF PacketRank
<1>6. CASE ClonesDone(p)
  <2>1. pc[p] = "clones" /\ pc'[p] = "sent"
    BY <1>1, <1>6 DEF ClonesDone, Move, TypeOK
  <2> QED BY <1>3, <2>1 DEF PacketRank
<1> QED BY <1>4, <1>5, <1>6 DEF PacketStep

\* No step of anyone else puts the end of a packet off.
LEMMA PacketWaits ==
  ASSUME IInv, [Next]_vars, NEW p \in Packets, Live(p)
  PROVE  PacketRank(p)' <= PacketRank(p)
<1>1. TypeOK /\ TypeOK'
  BY StepInv DEF IInv
<1>2. PacketRank(p) \in Int /\ PacketRank(p)' \in Int
  BY <1>1, PacketRankType, PacketRankNext
<1>3. CASE pc'[p] = pc[p] /\ left'[p] = left[p]
  <2>1. PacketRank(p)' = PacketRank(p)
    BY <1>3 DEF PacketRank
  <2> QED BY <1>2, <2>1
<1>4. CASE (\E t \in Topics : Request(t)) \/ DaemonStep \/ DaemonCrash
  <2>1. UNCHANGED <<pc, left>>
    BY <1>4, PromiseKept DEF packet
  <2> QED BY <1>3, <2>1
<1>5. ASSUME NEW q \in Packets, PacketStep(q) \/ \E t \in Topics : Arrive(q, t)
      PROVE  PacketRank(p)' <= PacketRank(p)
  <2>1. CASE q # p
    <3>1. pc'[p] = pc[p] /\ left'[p] = left[p]
      <4> USE <1>1, <2>1 DEF TypeOK, Move
      <4>1. CASE XdpOriginal(q) \/ ClonesDone(q)
        BY <4>1 DEF XdpOriginal, ClonesDone
      <4>2. CASE \E k \in 1..MAX_SUBSCRIBERS : XdpClone(q, k) \/ CloneLost(q, k)
        BY <4>2 DEF XdpClone, CloneLost
      <4>3. CASE \E t \in Topics : Arrive(q, t)
        BY <4>3 DEF Arrive
      <4> QED BY <1>5, <4>1, <4>2, <4>3 DEF PacketStep
    <3> QED BY <1>3, <3>1
  <2>2. CASE q = p
    <3>1. PacketStep(p)
      BY <1>5, <2>2 DEF Arrive
    <3> QED BY <1>2, <3>1, PacketRuns
  <2> QED BY <2>1, <2>2
<1>6. CASE UNCHANGED vars
  BY <1>3, <1>6 DEF vars, packet
<1> QED BY <1>4, <1>5, <1>6 DEF Next

\* A request has at most one step for every slot before it, and three more.
LEMMA DaemonRankType ==
  ASSUME TypeOK
  PROVE  DaemonRank \in 0..(MAX_SUBSCRIBERS + 3)
<1>1. daemon.i \in 0..MAX_SUBSCRIBERS
  BY DEF TypeOK
<1> QED BY <1>1 DEF DaemonRank

LEMMA DaemonRankNext ==
  ASSUME TypeOK'
  PROVE  DaemonRank' \in Nat
<1>1. daemon'.i \in 0..MAX_SUBSCRIBERS
  BY DEF TypeOK
<1> QED BY <1>1 DEF DaemonRank

\* Every system call of the daemon brings its answer closer.
LEMMA DaemonRuns ==
  ASSUME IInv, DaemonStep
  PROVE  DaemonRank' < DaemonRank
<1>1. /\ TypeOK
      /\ daemon \in [pc : DaemonPcs, topic : Topics \cup {Absent}, client : Clients \cup {Absent},
                     ret : {0, -1}, i : 0..MAX_SUBSCRIBERS]
  BY DEF IInv, TypeOK
<1>2. ASSUME NEW l, Goto(l) PROVE daemon'.pc = l
  BY <1>1, <1>2 DEF Goto
<1>3. ASSUME GiveUp PROVE daemon'.pc = "suback"
  BY <1>1, <1>3 DEF GiveUp
<1>4. daemon.i \in 0..MAX_SUBSCRIBERS
  BY <1>1
<1>5. CASE SubSlot
  <2>1. daemon.pc = "sub_slot" /\ daemon'.pc \in {"sub_cnt", "suback"}
    BY <1>2, <1>3, <1>5 DEF SubSlot, At
  <2> QED BY <2>1 DEF DaemonRank, At
<1>6. CASE SubCnt
  <2>1. daemon.pc = "sub_cnt" /\ daemon'.pc = "suback"
    BY <1>2, <1>3, <1>6 DEF SubCnt, At
  <2> QED BY <2>1 DEF DaemonRank, At
<1>7. CASE SubAck \/ Flushed
  <2>1. daemon.pc \in {"suback", "flushed"} /\ daemon'.pc = "recv"
    BY <1>7 DEF SubAck, Flushed, At, Idle
  <2> QED BY <2>1 DEF DaemonRank, At
<1>8. CASE FlushCnt
  <2>1. daemon.pc = "flush_slots" /\ daemon'.pc = "flushed"
    BY <1>2, <1>8 DEF FlushCnt, At
  <2> QED BY <1>4, <2>1 DEF DaemonRank, At
<1>9. CASE FlushSlot
  <2>1. daemon.pc = "flush_slots" /\ daemon'.pc = "flush_slots" /\ daemon'.i = daemon.i + 1
    BY <1>1, <1>9 DEF FlushSlot, At
  <2> QED BY <1>4, <2>1 DEF DaemonRank, At
<1> QED BY <1>5, <1>6, <1>7, <1>8, <1>9 DEF DaemonStep

\* No packet puts the answer of the daemon off; a crash ends the request.
LEMMA DaemonWaits ==
  ASSUME IInv, [Next]_vars, ~At("recv")
  PROVE  DaemonRank' <= DaemonRank
<1>1. DaemonRank \in Nat /\ DaemonRank' \in Nat
  BY StepInv, DaemonRankType, DaemonRankNext DEF IInv
<1>2. CASE daemon' = daemon
  <2>1. DaemonRank' = DaemonRank
    BY <1>2 DEF DaemonRank, At
  <2> QED BY <1>1, <2>1
<1>3. CASE DaemonStep
  BY <1>1, <1>3, DaemonRuns
<1>4. CASE DaemonCrash
  <2>1. DaemonRank' = 0
    BY <1>4 DEF DaemonCrash, Idle, DaemonRank, At
  <2> QED BY <1>1, <2>1
<1>5. ASSUME NEW p \in Packets, PacketStep(p) \/ \E t \in Topics : Arrive(p, t)
      PROVE  DaemonRank' <= DaemonRank
  BY <1>2, <1>5, PacketFrame
<1>6. ~(\E t \in Topics : Request(t))
  BY DEF Request, Register, RecvFlush, RecvSubscribe
<1>7. CASE UNCHANGED vars
  BY <1>2, <1>7 DEF vars
<1> QED BY <1>3, <1>4, <1>5, <1>6, <1>7 DEF Next

\* A packet takes at most MAX_SUBSCRIBERS + 2 steps from its arrival to its end, and a
\* request at most MAX_SUBSCRIBERS + 3 from its receipt to its answer.
RanksBounded ==
  /\ \A p \in Packets : PacketRank(p) \in 0..(MAX_SUBSCRIBERS + 2)
  /\ DaemonRank \in 0..(MAX_SUBSCRIBERS + 3)

\* xdp_broker with its copies, add_subscriber and flush_topic run down, whatever
\* requests, crashes and packets come between: each step of a packet or of the daemon
\* lowers a bounded count that no step of another raises.
THEOREM RunsDown == Spec => Progress /\ []RanksBounded
<1>1. IInv => RanksBounded
  BY PacketRankType, DaemonRankType DEF RanksBounded, IInv
<1>2. IInv /\ [Next]_vars =>
        [\A p \in Packets : /\ PacketStep(p) => PacketRank(p)' < PacketRank(p)
                            /\ Live(p) => PacketRank(p)' <= PacketRank(p)]_vars
  BY PacketRuns, PacketWaits
<1>3. IInv /\ [Next]_vars =>
        [/\ DaemonStep => DaemonRank' < DaemonRank
         /\ ~At("recv") => DaemonRank' <= DaemonRank]_vars
  BY DaemonRuns, DaemonWaits
<1> QED BY <1>1, <1>2, <1>3, Invariance, PTL DEF Spec, Progress, PacketProgress, DaemonProgress

=============================================================================
