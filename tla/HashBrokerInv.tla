---------------------------- MODULE HashBrokerInv ----------------------------
(***************************************************************************)
(* The inductive invariant behind the safety properties of HashBroker.     *)
(* Each part says how the three topic maps stand to each other and to the  *)
(* requests answered so far, at every point where the daemon may have      *)
(* stopped and a packet may be reading.                                    *)
(***************************************************************************)
EXTENDS HashBroker

SubPcs == {"sub_inner", "sub_cnt", "sub_first", "suback"}
WritingPcs == {"sub_inner", "sub_cnt", "sub_first", "flush_keys", "flush_first"}

\* topic_sub_cnt and topic_first_sub only have keys of topic_subscribe, which
\* has at most MAX_TOPIC_ID of them: no later update runs out of room.
KeysInv ==
  /\ Keys(topic_sub_cnt) \subseteq Keys(topic_subscribe)
  /\ Keys(topic_first_sub) \subseteq Keys(topic_subscribe)
  /\ IsFiniteSet(Keys(topic_subscribe))
  /\ Cardinality(Keys(topic_subscribe)) <= MAX_TOPIC_ID

\* What the daemon has done when it is about to take a given step.
DaemonInv ==
  /\ ~At("recv") => daemon.topic \in Topics
  /\ daemon.pc \in SubPcs =>
       /\ daemon.client \in Clients
       /\ daemon.client \in maybe[daemon.topic]
  /\ daemon.pc \in WritingPcs => daemon.ret = 0 /\ Known(daemon.topic)
  /\ daemon.pc \in {"sub_inner", "sub_cnt"} => CountOf(daemon.topic) < MaxCount
  /\ At("sub_cnt") \/ At("sub_first") \/ (At("suback") /\ daemon.ret = 0) =>
       daemon.client \in Inner(daemon.topic)
  /\ At("sub_first") => topic_sub_cnt[daemon.topic] = 1 /\ joined[daemon.topic] = {}
  /\ At("suback") /\ daemon.ret = 0 =>
       /\ CountOf(daemon.topic) # 0
       /\ CountOf(daemon.topic) = 1 => topic_first_sub[daemon.topic] = daemon.client
  /\ At("flush_keys") => joined[daemon.topic] = {}
  /\ At("flush_first") \/ (At("flushed") /\ daemon.ret = 0) =>
       /\ joined[daemon.topic] = {}
       /\ Inner(daemon.topic) = {}
       /\ CountOf(daemon.topic) = 0
  /\ At("flushed") /\ daemon.ret = 0 => topic_first_sub[daemon.topic] = Absent

\* The acknowledged subscribers of a topic are in its inner map, the inner map
\* holds only clients that asked, and xdp_broker's shortcut serves them all.
TopicInv ==
  \A t \in Topics :
    /\ joined[t] \subseteq Inner(t)
    /\ Inner(t) \subseteq maybe[t]
    /\ topic_first_sub[t] \in maybe[t] \cup {Absent}
    /\ CountOf(t) = 0 => joined[t] = {}
    /\ CountOf(t) = 1 => joined[t] \subseteq {topic_first_sub[t]}

\* What a packet has been promised and what the programs still can give it.
PacketInv ==
  \A p \in Packets :
    /\ got[p] \subseteq elig[p]
    /\ Live(p) =>
         /\ topic[p] \in Topics
         /\ owed[p] \subseteq joined[topic[p]]
         /\ maybe[topic[p]] \subseteq elig[p]
    /\ pc[p] \in {"xdp", "xdp_first", "tc"} => got[p] = {} /\ lost[p] = {}
    /\ pc[p] = "xdp" => pubs[p] = 0
    /\ pc[p] = "tc" => pubs[p] = 1
    /\ pc[p] = "xdp_first" => owed[p] \subseteq {topic_first_sub[topic[p]]}
    /\ pc[p] = "tc_each" => owed[p] \subseteq todo[p] \cup got[p] \cup lost[p]
    /\ Done(p) => owed[p] \subseteq got[p] \cup lost[p]

\* The shortcut is exact: with a count of one the only subscriber is the first.
FirstExact(t) == CountOf(t) = 1 => joined[t] = {topic_first_sub[t]}

\* The daemon has not yet changed a map, or has given up without a change.
Untouched(t) ==
  Busy(t) => At("sub_inner") \/ (daemon.pc \in {"suback", "flushed"} /\ daemon.ret # 0)

\* On a topic no crash tore the maps hold exactly the acknowledged subscribers,
\* and in the middle of a SUBSCRIBE its client besides.
ExactInv ==
  \A t \in Topics \ torn :
    /\ Untouched(t) => Inner(t) = joined[t] /\ FirstExact(t)
    /\ Busy(t) /\ At("sub_cnt") =>
         Inner(t) = joined[t] \cup {daemon.client} /\ FirstExact(t)
    /\ Busy(t) /\ (At("sub_first") \/ (At("suback") /\ daemon.ret = 0)) =>
         Inner(t) = joined[t] \cup {daemon.client}

\* A packet without an overlapping request sees the maps of its arrival.
CalmInv ==
  \A p \in Packets : p \in calm =>
    /\ Live(p) =>
         /\ topic[p] \notin torn
         /\ ~Busy(topic[p])
         /\ owed[p] = joined[topic[p]]
    /\ pc[p] = "xdp_first" => owed[p] = {topic_first_sub[topic[p]]}
    /\ pc[p] = "tc_each" => todo[p] \cup got[p] \cup lost[p] = owed[p]
    /\ Done(p) => got[p] \cup lost[p] = owed[p] /\ pc[p] # "drop"

\* The maps, the daemon and the packets agree at every step of add_subscriber,
\* flush_topic, xdp_broker and tc_ingress_broker: the invariant that is
\* inductive and implies Complete, Sound, CalmExact and MapUpdatesFit.
IInv == TypeOK /\ KeysInv /\ DaemonInv /\ TopicInv /\ PacketInv /\ ExactInv /\ CalmInv

-----------------------------------------------------------------------------
(* How many steps a packet and a request have before them at most.         *)

\* Two programs, then callback_fn once for every key the walk is sure to visit
\* and once for every client it may still meet, then the verdict.
PacketRank(p) ==
  CASE pc[p] = "xdp"       -> 2 * Cardinality(Clients) + 3
    [] pc[p] = "tc"        -> 2 * Cardinality(Clients) + 2
    [] pc[p] = "tc_each"   -> Cardinality(todo[p]) + Cardinality(Clients \ (got[p] \cup lost[p])) + 1
    [] pc[p] = "xdp_first" -> 1
    [] OTHER               -> 0

\* The programs end: every step of a packet brings its verdict closer, and no
\* request, crash or other packet puts it off.
PacketProgress ==
  [][\A p \in Packets :
       /\ PacketStep(p) => PacketRank(p)' < PacketRank(p)
       /\ Live(p) => PacketRank(p)' <= PacketRank(p)]_vars

\* System calls until the answer; flush_topic deletes key after key.
DaemonRank ==
  CASE At("sub_inner")                   -> 4
    [] At("sub_cnt")                     -> 3
    [] At("sub_first")                   -> 2
    [] At("flush_keys")                  -> Cardinality(Inner(daemon.topic)) + 3
    [] At("flush_first")                 -> 2
    [] daemon.pc \in {"suback", "flushed"} -> 1
    [] OTHER                             -> 0

\* Every system call of the daemon brings its answer closer, and no packet puts
\* it off.
DaemonProgress ==
  [][/\ DaemonStep => DaemonRank' < DaemonRank
     /\ ~At("recv") => DaemonRank' <= DaemonRank]_vars

\* Neither the daemon nor a packet ever goes in circles: what the liveness
\* properties need besides fairness.
Progress == PacketProgress /\ DaemonProgress

=============================================================================
