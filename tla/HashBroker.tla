----------------------------- MODULE HashBroker -----------------------------
(***************************************************************************)
(* The broker of bpf_broker/: one user-space daemon (bpf_broker_proto.c)   *)
(* that changes the pinned BPF maps one system call at a time, and the two *)
(* kernel programs of bpf_broker_kern.c that read the same maps without a  *)
(* lock for every PUBLISH packet: xdp_broker, the fast path for a topic    *)
(* with one subscriber, and tc_ingress_broker, which clones the packet for *)
(* every key of the topic's inner map.                                     *)
(*                                                                         *)
(* A step is one access to a shared map.  Only the daemon writes the topic *)
(* maps, so its own lookups are taken together with the write they lead    *)
(* to.  Topics are the keys both sides agree on.                           *)
(***************************************************************************)
EXTENDS Integers, FiniteSets

CONSTANTS
  Topics,             \* topic keys (char[MAX_TOPIC_ID_CHARS])
  Clients,            \* packed ip:port of a subscriber
  Packets,            \* slots for PUBLISH packets in flight in the kernel
  Absent,             \* no entry under a key of a hash map
  MAX_TOPIC_ID,       \* max_entries of the three topic maps
  INNER_MAX_ENTRIES,  \* max_entries of an inner map made by add_topic (256)
  U32,                \* 2^32, the range of a subscriber count
  MaxCount            \* bound on topic_sub_cnt: SUBSCRIBEs between FLUSHes

ASSUME AbsentAssumption ==
  /\ Absent \notin Topics
  /\ Absent \notin Clients
  /\ Absent \notin Nat
  /\ \A S \in SUBSET Clients : Absent # S

ASSUME BoundsAssumption ==
  /\ MAX_TOPIC_ID \in Nat
  /\ INNER_MAX_ENTRIES \in Nat
  /\ MaxCount \in Nat
  /\ U32 \in Nat
  /\ MaxCount < U32

VARIABLES
  topic_subscribe,  \* topic -> key set of its inner map
  topic_sub_cnt,    \* topic -> subscriber count
  topic_first_sub,  \* topic -> key of the first subscriber
  daemon,           \* the request bpf_broker_proto is working on
  \* packets in flight
  pc,               \* the program the packet is in, or its verdict
  topic,            \* topic of the PUBLISH
  todo,             \* keys the walk of the inner map is sure to visit yet
  bad,              \* a failed helper left the packet with a wrong checksum
  got,              \* clients an intact copy was sent to
  lost,             \* clients whose copy a helper failed on
  pubs,             \* increments of pub_counter_2
  \* history: who is to be served
  joined,           \* topic -> clients sent SUBACK for a successful SUBSCRIBE,
                    \*   with no FLUSH of the topic begun since
  maybe,            \* topic -> clients whose SUBSCRIBE was received, with no
                    \*   completed FLUSH of the topic since
  torn,             \* topics on which the daemon died half-way
  owed,             \* packet -> clients in joined ever since it arrived
  elig,             \* packet -> clients in maybe at some time since then
  calm              \* packets no request overlapped, on a topic not torn

maps == <<topic_subscribe, topic_sub_cnt, topic_first_sub>>
packet == <<pc, topic, todo, bad, got, lost, pubs>>
members == <<joined, maybe, torn>>
promise == <<owed, elig, calm>>
vars == <<maps, daemon, packet, members, promise>>

-----------------------------------------------------------------------------
(* BPF hash maps keyed by topic.                                           *)

Keys(m) == {t \in Topics : m[t] # Absent}

\* bpf_map_update_elem(..., BPF_ANY) succeeds: the key exists or there is room.
Fits(m, t) == t \in Keys(m) \/ Cardinality(Keys(m)) < MAX_TOPIC_ID

\* The topic has an inner map.
Known(t) == topic_subscribe[t] # Absent

\* Key set of the inner map of a topic (empty when the topic is unknown).
Inner(t) == IF Known(t) THEN topic_subscribe[t] ELSE {}

CountOf(t) == IF topic_sub_cnt[t] = Absent THEN 0 ELSE topic_sub_cnt[t]

-----------------------------------------------------------------------------
(* Packets.                                                                *)

LivePcs == {"xdp", "xdp_first", "tc", "tc_each"}
Verdicts == {"tx", "drop", "shot", "ok"}

Live(p) == pc[p] \in LivePcs
Done(p) == pc[p] \in Verdicts

\* A request overlaps the packets of topic t in flight: joining clients become
\* eligible, leaving ones are no longer owed a copy.
Overlap(t, joining, leaving) ==
  LET hit(p) == Live(p) /\ topic[p] = t IN
  /\ elig' = [p \in Packets |-> IF hit(p) THEN elig[p] \cup joining ELSE elig[p]]
  /\ owed' = [p \in Packets |-> IF hit(p) THEN owed[p] \ leaving ELSE owed[p]]
  /\ calm' = {p \in calm : ~hit(p)}

-----------------------------------------------------------------------------
(* bpf_broker_proto: main receives a request and calls add_topic,          *)
(* add_subscriber or flush_topic.  fd: bpf_map_get_fd_by_id succeeds.      *)

DaemonPcs == {"recv", "sub_inner", "sub_cnt", "sub_first", "suback",
              "flush_keys", "flush_first", "flushed"}

\* ret is what the called function returns.
Idle == [pc |-> "recv", topic |-> Absent, client |-> Absent, ret |-> 0]

At(l) == daemon.pc = l
Busy(t) == ~At("recv") /\ daemon.topic = t
Goto(l) == daemon' = [daemon EXCEPT !.pc = l]

\* Leave add_subscriber with -1; main sends SUBACK all the same.
GiveUp == daemon' = [daemon EXCEPT !.pc = "suback", !.ret = -1]

\* REGISTER: add_topic.  A topic that is known is left as it is, and so is the
\* outer map when it is full (no REGACK then).
Register(t) ==
  /\ At("recv")
  /\ ~Known(t)
  /\ topic_subscribe' = [topic_subscribe EXCEPT
                           ![t] = IF Fits(topic_subscribe, t) THEN {} ELSE @]
  /\ UNCHANGED <<topic_sub_cnt, topic_first_sub, daemon, packet, members, promise>>

\* add_subscriber goes on to change maps only for a topic of the outer map.
MayAdd_Unchecked(t, fd) == fd
MayAdd(t, fd) == Known(t) /\ fd

\* MaxCount is a bound of the model: the code takes any number of SUBSCRIBEs, and its
\* u32 count wraps at 2^32.
RecvSubscribe(c, t) ==
  /\ At("recv")
  /\ CountOf(t) < MaxCount
  /\ \E fd \in BOOLEAN :
       daemon' = [pc     |-> IF MayAdd(t, fd) THEN "sub_inner" ELSE "suback",
                  topic  |-> t,
                  client |-> c,
                  ret    |-> IF MayAdd(t, fd) THEN 0 ELSE -1]
  /\ maybe' = [maybe EXCEPT ![t] = @ \cup {c}]
  /\ Overlap(t, {c}, {})
  /\ UNCHANGED <<maps, packet, joined, torn>>

SubInner ==
  LET t == daemon.topic
      c == daemon.client
  IN
  /\ At("sub_inner")
  /\ IF c \in Inner(t) \/ Cardinality(Inner(t)) < INNER_MAX_ENTRIES
     THEN /\ topic_subscribe' = [topic_subscribe EXCEPT ![t] = Inner(t) \cup {c}]
          /\ Goto("sub_cnt")
     ELSE GiveUp /\ UNCHANGED topic_subscribe
  /\ UNCHANGED <<topic_sub_cnt, topic_first_sub, packet, members, promise>>

NextCount_Down(n) == n - 1
NextCount(n) == (n + 1) % U32

\* The new count says that the client is the first subscriber.
IsFirst_OldCount(n) == n = 0
IsFirst(n) == n = 1

SubCnt ==
  LET t == daemon.topic
      n == NextCount(CountOf(t))
  IN
  /\ At("sub_cnt")
  /\ IF Fits(topic_sub_cnt, t)
     THEN /\ topic_sub_cnt' = [topic_sub_cnt EXCEPT ![t] = n]
          /\ Goto(IF IsFirst(n) THEN "sub_first" ELSE "suback")
     ELSE GiveUp /\ UNCHANGED topic_sub_cnt
  /\ UNCHANGED <<topic_subscribe, topic_first_sub, packet, members, promise>>

SubFirst ==
  LET t == daemon.topic IN
  /\ At("sub_first")
  /\ IF Fits(topic_first_sub, t)
     THEN /\ topic_first_sub' = [topic_first_sub EXCEPT
                                   ![t] = daemon.client]
          /\ Goto("suback")
     ELSE GiveUp /\ UNCHANGED topic_first_sub
  /\ UNCHANGED <<topic_subscribe, topic_sub_cnt, packet, members, promise>>

\* SUBACK, sent whatever add_subscriber returned.
SubAck ==
  /\ At("suback")
  /\ daemon' = Idle
  /\ joined' = IF daemon.ret = 0
               THEN [joined EXCEPT ![daemon.topic] = @ \cup {daemon.client}]
               ELSE joined
  /\ UNCHANGED <<maps, packet, maybe, torn, promise>>

\* FLUSH of an unknown topic has nothing to do and succeeds.
RecvFlush(t) ==
  /\ At("recv")
  /\ \E fd \in BOOLEAN :
       LET start == Known(t) /\ fd IN
       /\ daemon' = [pc     |-> IF start THEN "flush_keys" ELSE "flushed",
                     topic  |-> t,
                     client |-> Absent,
                     ret    |-> IF Known(t) /\ ~fd THEN -1 ELSE 0]
       /\ joined' = [joined EXCEPT ![t] = IF start THEN {} ELSE @]
       /\ Overlap(t, {}, IF start THEN Clients ELSE {})
  /\ UNCHANGED <<maps, packet, maybe, torn>>

\* get_next_key(NULL) finds some key, delete_elem removes it.  The kernel
\* recycles the element at once, so a walk of the map under way may miss any of
\* the keys it has not visited.
RemoveKey_Skip(S, c) == S
RemoveKey(S, c) == S \ {c}

FlushKey ==
  LET t == daemon.topic IN
  /\ At("flush_keys")
  /\ \E c \in Inner(t) :
       topic_subscribe' = [topic_subscribe EXCEPT ![t] = RemoveKey(Inner(t), c)]
  /\ todo' = [p \in Packets |->
                IF pc[p] = "tc_each" /\ topic[p] = t THEN {} ELSE todo[p]]
  /\ UNCHANGED <<topic_sub_cnt, topic_first_sub, daemon, pc, topic, bad, got, lost,
                 pubs, members, promise>>

\* No key is left: the loop ends and the count is reset.
FlushCnt ==
  LET t == daemon.topic IN
  /\ At("flush_keys")
  /\ Inner(t) = {}
  /\ topic_sub_cnt' = [topic_sub_cnt EXCEPT
                         ![t] = IF Fits(topic_sub_cnt, t) THEN 0 ELSE @]
  /\ Goto("flush_first")
  /\ UNCHANGED <<topic_subscribe, topic_first_sub, packet, members, promise>>

NoFirst_Stale(old) == old
NoFirst(old) == Absent

FlushFirst ==
  LET t == daemon.topic IN
  /\ At("flush_first")
  /\ topic_first_sub' = [topic_first_sub EXCEPT ![t] = NoFirst(@)]
  /\ Goto("flushed")
  /\ UNCHANGED <<topic_subscribe, topic_sub_cnt, packet, members, promise>>

\* FLUSHED, sent whatever flush_topic returned.
Flushed ==
  LET t == daemon.topic IN
  /\ At("flushed")
  /\ daemon' = Idle
  /\ IF daemon.ret = 0
     THEN /\ maybe' = [maybe EXCEPT ![t] = {}]
          /\ torn' = torn \ {t}
     ELSE UNCHANGED <<maybe, torn>>
  /\ UNCHANGED <<maps, packet, joined, promise>>

\* The daemon is killed between two system calls and started again: the maps
\* are pinned and main opens them as they are.
DaemonCrash ==
  /\ ~At("recv")
  /\ daemon' = Idle
  /\ torn' = torn \cup {daemon.topic}
  /\ UNCHANGED <<maps, packet, joined, maybe, promise>>

-----------------------------------------------------------------------------
(* bpf_broker_kern: the two programs, one step per map they read.          *)

Move(p, to) == pc' = [pc EXCEPT ![p] = to]
Count(p, n) == pubs' = [pubs EXCEPT ![p] = @ + n]

\* What no program writes.
Shared == <<maps, daemon, members, promise, topic>>

\* A PUBLISH for topic t enters the interface.  One whose topic cannot be
\* extracted fares like one for an unknown topic.
Arrive(p, t) ==
  /\ ~Live(p)
  /\ Move(p, "xdp")
  /\ topic' = [topic EXCEPT ![p] = t]
  /\ todo' = [todo EXCEPT ![p] = {}]
  /\ bad' = bad \ {p}
  /\ got' = [got EXCEPT ![p] = {}]
  /\ lost' = [lost EXCEPT ![p] = {}]
  /\ pubs' = [pubs EXCEPT ![p] = 0]
  /\ owed' = [owed EXCEPT ![p] = joined[t]]
  /\ elig' = [elig EXCEPT ![p] = maybe[t]]
  /\ calm' = IF t \in torn \/ Busy(t) THEN calm \ {p} ELSE calm \cup {p}
  /\ UNCHANGED <<maps, daemon, members>>

\* xdp_broker keeps a packet for itself when the topic has one subscriber.
FastPath_Any(n) == n # 0
FastPath(n) == n = 1

XdpBroker(p) ==
  /\ pc[p] = "xdp"
  /\ Count(p, 1)
  /\ Move(p, IF FastPath(CountOf(topic[p])) THEN "xdp_first" ELSE "tc")
  /\ UNCHANGED <<Shared, todo, bad, got, lost>>

XdpFirst(p) ==
  LET first == topic_first_sub[topic[p]] IN
  /\ pc[p] = "xdp_first"
  /\ IF first = Absent
     THEN Move(p, "drop") /\ UNCHANGED got
     ELSE Move(p, "tx") /\ got' = [got EXCEPT ![p] = {first}]
  /\ UNCHANGED <<Shared, todo, bad, lost, pubs>>

\* tc_ingress_broker up to the start of the walk over the inner map.
TcIngress(p) ==
  /\ pc[p] = "tc"
  /\ Count(p, 1)
  /\ Move(p, IF Known(topic[p]) THEN "tc_each" ELSE "ok")
  /\ todo' = [todo EXCEPT ![p] = Inner(topic[p])]
  /\ UNCHANGED <<Shared, bad, got, lost>>

\* bpf_skb_pull_data fails (before the packet is counted) or a checksum helper
\* does (after): the packet goes up the stack and nobody is sent a copy.
TcFail(p) ==
  /\ pc[p] = "tc"
  /\ \E counted \in {0, 1} : (counted = 1 => Known(topic[p])) /\ Count(p, counted)
  /\ Move(p, "ok")
  /\ lost' = [lost EXCEPT ![p] = Inner(topic[p])]
  /\ UNCHANGED <<Shared, todo, bad, got>>

Visited_Again(S, c) == S
Visited(S, c) == S \ {c}

\* callback_fn for key c, one the walk found at its start or a later one: the
\* copy is sent, bpf_clone_redirect fails, or a checksum helper fails.  The last
\* leaves an address changed and its checksum not, for every later copy too:
\* they are all made from one skb.
TcCallback(p, c) ==
  /\ pc[p] = "tc_each"
  /\ c \in Inner(topic[p])
  /\ c \in todo[p] \/ c \notin got[p] \cup lost[p]
  /\ todo' = [todo EXCEPT ![p] = Visited(@, c)]
  /\ \/ /\ p \notin bad
        /\ got' = [got EXCEPT ![p] = @ \cup {c}]
        /\ UNCHANGED <<lost, bad>>
     \/ /\ lost' = [lost EXCEPT ![p] = @ \cup {c}]
        /\ bad' \in {bad, bad \cup {p}}
        /\ UNCHANGED got
  /\ UNCHANGED <<Shared, pc, pubs>>

\* The walk is over: TC_ACT_SHOT.
TcDone(p) ==
  /\ pc[p] = "tc_each"
  /\ todo[p] = {}
  /\ Move(p, "shot")
  /\ UNCHANGED <<Shared, todo, bad, got, lost, pubs>>

-----------------------------------------------------------------------------
Init ==
  /\ topic_subscribe = [t \in Topics |-> Absent]
  /\ topic_sub_cnt = [t \in Topics |-> Absent]
  /\ topic_first_sub = [t \in Topics |-> Absent]
  /\ daemon = Idle
  /\ pc = [p \in Packets |-> "none"]
  /\ topic = [p \in Packets |-> Absent]
  /\ todo = [p \in Packets |-> {}]
  /\ bad = {}
  /\ got = [p \in Packets |-> {}]
  /\ lost = [p \in Packets |-> {}]
  /\ pubs = [p \in Packets |-> 0]
  /\ joined = [t \in Topics |-> {}]
  /\ maybe = [t \in Topics |-> {}]
  /\ torn = {}
  /\ owed = [p \in Packets |-> {}]
  /\ elig = [p \in Packets |-> {}]
  /\ calm = {}

Request(t) == Register(t) \/ RecvFlush(t) \/ \E c \in Clients : RecvSubscribe(c, t)

DaemonStep ==
  \/ SubInner \/ SubCnt \/ SubFirst \/ SubAck
  \/ FlushKey \/ FlushCnt \/ FlushFirst \/ Flushed

PacketStep(p) ==
  \/ XdpBroker(p) \/ XdpFirst(p)
  \/ TcIngress(p) \/ TcFail(p) \/ TcDone(p)
  \/ \E c \in Clients : TcCallback(p, c)

Next ==
  \/ \E t \in Topics : Request(t)
  \/ DaemonStep
  \/ DaemonCrash
  \/ \E p \in Packets, t \in Topics : Arrive(p, t)
  \/ \E p \in Packets : PacketStep(p)

Spec == Init /\ [][Next]_vars

\* A request once received is worked on (main blocks only in recvfrom), and a
\* kernel program runs to its end (the verifier admits no other).
Fairness ==
  /\ WF_vars(DaemonStep)
  /\ \A p \in Packets : WF_vars(PacketStep(p))

FairSpec == Spec /\ Fairness

-----------------------------------------------------------------------------
(* Properties.                                                             *)

\* Every map, the daemon and every packet hold values of their types; the
\* counts are u32 values of topic_sub_cnt.
TypeOK ==
  /\ topic_subscribe \in [Topics -> (SUBSET Clients) \cup {Absent}]
  /\ topic_sub_cnt \in [Topics -> (0..MaxCount) \cup {Absent}]
  /\ topic_first_sub \in [Topics -> Clients \cup {Absent}]
  /\ daemon \in [pc : DaemonPcs, topic : Topics \cup {Absent},
                 client : Clients \cup {Absent}, ret : {0, -1}]
  /\ pc \in [Packets -> LivePcs \cup Verdicts \cup {"none"}]
  /\ topic \in [Packets -> Topics \cup {Absent}]
  /\ todo \in [Packets -> SUBSET Clients]
  /\ bad \in SUBSET Packets
  /\ got \in [Packets -> SUBSET Clients]
  /\ lost \in [Packets -> SUBSET Clients]
  /\ pubs \in [Packets -> 0..2]
  /\ joined \in [Topics -> SUBSET Clients]
  /\ maybe \in [Topics -> SUBSET Clients]
  /\ torn \in SUBSET Topics
  /\ owed \in [Packets -> SUBSET Clients]
  /\ elig \in [Packets -> SUBSET Clients]
  /\ calm \in SUBSET Packets

\* Nobody is forgotten: a client that had its SUBACK for a successful SUBSCRIBE
\* before the packet arrived, and whose topic was not being flushed while the
\* programs ran, is sent a copy or was the victim of a failed helper, however
\* the lock-free map reads of xdp_broker and tc_ingress_broker interleave with
\* the daemon's writes and crashes.
Complete == \A p \in Packets : Done(p) => owed[p] \subseteq got[p] \cup lost[p]

\* Nobody is addressed who did not ask: a copy goes only to clients whose
\* SUBSCRIBE the daemon received before the packet's verdict and after the last
\* FLUSH of the topic that was complete when the packet arrived.
Sound == \A p \in Packets : got[p] \subseteq elig[p]

\* A packet no request on its topic overlapped, on a topic no crash tore, goes
\* to exactly the acknowledged subscribers, and xdp_broker does not drop it.
CalmExact ==
  \A p \in Packets :
    Done(p) /\ p \in calm =>
      /\ got[p] \cup lost[p] = owed[p]
      /\ pc[p] # "drop"

\* The updates of topic_sub_cnt and topic_first_sub cannot fail for lack of
\* room: flush_topic does not look at their results, and add_subscriber has
\* changed the inner map by then and does not undo it.
MapUpdatesFit ==
  /\ At("sub_cnt") => Fits(topic_sub_cnt, daemon.topic)
  /\ At("sub_first") => Fits(topic_first_sub, daemon.topic)
  /\ At("flush_keys") => Fits(topic_sub_cnt, daemon.topic)

\* The daemon comes back to recvfrom from every request: the delete-all loop of
\* flush_topic ends.
DaemonReturns == ~At("recv") ~> At("recv")

\* Every packet gets its verdict, also while the daemon keeps changing the maps
\* under the walk.
PacketsFinish == \A p \in Packets : Live(p) ~> Done(p)

\* pub_counter_2 counts a PUBLISH once: aggregate_pubsub_count.sh reports it as
\* the publish rate.
CountedOnce == \A p \in Packets : Done(p) => pubs[p] = 1

\* The maps and the two programs together keep the promise of PubSub: every
\* step of the daemon and of a packet is a step of the service or invisible.
Service == INSTANCE PubSub WITH open <- {p \in Packets : Live(p)}

\* Every behaviour of the broker is one of the service (see Service above).
RefinesPubSub == Service!Spec

=============================================================================
