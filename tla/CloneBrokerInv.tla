--------------------------- MODULE CloneBrokerInv ---------------------------
(***************************************************************************)
(* The inductive invariant behind the safety properties of CloneBroker.    *)
(* Copies are counted: how many slots below the count hold an address,     *)
(* against how often its SUBSCRIBE succeeded and how many copies of a      *)
(* packet went to it, at every point where the daemon may have stopped and *)
(* the program may be reading.                                             *)
(***************************************************************************)
EXTENDS CloneBroker

\* The copy numbers that a packet arriving now would address to c.
Copies(t, c) == {k \in 1..CountOf(t) : topic_sub_array[t][k - 1] = c}

\* The copies of p still to be made that are for c.
Remaining(p, c) == {k \in left[p] : topic_sub_array[topic[p]][k - 1] = c}

\* A SUBSCRIBE of c is complete but for its SUBACK.
Acking(t, c) ==
  At("suback") /\ daemon.ret = 0 /\ daemon.topic = t /\ daemon.client = c

Unanswered(t, c) == IF Acking(t, c) THEN 1 ELSE 0

\* topic_sub_cnt only has keys of topic_sub_array, which has at most MAX_TOPIC_ID
\* of them: no update of the count runs out of room.
KeysInv ==
  /\ Keys(topic_sub_cnt) \subseteq Keys(topic_sub_array)
  /\ IsFiniteSet(Keys(topic_sub_array))
  /\ Cardinality(Keys(topic_sub_array)) <= MAX_TOPIC_ID

\* What the daemon has done when it is about to take a given step.
DaemonInv ==
  /\ ~At("recv") => daemon.topic \in Topics
  /\ daemon.pc \in {"sub_slot", "sub_cnt", "suback"} =>
       /\ daemon.client \in Clients
       /\ daemon.client \in maybe[daemon.topic]
  /\ daemon.pc \in {"sub_slot", "sub_cnt", "flush_slots"} =>
       daemon.ret = 0 /\ Known(daemon.topic)
  /\ At("sub_cnt") =>
       /\ CountOf(daemon.topic) \in Slots
       /\ topic_sub_array[daemon.topic][CountOf(daemon.topic)] = daemon.client
  /\ At("flush_slots") =>
       daemon.i <= CountOf(daemon.topic) /\ asked[daemon.topic] = None
  /\ At("flushed") /\ daemon.ret = 0 => CountOf(daemon.topic) = 0

\* The slots below the count hold clients that asked or nothing, and every client
\* as often at least as it was acknowledged.
SlotsInv ==
  \A t \in Topics :
    /\ \A k \in 1..CountOf(t) : topic_sub_array[t][k - 1] \in maybe[t] \cup {NoAddr}
    /\ \A c \in Clients :
         asked[t][c] + Unanswered(t, c) <= Cardinality(Copies(t, c))

\* On a topic no crash tore, and outside a FLUSH, exactly as often.
ExactInv ==
  \A t \in Topics \ torn : ~(Busy(t) /\ At("flush_slots")) =>
    /\ \A k \in 1..CountOf(t) : topic_sub_array[t][k - 1] # NoAddr
    /\ \A c \in Clients :
         asked[t][c] + Unanswered(t, c) = Cardinality(Copies(t, c))

\* What a packet has been promised and what the copies still to be made can give
\* it.  Only a FLUSH moves slots the packet counts on, and then nothing is due.
PacketInv ==
  \A p \in Packets :
    /\ Support(sent[p]) \cup Support(failed[p]) \subseteq elig[p]
    /\ Live(p) =>
         /\ topic[p] \in Topics
         /\ maybe[topic[p]] \subseteq elig[p]
         /\ \A c \in Clients : due[p][c] <= asked[topic[p]][c]
    /\ pc[p] = "xdp" => sent[p] = None /\ failed[p] = None
    /\ pc[p] = "clones" =>
         /\ Known(topic[p])
         /\ \A k \in left[p] :
              topic_sub_array[topic[p]][k - 1] \in elig[p] \cup {NoAddr}
         /\ due[p] # None => left[p] \subseteq 1..CountOf(topic[p])
         /\ \A c \in Clients :
              /\ sent[p][c] + failed[p][c] + Cardinality(left[p]) <= MAX_SUBSCRIBERS
              /\ due[p][c] <= sent[p][c] + failed[p][c] + Cardinality(Remaining(p, c))
    /\ Done(p) => \A c \in Clients : due[p][c] <= sent[p][c] + failed[p][c]

\* A packet without an overlapping request sees the array of its arrival.
CalmInv ==
  \A p \in Packets : p \in calm =>
    /\ p \notin stray
    /\ Live(p) =>
         /\ topic[p] \notin torn
         /\ ~Busy(topic[p])
         /\ due[p] = asked[topic[p]]
    /\ pc[p] = "clones" =>
         /\ left[p] \subseteq 1..CountOf(topic[p])
         /\ \A c \in Clients :
              sent[p][c] + failed[p][c] + Cardinality(Remaining(p, c)) = due[p][c]
    /\ Done(p) => \A c \in Clients : sent[p][c] + failed[p][c] = due[p][c]

\* The array, its count, the daemon and the copies of every packet agree at every
\* step of add_subscriber, flush_topic and xdp_broker: the invariant that is
\* inductive and implies CalmExact, MapUpdatesFit and the steps of PubSub.
IInv == TypeOK /\ KeysInv /\ DaemonInv /\ SlotsInv /\ ExactInv /\ PacketInv /\ CalmInv

-----------------------------------------------------------------------------
(* How many steps a packet and a request have before them at most.         *)

\* The original, every copy that XDP_CLONE_TX asked for, then the end.
PacketRank(p) ==
  CASE pc[p] = "xdp"    -> MAX_SUBSCRIBERS + 2
    [] pc[p] = "clones" -> Cardinality(left[p]) + 1
    [] OTHER            -> 0

\* Every step of a packet brings its end closer, and no request, crash or other
\* packet puts it off: the copies are those counted when the original was seen.
PacketProgress ==
  [][\A p \in Packets :
       /\ PacketStep(p) => PacketRank(p)' < PacketRank(p)
       /\ Live(p) => PacketRank(p)' <= PacketRank(p)]_vars

\* System calls until the answer; flush_topic clears slot after slot.
DaemonRank ==
  CASE At("sub_slot")                      -> 3
    [] At("sub_cnt")                       -> 2
    [] At("flush_slots")                   -> (MAX_SUBSCRIBERS - daemon.i) + 2
    [] daemon.pc \in {"suback", "flushed"} -> 1
    [] OTHER                               -> 0

\* Every system call of the daemon brings its answer closer, and no packet puts
\* it off.
DaemonProgress ==
  [][/\ DaemonStep => DaemonRank' < DaemonRank
     /\ ~At("recv") => DaemonRank' <= DaemonRank]_vars

\* Neither the daemon nor a packet ever goes in circles.
Progress == PacketProgress /\ DaemonProgress

=============================================================================
