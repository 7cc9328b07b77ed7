----------------------------- MODULE CloneBroker -----------------------------
(***************************************************************************)
(* The broker of bpf_broker_xdp/: the daemon of bpf_broker_proto.c keeps   *)
(* the subscribers of a topic in the first slots of an array, and the one  *)
(* program of bpf_broker_kern.c asks a driver with XDP_CLONE_TX for as     *)
(* many copies of a PUBLISH as there are subscribers, and is run again for *)
(* every copy to address copy k to the subscriber in slot k - 1.           *)
(*                                                                         *)
(* The number of copies is read once, the slots later, one by one and in   *)
(* no given order, while the daemon writes both.  A step is one access to  *)
(* a shared map, as in HashBroker.                                         *)
(***************************************************************************)
EXTENDS Integers, FiniteSets

CONSTANTS
  Topics,           \* topic keys (char[MAX_TOPIC_ID_CHARS])
  Clients,          \* packed ip:port of a subscriber
  Packets,          \* slots for PUBLISH packets in flight in the kernel
  Absent,           \* no entry under a key of a hash map
  NoAddr,           \* the packed value 0, i.e. 0.0.0.0:0
  MAX_TOPIC_ID,     \* max_entries of the two topic maps
  MAX_SUBSCRIBERS   \* max_entries of an inner array

ASSUME AbsentAssumption ==
  /\ Absent \notin Topics
  /\ Absent \notin Clients
  /\ Absent \notin Nat
  /\ Absent \notin [0..(MAX_SUBSCRIBERS - 1) -> Clients \cup {NoAddr}]
  /\ NoAddr \notin Clients

ASSUME BoundsAssumption ==
  /\ MAX_TOPIC_ID \in Nat
  /\ MAX_SUBSCRIBERS \in Nat

VARIABLES
  topic_sub_array,  \* topic -> its inner array
  topic_sub_cnt,    \* topic -> subscriber count
  daemon,           \* the request bpf_broker_proto is working on
  \* packets in flight
  pc,               \* where the packet is, or what became of it
  topic,            \* topic of the PUBLISH
  left,             \* copies the driver has still to run the program for
  sent,             \* client -> copies sent to it
  failed,           \* client -> copies for it the driver could not make
  stray,            \* packets of which a copy was sent to 0.0.0.0:0
  \* history: successful SUBSCRIBEs of a client since the last FLUSH, and those a
  \* packet found when it arrived; the rest as in HashBroker
  asked, due, maybe, torn, elig, calm

maps == <<topic_sub_array, topic_sub_cnt>>
packet == <<pc, topic, left, sent, failed, stray>>
members == <<asked, maybe, torn>>
promise == <<due, elig, calm>>
vars == <<maps, daemon, packet, members, promise>>

Slots == 0..(MAX_SUBSCRIBERS - 1)
Arrays == [Slots -> Clients \cup {NoAddr}]
Tally == [Clients -> 0..MAX_SUBSCRIBERS]
None == [c \in Clients |-> 0]

-----------------------------------------------------------------------------
Keys(m) == {t \in Topics : m[t] # Absent}

\* bpf_map_update_elem(..., BPF_ANY) succeeds: the key exists or there is room.
Fits(m, t) == t \in Keys(m) \/ Cardinality(Keys(m)) < MAX_TOPIC_ID

Known(t) == topic_sub_array[t] # Absent
CountOf(t) == IF topic_sub_cnt[t] = Absent THEN 0 ELSE topic_sub_cnt[t]

Live(p) == pc[p] \in {"xdp", "clones"}
Done(p) == pc[p] \in {"pass", "sent"}

\* A request overlaps the packets of topic t in flight: joining clients become
\* eligible; when they are leaving, nobody is owed a copy any more.
Overlap(t, joining, leaving) ==
  LET hit(p) == Live(p) /\ topic[p] = t IN
  /\ elig' = [p \in Packets |-> IF hit(p) THEN elig[p] \cup joining ELSE elig[p]]
  /\ due' = [p \in Packets |-> IF hit(p) /\ leaving THEN None ELSE due[p]]
  /\ calm' = {p \in calm : ~hit(p)}

-----------------------------------------------------------------------------
(* bpf_broker_proto.  fd: bpf_map_get_fd_by_id succeeds.  i is the loop    *)
(* index of flush_topic, ret what the called function returns.             *)

DaemonPcs == {"recv", "sub_slot", "sub_cnt", "suback", "flush_slots", "flushed"}

Idle == [pc |-> "recv", topic |-> Absent, client |-> Absent, ret |-> 0, i |-> 0]

At(l) == daemon.pc = l
Busy(t) == ~At("recv") /\ daemon.topic = t
Goto(l) == daemon' = [daemon EXCEPT !.pc = l]

\* Leave add_subscriber with -1; main sends SUBACK all the same.
GiveUp == daemon' = [daemon EXCEPT !.pc = "suback", !.ret = -1]

\* The outer map takes the new topic.
Admits_Always(t) == TRUE
Admits(t) == Fits(topic_sub_array, t)

\* REGISTER: add_topic.  A topic that is known is left as it is, and so is the
\* outer map when it is full (no REGACK then).  A new array is all zero.
Register(t) ==
  /\ At("recv")
  /\ ~Known(t)
  /\ topic_sub_array' = [topic_sub_array EXCEPT
       ![t] = IF Admits(t) THEN [k \in Slots |-> NoAddr] ELSE @]
  /\ UNCHANGED <<topic_sub_cnt, daemon, packet, members, promise>>

\* add_subscriber goes on to change maps only for a topic of the outer map.
RecvSubscribe(c, t) ==
  /\ At("recv")
  /\ \E fd \in BOOLEAN :
       daemon' = [Idle EXCEPT
                    !.pc     = IF Known(t) /\ fd THEN "sub_slot" ELSE "suback",
                    !.topic  = t,
                    !.client = c,
                    !.ret    = IF Known(t) /\ fd THEN 0 ELSE -1]
  /\ maybe' = [maybe EXCEPT ![t] = @ \cup {c}]
  /\ Overlap(t, {c}, FALSE)
  /\ UNCHANGED <<maps, packet, asked, torn>>

\* The count is the next free slot.
FreeSlot_Last(n) == IF n = 0 THEN 0 ELSE n - 1
FreeSlot(n) == n

SubSlot ==
  LET t == daemon.topic
      k == FreeSlot(CountOf(t))
  IN
  /\ At("sub_slot")
  /\ IF k \in Slots
     THEN /\ topic_sub_array' = [topic_sub_array EXCEPT ![t][k] = daemon.client]
          /\ Goto("sub_cnt")
     ELSE GiveUp /\ UNCHANGED topic_sub_array
  /\ UNCHANGED <<topic_sub_cnt, packet, members, promise>>

NextCount_Added(n) == n + (n + 1)
NextCount(n) == n + 1

SubCnt ==
  LET t == daemon.topic IN
  /\ At("sub_cnt")
  /\ IF Fits(topic_sub_cnt, t)
     THEN /\ topic_sub_cnt' = [topic_sub_cnt EXCEPT ![t] = NextCount(CountOf(t))]
          /\ Goto("suback")
     ELSE GiveUp /\ UNCHANGED topic_sub_cnt
  /\ UNCHANGED <<topic_sub_array, packet, members, promise>>

\* SUBACK, sent whatever add_subscriber returned.
SubAck ==
  /\ At("suback")
  /\ daemon' = Idle
  /\ asked' = IF daemon.ret = 0
              THEN [asked EXCEPT ![daemon.topic][daemon.client] = @ + 1]
              ELSE asked
  /\ UNCHANGED <<maps, packet, maybe, torn, promise>>

\* FLUSH of a topic with no subscriber counted has nothing to do and succeeds.
RecvFlush(t) ==
  /\ At("recv")
  /\ \E fd \in BOOLEAN :
       LET some  == CountOf(t) # 0 /\ Known(t)
           start == some /\ fd
       IN
       /\ daemon' = [Idle EXCEPT !.pc    = IF start THEN "flush_slots" ELSE "flushed",
                                 !.topic = t,
                                 !.ret   = IF some /\ ~fd THEN -1 ELSE 0]
       /\ asked' = [asked EXCEPT ![t] = IF start THEN None ELSE @]
       /\ Overlap(t, {}, start)
  /\ UNCHANGED <<maps, packet, maybe, torn>>

\* The slots below the count are set to zero one by one.
FlushSlot ==
  LET t == daemon.topic IN
  /\ At("flush_slots")
  /\ daemon.i < CountOf(t)
  /\ topic_sub_array' = [topic_sub_array EXCEPT ![t][daemon.i] = NoAddr]
  /\ daemon' = [daemon EXCEPT !.i = @ + 1]
  /\ UNCHANGED <<topic_sub_cnt, packet, members, promise>>

FlushCnt ==
  LET t == daemon.topic IN
  /\ At("flush_slots")
  /\ daemon.i = CountOf(t)
  /\ topic_sub_cnt' = [topic_sub_cnt EXCEPT
                         ![t] = IF Fits(topic_sub_cnt, t) THEN 0 ELSE @]
  /\ Goto("flushed")
  /\ UNCHANGED <<topic_sub_array, packet, members, promise>>

\* FLUSHED, sent whatever flush_topic returned.
Flushed ==
  LET t == daemon.topic IN
  /\ At("flushed")
  /\ daemon' = Idle
  /\ IF daemon.ret = 0
     THEN /\ maybe' = [maybe EXCEPT ![t] = {}]
          /\ torn' = torn \ {t}
     ELSE UNCHANGED <<maybe, torn>>
  /\ UNCHANGED <<maps, packet, asked, promise>>

\* The daemon is killed between two system calls and started again: the maps
\* are pinned and main opens them as they are.
DaemonCrash ==
  /\ ~At("recv")
  /\ daemon' = Idle
  /\ torn' = torn \cup {daemon.topic}
  /\ UNCHANGED <<maps, packet, asked, maybe, promise>>

-----------------------------------------------------------------------------
(* xdp_broker of bpf_broker_kern.                                          *)

Move(p, to) == pc' = [pc EXCEPT ![p] = to]

\* What the program does not write.
Shared == <<maps, daemon, members, promise, topic>>

\* A PUBLISH for topic t enters the interface.  One whose topic cannot be
\* extracted fares like one for an unknown topic.
Arrive(p, t) ==
  /\ ~Live(p)
  /\ Move(p, "xdp")
  /\ topic' = [topic EXCEPT ![p] = t]
  /\ left' = [left EXCEPT ![p] = {}]
  /\ sent' = [sent EXCEPT ![p] = None]
  /\ failed' = [failed EXCEPT ![p] = None]
  /\ stray' = stray \ {p}
  /\ due' = [due EXCEPT ![p] = asked[t]]
  /\ elig' = [elig EXCEPT ![p] = maybe[t]]
  /\ calm' = IF t \in torn \/ Busy(t) THEN calm \ {p} ELSE calm \cup {p}
  /\ UNCHANGED <<maps, daemon, members>>

\* The original packet: XDP_PASS without subscribers, else XDP_CLONE_TX(count).
XdpOriginal(p) ==
  LET n == CountOf(topic[p]) IN
  /\ pc[p] = "xdp"
  /\ Move(p, IF n = 0 THEN "pass" ELSE "clones")
  /\ left' = [left EXCEPT ![p] = 1..n]
  /\ UNCHANGED <<Shared, sent, failed, stray>>

\* The slot of copy number k.
SlotOf_Same(k) == k
SlotOf(k) == k - 1

\* Copy k: sent to whatever address the slot holds by now, zero included.
XdpClone(p, k) ==
  /\ pc[p] = "clones"
  /\ k \in left[p]
  /\ left' = [left EXCEPT ![p] = @ \ {k}]
  /\ IF SlotOf(k) \in Slots
     THEN LET dest == topic_sub_array[topic[p]][SlotOf(k)] IN
          IF dest = NoAddr
          THEN stray' = stray \cup {p} /\ UNCHANGED sent
          ELSE sent' = [sent EXCEPT ![p][dest] = @ + 1] /\ UNCHANGED stray
     ELSE UNCHANGED <<sent, stray>>
  /\ UNCHANGED <<Shared, pc, failed>>

\* The driver cannot make copy k.
CloneLost(p, k) ==
  LET dest == topic_sub_array[topic[p]][k - 1] IN
  /\ pc[p] = "clones"
  /\ k \in left[p]
  /\ left' = [left EXCEPT ![p] = @ \ {k}]
  /\ failed' = IF dest = NoAddr THEN failed ELSE [failed EXCEPT ![p][dest] = @ + 1]
  /\ UNCHANGED <<Shared, pc, sent, stray>>

ClonesDone(p) ==
  /\ pc[p] = "clones"
  /\ left[p] = {}
  /\ Move(p, "sent")
  /\ UNCHANGED <<Shared, left, sent, failed, stray>>

-----------------------------------------------------------------------------
Init ==
  /\ topic_sub_array = [t \in Topics |-> Absent]
  /\ topic_sub_cnt = [t \in Topics |-> Absent]
  /\ daemon = Idle
  /\ pc = [p \in Packets |-> "none"]
  /\ topic = [p \in Packets |-> Absent]
  /\ left = [p \in Packets |-> {}]
  /\ sent = [p \in Packets |-> None]
  /\ failed = [p \in Packets |-> None]
  /\ stray = {}
  /\ asked = [t \in Topics |-> None]
  /\ maybe = [t \in Topics |-> {}]
  /\ torn = {}
  /\ due = [p \in Packets |-> None]
  /\ elig = [p \in Packets |-> {}]
  /\ calm = {}

Request(t) == Register(t) \/ RecvFlush(t) \/ \E c \in Clients : RecvSubscribe(c, t)

DaemonStep == SubSlot \/ SubCnt \/ SubAck \/ FlushSlot \/ FlushCnt \/ Flushed

PacketStep(p) ==
  \/ XdpOriginal(p)
  \/ \E k \in 1..MAX_SUBSCRIBERS : XdpClone(p, k) \/ CloneLost(p, k)
  \/ ClonesDone(p)

Next ==
  \/ \E t \in Topics : Request(t)
  \/ DaemonStep
  \/ DaemonCrash
  \/ \E p \in Packets, t \in Topics : Arrive(p, t)
  \/ \E p \in Packets : PacketStep(p)

Spec == Init /\ [][Next]_vars

-----------------------------------------------------------------------------
(* Properties.                                                             *)

\* Every map, the daemon and every packet hold values of their types; in
\* particular no count exceeds the length of the array it counts in.
TypeOK ==
  /\ topic_sub_array \in [Topics -> Arrays \cup {Absent}]
  /\ topic_sub_cnt \in [Topics -> (0..MAX_SUBSCRIBERS) \cup {Absent}]
  /\ daemon \in [pc : DaemonPcs, topic : Topics \cup {Absent},
                 client : Clients \cup {Absent}, ret : {0, -1},
                 i : 0..MAX_SUBSCRIBERS]
  /\ pc \in [Packets -> {"none", "xdp", "clones", "pass", "sent"}]
  /\ topic \in [Packets -> Topics \cup {Absent}]
  /\ left \in [Packets -> SUBSET (1..MAX_SUBSCRIBERS)]
  /\ sent \in [Packets -> Tally]
  /\ failed \in [Packets -> Tally]
  /\ stray \in SUBSET Packets
  /\ asked \in [Topics -> Tally]
  /\ maybe \in [Topics -> SUBSET Clients]
  /\ torn \in SUBSET Topics
  /\ due \in [Packets -> Tally]
  /\ elig \in [Packets -> SUBSET Clients]
  /\ calm \in SUBSET Packets

\* A packet no request on its topic overlapped, on a topic no crash tore, is
\* copied to every client as many times as the client was acknowledged since the
\* last FLUSH, which is once unless it repeated its SUBSCRIBE: add_subscriber does
\* not look for an address it already holds.  No copy is sent to 0.0.0.0:0, no
\* slot below the count is empty or out of date, and none is used twice.
CalmExact ==
  \A p \in Packets :
    Done(p) /\ p \in calm =>
      /\ \A c \in Clients : sent[p][c] + failed[p][c] = due[p][c]
      /\ p \notin stray

\* The unchecked count update of flush_topic, and the one add_subscriber makes
\* after it has changed the array, always find room.
MapUpdatesFit ==
  At("sub_cnt") \/ At("flush_slots") => Fits(topic_sub_cnt, daemon.topic)

\* Every copy is sent to a subscriber: "Copy #k is routed to subscriber at index
\* k-1" (comment in xdp_broker).
NoStray == stray = {}

\* The array, the count and the copies made from them one by one keep the
\* promise of PubSub: every step is a step of the service or invisible in it.
Support(tally) == {c \in Clients : tally[c] > 0}

Service == INSTANCE PubSub WITH
  open <- {p \in Packets : Live(p)},
  joined <- [t \in Topics |-> Support(asked[t])],
  owed <- [p \in Packets |-> Support(due[p])],
  got <- [p \in Packets |-> Support(sent[p])],
  lost <- [p \in Packets |-> Support(failed[p])]

\* Every behaviour of the broker is one of the service: nobody acknowledged is
\* forgotten and nobody who did not ask is addressed, whatever slots change
\* between XDP_CLONE_TX(count) and the last copy.
RefinesPubSub == Service!Spec

=============================================================================
