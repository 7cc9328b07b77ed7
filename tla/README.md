# TLA+ verification of bpf-broker

bpf-broker is a publish/subscribe broker for UDP whose data plane runs in the
Linux kernel. A user-space daemon answers `REGISTER`, `SUBSCRIBE` and `FLUSH`
and writes BPF maps; eBPF programs read those maps for every `PUBLISH` packet
and send copies to the subscribers. There is no lock between the two: the
daemon changes several maps one system call at a time, the programs read them
one lookup at a time, and the maps are pinned, so they outlive the daemon.

## Inventory

| Part | State | Operations | What is hard about it |
|---|---|---|---|
| hash broker, daemon (`bpf_broker/bpf_broker_proto.c`) | pinned maps `topic_subscribe` (topic -> inner hash map of `ip:port` keys), `topic_sub_cnt`, `topic_first_sub` | `add_topic`, `add_subscriber`, `flush_topic`, called by `main` | each is a sequence of map writes; some results are ignored; SUBACK and FLUSHED are sent whatever happened; a crash leaves half a change |
| hash broker, programs (`bpf_broker/bpf_broker_kern.c`) | the same maps, counters, one packet each | `xdp_broker` (fast path for a count of one), `tc_ingress_broker` with `callback_fn` (one copy per key of the inner map) | lock-free reads of two or three maps; helpers that fail half-way through one shared skb |
| clone broker (`bpf_broker_xdp/`) | `topic_sub_array` (topic -> array), `topic_sub_cnt` | the same requests; `xdp_broker` returns `XDP_CLONE_TX(count)` and runs again for every copy | the count is read once, the slots later |
| packet headers and checksums (both `kern.c`) | the packet | `compute_ip_checksum`, `compute_udp_checksum`, the rewriting in `xdp_broker`, `tc_ingress_broker`, `callback_fn` | odd lengths, padding, 256-byte limit, carries; one skb rewritten for one subscriber after the other |
| topic keys (both `proto.c`, both `kern.c`) | none | `extract_topic_id`, the trimming in `main` | two parsers that must agree |
| loaders (both `bpf_broker_user.c`) | pins, attached programs, TC hooks | load, pin, attach, wait for a signal, detach | partial failure, signals, pins replaced under a running daemon |
| user-space broker (`mqttsn-udp-sr/src/main.rs`) | map of topics to client sets | `handle_message` | single thread; its README promises other answers |
| benchmark (`pubsub-benchmark/src/main.rs`) | counters, latency samples, search bounds | handshakes, trial, `find_ndr` | lost or late datagrams in the accounting, threads nobody joins, edge cases of the search |
| mixed benchmark, echo application, scripts | none of their own | traffic, measurement | - |

What makes the brokers correct: nobody with an acknowledged subscription is
forgotten, nobody else is addressed, without concurrency the copies are exactly
the subscriptions, map updates whose failure would be ignored cannot fail, and
requests and packets come to an end. A copy must pass the checks of the kernel
that receives it, and the benchmark's verdict must mean what it says. The list of hazards with their lines is in
`PROJECT.json`.

## Modules

| Module | What it is |
|---|---|
| `PubSub` | The abstract service: what any of the brokers promises |
| `HashBroker` | `bpf_broker/`: daemon and both programs over the shared maps |
| `HashBrokerInv` | The inductive invariant of `HashBroker`, the ranks of packets and daemon |
| `HashBrokerProofs` | Theorems about `HashBroker`, checked by TLAPS |
| `CloneBroker` | `bpf_broker_xdp/`: daemon and program over the shared maps |
| `CloneBrokerInv`, `CloneBrokerProofs` | Its inductive invariant and ranks; theorems, checked by TLAPS |
| `Loader` | both `bpf_broker_user.c` and the start of the daemons, over pins and interfaces |
| `LoaderInv`, `LoaderProofs` | Its inductive invariant; theorems, checked by TLAPS |
| `UserBroker` | `mqttsn-udp-sr`: the broker in user space |
| `UserBrokerProofs` | Theorems about `UserBroker`, checked by TLAPS |
| `NdrSearch` | `find_ndr` of the benchmark |
| `NdrSearchProofs` | Theorems about `NdrSearch`, checked by TLAPS |
| `PacketPath` | one PUBLISH, byte for byte, through the programs: topic key and checksums |
| `PacketPathInv`, `PacketPathProofs` | Its inductive invariant; theorems, checked by TLAPS |
| `BenchmarkTrial` | the trials of the benchmark: main, workers, publishers, network |
| `BenchmarkTrialInv`, `BenchmarkTrialProofs` | Its inductive invariant and ranks; theorems, checked by TLAPS |
| `InductionLemmas` | Induction and sums over finite sets, for the proofs of the three modules above |
| `MCHashBroker`, `MCCloneBroker`, `MCLoader`, `MCPacketPath`, `MCBenchmarkTrial` | Symmetry sets, command lines and packets for TLC |

`HashBroker`, `CloneBroker` and `UserBroker` implement `PubSub`. `Loader` justifies that
daemon and programs of `HashBroker` and `CloneBroker` share their maps; `PacketPath`
what they call a topic key, an intact and a spoiled copy. `BenchmarkTrial` uses a
broker seen from outside, and its verdict is the outcome of a trial in `NdrSearch`.

### PubSub

A SUBSCRIBE and a FLUSH take time, so the service keeps two sets per topic:
`joined`, the clients that must be served (acknowledged, no FLUSH begun since),
and `maybe`, those that may be served (SUBSCRIBE received, no FLUSH completed
since). A message is owed to the clients that are in `joined` all the time it
is handled (`owed`), and may go to those in `maybe` at some time in between
(`elig`). `Deliver` sends copies only to `elig`, and closes a message only when
everyone in `owed` got a copy or had it fail (`lost`).

### HashBroker

*Data.* Topics and clients are values that are only compared. A hash map keyed
by topic is a function with `Absent` for a missing key; the inner hash map is its
key set (its values are never read). `Fits` is the kernel's rule for updates of
a full map. Counts keep their width (`NextCount` is modulo `U32`).

*Daemon.* `daemon` is the request being worked on. Each action is one map
write, with the daemon's own lookups before it: only the daemon writes these
maps, so nobody can change what it looked up. `RecvSubscribe` - `SubInner` -
`SubCnt` - `SubFirst` - `SubAck` is `add_subscriber` and its reply; `RecvFlush` -
`FlushKey`* - `FlushCnt` - `FlushFirst` - `Flushed` is `flush_topic`. Every error
return is there: unknown topic, `bpf_map_get_fd_by_id` failing, full inner map.
`DaemonCrash` kills the daemon between any two writes and starts it again on
the same maps.

*Packets.* A packet goes through `XdpBroker` (count it, read the count),
`XdpFirst` (read the first subscriber: XDP_TX or XDP_DROP), or `TcIngress` (count
it again, find the inner map), `TcCallback` for each key, `TcDone`. `TcFail` is
any helper failing before the walk. In the walk a copy may be sent, fail, or be
spoiled by a failed checksum helper that also spoils all later copies, because
they are made from one skb (`bad`). Keys present during the whole walk are
visited; keys added meanwhile may be; and since the kernel recycles elements, a
deletion frees the walk from visiting what it has not yet seen.

*History.* `joined`, `maybe`, `owed`, `elig` record what PubSub talks about;
`torn` are the topics on which the daemon died half-way and which no FLUSH has
repaired; `calm` are the packets no request on their topic overlapped. None of
them is read by an action of the program.

*Not in the module.* Header rewriting (a copy is intact or not; see `PacketPath`:
that `bad` stays set for the rest of the walk is `SpoiledForGood` there, and
nothing but a failing checksum helper sets it is `WalkVerifies`), ports and
non-PUBLISH traffic (passed on untouched), the counters `clone_counter_2` and
`queue_count_map`, `poll_rps_loop` (its thread is commented out).

### CloneBroker

Same requests, same history. The inner array is a function from slots to
addresses, with `NoAddr` for the value 0. `XdpOriginal` reads the count and asks
for that many copies; `XdpClone(p, k)` is the program run again for copy k, in any
order, reading slot k - 1 at that moment. The driver behind XDP_CLONE_TX is not
in the repository: it runs the program once per copy (comment at
`bpf_broker_xdp/bpf_broker_kern.c:184`) or fails to make a copy (`CloneLost`).

The array is not a set: a client that repeats its SUBSCRIBE has two slots. So
`asked`, `due`, `sent` and `failed` count per client, and `CalmExact` says that a calm
packet is sent to, or failed for, each client exactly as often as the client had
a SUBSCRIBE accepted. `PubSub`, which speaks of sets, sees the clients with a
positive count (`Support`).

### Loader

A member of `Loaders` is one run of the loader and at the same time the name of
the maps and programs that this run created: `pin`, `xdp`, `filter` and the daemon's
`fd` say whose they are. Each action is one system call of `main` or `pin_map`; `pc`
names the call, `at` is the loop variable. `CallFails` is any call failing by
itself, after which `main` returns without undoing anything; `CallFailsUnseen` is a
call whose result is ignored. `Die` is SIGKILL, or one of the three signals before
`sigprocmask`; after it they are taken by `sigwait` (`Signal`) and the tear-down
runs. Nothing keeps two loaders from running at once, so the model does not
either; `alone` remembers the runs for which that did not happen. `setup` is
chosen at the start: the hash broker's loader (program pin, TC hooks, four maps)
or the clone broker's (`WithTc`), its command lines and its daemons. The calls into libbpf are modelled by what the loader relies on:
attaching XDP replaces, pinning and creating a hook fail with EEXIST, destroying
a hook takes its filters along, `bpf_tc_attach` without handle adds a filter.

`OneGeneration` with `InCharge` is what `HashBroker` and `CloneBroker` take for
granted: that daemon and programs work on the same maps. It holds for a daemon
started after a lone loader is up. It does not hold for a daemon that keeps
running while a loader is restarted: it must be restarted, too.

### UserBroker

One thread handles one datagram at a time, so there is no interleaving; what can
go wrong is a send failing in the middle of the walk and what a command does to
a topic it finds or does not find. Its README promises PUBACK and ERROR, which
`handle_message` never sends; `reply` has only the answers it does send. A failed
`send_to` is added to `clone_counter`, which is printed as "Cloned to subscribers". `arm` is the arm of the `match`. The module maps to
`PubSub` with a single message.

### NdrSearch

A trial has only an outcome: either the broker has a `capacity`, or trials are
noisy and come out either way. `Close` is the 100 pps of the code. The lower bound
is 0 by default, and 0 means "unlimited" to the publishers of the final
measurement; `UnlimitedFinal` says when that happens.

### PacketPath

A packet is its bytes after the Ethernet header; `pc` is the function it is in.
`Parse`, `ExtractChar`/`ExtractEnd` and `Lookup` are what both programs do first. Then
either `xdp_broker` rewrites the headers (`Rewrite`), adds up the datagram word by
word (`SumWord`) and transmits (`SumDone`), or `tc_ingress_broker` (`TcIngress`) and
`callback_fn` (`Callback`, once per subscriber) rewrite the same skb over and over
while the kernel's helpers correct the checksums by differences. Words are read in
the order of a little-endian machine, as the programs do; `CsumReplace` is the
helpers' arithmetic (external). A helper may fail at each of its calls.

The reference is on the other side: `DaemonKey`, the key that the daemon stores, for
`KeysAgree`, and `Verifies`, the check of the subscriber's kernel, which sums in
network order, for the checksums. The limits of the code are hypotheses of the
properties, each with its hazard: names of plain characters; datagrams that the
loop of `compute_udp_checksum` covers (256 bytes; the benchmark's default is 1450);
even length, or an odd one with zero bytes of padding in the frame (the loop sums the
first byte of padding, too); for the walk, a PUBLISH that came
with a UDP checksum; for `SpoiledForGood`, a UDP length of at least 8 that the packet
has room for (with less, the ports are outside the datagram that is summed, and moving
it to another port does not change the sum although the helper corrects the checksum).
The program of `bpf_broker_xdp` has the same functions, with a
loop of 1024 words, and treats every clone as `xdp_broker` does here.

Left out: MAC addresses, IP options (the code does not look for them) and
fragments, skbs whose checksum the sender has left to the hardware.

### BenchmarkTrial

`net` is the set of datagrams on the way. It has no order, a datagram that stays in
it is lost, and one left over by a trial may arrive in the next (`MaxLate`). `main` is
`find_ndr` around `run_benchmark`; `WorkerSubscribe` and `WorkerReceive` are
`spawn_subscriber_worker`; `PublisherSend` and `PublisherCount` are
`spawn_publisher_thread`, two steps because `main` may read the counter in between.
Variables of a trial that a surviving publisher still holds are indexed by trial.
The sleeps of the code are left out: they make some interleavings unlikely and
exclude none. Calls of one thread that no other can tell apart are one step: the
sockets of a worker are bound and subscribed in one step, since the broker takes the
requests one by one anyway and any of them may be lost; `flush_topic` and
`register_topic` are one, since the topic being registered is all that the second
adds. `Judge` drops the threads and datagrams of the trial except those within
`MaxLate`.

`taken` and `counted` are history: what was received, and which messages `tx_msgs`
counts. `HiddenLoss` bounds how much loss a PASS can hide, `NoFalseAlarm` is the other
direction, `SampleExact` is about latency samples.

## Runs

| Run | Checks | Shows |
|---|---|---|
| `hash_delivery` | `Complete`, `Sound`, `CalmExact`, `MapUpdatesFit`, `IInv`, `RefinesPubSub` | The fast path and the walk serve the right clients under every interleaving with requests, crashes and helper failures; with two topics for one entry, late and unchecked updates find room; the proof's invariant holds |
| `hash_liveness` | `IInv`, `DaemonReturns`, `PacketsFinish`, `Progress` | The same with two subscribers in the inner map, through the invariant that implies it; requests and packets come to an end, because every step of one lowers a rank that no other actor raises |
| `hash_publish_count` | `CountedOnce` (violated) | A PUBLISH that XDP passes on is counted twice, so the publish rate of `aggregate_pubsub_count.sh` is up to twice the real one |
| `clone_delivery` | `CalmExact`, `MapUpdatesFit`, `IInv`, `RefinesPubSub` | Reading the slots after the count still serves the right clients, as often as they asked; the late count update finds room; the proof's invariant holds |
| `clone_stray` | `NoStray` (violated) | A FLUSH between XDP_CLONE_TX and a copy sends that copy to 0.0.0.0:0 |
| `loader` | `InCharge`, `RestartSucceeds`, `NoOrphans`, `RetryEnds`, `OneGeneration`, `IInv` | Killed, failed and overlapping runs of both loaders; daemons that open pins while loaders replace them and compete for the port; the proof's invariant holds |
| `user_delivery` | `TypeOK`, `Agreement`, `RefinesPubSub` | The user-space broker keeps the same promise |
| `ndr_search` | `TypeOK`, `Bracket`, `Encloses`, `Accurate`, `UnlimitedFinal` | The bisection at all its edges, with noisy trials: it reports a rate that was measured to drop only if the bounds are neighbours; when the final measurement is unpaced |
| `packet_path` | `TypeOK`, `KeysAgree`, `TxVerifies`, `WalkVerifies`, `IInv`, `SpoiledForGood` | Keys of daemon and programs agree; copies pass the receiver's checks; a spoiled skb stays spoiled; the proof's invariant holds |
| `packet_odd` | `OddVerifies` (violated) | A datagram of odd length that ends with its frame leaves `xdp_broker` with a wrong UDP checksum: its last byte is added as the high half of a word |
| `trial` | `HiddenLoss`, `NoFalseAlarm`, `SampleExact`, `IInv`, `TrialsEnd`, `Progress` | What a verdict and a sample are worth with a network that loses, delays and reorders; every trial ends, as no worker stays in its loop once told to stop; the proof's invariant holds |
| `trial_zero_loss` | `ZeroLoss` (violated) | SUBACKs counted as messages let a trial with a lost copy pass at tolerance 0 |

`IInv` is the inductive invariant of the proofs, one per module; it includes `TypeOK`,
which is not repeated in the runs whose types say nothing more.

*Bounds.* One packet slot: packets only read what they share, so two packets
cannot influence each other (the proofs hold for any number). Two clients with an
inner map of one entry reach the refused client, with one of two entries the
change from one subscriber to two and back over a FLUSH; `MaxCount = 3` lets a
repeated SUBSCRIBE take a topic off the fast path; `U32 = 4` is the smallest width
above it. Two topics with `MAX_TOPIC_ID = 1` reach the full topic maps. Two slots
for two clients let one of them fill both. Client and topic symmetry is sound
because both are only compared; the liveness runs use none. Two runs of the
loader are enough for one to find what another left and for both to overlap;
two interfaces let a loop stop half-way, and some command lines name one of them
only. `MCSetups` has the hash loader with two interfaces, the hash loader with a
daemon, and the clone loader with two daemons. Rates up to 20 with three trials and
`Close = 1` reach every break of the search.

Packets: keys of three characters and texts of up to four reach names that fit,
fill and exceed a key, with each character that ends a topic for one of the
parsers; `MaxWords = 6` is passed by the longest datagrams; lengths are even and odd,
with up to two bytes of padding; the second subscriber's address makes a sum carry
again after one fold; a route of three lets two more copies follow a failure
(`MaxFaults = 1`: the properties are about copies before the first failure and steps without
one; what a second failure does to an skb, even cancel the first, is not claimed).

Trials: `MCSetups` has two trials with a worker for each of two subscribers, a
worker that owns two sockets with batches of two, and three subscribers on two
workers. One datagram or publisher of the first trial survives into the second
(`MaxLate = 1`); `MAX_TRACKED_PKTS = 1` is exceeded by two messages.

*Fairness.* `WF(DaemonStep)`: once a request is received, `main` works on it without
blocking. `WF(PacketStep(p))`: the verifier admits only programs that end. In `BenchmarkTrial`,
main and the workers are scheduled (`WF(MainStep)`, `WF(WorkerStep(w))`): main only sleeps
for fixed times and joins, the workers' sockets do not block. Nothing is assumed
of clients, arrivals, signals, crashes, the network and publishers.

*Deadlock* is checked in all broker runs; a request or a
packet can always arrive. Loader runs, packets of `PacketPath`, the search
and the trials end.

## Proofs

### HashBroker

`HashBrokerProofs` proves, for every set of topics, clients and packets, every
map size and every `MaxCount < U32`:

* `Invariance`: `Spec => []IInv`, from which `TypeCorrect`, `NobodyForgotten`
  (`Complete`), `NobodyElse` (`Sound`), `ExactWhenCalm` (`CalmExact`) and `UpdatesFit`
  (`MapUpdatesFit`) follow;
* `Implements`: `Spec => RefinesPubSub`, every step of daemon and packets is a
  step of `PubSub` or invisible in it;
* `RunsDown`: `Spec => Progress /\ []RanksBounded`, the part of liveness that is not about
  scheduling. `PacketRank` counts what a packet has before it: two programs, the keys
  the walk is sure to visit and the clients it may still meet, since a SUBSCRIBE may add
  keys under it. `DaemonRank` counts the calls until the answer, for `flush_topic` the
  keys that are left. Every step of a packet or of the daemon lowers its own rank;
  requests, crashes and other packets never raise that of a live packet, packets never
  that of a busy daemon. So a packet takes at most 2n + 3 steps and a request n + 4, with
  n clients. The theorem's hypothesis, finitely many clients, is that of a finite
  address space; the other theorems do not need it.

The properties are not inductive: that the fast path may trust a count of one
depends on what every earlier, possibly interrupted request did. `IInv` adds
(`HashBrokerInv`):

* `KeysInv`: the count and first-subscriber maps only have keys of the outer
  map; as that one is within bounds, an update for a known topic has room
  (`RoomForKnown`, with the cardinality theorems of the library);
* `DaemonInv`: what has been done when the daemon is about to take a step, e.g.
  that `SubFirst` runs only when the topic has no acknowledged subscriber;
* `TopicInv`: `joined` within the inner map within `maybe`; a count of 0 means
  nobody is acknowledged, a count of 1 at most the first subscriber;
* `PacketInv`: a packet on the fast path is owed to nobody but the first
  subscriber it is about to read; a walk still has to visit, or has dealt with,
  everyone owed;
* `ExactInv`, `CalmInv`: the same with equalities, for topics that are not torn
  and packets that are calm.

The step lemma has one lemma per conjunct and one case per action.

The assumptions are `AbsentAssumption` (the marker for a missing key is not a
value) and `BoundsAssumption` (sizes are natural numbers and `MaxCount < U32`: a
topic is flushed before 2^32 SUBSCRIBEs; beyond that the count wraps and the
fast path would be wrong).

### CloneBroker

`CloneBrokerProofs` proves, for every set of topics, clients and packets and every map
size, `Invariance` (`Spec => []IInv`), `TypeCorrect`, `ExactWhenCalm` (`CalmExact`),
`UpdatesFit` (`MapUpdatesFit`), `Implements` (`Spec => RefinesPubSub`) and `RunsDown`, as for
the hash broker: a packet takes at most `MAX_SUBSCRIBERS + 2` steps and a request
`MAX_SUBSCRIBERS + 3`, without a hypothesis on the clients. Here copies are
counted, not only named, so the invariant speaks of cardinalities: `SlotsInv` and
`ExactInv` relate how often a client was acknowledged to the number of slots below the
count that hold it, with one more while its SUBACK is outstanding (`Unanswered`);
`PacketInv` and `CalmInv` relate what a packet owes a client to the copies sent, failed
and still to be made for it (`Remaining`). What makes it inductive under a concurrent
FLUSH: a FLUSH sets `asked` to zero before it touches the first slot, so that a packet
whose slots it moves owes nobody anything. Assumptions: `AbsentAssumption` (`Absent` and
`NoAddr` are no values) and `BoundsAssumption`.

### Loader

`LoaderProofs` proves, for any finite number of runs, any daemons, interfaces and command
lines: `Invariance`, `TypeCorrect`, `LoneRunInCharge` (`InCharge`), `RestartsSucceed`,
`NothingOrphaned` (`NoOrphans`), `RetryBounded` (`RetryEnds`) and `DaemonSharesMaps`
(`OneGeneration`). The invariant says what a run has achieved when it is at a given call:

* `LoneInv`: what a run that is alone has pinned and attached in the rounds of its loops
  before this one is its own, and the state that the call before reported (EEXIST, or a
  successful removal) is still there; a second run would break both, and ends `alone`;
* `OrphanInv`: a run has programs on its own interfaces only, and its tear-down none on
  those it has passed;
* `RetryInv`: the loop that unpins and pins the program again cannot spin. Each of its
  rounds removes the pin of another run, which has left that loop for good; so the
  number of rounds is bounded by the number of such runs (`Cardinality(PastPin)`);
* `DaemonInv`: a daemon that opens its maps one after the other gets those of one run as
  long as no loader is started meanwhile.

Assumptions: `NoneAssumption`, `LoadersAssumption` (finitely many runs, needed only to count
them) and `SetupsAssumption` (a command line names at least one interface, as `main` checks).

### UserBroker

`UserBrokerProofs` proves `UserTypes`, `MapAgrees` (`Spec => []Agreement`) and
`UserImplements` (`Spec => RefinesPubSub`) for every set of topics and every finite set of
clients (`ClientsAssumption`: `clone_counter` counts them). `Agreement`, with the types, is
inductive as it stands.

### NdrSearch

`NdrSearchProofs` proves `SearchTypes`, `SearchBracket`, `SearchEncloses`,
`SearchUnlimited` and `SearchAccurate` for every bound on rates and iterations and
every closeness of at least 1 (the code has 100). The inductive `SearchInv` is the conjunction
of the first three and `TriedInv`: no trial that failed was below `hi`, and after the first
trial the loop goes on only with an interval wider than `Close`. `PacingInv` says that a
lower bound of 0 has not been moved by a trial. The fact behind them is that the midpoint
of a proper interval is in it, below its upper end, and equal to the lower one only if the
two are neighbours (`MidInside`). Hence the exception in `Bracket`: with
`ndr_max_pps = ndr_min_pps + 1` the one trial is made at `lo`, and `lo` is reported although it
failed. `Accurate` compares the remaining width with a recursive function of the
number of trials; it needs induction over that number, see below.

### BenchmarkTrial

`BenchmarkTrialProofs` proves, for every set of command lines (any number of subscribers,
workers, publishers, trials and messages) and any number of late datagrams:
`Invariance`, `TrialTypes`, `PassMeans` (`HiddenLoss`), `FailMeans` (`NoFalseAlarm`),
`SampleMeans` (`SampleExact`) and `RunsDown` (`Progress`). A verdict compares `rx_msgs` with a multiple of `tx_msgs`,
two sums over threads. The invariant says which things each counter stands for:

* `OnceInv`: nothing is received twice. A datagram that was taken is not on the way any
  more, and neither is the SUBSCRIBE or PUBLISH that caused it, so that it cannot be
  made again;
* `BatchInv`, `CountInv`: the numbers that publishers have sent but not counted are
  disjoint from each other and from the counted ones, so `tx_msgs` is the cardinality
  of a set of messages, also when `main` reads the counter in the middle of a batch;
* `ReceivedInv`: each worker's count is the cardinality of what its own sockets took, so
  `rx_msgs`, their sum, is that of `taken` (`SumOfParts`);
* `TrackedInv`: `per_packet` counts copies as long as no number was thrown into the
  overflow entry;
* `StoppedInv`: the flag is cleared before `main` waits for the workers.

From this, the verdict's arithmetic turns into a comparison of sets, and each property
follows by an injection from messages and subscribers to copies. `RunsDown` rests on
`StoppedInv`: `MainRank` counts five steps for every trial that is left, `WorkerRank` the sockets
that a worker still looks at before it sees the flag, at most all subscribers. Assumption:
`TrialAssumption` (at least one subscriber, one worker, one datagram per batch and one trial).

### PacketPath

`PacketPathProofs` proves, for every size of a key and of the loop, every prefix, set of
frames, names and routes and any number of failing helpers: `Invariance`, `PacketTypes`,
`SameTopic` (`KeysAgree`), `TransmittedVerifies` (`TxVerifies`), `CopiesVerify`
(`WalkVerifies`), the action property `NeverHeals` (`SpoiledForGood`) and `SumNeverWraps`
(`NoCarryLost`: the `__u32` sum of `compute_udp_checksum` stays below 2^32 and two folds leave
no carry, which the model takes for granted by summing in the integers). The argument:

* checksums are arithmetic modulo 2^16 - 1. `Finish` negates (`FinishSum`), provided that
  the sum is below 2^32: it is, whatever `MaxWords`, because `Length` has 16 bits and so at
  most 32768 words are added (`SumBound`);
* the sum in network order is 256 times the one in the order of the machine (`NetIsLe`),
  and 256 is invertible, so that both are zero together. The last byte of an odd length
  is the low half of a machine word there; the loop reads it so when a zero byte of
  padding follows, whereas the code after the loop would add it as a high half;
* a word that is written changes the sum by the difference (`WordChange`), and a helper
  changes the checksum by its opposite (`Replaced`); so each stage of `callback_fn` keeps the
  sum (`StagedIp`, `StagedUdp`), whether it was right or wrong before;
* `SumInv` is the loop invariant of `compute_udp_checksum`; `LoopCovers` shows that at its end,
  under the hypotheses of `TxVerifies`, all of the datagram was summed;
* `WalkInv` keeps what the walk must not touch, the source and the payload, and that the
  skb verifies while no helper has failed;
* `KeyInv` says what has been read of the topic. From it and the place where a line is cut
  (`CutIs`), both parsers produce a name padded with NULs, and two such keys of plain
  characters are equal only if the names are (`SameKey`).

The attempt to prove `SpoiledForGood` under an earlier, weaker hypothesis failed for UDP
lengths below 8, which no frame of the run has; hence `WellFormed` in it. Assumptions:
`SizesAssumption` (a key has room for at least the NUL) and `BytesAssumption` (frames and
addresses are bytes; names are of characters that end a topic for neither parser).

### InductionLemmas

The library's induction theorems take a predicate, which the provers cannot
instantiate. `Induct` and `Least` state induction and the least number principle for sets
of numbers, from the library's theorem on well-founded relations; a claim P for all n is proved by
applying `Induct` to {n : P(n)}. `SumIs` says what the sums of the community modules compute
whatever order they take the elements in, and from it follow the ways to split,
extend and change a sum (`SumOfParts`, `SumLast`, `SumExcept`).

### Only model-checked

Liveness (`DaemonReturns`, `PacketsFinish`, `TrialsEnd`): fairness and ENABLED are outside the
prover. For both kernel brokers and the benchmark `RunsDown` proves the rest of the argument,
that each step brings the end closer; that a step is possible until then, and is taken,
stays with `hash_liveness` and `trial`. The four violations, which are counterexamples. Every safety property and every
refinement that a run checks is also a theorem.

## Plan

Finished: all modules above; the inductive invariant of every module; every safety
property and refinement of the runs proved; and the ranks behind every liveness property.

## Not modelled

* `pubsub-mixed-benchmark` and `script/*.py`: traffic generators that fill sockets and
  print rates; they have the threads of `BenchmarkTrial` without its verdict.
* `app`: echoes datagrams, no state.
* `script/*.sh`, Makefiles, kernel download, plotting and CPU pinning: no program state;
  `aggregate_pubsub_count.sh` appears as the reader of the counter in `CountedOnce`.
* The interval table and the percentiles of the benchmark: formatting of numbers
  that `BenchmarkTrial` computes.
* `poll_rps_loop`: its thread is commented out.
* The driver behind XDP_CLONE_TX, libbpf and the kernel's map and checksum helpers:
  external, modelled by what this code relies on.
