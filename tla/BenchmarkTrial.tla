--------------------------- MODULE BenchmarkTrial ---------------------------
(***************************************************************************)
(* The trials of pubsub-benchmark in NDR mode: find_ndr and main flush and *)
(* register the topic and call run_benchmark, again and again.  A trial is *)
(* concurrent: main, the workers that own the subscribers' sockets, and    *)
(* publisher threads that nobody joins.  All talk to the broker over UDP.  *)
(* NdrSearch takes the outcome of a trial as an input; this module is      *)
(* about what that outcome means.                                          *)
(*                                                                         *)
(* net holds the datagrams on the way, in no order.  One that is never     *)
(* taken out is lost, one taken out in a later trial is late: ports, topic *)
(* and sequence numbers are the same in every trial.  The sleeps of the    *)
(* code only make some interleavings unlikely, and are left out.  Calls    *)
(* of one thread that no other thread can tell apart are one step.  The    *)
(* broker is the one of HashBroker, seen from outside.                     *)
(***************************************************************************)
EXTENDS Integers, FiniteSetsExt

CONSTANTS
  Setups,            \* command lines and sizes: records with the fields
                     \*   subs      subscribers
                     \*   threads   subscriber threads at most (32)
                     \*   batch     datagrams of one sendmmsg or recvmmsg (64)
                     \*   trials    bound: calls of run_benchmark; the last is main's own
                     \*   seqs      bound: sequence numbers used in a trial
  Pubs,              \* publisher threads of a trial
  MAX_TRACKED_PKTS,  \* sequence numbers a worker keeps track of (500000)
  MaxLate            \* bound: datagrams and publishers left over by a trial

ASSUME TrialAssumption ==
  /\ Setups \subseteq [subs : Nat \ {0}, threads : Nat \ {0}, batch : Nat \ {0},
                       trials : Nat \ {0}, seqs : Nat]
  /\ {MAX_TRACKED_PKTS, MaxLate} \subseteq Nat

VARIABLES
  setup,           \* the one of this run
  trial,           \* the number of the trial
  main,            \* where the main thread is
  running,         \* the flag the workers look at
  \* workers
  wpc, at,         \* where a worker is; the subscriber whose socket is next
  raw_received,    \* datagrams received
  per_packet,      \* sequence number -> copies received (0: no entry)
  \* publishers, by trial: a thread may outlive its own
  ppc,             \* where a publisher thread is
  batch,           \* what it has sent and not yet counted
  global_seq, global_counter,
  \* the network and the broker
  net,
  registered,      \* the topic exists
  members,         \* its subscribers
  \* results of the trial
  tx_msgs, rx_msgs,
  latencies,       \* sequence numbers with a latency sample
  \* history
  taken,           \* datagrams received in this trial
  counted          \* the messages of this trial that tx_msgs counts

control == <<setup, trial, main, running>>
workers == <<wpc, at, raw_received, per_packet>>
publishers == <<ppc, batch, global_seq, global_counter>>
broker == <<registered, members>>
results == <<tx_msgs, rx_msgs, latencies>>
history == <<taken, counted>>
vars == <<control, workers, publishers, net, broker, results, history>>

subs == setup.subs
BATCH == setup.batch
Trials == setup.trials
MaxSeq == setup.seqs

Subs == 0..(subs - 1)
Seqs == 0..(MaxSeq - 1)
sub_workers == Min({subs, setup.threads})
Workers == 0..(sub_workers - 1)
Threads == (1..Trials) \X Pubs

\* The last call of run_benchmark is main's, with latencies.
sink == trial < Trials

\* Datagrams, by trial of origin.
Datagram(type, t, s, q) == [type |-> type, trial |-> t, sub |-> s, seq |-> q]
Answer(d) == [d EXCEPT !.type = "SUBACK"]
Copy(d, s) == [d EXCEPT !.type = "COPY", !.sub = s]

Init ==
  /\ setup \in Setups
  /\ trial = 1
  /\ main = "prepare"
  /\ running = FALSE
  /\ wpc = [w \in Workers |-> "none"]
  /\ at = [w \in Workers |-> w]
  /\ raw_received = [w \in Workers |-> 0]
  /\ per_packet = [w \in Workers |-> [q \in Seqs |-> 0]]
  /\ ppc = [p \in Threads |-> "none"]
  /\ batch = [p \in Threads |-> {}]
  /\ global_seq = [t \in 1..Trials |-> 0]
  /\ global_counter = [t \in 1..Trials |-> 0]
  /\ net = {}
  /\ registered = FALSE
  /\ members = {}
  /\ tx_msgs = 0
  /\ rx_msgs = 0
  /\ latencies = {}
  /\ taken = {}
  /\ counted = {}

-----------------------------------------------------------------------------
(* The main thread.                                                        *)

\* flush_topic does not wait for an answer.  register_topic does, for two seconds:
\* main goes on with the topic registered, or with the request still on the way or
\* lost.  (REGISTER of a topic that exists changes nothing.)
Prepare ==
  /\ main = "prepare"
  /\ main' = "spawn"
  /\ LET flush == Datagram("FLUSH", trial, 0, 0) IN
     \/ registered' = TRUE /\ net' = net \cup {flush}
     \/ /\ ~registered
        /\ net' = net \cup {flush, Datagram("REGISTER", trial, 0, 0)}
        /\ UNCHANGED registered
  /\ UNCHANGED <<setup, trial, running, workers, publishers, members, results, history>>

\* The state of the workers before they do anything.
NewWorkers(where) ==
  /\ wpc' = [w \in Workers |-> where]
  /\ at' = [w \in Workers |-> w]
  /\ raw_received' = [w \in Workers |-> 0]
  /\ per_packet' = [w \in Workers |-> [q \in Seqs |-> 0]]
  /\ taken' = {}
  /\ counted' = {}

\* All threads are started; the first half second is for the workers.
Spawn ==
  /\ main = "spawn"
  /\ main' = "run"
  /\ running' = TRUE
  /\ NewWorkers("subscribe")
  /\ ppc' = [p \in Threads |-> IF p[1] = trial THEN "loop" ELSE ppc[p]]
  /\ UNCHANGED <<setup, trial, batch, global_seq, global_counter, net, broker, results>>

Stop ==
  /\ main = "run"
  /\ main' = "join"
  /\ running' = FALSE
  /\ tx_msgs' = global_counter[trial]
  /\ UNCHANGED <<setup, trial, workers, publishers, net, broker, rx_msgs, latencies, history>>

\* join().ok(): a worker that panicked is left out.
Ended_NoPanic(w) == wpc[w] = "done"
Ended(w) == wpc[w] \in {"done", "panic"}
Joined == {w \in Workers : wpc[w] = "done"}

\* Over all workers: datagrams received, and copies of message q.
Received == SumFunctionOnSet(raw_received, Joined)
Merged(q) == SumFunctionOnSet([w \in Workers |-> per_packet[w][q]], Joined)

\* A packet has a sample when as many copies were received as there are
\* subscribers.
Sampled_Any(n) == n > 0
Sampled(n) == n = subs

Join ==
  /\ main = "join"
  /\ \A w \in Workers : Ended(w)
  /\ main' = "judge"
  /\ rx_msgs' = Received
  /\ latencies' = IF sink THEN {} ELSE {q \in Seqs : Sampled(Merged(q))}
  /\ UNCHANGED <<setup, trial, running, workers, publishers, net, broker, tx_msgs, history>>

\* find_ndr at a tolerance of zero; a trial that sent nothing fails.
expected_rx_Once == tx_msgs
expected_rx == tx_msgs * subs
Pass_Strict == expected_rx > 0 /\ expected_rx < rx_msgs
Pass == expected_rx > 0 /\ expected_rx <= rx_msgs

\* Publishers that are still running.
Publishing == {p \in Threads : ppc[p] # "none"}

\* Whatever the verdict, the next trial, or the end; the threads that were joined
\* and the results are gone.  Of the datagrams on the way and the publishers most
\* are not heard of again; counters go with the last thread that holds them.
Judge ==
  /\ main = "judge"
  /\ main' = IF trial < Trials THEN "prepare" ELSE "end"
  /\ trial' = IF trial < Trials THEN trial + 1 ELSE trial
  /\ NewWorkers("none")
  /\ tx_msgs' = 0 /\ rx_msgs' = 0 /\ latencies' = {}
  /\ \E D \in SUBSET net, P \in SUBSET Publishing :
       /\ Cardinality(D) + Cardinality(P) <= IF trial < Trials THEN MaxLate ELSE 0
       /\ net' = D
       /\ ppc' = [p \in Threads |-> IF p \in P THEN ppc[p] ELSE "none"]
       /\ batch' = [p \in Threads |-> IF p \in P THEN batch[p] ELSE {}]
       /\ LET held(n) == [t \in 1..Trials |-> IF \E p \in P : p[1] = t THEN n[t] ELSE 0] IN
          global_seq' = held(global_seq) /\ global_counter' = held(global_counter)
  /\ UNCHANGED <<setup, running, broker>>

-----------------------------------------------------------------------------
(* spawn_subscriber_worker.                                                *)

Group(w) == {s \in Subs : s % sub_workers = w}

\* Where the worker goes from the head of the loop.
Head_Forever(w) == "receive"
Head(w) == IF running THEN "receive" ELSE "done"

\* The sockets of worker w are bound and subscribed one after the other; or
\* binding one of them fails, and the thread panics.
WorkerSubscribe(w) ==
  /\ wpc[w] = "subscribe"
  /\ \E n \in 0..Cardinality(Group(w)) :
       LET bound == {s \in Group(w) : s < w + n * sub_workers} IN
       /\ net' = net \cup {Datagram("SUBSCRIBE", trial, s, 0) : s \in bound}
       /\ wpc' = [wpc EXCEPT ![w] = IF bound = Group(w) THEN Head(w) ELSE "panic"]
  /\ UNCHANGED <<control, at, raw_received, per_packet, publishers, broker, results,
                 history>>

\* The entries of map after the copies D, when those of new numbers are kept
\* only for the ones in New.
Recorded_AnyType(map, D, New) ==
  [q \in Seqs |->
     IF map[q] > 0 \/ q \in New
     THEN map[q] + Cardinality({d \in D : d.seq = q}) ELSE 0]

Recorded(map, D, New) ==
  [q \in Seqs |->
     IF map[q] > 0 \/ q \in New
     THEN map[q] + Cardinality({d \in D : d.type = "COPY" /\ d.seq = q}) ELSE 0]

\* A recvmmsg on the next socket: some of what has arrived, maybe nothing.  SUBACKs
\* and late copies count like any other datagram.
WorkerReceive(w) ==
  /\ wpc[w] = "receive"
  /\ IF at[w] + sub_workers < subs
     THEN at' = [at EXCEPT ![w] = @ + sub_workers] /\ UNCHANGED wpc
     ELSE at' = [at EXCEPT ![w] = w] /\ wpc' = [wpc EXCEPT ![w] = Head(w)]
  /\ \E D \in SUBSET {d \in net : d.type \in {"SUBACK", "COPY"} /\ d.sub = at[w]} :
       /\ Cardinality(D) <= BATCH
       /\ net' = net \ D
       /\ raw_received' = [raw_received EXCEPT ![w] = @ + Cardinality(D)]
       /\ taken' = taken \cup D
       /\ IF sink THEN UNCHANGED per_packet
          ELSE LET known == {q \in Seqs : per_packet[w][q] > 0}
                   new   == {d.seq : d \in {c \in D : c.type = "COPY"}} \ known
                   room  == Min({Cardinality(new), MAX_TRACKED_PKTS - Cardinality(known)})
               IN \E New \in kSubset(room, new) :
                    per_packet' = [per_packet EXCEPT ![w] = Recorded(@, D, New)]
  /\ UNCHANGED <<control, publishers, broker, results, counted>>

-----------------------------------------------------------------------------
(* spawn_publisher_thread.  A thread may take a step as long as it pleases *)
(* (its clock starts when it does) or stop at any time.                    *)

\* A batch is numbered, and sendmmsg sends the first n of it.
PublisherSend(p) ==
  LET t == p[1] IN
  /\ ppc[p] = "loop"
  /\ global_seq[t] + BATCH <= MaxSeq
  /\ global_seq' = [global_seq EXCEPT ![t] = @ + BATCH]
  /\ \E n \in 0..BATCH :
       LET sent == global_seq[t]..(global_seq[t] + n - 1) IN
       /\ net' = net \cup {Datagram("PUBLISH", t, 0, q) : q \in sent}
       /\ batch' = [batch EXCEPT ![p] = sent]
       /\ ppc' = [ppc EXCEPT ![p] = IF n > 0 THEN "count" ELSE "loop"]
  /\ UNCHANGED <<control, workers, global_counter, broker, results, history>>

\* What is counted: the datagrams that were sent.
SentCount(B) == Cardinality(B)

PublisherCount(p) ==
  LET t == p[1] IN
  /\ ppc[p] = "count"
  /\ ppc' = [ppc EXCEPT ![p] = "loop"]
  /\ global_counter' = [global_counter EXCEPT ![t] = @ + SentCount(batch[p])]
  /\ counted' = IF t = trial /\ main = "run" THEN counted \cup batch[p] ELSE counted
  /\ batch' = [batch EXCEPT ![p] = {}]
  /\ UNCHANGED <<control, workers, global_seq, net, broker, results, taken>>

-----------------------------------------------------------------------------
(* The broker: main of bpf_broker_proto.c and the data plane.              *)

\* SUBACK is sent even if add_subscriber failed.
BrokerRequest(d) ==
  /\ \/ /\ d.type = "REGISTER"
        /\ registered' = TRUE
        /\ net' = net \ {d}
        /\ UNCHANGED members
     \/ /\ d.type = "FLUSH"
        /\ members' = {}
        /\ net' = net \ {d}
        /\ UNCHANGED registered
     \/ /\ d.type = "SUBSCRIBE"
        /\ members' = IF registered THEN members \cup {d.sub} ELSE members
        /\ net' = (net \ {d}) \cup {Answer(d)}
        /\ UNCHANGED registered
  /\ UNCHANGED <<control, workers, publishers, results, history>>

BrokerPublish(d) ==
  /\ d.type = "PUBLISH"
  /\ net' = (net \ {d}) \cup {Copy(d, s) : s \in members}
  /\ UNCHANGED <<control, workers, publishers, broker, results, history>>

-----------------------------------------------------------------------------
MainStep == Prepare \/ Spawn \/ Stop \/ Join \/ Judge

WorkerStep(w) == w \in Workers /\ (WorkerSubscribe(w) \/ WorkerReceive(w))

PublisherStep(p) == PublisherSend(p) \/ PublisherCount(p)

Next ==
  \/ MainStep
  \/ \E w \in Workers : WorkerStep(w)
  \/ main # "end" /\ \E p \in Threads : PublisherStep(p)
  \/ \E d \in net : BrokerRequest(d) \/ BrokerPublish(d)

Spec == Init /\ [][Next]_vars

AllWorkers == 0..(Max({s.threads : s \in Setups}) - 1)

\* The threads of the benchmark are scheduled.  Nothing is assumed of the
\* network, the broker and the publishers.
FairSpec == Spec /\ WF_vars(MainStep) /\ \A w \in AllWorkers : WF_vars(WorkerStep(w))

-----------------------------------------------------------------------------
(* Properties.                                                             *)

Datagrams ==
  [type : {"REGISTER", "FLUSH", "SUBSCRIBE", "PUBLISH", "SUBACK", "COPY"},
   trial : 1..Trials, sub : Subs, seq : Seqs \cup {0}]

\* All variables have their types; a publisher's counter, also of one that outlives
\* its trial, never runs ahead of the numbers it has given out.
TypeOK ==
  /\ setup \in Setups
  /\ trial \in 1..Trials
  /\ main \in {"prepare", "spawn", "run", "join", "judge", "end"}
  /\ running \in BOOLEAN
  /\ wpc \in [Workers -> {"none", "subscribe", "receive", "done", "panic"}]
  /\ at \in [Workers -> Subs]
  /\ raw_received \in [Workers -> Nat]
  /\ per_packet \in [Workers -> [Seqs -> Nat]]
  /\ ppc \in [Threads -> {"none", "loop", "count"}]
  /\ batch \in [Threads -> SUBSET Seqs]
  /\ global_seq \in [1..Trials -> 0..MaxSeq]
  /\ global_counter \in [1..Trials -> Nat]
  /\ \A t \in 1..Trials : global_counter[t] <= global_seq[t]
  /\ net \subseteq Datagrams
  /\ registered \in BOOLEAN
  /\ members \subseteq Subs
  /\ tx_msgs \in Nat
  /\ rx_msgs \in Nat
  /\ latencies \subseteq Seqs
  /\ taken \subseteq Datagrams
  /\ counted \subseteq Seqs

\* The copy of message q of this trial for subscriber s.
Own(q, s) == Datagram("COPY", trial, s, q)

Missing == {m \in counted \X Subs : Own(m[1], m[2]) \notin taken}
Acks == {d \in taken : d.trial = trial /\ d.type = "SUBACK"}
Late == {d \in taken : d.trial # trial}
Uncounted == {d \in taken : d.trial = trial /\ d.type = "COPY" /\ d.seq \notin counted}

\* What a PASS at zero tolerance is worth: run_benchmark counts datagrams, so that
\* losses can hide behind SUBACKs, of which each subscriber gets one, behind datagrams
\* of earlier trials, and behind copies of messages that a publisher sent and did
\* not count in time; but behind nothing else, whatever is lost or late, whichever
\* worker panics and however long publishers outlive their trial.
HiddenLoss ==
  main = "judge" /\ Pass =>
    Cardinality(Missing) <= Cardinality(Acks) + Cardinality(Late) + Cardinality(Uncounted)

\* No trial FAILs in which every counted message reached every subscriber.
NoFalseAlarm == main = "judge" /\ counted # {} /\ Missing = {} => Pass

\* "A packet contributes a latency sample only when all `subs` copies have been
\* accounted for" (comment in run_benchmark): it does exactly when every
\* subscriber received its own copy, unless a late copy of an earlier trial has the
\* same number or a worker lost track.
SampleExact ==
  main = "judge" /\ ~sink /\ Cardinality({d.seq : d \in taken}) <= MAX_TRACKED_PKTS =>
    \A q \in Seqs :
      (\A d \in Late : ~(d.type = "COPY" /\ d.seq = q)) =>
        (q \in latencies <=> \A s \in Subs : Own(q, s) \in taken)

\* "0.0 = zero loss" (help of --ndr-tolerance): in a trial that passes at zero
\* tolerance every counted message reached every subscriber.
ZeroLoss == main = "judge" /\ sink /\ Pass => Missing = {}

\* Every trial ends, although datagrams and answers are lost, workers panic and
\* publishers may go on for ever.
TrialsEnd == <>(main = "end")

=============================================================================
