-------------------------- MODULE BenchmarkTrialInv --------------------------
(***************************************************************************)
(* The inductive invariant of BenchmarkTrial.  Verdicts and samples come   *)
(* from counters; the invariant says which datagrams and messages each     *)
(* counter stands for, and that none is counted twice.                     *)
(***************************************************************************)
EXTENDS BenchmarkTrial

\* No thread of the trial has been started, or all of them are gone.
Idle == main \in {"prepare", "spawn", "end"}

\* Trial t has not started its threads.
Ahead(t) == t > trial \/ (t = trial /\ main \in {"prepare", "spawn"})

\* Numbers given out in trial t.
Numbers(t) == 0..(global_seq[t] - 1)

\* What the worker that owns subscriber s has received.
TakenBy(w) == {d \in taken : d.sub % sub_workers = w}

CopiesOf(q, T) == {d \in T : d.type = "COPY" /\ d.seq = q}
SeqsOf(T) == {d.seq : d \in T}

\* Threads and their history belong to the trial.
ControlInv ==
  /\ Idle => taken = {} /\ counted = {} /\ \A w \in Workers : wpc[w] = "none"
  /\ main = "judge" => \A w \in Workers : Ended(w)
  /\ \A t \in 1..Trials : Ahead(t) =>
       global_counter[t] = 0 /\ \A p \in Threads : p[1] = t => ppc[p] = "none"

\* The workers are told to stop before main waits for them.
StoppedInv == running => main = "run"

\* Nothing of a trial is on the way before its threads are started, except what
\* main has sent; and a publisher that lives has not reused a number.
Origin(d) ==
  /\ d.trial <= trial
  /\ Ahead(d.trial) => d.type \in {"FLUSH", "REGISTER"}
  /\ d.type = "PUBLISH" => d.sub = 0
  /\ d.type \in {"PUBLISH", "COPY"} =>
       \A p \in Threads : p[1] = d.trial /\ ppc[p] # "none" => d.seq < global_seq[p[1]]

OriginInv == \A d \in net \cup taken : Origin(d)

\* No datagram is received twice: one that was received is not on the way, and
\* its cause, a SUBSCRIBE or a PUBLISH, is not either; and a worker subscribes
\* each of its sockets once.
TakenOnce == \A d \in taken : d.type \in {"SUBACK", "COPY"} /\ d \notin net

CauseGone ==
  \A d \in net :
    /\ d.type = "SUBSCRIBE" => Answer(d) \notin net \cup taken
    /\ d.type = "PUBLISH" => \A s \in Subs : Copy(d, s) \notin net \cup taken

NotYetAsked ==
  \A w \in Workers : wpc[w] = "subscribe" =>
    \A d \in net \cup taken :
      d.trial = trial /\ d.type \in {"SUBSCRIBE", "SUBACK"} => d.sub \notin Group(w)

OnceInv == TakenOnce /\ CauseGone /\ NotYetAsked

\* What publishers have sent and not counted is apart from what they have counted.
BatchNumbers ==
  \A p \in Threads : batch[p] \subseteq Numbers(p[1]) /\ (ppc[p] # "count" => batch[p] = {})

BatchesApart ==
  \A p, r \in Threads : p # r /\ p[1] = r[1] => batch[p] \cap batch[r] = {}

CounterApart ==
  \A t \in 1..Trials : \E C \in SUBSET Numbers(t) :
    /\ Cardinality(C) = global_counter[t]
    /\ \A p \in Threads : p[1] = t => C \cap batch[p] = {}

BatchInv == BatchNumbers /\ BatchesApart /\ CounterApart

\* tx_msgs is the number of messages counted in the trial.
CountInv ==
  /\ main = "run" =>
       /\ Cardinality(counted) = global_counter[trial]
       /\ counted \subseteq Numbers(trial)
       /\ \A p \in Threads : p[1] = trial => counted \cap batch[p] = {}
  /\ main \in {"join", "judge"} => tx_msgs = Cardinality(counted)

\* A worker counts what its own sockets received, a worker that panicked nothing;
\* so that rx_msgs is the number of all datagrams received.
ReceivedInv ==
  /\ \A w \in Workers :
       /\ at[w] % sub_workers = w
       /\ raw_received[w] = Cardinality(TakenBy(w))
       /\ wpc[w] \in {"none", "subscribe", "panic"} => TakenBy(w) = {}
  /\ main = "judge" => rx_msgs = Cardinality(taken)

\* As long as no worker has lost track, per_packet counts copies.
TrackedInv ==
  ~sink /\ Cardinality(SeqsOf(taken)) <= MAX_TRACKED_PKTS =>
    /\ \A w \in Workers, q \in Seqs :
         per_packet[w][q] = Cardinality(CopiesOf(q, TakenBy(w)))
    /\ main = "judge" =>
         latencies = {q \in Seqs : Sampled(Cardinality(CopiesOf(q, taken)))}

\* The invariant that the theorems about BenchmarkTrial rest on.
IInv ==
  /\ TypeOK /\ ControlInv /\ StoppedInv /\ OriginInv /\ OnceInv
  /\ BatchInv /\ CountInv /\ ReceivedInv /\ TrackedInv

-----------------------------------------------------------------------------
(* How many steps main and a worker that is told to stop have before them. *)

\* Five steps of main for every trial.
MainRank ==
  5 * (Trials - trial) +
    (CASE main = "prepare" -> 5
       [] main = "spawn"   -> 4
       [] main = "run"     -> 3
       [] main = "join"    -> 2
       [] main = "judge"   -> 1
       [] OTHER            -> 0)

\* Once the flag is cleared a worker at most looks at the rest of its sockets.
WorkerRank(w) ==
  CASE wpc[w] = "subscribe" -> 1
    [] wpc[w] = "receive"   -> subs - at[w]
    [] OTHER                -> 0

\* Every step of main brings the end of the last trial closer and nothing else
\* moves main; while main joins the workers, every step of a worker brings its
\* own end closer, and no publisher, datagram or other worker puts it off.
Progress ==
  [][/\ MainStep => MainRank' < MainRank
     /\ MainStep \/ MainRank' = MainRank
     /\ main = "join" => \A w \in Workers :
          /\ WorkerStep(w) => WorkerRank(w)' < WorkerRank(w)
          /\ WorkerRank(w)' <= WorkerRank(w)]_vars

=============================================================================
