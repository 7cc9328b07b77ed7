------------------------ MODULE BenchmarkTrialProofs ------------------------
(* Proofs about BenchmarkTrial, for every number of subscribers, workers,  *)
(* publishers, trials and messages, and every batch size.                  *)
EXTENDS BenchmarkTrialInv, InductionLemmas

-----------------------------------------------------------------------------
(* Sizes and datagrams.                                                    *)

LEMMA Sizes ==
  ASSUME setup \in Setups
  PROVE  /\ {subs, BATCH, Trials, sub_workers} \subseteq Nat \ {0}
         /\ MaxSeq \in Nat
         /\ sub_workers <= subs
         /\ Workers \subseteq Subs /\ 0 \in Subs /\ 0 \in Workers
         /\ Workers \subseteq Nat /\ Subs \subseteq Nat /\ Seqs \subseteq Nat
<1>1. setup \in [subs : Nat \ {0}, threads : Nat \ {0}, batch : Nat \ {0},
                 trials : Nat \ {0}, seqs : Nat]
  BY TrialAssumption
<1>2. {subs, BATCH, Trials} \subseteq Nat \ {0} /\ MaxSeq \in Nat /\ setup.threads \in Nat \ {0}
  BY <1>1 DEF subs, BATCH, Trials, MaxSeq
<1>3. sub_workers \in Nat \ {0} /\ sub_workers <= subs
  <2>1. \E x \in {subs, setup.threads} : \A y \in {subs, setup.threads} : x <= y
    BY <1>2
  <2>2. /\ sub_workers \in {subs, setup.threads}
        /\ \A y \in {subs, setup.threads} : sub_workers <= y
    BY <2>1 DEF sub_workers, Min
  <2> QED BY <1>2, <2>2
<1> QED BY <1>2, <1>3 DEF Workers, Subs, Seqs

\* The command line does not change.
LEMMA Fixed ==
  ASSUME setup' = setup
  PROVE  /\ subs' = subs /\ BATCH' = BATCH /\ Trials' = Trials /\ MaxSeq' = MaxSeq
         /\ Subs' = Subs /\ Seqs' = Seqs /\ sub_workers' = sub_workers
         /\ Workers' = Workers /\ Threads' = Threads /\ Datagrams' = Datagrams
  BY DEF subs, BATCH, Trials, MaxSeq, Subs, Seqs, sub_workers, Workers, Threads, Datagrams

\* Two datagrams with the same fields are the same.
LEMMA SameFields ==
  ASSUME NEW c \in Datagrams, NEW d \in Datagrams,
         c.type = d.type, c.trial = d.trial, c.sub = d.sub, c.seq = d.seq
  PROVE  c = d
  BY DEF Datagrams

LEMMA Made ==
  ASSUME NEW type, NEW t, NEW s, NEW q
  PROVE  LET d == Datagram(type, t, s, q) IN
         d.type = type /\ d.trial = t /\ d.sub = s /\ d.seq = q
  BY DEF Datagram

LEMMA MadeOf ==
  ASSUME NEW type \in {"REGISTER", "FLUSH", "SUBSCRIBE", "PUBLISH", "SUBACK", "COPY"},
         NEW t \in 1..Trials, NEW s \in Subs, NEW q \in Seqs \cup {0}
  PROVE  Datagram(type, t, s, q) \in Datagrams
  BY DEF Datagrams, Datagram

LEMMA AnswerOf ==
  ASSUME NEW d \in Datagrams
  PROVE  /\ Answer(d) \in Datagrams
         /\ Answer(d).type = "SUBACK" /\ Answer(d).trial = d.trial
         /\ Answer(d).sub = d.sub /\ Answer(d).seq = d.seq
  BY DEF Datagrams, Answer

LEMMA CopyOf ==
  ASSUME NEW d \in Datagrams, NEW s \in Subs
  PROVE  /\ Copy(d, s) \in Datagrams
         /\ Copy(d, s).type = "COPY" /\ Copy(d, s).trial = d.trial
         /\ Copy(d, s).sub = s /\ Copy(d, s).seq = d.seq
  BY DEF Datagrams, Copy

LEMMA FieldTypes ==
  ASSUME setup \in Setups, NEW d \in Datagrams
  PROVE  /\ d.type \in {"REGISTER", "FLUSH", "SUBSCRIBE", "PUBLISH", "SUBACK", "COPY"}
         /\ d.trial \in 1..Trials /\ d.sub \in Subs /\ d.seq \in Seqs \cup {0}
         /\ d.trial \in Nat /\ d.sub \in Nat /\ d.seq \in Nat
<1>1. /\ d.type \in {"REGISTER", "FLUSH", "SUBSCRIBE", "PUBLISH", "SUBACK", "COPY"}
      /\ d.trial \in 1..Trials /\ d.sub \in Subs /\ d.seq \in Seqs \cup {0}
  BY DEF Datagrams
<1> QED BY <1>1, Sizes

LEMMA DatagramsFinite ==
  ASSUME setup \in Setups
  PROVE  IsFiniteSet(Datagrams)
<1> DEFINE Kinds == {"REGISTER", "FLUSH", "SUBSCRIBE", "PUBLISH", "SUBACK", "COPY"}
           Where == (1..Trials) \X Subs
           What  == Kinds \X (Seqs \cup {0})
           f == [d \in Datagrams |-> <<<<d.type, d.seq>>, <<d.trial, d.sub>>>>]
<1>1. IsFiniteSet(1..Trials) /\ IsFiniteSet(Subs) /\ IsFiniteSet(Seqs \cup {0})
  <2>1. IsFiniteSet(Seqs) /\ IsFiniteSet(Subs) /\ IsFiniteSet(1..Trials)
    <3>1. {0, 1, subs - 1, MaxSeq - 1, Trials} \subseteq Int
      BY Sizes
    <3>2. \A a, b \in Int : IsFiniteSet(a..b)
      BY FS_Interval
    <3> QED BY <3>1, <3>2 DEF Seqs, Subs
  <2> QED BY <2>1, FS_AddElement
<1>2. IsFiniteSet(Kinds)
  <2>1. IsFiniteSet({}) /\ \A S, x : IsFiniteSet(S) => IsFiniteSet(S \cup {x})
    BY FS_EmptySet, FS_AddElement
  <2>2. Kinds = ((((({} \cup {"REGISTER"}) \cup {"FLUSH"}) \cup {"SUBSCRIBE"})
                   \cup {"PUBLISH"}) \cup {"SUBACK"}) \cup {"COPY"}
    OBVIOUS
  <2> HIDE DEF Kinds
  <2> QED BY <2>1, <2>2
<1>3. IsFiniteSet(What \X Where)
  BY <1>1, <1>2, FS_Product
<1>4. f \in Injection(Datagrams, What \X Where)
  <2>1. f \in [Datagrams -> What \X Where]
    BY FieldTypes
  <2>2. \A c, d \in Datagrams : f[c] = f[d] => c = d
    BY SameFields
  <2> QED BY <2>1, <2>2 DEF Injection, IsInjective
<1> QED BY <1>3, <1>4, FS_Injection

\* Datagrams that were received can be counted.
LEMMA FiniteDatagrams ==
  ASSUME setup \in Setups, NEW T \in SUBSET Datagrams
  PROVE  IsFiniteSet(T) /\ Cardinality(T) \in Nat
  BY DatagramsFinite, FS_Subset, FS_CardinalityType

-----------------------------------------------------------------------------
(* What main adds up when the workers have ended.                          *)

LEMMA OwnerIsWorker ==
  ASSUME setup \in Setups, NEW d \in Datagrams
  PROVE  d.sub % sub_workers \in Workers
<1>1. d.sub \in Nat /\ sub_workers \in Nat /\ sub_workers > 0
  BY FieldTypes, Sizes
<1>2. \A a, n \in Nat : n > 0 => a % n \in 0..(n - 1)
  OBVIOUS
<1> QED BY <1>1, <1>2 DEF Workers

\* A worker that panicked has received nothing: the others have received it all.
LEMMA AllJoined ==
  ASSUME TypeOK, ReceivedInv, \A w \in Workers : Ended(w), NEW d \in taken
  PROVE  d.sub % sub_workers \in Joined
<1> DEFINE w == d.sub % sub_workers
<1>1. w \in Workers
  BY OwnerIsWorker DEF TypeOK
<1>2. d \in TakenBy(w)
  BY DEF TakenBy
<1> HIDE DEF w
<1>3. wpc[w] = "done"
  BY <1>1, <1>2 DEF ReceivedInv, Ended
<1>4. w \in Joined
  BY <1>1, <1>3 DEF Joined
<1> QED BY <1>4 DEF w

\* rx_msgs, the sum over the workers that were joined, is the number of all
\* datagrams received.
LEMMA JoinReceived ==
  ASSUME TypeOK, ReceivedInv, \A w \in Workers : Ended(w)
  PROVE  Received = Cardinality(taken)
<1> DEFINE c == [d \in taken |-> d.sub % sub_workers]
<1>1. IsFiniteSet(taken) /\ IsFiniteSet(Joined)
  <2>1. IsFiniteSet(Workers)
    BY Sizes, FS_Interval DEF TypeOK, Workers
  <2>2. Joined \in SUBSET Workers
    BY DEF Joined
  <2> QED BY <2>1, <2>2, FS_Subset, FiniteDatagrams DEF TypeOK
<1>2. ASSUME NEW w \in Joined
      PROVE  raw_received[w] = Cardinality({d \in taken : c[d] = w})
  <2>1. TakenBy(w) = {d \in taken : c[d] = w}
    BY DEF TakenBy
  <2>2. raw_received[w] = Cardinality(TakenBy(w))
    BY DEF ReceivedInv, Joined
  <2> QED BY <2>1, <2>2
<1>3. {d \in taken : c[d] \in Joined} = taken
  BY AllJoined
<1> HIDE DEF c
<1>4. Counts(raw_received, c, taken, Joined)
  BY <1>2 DEF Counts
<1>5. SumFunctionOnSet(raw_received, Joined) = Cardinality({d \in taken : c[d] \in Joined})
  BY <1>1, <1>4, SumOfParts
<1> QED BY <1>3, <1>5 DEF Received

\* The same for the copies of one message.
LEMMA JoinMerged ==
  ASSUME TypeOK, ReceivedInv, \A w \in Workers : Ended(w), NEW q \in Seqs,
         \A w \in Workers : per_packet[w][q] = Cardinality(CopiesOf(q, TakenBy(w)))
  PROVE  Merged(q) = Cardinality(CopiesOf(q, taken))
<1> DEFINE c == [d \in taken |-> d.sub % sub_workers]
           T == CopiesOf(q, taken)
           f == [w \in Workers |-> per_packet[w][q]]
<1>1. IsFiniteSet(T) /\ IsFiniteSet(Joined)
  <2>1. IsFiniteSet(Workers)
    BY Sizes, FS_Interval DEF TypeOK, Workers
  <2>2. Joined \in SUBSET Workers
    BY DEF Joined
  <2>3. T \in SUBSET Datagrams
    BY DEF CopiesOf, TypeOK
  <2>4. IsFiniteSet(T)
    BY <2>3, FiniteDatagrams DEF TypeOK
  <2> QED BY <2>1, <2>2, <2>4, FS_Subset
<1>2. ASSUME NEW w \in Joined
      PROVE  f[w] = Cardinality({d \in T : c[d] = w})
  <2>1. CopiesOf(q, TakenBy(w)) = {d \in T : c[d] = w}
    BY DEF TakenBy, CopiesOf
  <2>2. f[w] = Cardinality(CopiesOf(q, TakenBy(w)))
    BY DEF Joined
  <2> QED BY <2>1, <2>2
<1>3. {d \in T : c[d] \in Joined} = T
  BY AllJoined DEF CopiesOf
<1>4. Merged(q) = SumFunctionOnSet(f, Joined)
  BY DEF Merged
<1> HIDE DEF c, T, f
<1>5. Counts(f, c, T, Joined)
  BY <1>2 DEF Counts
<1>6. SumFunctionOnSet(f, Joined) = Cardinality({d \in T : c[d] \in Joined})
  BY <1>1, <1>5, SumOfParts
<1> QED BY <1>3, <1>4, <1>6 DEF T

-----------------------------------------------------------------------------
(* Types.                                                                  *)

\* Datagrams D and publishers P outlive the trial.
Keeps(D, P) ==
  /\ D \subseteq net /\ P \subseteq Publishing
  /\ net' = D
  /\ ppc' = [p \in Threads |-> IF p \in P THEN ppc[p] ELSE "none"]
  /\ batch' = [p \in Threads |-> IF p \in P THEN batch[p] ELSE {}]
  /\ global_seq' = [t \in 1..Trials |-> IF \E p \in P : p[1] = t THEN global_seq[t] ELSE 0]
  /\ global_counter' =
       [t \in 1..Trials |-> IF \E p \in P : p[1] = t THEN global_counter[t] ELSE 0]

LEMMA Keeping == ASSUME Judge PROVE \E D, P : Keeps(D, P)
<1>1. PICK D \in SUBSET net, P \in SUBSET Publishing :
        /\ net' = D
        /\ ppc' = [p \in Threads |-> IF p \in P THEN ppc[p] ELSE "none"]
        /\ batch' = [p \in Threads |-> IF p \in P THEN batch[p] ELSE {}]
        /\ global_seq' =
             [t \in 1..Trials |-> IF \E p \in P : p[1] = t THEN global_seq[t] ELSE 0]
        /\ global_counter' =
             [t \in 1..Trials |-> IF \E p \in P : p[1] = t THEN global_counter[t] ELSE 0]
  BY Zenon DEF Judge
<1>2. Keeps(D, P)
  BY <1>1 DEF Keeps
<1> QED BY <1>2

LEMMA NewWorkersTypes ==
  ASSUME setup \in Setups, setup' = setup,
         NEW where \in {"none", "subscribe"}, NewWorkers(where)
  PROVE  /\ wpc' \in [Workers' -> {"none", "subscribe", "receive", "done", "panic"}]
         /\ at' \in [Workers' -> Subs']
         /\ raw_received' \in [Workers' -> Nat]
         /\ per_packet' \in [Workers' -> [Seqs' -> Nat]]
         /\ taken' = {} /\ counted' = {}
  BY Sizes, Fixed DEF NewWorkers

LEMMA MainTypes ==
  ASSUME TypeOK, ReceivedInv, MainStep
  PROVE  TypeOK'
<1> USE DEF TypeOK
<1>1. setup \in Setups /\ setup' = setup
  BY DEF MainStep, Prepare, Spawn, Stop, Join, Judge, control
<1> USE <1>1, Fixed
<1>2. CASE Prepare
  <2>1. Datagram("FLUSH", trial, 0, 0) \in Datagrams /\ Datagram("REGISTER", trial, 0, 0) \in Datagrams
    BY Sizes, MadeOf
  <2>2. net' \subseteq Datagrams /\ registered' \in BOOLEAN
    BY <1>2, <2>1 DEF Prepare
  <2> QED BY <1>2, <2>2 DEF Prepare, workers, publishers, results, history
<1>3. CASE Spawn
  <2>1. ppc' \in [Threads -> {"none", "loop", "count"}]
    BY <1>3 DEF Spawn
  <2> QED BY <1>3, <2>1, NewWorkersTypes DEF Spawn, broker, results
<1>4. CASE Stop
  <2>1. global_counter[trial] \in Nat
    BY Sizes
  <2> QED BY <1>4, <2>1 DEF Stop, workers, publishers, broker, history
<1>5. CASE Join
  <2>1. rx_msgs' \in Nat
    BY <1>5, JoinReceived, FiniteDatagrams DEF Join
  <2>2. latencies' \subseteq Seqs
    BY <1>5 DEF Join
  <2> QED BY <1>5, <2>1, <2>2 DEF Join, workers, publishers, broker, history
<1>6. CASE Judge
  <2>1. PICK D, P : Keeps(D, P)
    BY <1>6, Keeping
  <2> USE DEF Keeps
  <2>2. trial' \in 1..Trials /\ main' \in {"prepare", "end"}
    BY <1>6, Sizes DEF Judge
  <2>3. /\ ppc' \in [Threads -> {"none", "loop", "count"}]
        /\ batch' \in [Threads -> SUBSET Seqs]
    BY <2>1
  <2>4. /\ global_seq' \in [1..Trials -> 0..MaxSeq]
        /\ global_counter' \in [1..Trials -> Nat]
        /\ \A t \in 1..Trials : global_counter'[t] <= global_seq'[t]
    BY <2>1, Sizes
  <2>5. net' \subseteq Datagrams
    BY <2>1
  <2> QED BY <1>6, <2>2, <2>3, <2>4, <2>5, NewWorkersTypes DEF Judge, broker
<1> QED BY <1>2, <1>3, <1>4, <1>5, <1>6 DEF MainStep

\* Worker w takes the datagrams D off the network.
Takes(w, D) ==
  /\ D \subseteq net
  /\ \A d \in D : d.type \in {"SUBACK", "COPY"} /\ d.sub = at[w]
  /\ net' = net \ D
  /\ taken' = taken \cup D
  /\ raw_received' = [raw_received EXCEPT ![w] = @ + Cardinality(D)]
  /\ IF sink THEN per_packet' = per_packet
     ELSE LET known == {q \in Seqs : per_packet[w][q] > 0}
              new   == {d.seq : d \in {c \in D : c.type = "COPY"}} \ known
              room  == Min({Cardinality(new), MAX_TRACKED_PKTS - Cardinality(known)})
          IN \E New \in kSubset(room, new) :
               per_packet' = [per_packet EXCEPT ![w] = Recorded(@, D, New)]

LEMMA Taking ==
  ASSUME NEW w \in Workers, WorkerReceive(w)
  PROVE  \E D : Takes(w, D)
  BY Zenon DEF WorkerReceive, Takes

LEMMA WorkerTypes ==
  ASSUME TypeOK, NEW w \in Workers, WorkerSubscribe(w) \/ WorkerReceive(w)
  PROVE  TypeOK'
<1> USE DEF TypeOK
<1>1. setup \in Setups /\ setup' = setup
  BY DEF WorkerSubscribe, WorkerReceive, control
<1> USE <1>1, Fixed
<1>2. CASE WorkerSubscribe(w)
  <2>1. PICK n \in 0..Cardinality(Group(w)) :
          LET bound == {s \in Group(w) : s < w + n * sub_workers} IN
          /\ net' = net \cup {Datagram("SUBSCRIBE", trial, s, 0) : s \in bound}
          /\ wpc' = [wpc EXCEPT ![w] = IF bound = Group(w) THEN Head(w) ELSE "panic"]
    BY <1>2 DEF WorkerSubscribe
  <2>2. \A s \in Group(w) : Datagram("SUBSCRIBE", trial, s, 0) \in Datagrams
    BY MadeOf DEF Group
  <2>3. net' \subseteq Datagrams
    BY <2>1, <2>2
  <2>4. wpc' \in [Workers -> {"none", "subscribe", "receive", "done", "panic"}]
    BY <2>1 DEF Head
  <2> QED BY <1>2, <2>3, <2>4 DEF WorkerSubscribe, control, publishers, broker, results, history
<1>3. CASE WorkerReceive(w)
  <2>1. PICK D : Takes(w, D)
    BY <1>3, Taking
  <2>2. D \in SUBSET Datagrams /\ Cardinality(D) \in Nat
    BY <2>1, FiniteDatagrams DEF Takes
  <2>3. \A q \in Seqs : Cardinality({d \in D : d.type = "COPY" /\ d.seq = q}) \in Nat
    <3> TAKE q \in Seqs
    <3>1. {d \in D : d.type = "COPY" /\ d.seq = q} \in SUBSET Datagrams
      BY <2>2
    <3> QED BY <3>1, FiniteDatagrams
  <2>4. per_packet' \in [Workers -> [Seqs -> Nat]]
    <3>1. per_packet[w] \in [Seqs -> Nat]
      OBVIOUS
    <3>2. \A New : Recorded(per_packet[w], D, New) \in [Seqs -> Nat]
      BY <2>3, <3>1 DEF Recorded
    <3>3. \/ per_packet' = per_packet
          \/ \E New : per_packet' = [per_packet EXCEPT ![w] = Recorded(per_packet[w], D, New)]
      BY <2>1 DEF Takes
    <3>4. \A r \in [Seqs -> Nat] : [per_packet EXCEPT ![w] = r] \in [Workers -> [Seqs -> Nat]]
      OBVIOUS
    <3>5. ASSUME NEW New, per_packet' = [per_packet EXCEPT ![w] = Recorded(per_packet[w], D, New)]
          PROVE  per_packet' \in [Workers -> [Seqs -> Nat]]
      <4>1. Recorded(per_packet[w], D, New) \in [Seqs -> Nat]
        BY <3>2
      <4> QED BY <3>4, <3>5, <4>1
    <3> QED BY <3>3, <3>5
  <2>5. raw_received' \in [Workers -> Nat]
    <3>1. raw_received' = [raw_received EXCEPT ![w] = raw_received[w] + Cardinality(D)]
      BY <2>1 DEF Takes
    <3>2. raw_received[w] + Cardinality(D) \in Nat
      BY <2>2
    <3> QED BY <3>1, <3>2
  <2>6. at' \in [Workers -> Subs]
    <3>1. at[w] \in Subs /\ w \in Subs
      BY Sizes
    <3>2. at[w] + sub_workers < subs => at[w] + sub_workers \in Subs
      BY <3>1, Sizes DEF Subs
    <3> QED BY <1>3, <3>1, <3>2, Zenon DEF WorkerReceive
  <2>7. wpc' \in [Workers -> {"none", "subscribe", "receive", "done", "panic"}]
    BY <1>3 DEF WorkerReceive, Head
  <2>8. net' \subseteq Datagrams /\ taken' \subseteq Datagrams
    BY <2>1 DEF Takes
  <2> QED BY <1>3, <2>4, <2>5, <2>6, <2>7, <2>8 DEF WorkerReceive, control, publishers, broker, results
<1> QED BY <1>2, <1>3

LEMMA DisjointUnion ==
  ASSUME NEW A, NEW B, IsFiniteSet(A), IsFiniteSet(B), A \cap B = {}
  PROVE  /\ IsFiniteSet(A \cup B)
         /\ Cardinality(A \cup B) = Cardinality(A) + Cardinality(B)
<1>1. Cardinality(A) \in Nat /\ Cardinality(B) \in Nat
  BY FS_CardinalityType
<1>2. /\ IsFiniteSet(A \cup B)
      /\ Cardinality(A \cup B) = Cardinality(A) + Cardinality(B) - Cardinality({})
  BY FS_Union
<1> QED BY <1>1, <1>2, FS_EmptySet

\* What a publisher counts is still apart from what it has counted.
LEMMA CountFits ==
  ASSUME TypeOK, BatchInv, NEW p \in Threads
  PROVE  /\ IsFiniteSet(batch[p]) /\ SentCount(batch[p]) \in Nat
         /\ global_counter[p[1]] + SentCount(batch[p]) <= global_seq[p[1]]
<1> DEFINE t == p[1]
<1>1. t \in 1..Trials /\ global_seq[t] \in Nat
  BY Sizes DEF Threads, TypeOK
<1>2. PICK C \in SUBSET Numbers(t) :
        Cardinality(C) = global_counter[t] /\ C \cap batch[p] = {}
  BY <1>1 DEF BatchInv, CounterApart
<1>3. IsFiniteSet(Numbers(t)) /\ Cardinality(Numbers(t)) = global_seq[t]
  <2>1. \A n \in Nat : IsFiniteSet(0..(n - 1)) /\ Cardinality(0..(n - 1)) = n
    BY FS_Interval
  <2> QED BY <1>1, <2>1 DEF Numbers
<1>4. batch[p] \in SUBSET Numbers(t)
  BY DEF BatchInv, BatchNumbers
<1>5. IsFiniteSet(C) /\ IsFiniteSet(batch[p]) /\ C \cup batch[p] \in SUBSET Numbers(t)
  BY <1>2, <1>3, <1>4, FS_Subset
<1>6. Cardinality(C \cup batch[p]) = Cardinality(C) + Cardinality(batch[p])
  BY <1>2, <1>5, DisjointUnion
<1>7. Cardinality(C \cup batch[p]) <= global_seq[t]
  BY <1>3, <1>5, FS_Subset
<1>8. Cardinality(batch[p]) \in Nat
  BY <1>5, FS_CardinalityType
<1> QED BY <1>2, <1>5, <1>6, <1>7, <1>8 DEF SentCount

LEMMA PublisherTypes ==
  ASSUME TypeOK, BatchInv, NEW p \in Threads, PublisherStep(p)
  PROVE  TypeOK'
<1> USE DEF TypeOK
<1>1. setup \in Setups /\ setup' = setup
  BY DEF PublisherStep, PublisherSend, PublisherCount, control
<1> USE <1>1, Fixed
<1>2. p[1] \in 1..Trials
  BY DEF Threads
<1>3. CASE PublisherSend(p)
  <2> DEFINE t == p[1]
  <2>1. PICK n \in 0..BATCH :
          LET sent == global_seq[t]..(global_seq[t] + n - 1) IN
          /\ net' = net \cup {Datagram("PUBLISH", t, 0, q) : q \in sent}
          /\ batch' = [batch EXCEPT ![p] = sent]
          /\ ppc' = [ppc EXCEPT ![p] = IF n > 0 THEN "count" ELSE "loop"]
    BY <1>3 DEF PublisherSend
  <2> DEFINE g == global_seq[t]
  <2>6. g \in Nat /\ BATCH \in Nat /\ MaxSeq \in Nat /\ g + BATCH <= MaxSeq
    BY <1>2, <1>3, Sizes DEF PublisherSend
  <2>7. global_seq' = [global_seq EXCEPT ![t] = g + BATCH]
    BY <1>3 DEF PublisherSend
  <2>2. g..(g + n - 1) \subseteq Seqs
    <3> HIDE DEF g
    <3> QED BY <2>6 DEF Seqs
  <2>3. net' \subseteq Datagrams
    <3>1. t \in 1..Trials /\ 0 \in Subs /\ net \subseteq Datagrams
      BY <1>2, Sizes
    <3>2. \A q \in Seqs : Datagram("PUBLISH", t, 0, q) \in Datagrams
      BY <3>1, MadeOf, Zenon
    <3>3. net' = net \cup {Datagram("PUBLISH", t, 0, q) : q \in g..(g + n - 1)}
      BY <2>1
    <3> HIDE DEF g, t
    <3> QED BY <2>2, <3>1, <3>2, <3>3, Zenon
  <2>4. batch' \in [Threads -> SUBSET Seqs] /\ ppc' \in [Threads -> {"none", "loop", "count"}]
    BY <2>1, <2>2
  <2>5. /\ global_seq' \in [1..Trials -> 0..MaxSeq]
        /\ \A k \in 1..Trials : global_counter[k] <= global_seq'[k]
    <3>1. g + BATCH \in 0..MaxSeq
      BY <2>6
    <3>2. global_counter[t] <= g + BATCH
      BY <1>2, <2>6
    <3> QED BY <1>2, <2>7, <3>1, <3>2
  <2> QED BY <1>3, <2>3, <2>4, <2>5 DEF PublisherSend, control, workers, broker, results, history
<1>4. CASE PublisherCount(p)
  <2>1. /\ global_counter' \in [1..Trials -> Nat]
        /\ \A k \in 1..Trials : global_counter'[k] <= global_seq[k]
    BY <1>2, <1>4, CountFits DEF PublisherCount
  <2>2. batch' \in [Threads -> SUBSET Seqs] /\ ppc' \in [Threads -> {"none", "loop", "count"}]
    BY <1>4 DEF PublisherCount
  <2>3. counted' \subseteq Seqs
    BY <1>4 DEF PublisherCount
  <2> QED BY <1>4, <2>1, <2>2, <2>3 DEF PublisherCount, control, workers, broker, results
<1> QED BY <1>3, <1>4 DEF PublisherStep

LEMMA BrokerTypes ==
  ASSUME TypeOK, NEW d \in net, BrokerRequest(d) \/ BrokerPublish(d)
  PROVE  TypeOK'
<1> USE DEF TypeOK
<1>1. setup \in Setups /\ setup' = setup
  BY DEF BrokerRequest, BrokerPublish, control
<1> USE <1>1, Fixed
<1>2. d \in Datagrams
  OBVIOUS
<1>3. CASE BrokerRequest(d)
  <2>1. net' \subseteq Datagrams /\ registered' \in BOOLEAN /\ members' \subseteq Subs
    BY <1>2, <1>3, AnswerOf, FieldTypes DEF BrokerRequest
  <2> QED BY <1>3, <2>1 DEF BrokerRequest, control, workers, publishers, results, history
<1>4. CASE BrokerPublish(d)
  <2>1. net' \subseteq Datagrams
    BY <1>2, <1>4, CopyOf DEF BrokerPublish
  <2> QED BY <1>4, <2>1 DEF BrokerPublish, control, workers, publishers, broker, results, history
<1> QED BY <1>3, <1>4

\* The actions, for the proofs by cases below.
LEMMA Cases ==
  ASSUME Next
  PROVE  \/ Prepare \/ Spawn \/ Stop \/ Join \/ Judge
         \/ \E w \in Workers : WorkerSubscribe(w)
         \/ \E w \in Workers : WorkerReceive(w)
         \/ \E p \in Threads : PublisherSend(p)
         \/ \E p \in Threads : PublisherCount(p)
         \/ \E d \in net : BrokerRequest(d)
         \/ \E d \in net : BrokerPublish(d)
  BY DEF Next, MainStep, WorkerStep, PublisherStep

LEMMA SetupFixed ==
  ASSUME TypeOK, Next
  PROVE  setup \in Setups /\ setup' = setup
  BY Cases, Zenon DEF TypeOK, Prepare, Spawn, Stop, Join, Judge, WorkerSubscribe, WorkerReceive,
       PublisherSend, PublisherCount, BrokerRequest, BrokerPublish, control

LEMMA TypesStep ==
  ASSUME TypeOK, ReceivedInv, BatchInv, Next
  PROVE  TypeOK'
  BY MainTypes, WorkerTypes, PublisherTypes, BrokerTypes DEF Next, WorkerStep

-----------------------------------------------------------------------------
(* ControlInv.                                                             *)

LEMMA ControlStep ==
  ASSUME TypeOK, ControlInv, Next
  PROVE  ControlInv'
<1>1. setup \in Setups /\ setup' = setup
  BY SetupFixed
<1>2. Workers' = Workers /\ Threads' = Threads /\ Trials' = Trials
  BY <1>1, Fixed
<1>3. /\ Trials \in Nat /\ trial \in 1..Trials /\ \A p \in Threads : p[1] \in 1..Trials
      /\ wpc \in [Workers -> {"none", "subscribe", "receive", "done", "panic"}]
      /\ ppc \in [Threads -> {"none", "loop", "count"}]
      /\ global_counter \in [1..Trials -> Nat]
  BY <1>1, Sizes DEF TypeOK, Threads
<1>4. CASE Prepare
  BY <1>2, <1>4 DEF ControlInv, Idle, Ahead, Ended, Prepare, workers, publishers, history
<1>5. CASE Spawn
  BY <1>2, <1>3, <1>5 DEF ControlInv, Idle, Ahead, Ended, Spawn
<1>6. CASE Stop
  BY <1>2, <1>3, <1>6 DEF ControlInv, Idle, Ahead, Ended, Stop, workers, publishers, history
<1>7. CASE Join
  BY <1>2, <1>3, <1>7 DEF ControlInv, Idle, Ahead, Ended, Join, workers, publishers, history
<1>8. CASE Judge
  <2>1. taken' = {} /\ counted' = {} /\ \A w \in Workers : wpc'[w] = "none"
    BY <1>2, <1>8 DEF Judge, NewWorkers
  <2>2. main' # "judge"
    BY <1>8 DEF Judge
  <2>3. ASSUME NEW t \in 1..Trials, Ahead(t)'
        PROVE  global_counter'[t] = 0 /\ \A p \in Threads : p[1] = t => ppc'[p] = "none"
    <3>1. t > trial
      BY <1>3, <1>8, <2>3 DEF Judge, Ahead
    <3>2. global_counter[t] = 0 /\ \A p \in Threads : p[1] = t => ppc[p] = "none"
      BY <3>1 DEF ControlInv, Ahead
    <3>3. PICK D, P : Keeps(D, P)
      BY <1>8, Keeping
    <3> QED BY <3>2, <3>3 DEF Keeps
  <2> QED BY <1>2, <2>1, <2>2, <2>3 DEF ControlInv
<1>9. ASSUME NEW w \in Workers, WorkerSubscribe(w) \/ WorkerReceive(w)
      PROVE  ControlInv'
  <2>1. ~Idle /\ main # "judge"
    BY <1>9 DEF ControlInv, WorkerSubscribe, WorkerReceive, Ended
  <2>2. main' = main /\ trial' = trial /\ global_counter' = global_counter /\ ppc' = ppc
    BY <1>9 DEF WorkerSubscribe, WorkerReceive, control, publishers
  <2> QED BY <1>2, <2>1, <2>2 DEF ControlInv, Idle, Ahead
<1>10. ASSUME NEW p \in Threads, PublisherSend(p) \/ PublisherCount(p)
       PROVE  ControlInv'
  <2>1. ~Ahead(p[1])
    BY <1>3, <1>10 DEF ControlInv, PublisherSend, PublisherCount
  <2>2. /\ main' = main /\ trial' = trial /\ wpc' = wpc /\ taken' = taken
        /\ Idle => counted' = counted
    BY <1>10 DEF PublisherSend, PublisherCount, control, workers, history, Idle
  <2>3. ASSUME NEW t \in 1..Trials, Ahead(t)
        PROVE  global_counter'[t] = 0 /\ \A r \in Threads : r[1] = t => ppc'[r] = "none"
    <3>1. t # p[1]
      BY <2>1, <2>3
    <3>2. global_counter'[t] = global_counter[t]
      BY <1>3, <1>10, <3>1 DEF PublisherSend, PublisherCount
    <3>3. \A r \in Threads : r[1] = t => ppc'[r] = ppc[r]
      BY <1>3, <1>10, <3>1 DEF PublisherSend, PublisherCount
    <3> QED BY <2>3, <3>2, <3>3 DEF ControlInv
  <2> QED BY <1>2, <2>2, <2>3 DEF ControlInv, Idle, Ahead, Ended
<1>11. ASSUME NEW d \in net, BrokerRequest(d) \/ BrokerPublish(d)
       PROVE  ControlInv'
  BY <1>2, <1>11 DEF ControlInv, Idle, Ahead, Ended, BrokerRequest, BrokerPublish, control,
       workers, publishers, history
<1> QED BY <1>4, <1>5, <1>6, <1>7, <1>8, <1>9, <1>10, <1>11, Cases

LEMMA StoppedStep ==
  ASSUME StoppedInv, Next
  PROVE  StoppedInv'
<1>1. \/ Prepare \/ Spawn \/ Stop \/ Join \/ Judge \/ UNCHANGED control
  BY Cases DEF WorkerSubscribe, WorkerReceive, PublisherSend, PublisherCount, BrokerRequest,
               BrokerPublish
<1> QED BY <1>1 DEF StoppedInv, Prepare, Spawn, Stop, Join, Judge, control

-----------------------------------------------------------------------------
(* OriginInv.                                                              *)

LEMMA OriginStep ==
  ASSUME TypeOK, ControlInv, OriginInv, Next
  PROVE  OriginInv'
<1>1. setup \in Setups /\ setup' = setup
  BY SetupFixed
<1>2. Workers' = Workers /\ Threads' = Threads /\ Trials' = Trials /\ Subs' = Subs
  BY <1>1, Fixed
<1>3. /\ Trials \in Nat /\ trial \in 1..Trials /\ \A p \in Threads : p[1] \in 1..Trials
      /\ ppc \in [Threads -> {"none", "loop", "count"}]
      /\ global_seq \in [1..Trials -> 0..MaxSeq] /\ MaxSeq \in Nat
      /\ net \cup taken \subseteq Datagrams
  BY <1>1, Sizes DEF TypeOK, Threads
<1>4. \A d \in Datagrams : d.trial \in 1..Trials /\ d.seq \in Nat
  BY <1>1, FieldTypes
<1>5. CASE Prepare
  <2> DEFINE New == {Datagram("FLUSH", trial, 0, 0), Datagram("REGISTER", trial, 0, 0)}
  <2>1. net' \subseteq net \cup New /\ taken' = taken
    BY <1>5 DEF Prepare, history
  <2>2. \A d \in New : d.type \in {"FLUSH", "REGISTER"} /\ d.trial = trial
    BY Made
  <2> HIDE DEF New
  <2>3. ASSUME NEW d \in New PROVE Origin(d)'
    BY <1>3, <1>5, <2>2 DEF Origin, Prepare
  <2>4. ASSUME NEW d \in net \cup taken PROVE Origin(d)'
    BY <1>2, <1>5 DEF OriginInv, Origin, Ahead, Prepare, publishers
  <2> QED BY <2>1, <2>3, <2>4 DEF OriginInv
<1>6. CASE Spawn
  <2>1. ASSUME NEW d \in net \cup taken PROVE Origin(d)'
    <3>1. Origin(d)
      BY DEF OriginInv
    <3>2. trial' = trial /\ global_seq' = global_seq /\ Ahead(trial)
      BY <1>6 DEF Spawn, Ahead
    <3>3. \A p \in Threads : p[1] # trial => ppc'[p] = ppc[p]
      BY <1>6 DEF Spawn
    <3>4. Ahead(d.trial)' => Ahead(d.trial)
      BY <1>6 DEF Spawn, Ahead
    <3> QED BY <1>2, <3>1, <3>2, <3>3, <3>4 DEF Origin
  <2> QED BY <1>6, <2>1 DEF OriginInv, Spawn, NewWorkers
<1>7. CASE Stop \/ Join
  BY <1>2, <1>7 DEF OriginInv, Origin, Ahead, Stop, Join, publishers, history
<1>8. CASE Judge
  <2>1. PICK D, P : Keeps(D, P)
    BY <1>8, Keeping
  <2>2. net' \cup taken' \subseteq net
    BY <1>8, <2>1 DEF Judge, NewWorkers, Keeps
  <2>3. ASSUME NEW d \in net PROVE Origin(d)'
    <3>1. Origin(d) /\ d.trial \in 1..Trials /\ d.trial <= trial
      BY <1>3, <1>4 DEF OriginInv, Origin
    <3>2. trial' \in Nat /\ trial <= trial' /\ ~Ahead(d.trial)'
      BY <1>3, <1>8, <3>1 DEF Judge, Ahead
    <3>3. \A p \in Threads : ppc'[p] # "none" => ppc[p] # "none" /\ global_seq'[p[1]] = global_seq[p[1]]
      BY <1>3, <2>1 DEF Keeps
    <3>4. d.type \in {"PUBLISH", "COPY"} =>
            \A p \in Threads : p[1] = d.trial /\ ppc'[p] # "none" => d.seq < global_seq'[p[1]]
      BY <3>1, <3>3 DEF Origin
    <3> QED BY <1>2, <1>3, <3>1, <3>2, <3>4 DEF Origin
  <2> QED BY <2>2, <2>3 DEF OriginInv
<1>9. ASSUME NEW w \in Workers, WorkerSubscribe(w)
      PROVE  OriginInv'
  <2> DEFINE New == {Datagram("SUBSCRIBE", trial, s, 0) : s \in Group(w)}
  <2>1. net' \subseteq net \cup New /\ taken' = taken
    BY <1>9 DEF WorkerSubscribe, history
  <2>2. trial' = trial /\ main' = main /\ ppc' = ppc /\ global_seq' = global_seq
    BY <1>9 DEF WorkerSubscribe, control, publishers
  <2>3. \A d \in New : d.type = "SUBSCRIBE" /\ d.trial = trial
    BY Made
  <2> HIDE DEF New
  <2>4. ~Ahead(trial)
    BY <1>3, <1>9 DEF ControlInv, Idle, Ahead, WorkerSubscribe
  <2>5. ASSUME NEW d \in New PROVE Origin(d)'
    BY <1>3, <2>2, <2>3, <2>4 DEF Origin, Ahead
  <2>6. ASSUME NEW d \in net \cup taken PROVE Origin(d)'
    BY <1>2, <2>2 DEF OriginInv, Origin, Ahead
  <2> QED BY <2>1, <2>5, <2>6 DEF OriginInv
<1>10. ASSUME NEW w \in Workers, WorkerReceive(w)
       PROVE  OriginInv'
  <2>1. PICK D : Takes(w, D)
    BY <1>10, Taking
  <2>2. net' \cup taken' \subseteq net \cup taken
    BY <2>1 DEF Takes
  <2> QED BY <1>2, <1>10, <2>2 DEF OriginInv, Origin, Ahead, WorkerReceive, control, publishers
<1>11. ASSUME NEW p \in Threads, PublisherSend(p)
       PROVE  OriginInv'
  <2> DEFINE t == p[1]
             g == global_seq[t]
  <2>1. PICK n \in 0..BATCH :
          LET sent == g..(g + n - 1) IN
          /\ net' = net \cup {Datagram("PUBLISH", t, 0, q) : q \in sent}
          /\ ppc' = [ppc EXCEPT ![p] = IF n > 0 THEN "count" ELSE "loop"]
    BY <1>11 DEF PublisherSend
  <2>2. /\ trial' = trial /\ main' = main /\ taken' = taken
        /\ global_seq' = [global_seq EXCEPT ![t] = g + BATCH]
    BY <1>11 DEF PublisherSend, control, history
  <2>3. t \in 1..Trials /\ g \in Nat /\ BATCH \in Nat
    BY <1>1, <1>3, Sizes
  <2>4. ~Ahead(t) /\ t <= trial
    BY <1>3, <1>11, <2>3 DEF ControlInv, Ahead, PublisherSend
  <2> DEFINE New == {Datagram("PUBLISH", t, 0, q) : q \in g..(g + n - 1)}
  <2>5. \A d \in New : /\ d.type = "PUBLISH" /\ d.trial = t /\ d.sub = 0
                        /\ d.seq \in Nat /\ d.seq < g + BATCH
    <3>1. \A q \in g..(g + n - 1) : q \in Nat /\ q < g + BATCH
      BY <2>3
    <3> HIDE DEF g, t
    <3> QED BY <3>1, Made
  <2>6. \A k \in 1..Trials : global_seq'[k] = IF k = t THEN g + BATCH ELSE global_seq[k]
    BY <1>3, <2>2
  <2>7. \A k \in 1..Trials : Ahead(k)' <=> Ahead(k)
    BY <2>2 DEF Ahead
  <2>8. net' \cup taken' = net \cup taken \cup New
    BY <2>1, <2>2
  <2>9. \A r \in Threads : ppc'[r] # "none" => ppc[r] # "none"
    BY <1>3, <1>11, <2>1 DEF PublisherSend
  <2> HIDE DEF New, g, t
  <2>10. ASSUME NEW d \in New PROVE Origin(d)'
    BY <1>2, <1>3, <2>2, <2>3, <2>4, <2>5, <2>6, <2>7 DEF Origin
  <2>11. ASSUME NEW d \in net \cup taken PROVE Origin(d)'
    <3>1. Origin(d) /\ d.seq \in Nat /\ d.trial \in 1..Trials
      BY <1>3, <1>4 DEF OriginInv
    <3>2. \A k \in 1..Trials : global_seq[k] \in Nat /\ global_seq[k] <= global_seq'[k]
      BY <1>3, <2>3, <2>6 DEF g
    <3>3. d.type \in {"PUBLISH", "COPY"} =>
            \A r \in Threads : r[1] = d.trial /\ ppc'[r] # "none" => d.seq < global_seq'[r[1]]
      <4> SUFFICES ASSUME d.type \in {"PUBLISH", "COPY"}, NEW r \in Threads, r[1] = d.trial, ppc'[r] # "none"
                   PROVE  d.seq < global_seq'[r[1]]
        OBVIOUS
      <4>1. d.seq < global_seq[r[1]]
        BY <2>9, <3>1 DEF Origin
      <4>2. r[1] \in 1..Trials
        BY <1>3
      <4>3. global_seq[r[1]] \in Nat /\ global_seq'[r[1]] \in Nat
        BY <1>3, <2>3, <2>6, <4>2
      <4> QED BY <3>1, <3>2, <4>1, <4>2, <4>3
    <3> QED BY <1>2, <2>2, <2>7, <3>1, <3>3 DEF Origin
  <2> QED BY <2>8, <2>10, <2>11 DEF OriginInv
<1>12. ASSUME NEW p \in Threads, PublisherCount(p)
       PROVE  OriginInv'
  <2>1. \A r \in Threads : ppc'[r] # "none" => ppc[r] # "none"
    BY <1>3, <1>12 DEF PublisherCount
  <2>2. /\ trial' = trial /\ main' = main /\ taken' = taken /\ net' = net
        /\ global_seq' = global_seq
    BY <1>12 DEF PublisherCount, control
  <2> QED BY <1>2, <2>1, <2>2 DEF OriginInv, Origin, Ahead
<1>13. ASSUME NEW d \in net, BrokerRequest(d) \/ BrokerPublish(d)
       PROVE  OriginInv'
  <2>1. UNCHANGED <<trial, main, taken, ppc, global_seq>>
    BY <1>13 DEF BrokerRequest, BrokerPublish, control, history, publishers
  <2>2. d \in Datagrams /\ Origin(d)
    BY <1>3 DEF OriginInv
  <2>3. ASSUME NEW c \in net \cup taken PROVE Origin(c)'
    BY <1>2, <2>1 DEF OriginInv, Origin, Ahead
  <2>4. ASSUME NEW c \in net', c \notin net PROVE Origin(c)'
    <3>1. CASE BrokerRequest(d)
      <4>1. d.type = "SUBSCRIBE" /\ c = Answer(d)
        BY <2>4, <3>1 DEF BrokerRequest
      <4>2. c.type = "SUBACK" /\ c.trial = d.trial
        BY <2>2, <4>1, AnswerOf
      <4> QED BY <2>1, <2>2, <4>1, <4>2 DEF Origin, Ahead
    <3>2. CASE BrokerPublish(d)
      <4>1. d.type = "PUBLISH" /\ c.type = "COPY" /\ c.trial = d.trial /\ c.seq = d.seq
        BY <2>2, <2>4, <3>2, CopyOf DEF BrokerPublish, TypeOK
      <4> QED BY <1>2, <2>1, <2>2, <4>1 DEF Origin, Ahead
    <3> QED BY <1>13, <3>1, <3>2
  <2> QED BY <2>1, <2>3, <2>4 DEF OriginInv
<1> QED BY <1>5, <1>6, <1>7, <1>8, <1>9, <1>10, <1>11, <1>12, <1>13, Cases

-----------------------------------------------------------------------------
(* OnceInv.                                                                *)

\* Steps that send nothing but requests of main, and receive nothing.
LEMMA OnceQuiet ==
  ASSUME TypeOK, OnceInv, setup' = setup, trial' = trial, wpc' = wpc,
         taken' = taken, \A d \in net' : d \in net \/ d.type \in {"FLUSH", "REGISTER"}
  PROVE  OnceInv'
<1>1. /\ net \subseteq Datagrams /\ Workers' = Workers /\ Subs' = Subs
      /\ \A w : Group(w)' = Group(w)
  BY Fixed DEF TypeOK, Group
<1>2. TakenOnce'
  BY DEF OnceInv, TakenOnce
<1>3. CauseGone'
  BY <1>1, AnswerOf, CopyOf DEF OnceInv, CauseGone
<1>4. NotYetAsked'
  BY <1>1 DEF OnceInv, NotYetAsked
<1> QED BY <1>2, <1>3, <1>4 DEF OnceInv

LEMMA OnceSubscribe ==
  ASSUME TypeOK, OnceInv, NEW w \in Workers, WorkerSubscribe(w)
  PROVE  OnceInv'
<1>1. setup \in Setups /\ setup' = setup /\ trial' = trial /\ taken' = taken
  BY DEF TypeOK, WorkerSubscribe, control, history
<1>2. /\ net \subseteq Datagrams /\ taken \subseteq Datagrams
      /\ Workers' = Workers /\ Subs' = Subs /\ \A x : Group(x)' = Group(x)
  BY <1>1, Fixed DEF TypeOK, Group
<1> DEFINE New == {Datagram("SUBSCRIBE", trial, s, 0) : s \in Group(w)}
<1>3. net' \subseteq net \cup New
  BY DEF WorkerSubscribe
<1>4. \A d \in New : d.type = "SUBSCRIBE" /\ d.trial = trial /\ d.sub \in Group(w)
  BY Made
<1>5. New \subseteq Datagrams
  BY <1>1, Sizes, MadeOf DEF TypeOK, Group
<1> HIDE DEF New
<1>6. wpc[w] = "subscribe" /\ \A x \in Workers : wpc'[x] = "subscribe" => x # w /\ wpc[x] = "subscribe"
  BY DEF WorkerSubscribe, Head, TypeOK
<1>7. TakenOnce'
  BY <1>1, <1>3, <1>4 DEF OnceInv, TakenOnce
<1>8. CauseGone'
  <2> SUFFICES ASSUME NEW d \in net'
               PROVE  /\ d.type = "SUBSCRIBE" => Answer(d) \notin net' \cup taken'
                      /\ d.type = "PUBLISH" => \A s \in Subs : Copy(d, s) \notin net' \cup taken'
    BY <1>2 DEF CauseGone
  <2>1. d \in Datagrams
    BY <1>2, <1>3, <1>5
  <2>2. Answer(d) \notin New /\ \A s \in Subs : Copy(d, s) \notin New
    BY <1>4, <2>1, AnswerOf, CopyOf
  <2>3. CASE d \in net
    BY <1>1, <1>3, <2>2, <2>3 DEF OnceInv, CauseGone
  <2>4. CASE d \in New
    <3>1. Answer(d) \notin net \cup taken
      BY <1>4, <1>6, <2>1, <2>4, AnswerOf DEF OnceInv, NotYetAsked
    <3> QED BY <1>1, <1>3, <1>4, <2>2, <2>4, <3>1
  <2> QED BY <1>3, <2>3, <2>4
<1>9. NotYetAsked'
  <2> SUFFICES ASSUME NEW x \in Workers, wpc'[x] = "subscribe", NEW d \in net' \cup taken',
                      d.trial = trial, d.type \in {"SUBSCRIBE", "SUBACK"}
               PROVE  d.sub \notin Group(x)
    BY <1>1, <1>2 DEF NotYetAsked
  <2>1. CASE d \in net \cup taken
    BY <1>6, <2>1 DEF OnceInv, NotYetAsked
  <2>2. CASE d \in New
    BY <1>4, <1>6, <2>2 DEF Group
  <2> QED BY <1>1, <1>3, <2>1, <2>2
<1> QED BY <1>7, <1>8, <1>9 DEF OnceInv

LEMMA OnceReceive ==
  ASSUME TypeOK, OnceInv, NEW w \in Workers, WorkerReceive(w)
  PROVE  OnceInv'
<1>1. setup \in Setups /\ setup' = setup /\ trial' = trial
  BY DEF TypeOK, WorkerReceive, control
<1>2. Workers' = Workers /\ Subs' = Subs /\ \A x : Group(x)' = Group(x)
  BY <1>1, Fixed DEF Group
<1>3. PICK D : Takes(w, D)
  BY Taking
<1>4. net' = net \ D /\ taken' = taken \cup D /\ D \subseteq net /\ \A d \in D : d.type \in {"SUBACK", "COPY"}
  BY <1>3 DEF Takes
<1>5. \A x \in Workers : wpc'[x] = "subscribe" => wpc[x] = "subscribe"
  BY DEF WorkerReceive, Head, TypeOK
<1>6. TakenOnce'
  BY <1>4 DEF OnceInv, TakenOnce
<1>7. CauseGone'
  BY <1>2, <1>4 DEF OnceInv, CauseGone
<1>8. NotYetAsked'
  BY <1>1, <1>2, <1>4, <1>5 DEF OnceInv, NotYetAsked
<1> QED BY <1>6, <1>7, <1>8 DEF OnceInv

LEMMA OnceSend ==
  ASSUME TypeOK, OriginInv, OnceInv, NEW p \in Threads, PublisherSend(p)
  PROVE  OnceInv'
<1> DEFINE t == p[1]
           g == global_seq[t]
<1>1. setup \in Setups /\ setup' = setup /\ trial' = trial /\ taken' = taken /\ wpc' = wpc
  BY DEF TypeOK, PublisherSend, control, history, workers
<1>2. /\ net \subseteq Datagrams /\ taken \subseteq Datagrams
      /\ Workers' = Workers /\ Subs' = Subs /\ \A x : Group(x)' = Group(x)
  BY <1>1, Fixed DEF TypeOK, Group
<1>3. PICK n \in 0..BATCH : net' = net \cup {Datagram("PUBLISH", t, 0, q) : q \in g..(g + n - 1)}
  BY DEF PublisherSend
<1> DEFINE New == {Datagram("PUBLISH", t, 0, q) : q \in g..(g + n - 1)}
<1>4. t \in 1..Trials /\ g \in Nat /\ BATCH \in Nat /\ MaxSeq \in Nat /\ g + BATCH <= MaxSeq
  BY <1>1, Sizes DEF Threads, TypeOK, PublisherSend
<1>5. \A q \in g..(g + n - 1) : q \in Nat /\ g <= q /\ q \in Seqs
  <2> HIDE DEF g
  <2> QED BY <1>4 DEF Seqs
<1>6. \A d \in New : d.type = "PUBLISH" /\ d.trial = t /\ d.seq \in Nat /\ g <= d.seq
  <2> HIDE DEF g, t
  <2> QED BY <1>5, Made
<1>7. New \subseteq Datagrams
  <2> HIDE DEF g, t
  <2> QED BY <1>1, <1>4, <1>5, Sizes, MadeOf
<1>8. net' = net \cup New
  BY <1>3
<1>9. ppc[p] # "none"
  BY DEF PublisherSend
<1> HIDE DEF New
<1>10. TakenOnce'
  BY <1>1, <1>6, <1>8 DEF OnceInv, TakenOnce
<1>11. CauseGone'
  <2> SUFFICES ASSUME NEW d \in net'
               PROVE  /\ d.type = "SUBSCRIBE" => Answer(d) \notin net' \cup taken'
                      /\ d.type = "PUBLISH" => \A s \in Subs : Copy(d, s) \notin net' \cup taken'
    BY <1>2 DEF CauseGone
  <2>1. d \in Datagrams
    BY <1>2, <1>7, <1>8
  <2>2. Answer(d) \notin New /\ \A s \in Subs : Copy(d, s) \notin New
    BY <1>6, <2>1, AnswerOf, CopyOf
  <2>3. CASE d \in net
    BY <1>1, <1>8, <2>2, <2>3 DEF OnceInv, CauseGone
  <2>4. CASE d \in New
    <3>1. ASSUME NEW s \in Subs, Copy(d, s) \in net \cup taken PROVE FALSE
      <4>1. Copy(d, s).type = "COPY" /\ Copy(d, s).trial = t /\ Copy(d, s).seq = d.seq
        BY <1>6, <2>1, <2>4, CopyOf
      <4>2. d.seq < g
        BY <1>9, <3>1, <4>1 DEF OriginInv, Origin
      <4> QED BY <1>4, <1>6, <2>4, <4>2
    <3> QED BY <1>1, <1>6, <1>8, <2>2, <2>4, <3>1
  <2> QED BY <1>8, <2>3, <2>4
<1>12. NotYetAsked'
  BY <1>1, <1>2, <1>6, <1>8 DEF OnceInv, NotYetAsked
<1> QED BY <1>10, <1>11, <1>12 DEF OnceInv

LEMMA OnceRequest ==
  ASSUME TypeOK, OnceInv, NEW d \in net, BrokerRequest(d)
  PROVE  OnceInv'
<1>1. setup \in Setups /\ setup' = setup /\ trial' = trial /\ taken' = taken /\ wpc' = wpc
  BY DEF TypeOK, BrokerRequest, control, history, workers
<1>2. CASE net' = net \ {d}
  BY <1>1, <1>2, OnceQuiet
<1>3. CASE d.type = "SUBSCRIBE" /\ net' = (net \ {d}) \cup {Answer(d)}
  <2>1. /\ net \subseteq Datagrams /\ taken \subseteq Datagrams
        /\ Workers' = Workers /\ Subs' = Subs /\ \A x : Group(x)' = Group(x)
    BY <1>1, Fixed DEF TypeOK, Group
  <2>2. /\ Answer(d).type = "SUBACK" /\ Answer(d).trial = d.trial
        /\ Answer(d).sub = d.sub /\ Answer(d).seq = d.seq
    BY <2>1, AnswerOf
  <2>3. TakenOnce'
    BY <1>1, <1>3 DEF OnceInv, TakenOnce, CauseGone
  <2>4. CauseGone'
    <3> SUFFICES ASSUME NEW c \in net'
                 PROVE  /\ c.type = "SUBSCRIBE" => Answer(c) \notin net' \cup taken'
                        /\ c.type = "PUBLISH" => \A s \in Subs : Copy(c, s) \notin net' \cup taken'
      BY <2>1 DEF CauseGone
    <3>1. CASE c = Answer(d)
      BY <2>2, <3>1
    <3>2. CASE c \in net /\ c # d
      <4>1. c \in Datagrams /\ \A s \in Subs : Copy(c, s) # Answer(d)
        BY <2>1, <2>2, <3>2, CopyOf
      <4>2. c.type = "SUBSCRIBE" => Answer(c) # Answer(d)
        BY <1>3, <2>1, <2>2, <3>2, <4>1, AnswerOf, SameFields
      <4> QED BY <1>1, <1>3, <3>2, <4>1, <4>2 DEF OnceInv, CauseGone
    <3> QED BY <1>3, <3>1, <3>2
  <2>5. NotYetAsked'
    <3> SUFFICES ASSUME NEW x \in Workers, wpc[x] = "subscribe", NEW c \in net' \cup taken',
                        c.trial = trial, c.type \in {"SUBSCRIBE", "SUBACK"}
                 PROVE  c.sub \notin Group(x)
      BY <1>1, <2>1 DEF NotYetAsked
    <3>1. CASE c \in net \cup taken
      BY <3>1 DEF OnceInv, NotYetAsked
    <3>2. CASE c = Answer(d)
      BY <1>3, <2>2, <3>2 DEF OnceInv, NotYetAsked
    <3> QED BY <1>1, <1>3, <3>1, <3>2
  <2> QED BY <2>3, <2>4, <2>5 DEF OnceInv
<1> QED BY <1>2, <1>3 DEF BrokerRequest

LEMMA OncePublish ==
  ASSUME TypeOK, OriginInv, OnceInv, NEW d \in net, BrokerPublish(d)
  PROVE  OnceInv'
<1>1. /\ setup \in Setups /\ setup' = setup /\ trial' = trial /\ taken' = taken /\ wpc' = wpc
      /\ d.type = "PUBLISH" /\ d \in Datagrams /\ d.sub = 0
  BY DEF TypeOK, BrokerPublish, control, history, workers, OriginInv, Origin
<1>2. /\ net \subseteq Datagrams /\ taken \subseteq Datagrams
      /\ Workers' = Workers /\ Subs' = Subs /\ \A x : Group(x)' = Group(x)
  BY <1>1, Fixed DEF TypeOK, Group
<1> DEFINE New == {Copy(d, s) : s \in members}
<1>3. net' = (net \ {d}) \cup New
  BY DEF BrokerPublish
<1>4. \A c \in New : /\ c \in Datagrams /\ c \notin taken
                      /\ c.type = "COPY" /\ c.trial = d.trial /\ c.seq = d.seq
  BY <1>1, CopyOf DEF TypeOK, OnceInv, CauseGone
<1> HIDE DEF New
<1>5. TakenOnce'
  BY <1>1, <1>3, <1>4 DEF OnceInv, TakenOnce
<1>6. CauseGone'
  <2> SUFFICES ASSUME NEW c \in net'
               PROVE  /\ c.type = "SUBSCRIBE" => Answer(c) \notin net' \cup taken'
                      /\ c.type = "PUBLISH" => \A s \in Subs : Copy(c, s) \notin net' \cup taken'
    BY <1>2 DEF CauseGone
  <2>1. CASE c \in New
    BY <1>4, <2>1
  <2>2. CASE c \in net /\ c # d
    <3>1. c \in Datagrams /\ Answer(c) \notin New
      BY <1>2, <1>4, <2>2, AnswerOf
    <3>2. ASSUME c.type = "PUBLISH", NEW s \in Subs PROVE Copy(c, s) \notin New
      <4>1. c.sub = 0
        BY <2>2, <3>2 DEF OriginInv, Origin
      <4>2. ~(c.trial = d.trial /\ c.seq = d.seq)
        BY <1>1, <2>2, <3>1, <3>2, <4>1, SameFields
      <4>3. Copy(c, s).trial = c.trial /\ Copy(c, s).seq = c.seq
        BY <3>1, CopyOf
      <4> QED BY <1>4, <4>2, <4>3
    <3> QED BY <1>1, <1>3, <2>2, <3>1, <3>2 DEF OnceInv, CauseGone
  <2> QED BY <1>3, <2>1, <2>2
<1>7. NotYetAsked'
  BY <1>1, <1>2, <1>3, <1>4 DEF OnceInv, NotYetAsked
<1> QED BY <1>5, <1>6, <1>7 DEF OnceInv

LEMMA OnceStep ==
  ASSUME TypeOK, ControlInv, OriginInv, OnceInv, Next
  PROVE  OnceInv'
<1>1. setup \in Setups /\ setup' = setup /\ Workers' = Workers /\ Subs' = Subs
  BY SetupFixed, Fixed
<1>2. CASE Prepare
  <2>1. \A d \in net' : d \in net \/ d.type \in {"FLUSH", "REGISTER"}
    BY <1>2, Made DEF Prepare
  <2> QED BY <1>1, <1>2, <2>1, OnceQuiet DEF Prepare, workers, history
<1>3. CASE Spawn
  <2>1. net' = net /\ taken' = {} /\ trial' = trial
    BY <1>3 DEF Spawn, NewWorkers
  <2>2. \A d \in net : d.trial = trial => d.type \in {"FLUSH", "REGISTER"}
    BY <1>3 DEF OriginInv, Origin, Ahead, Spawn
  <2> QED BY <1>1, <2>1, <2>2 DEF OnceInv, TakenOnce, CauseGone, NotYetAsked
<1>4. CASE Stop \/ Join
  BY <1>1, <1>4, OnceQuiet DEF Stop, Join, workers, history
<1>5. CASE Judge
  <2>1. PICK D, P : Keeps(D, P)
    BY <1>5, Keeping
  <2>2. net' \subseteq net /\ taken' = {} /\ \A w \in Workers' : wpc'[w] = "none"
    BY <1>1, <1>5, <2>1 DEF Judge, NewWorkers, Keeps
  <2> QED BY <1>1, <2>2 DEF OnceInv, TakenOnce, CauseGone, NotYetAsked
<1>6. ASSUME NEW p \in Threads, PublisherCount(p) PROVE OnceInv'
  BY <1>1, <1>6, OnceQuiet DEF PublisherCount, control, workers
<1> QED BY <1>2, <1>3, <1>4, <1>5, <1>6, OnceSubscribe, OnceReceive, OnceSend, OnceRequest,
          OncePublish, Cases

-----------------------------------------------------------------------------
(* BatchInv and CountInv.                                                  *)

\* Nothing that a publisher sends has been given out before.
LEMMA SendFacts ==
  ASSUME TypeOK, NEW p \in Threads, PublisherSend(p)
  PROVE  \E sent :
           /\ batch' = [batch EXCEPT ![p] = sent]
           /\ sent \cap Numbers(p[1]) = {} /\ sent \subseteq Numbers(p[1])'
           /\ ppc'[p] # "count" => sent = {}
           /\ \A r \in Threads : r # p => ppc'[r] = ppc[r]
           /\ \A t \in 1..Trials : Numbers(t) \subseteq Numbers(t)'
<1> DEFINE g == global_seq[p[1]]
<1>1. setup \in Setups /\ p[1] \in 1..Trials
  BY DEF TypeOK, Threads
<1>2. g \in Nat /\ BATCH \in Nat /\ MaxSeq \in Nat
  BY <1>1, Sizes DEF TypeOK
<1>3. PICK n \in 0..BATCH :
        /\ batch' = [batch EXCEPT ![p] = g..(g + n - 1)]
        /\ ppc' = [ppc EXCEPT ![p] = IF n > 0 THEN "count" ELSE "loop"]
  BY DEF PublisherSend
<1>4. \A t \in 1..Trials : global_seq'[t] = IF t = p[1] THEN g + BATCH ELSE global_seq[t]
  BY DEF PublisherSend, TypeOK
<1>5. \A t \in 1..Trials : global_seq[t] \in Nat
  <2>1. global_seq \in [1..Trials -> 0..MaxSeq]
    BY DEF TypeOK
  <2> QED BY <1>2, <2>1
<1> HIDE DEF g
<1>6. \A t \in 1..Trials : Numbers(t) \subseteq Numbers(t)'
  <2> TAKE t \in 1..Trials
  <2>1. global_seq[t] \in Nat /\ global_seq'[t] \in Nat /\ global_seq[t] <= global_seq'[t]
    BY <1>2, <1>4, <1>5 DEF g
  <2> QED BY <2>1 DEF Numbers
<1>7. g..(g + n - 1) \cap Numbers(p[1]) = {}
  BY <1>2 DEF Numbers, g
<1>8. g..(g + n - 1) \subseteq Numbers(p[1])'
  <2>1. global_seq'[p[1]] = g + BATCH
    BY <1>1, <1>4
  <2> QED BY <1>2, <2>1 DEF Numbers
<1>9. ppc'[p] # "count" => g..(g + n - 1) = {}
  BY <1>2, <1>3 DEF TypeOK
<1>10. \A r \in Threads : r # p => ppc'[r] = ppc[r]
  BY <1>3 DEF TypeOK
<1> WITNESS g..(g + n - 1)
<1> QED BY <1>3, <1>6, <1>7, <1>8, <1>9, <1>10

LEMMA BatchSend ==
  ASSUME TypeOK, BatchInv, NEW p \in Threads, PublisherSend(p)
  PROVE  BatchInv'
<1>1. Threads' = Threads /\ Trials' = Trials /\ global_counter' = global_counter
  BY Fixed DEF PublisherSend, control
<1>2. PICK sent :
         /\ batch' = [batch EXCEPT ![p] = sent]
         /\ sent \cap Numbers(p[1]) = {} /\ sent \subseteq Numbers(p[1])'
         /\ ppc'[p] # "count" => sent = {}
         /\ \A r \in Threads : r # p => ppc'[r] = ppc[r]
         /\ \A t \in 1..Trials : Numbers(t) \subseteq Numbers(t)'
  BY SendFacts
<1>3. \A r \in Threads : batch'[r] = IF r = p THEN sent ELSE batch[r]
  BY <1>2 DEF TypeOK
<1>4. \A r \in Threads : r[1] \in 1..Trials /\ batch[r] \subseteq Numbers(r[1])
  BY DEF BatchInv, BatchNumbers, Threads
<1>5. BatchNumbers'
  BY <1>1, <1>2, <1>3, <1>4 DEF BatchInv, BatchNumbers
<1>6. BatchesApart'
  BY <1>1, <1>2, <1>3, <1>4 DEF BatchInv, BatchesApart
<1>7. CounterApart'
  <2> SUFFICES ASSUME NEW t \in 1..Trials
               PROVE  \E C \in SUBSET Numbers(t)' :
                        /\ Cardinality(C) = global_counter[t]
                        /\ \A r \in Threads : r[1] = t => C \cap batch'[r] = {}
    BY <1>1 DEF CounterApart
  <2>1. PICK C \in SUBSET Numbers(t) :
          /\ Cardinality(C) = global_counter[t]
          /\ \A r \in Threads : r[1] = t => C \cap batch[r] = {}
    BY DEF BatchInv, CounterApart
  <2>2. C \in SUBSET Numbers(t)'
    BY <1>2, <2>1
  <2>3. \A r \in Threads : r[1] = t => C \cap batch'[r] = {}
    BY <1>2, <1>3, <2>1
  <2> QED BY <2>1, <2>2, <2>3
<1> QED BY <1>5, <1>6, <1>7 DEF BatchInv

LEMMA BatchCount ==
  ASSUME TypeOK, BatchInv, NEW p \in Threads, PublisherCount(p)
  PROVE  BatchInv'
<1>1. Threads' = Threads /\ Trials' = Trials /\ \A t : Numbers(t)' = Numbers(t)
  BY Fixed DEF PublisherCount, control, Numbers
<1>2. \A r \in Threads : batch'[r] = IF r = p THEN {} ELSE batch[r]
  BY DEF TypeOK, PublisherCount
<1>3. \A r \in Threads : ppc'[r] # "count" => r = p \/ ppc[r] # "count"
  BY DEF TypeOK, PublisherCount
<1>4. BatchNumbers'
  BY <1>1, <1>2, <1>3 DEF BatchInv, BatchNumbers
<1>5. BatchesApart'
  BY <1>1, <1>2 DEF BatchInv, BatchesApart
<1>6. CounterApart'
  <2> SUFFICES ASSUME NEW t \in 1..Trials
               PROVE  \E C \in SUBSET Numbers(t) :
                        /\ Cardinality(C) = global_counter'[t]
                        /\ \A r \in Threads : r[1] = t => C \cap batch'[r] = {}
    BY <1>1 DEF CounterApart
  <2>1. PICK C \in SUBSET Numbers(t) :
          /\ Cardinality(C) = global_counter[t]
          /\ \A r \in Threads : r[1] = t => C \cap batch[r] = {}
    BY DEF BatchInv, CounterApart
  <2>2. CASE t # p[1]
    <3>1. global_counter'[t] = global_counter[t]
      BY <2>2 DEF TypeOK, PublisherCount
    <3> QED BY <1>2, <2>1, <3>1
  <2>3. CASE t = p[1]
    <3>1. global_counter'[t] = global_counter[t] + Cardinality(batch[p])
      BY <2>3 DEF TypeOK, PublisherCount, SentCount
    <3>2. IsFiniteSet(Numbers(t))
      <4>1. setup \in Setups /\ MaxSeq \in Nat /\ global_seq[t] \in 0..MaxSeq
        BY Sizes, Zenon DEF TypeOK
      <4>2. 0 \in Int /\ global_seq[t] - 1 \in Int
        BY <4>1
      <4> QED BY <4>2, FS_Interval, Zenon DEF Numbers
    <3>3. batch[p] \in SUBSET Numbers(t) /\ C \cap batch[p] = {}
      BY <2>1, <2>3 DEF BatchInv, BatchNumbers
    <3>4. Cardinality(C \cup batch[p]) = Cardinality(C) + Cardinality(batch[p])
      BY <3>2, <3>3, DisjointUnion, FS_Subset
    <3>5. \A r \in Threads : r[1] = t => (C \cup batch[p]) \cap batch'[r] = {}
      BY <1>2, <2>1, <2>3 DEF BatchInv, BatchesApart
    <3>6. C \cup batch[p] \in SUBSET Numbers(t)
      BY <3>3
    <3> QED BY <2>1, <3>1, <3>4, <3>5, <3>6
  <2> QED BY <2>2, <2>3
<1> QED BY <1>4, <1>5, <1>6 DEF BatchInv

LEMMA BatchJudge ==
  ASSUME TypeOK, BatchInv, Judge
  PROVE  BatchInv'
<1>1. Threads' = Threads /\ Trials' = Trials
  BY Fixed DEF Judge
<1>2. PICK D, P : Keeps(D, P)
  BY Keeping
<1>3. /\ \A r \in Threads : batch'[r] = IF r \in P THEN batch[r] ELSE {}
      /\ \A r \in Threads : ppc'[r] = IF r \in P THEN ppc[r] ELSE "none"
  BY <1>2 DEF Keeps
<1>4. \A r \in Threads : r[1] \in 1..Trials
  BY DEF Threads
<1>5. \A r \in Threads : r \in P => Numbers(r[1])' = Numbers(r[1])
  BY <1>2, <1>4 DEF Keeps, Numbers
<1>6. BatchNumbers'
  BY <1>1, <1>3, <1>5 DEF BatchInv, BatchNumbers
<1>7. BatchesApart'
  BY <1>1, <1>3 DEF BatchInv, BatchesApart
<1>8. CounterApart'
  <2> SUFFICES ASSUME NEW t \in 1..Trials
               PROVE  \E C \in SUBSET Numbers(t)' :
                        /\ Cardinality(C) = global_counter'[t]
                        /\ \A r \in Threads : r[1] = t => C \cap batch'[r] = {}
    BY <1>1 DEF CounterApart
  <2>1. CASE \E r \in P : r[1] = t
    <3>1. global_counter'[t] = global_counter[t] /\ Numbers(t)' = Numbers(t)
      BY <1>2, <2>1 DEF Keeps, Numbers
    <3>2. PICK C \in SUBSET Numbers(t) :
            /\ Cardinality(C) = global_counter[t]
            /\ \A r \in Threads : r[1] = t => C \cap batch[r] = {}
      BY DEF BatchInv, CounterApart
    <3> QED BY <1>3, <3>1, <3>2
  <2>2. CASE ~\E r \in P : r[1] = t
    <3>1. global_counter'[t] = 0
      BY <1>2, <2>2 DEF Keeps
    <3> QED BY <3>1, FS_EmptySet
  <2> QED BY <2>1, <2>2
<1> QED BY <1>6, <1>7, <1>8 DEF BatchInv

LEMMA BatchStep ==
  ASSUME TypeOK, ControlInv, BatchInv, Next
  PROVE  BatchInv'
<1>1. Threads' = Threads /\ Trials' = Trials
  BY SetupFixed, Fixed
<1>2. CASE UNCHANGED publishers
  BY <1>1, <1>2 DEF BatchInv, BatchNumbers, BatchesApart, CounterApart, Numbers, publishers
<1>3. CASE Spawn
  <2>1. UNCHANGED <<batch, global_seq, global_counter>> /\ \A t : Numbers(t)' = Numbers(t)
    BY <1>3 DEF Spawn, Numbers
  <2>2. \A p \in Threads : ppc'[p] # "count" => ppc[p] # "count"
    BY <1>3 DEF Spawn, ControlInv, Ahead, TypeOK
  <2> QED BY <1>1, <2>1, <2>2 DEF BatchInv, BatchNumbers, BatchesApart, CounterApart
<1>4. Next => \/ UNCHANGED publishers \/ Spawn \/ Judge
              \/ \E p \in Threads : PublisherSend(p)
              \/ \E p \in Threads : PublisherCount(p)
  BY Cases DEF Prepare, Stop, Join, WorkerSubscribe, WorkerReceive, BrokerRequest, BrokerPublish
<1> QED BY <1>2, <1>3, <1>4, BatchSend, BatchCount, BatchJudge

LEMMA CountStep ==
  ASSUME TypeOK, ControlInv, BatchInv, CountInv, Next
  PROVE  CountInv'
<1>1. Threads' = Threads /\ Trials' = Trials /\ setup \in Setups /\ trial \in 1..Trials
  BY SetupFixed, Fixed DEF TypeOK
<1>2. CASE UNCHANGED <<trial, main, counted, tx_msgs, publishers>>
  BY <1>1, <1>2 DEF CountInv, Numbers, publishers
<1>3. CASE Prepare \/ Judge
  BY <1>3 DEF Prepare, Judge, CountInv
<1>4. CASE Spawn
  <2>1. global_counter[trial] = 0 /\ Ahead(trial)
    BY <1>1, <1>4 DEF Spawn, ControlInv, Ahead
  <2>2. main' = "run" /\ counted' = {} /\ trial' = trial /\ global_counter' = global_counter
    BY <1>4 DEF Spawn, NewWorkers
  <2> QED BY <2>1, <2>2, FS_EmptySet DEF CountInv
<1>5. CASE Stop \/ Join
  BY <1>5 DEF Stop, Join, CountInv, history
<1>6. ASSUME NEW p \in Threads, PublisherSend(p) PROVE CountInv'
  <2>1. UNCHANGED <<trial, main, counted, tx_msgs, global_counter>>
    BY <1>6 DEF PublisherSend, control, history, results
  <2>2. PICK sent :
         /\ batch' = [batch EXCEPT ![p] = sent]
         /\ sent \cap Numbers(p[1]) = {} /\ sent \subseteq Numbers(p[1])'
         /\ ppc'[p] # "count" => sent = {}
         /\ \A r \in Threads : r # p => ppc'[r] = ppc[r]
         /\ \A t \in 1..Trials : Numbers(t) \subseteq Numbers(t)'
    BY <1>6, SendFacts
  <2>3. \A r \in Threads : batch'[r] = IF r = p THEN sent ELSE batch[r]
    BY <2>2 DEF TypeOK
  <2>4. \A t \in 1..Trials : Numbers(t) \subseteq 0..(global_seq'[t] - 1)
    BY <2>2 DEF Numbers
  <2>5. main = "run" =>
          /\ counted \subseteq 0..(global_seq'[trial] - 1)
          /\ \A r \in Threads : r[1] = trial => counted \cap batch'[r] = {}
    BY <1>1, <2>2, <2>3, <2>4 DEF CountInv
  <2> QED BY <1>1, <2>1, <2>5 DEF CountInv, Numbers
<1>7. ASSUME NEW p \in Threads, PublisherCount(p) PROVE CountInv'
  <2>1. UNCHANGED <<trial, main, tx_msgs, global_seq>>
    BY <1>7 DEF PublisherCount, control, results
  <2>2. \A r \in Threads : batch'[r] = IF r = p THEN {} ELSE batch[r]
    BY <1>7 DEF TypeOK, PublisherCount
  <2>3. CASE p[1] = trial /\ main = "run"
    <3>1. counted' = counted \cup batch[p]
      BY <1>7, <2>3 DEF PublisherCount
    <3>2. global_counter'[trial] = global_counter[trial] + Cardinality(batch[p])
      BY <1>1, <1>7, <2>3 DEF PublisherCount, SentCount, TypeOK
    <3>3. /\ Cardinality(counted) = global_counter[trial] /\ counted \subseteq Numbers(trial)
          /\ counted \cap batch[p] = {} /\ batch[p] \subseteq Numbers(trial)
      BY <2>3 DEF CountInv, BatchInv, BatchNumbers
    <3>4. IsFiniteSet(counted) /\ IsFiniteSet(batch[p])
      <4>1. MaxSeq - 1 \in Int
        BY <1>1, Sizes
      <4>2. IsFiniteSet(Seqs)
        BY <4>1, FS_Interval DEF Seqs
      <4>3. counted \in SUBSET Seqs /\ batch[p] \in SUBSET Seqs
        BY DEF TypeOK
      <4> QED BY <4>2, <4>3, FS_Subset
    <3>5. Cardinality(counted') = global_counter'[trial]
      BY <3>1, <3>2, <3>3, <3>4, DisjointUnion
    <3>6. counted' \subseteq Numbers(trial)
      BY <3>1, <3>3
    <3>7. \A r \in Threads : r[1] = trial => counted' \cap batch'[r] = {}
      BY <2>2, <2>3, <3>1 DEF CountInv, BatchInv, BatchesApart
    <3> QED BY <1>1, <2>1, <2>3, <3>5, <3>6, <3>7 DEF CountInv, Numbers
  <2>4. CASE ~(p[1] = trial /\ main = "run")
    <3>1. counted' = counted
      BY <1>7, <2>4 DEF PublisherCount
    <3>2. main = "run" => global_counter'[trial] = global_counter[trial]
      BY <1>1, <1>7, <2>4 DEF PublisherCount, TypeOK
    <3> QED BY <1>1, <2>1, <2>2, <3>1, <3>2 DEF CountInv, Numbers
  <2> QED BY <2>3, <2>4
<1>8. Next => \/ UNCHANGED <<trial, main, counted, tx_msgs, publishers>>
              \/ Prepare \/ Judge \/ Spawn \/ Stop \/ Join
              \/ \E p \in Threads : PublisherSend(p)
              \/ \E p \in Threads : PublisherCount(p)
  BY Cases DEF WorkerSubscribe, WorkerReceive, BrokerRequest, BrokerPublish, control, history, results
<1> QED BY <1>2, <1>3, <1>4, <1>5, <1>6, <1>7, <1>8

-----------------------------------------------------------------------------
(* ReceivedInv and TrackedInv.                                             *)

\* What a worker takes is new to it, and is the others' no business.
LEMMA TakenGrows ==
  ASSUME TypeOK, OnceInv, ReceivedInv, setup' = setup, NEW w \in Workers, NEW D, Takes(w, D)
  PROVE  /\ D \subseteq Datagrams
         /\ TakenBy(w)' = TakenBy(w) \cup D /\ TakenBy(w) \cap D = {}
         /\ \A x \in Workers : x # w => TakenBy(x)' = TakenBy(x)
<1>1. taken' = taken \cup D /\ D \subseteq net /\ D \subseteq Datagrams /\ taken \cap D = {}
  BY DEF Takes, TypeOK, OnceInv, TakenOnce
<1>2. \A d \in D : d.sub % sub_workers = w
  BY DEF Takes, ReceivedInv
<1>3. sub_workers' = sub_workers
  BY Fixed
<1>4. \A x : TakenBy(x)' = {d \in taken \cup D : d.sub % sub_workers = x}
  BY <1>1, <1>3 DEF TakenBy
<1>5. TakenBy(w)' = TakenBy(w) \cup D
  BY <1>2, <1>4 DEF TakenBy
<1>6. \A x \in Workers : x # w => TakenBy(x)' = TakenBy(x)
  BY <1>2, <1>4 DEF TakenBy
<1> QED BY <1>1, <1>5, <1>6 DEF TakenBy

LEMMA ReceivedNew ==
  ASSUME setup \in Setups, setup' = setup, NEW where, NewWorkers(where), main' # "judge"
  PROVE  ReceivedInv'
<1>1. Workers' = Workers /\ sub_workers' = sub_workers /\ taken' = {}
  BY Fixed DEF NewWorkers
<1>2. \A w \in Workers : w % sub_workers = w
  <2>1. \A a, n \in Nat : a < n => a % n = a
    OBVIOUS
  <2>2. \A w \in Workers : w \in Nat /\ w < sub_workers
    BY Sizes DEF Workers
  <2>3. sub_workers \in Nat
    BY Sizes
  <2> QED BY <2>1, <2>2, <2>3
<1>3. \A w : TakenBy(w)' = {}
  BY <1>1 DEF TakenBy
<1>4. \A w \in Workers : at'[w] = w /\ raw_received'[w] = 0
  BY DEF NewWorkers
<1> QED BY <1>1, <1>2, <1>3, <1>4, FS_EmptySet DEF ReceivedInv

LEMMA ReceivedReceive ==
  ASSUME TypeOK, ControlInv, OnceInv, ReceivedInv, NEW w \in Workers, WorkerReceive(w)
  PROVE  ReceivedInv'
<1>1. setup \in Setups /\ setup' = setup /\ main' = main
  BY DEF TypeOK, WorkerReceive, control
<1>2. Workers' = Workers /\ sub_workers' = sub_workers
  BY <1>1, Fixed
<1>3. main # "judge"
  BY DEF ControlInv, WorkerReceive, Ended
<1>4. PICK D : Takes(w, D)
  BY Taking
<1>5. /\ D \subseteq Datagrams
      /\ TakenBy(w)' = TakenBy(w) \cup D /\ TakenBy(w) \cap D = {}
      /\ \A x \in Workers : x # w => TakenBy(x)' = TakenBy(x)
  BY <1>1, <1>4, TakenGrows
<1>6. ASSUME NEW x \in Workers PROVE at'[x] % sub_workers = x
  <2>1. at'[x] = at[x] \/ at'[x] = x \/ at'[x] = at[x] + sub_workers
    BY DEF WorkerReceive, TypeOK
  <2>2. at[x] % sub_workers = x /\ at[x] \in Nat /\ x \in Nat /\ x < sub_workers
    <3>1. at[x] % sub_workers = x
      BY DEF ReceivedInv
    <3>2. at[x] \in Subs
      BY DEF TypeOK
    <3>3. Subs \subseteq Nat /\ Workers \subseteq Nat /\ sub_workers \in Nat
      BY <1>1, Sizes
    <3>4. x < sub_workers
      BY <3>3 DEF Workers
    <3> QED BY <3>1, <3>2, <3>3, <3>4
  <2>3. sub_workers \in Nat /\ sub_workers > 0
    BY <1>1, Sizes
  <2>4. x % sub_workers = x
    BY <2>2, <2>3
  <2>5. (at[x] + sub_workers) % sub_workers = x
    BY <2>2, <2>3, ModShift
  <2> QED BY <2>1, <2>2, <2>4, <2>5
<1>7. ASSUME NEW x \in Workers PROVE raw_received'[x] = Cardinality(TakenBy(x)')
  <2>1. raw_received'[x] = IF x = w THEN raw_received[w] + Cardinality(D) ELSE raw_received[x]
    BY <1>4 DEF Takes, TypeOK
  <2>2. CASE x = w
    <3>1. TakenBy(w) \subseteq Datagrams
      BY DEF TakenBy, TypeOK
    <3>2. IsFiniteSet(TakenBy(w)) /\ IsFiniteSet(D)
      BY <1>1, <1>5, <3>1, FiniteDatagrams
    <3>3. Cardinality(TakenBy(w) \cup D) = Cardinality(TakenBy(w)) + Cardinality(D)
      BY <1>5, <3>2, DisjointUnion
    <3> QED BY <1>5, <2>1, <2>2, <3>3 DEF ReceivedInv
  <2>3. CASE x # w
    BY <1>5, <2>1, <2>3 DEF ReceivedInv
  <2> QED BY <2>2, <2>3
<1>8. ASSUME NEW x \in Workers, wpc'[x] \in {"none", "subscribe", "panic"}
      PROVE  TakenBy(x)' = {}
  <2>1. x # w /\ wpc'[x] = wpc[x]
    BY <1>8 DEF WorkerReceive, Head, TypeOK
  <2> QED BY <1>5, <1>8, <2>1 DEF ReceivedInv
<1> QED BY <1>1, <1>2, <1>3, <1>6, <1>7, <1>8 DEF ReceivedInv

LEMMA ReceivedStep ==
  ASSUME TypeOK, ControlInv, OnceInv, ReceivedInv, Next
  PROVE  ReceivedInv'
<1>1. setup \in Setups /\ setup' = setup
  BY SetupFixed
<1>2. Workers' = Workers /\ sub_workers' = sub_workers
  BY <1>1, Fixed
<1>3. CASE UNCHANGED <<workers, taken>> /\ (main' = "judge" => main = "judge" /\ rx_msgs' = rx_msgs)
  BY <1>2, <1>3 DEF ReceivedInv, TakenBy, workers
<1>4. CASE Spawn \/ Judge
  BY <1>1, <1>4, ReceivedNew DEF Spawn, Judge
<1>5. CASE Join
  <2>1. \A w \in Workers : Ended(w)
    BY <1>5 DEF Join
  <2>2. rx_msgs' = Cardinality(taken)
    BY <1>5, <2>1, JoinReceived DEF Join
  <2> QED BY <1>2, <1>5, <2>2 DEF Join, ReceivedInv, TakenBy, workers, history
<1>6. ASSUME NEW w \in Workers, WorkerSubscribe(w) PROVE ReceivedInv'
  <2>1. UNCHANGED <<main, at, raw_received, taken>> /\ main # "judge"
    BY <1>6 DEF WorkerSubscribe, control, history, ControlInv, Ended
  <2>2. \A x \in Workers : x # w => wpc'[x] = wpc[x]
    BY <1>6 DEF WorkerSubscribe, TypeOK
  <2>3. TakenBy(w) = {}
    BY <1>6 DEF WorkerSubscribe, ReceivedInv
  <2> QED BY <1>2, <2>1, <2>2, <2>3 DEF ReceivedInv, TakenBy
<1>7. \/ UNCHANGED <<workers, taken>> /\ (main' = "judge" => main = "judge" /\ rx_msgs' = rx_msgs)
      \/ Spawn \/ Judge \/ Join
      \/ \E w \in Workers : WorkerSubscribe(w)
      \/ \E w \in Workers : WorkerReceive(w)
  BY Cases DEF Prepare, Stop, PublisherSend, PublisherCount, BrokerRequest, BrokerPublish,
       control, results, history
<1> QED BY <1>3, <1>4, <1>5, <1>6, <1>7, ReceivedReceive

\* Finite sets of sequence numbers.
LEMMA SeqsFinite ==
  ASSUME setup \in Setups, NEW T \in SUBSET Datagrams
  PROVE  IsFiniteSet(SeqsOf(T)) /\ Cardinality(SeqsOf(T)) \in Nat
<1>1. MaxSeq - 1 \in Int
  BY Sizes
<1>2. IsFiniteSet(Seqs)
  BY <1>1, FS_Interval DEF Seqs
<1>3. IsFiniteSet(Seqs \cup {0})
  BY <1>2, FS_AddElement
<1>4. SeqsOf(T) \in SUBSET (Seqs \cup {0})
  BY FieldTypes DEF SeqsOf
<1> QED BY <1>3, <1>4, FS_Subset, FS_CardinalityType

\* As long as there is room, the number of copies of a message is what it was
\* and what was taken.
LEMMA RoomForAll ==
  ASSUME TypeOK, TrackedInv, NEW w \in Workers, NEW D \in SUBSET Datagrams, Takes(w, D),
         ~sink, Cardinality(SeqsOf(taken \cup D)) <= MAX_TRACKED_PKTS
  PROVE  /\ \A x \in Workers : x # w => per_packet'[x] = per_packet[x]
         /\ \A q \in Seqs :
              per_packet'[w][q] = per_packet[w][q] + Cardinality(CopiesOf(q, D))
<1> DEFINE known == {q \in Seqs : per_packet[w][q] > 0}
           new   == {d.seq : d \in {c \in D : c.type = "COPY"}} \ known
           room  == Min({Cardinality(new), MAX_TRACKED_PKTS - Cardinality(known)})
           all   == SeqsOf(taken \cup D)
<1>1. setup \in Setups /\ taken \subseteq Datagrams /\ per_packet \in [Workers -> [Seqs -> Nat]]
  BY DEF TypeOK
<1>2. IsFiniteSet(all) /\ Cardinality(all) \in Nat /\ Cardinality(all) <= MAX_TRACKED_PKTS
  BY <1>1, SeqsFinite
<1>3. MAX_TRACKED_PKTS \in Nat
  BY TrialAssumption
<1>4. Cardinality(SeqsOf(taken)) <= MAX_TRACKED_PKTS
  <2>1. SeqsOf(taken) \in SUBSET all
    BY DEF SeqsOf
  <2>2. Cardinality(SeqsOf(taken)) \in Nat /\ Cardinality(SeqsOf(taken)) <= Cardinality(all)
    BY <1>1, <1>2, <2>1, SeqsFinite, FS_Subset
  <2> QED BY <1>2, <1>3, <2>2
<1>5. \A q \in Seqs : per_packet[w][q] = Cardinality(CopiesOf(q, TakenBy(w)))
  BY <1>4 DEF TrackedInv
<1>6. known \in SUBSET all
  <2> SUFFICES ASSUME NEW q \in Seqs, per_packet[w][q] > 0 PROVE q \in all
    OBVIOUS
  <2>1. CopiesOf(q, TakenBy(w)) # {}
    BY <1>5, FS_EmptySet
  <2> QED BY <2>1 DEF CopiesOf, TakenBy, SeqsOf
<1>7. new \in SUBSET all /\ new \cap known = {}
  BY DEF SeqsOf
<1>8. IsFiniteSet(known) /\ IsFiniteSet(new) /\ new \cup known \in SUBSET all
  BY <1>2, <1>6, <1>7, FS_Subset
<1> HIDE DEF all
<1>9. room = Cardinality(new)
  <2>1. Cardinality(new \cup known) = Cardinality(new) + Cardinality(known)
    BY <1>7, <1>8, DisjointUnion
  <2>2. Cardinality(new \cup known) <= Cardinality(all)
    BY <1>2, <1>8, FS_Subset
  <2>3. Cardinality(new) \in Nat /\ Cardinality(known) \in Nat
    BY <1>8, FS_CardinalityType
  <2>4. \A a, b \in Int : a <= b => Min({a, b}) = a
    <3> TAKE a, b \in Int
    <3> HAVE a <= b
    <3>1. \A x \in {a, b} : (\A y \in {a, b} : x <= y) <=> x = a
      OBVIOUS
    <3> QED BY <3>1 DEF Min
  <2>5. Cardinality(new) <= MAX_TRACKED_PKTS - Cardinality(known)
    BY <1>2, <1>3, <2>1, <2>2, <2>3
  <2> HIDE DEF new, known
  <2> QED BY <1>3, <2>3, <2>4, <2>5
<1>10. \E New \in kSubset(room, new) :
          per_packet' = [per_packet EXCEPT ![w] = Recorded(per_packet[w], D, New)]
  BY DEF Takes
<1> HIDE DEF room
<1>11. \A New \in kSubset(room, new) : New = new
  <2> TAKE New \in kSubset(room, new)
  <2>1. New \in SUBSET new /\ Cardinality(New) = Cardinality(new)
    BY <1>9 DEF kSubset
  <2> QED BY <1>8, <2>1, FS_Subset
<1>12. per_packet' = [per_packet EXCEPT ![w] = Recorded(per_packet[w], D, new)]
  BY <1>10, <1>11
<1>13. ASSUME NEW q \in Seqs
       PROVE  Recorded(per_packet[w], D, new)[q] = per_packet[w][q] + Cardinality(CopiesOf(q, D))
  <2>1. per_packet[w][q] \in Nat
    BY <1>1
  <2>2. Recorded(per_packet[w], D, new)[q] =
          IF per_packet[w][q] > 0 \/ q \in new
          THEN per_packet[w][q] + Cardinality(CopiesOf(q, D)) ELSE 0
    BY DEF Recorded, CopiesOf
  <2>3. CASE ~(per_packet[w][q] > 0 \/ q \in new)
    <3>1. CopiesOf(q, D) = {}
      BY <2>3 DEF CopiesOf
    <3> QED BY <2>1, <2>2, <2>3, <3>1, FS_EmptySet
  <2> QED BY <2>2, <2>3
<1> HIDE DEF new, known
<1>14. per_packet'[w] = Recorded(per_packet[w], D, new)
  BY <1>1, <1>12
<1>15. \A x \in Workers : x # w => per_packet'[x] = per_packet[x]
  BY <1>1, <1>12
<1> QED BY <1>13, <1>14, <1>15

LEMMA TrackedReceive ==
  ASSUME TypeOK, ControlInv, OnceInv, ReceivedInv, TrackedInv, NEW w \in Workers, WorkerReceive(w)
  PROVE  TrackedInv'
<1>1. setup \in Setups /\ setup' = setup /\ main' = main /\ trial' = trial
  BY DEF TypeOK, WorkerReceive, control
<1>2. Workers' = Workers /\ Seqs' = Seqs /\ Trials' = Trials /\ (sink' <=> sink)
  BY <1>1, Fixed DEF sink
<1>3. main # "judge"
  BY DEF ControlInv, WorkerReceive, Ended
<1>4. PICK D : Takes(w, D)
  BY Taking
<1>5. /\ D \subseteq Datagrams
      /\ TakenBy(w)' = TakenBy(w) \cup D /\ TakenBy(w) \cap D = {}
      /\ \A x \in Workers : x # w => TakenBy(x)' = TakenBy(x)
  BY <1>1, <1>4, TakenGrows
<1>6. taken' = taken \cup D
  BY <1>4 DEF Takes
<1> SUFFICES ASSUME ~sink, Cardinality(SeqsOf(taken \cup D)) <= MAX_TRACKED_PKTS,
                    NEW x \in Workers, NEW q \in Seqs
             PROVE  per_packet'[x][q] = Cardinality(CopiesOf(q, TakenBy(x)'))
  <2>1. SeqsOf(taken)' = SeqsOf(taken \cup D)
    BY <1>6 DEF SeqsOf
  <2>2. \A x, q : CopiesOf(q, TakenBy(x))' = CopiesOf(q, TakenBy(x)')
    BY DEF CopiesOf
  <2> QED BY <1>1, <1>2, <1>3, <2>1, <2>2 DEF TrackedInv
<1>7. Cardinality(SeqsOf(taken)) <= MAX_TRACKED_PKTS
  <2>1. taken \cup D \in SUBSET Datagrams /\ taken \in SUBSET Datagrams
    BY <1>5 DEF TypeOK
  <2>2. /\ IsFiniteSet(SeqsOf(taken \cup D)) /\ Cardinality(SeqsOf(taken \cup D)) \in Nat
        /\ Cardinality(SeqsOf(taken)) \in Nat
    BY <1>1, <2>1, SeqsFinite
  <2>3. SeqsOf(taken) \in SUBSET SeqsOf(taken \cup D)
    BY DEF SeqsOf
  <2>4. Cardinality(SeqsOf(taken)) <= Cardinality(SeqsOf(taken \cup D))
    BY <2>2, <2>3, FS_Subset
  <2> QED BY <2>2, <2>4, TrialAssumption
<1>8. per_packet[x][q] = Cardinality(CopiesOf(q, TakenBy(x)))
  BY <1>7 DEF TrackedInv
<1>9. CASE x # w
  BY <1>4, <1>5, <1>8, <1>9, RoomForAll
<1>10. CASE x = w
  <2>1. per_packet'[w][q] = per_packet[w][q] + Cardinality(CopiesOf(q, D))
    BY <1>4, <1>5, RoomForAll
  <2> DEFINE A == CopiesOf(q, TakenBy(w))
             B == CopiesOf(q, D)
  <2>2. A \subseteq Datagrams /\ B \subseteq Datagrams /\ A \cap B = {}
    BY <1>5 DEF CopiesOf, TakenBy, TypeOK
  <2>3. IsFiniteSet(A) /\ IsFiniteSet(B)
    BY <1>1, <2>2, FiniteDatagrams
  <2>4. CopiesOf(q, TakenBy(w)') = A \cup B
    BY <1>5 DEF CopiesOf
  <2>5. Cardinality(A \cup B) = Cardinality(A) + Cardinality(B)
    BY <2>2, <2>3, DisjointUnion
  <2> QED BY <1>8, <1>10, <2>1, <2>4, <2>5
<1> QED BY <1>9, <1>10

LEMMA TrackedNew ==
  ASSUME setup \in Setups, setup' = setup, NEW where, NewWorkers(where), main' # "judge"
  PROVE  TrackedInv'
<1>1. Workers' = Workers /\ Seqs' = Seqs /\ taken' = {}
  BY Fixed DEF NewWorkers
<1>2. \A w, q : CopiesOf(q, TakenBy(w))' = {}
  BY <1>1 DEF CopiesOf, TakenBy
<1>3. \A w \in Workers, q \in Seqs : per_packet'[w][q] = 0
  BY DEF NewWorkers
<1> QED BY <1>1, <1>2, <1>3, FS_EmptySet DEF TrackedInv

LEMMA TrackedStep ==
  ASSUME TypeOK, ControlInv, OnceInv, ReceivedInv, TrackedInv, Next
  PROVE  TrackedInv'
<1>1. setup \in Setups /\ setup' = setup
  BY SetupFixed
<1>2. /\ Workers' = Workers /\ sub_workers' = sub_workers /\ Seqs' = Seqs
      /\ subs' = subs /\ Trials' = Trials
  BY <1>1, Fixed
<1>3. CASE UNCHANGED <<trial, per_packet, taken>>
           /\ (main' = "judge" => main = "judge" /\ latencies' = latencies)
  BY <1>2, <1>3 DEF TrackedInv, TakenBy, CopiesOf, SeqsOf, sink, Sampled
<1>4. CASE Spawn \/ Judge
  BY <1>1, <1>4, TrackedNew DEF Spawn, Judge
<1>5. CASE Join
  <2>1. \A w \in Workers : Ended(w)
    BY <1>5 DEF Join
  <2>2. UNCHANGED <<trial, per_packet, taken>>
    BY <1>5 DEF Join, workers, history
  <2>3. ASSUME ~sink, Cardinality(SeqsOf(taken)) <= MAX_TRACKED_PKTS
        PROVE  latencies' = {q \in Seqs : Sampled(Cardinality(CopiesOf(q, taken)))}
    <3>1. \A q \in Seqs : Merged(q) = Cardinality(CopiesOf(q, taken))
      BY <2>1, <2>3, JoinMerged DEF TrackedInv
    <3> QED BY <1>5, <2>3, <3>1 DEF Join
  <2> QED BY <1>2, <2>2, <2>3 DEF TrackedInv, TakenBy, CopiesOf, SeqsOf, sink, Sampled
<1>6. \/ UNCHANGED <<trial, per_packet, taken>>
         /\ (main' = "judge" => main = "judge" /\ latencies' = latencies)
      \/ Spawn \/ Judge \/ Join
      \/ \E w \in Workers : WorkerReceive(w)
  BY Cases, Zenon DEF Prepare, Stop, WorkerSubscribe, PublisherSend, PublisherCount, BrokerRequest,
       BrokerPublish, control, workers, results, history
<1> QED BY <1>3, <1>4, <1>5, <1>6, TrackedReceive

-----------------------------------------------------------------------------
(* The invariant.                                                          *)

LEMMA InitInv == Init => IInv
<1> SUFFICES ASSUME Init PROVE IInv
  OBVIOUS
<1> USE DEF Init
<1>1. /\ setup \in Setups /\ Trials \in Nat /\ 1 \in 1..Trials /\ MaxSeq \in Nat
      /\ Workers \subseteq Subs /\ Workers \subseteq Nat /\ sub_workers \in Nat
  BY Sizes
<1>2. TypeOK
  <2>1. /\ wpc \in [Workers -> {"none", "subscribe", "receive", "done", "panic"}]
        /\ at \in [Workers -> Subs]
        /\ raw_received \in [Workers -> Nat]
        /\ per_packet \in [Workers -> [Seqs -> Nat]]
    BY <1>1
  <2>2. /\ ppc \in [Threads -> {"none", "loop", "count"}]
        /\ batch \in [Threads -> SUBSET Seqs]
        /\ global_seq \in [1..Trials -> 0..MaxSeq]
        /\ global_counter \in [1..Trials -> Nat]
        /\ \A t \in 1..Trials : global_counter[t] <= global_seq[t]
    BY <1>1
  <2> QED BY <1>1, <2>1, <2>2 DEF TypeOK
<1>3. ControlInv /\ StoppedInv
  BY <1>1 DEF ControlInv, Idle, Ahead, StoppedInv
<1>4. OriginInv /\ OnceInv
  BY DEF OriginInv, OnceInv, TakenOnce, CauseGone, NotYetAsked
<1>5. BatchInv
  <2>1. BatchNumbers /\ BatchesApart
    BY DEF BatchNumbers, BatchesApart
  <2>2. CounterApart
    BY FS_EmptySet DEF CounterApart
  <2> QED BY <2>1, <2>2 DEF BatchInv
<1>6. CountInv
  BY DEF CountInv
<1>7. \A w : TakenBy(w) = {}
  BY DEF TakenBy
<1>8. ReceivedInv
  <2>1. \A a, n \in Nat : a < n => a % n = a
    OBVIOUS
  <2>2. \A w \in Workers : w \in Nat /\ w < sub_workers
    BY <1>1 DEF Workers
  <2>3. \A w \in Workers : at[w] % sub_workers = w
    BY <1>1, <2>1, <2>2
  <2> QED BY <1>7, <2>3, FS_EmptySet DEF ReceivedInv
<1>9. TrackedInv
  <2>1. \A w, q : CopiesOf(q, TakenBy(w)) = {}
    BY <1>7 DEF CopiesOf
  <2> QED BY <2>1, FS_EmptySet DEF TrackedInv
<1> QED BY <1>2, <1>3, <1>4, <1>5, <1>6, <1>8, <1>9 DEF IInv

LEMMA StutterInv ==
  ASSUME IInv, UNCHANGED vars
  PROVE  IInv'
<1>1. UNCHANGED <<setup, trial, main, running, wpc, at, raw_received, per_packet, ppc, batch,
                  global_seq, global_counter, net, registered, members, tx_msgs, rx_msgs,
                  latencies, taken, counted>>
  BY DEF vars, control, workers, publishers, broker, results, history
<1>2. /\ Workers' = Workers /\ Subs' = Subs /\ Seqs' = Seqs /\ Threads' = Threads
      /\ Trials' = Trials /\ Datagrams' = Datagrams /\ sub_workers' = sub_workers
      /\ MaxSeq' = MaxSeq /\ subs' = subs
  BY <1>1, Fixed
<1>3. TypeOK' /\ ControlInv' /\ StoppedInv'
  BY <1>1, <1>2 DEF IInv, TypeOK, ControlInv, Idle, Ahead, Ended, StoppedInv
<1>4. OriginInv' /\ OnceInv'
  BY <1>1, <1>2 DEF IInv, OriginInv, Origin, Ahead, OnceInv, TakenOnce, CauseGone, NotYetAsked, Group
<1>5. BatchInv' /\ CountInv'
  BY <1>1, <1>2 DEF IInv, BatchInv, BatchNumbers, BatchesApart, CounterApart, CountInv, Numbers
<1>6. ReceivedInv' /\ TrackedInv'
  BY <1>1, <1>2 DEF IInv, ReceivedInv, TrackedInv, TakenBy, CopiesOf, SeqsOf, sink, Sampled
<1> QED BY <1>3, <1>4, <1>5, <1>6 DEF IInv

LEMMA StepInv == IInv /\ [Next]_vars => IInv'
<1> SUFFICES ASSUME IInv, [Next]_vars PROVE IInv'
  OBVIOUS
<1>1. CASE Next
  BY <1>1, TypesStep, ControlStep, StoppedStep, OriginStep, OnceStep, BatchStep, CountStep, ReceivedStep,
     TrackedStep DEF IInv
<1>2. CASE UNCHANGED vars
  BY <1>2, StutterInv
<1> QED BY <1>1, <1>2

\* The invariant holds in every state of every run of the benchmark.
THEOREM Invariance == Spec => []IInv
  BY InitInv, StepInv, PTL DEF Spec

\* Variables have their types, and a publisher's counter, also of one that outlives
\* its trial, never runs ahead of the numbers it has given out.
THEOREM TrialTypes == Spec => []TypeOK
<1>1. IInv => TypeOK
  BY DEF IInv
<1> QED BY <1>1, Invariance, PTL

-----------------------------------------------------------------------------
(* What a verdict and a sample are worth.                                  *)

LEMMA UnionBound ==
  ASSUME NEW A, NEW B, IsFiniteSet(A), IsFiniteSet(B)
  PROVE  /\ IsFiniteSet(A \cup B) /\ Cardinality(A \cup B) \in Nat
         /\ Cardinality(A \cup B) <= Cardinality(A) + Cardinality(B)
<1>1. IsFiniteSet(A \cup B) /\ IsFiniteSet(A \cap B)
  BY FS_Union, FS_Intersection
<1>2. /\ Cardinality(A) \in Nat /\ Cardinality(B) \in Nat
      /\ Cardinality(A \cap B) \in Nat /\ Cardinality(A \cup B) \in Nat
  BY <1>1, FS_CardinalityType
<1>3. Cardinality(A \cup B) = Cardinality(A) + Cardinality(B) - Cardinality(A \cap B)
  BY FS_Union
<1> QED BY <1>1, <1>2, <1>3

\* The copies that a trial owes: one for every counted message and subscriber.
LEMMA Owed ==
  ASSUME TypeOK, CountInv, main = "judge"
  PROVE  /\ IsFiniteSet(counted \X Subs) /\ IsFiniteSet(Subs) /\ Cardinality(Subs) = subs
         /\ IsFiniteSet(counted)
         /\ Cardinality(counted \X Subs) = tx_msgs * subs
<1>1. setup \in Setups /\ counted \in SUBSET Seqs
  BY DEF TypeOK
<1>2. MaxSeq - 1 \in Int /\ subs \in Nat /\ subs > 0
  BY <1>1, Sizes
<1>3. IsFiniteSet(Seqs)
  BY <1>2, FS_Interval DEF Seqs
<1>4. IsFiniteSet(Subs) /\ Cardinality(Subs) = subs
  <2>1. \A n \in Nat : IsFiniteSet(0..(n - 1)) /\ Cardinality(0..(n - 1)) = n
    BY FS_Interval
  <2> QED BY <1>2, <2>1 DEF Subs
<1>5. IsFiniteSet(counted)
  BY <1>1, <1>3, FS_Subset
<1>6. /\ IsFiniteSet(counted \X Subs)
      /\ Cardinality(counted \X Subs) = Cardinality(counted) * Cardinality(Subs)
  BY <1>4, <1>5, FS_Product
<1>7. tx_msgs = Cardinality(counted)
  BY DEF CountInv
<1> QED BY <1>4, <1>5, <1>6, <1>7

LEMMA OwnFields ==
  ASSUME TypeOK, NEW q \in Seqs, NEW s \in Subs
  PROVE  /\ Own(q, s) \in Datagrams
         /\ Own(q, s).type = "COPY" /\ Own(q, s).trial = trial
         /\ Own(q, s).sub = s /\ Own(q, s).seq = q
  BY Made, MadeOf DEF Own, TypeOK

\* A copy of this trial is the own copy of its subscriber.
LEMMA IsOwn ==
  ASSUME TypeOK, NEW d \in Datagrams, d.type = "COPY", d.trial = trial, d.seq \in Seqs
  PROVE  d = Own(d.seq, d.sub)
<1>1. d.sub \in Subs
  BY FieldTypes DEF TypeOK
<1> QED BY <1>1, OwnFields, SameFields

LEMMA HidesNoMore == IInv => HiddenLoss
<1> SUFFICES ASSUME IInv, main = "judge", Pass
             PROVE  Cardinality(Missing) <=
                      Cardinality(Acks) + Cardinality(Late) + Cardinality(Uncounted)
  BY DEF HiddenLoss
<1>1. TypeOK /\ CountInv /\ setup \in Setups /\ taken \subseteq Datagrams /\ counted \subseteq Seqs
  BY DEF IInv, TypeOK
<1>2. tx_msgs * subs <= Cardinality(taken)
  BY DEF Pass, expected_rx, IInv, ReceivedInv
<1> DEFINE Had == (counted \X Subs) \ Missing
           CC == {d \in taken : d.trial = trial /\ d.type = "COPY" /\ d.seq \in counted}
           f == [d \in CC |-> <<d.seq, d.sub>>]
<1>3. /\ IsFiniteSet(Missing) /\ Cardinality(Missing) \in Nat
      /\ IsFiniteSet(Had) /\ Cardinality(Had) \in Nat
      /\ tx_msgs * subs = Cardinality(Missing) + Cardinality(Had)
  <2>1. IsFiniteSet(counted \X Subs) /\ Cardinality(counted \X Subs) = tx_msgs * subs
    BY <1>1, Owed
  <2>2. Missing \in SUBSET (counted \X Subs) /\ Had \in SUBSET (counted \X Subs)
    BY DEF Missing
  <2>3. IsFiniteSet(Missing) /\ IsFiniteSet(Had)
    BY <2>1, <2>2, FS_Subset
  <2>4. Missing \cup Had = counted \X Subs /\ Missing \cap Had = {}
    BY <2>2
  <2>5. Cardinality(Missing \cup Had) = Cardinality(Missing) + Cardinality(Had)
    BY <2>3, <2>4, DisjointUnion
  <2> QED BY <2>1, <2>3, <2>4, <2>5, FS_CardinalityType
<1>4. Cardinality(CC) <= Cardinality(Had)
  <2>1. ASSUME NEW d \in CC PROVE <<d.seq, d.sub>> \in Had /\ d = Own(d.seq, d.sub)
    <3>1. d \in Datagrams /\ d.seq \in Seqs /\ d.sub \in Subs /\ d.seq \in counted
      BY <1>1, FieldTypes
    <3>2. d = Own(d.seq, d.sub)
      BY <1>1, <3>1, IsOwn
    <3> QED BY <3>1, <3>2 DEF Missing
  <2>2. f \in Injection(CC, Had)
    <3>1. f \in [CC -> Had]
      BY <2>1
    <3>2. ASSUME NEW c \in CC, NEW d \in CC, f[c] = f[d] PROVE c = d
      <4>1. c.seq = d.seq /\ c.sub = d.sub
        BY <3>2
      <4> HIDE DEF CC, Had
      <4> QED BY <2>1, <4>1
    <3> QED BY <3>1, <3>2 DEF Injection, IsInjective
  <2> QED BY <1>3, <2>2, FS_Injection
<1>5. /\ taken = ((Acks \cup Late) \cup Uncounted) \cup CC
      /\ Acks \subseteq taken /\ Late \subseteq taken /\ Uncounted \subseteq taken /\ CC \subseteq taken
  BY DEF Acks, Late, Uncounted, IInv, OnceInv, TakenOnce
<1>6. /\ IsFiniteSet(Acks) /\ IsFiniteSet(Late) /\ IsFiniteSet(Uncounted) /\ IsFiniteSet(CC)
      /\ {Cardinality(Acks), Cardinality(Late), Cardinality(Uncounted), Cardinality(CC)} \subseteq Nat
  BY <1>1, <1>5, FiniteDatagrams
<1> HIDE DEF CC, Had
<1>7. Cardinality(taken) <=
        ((Cardinality(Acks) + Cardinality(Late)) + Cardinality(Uncounted)) + Cardinality(CC)
  <2>1. /\ IsFiniteSet(Acks \cup Late) /\ Cardinality(Acks \cup Late) \in Nat
        /\ Cardinality(Acks \cup Late) <= Cardinality(Acks) + Cardinality(Late)
    BY <1>6, UnionBound
  <2>2. /\ IsFiniteSet((Acks \cup Late) \cup Uncounted)
        /\ Cardinality((Acks \cup Late) \cup Uncounted) \in Nat
        /\ Cardinality((Acks \cup Late) \cup Uncounted)
             <= Cardinality(Acks \cup Late) + Cardinality(Uncounted)
    BY <1>6, <2>1, UnionBound
  <2>3. /\ Cardinality(taken) \in Nat
        /\ Cardinality(taken) <= Cardinality((Acks \cup Late) \cup Uncounted) + Cardinality(CC)
    BY <1>5, <1>6, <2>2, UnionBound
  <2> QED BY <1>6, <2>1, <2>2, <2>3
<1>8. Cardinality(taken) \in Nat
  BY <1>1, FiniteDatagrams
<1> QED BY <1>2, <1>3, <1>4, <1>6, <1>7, <1>8

LEMMA AlarmsAreTrue == IInv => NoFalseAlarm
<1> SUFFICES ASSUME IInv, main = "judge", counted # {}, Missing = {} PROVE Pass
  BY DEF NoFalseAlarm
<1>1. TypeOK /\ CountInv /\ setup \in Setups /\ taken \subseteq Datagrams /\ counted \subseteq Seqs
  BY DEF IInv, TypeOK
<1>2. /\ IsFiniteSet(counted) /\ IsFiniteSet(taken)
      /\ Cardinality(counted \X Subs) = tx_msgs * subs /\ tx_msgs = Cardinality(counted)
  BY <1>1, Owed, FiniteDatagrams DEF CountInv
<1>3. tx_msgs \in Nat /\ tx_msgs # 0 /\ subs \in Nat /\ subs # 0
  BY <1>1, <1>2, Sizes, FS_CardinalityType, FS_EmptySet
<1>4. tx_msgs * subs > 0
  BY <1>3
<1> DEFINE f == [m \in counted \X Subs |-> Own(m[1], m[2])]
<1>5. f \in Injection(counted \X Subs, taken)
  <2>1. f \in [counted \X Subs -> taken]
    BY DEF Missing
  <2>2. ASSUME NEW m \in counted \X Subs, NEW n \in counted \X Subs, f[m] = f[n]
        PROVE  m = n
    <3>1. /\ Own(m[1], m[2]).seq = m[1] /\ Own(m[1], m[2]).sub = m[2]
          /\ Own(n[1], n[2]).seq = n[1] /\ Own(n[1], n[2]).sub = n[2]
      BY <1>1, OwnFields
    <3>2. m[1] = n[1] /\ m[2] = n[2]
      BY <2>2, <3>1
    <3> QED BY <3>2
  <2> QED BY <2>1, <2>2 DEF Injection, IsInjective
<1>6. Cardinality(counted \X Subs) <= Cardinality(taken)
  BY <1>2, <1>5, FS_Injection
<1>7. rx_msgs = Cardinality(taken)
  BY DEF IInv, ReceivedInv
<1> QED BY <1>2, <1>4, <1>6, <1>7 DEF Pass, expected_rx

LEMMA SamplesAreExact == IInv => SampleExact
<1> SUFFICES ASSUME IInv, main = "judge", ~sink,
                    Cardinality({d.seq : d \in taken}) <= MAX_TRACKED_PKTS,
                    NEW q \in Seqs, \A d \in Late : ~(d.type = "COPY" /\ d.seq = q)
             PROVE  q \in latencies <=> \A s \in Subs : Own(q, s) \in taken
  BY DEF SampleExact
<1> DEFINE A == CopiesOf(q, taken)
           f == [d \in A |-> d.sub]
<1>1. TypeOK /\ CountInv /\ setup \in Setups /\ taken \subseteq Datagrams
  BY DEF IInv, TypeOK
<1>2. q \in latencies <=> Cardinality(A) = subs
  BY DEF IInv, TrackedInv, SeqsOf, Sampled
<1>3. ASSUME NEW d \in A PROVE d.sub \in Subs /\ d = Own(q, d.sub) /\ d \in taken
  <2>1. d \in taken /\ d.type = "COPY" /\ d.seq = q /\ d.trial = trial
    BY DEF CopiesOf, Late
  <2> QED BY <1>1, <2>1, IsOwn, FieldTypes
<1>4. \A s \in Subs : Own(q, s) \in taken => Own(q, s) \in A /\ Own(q, s).sub = s
  BY <1>1, OwnFields DEF CopiesOf
<1>5. IsFiniteSet(Subs) /\ Cardinality(Subs) = subs
  BY <1>1, Owed
<1>6. f \in Injection(A, Subs)
  <2>1. f \in [A -> Subs]
    BY <1>3
  <2>2. ASSUME NEW c \in A, NEW d \in A, f[c] = f[d] PROVE c = d
    <3>1. c.sub = d.sub
      BY <2>2
    <3> HIDE DEF A
    <3> QED BY <1>3, <3>1
  <2> QED BY <2>1, <2>2 DEF Injection, IsInjective
<1>7. Cardinality(A) = Cardinality(Subs) <=> f \in Surjection(A, Subs)
  BY <1>5, <1>6, FS_Injection
<1> HIDE DEF A
<1>8. f \in Surjection(A, Subs) <=> \A s \in Subs : \E d \in A : d.sub = s
  <2>1. f \in [A -> Subs]
    BY <1>3
  <2> QED BY <2>1 DEF Surjection
<1>9. (\A s \in Subs : \E d \in A : d.sub = s) <=> \A s \in Subs : Own(q, s) \in taken
  BY <1>3, <1>4
<1> QED BY <1>2, <1>5, <1>7, <1>8, <1>9

\* A PASS at zero tolerance hides no more losses than there were SUBACKs, late
\* datagrams and copies of messages sent but not counted in time.
THEOREM PassMeans == Spec => []HiddenLoss
  BY Invariance, HidesNoMore, PTL

\* find_ndr fails no trial in which every counted message reached every subscriber.
THEOREM FailMeans == Spec => []NoFalseAlarm
  BY Invariance, AlarmsAreTrue, PTL

\* A message has a latency sample exactly when every subscriber received its copy,
\* unless a late copy has the same number or a worker lost track.
THEOREM SampleMeans == Spec => []SampleExact
  BY Invariance, SamplesAreExact, PTL

-----------------------------------------------------------------------------
(* Trials run down.                                                        *)

LEMMA MainRuns ==
  ASSUME IInv, MainStep
  PROVE  MainRank' < MainRank
<1>1. Next
  BY DEF Next
<1>2. setup \in Setups /\ setup' = setup /\ Trials' = Trials
  BY <1>1, SetupFixed, Fixed DEF IInv
<1>3. Trials \in Nat /\ trial \in Nat /\ trial <= Trials
  BY <1>2, Sizes DEF IInv, TypeOK
<1>4. CASE Prepare \/ Spawn \/ Stop \/ Join
  <2>1. trial' = trial
    BY <1>4 DEF Prepare, Spawn, Stop, Join
  <2>2. \/ main = "prepare" /\ main' = "spawn"
        \/ main = "spawn" /\ main' = "run"
        \/ main = "run" /\ main' = "join"
        \/ main = "join" /\ main' = "judge"
    BY <1>4 DEF Prepare, Spawn, Stop, Join
  <2> QED BY <1>2, <1>3, <2>1, <2>2 DEF MainRank
<1>5. CASE Judge
  <2>1. main = "judge" /\ (trial < Trials => main' = "prepare" /\ trial' = trial + 1)
        /\ (~(trial < Trials) => main' = "end" /\ trial' = trial)
    BY <1>5 DEF Judge
  <2> QED BY <1>2, <1>3, <2>1 DEF MainRank
<1> QED BY <1>4, <1>5 DEF MainStep

LEMMA MainAlone ==
  ASSUME IInv, [Next]_vars, ~MainStep
  PROVE  MainRank' = MainRank
<1>1. UNCHANGED control
  BY Cases DEF MainStep, WorkerSubscribe, WorkerReceive, PublisherSend, PublisherCount,
               BrokerRequest, BrokerPublish, vars
<1>2. UNCHANGED <<setup, trial, main>>
  BY <1>1 DEF control
<1> QED BY <1>2 DEF MainRank, Trials

\* What a worker does once it is told to stop.
LEMMA WorkerRuns ==
  ASSUME IInv, main = "join", NEW w \in Workers, WorkerStep(w)
  PROVE  /\ WorkerRank(w)' < WorkerRank(w)
         /\ \A v \in Workers : v # w => WorkerRank(v)' = WorkerRank(v)
<1>1. Next
  BY DEF Next
<1>2. setup \in Setups /\ setup' = setup /\ subs' = subs /\ sub_workers' = sub_workers
  BY <1>1, SetupFixed, Fixed DEF IInv
<1>3. /\ subs \in Nat /\ sub_workers \in Nat \ {0} /\ at \in [Workers -> 0..(subs - 1)]
      /\ wpc \in [Workers -> {"none", "subscribe", "receive", "done", "panic"}]
  BY <1>2, Sizes DEF IInv, TypeOK, Subs
<1>4. Head(w) = "done"
  BY DEF Head, IInv, StoppedInv
<1>5. CASE WorkerSubscribe(w)
  <2>1. /\ wpc[w] = "subscribe" /\ at' = at /\ wpc'[w] \in {"done", "panic"}
        /\ \A v \in Workers : v # w => wpc'[v] = wpc[v]
    BY <1>3, <1>4, <1>5 DEF WorkerSubscribe
  <2> QED BY <1>2, <2>1 DEF WorkerRank
<1>6. CASE WorkerReceive(w)
  <2>1. /\ wpc[w] = "receive"
        /\ \A v \in Workers : v # w => wpc'[v] = wpc[v] /\ at'[v] = at[v]
        /\ \/ wpc'[w] = "receive" /\ at'[w] = at[w] + sub_workers
           \/ wpc'[w] = "done"
    BY <1>3, <1>4, <1>6 DEF WorkerReceive
  <2>2. at[w] \in Nat /\ at[w] < subs
    BY <1>3
  <2>3. WorkerRank(w)' < WorkerRank(w)
    BY <1>2, <1>3, <2>1, <2>2 DEF WorkerRank
  <2> QED BY <1>2, <2>1, <2>3 DEF WorkerRank
<1> QED BY <1>5, <1>6 DEF WorkerStep

LEMMA WorkerWaits ==
  ASSUME IInv, [Next]_vars, main = "join", \A w \in Workers : ~WorkerStep(w)
  PROVE  \A w \in Workers : WorkerRank(w)' = WorkerRank(w)
<1>1. Join \/ ~MainStep
  BY DEF MainStep, Prepare, Spawn, Stop, Judge
<1>2. UNCHANGED workers
  BY <1>1, Cases DEF MainStep, WorkerStep, Join, PublisherSend, PublisherCount, BrokerRequest,
                     BrokerPublish, vars
<1>3. setup' = setup
  BY SetupFixed DEF IInv, vars, control
<1> QED BY <1>2, <1>3 DEF workers, WorkerRank, subs

\* Main takes at most five steps for every trial, and each worker at most as many as
\* there are subscribers from the moment main waits for it.
RanksBounded ==
  /\ MainRank \in 0..(5 * Trials)
  /\ \A w \in Workers : WorkerRank(w) \in 0..subs

LEMMA RanksTyped == IInv => RanksBounded
<1> SUFFICES ASSUME IInv PROVE RanksBounded
  OBVIOUS
<1>1. /\ {subs, Trials} \subseteq Nat \ {0} /\ trial \in 1..Trials
      /\ at \in [Workers -> 0..(subs - 1)]
  BY Sizes DEF IInv, TypeOK, Subs
<1>2. MainRank \in 0..(5 * Trials)
  BY <1>1 DEF MainRank
<1>3. ASSUME NEW w \in Workers PROVE WorkerRank(w) \in 0..subs
  <2>1. at[w] \in 0..(subs - 1)
    BY <1>1
  <2> QED BY <1>1, <2>1 DEF WorkerRank
<1> QED BY <1>2, <1>3 DEF RanksBounded

\* find_ndr's trials run down: main goes forward only, and once it has cleared the
\* running flag no worker stays in its receive loop, however many datagrams keep coming.
THEOREM RunsDown == Spec => Progress /\ []RanksBounded
<1>1. ASSUME IInv, [Next]_vars, main = "join", NEW w \in Workers
      PROVE  /\ WorkerStep(w) => WorkerRank(w)' < WorkerRank(w)
             /\ WorkerRank(w)' <= WorkerRank(w)
  <2>1. WorkerRank(w) \in Int
    BY <1>1, RanksTyped DEF RanksBounded
  <2>2. CASE \A v \in Workers : ~WorkerStep(v)
    BY <1>1, <2>1, <2>2, WorkerWaits
  <2>3. ASSUME NEW v \in Workers, WorkerStep(v)
        PROVE  WorkerRank(w)' <= WorkerRank(w)
    <3>1. CASE v = w
      <4>1. WorkerRank(w)' < WorkerRank(w)
        BY <1>1, <2>3, <3>1, WorkerRuns
      <4>2. WorkerRank(w)' \in Int
        <5>1. IInv'
          BY <1>1, StepInv
        <5>2. RanksBounded'
          BY <5>1, RanksTyped, PTL
        <5>3. setup \in Setups /\ subs' = subs /\ Workers' = Workers
          <6>1. Next
            BY <2>3 DEF Next
          <6> QED BY <1>1, <6>1, SetupFixed, Fixed DEF IInv
        <5>4. subs \in Nat
          BY <5>3, Sizes
        <5> QED BY <5>2, <5>3, <5>4 DEF RanksBounded
      <4> QED BY <2>1, <4>1, <4>2
    <3>2. CASE v # w
      BY <1>1, <2>1, <2>3, <3>2, WorkerRuns
    <3> QED BY <3>1, <3>2
  <2> QED BY <1>1, <2>2, <2>3, WorkerRuns
<1>2. IInv /\ [Next]_vars =>
        [/\ MainStep => MainRank' < MainRank
         /\ MainStep \/ MainRank' = MainRank
         /\ main = "join" => \A w \in Workers :
              /\ WorkerStep(w) => WorkerRank(w)' < WorkerRank(w)
              /\ WorkerRank(w)' <= WorkerRank(w)]_vars
  BY <1>1, MainRuns, MainAlone
<1> QED BY <1>2, Invariance, RanksTyped, PTL DEF Spec, Progress

=============================================================================
