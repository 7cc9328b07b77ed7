---------------------------- MODULE PacketPathInv ----------------------------
(***************************************************************************)
(* The inductive invariant of the packet path: what the key read so far    *)
(* stands for, what the sum of compute_udp_checksum has covered, and what  *)
(* the walk has left alone in the skb it rewrites for one subscriber after *)
(* the other.                                                              *)
(***************************************************************************)
EXTENDS PacketPath

\* Where the topic begins.
Topic == Payload + Len(Prefix)

\* The packet is still the one that came in, and nothing was sent.
Untouched == skb = frame.bytes /\ copies = << >> /\ csum = 0

\* How far the packet has come when it is in a given function.
ControlInv ==
  /\ pc \in {"parse", "extract", "lookup", "rewrite", "tc"} => Untouched /\ ~bad
  /\ pc \notin {"parse", "pass"} => Parses(frame)
  /\ pc \in {"parse", "rewrite", "tc"} => i = 0
  /\ pc \in {"rewrite", "udp"} => Len(route) = 1 /\ copies = << >>
  /\ pc = "udp" => csum <= (i + 6) * (U16 - 1)
  /\ pc = "walk" => Len(copies) <= i

\* n characters of the topic were read, none of them ends it.
Read(n) ==
  \A k \in DOMAIN topic_id :
    IF k < n
    THEN /\ Topic + k < Len(frame.bytes)
         /\ topic_id[k] = frame.bytes[Topic + k + 1]
         /\ topic_id[k] \notin KernelStops
    ELSE topic_id[k] = NUL

\* The key is the topic up to its end, or as much of it as fits before a NUL.
KeyInv ==
  /\ pc = "parse" => topic_id = EmptyKey
  /\ pc = "extract" => Read(i)
  /\ pc \notin {"parse", "extract", "pass"} =>
       \E n \in 0..(MAX_TOPIC_ID_CHARS - 1) :
         /\ Read(n)
         /\ \/ n = MAX_TOPIC_ID_CHARS - 1
            \/ Topic + n < Len(frame.bytes) /\ frame.bytes[Topic + n + 1] \in KernelStops

\* The sum covers the pseudo header and the words before the i-th one.
SumInv ==
  pc = "udp" =>
    /\ skb = Readdressed(frame.bytes, route[1])
    /\ Udp + 2 * i <= Len(skb)
    /\ 2 * i <= Length(skb) + 1
    /\ csum = PseudoHeader(skb)
                + SumFunction([k \in 0..(i - 1) |-> Word(skb, Udp + 2 * k)])

\* A packet from the broker: the source is what the destination was, and length
\* and payload are those of the PUBLISH.
FromTheBroker(p) ==
  LET q == frame.bytes IN
  /\ \A k \in (Saddr + 1)..(Saddr + 4) : p[k] = q[k + 4]
  /\ \A k \in (Source + 1)..(Source + 2) : p[k] = q[k + 2]
  /\ \A k \in (UdpLen + 1)..(UdpLen + 2) : p[k] = q[k]
  /\ \A k \in (Payload + 1)..Len(q) : p[k] = q[k]

\* What tc_ingress_broker and callback_fn keep of the skb, and that its checksums are
\* right as long as no helper failed.
WalkInv ==
  pc \in {"walk", "shot"} =>
    /\ FromTheBroker(skb)
    /\ ~bad /\ Trusted(frame.bytes) => Verifies(skb)

\* The key, the sum and the skb of every packet, at every step of both programs: the
\* invariant that is inductive and implies the properties of PacketPath.
IInv ==
  TypeOK /\ ControlInv /\ KeyInv /\ SumInv /\ WalkInv /\ TxVerifies /\ WalkVerifies

=============================================================================
