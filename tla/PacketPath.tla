----------------------------- MODULE PacketPath -----------------------------
(***************************************************************************)
(* One PUBLISH, byte for byte, through the programs of bpf_broker_kern.c:  *)
(* parse_udp_packet, starts_with, extract_topic_id, and then one of the    *)
(* two ways to readdress it.  xdp_broker rewrites the headers and computes *)
(* both checksums from nothing; tc_ingress_broker and callback_fn rewrite  *)
(* one skb again and again, for one subscriber after the other, and let    *)
(* the kernel's helpers correct the checksums by the difference.  The      *)
(* program of bpf_broker_xdp has the same functions with a longer loop and *)
(* treats every clone as xdp_broker does here.                             *)
(*                                                                         *)
(* HashBroker and CloneBroker speak of topic keys and of intact and        *)
(* spoiled copies.  This module is about what those stand for: the key the *)
(* programs read against the key the daemon stored, and the checksums the  *)
(* subscriber's kernel verifies.                                           *)
(***************************************************************************)
EXTENDS Integers, Sequences, FiniteSetsExt

CONSTANTS
  MAX_TOPIC_ID_CHARS,  \* size of a topic key (20)
  MaxWords,            \* rounds of the loop of compute_udp_checksum (128, 1024)
  Prefix,              \* the bytes of "PUBLISH "
  Ports,               \* destination ports of the broker (49152..49167)
  Frames,              \* frames: is it IPv4, and the bytes after the Ethernet header
  Routes,              \* the subscribers of a topic: sequences of addresses
  Names,               \* topic names of clients that use plain characters
  MaxFaults            \* bound: helpers that fail while one packet is handled

Byte == 0..255
U16 == 65536

\* Characters that end a topic: for the daemon, for the programs.
NUL == 0
NL == 10
CR == 13
SPACE == 32
DaemonStops == {NUL, NL, CR}
KernelStops == {SPACE, NUL, NL}

Address == [ip : [1..4 -> Byte], port : [1..2 -> Byte]]

ASSUME SizesAssumption ==
  MAX_TOPIC_ID_CHARS \in Nat \ {0} /\ MaxWords \in Nat /\ MaxFaults \in Nat

ASSUME BytesAssumption ==
  /\ Prefix \in Seq(Byte)
  /\ Frames \subseteq [ipv4 : BOOLEAN, bytes : Seq(Byte)]
  /\ \A r \in Routes : r \in Seq(Address)
  /\ Names \subseteq Seq(Byte \ (DaemonStops \cup KernelStops))

VARIABLES
  pc,        \* the function the packet is in, or its verdict
  frame,     \* the frame as it came in
  skb,       \* its bytes after the Ethernet header, as rewritten so far
  i,         \* loop variable
  topic_id,  \* the key being extracted
  csum,      \* the sum of compute_udp_checksum
  route,     \* the subscribers the maps hold under the key
  copies,    \* what was transmitted: to whom and the bytes
  bad,       \* a checksum helper failed in the walk, as in HashBroker
  faults     \* helpers that failed

vars == <<pc, frame, skb, i, topic_id, csum, route, copies, bad, faults>>

-----------------------------------------------------------------------------
(* Bytes of a packet, by offset from the IP header.                        *)

Protocol == 9
IpCheck == 10
Saddr == 12
Daddr == 16
Udp == 20
Source == 20
Dest == 22
UdpLen == 24
UdpCheck == 26
Payload == 28

\* A 16-bit word as a little-endian machine reads it.
Word(p, o) == p[o + 1] + 256 * p[o + 2]
Ntohs(p, o) == 256 * p[o + 1] + p[o + 2]

\* The bytes of s written at offset o.
Write(p, o, s) == [k \in DOMAIN p |-> IF k - o \in DOMAIN s THEN s[k - o] ELSE p[k]]
Store(p, o, w) == Write(p, o, <<w % 256, w \div 256>>)
Field(p, o, n) == SubSeq(p, o + 1, o + n)

Length(p) == Ntohs(p, UdpLen)

-----------------------------------------------------------------------------
(* Checksums.                                                              *)

Fold(c) == (c % U16) + (c \div U16)
Complement(c) == (U16 - 1) - (c % U16)
Finish_Once(c) == Complement(Fold(c))
Finish(c) == Complement(Fold(Fold(c)))

\* compute_ip_checksum: ten words.
compute_ip_checksum(p) == Finish(SumFunction([k \in 0..9 |-> Word(p, 2 * k)]))

\* The start of compute_udp_checksum; 17 is IPPROTO_UDP in network order.
PseudoHeader(p) ==
  Word(p, Saddr) + Word(p, Saddr + 2) + Word(p, Daddr) + Word(p, Daddr + 2)
    + 256 * 17 + Word(p, UdpLen)

\* bpf_l3_csum_replace and bpf_l4_csum_replace: a checksum at offset o corrected
\* for n bytes at offset f that were those of old and are those of p now.  A
\* checksum of zero, i.e. none, is corrected like any other.
CsumReplace_Reversed(p, o, old, f, n) ==
  LET words == {f + 2 * k : k \in 0..(n \div 2 - 1)} IN
  Store(p, o, Finish((U16 - 1 - Word(p, o))
                     + SumFunction([w \in words |-> Word(old, w) + U16 - 1 - Word(p, w)])))

CsumReplace(p, o, old, f, n) ==
  LET words == {f + 2 * k : k \in 0..(n \div 2 - 1)} IN
  Store(p, o, Finish((U16 - 1 - Word(p, o))
                     + SumFunction([w \in words |-> Word(p, w) + U16 - 1 - Word(old, w)])))

-----------------------------------------------------------------------------
(* Topic keys.                                                             *)

EmptyKey == [k \in 0..(MAX_TOPIC_ID_CHARS - 1) |-> NUL]
Refused == [k \in {} |-> NUL]

\* main of bpf_broker_proto.c: the key for what follows "REGISTER ", "SUBSCRIBE "
\* or "FLUSH ", cut at the first line end.  A key without a NUL is refused by
\* strlen in add_topic, add_subscriber and flush_topic.
DaemonKey(raw) ==
  LET stop == Min({k \in 0..Len(raw) : k = Len(raw) \/ raw[k + 1] \in DaemonStops}) IN
  IF stop < MAX_TOPIC_ID_CHARS
  THEN [k \in DOMAIN EmptyKey |-> IF k < stop THEN raw[k + 1] ELSE NUL]
  ELSE Refused

-----------------------------------------------------------------------------
Init ==
  /\ frame \in Frames
  /\ skb = frame.bytes
  /\ pc = "parse"
  /\ i = 0
  /\ topic_id = EmptyKey
  /\ csum = 0
  /\ route = << >>
  /\ copies = << >>
  /\ bad = FALSE
  /\ faults = 0

\* parse_udp_packet: an IPv4 packet with whole headers and some payload.  IP
\* options are not looked for.
Parses(f) ==
  /\ f.ipv4
  /\ Len(f.bytes) > Payload
  /\ f.bytes[Protocol + 1] = 17

StartsWith(p) == Len(p) >= Payload + Len(Prefix) /\ Field(p, Payload, Len(Prefix)) = Prefix

Parse ==
  /\ pc = "parse"
  /\ pc' = IF Parses(frame) /\ Ntohs(skb, Dest) \in Ports /\ StartsWith(skb)
           THEN "extract" ELSE "pass"
  /\ UNCHANGED <<frame, skb, i, topic_id, csum, route, copies, bad, faults>>

\* A round of the loop of extract_topic_id, and its end.
InKey_OneMore(n) == n <= MAX_TOPIC_ID_CHARS
InKey(n) == n < MAX_TOPIC_ID_CHARS

ExtractChar ==
  LET o == Payload + Len(Prefix) + i IN
  /\ pc = "extract"
  /\ InKey(i)
  /\ IF o >= Len(skb)
     THEN pc' = "pass" /\ UNCHANGED <<topic_id, i>>
     ELSE IF skb[o + 1] \in KernelStops
     THEN pc' = "lookup" /\ topic_id' = [topic_id EXCEPT ![i] = NUL] /\ UNCHANGED i
     ELSE /\ topic_id' = [topic_id EXCEPT ![i] = skb[o + 1]]
          /\ i' = i + 1
          /\ UNCHANGED pc
  /\ UNCHANGED <<frame, skb, csum, route, copies, bad, faults>>

ExtractEnd ==
  /\ pc = "extract"
  /\ ~InKey(i)
  /\ topic_id' = [topic_id EXCEPT ![MAX_TOPIC_ID_CHARS - 1] = NUL]
  /\ pc' = "lookup"
  /\ UNCHANGED <<frame, skb, i, csum, route, copies, bad, faults>>

\* The maps hold no such topic; or the count is one and xdp_broker keeps the packet
\* for the first subscriber; or tc_ingress_broker parses it again, with the same
\* result, and walks the inner map, which after a repeated SUBSCRIBE may hold a
\* single key, too.
Lookup ==
  /\ pc = "lookup"
  /\ i' = 0
  /\ \/ pc' = "pass" /\ UNCHANGED route
     \/ pc' = "rewrite" /\ route' \in {r \in Routes : Len(r) = 1}
     \/ pc' = "tc" /\ route' \in Routes
  /\ UNCHANGED <<frame, skb, topic_id, csum, copies, bad, faults>>

-----------------------------------------------------------------------------
(* xdp_broker.                                                             *)

\* Addresses, then the IP checksum over a zero one, then ports.
Readdressed(p, s) ==
  LET addressed == Write(Write(p, Saddr, Field(p, Daddr, 4)), Daddr, s.ip)
      zeroed    == Store(addressed, IpCheck, 0)
      checked   == Store(zeroed, IpCheck, compute_ip_checksum(zeroed))
      ported    == Write(Write(checked, Source, Field(p, Dest, 2)), Dest, s.port)
  IN Store(ported, UdpCheck, 0)

Rewrite ==
  /\ pc = "rewrite"
  /\ skb' = Readdressed(skb, route[1])
  /\ csum' = PseudoHeader(skb')
  /\ pc' = "udp"
  /\ UNCHANGED <<frame, i, topic_id, route, copies, bad, faults>>

\* The loop of compute_udp_checksum reads another word.
MoreWords_OneMore ==
  i <= MaxWords /\ Udp + 2 * i + 2 <= Len(skb) /\ 2 * i < Length(skb)
MoreWords == i < MaxWords /\ Udp + 2 * i + 2 <= Len(skb) /\ 2 * i < Length(skb)

SumWord ==
  /\ pc = "udp"
  /\ MoreWords
  /\ csum' = csum + Word(skb, Udp + 2 * i)
  /\ i' = i + 1
  /\ UNCHANGED <<pc, frame, skb, topic_id, route, copies, bad, faults>>

\* What the last byte of an odd length adds.
OddByte ==
  IF Length(skb) % 2 = 1 /\ Udp + 2 * i < Len(skb) THEN 256 * skb[Udp + 2 * i + 1] ELSE 0

SumDone ==
  /\ pc = "udp"
  /\ ~MoreWords
  /\ skb' = Store(skb, UdpCheck, Finish(csum + OddByte))
  /\ copies' = <<[to |-> route[1], bytes |-> skb', bad |-> FALSE]>>
  /\ pc' = "tx"
  /\ UNCHANGED <<frame, i, topic_id, csum, route, bad, faults>>

-----------------------------------------------------------------------------
(* tc_ingress_broker and callback_fn.                                      *)

\* The source address and port become those the packet was sent to: the stages of
\* tc_ingress_broker, with the checksum helpers between them.
FromBroker(p) ==
  LET a == Write(p, Saddr, Field(p, Daddr, 4))
      b == CsumReplace(a, IpCheck, p, Saddr, 4)
      c == CsumReplace(b, UdpCheck, p, Saddr, 4)
      d == Write(c, Source, Field(p, Dest, 2))
      e == CsumReplace(d, UdpCheck, p, Source, 2)
  IN [address |-> a, ip_sum |-> b, port |-> d, all |-> e]

\* bpf_skb_pull_data or a checksum helper may fail: the packet goes up the stack,
\* half rewritten.
TcIngress ==
  LET stage == FromBroker(skb) IN
  /\ pc = "tc"
  /\ \/ /\ skb' = stage.all
        /\ pc' = "walk"
        /\ UNCHANGED faults
     \/ /\ faults < MaxFaults
        /\ faults' = faults + 1
        /\ pc' = "pass"
        /\ skb' \in {skb, stage.address, stage.ip_sum, stage.port}
  /\ UNCHANGED <<frame, i, topic_id, csum, route, copies, bad>>

ToSubscriber_OldPort(p, s) ==
  LET a == Write(p, Daddr, s.ip)
      b == CsumReplace(a, IpCheck, p, Daddr, 4)
      c == CsumReplace(b, UdpCheck, p, Daddr, 4)
      d == Write(c, Dest, s.port)
  IN [address |-> a, ip_sum |-> b, port |-> d, all |-> d]

\* The stages of callback_fn for subscriber s; the checksum helpers run between
\* them.
ToSubscriber(p, s) ==
  LET a == Write(p, Daddr, s.ip)
      b == CsumReplace(a, IpCheck, p, Daddr, 4)
      c == CsumReplace(b, UdpCheck, p, Daddr, 4)
      d == Write(c, Dest, s.port)
      e == CsumReplace(d, UdpCheck, p, Dest, 2)
  IN [address |-> a, ip_sum |-> b, port |-> d, all |-> e]

\* The copy is sent; or bpf_clone_redirect fails; or one of the three checksum
\* helpers fails, and the walk goes on with the skb as it is then.
Callback ==
  LET stage == ToSubscriber(skb, route[i + 1]) IN
  /\ pc = "walk"
  /\ i < Len(route)
  /\ i' = i + 1
  /\ \/ /\ skb' = stage.all
        /\ copies' = Append(copies, [to |-> route[i'], bytes |-> skb', bad |-> bad])
        /\ UNCHANGED <<bad, faults>>
     \/ /\ faults < MaxFaults
        /\ faults' = faults + 1
        /\ \/ skb' = stage.all /\ UNCHANGED bad
           \/ skb' \in {stage.address, stage.ip_sum, stage.port} /\ bad' = TRUE
        /\ UNCHANGED copies
  /\ UNCHANGED <<pc, frame, topic_id, csum, route>>

WalkDone ==
  /\ pc = "walk"
  /\ i = Len(route)
  /\ pc' = "shot"
  /\ UNCHANGED <<frame, skb, i, topic_id, csum, route, copies, bad, faults>>

-----------------------------------------------------------------------------
Next ==
  \/ Parse \/ ExtractChar \/ ExtractEnd \/ Lookup
  \/ Rewrite \/ SumWord \/ SumDone
  \/ TcIngress \/ Callback \/ WalkDone

Spec == Init /\ [][Next]_vars

-----------------------------------------------------------------------------
(* What a subscriber's kernel verifies (RFC 791, RFC 768, RFC 1071): the   *)
(* sum of all 16-bit words in network order, padded with a zero byte, is a *)
(* multiple of 2^16 - 1.                                                   *)

\* The bytes of p from offset o, n of them, as words in network order.
NetSum(p, o, n) ==
  LET byte(k) == IF k < n THEN p[o + k + 1] ELSE 0
  IN SumFunction([k \in 0..((n + 1) \div 2 - 1) |-> 256 * byte(2 * k) + byte(2 * k + 1)])

IpVerifies(p) == NetSum(p, 0, Udp) % (U16 - 1) = 0

UdpSum(p) == NetSum(p, Saddr, 8) + 17 + Length(p) + NetSum(p, Udp, Length(p))
UdpVerifies(p) == UdpSum(p) % (U16 - 1) = 0

\* The length field of the UDP header is one the packet can have.
WellFormed(p) == Len(p) > Payload /\ Length(p) >= 8 /\ Length(p) <= Len(p) - Udp

\* Both checks; a UDP checksum of zero would not even be looked at.
Verifies(p) == IpVerifies(p) /\ UdpVerifies(p)

\* A copy is from the broker's address to the subscriber's, and its payload is
\* the one that was published.
Addressed(copy) ==
  LET p == frame.bytes IN
  /\ Field(copy.bytes, Saddr, 4) = Field(p, Daddr, 4)
  /\ Field(copy.bytes, Daddr, 4) = copy.to.ip
  /\ Field(copy.bytes, Source, 2) = Field(p, Dest, 2)
  /\ Field(copy.bytes, Dest, 2) = copy.to.port
  /\ SubSeq(copy.bytes, Payload + 1, Len(p)) = SubSeq(p, Payload + 1, Len(p))

Reaches(copy) == Addressed(copy) /\ Verifies(copy.bytes)

-----------------------------------------------------------------------------
(* Properties.                                                             *)

\* The packet keeps its length and its bytes stay bytes, loops stay within their
\* bounds, and the sum of compute_udp_checksum stays far below 2^32, so that no
\* carry of the __u32 is lost before it is folded.
TypeOK ==
  /\ pc \in {"parse", "extract", "lookup", "rewrite", "udp", "tc", "walk",
             "pass", "tx", "shot"}
  /\ frame \in Frames
  /\ skb \in Seq(Byte) /\ Len(skb) = Len(frame.bytes)
  /\ pc \in {"parse", "extract", "lookup"} => i \in 0..MAX_TOPIC_ID_CHARS
  /\ pc = "udp" => i \in 0..MaxWords
  /\ pc = "walk" => i \in 0..Len(route)
  /\ topic_id \in [DOMAIN EmptyKey -> Byte]
  /\ csum \in 0..((MaxWords + 6) * (U16 - 1))
  /\ route \in Routes \cup {<< >>}
  /\ copies \in Seq([to : Address, bytes : Seq(Byte), bad : BOOLEAN])
  /\ Len(copies) <= Len(route)
  /\ bad \in BOOLEAN
  /\ faults \in 0..MaxFaults

TopicEnds == {SPACE, NUL, NL}

\* The topic as the publisher wrote it: what follows the prefix up to a character
\* that ends a topic.
Published ==
  LET text == SubSeq(frame.bytes, Payload + Len(Prefix) + 1, Len(frame.bytes))
      n    == Min({k \in 0..Len(text) : k = Len(text) \/ text[k + 1] \in TopicEnds})
  IN SubSeq(text, 1, n)

LineEnds == {<< >>, <<NL>>, <<CR, NL>>}

\* extract_topic_id and the daemon agree on plain names: a PUBLISH is looked up
\* under the key that REGISTER or SUBSCRIBE stored for a name, however the client
\* ended its line, exactly when it names that topic; except that a name as long as
\* a key or longer, which the daemon refuses, is cut by the program and reaches
\* the topic of its first MAX_TOPIC_ID_CHARS - 1 characters.
KeysAgree ==
  pc \notin {"parse", "extract", "pass"} =>
    LET n == Min({Len(Published), MAX_TOPIC_ID_CHARS - 1}) IN
    \A name \in Names, end \in LineEnds :
      topic_id = DaemonKey(name \o end) <=> name = SubSeq(Published, 1, n)

\* What xdp_broker transmits is addressed to the subscriber and passes both
\* checks there, when the loop of compute_udp_checksum covers the datagram and its
\* length is even, or odd with the frame padded by zero bytes.
TxVerifies ==
  pc = "tx" =>
    LET p      == frame.bytes
        len    == Length(p)
        padded == Len(p) - Udp > len /\ \A k \in (Udp + len + 1)..Len(p) : p[k] = 0
    IN
    WellFormed(p) /\ len <= 2 * MaxWords /\ (len % 2 = 0 \/ padded) => Reaches(copies[1])

\* "If length is odd, pad the last byte" (comment in compute_udp_checksum): a
\* datagram of odd length that ends with its frame passes the checks, too, within
\* the bound of the loop.
OddVerifies ==
  LET p == frame.bytes IN
  pc = "tx" /\ WellFormed(p) /\ Len(p) - Udp = Length(p) /\ Length(p) < 2 * MaxWords =>
    Reaches(copies[1])

\* The PUBLISH came with right checksums, the UDP one included.
Trusted(p) == WellFormed(p) /\ Verifies(p) /\ Word(p, UdpCheck) # 0

\* The walk readdresses one skb over and over, yet every copy it sends, as long
\* as no checksum helper failed, is addressed to its own subscriber and passes
\* both checks there, when the PUBLISH came with a right UDP checksum.  (One that
\* came without, i.e. zero, gets a wrong one: the helper is not told to leave it.)
WalkVerifies ==
  pc \in {"walk", "shot"} =>
    \A k \in DOMAIN copies :
      ~copies[k].bad /\ Trusted(frame.bytes) => Reaches(copies[k])

\* callback_fn corrects checksums by differences, so that a run of it in which no
\* checksum helper fails neither spoils the skb nor heals one that an earlier
\* failure spoiled: every later subscriber of that packet gets a copy it drops,
\* whichever address the skb is moved to.  HashBroker's variable bad rests on it.
SpoiledForGood ==
  [][pc = "walk" /\ i' = i + 1 /\ faults' = faults /\ WellFormed(skb)
       => (Verifies(skb') <=> Verifies(skb))]_vars

=============================================================================
