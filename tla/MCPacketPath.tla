---------------------------- MODULE MCPacketPath ----------------------------
(* PacketPath for TLC: frames with every short topic text, and subscribers *)
(* whose addresses make the sums carry.                                    *)
EXTENDS PacketPathInv

MCPrefix == <<80, 32>>

MCNames == UNION {[1..n -> {97, 255}] : n \in 0..MAX_TOPIC_ID_CHARS}

\* The sum for the second one and the topic <<97>> carries again after one fold.
MCSubscribers ==
  <<[ip |-> <<10, 0, 0, 2>>, port |-> <<58, 152>>],
    [ip |-> <<255, 255, 255, 254>>, port |-> <<134, 149>>],
    [ip |-> <<10, 0, 0, 2>>, port |-> <<58, 153>>]>>

MCRoutes == {<< >>, <<MCSubscribers[1]>>, <<MCSubscribers[2]>>, MCSubscribers}

\* A datagram from 10.0.0.9:30000 to 10.0.0.1 with the given destination port,
\* UDP length and bytes after the UDP header, its checksums zero.
Plain(proto, port, len, rest) ==
  <<69, 0, 0, Udp + len, 0, 0, 64, 0, 64, proto, 0, 0, 10, 0, 0, 9, 10, 0, 0, 1,
    117, 48, port \div 256, port % 256, 0, len, 0, 0>> \o rest

\* The checksums as a sender computes them.
Sealed(p) ==
  LET ip(s) == (U16 - 1) - (s % (U16 - 1))
      put(q, o, w) == Write(q, o, <<w \div 256, w % 256>>)
      a == put(p, IpCheck, ip(NetSum(p, 0, Udp)))
  IN put(a, UdpCheck, ip(UdpSum(a)))

Texts == UNION {[1..n -> {97, 255, NUL, NL, CR, SPACE}] : n \in 0..3}
           \cup [1..4 -> {97, 255, NL, SPACE}]

\* The text follows the prefix; the last bytes of it may be padding.
Publishes ==
  {Sealed(Plain(17, 49152, 8 + Len(MCPrefix) + Len(t) - pad, MCPrefix \o t)) :
     t \in Texts, pad \in 0..2}

\* Too short, for another port or protocol, not a PUBLISH, without a checksum.
Others ==
  {SubSeq(Plain(17, 49152, 9, <<80>>), 1, n) : n \in {0, 19, 20, 27, 28, 29}}
    \cup {Plain(6, 49152, 12, <<80, 32, 97, 32>>), Plain(17, 49168, 12, <<80, 32, 97, 32>>),
          Plain(17, 49152, 12, <<83, 32, 97, 32>>), Plain(17, 49152, 12, <<80, 32, 97, 32>>)}

MCFrames == [ipv4 : {TRUE}, bytes : Publishes \cup Others]
              \cup {[ipv4 |-> FALSE, bytes |-> Plain(17, 49152, 12, <<80, 32, 97, 32>>)]}

=============================================================================
