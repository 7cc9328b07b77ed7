-------------------------- MODULE PacketPathProofs --------------------------
(***************************************************************************)
(* IInv is an invariant of PacketPath, for every size of a key and of the  *)
(* loops, every set of frames, names and subscribers and any number of     *)
(* failing helpers, and the properties follow from it.                     *)
(***************************************************************************)
EXTENDS PacketPathInv, InductionLemmas, SequenceTheorems

-----------------------------------------------------------------------------
(* Arithmetic modulo 2^16 - 1.                                             *)

Cong(a, b) == (a - b) % 65535 = 0
Is16(c) == c \in Nat /\ c <= 65535

LEMMA Modulus == U16 = 65536 /\ U16 - 1 = 65535
BY SMT DEF U16

LEMMA CongAdd ==
  ASSUME NEW a \in Int, NEW b \in Int, NEW c \in Int, NEW d \in Int, Cong(a, b), Cong(c, d)
  PROVE  Cong(a + c, b + d)
BY SMT DEF Cong

LEMMA CongTimes ==
  ASSUME NEW a \in Nat, NEW b \in Nat, NEW c \in Nat, NEW d \in Nat,
         Cong(256 * a, b), Cong(256 * c, d)
  PROVE  Cong(256 * (a + c), b + d)
BY SMT DEF Cong

\* The differences agree.
LEMMA CongBy ==
  ASSUME NEW a \in Int, NEW b \in Int, NEW c \in Int, NEW d \in Int, Cong(a, b),
         a - b = c - d
  PROVE  Cong(c, d)
BY SMT DEF Cong

LEMMA CongZero ==
  ASSUME NEW a \in Nat
  PROVE  a % (U16 - 1) = 0 <=> Cong(a, 0)
BY Modulus, SMT DEF Cong

\* Congruent numbers are both multiples or neither is.
LEMMA CongBoth ==
  ASSUME NEW a \in Int, NEW b \in Int, Cong(a, b)
  PROVE  Cong(a, 0) <=> Cong(b, 0)
BY SMT DEF Cong

\* Multiplication by 256, i.e. the other byte order, is invertible.
LEMMA CongSwap ==
  ASSUME NEW a \in Int, NEW b \in Int, Cong(256 * a, b)
  PROVE  Cong(a, 0) <=> Cong(b, 0)
BY SMT DEF Cong

\* The low and the high half of a number.
LEMMA Halves ==
  ASSUME NEW c \in Nat
  PROVE  /\ Is16(c % 65536)
         /\ c \div 65536 \in Nat
         /\ c = 65536 * (c \div 65536) + (c % 65536)
<1>1. c % 65536 \in Nat /\ c % 65536 <= 65535
  BY SMT
<1>2. c \div 65536 \in Nat
  BY SMT
<1>3. c = 65536 * (c \div 65536) + (c % 65536)
  BY SMT
<1> QED BY <1>1, <1>2, <1>3, SMT DEF Is16

\* Whatever was summed, a checksum has 16 bits.
LEMMA FinishType ==
  ASSUME NEW c \in Nat
  PROVE  Is16(Finish(c))
<1>1. ASSUME NEW d \in Nat PROVE Fold(d) \in Nat
  <2>1. Fold(d) = (d % 65536) + (d \div 65536)
    BY Modulus DEF Fold
  <2> QED BY <2>1, Halves, SMT DEF Is16
<1>2. Fold(Fold(c)) \in Nat
  BY <1>1, SMT
<1>3. ASSUME NEW d \in Nat PROVE Is16(Complement(d))
  <2>1. Complement(d) = 65535 - (d % 65536)
    BY Modulus, SMT DEF Complement
  <2> QED BY <2>1, Halves, SMT DEF Is16
<1> QED BY <1>2, <1>3, SMT DEF Finish

\* A sum of less than 2^32 and its checksum add up to a multiple of 2^16 - 1.
LEMMA FinishSum ==
  ASSUME NEW c \in Nat, c < 65536 * 65536
  PROVE  Cong(c + Finish(c), 0) /\ Fold(Fold(c)) <= 65535
<1>1. \A x : Fold(x) = (x % 65536) + (x \div 65536)
  BY Modulus, SMT DEF Fold
<1>2. \A x : Complement(x) = 65535 - (x % 65536)
  BY Modulus, SMT DEF Complement
<1> DEFINE d == Fold(c)
           e == Fold(d)
<1>3. d \in Nat /\ d <= 131070 /\ Cong(c, d)
  BY <1>1, SMT DEF Cong
<1>4. d = Fold(c)
  OBVIOUS
<1> HIDE DEF d
<1>5. e \in Nat /\ e <= 65535 /\ Cong(d, e)
  BY <1>1, <1>3, SMT DEF Cong
<1>6. e = Fold(d)
  OBVIOUS
<1> HIDE DEF e
<1>7. Finish(c) = 65535 - e
  BY <1>2, <1>4, <1>5, <1>6, SMT DEF Finish
<1>8. Cong(c + Finish(c), 0)
  BY <1>3, <1>5, <1>7, SMT DEF Cong
<1> QED BY <1>4, <1>5, <1>6, <1>8

-----------------------------------------------------------------------------
(* Bytes and words of a packet.                                            *)

Packet(m) == [1..m -> Byte]

LEMMA ByteNat == \A b : b \in Byte <=> b \in Nat /\ b <= 255
BY SMT DEF Byte

\* q is p with the n bytes of s at offset o.
Wrote(q, p, o, n, s, m) ==
  /\ q \in Packet(m)
  /\ \A k \in 1..m : q[k] = IF o + 1 <= k /\ k <= o + n THEN s[k - o] ELSE p[k]

LEMMA WriteBytes ==
  ASSUME NEW m \in Nat, NEW p \in Packet(m), NEW o \in Nat, NEW n \in Nat, NEW s \in Packet(n)
  PROVE  Wrote(Write(p, o, s), p, o, n, s, m)
BY SMT DEF Write, Packet, Wrote

\* s is n bytes of p from offset o.
IsField(s, p, o, n) == s \in Packet(n) /\ \A j \in 1..n : s[j] = p[o + j]

LEMMA FieldBytes ==
  ASSUME NEW m \in Nat, NEW p \in Packet(m), NEW o \in Nat, NEW n \in Nat, o + n <= m
  PROVE  IsField(Field(p, o, n), p, o, n)
<1>1. \A k \in (o + 1)..(o + n) : p[k] \in Byte
  BY SMT DEF Packet
<1>2. /\ Field(p, o, n) \in Seq(Byte)
      /\ Len(Field(p, o, n)) = IF o + 1 <= o + n THEN (o + n) - (o + 1) + 1 ELSE 0
      /\ \A k \in 1..((o + n) - (o + 1) + 1) : Field(p, o, n)[k] = p[(o + 1) + k - 1]
  <2>1. o + 1 \in Int /\ o + n \in Int
    BY SMT
  <2> QED BY <1>1, <2>1, SubSeqProperties, SMT DEF Field
<1>3. Len(Field(p, o, n)) = n
  BY <1>2, SMT
<1>4. Field(p, o, n) \in Packet(n)
  BY <1>2, <1>3, SMT DEF Packet
<1>5. ASSUME NEW j \in 1..n PROVE Field(p, o, n)[j] = p[o + j]
  <2>1. (o + n) - (o + 1) + 1 = n /\ (o + 1) + j - 1 = o + j
    BY SMT
  <2> QED BY <1>2, <2>1
<1> QED BY <1>4, <1>5 DEF IsField

LEMMA WordType ==
  ASSUME NEW m \in Nat, NEW p \in Packet(m), NEW o \in Nat, o + 2 <= m
  PROVE  Is16(Word(p, o)) /\ Is16(Ntohs(p, o))
<1>1. p[o + 1] \in Byte /\ p[o + 2] \in Byte
  BY SMT DEF Packet
<1> QED BY <1>1, ByteNat, SMT DEF Word, Ntohs, Is16

\* Outside the two bytes at offset o nothing changes.
Apart(o, k) == k # o + 1 /\ k # o + 2
Changed(q, p, o, m) == q \in Packet(m) /\ \A k \in 1..m : Apart(o, k) => q[k] = p[k]

LEMMA StoreBytes ==
  ASSUME NEW m \in Nat, NEW p \in Packet(m), NEW o \in Nat, o + 2 <= m, NEW w, Is16(w)
  PROVE  Changed(Store(p, o, w), p, o, m) /\ Word(Store(p, o, w), o) = w
<1> DEFINE s == <<w % 256, w \div 256>>
           q == Write(p, o, s)
<1>1. w \in Nat /\ w <= 65535
  BY DEF Is16
<1>2. w % 256 \in Byte /\ w \div 256 \in Byte /\ w = (w % 256) + 256 * (w \div 256)
  BY <1>1, ByteNat, SMT
<1>3. s \in Packet(2) /\ s[1] = w % 256 /\ s[2] = w \div 256
  BY <1>2, SMT DEF Packet
<1> HIDE DEF s
<1>4. /\ q \in Packet(m)
      /\ \A k \in 1..m : q[k] = IF o + 1 <= k /\ k <= o + 2 THEN s[k - o] ELSE p[k]
  <2>1. Wrote(Write(p, o, s), p, o, 2, s, m)
    BY <1>3, WriteBytes
  <2> QED BY <2>1 DEF Wrote
<1>5. Store(p, o, w) = q
  BY DEF Store, s
<1> HIDE DEF q
<1>6. q[o + 1] = s[1] /\ q[o + 2] = s[2]
  <2>1. o + 1 \in 1..m /\ o + 2 \in 1..m /\ (o + 1) - o = 1 /\ (o + 2) - o = 2
    BY SMT
  <2> QED BY <1>4, <2>1, SMT
<1>7. \A k \in 1..m : Apart(o, k) => q[k] = p[k]
  BY <1>4, SMT DEF Apart
<1> QED BY <1>2, <1>3, <1>4, <1>5, <1>6, <1>7, SMT DEF Word, Changed

-----------------------------------------------------------------------------
(* Sums of words, in the order of the machine.                             *)

\* The k-th word of n bytes at offset o, the last one padded with a zero byte.
LeWord(p, o, n, k) == p[o + 2 * k + 1] + 256 * (IF 2 * k + 1 < n THEN p[o + 2 * k + 2] ELSE 0)
Words(n) == 0..((n + 1) \div 2 - 1)
LeWords(p, o, n) == [k \in Words(n) |-> LeWord(p, o, n, k)]
LeSum(p, o, n) == SumFunctionOnSet(LeWords(p, o, n), Words(n))

\* If the words of two sums agree modulo 2^16 - 1 up to byte order, the sums do.
LEMMA SumSwap ==
  ASSUME NEW n \in Nat, NEW f, NEW g, OnNat(f, 0..(n - 1)), OnNat(g, 0..(n - 1)),
         \A k \in 0..(n - 1) : Cong(256 * f[k], g[k])
  PROVE  Cong(256 * SumFunctionOnSet(f, 0..(n - 1)), SumFunctionOnSet(g, 0..(n - 1)))
<1> DEFINE F(k) == SumFunctionOnSet(f, 0..(k - 1))
           G(k) == SumFunctionOnSet(g, 0..(k - 1))
           S == {k \in Nat : k <= n => Cong(256 * F(k), G(k))}
<1>1. 0 \in S
  <2>1. 0..(0 - 1) = {}
    BY SMT
  <2>2. F(0) = 0 /\ G(0) = 0
    BY <2>1, SumNone
  <2> QED BY <2>2, SMT DEF Cong
<1>2. ASSUME NEW k \in Nat, k \in S PROVE k + 1 \in S
  <2> SUFFICES ASSUME k + 1 <= n PROVE Cong(256 * F(k + 1), G(k + 1))
    OBVIOUS
  <2>1. k \in 0..(n - 1) /\ (k + 1) - 1 = k /\ k <= n
    BY SMT
  <2>2. OnNat(f, 0..k) /\ OnNat(g, 0..k)
    BY <2>1, SMT DEF OnNat
  <2>3. /\ SumFunctionOnSet(f, 0..k) = F(k) + f[k] /\ F(k) \in Nat
        /\ SumFunctionOnSet(g, 0..k) = G(k) + g[k] /\ G(k) \in Nat
    BY <2>2, SumLast
  <2>4. F(k + 1) = F(k) + f[k] /\ G(k + 1) = G(k) + g[k]
    BY <2>1, <2>3
  <2>5. f[k] \in Nat /\ g[k] \in Nat /\ Cong(256 * f[k], g[k])
    BY <2>1 DEF OnNat
  <2>6. Cong(256 * F(k), G(k))
    BY <1>2, <2>1
  <2>8. F(k) \in Nat /\ G(k) \in Nat
    BY <2>3
  <2> HIDE DEF F, G
  <2>7. Cong(256 * (F(k) + f[k]), G(k) + g[k])
    BY <2>5, <2>6, <2>8, CongTimes, Zenon
  <2> QED BY <2>4, <2>7
<1> HIDE DEF S
<1>3. n \in S
  BY <1>1, <1>2, Induct
<1> QED BY <1>3 DEF S

LEMMA WordsOf ==
  ASSUME NEW n \in Nat
  PROVE  /\ (n + 1) \div 2 \in Nat
         /\ IsFiniteSet(Words(n))
         /\ \A k : k \in Words(n) <=> k \in Nat /\ 2 * k < n
<1>1. (n + 1) \div 2 \in Nat /\ 2 * ((n + 1) \div 2) <= n + 1 /\ n <= 2 * ((n + 1) \div 2)
  BY SMT
<1> DEFINE h == (n + 1) \div 2
<1>2. Words(n) = 0..(h - 1)
  BY DEF Words
<1>3. h \in Nat /\ 2 * h <= n + 1 /\ n <= 2 * h
  BY <1>1
<1> HIDE DEF h
<1>4. IsFiniteSet(Words(n))
  <2>1. 0 \in Int /\ h - 1 \in Int
    BY <1>3, SMT
  <2> QED BY <1>2, <2>1, FS_Interval
<1>5. \A k : k \in Words(n) <=> k \in Nat /\ 2 * k < n
  BY <1>2, <1>3, SMT
<1> QED BY <1>1, <1>4, <1>5

LEMMA LeNat ==
  ASSUME NEW m \in Nat, NEW p \in Packet(m), NEW o \in Nat, NEW n \in Nat, o + n <= m
  PROVE  OnNat(LeWords(p, o, n), Words(n)) /\ LeSum(p, o, n) \in Nat
<1>1. ASSUME NEW k \in Words(n) PROVE LeWord(p, o, n, k) \in Nat
  <2>1. k \in Nat /\ 2 * k < n
    BY WordsOf
  <2>2. p[o + 2 * k + 1] \in Byte /\ (2 * k + 1 < n => p[o + 2 * k + 2] \in Byte)
    BY <2>1, SMT DEF Packet
  <2> QED BY <2>2, ByteNat, SMT DEF LeWord
<1>2. OnNat(LeWords(p, o, n), Words(n))
  BY <1>1 DEF OnNat, LeWords
<1> QED BY <1>2, WordsOf, SumRest DEF LeSum

\* The receiver's sum is the one of the machine in the other byte order.
LEMMA NetIsLe ==
  ASSUME NEW m \in Nat, NEW p \in Packet(m), NEW o \in Nat, NEW n \in Nat, o + n <= m
  PROVE  NetSum(p, o, n) \in Nat /\ Cong(256 * LeSum(p, o, n), NetSum(p, o, n))
<1> DEFINE byte(k) == IF k < n THEN p[o + k + 1] ELSE 0
           h == (n + 1) \div 2
           g == [k \in Words(n) |-> 256 * byte(2 * k) + byte(2 * k + 1)]
<1>1. NetSum(p, o, n) = SumFunctionOnSet(g, Words(n))
  <2>1. NetSum(p, o, n) = SumFunction(g)
    BY DEF NetSum, Words
  <2>2. DOMAIN g = Words(n)
    OBVIOUS
  <2> QED BY <2>1, <2>2 DEF SumFunction
<1>2. ASSUME NEW k \in Words(n)
      PROVE  /\ g[k] \in Nat /\ LeWords(p, o, n)[k] \in Nat
             /\ Cong(256 * LeWords(p, o, n)[k], g[k])
  <2>1. k \in Nat /\ 2 * k < n
    BY WordsOf
  <2> DEFINE a == p[o + 2 * k + 1]
             b == IF 2 * k + 1 < n THEN p[o + 2 * k + 2] ELSE 0
  <2>2. a \in Byte /\ b \in Byte
    BY <2>1, ByteNat, SMT DEF Packet
  <2>3. LeWords(p, o, n)[k] = a + 256 * b
    BY DEF LeWords, LeWord
  <2>4. g[k] = 256 * a + b
    <3>1. o + (2 * k + 1) + 1 = o + 2 * k + 2
      BY <2>1, SMT
    <3>2. byte(2 * k) = a /\ byte(2 * k + 1) = b
      BY <2>1, <3>1
    <3> QED BY <3>2
  <2>5. a \in Nat /\ b \in Nat
    BY <2>2, ByteNat
  <2> HIDE DEF a, b, g
  <2> QED BY <2>3, <2>4, <2>5, SMT DEF Cong
<1> HIDE DEF g
<1>3. Words(n) = 0..(h - 1) /\ h \in Nat
  BY WordsOf DEF Words
<1> HIDE DEF h
<1>4. OnNat(g, Words(n)) /\ OnNat(LeWords(p, o, n), Words(n))
  BY <1>2 DEF OnNat
<1>5. Cong(256 * LeSum(p, o, n), SumFunctionOnSet(g, Words(n)))
  <2>1. \A k \in 0..(h - 1) : Cong(256 * LeWords(p, o, n)[k], g[k])
    BY <1>2, <1>3
  <2>2. OnNat(g, 0..(h - 1)) /\ OnNat(LeWords(p, o, n), 0..(h - 1))
    BY <1>3, <1>4
  <2>3. Cong(256 * SumFunctionOnSet(LeWords(p, o, n), 0..(h - 1)), SumFunctionOnSet(g, 0..(h - 1)))
    BY <1>3, <2>1, <2>2, SumSwap, Zenon
  <2> QED BY <1>3, <2>3 DEF LeSum
<1>6. SumFunctionOnSet(g, Words(n)) \in Nat
  BY <1>4, WordsOf, SumRest
<1> QED BY <1>1, <1>5, <1>6

\* Packets that differ in one word have sums that differ by it.
LEMMA WordChange ==
  ASSUME NEW m \in Nat, NEW p \in Packet(m), NEW q \in Packet(m), NEW o \in Nat, NEW n \in Nat,
         o + n <= m, NEW j \in Nat, 2 * j + 1 < n,
         \A k \in 1..m : Apart(o + 2 * j, k) => q[k] = p[k]
  PROVE  LeSum(q, o, n) + Word(p, o + 2 * j) = LeSum(p, o, n) + Word(q, o + 2 * j)
<1> DEFINE f == LeWords(p, o, n)
           g == LeWords(q, o, n)
<1>1. j \in Words(n)
  BY WordsOf, SMT
<1>2. f[j] = Word(p, o + 2 * j) /\ g[j] = Word(q, o + 2 * j)
  BY <1>1 DEF LeWords, LeWord, Word
<1>3. ASSUME NEW k \in Words(n) \ {j} PROVE f[k] = g[k]
  <2>1. k \in Nat /\ 2 * k < n /\ k # j
    BY WordsOf
  <2>2. o + 2 * k + 1 \in 1..m /\ Apart(o + 2 * j, o + 2 * k + 1)
    BY <2>1, SMT DEF Apart
  <2>3. 2 * k + 1 < n => o + 2 * k + 2 \in 1..m /\ Apart(o + 2 * j, o + 2 * k + 2)
    BY <2>1, SMT DEF Apart
  <2>4. LeWord(p, o, n, k) = LeWord(q, o, n, k)
    BY <2>2, <2>3 DEF LeWord
  <2> QED BY <2>4 DEF LeWords
<1> HIDE DEF f, g
<1>4. OnNat(f, Words(n)) /\ OnNat(g, Words(n)) /\ IsFiniteSet(Words(n))
  BY LeNat, WordsOf DEF f, g
<1>5. SumFunctionOnSet(f, Words(n)) + g[j] = SumFunctionOnSet(g, Words(n)) + f[j]
  <2>1. AlikeExcept(f, g, Words(n), j)
    BY <1>3 DEF AlikeExcept
  <2> QED BY <1>1, <1>4, <2>1, SumExcept, Zenon
<1> QED BY <1>2, <1>5 DEF LeSum, f, g

Agree(q, p, o, n) == \A k \in (o + 1)..(o + n) : q[k] = p[k]

LEMMA WordsSame ==
  ASSUME NEW m \in Nat, NEW p \in Packet(m), NEW q \in Packet(m), NEW o \in Nat, NEW n \in Nat,
         o + n <= m, Agree(q, p, o, n)
  PROVE  LeSum(q, o, n) = LeSum(p, o, n)
<1>1. ASSUME NEW k \in Words(n) PROVE LeWord(p, o, n, k) = LeWord(q, o, n, k)
  <2>1. k \in Nat /\ 2 * k < n
    BY WordsOf
  <2>2. /\ o + 2 * k + 1 \in (o + 1)..(o + n)
        /\ 2 * k + 1 < n => o + 2 * k + 2 \in (o + 1)..(o + n)
    BY <2>1, SMT
  <2> QED BY <2>2 DEF LeWord, Agree
<1>2. LeWords(p, o, n) = LeWords(q, o, n)
  BY <1>1 DEF LeWords
<1> QED BY <1>2 DEF LeSum

-----------------------------------------------------------------------------
(* What the receiver verifies, in the order of the machine.                *)

LEMMA IpIsLe ==
  ASSUME NEW m \in Nat, m > 28, NEW p \in Packet(m)
  PROVE  IpVerifies(p) <=> Cong(LeSum(p, 0, 20), 0)
<1>1. 0 \in Nat /\ 20 \in Nat /\ 0 + 20 <= m
  BY SMT
<1>2. /\ NetSum(p, 0, 20) \in Nat /\ Cong(256 * LeSum(p, 0, 20), NetSum(p, 0, 20))
      /\ LeSum(p, 0, 20) \in Nat
  BY <1>1, NetIsLe, LeNat
<1>3. Cong(LeSum(p, 0, 20), 0) <=> Cong(NetSum(p, 0, 20), 0)
  BY <1>2, CongSwap, SMT
<1> QED BY <1>2, <1>3, CongZero DEF IpVerifies, Udp

LEMMA FourWords ==
  ASSUME NEW m \in Nat, NEW p \in Packet(m), NEW o \in Nat, o + 8 <= m
  PROVE  LeSum(p, o, 8) = Word(p, o) + Word(p, o + 2) + Word(p, o + 4) + Word(p, o + 6)
<1> DEFINE f == LeWords(p, o, 8)
           F(k) == SumFunctionOnSet(f, 0..(k - 1))
<1>1. Words(8) = 0..3
  BY SMT DEF Words
<1>2. f[0] = Word(p, o) /\ f[1] = Word(p, o + 2) /\ f[2] = Word(p, o + 4) /\ f[3] = Word(p, o + 6)
  <2>1. 0 \in Words(8) /\ 1 \in Words(8) /\ 2 \in Words(8) /\ 3 \in Words(8)
    BY WordsOf, SMT
  <2>2. \A k \in Words(8) : f[k] = p[o + 2 * k + 1] + 256 * (IF 2 * k + 1 < 8 THEN p[o + 2 * k + 2] ELSE 0)
    BY DEF LeWords, LeWord
  <2> HIDE DEF f
  <2> QED BY <2>1, <2>2, SMT DEF Word
<1>3. OnNat(f, Words(8))
  BY LeNat
<1> HIDE DEF f
<1>4. ASSUME NEW k \in Nat, k <= 3 PROVE F(k + 1) = F(k) + f[k]
  <2>1. \A j \in 0..k : j \in Words(8)
    <3>1. \A j : j \in Words(8) <=> j \in Nat /\ 2 * j < 8
      BY WordsOf
    <3> QED BY <1>4, <3>1, SMT
  <2>2. OnNat(f, 0..k)
    BY <1>3, <2>1 DEF OnNat
  <2>3. (k + 1) - 1 = k
    BY SMT
  <2> QED BY <2>2, <2>3, SumLast
<1>5. F(0) = 0
  <2>1. 0..(0 - 1) = {}
    BY SMT
  <2> QED BY <2>1, SumNone
<1>6. LeSum(p, o, 8) = F(4)
  <2>1. Words(8) = 0..(4 - 1)
    BY <1>1, SMT
  <2> QED BY <2>1 DEF LeSum, f
<1>7. f[0] \in Nat
  BY <1>3, WordsOf, SMT DEF OnNat
<1> HIDE DEF F
<1>8. F(0 + 1) = F(0) + f[0] /\ F(1 + 1) = F(1) + f[1] /\ F(2 + 1) = F(2) + f[2]
      /\ F(3 + 1) = F(3) + f[3]
  BY <1>4, SMT
<1>9. F(1) = F(0) + f[0] /\ F(2) = F(1) + f[1] /\ F(3) = F(2) + f[2] /\ F(4) = F(3) + f[3]
  BY <1>8, SMT
<1> QED BY <1>2, <1>5, <1>6, <1>7, <1>9, SMT

\* The sum that compute_udp_checksum should build.
UdpLe(p) == PseudoHeader(p) + LeSum(p, Udp, Length(p))

LEMMA PseudoType ==
  ASSUME NEW m \in Nat, m > 28, NEW p \in Packet(m)
  PROVE  /\ PseudoHeader(p) \in Nat /\ PseudoHeader(p) <= 6 * 65535
         /\ Is16(Length(p))
<1>1. /\ Is16(Word(p, 12)) /\ Is16(Word(p, 14)) /\ Is16(Word(p, 16)) /\ Is16(Word(p, 18))
      /\ Is16(Word(p, 24)) /\ Is16(Ntohs(p, 24))
  <2>1. 12 + 2 <= m /\ 14 + 2 <= m /\ 16 + 2 <= m /\ 18 + 2 <= m /\ 24 + 2 <= m
    BY SMT
  <2> QED BY <2>1, WordType, SMT
<1>2. PseudoHeader(p) = Word(p, 12) + Word(p, 14) + Word(p, 16) + Word(p, 18) + 4352 + Word(p, 24)
  BY SMT DEF PseudoHeader, Saddr, Daddr, UdpLen
<1> QED BY <1>1, <1>2, SMT DEF Is16, Length, UdpLen

LEMMA UdpIsLe ==
  ASSUME NEW m \in Nat, m > 28, NEW p \in Packet(m), Length(p) <= m - 20
  PROVE  UdpVerifies(p) <=> Cong(UdpLe(p), 0)
<1> DEFINE L == Length(p)
           a == NetSum(p, 12, 8)
           b == NetSum(p, 20, L)
           c == LeSum(p, 12, 8)
           d == LeSum(p, 20, L)
           w == Word(p, 24)
<1>1. L \in Nat /\ 20 + L <= m /\ 12 + 8 <= m
  BY PseudoType, SMT DEF Is16
<1>2. a \in Nat /\ c \in Nat /\ Cong(256 * c, a)
  BY <1>1, NetIsLe, LeNat
<1>3. b \in Nat /\ d \in Nat /\ Cong(256 * d, b)
  BY <1>1, NetIsLe, LeNat
<1>4. w \in Nat /\ Cong(256 * w, L)
  <2>1. p[25] \in Byte /\ p[26] \in Byte
    BY SMT DEF Packet
  <2>2. w = p[25] + 256 * p[26] /\ L = 256 * p[25] + p[26]
    BY SMT DEF Word, Length, Ntohs, UdpLen
  <2> HIDE DEF w, L
  <2> QED BY <2>1, <2>2, ByteNat, SMT DEF Cong
<1>5. UdpSum(p) = a + 17 + L + b
  BY DEF UdpSum, Saddr, Udp
<1>6. UdpLe(p) = c + 4352 + w + d
  <2>1. c = Word(p, 12) + Word(p, 14) + Word(p, 16) + Word(p, 18)
    BY <1>1, FourWords, SMT
  <2>2. PseudoHeader(p) = Word(p, 12) + Word(p, 14) + Word(p, 16) + Word(p, 18) + 4352 + w
    BY SMT DEF PseudoHeader, Saddr, Daddr, UdpLen
  <2>3. PseudoHeader(p) = c + 4352 + w
    BY <2>1, <2>2
  <2> QED BY <2>3 DEF UdpLe, Udp
<1> HIDE DEF a, b, c, d, w, L
<1> DEFINE x == a + 17 + L + b
           y == c + 4352 + w + d
<1>7. x \in Nat /\ y \in Nat /\ Cong(256 * y, x)
  BY <1>1, <1>2, <1>3, <1>4, SMT DEF Cong
<1> HIDE DEF x, y
<1>8. Cong(y, 0) <=> Cong(x, 0)
  BY <1>7, CongSwap, SMT
<1>9. UdpSum(p) = x /\ UdpLe(p) = y
  BY <1>5, <1>6 DEF x, y
<1> QED BY <1>7, <1>8, <1>9, CongZero DEF UdpVerifies

-----------------------------------------------------------------------------
(* The checksum helpers.                                                   *)

Delta(p, old, w) == Word(p, w) + U16 - 1 - Word(old, w)

LEMMA DeltaType ==
  ASSUME NEW m \in Nat, NEW p \in Packet(m), NEW old \in Packet(m), NEW f \in Nat, f + 2 <= m
  PROVE  /\ Is16(Word(p, f)) /\ Is16(Word(old, f))
         /\ Delta(p, old, f) = Word(p, f) + 65535 - Word(old, f)
         /\ Delta(p, old, f) \in Nat /\ Delta(p, old, f) <= 131070
<1>1. Is16(Word(p, f)) /\ Is16(Word(old, f))
  BY WordType
<1>2. Delta(p, old, f) = Word(p, f) + 65535 - Word(old, f)
  BY <1>1, Modulus, SMT DEF Delta, Is16
<1> QED BY <1>1, <1>2, SMT DEF Is16

\* A checksum of d, where d makes up for the old one.
LEMMA Replaced ==
  ASSUME NEW m \in Nat, NEW p \in Packet(m), NEW o \in Nat, o + 2 <= m, NEW d \in Nat, d <= 262140
  PROVE  LET q == Store(p, o, Finish((U16 - 1 - Word(p, o)) + d)) IN
         /\ q \in Packet(m)
         /\ \A k \in 1..m : Apart(o, k) => q[k] = p[k]
         /\ Is16(Word(p, o)) /\ Is16(Word(q, o))
         /\ Cong(Word(q, o) + d, Word(p, o))
<1> DEFINE c == (U16 - 1 - Word(p, o)) + d
           w == Finish(c)
           q == Store(p, o, w)
<1>1. Is16(Word(p, o))
  BY WordType
<1>2. c \in Nat /\ c < 65536 * 65536 /\ c = 65535 - Word(p, o) + d
  BY <1>1, Modulus, SMT DEF Is16
<1> HIDE DEF c
<1>3. Is16(w) /\ Cong(c + w, 0)
  BY <1>2, FinishType, FinishSum
<1> HIDE DEF w
<1>4. q \in Packet(m) /\ Word(q, o) = w /\ \A k \in 1..m : Apart(o, k) => q[k] = p[k]
  BY <1>3, StoreBytes DEF Changed
<1>5. Cong(w + d, Word(p, o))
  BY <1>1, <1>2, <1>3, SMT DEF Cong, Is16
<1>6. q = Store(p, o, Finish((U16 - 1 - Word(p, o)) + d))
  BY DEF c, w
<1> HIDE DEF q
<1> QED BY <1>1, <1>3, <1>4, <1>5, <1>6

\* The address changed: the helper is called for four bytes.
LEMMA CsumReplace4 ==
  ASSUME NEW m \in Nat, NEW p \in Packet(m), NEW old \in Packet(m), NEW o \in Nat, o + 2 <= m,
         NEW f \in Nat, f + 4 <= m
  PROVE  LET q == CsumReplace(p, o, old, f, 4) IN
         /\ Changed(q, p, o, m)
         /\ Cong(Word(q, o) + Word(p, f) + Word(p, f + 2),
                 Word(p, o) + Word(old, f) + Word(old, f + 2))
<1> DEFINE words == {f + 2 * k : k \in 0..(4 \div 2 - 1)}
           g == [w \in words |-> Word(p, w) + U16 - 1 - Word(old, w)]
           d == SumFunction(g)
<1>1. words = {f, f + 2}
  BY SMT
<1>2. /\ Is16(Word(p, f)) /\ Is16(Word(old, f))
      /\ Delta(p, old, f) = Word(p, f) + 65535 - Word(old, f)
      /\ Delta(p, old, f) \in Nat /\ Delta(p, old, f) <= 131070
  BY DeltaType, SMT
<1>3. /\ Is16(Word(p, f + 2)) /\ Is16(Word(old, f + 2))
      /\ Delta(p, old, f + 2) = Word(p, f + 2) + 65535 - Word(old, f + 2)
      /\ Delta(p, old, f + 2) \in Nat /\ Delta(p, old, f + 2) <= 131070
  BY DeltaType, SMT
<1>4. CsumReplace(p, o, old, f, 4) = Store(p, o, Finish((U16 - 1 - Word(p, o)) + d))
  BY DEF CsumReplace
<1>5. DOMAIN g = {f, f + 2} /\ g[f] = Delta(p, old, f) /\ g[f + 2] = Delta(p, old, f + 2)
  BY <1>1 DEF Delta
<1> HIDE DEF g, words
<1>6. d = Delta(p, old, f) + Delta(p, old, f + 2)
  <2>1. f # f + 2
    BY SMT
  <2> QED BY <1>2, <1>3, <1>5, <2>1, SumTwo DEF SumFunction
<1> HIDE DEF d
<1>7. d \in Nat /\ d <= 262140
  BY <1>2, <1>3, <1>6, SMT
<1> DEFINE q == CsumReplace(p, o, old, f, 4)
<1>8. /\ q \in Packet(m)
      /\ \A k \in 1..m : Apart(o, k) => q[k] = p[k]
      /\ Is16(Word(p, o)) /\ Is16(Word(q, o))
      /\ Cong(Word(q, o) + d, Word(p, o))
  BY <1>4, <1>7, Replaced
<1> HIDE DEF q
<1>9. Cong(Word(q, o) + Word(p, f) + Word(p, f + 2),
           Word(p, o) + Word(old, f) + Word(old, f + 2))
  BY <1>2, <1>3, <1>6, <1>8, SMT DEF Cong, Is16
<1> QED BY <1>8, <1>9 DEF q, Changed

\* The port changed: two bytes.
LEMMA CsumReplace2 ==
  ASSUME NEW m \in Nat, NEW p \in Packet(m), NEW old \in Packet(m), NEW o \in Nat, o + 2 <= m,
         NEW f \in Nat, f + 2 <= m
  PROVE  LET q == CsumReplace(p, o, old, f, 2) IN
         /\ Changed(q, p, o, m)
         /\ Cong(Word(q, o) + Word(p, f), Word(p, o) + Word(old, f))
<1> DEFINE words == {f + 2 * k : k \in 0..(2 \div 2 - 1)}
           g == [w \in words |-> Word(p, w) + U16 - 1 - Word(old, w)]
           d == SumFunction(g)
<1>1. words = {f}
  BY SMT
<1>2. /\ Is16(Word(p, f)) /\ Is16(Word(old, f))
      /\ Delta(p, old, f) = Word(p, f) + 65535 - Word(old, f)
      /\ Delta(p, old, f) \in Nat /\ Delta(p, old, f) <= 131070
  BY DeltaType, SMT
<1>3. CsumReplace(p, o, old, f, 2) = Store(p, o, Finish((U16 - 1 - Word(p, o)) + d))
  BY DEF CsumReplace
<1>4. DOMAIN g = {f} /\ g[f] = Delta(p, old, f)
  BY <1>1 DEF Delta
<1> HIDE DEF g, words
<1>5. d = Delta(p, old, f)
  BY <1>2, <1>4, SumOne DEF SumFunction
<1> HIDE DEF d
<1>6. d \in Nat /\ d <= 262140
  BY <1>2, <1>5, SMT
<1> DEFINE q == CsumReplace(p, o, old, f, 2)
<1>7. /\ q \in Packet(m)
      /\ \A k \in 1..m : Apart(o, k) => q[k] = p[k]
      /\ Is16(Word(p, o)) /\ Is16(Word(q, o))
      /\ Cong(Word(q, o) + d, Word(p, o))
  BY <1>3, <1>6, Replaced
<1> HIDE DEF q
<1>8. Cong(Word(q, o) + Word(p, f), Word(p, o) + Word(old, f))
  BY <1>2, <1>5, <1>7, SMT DEF Cong, Is16
<1> QED BY <1>7, <1>8 DEF q, Changed

-----------------------------------------------------------------------------
(* Moving a packet to another address.                                     *)

\* Packets that differ in two words.
LEMMA TwoWordsChange ==
  ASSUME NEW m \in Nat, NEW p \in Packet(m), NEW q \in Packet(m), NEW n \in Nat, n <= m,
         NEW j \in Nat, 2 * j + 3 < n,
         \A k \in 1..m : k <= 2 * j \/ 2 * j + 4 < k => q[k] = p[k]
  PROVE  LeSum(q, 0, n) + Word(p, 2 * j) + Word(p, 2 * j + 2)
           = LeSum(p, 0, n) + Word(q, 2 * j) + Word(q, 2 * j + 2)
<1> DEFINE r == [k \in 1..m |-> IF k <= 2 * j + 2 THEN q[k] ELSE p[k]]
           h == j + 1
<1>1. r \in Packet(m)
  BY DEF Packet
<1>2. r[2 * j + 1] = q[2 * j + 1] /\ r[2 * j + 2] = q[2 * j + 2]
  BY SMT
<1>3. r[2 * j + 3] = p[2 * j + 3] /\ r[2 * j + 4] = p[2 * j + 4]
  BY SMT
<1>4. \A k \in 1..m : Apart(0 + 2 * j, k) => r[k] = p[k]
  BY SMT DEF Apart
<1>5. \A k \in 1..m : Apart(0 + 2 * h, k) => q[k] = r[k]
  BY SMT DEF Apart
<1> HIDE DEF r
<1>6. 0 \in Nat /\ 0 + n <= m /\ 2 * j + 1 < n /\ h \in Nat /\ 2 * h + 1 < n
  BY SMT
<1> HIDE DEF h
<1>7. LeSum(r, 0, n) + Word(p, 0 + 2 * j) = LeSum(p, 0, n) + Word(r, 0 + 2 * j)
  BY <1>1, <1>4, <1>6, WordChange
<1>8. LeSum(q, 0, n) + Word(r, 0 + 2 * h) = LeSum(r, 0, n) + Word(q, 0 + 2 * h)
  BY <1>1, <1>5, <1>6, WordChange
<1>9. /\ Word(r, 0 + 2 * j) = Word(q, 2 * j) /\ Word(p, 0 + 2 * j) = Word(p, 2 * j)
      /\ Word(r, 0 + 2 * h) = Word(p, 2 * j + 2) /\ Word(q, 0 + 2 * h) = Word(q, 2 * j + 2)
  <2>1. /\ 0 + 2 * j = 2 * j /\ 0 + 2 * h = 2 * j + 2
        /\ (2 * j + 2) + 1 = 2 * j + 3 /\ (2 * j + 2) + 2 = 2 * j + 4
    BY SMT DEF h
  <2> QED BY <1>2, <1>3, <2>1 DEF Word
<1>10. LeSum(p, 0, n) \in Nat /\ LeSum(q, 0, n) \in Nat /\ LeSum(r, 0, n) \in Nat
  BY <1>1, <1>6, LeNat
<1>11. /\ Is16(Word(p, 2 * j)) /\ Is16(Word(q, 2 * j))
       /\ Is16(Word(p, 2 * j + 2)) /\ Is16(Word(q, 2 * j + 2))
  <2>1. 2 * j \in Nat /\ 2 * j + 2 <= m /\ 2 * j + 2 \in Nat /\ (2 * j + 2) + 2 <= m
    BY SMT
  <2> QED BY <2>1, WordType
<1> QED BY <1>7, <1>8, <1>9, <1>10, <1>11, SMT DEF Is16

\* The stages of FromBroker and ToSubscriber: the address at offset A, the port at
\* offset P.
Staged(p, a, b, c, d, e, m, A, P, ip, port) ==
  /\ Wrote(a, p, A, 4, ip, m)
  /\ Changed(b, a, 10, m)
  /\ Changed(c, b, 26, m)
  /\ Wrote(d, c, P, 2, port, m)
  /\ Changed(e, d, 26, m)
  /\ Cong(Word(b, 10) + Word(a, A) + Word(a, A + 2), Word(a, 10) + Word(p, A) + Word(p, A + 2))
  /\ Cong(Word(c, 26) + Word(b, A) + Word(b, A + 2), Word(b, 26) + Word(p, A) + Word(p, A + 2))
  /\ Cong(Word(e, 26) + Word(d, P), Word(d, 26) + Word(p, P))

LEMMA StagedIs ==
  ASSUME NEW m \in Nat, m > 28, NEW p \in Packet(m), NEW A \in {12, 16}, NEW P \in {20, 22},
         NEW ip \in Packet(4), NEW port \in Packet(2),
         NEW a, a = Write(p, A, ip), NEW b, b = CsumReplace(a, 10, p, A, 4),
         NEW c, c = CsumReplace(b, 26, p, A, 4), NEW d, d = Write(c, P, port),
         NEW e, e = CsumReplace(d, 26, p, P, 2)
  PROVE  Staged(p, a, b, c, d, e, m, A, P, ip, port)
<1>1. A \in Nat /\ A + 4 <= m /\ P \in Nat /\ P + 2 <= m /\ 10 + 2 <= m /\ 26 + 2 <= m
      /\ 10 \in Nat /\ 26 \in Nat /\ 4 \in Nat /\ 2 \in Nat
  BY SMT
<1>2. Wrote(a, p, A, 4, ip, m)
  BY <1>1, WriteBytes
<1>3. a \in Packet(m)
  BY <1>2 DEF Wrote
<1>4. /\ Changed(b, a, 10, m)
      /\ Cong(Word(b, 10) + Word(a, A) + Word(a, A + 2), Word(a, 10) + Word(p, A) + Word(p, A + 2))
  BY <1>1, <1>3, CsumReplace4
<1>5. /\ Changed(c, b, 26, m)
      /\ Cong(Word(c, 26) + Word(b, A) + Word(b, A + 2), Word(b, 26) + Word(p, A) + Word(p, A + 2))
  <2>1. b \in Packet(m)
    BY <1>4 DEF Changed
  <2> QED BY <1>1, <2>1, CsumReplace4
<1>6. Wrote(d, c, P, 2, port, m)
  <2>1. c \in Packet(m)
    BY <1>5 DEF Changed
  <2> QED BY <1>1, <2>1, WriteBytes
<1>7. d \in Packet(m)
  BY <1>6 DEF Wrote
<1>8. /\ Changed(e, d, 26, m)
      /\ Cong(Word(e, 26) + Word(d, P), Word(d, 26) + Word(p, P))
  BY <1>1, <1>7, CsumReplace2
<1> QED BY <1>2, <1>4, <1>5, <1>6, <1>8 DEF Staged

\* Nothing but checksums, the address and the port changes.
Elsewhere(k, A, P) ==
  /\ Apart(10, k) /\ Apart(26, k) /\ Apart(P, k)
  /\ k <= A \/ A + 4 < k

LEMMA StagedKeeps ==
  ASSUME NEW m \in Nat, m > 28, NEW p \in Packet(m), NEW A \in {12, 16}, NEW P \in {20, 22},
         NEW ip, NEW port, NEW a, NEW b, NEW c, NEW d, NEW e,
         Staged(p, a, b, c, d, e, m, A, P, ip, port)
  PROVE  /\ \A q \in {a, b, d, e} :
              q \in Packet(m) /\ \A k \in 1..m : Elsewhere(k, A, P) => q[k] = p[k]
         /\ \A j \in 1..4 : e[A + j] = ip[j]
         /\ \A j \in 1..2 : e[P + j] = port[j]
<1> USE DEF Staged, Wrote, Changed
<1>1. a \in Packet(m) /\ \A k \in 1..m : Elsewhere(k, A, P) => a[k] = p[k]
  BY SMT DEF Elsewhere
<1>2. b \in Packet(m) /\ \A k \in 1..m : Elsewhere(k, A, P) => b[k] = p[k]
  BY <1>1, SMT DEF Elsewhere
<1>3. c \in Packet(m) /\ \A k \in 1..m : Elsewhere(k, A, P) => c[k] = p[k]
  BY <1>2, SMT DEF Elsewhere
<1>4. d \in Packet(m) /\ \A k \in 1..m : Elsewhere(k, A, P) => d[k] = p[k]
  BY <1>3, SMT DEF Elsewhere, Apart
<1>5. e \in Packet(m) /\ \A k \in 1..m : Elsewhere(k, A, P) => e[k] = p[k]
  BY <1>4, SMT DEF Elsewhere
<1>6. ASSUME NEW j \in Nat, 1 <= j, j <= 4 PROVE e[A + j] = ip[j]
  <2>1. A + j \in 1..m /\ Apart(10, A + j) /\ Apart(26, A + j)
        /\ ~(P + 1 <= A + j /\ A + j <= P + 2) /\ A + 1 <= A + j /\ A + j <= A + 4
        /\ (A + j) - A = j
    BY <1>6, SMT DEF Apart
  <2> QED BY <2>1
<1>7. ASSUME NEW j \in Nat, 1 <= j, j <= 2 PROVE e[P + j] = port[j]
  <2>1. P + j \in 1..m /\ Apart(26, P + j) /\ P + 1 <= P + j /\ P + j <= P + 2
        /\ (P + j) - P = j
    BY <1>7, SMT DEF Apart
  <2> QED BY <2>1
<1> HIDE DEF Staged, Wrote, Changed
<1>8. (\A j \in 1..4 : e[A + j] = ip[j]) /\ (\A j \in 1..2 : e[P + j] = port[j])
  BY <1>6, <1>7, SMT
<1> QED BY <1>1, <1>2, <1>4, <1>5, <1>8

\* The IP checksum is right after the move if and only if it was before.
LEMMA StagedIp ==
  ASSUME NEW m \in Nat, m > 28, NEW p \in Packet(m), NEW A \in {12, 16}, NEW P \in {20, 22},
         NEW ip, NEW port, NEW a, NEW b, NEW c, NEW d, NEW e,
         Staged(p, a, b, c, d, e, m, A, P, ip, port)
  PROVE  IpVerifies(e) <=> IpVerifies(p)
<1>1. a \in Packet(m) /\ b \in Packet(m) /\ e \in Packet(m)
  BY DEF Staged, Wrote, Changed
<1>2. LeSum(a, 0, 20) + Word(p, A) + Word(p, A + 2) = LeSum(p, 0, 20) + Word(a, A) + Word(a, A + 2)
  <2>1. PICK j \in Nat : 2 * j = A
    <3>1. 2 * 6 = 12 /\ 2 * 8 = 16 /\ 6 \in Nat /\ 8 \in Nat
      BY SMT
    <3> QED BY <3>1
  <2>2. 20 \in Nat /\ 20 <= m /\ 2 * j + 3 < 20
    BY <2>1, SMT
  <2>3. \A k \in 1..m : k <= 2 * j \/ 2 * j + 4 < k => a[k] = p[k]
    BY <2>1, SMT DEF Staged, Wrote
  <2>4. LeSum(a, 0, 20) + Word(p, 2 * j) + Word(p, 2 * j + 2)
          = LeSum(p, 0, 20) + Word(a, 2 * j) + Word(a, 2 * j + 2)
    BY <1>1, <2>2, <2>3, TwoWordsChange
  <2> QED BY <2>1, <2>4
<1>3. LeSum(b, 0, 20) + Word(a, 10) = LeSum(a, 0, 20) + Word(b, 10)
  <2>1. 0 + 2 * 5 = 10 /\ 0 + 20 <= m /\ 2 * 5 + 1 < 20 /\ 0 \in Nat /\ 5 \in Nat /\ 20 \in Nat
    BY SMT
  <2>2. \A k \in 1..m : Apart(0 + 2 * 5, k) => b[k] = a[k]
    BY <2>1 DEF Staged, Changed
  <2>3. LeSum(b, 0, 20) + Word(a, 0 + 2 * 5) = LeSum(a, 0, 20) + Word(b, 0 + 2 * 5)
    BY <1>1, <2>1, <2>2, WordChange
  <2> QED BY <2>1, <2>3
<1>4. LeSum(e, 0, 20) = LeSum(b, 0, 20)
  <2>1. 0 \in Nat /\ 20 \in Nat /\ 0 + 20 <= m
    BY SMT
  <2>2. ASSUME NEW k \in Nat, 1 <= k, k <= 20 PROVE e[k] = b[k]
    BY <2>2, SMT DEF Staged, Wrote, Changed, Apart
  <2>3. Agree(e, b, 0, 20)
    BY <2>2, SMT DEF Agree
  <2> QED BY <1>1, <2>1, <2>3, WordsSame
<1>5. LeSum(a, 0, 20) \in Nat /\ LeSum(b, 0, 20) \in Nat /\ LeSum(p, 0, 20) \in Nat
  <2>1. 0 \in Nat /\ 20 \in Nat /\ 0 + 20 <= m
    BY SMT
  <2> QED BY <1>1, <2>1, LeNat
<1>6. /\ Is16(Word(a, 10)) /\ Is16(Word(b, 10)) /\ Is16(Word(p, A)) /\ Is16(Word(p, A + 2))
      /\ Is16(Word(a, A)) /\ Is16(Word(a, A + 2))
  <2>1. A \in Nat /\ A + 2 \in Nat /\ A + 2 <= m /\ (A + 2) + 2 <= m /\ 10 \in Nat /\ 10 + 2 <= m
    BY SMT
  <2> QED BY <1>1, <2>1, WordType
<1>7. Cong(Word(b, 10) + Word(a, A) + Word(a, A + 2), Word(a, 10) + Word(p, A) + Word(p, A + 2))
  BY DEF Staged
<1>8. Cong(LeSum(b, 0, 20), LeSum(p, 0, 20))
  BY <1>2, <1>3, <1>5, <1>6, <1>7, SMT DEF Cong, Is16
<1>9. Cong(LeSum(b, 0, 20), 0) <=> Cong(LeSum(p, 0, 20), 0)
  BY <1>5, <1>8, CongBoth, SMT
<1> QED BY <1>1, <1>4, <1>9, IpIsLe

LEMMA SameLength ==
  ASSUME NEW p, NEW q, q[25] = p[25], q[26] = p[26]
  PROVE  Length(q) = Length(p)
BY SMT DEF Length, Ntohs, UdpLen

\* One of the ports or the checksum changed.
LEMMA UdpWordChange ==
  ASSUME NEW m \in Nat, NEW p \in Packet(m), NEW o \in {20, 22, 26}, NEW q, Changed(q, p, o, m),
         NEW n \in Nat, 8 <= n, 20 + n <= m
  PROVE  LeSum(q, 20, n) + Word(p, o) = LeSum(p, 20, n) + Word(q, o)
<1>1. PICK j \in Nat : 20 + 2 * j = o /\ j <= 3
  <2>1. 20 + 2 * 0 = 20 /\ 20 + 2 * 1 = 22 /\ 20 + 2 * 3 = 26 /\ 0 <= 3 /\ 1 <= 3 /\ 3 <= 3
        /\ 0 \in Nat /\ 1 \in Nat /\ 3 \in Nat
    BY SMT
  <2> QED BY <2>1
<1>2. 2 * j + 1 < n /\ 20 \in Nat
  BY <1>1, SMT
<1>3. q \in Packet(m) /\ \A k \in 1..m : Apart(20 + 2 * j, k) => q[k] = p[k]
  BY <1>1 DEF Changed
<1>4. LeSum(q, 20, n) + Word(p, 20 + 2 * j) = LeSum(p, 20, n) + Word(q, 20 + 2 * j)
  BY <1>2, <1>3, WordChange
<1> QED BY <1>1, <1>4

\* So is the UDP checksum.
LEMMA StagedUdp ==
  ASSUME NEW m \in Nat, m > 28, NEW p \in Packet(m), NEW A \in {12, 16}, NEW P \in {20, 22},
         NEW ip, NEW port, NEW a, NEW b, NEW c, NEW d, NEW e,
         Staged(p, a, b, c, d, e, m, A, P, ip, port), 8 <= Length(p), Length(p) <= m - 20
  PROVE  UdpVerifies(e) <=> UdpVerifies(p)
<1> DEFINE L == Length(p)
           S(q) == LeSum(q, 20, L)
<1>1. a \in Packet(m) /\ b \in Packet(m) /\ c \in Packet(m) /\ d \in Packet(m) /\ e \in Packet(m)
  BY DEF Staged, Wrote, Changed
<1>2. L \in Nat /\ 8 <= L /\ 20 + L <= m /\ 20 \in Nat
  BY PseudoType, SMT DEF Is16
<1>3. Length(e) = L
  <2>1. 25 \in 1..m /\ 26 \in 1..m /\ Elsewhere(25, A, P) /\ Elsewhere(26, A, P)
    BY SMT DEF Elsewhere, Apart
  <2>2. e[25] = p[25] /\ e[26] = p[26]
    BY <2>1, StagedKeeps
  <2> QED BY <2>2, SameLength
<1> HIDE DEF L
<1>4. S(b) = S(p)
  <2>1. Agree(b, p, 20, L)
    BY <1>2, SMT DEF Staged, Wrote, Changed, Apart, Agree
  <2> QED BY <1>1, <1>2, <2>1, WordsSame
<1>5. S(c) + Word(b, 26) = S(b) + Word(c, 26)
  BY <1>1, <1>2, UdpWordChange DEF Staged
<1>6. S(d) + Word(c, P) = S(c) + Word(d, P)
  <2>1. Changed(d, c, P, m)
    BY SMT DEF Staged, Wrote, Changed, Apart
  <2>2. P \in {20, 22, 26}
    OBVIOUS
  <2> QED BY <1>1, <1>2, <2>1, <2>2, UdpWordChange
<1>7. S(e) + Word(d, 26) = S(d) + Word(e, 26)
  BY <1>1, <1>2, UdpWordChange DEF Staged
<1>8. Word(d, 26) = Word(c, 26) /\ Word(c, P) = Word(p, P)
  BY SMT DEF Staged, Wrote, Changed, Apart, Word
<1>9. PseudoHeader(e) + Word(p, A) + Word(p, A + 2) = PseudoHeader(p) + Word(b, A) + Word(b, A + 2)
  <2>1. \A q : PseudoHeader(q) = Word(q, 12) + Word(q, 14) + Word(q, 16) + Word(q, 18) + 4352 + Word(q, 24)
    BY SMT DEF PseudoHeader, Saddr, Daddr, UdpLen
  <2>2. \A k \in 1..m : 13 <= k /\ k <= 20 => e[k] = b[k]
    BY SMT DEF Staged, Wrote, Changed, Apart
  <2>3. /\ Word(e, 12) = Word(b, 12) /\ Word(e, 14) = Word(b, 14)
        /\ Word(e, 16) = Word(b, 16) /\ Word(e, 18) = Word(b, 18)
    BY <2>2, SMT DEF Word
  <2>4. Word(e, 24) = Word(p, 24)
    BY SMT DEF Staged, Wrote, Changed, Apart, Word
  <2>5. IF A = 12 THEN Word(b, 16) = Word(p, 16) /\ Word(b, 18) = Word(p, 18)
                  ELSE Word(b, 12) = Word(p, 12) /\ Word(b, 14) = Word(p, 14)
    BY SMT DEF Staged, Wrote, Changed, Apart, Word
  <2>6. ASSUME NEW q \in {p, b}, NEW o \in {12, 14, 16, 18, 24} PROVE Word(q, o) \in Nat
    <3>1. q \in Packet(m) /\ o \in Nat /\ o + 2 <= m
      BY <1>1, SMT
    <3> QED BY <3>1, WordType DEF Is16
  <2>7. /\ Word(p, 12) \in Nat /\ Word(p, 14) \in Nat /\ Word(p, 16) \in Nat /\ Word(p, 18) \in Nat
        /\ Word(b, 12) \in Nat /\ Word(b, 14) \in Nat /\ Word(b, 16) \in Nat /\ Word(b, 18) \in Nat
        /\ Word(p, 24) \in Nat
    BY <2>6
  <2>8. CASE A = 12
    <3>1. 12 + 2 = 14
      BY SMT
    <3> QED BY <2>1, <2>3, <2>4, <2>5, <2>7, <2>8, <3>1, SMT
  <2>9. CASE A = 16
    <3>1. 16 + 2 = 18
      BY SMT
    <3> QED BY <2>1, <2>3, <2>4, <2>5, <2>7, <2>9, <3>1, SMT
  <2> QED BY <2>8, <2>9
<1>10. S(p) \in Nat /\ S(c) \in Nat /\ S(d) \in Nat /\ S(e) \in Nat
  BY <1>1, <1>2, LeNat
<1>11. /\ Is16(Word(p, A)) /\ Is16(Word(p, A + 2)) /\ Is16(Word(b, A)) /\ Is16(Word(b, A + 2))
       /\ Is16(Word(p, P)) /\ Is16(Word(d, P))
       /\ Is16(Word(b, 26)) /\ Is16(Word(c, 26)) /\ Is16(Word(e, 26))
  <2>1. A \in Nat /\ A + 2 \in Nat /\ A + 2 <= m /\ (A + 2) + 2 <= m /\ P \in Nat /\ P + 2 <= m
        /\ 26 \in Nat /\ 26 + 2 <= m
    BY SMT
  <2> QED BY <1>1, <2>1, WordType
<1>12. Cong(Word(c, 26) + Word(b, A) + Word(b, A + 2), Word(b, 26) + Word(p, A) + Word(p, A + 2))
  BY DEF Staged
<1>13. Cong(Word(e, 26) + Word(d, P), Word(c, 26) + Word(p, P))
  BY <1>8 DEF Staged
<1>14. PseudoHeader(p) \in Nat /\ PseudoHeader(e) \in Nat
  BY <1>1, PseudoType
<1> HIDE DEF S
<1>15. Cong(PseudoHeader(e) + S(e), PseudoHeader(p) + S(p))
  <2>1. Cong(PseudoHeader(e) + S(c), PseudoHeader(p) + S(p))
    BY <1>4, <1>5, <1>9, <1>10, <1>11, <1>12, <1>14, SMT DEF Cong, Is16
  <2>2. Cong(S(e), S(c))
    BY <1>6, <1>7, <1>8, <1>10, <1>11, <1>13, SMT DEF Cong, Is16
  <2> QED BY <1>10, <1>14, <2>1, <2>2, SMT DEF Cong
<1>16. UdpLe(e) = PseudoHeader(e) + S(e) /\ UdpLe(p) = PseudoHeader(p) + S(p)
  BY <1>3 DEF UdpLe, L, S, Udp
<1>17. UdpLe(e) \in Int /\ UdpLe(p) \in Int /\ Cong(UdpLe(e), UdpLe(p))
  BY <1>10, <1>14, <1>15, <1>16, SMT
<1>18. Cong(UdpLe(e), 0) <=> Cong(UdpLe(p), 0)
  BY <1>17, CongBoth
<1>19. Length(e) <= m - 20
  BY <1>3 DEF L
<1> QED BY <1>1, <1>18, <1>19, UdpIsLe

-----------------------------------------------------------------------------
(* xdp_broker readdresses the packet.                                      *)

Words16(f, n) == \A k \in 0..(n - 1) : Is16(f[k])

\* n words add up to at most n times the largest one.
LEMMA SumBound ==
  ASSUME NEW n \in Nat, NEW f, Words16(f, n)
  PROVE  SumFunctionOnSet(f, 0..(n - 1)) <= 65535 * n
<1> DEFINE F(k) == SumFunctionOnSet(f, 0..(k - 1))
           S == {k \in Nat : k <= n => F(k) <= 65535 * k}
<1>1. 0 \in S
  <2>1. 0..(0 - 1) = {}
    BY SMT
  <2>2. F(0) = 0
    BY <2>1, SumNone
  <2> QED BY <2>2, SMT
<1>2. ASSUME NEW k \in Nat, k \in S PROVE k + 1 \in S
  <2> SUFFICES ASSUME k + 1 <= n PROVE F(k + 1) <= 65535 * (k + 1)
    OBVIOUS
  <2>1. k \in 0..(n - 1) /\ (k + 1) - 1 = k /\ k <= n
    BY SMT
  <2>2. OnNat(f, 0..k)
    BY <2>1, SMT DEF OnNat, Words16, Is16
  <2>3. SumFunctionOnSet(f, 0..k) = F(k) + f[k] /\ F(k) \in Nat
    BY <2>2, SumLast
  <2>4. F(k + 1) = F(k) + f[k]
    BY <2>1, <2>3
  <2>5. f[k] \in Nat /\ f[k] <= 65535
    BY <2>1 DEF Words16, Is16
  <2>6. F(k) <= 65535 * k
    BY <1>2, <2>1
  <2> HIDE DEF F
  <2> QED BY <2>3, <2>4, <2>5, <2>6, SMT
<1> HIDE DEF S
<1>3. n \in S
  BY <1>1, <1>2, Induct
<1> QED BY <1>3 DEF S

LEMMA IpChecksum ==
  ASSUME NEW m \in Nat, m > 28, NEW z \in Packet(m)
  PROVE  /\ compute_ip_checksum(z) = Finish(LeSum(z, 0, 20))
         /\ LeSum(z, 0, 20) \in Nat /\ LeSum(z, 0, 20) < 65536 * 65536
<1> DEFINE f == LeWords(z, 0, 20)
           n == 10
<1>1. Words(20) = 0..9 /\ Words(20) = 0..(n - 1) /\ n \in Nat /\ n <= 10
  BY SMT DEF Words
<1> HIDE DEF n
<1>2. ASSUME NEW k \in Words(20) PROVE f[k] = Word(z, 2 * k) /\ Is16(f[k])
  <2>1. k \in Nat /\ 2 * k < 20
    BY WordsOf
  <2>2. f[k] = Word(z, 2 * k)
    BY <2>1, SMT DEF LeWords, LeWord, Word
  <2>3. 2 * k \in Nat /\ 2 * k + 2 <= m
    BY <2>1, SMT
  <2> QED BY <2>2, <2>3, WordType
<1>3. f = [k \in 0..9 |-> Word(z, 2 * k)]
  <2>1. f = [k \in Words(20) |-> Word(z, 2 * k)]
    BY <1>2 DEF LeWords
  <2> QED BY <1>1, <2>1
<1>4. compute_ip_checksum(z) = Finish(LeSum(z, 0, 20))
  <2>1. DOMAIN f = Words(20)
    BY DEF LeWords
  <2>2. SumFunction(f) = LeSum(z, 0, 20)
    BY <2>1 DEF SumFunction, LeSum
  <2> QED BY <1>3, <2>2 DEF compute_ip_checksum
<1>5. LeSum(z, 0, 20) \in Nat
  BY LeNat, SMT
<1>6. Words16(f, n)
  BY <1>1, <1>2 DEF Words16
<1> HIDE DEF f
<1>7. SumFunctionOnSet(f, 0..(n - 1)) <= 65535 * n
  BY <1>1, <1>6, SumBound
<1>8. LeSum(z, 0, 20) <= 65535 * n
  BY <1>1, <1>7 DEF LeSum, f
<1> QED BY <1>1, <1>4, <1>5, <1>8, SMT

\* q is p from the broker to a subscriber, with a UDP checksum of zero.
Moved(q, p, ip, port, m) ==
  /\ q \in Packet(m)
  /\ \A k \in 1..m : k <= 10 \/ k \in {25, 26} \/ 28 < k => q[k] = p[k]
  /\ \A k \in 1..m : 12 < k /\ k <= 16 => q[k] = p[k + 4]
  /\ \A k \in 1..m : 16 < k /\ k <= 20 => q[k] = ip[k - 16]
  /\ \A k \in 1..m : 20 < k /\ k <= 22 => q[k] = p[k + 2]
  /\ \A k \in 1..m : 22 < k /\ k <= 24 => q[k] = port[k - 22]
  /\ Word(q, 26) = 0
  /\ IpVerifies(q)

LEMMA ReaddressedMoves ==
  ASSUME NEW m \in Nat, m > 28, NEW p \in Packet(m), NEW s, s.ip \in Packet(4), s.port \in Packet(2)
  PROVE  Moved(Readdressed(p, s), p, s.ip, s.port, m)
<1> DEFINE a == Write(p, 12, Field(p, 16, 4))
           b == Write(a, 16, s.ip)
           z == Store(b, 10, 0)
           c == Store(z, 10, compute_ip_checksum(z))
           d == Write(c, 20, Field(p, 22, 2))
           e == Write(d, 22, s.port)
           q == Store(e, 26, 0)
<1>1. Readdressed(p, s) = q
  BY DEF Readdressed, Saddr, Daddr, IpCheck, Source, Dest, UdpCheck
<1>2. /\ 12 \in Nat /\ 16 \in Nat /\ 4 \in Nat /\ 16 + 4 <= m /\ 10 \in Nat /\ 10 + 2 <= m
      /\ 20 \in Nat /\ 22 \in Nat /\ 2 \in Nat /\ 22 + 2 <= m /\ 26 \in Nat /\ 26 + 2 <= m
      /\ Is16(0)
  BY SMT DEF Is16
<1>3. /\ Field(p, 16, 4) \in Packet(4) /\ Field(p, 22, 2) \in Packet(2)
      /\ \A k \in 1..4 : Field(p, 16, 4)[k] = p[16 + k]
      /\ \A k \in 1..2 : Field(p, 22, 2)[k] = p[22 + k]
  <2>1. IsField(Field(p, 16, 4), p, 16, 4) /\ IsField(Field(p, 22, 2), p, 22, 2)
    BY <1>2, FieldBytes
  <2> QED BY <2>1 DEF IsField
<1>4. Wrote(a, p, 12, 4, Field(p, 16, 4), m)
  BY <1>2, <1>3, WriteBytes
<1> HIDE DEF a
<1>5. Wrote(b, a, 16, 4, s.ip, m)
  <2>1. a \in Packet(m)
    BY <1>4 DEF Wrote
  <2> QED BY <1>2, <2>1, WriteBytes
<1> HIDE DEF b
<1>6. z \in Packet(m) /\ Word(z, 10) = 0 /\ \A k \in 1..m : Apart(10, k) => z[k] = b[k]
  <2>1. b \in Packet(m)
    BY <1>5 DEF Wrote
  <2> QED BY <1>2, <2>1, StoreBytes DEF Changed
<1> HIDE DEF z
<1> DEFINE w == compute_ip_checksum(z)
<1>7. Is16(w) /\ Cong(LeSum(z, 0, 20) + w, 0) /\ LeSum(z, 0, 20) \in Nat
  BY <1>6, IpChecksum, FinishType, FinishSum
<1> HIDE DEF w
<1>8. c \in Packet(m) /\ Word(c, 10) = w /\ \A k \in 1..m : Apart(10, k) => c[k] = z[k]
  <2>1. Changed(Store(z, 10, w), z, 10, m) /\ Word(Store(z, 10, w), 10) = w
    BY <1>2, <1>6, <1>7, StoreBytes
  <2> QED BY <2>1 DEF w, Changed
<1> HIDE DEF c
<1>9. Wrote(d, c, 20, 2, Field(p, 22, 2), m)
  BY <1>2, <1>3, <1>8, WriteBytes
<1> HIDE DEF d
<1>10. Wrote(e, d, 22, 2, s.port, m)
  <2>1. d \in Packet(m)
    BY <1>9 DEF Wrote
  <2> QED BY <1>2, <2>1, WriteBytes
<1> HIDE DEF e
<1>11. q \in Packet(m) /\ Word(q, 26) = 0 /\ \A k \in 1..m : Apart(26, k) => q[k] = e[k]
  <2>1. e \in Packet(m)
    BY <1>10 DEF Wrote
  <2> QED BY <1>2, <2>1, StoreBytes DEF Changed
<1> HIDE DEF q
<1> USE DEF Apart
<1>12. \A k \in 1..m : k <= 20 => q[k] = c[k]
  BY <1>9, <1>10, <1>11, SMT DEF Wrote
<1>13. \A k \in 1..m : k \notin {11, 12} => c[k] = b[k]
  BY <1>6, <1>8, SMT
<1>14. \A k \in 1..m : k <= 10 \/ k \in {25, 26} \/ 28 < k => q[k] = p[k]
  <2>1. \A k \in 1..m : k <= 10 \/ 20 < k => c[k] = p[k]
    BY <1>4, <1>5, <1>13, SMT DEF Wrote
  <2>2. \A k \in 1..m : k \in {25, 26} \/ 28 < k => q[k] = c[k]
    BY <1>9, <1>10, <1>11, SMT DEF Wrote
  <2> QED BY <1>12, <2>1, <2>2, SMT
<1>15. \A k \in 1..m : 12 < k /\ k <= 16 => q[k] = p[k + 4]
  <2>1. ASSUME NEW k \in 1..m, 12 < k, k <= 16 PROVE q[k] = p[k + 4]
    <3>1. q[k] = a[k]
      BY <1>5, <1>12, <1>13, <2>1, SMT DEF Wrote
    <3>2. a[k] = Field(p, 16, 4)[k - 12]
      BY <1>4, <2>1, SMT DEF Wrote
    <3>3. k - 12 \in 1..4 /\ 16 + (k - 12) = k + 4
      BY <2>1, SMT
    <3> QED BY <1>3, <3>1, <3>2, <3>3
  <2> QED BY <2>1
<1>16. \A k \in 1..m : 16 < k /\ k <= 20 => q[k] = s.ip[k - 16]
  BY <1>5, <1>12, <1>13, SMT DEF Wrote
<1>17. \A k \in 1..m : 20 < k /\ k <= 22 => q[k] = p[k + 2]
  <2>1. ASSUME NEW k \in 1..m, 20 < k, k <= 22 PROVE q[k] = p[k + 2]
    <3>1. q[k] = d[k]
      BY <1>10, <1>11, <2>1, SMT DEF Wrote
    <3>2. d[k] = Field(p, 22, 2)[k - 20]
      BY <1>9, <2>1, SMT DEF Wrote
    <3>3. k - 20 \in 1..2 /\ 22 + (k - 20) = k + 2
      BY <2>1, SMT
    <3> QED BY <1>3, <3>1, <3>2, <3>3
  <2> QED BY <2>1
<1>18. \A k \in 1..m : 22 < k /\ k <= 24 => q[k] = s.port[k - 22]
  BY <1>10, <1>11, SMT DEF Wrote
<1>19. IpVerifies(q)
  <2>1. 0 + 2 * 5 = 10 /\ 0 + 20 <= m /\ 2 * 5 + 1 < 20 /\ 0 \in Nat /\ 5 \in Nat
    BY SMT
  <2>2. \A k \in 1..m : Apart(0 + 2 * 5, k) => c[k] = z[k]
    BY <1>8, <2>1
  <2>3. LeSum(c, 0, 20) + Word(z, 0 + 2 * 5) = LeSum(z, 0, 20) + Word(c, 0 + 2 * 5)
    BY <1>2, <1>6, <1>8, <2>1, <2>2, WordChange
  <2>4. LeSum(c, 0, 20) \in Nat
    BY <1>2, <1>8, <2>1, LeNat
  <2>5. LeSum(c, 0, 20) + 0 = LeSum(z, 0, 20) + w
    BY <1>6, <1>8, <2>1, <2>3
  <2>6. LeSum(c, 0, 20) = LeSum(z, 0, 20) + w
    BY <2>4, <2>5, SMT
  <2>7. LeSum(q, 0, 20) = LeSum(c, 0, 20)
    <3>1. \A k \in (0 + 1)..(0 + 20) : k \in 1..m /\ k <= 20
      BY SMT
    <3>2. Agree(q, c, 0, 20)
      BY <1>12, <3>1 DEF Agree
    <3>3. q \in Packet(m) /\ c \in Packet(m) /\ 20 \in Nat /\ 0 \in Nat /\ 0 + 20 <= m
      BY <1>2, <1>8, <1>11, <2>1
    <3> QED BY <3>2, <3>3, WordsSame
  <2>8. Cong(LeSum(q, 0, 20), 0)
    BY <1>7, <2>6, <2>7
  <2> QED BY <1>11, <2>8, IpIsLe
<1> QED BY <1>1, <1>11, <1>14, <1>15, <1>16, <1>17, <1>18, <1>19 DEF Moved

-----------------------------------------------------------------------------
(* States.                                                                 *)

USE SizesAssumption

LEMMA PacketSeq ==
  ASSUME NEW p
  PROVE  /\ p \in Seq(Byte) => Len(p) \in Nat /\ p \in Packet(Len(p))
         /\ \A m \in Nat : p \in Packet(m) => p \in Seq(Byte) /\ Len(p) = m
<1>1. p \in Seq(Byte) => Len(p) \in Nat /\ p \in Packet(Len(p))
  BY LenProperties DEF Packet
<1>2. ASSUME NEW m \in Nat, p \in Packet(m) PROVE p \in Seq(Byte) /\ Len(p) = m
  <2>1. p \in [1..m -> Byte]
    BY <1>2 DEF Packet
  <2> QED BY <2>1, SMT
<1> QED BY <1>1, <1>2

\* What the assumptions say of a frame and of the subscribers of a topic.
LEMMA FrameBytes ==
  ASSUME NEW f \in Frames
  PROVE  /\ f.bytes \in Seq(Byte) /\ Len(f.bytes) \in Nat
         /\ f.bytes \in Packet(Len(f.bytes))
<1>1. f.bytes \in Seq(Byte)
  BY BytesAssumption
<1> QED BY <1>1, PacketSeq

LEMMA RouteAddresses ==
  ASSUME NEW r \in Routes \cup {<< >>}
  PROVE  /\ r \in Seq(Address) /\ Len(r) \in Nat
         /\ \A k \in 1..Len(r) : r[k] \in Address
                                 /\ r[k].ip \in Packet(4) /\ r[k].port \in Packet(2)
<1>1. r \in Seq(Address)
  <2>1. \A x \in Routes : x \in Seq(Address)
    BY BytesAssumption
  <2> QED BY <2>1, EmptySeq
<1>2. \A k \in 1..Len(r) : r[k] \in Address
  BY <1>1, ElementOfSeq
<1>3. \A x \in Address : x.ip \in Packet(4) /\ x.port \in Packet(2)
  BY DEF Address, Packet
<1> QED BY <1>1, <1>2, <1>3, LenProperties

\* The bytes of a packet in a state of the program.
LEMMA StateBytes ==
  ASSUME TypeOK
  PROVE  /\ Len(frame.bytes) \in Nat
         /\ frame.bytes \in Packet(Len(frame.bytes))
         /\ skb \in Packet(Len(frame.bytes))
BY FrameBytes, PacketSeq DEF TypeOK

\* What tc_ingress_broker does with a packet.
LEMMA FromBrokerIs ==
  ASSUME NEW m \in Nat, m > 28, NEW p \in Packet(m)
  PROVE  LET st == FromBroker(p) IN
         \E c : Staged(p, st.address, st.ip_sum, c, st.port, st.all, m, 12, 20,
                       Field(p, 16, 4), Field(p, 22, 2))
<1> DEFINE ip == Field(p, 16, 4)
           port == Field(p, 22, 2)
           a == Write(p, 12, ip)
           b == CsumReplace(a, 10, p, 12, 4)
           c == CsumReplace(b, 26, p, 12, 4)
           d == Write(c, 20, port)
           e == CsumReplace(d, 26, p, 20, 2)
<1>1. FromBroker(p) = [address |-> a, ip_sum |-> b, port |-> d, all |-> e]
  BY DEF FromBroker, Saddr, Daddr, IpCheck, UdpCheck, Source, Dest
<1>2. ip \in Packet(4) /\ port \in Packet(2)
  <2>1. 16 \in Nat /\ 4 \in Nat /\ 16 + 4 <= m /\ 22 \in Nat /\ 2 \in Nat /\ 22 + 2 <= m
    BY SMT
  <2> QED BY <2>1, FieldBytes DEF IsField
<1> HIDE DEF ip, port
<1>3. 12 \in {12, 16} /\ 20 \in {20, 22}
  OBVIOUS
<1>4. Staged(p, a, b, c, d, e, m, 12, 20, ip, port)
  BY <1>2, <1>3, StagedIs
<1> HIDE DEF a, b, c, d, e
<1> QED BY <1>1, <1>4 DEF ip, port

\* What callback_fn does with it.
LEMMA ToSubscriberIs ==
  ASSUME NEW m \in Nat, m > 28, NEW p \in Packet(m), NEW s, s.ip \in Packet(4), s.port \in Packet(2)
  PROVE  LET st == ToSubscriber(p, s) IN
         \E c : Staged(p, st.address, st.ip_sum, c, st.port, st.all, m, 16, 22, s.ip, s.port)
<1> DEFINE a == Write(p, 16, s.ip)
           b == CsumReplace(a, 10, p, 16, 4)
           c == CsumReplace(b, 26, p, 16, 4)
           d == Write(c, 22, s.port)
           e == CsumReplace(d, 26, p, 22, 2)
<1>1. ToSubscriber(p, s) = [address |-> a, ip_sum |-> b, port |-> d, all |-> e]
  BY DEF ToSubscriber, Daddr, IpCheck, UdpCheck, Dest
<1>2. 16 \in {12, 16} /\ 22 \in {20, 22}
  OBVIOUS
<1>3. Staged(p, a, b, c, d, e, m, 16, 22, s.ip, s.port)
  BY <1>2, StagedIs
<1> HIDE DEF a, b, c, d, e
<1> QED BY <1>1, <1>3

\* Every stage leaves the rest alone; all of them together keep the checksums right, or
\* wrong.
Stages(st, p, m, A, P) ==
  /\ \A q \in {st.address, st.ip_sum, st.port, st.all} :
       q \in Packet(m) /\ \A k \in 1..m : Elsewhere(k, A, P) => q[k] = p[k]
  /\ WellFormed(p) => (Verifies(st.all) <=> Verifies(p))

\* The n bytes at offset o are those of s.
Carries(q, o, s, n) == \A j \in 1..n : q[o + j] = s[j]

LEMMA StagesAre ==
  ASSUME NEW m \in Nat, m > 28, NEW p \in Packet(m), NEW A \in {12, 16}, NEW P \in {20, 22},
         NEW ip, NEW port, NEW st, NEW c,
         Staged(p, st.address, st.ip_sum, c, st.port, st.all, m, A, P, ip, port)
  PROVE  Stages(st, p, m, A, P) /\ Carries(st.all, A, ip, 4) /\ Carries(st.all, P, port, 2)
<1>1. /\ \A q \in {st.address, st.ip_sum, st.port, st.all} :
           q \in Packet(m) /\ \A k \in 1..m : Elsewhere(k, A, P) => q[k] = p[k]
      /\ \A j \in 1..4 : st.all[A + j] = ip[j]
      /\ \A j \in 1..2 : st.all[P + j] = port[j]
  BY StagedKeeps
<1>2. ASSUME WellFormed(p) PROVE Verifies(st.all) <=> Verifies(p)
  <2>1. Len(p) = m
    BY PacketSeq
  <2>2. 8 <= Length(p) /\ Length(p) <= m - 20
    BY <1>2, <2>1, PseudoType, SMT DEF WellFormed, Udp, Is16
  <2>3. IpVerifies(st.all) <=> IpVerifies(p)
    BY StagedIp
  <2>4. UdpVerifies(st.all) <=> UdpVerifies(p)
    BY <2>2, StagedUdp
  <2> QED BY <2>3, <2>4 DEF Verifies
<1> QED BY <1>1, <1>2 DEF Stages, Carries

LEMMA FromBrokerDoes ==
  ASSUME NEW m \in Nat, m > 28, NEW p \in Packet(m)
  PROVE  LET st == FromBroker(p) IN
         /\ Stages(st, p, m, 12, 20)
         /\ \A j \in 1..4 : st.all[12 + j] = p[16 + j]
         /\ \A j \in 1..2 : st.all[20 + j] = p[22 + j]
<1> DEFINE st == FromBroker(p)
           ip == Field(p, 16, 4)
           port == Field(p, 22, 2)
<1>1. PICK c : Staged(p, st.address, st.ip_sum, c, st.port, st.all, m, 12, 20, ip, port)
  BY FromBrokerIs
<1>2. (\A j \in 1..4 : ip[j] = p[16 + j]) /\ (\A j \in 1..2 : port[j] = p[22 + j])
  <2>1. 16 \in Nat /\ 4 \in Nat /\ 16 + 4 <= m /\ 22 \in Nat /\ 2 \in Nat /\ 22 + 2 <= m
    BY SMT
  <2>2. IsField(ip, p, 16, 4) /\ IsField(port, p, 22, 2)
    BY <2>1, FieldBytes
  <2> QED BY <2>2 DEF IsField
<1> HIDE DEF st, ip, port
<1>3. 12 \in {12, 16} /\ 20 \in {20, 22}
  OBVIOUS
<1>4. Stages(st, p, m, 12, 20) /\ Carries(st.all, 12, ip, 4) /\ Carries(st.all, 20, port, 2)
  BY <1>1, <1>3, StagesAre
<1> QED BY <1>2, <1>4 DEF st, Carries

LEMMA ToSubscriberDoes ==
  ASSUME NEW m \in Nat, m > 28, NEW p \in Packet(m), NEW s, s.ip \in Packet(4), s.port \in Packet(2)
  PROVE  LET st == ToSubscriber(p, s) IN
         /\ Stages(st, p, m, 16, 22)
         /\ Carries(st.all, 16, s.ip, 4) /\ Carries(st.all, 22, s.port, 2)
<1> DEFINE st == ToSubscriber(p, s)
<1>1. PICK c : Staged(p, st.address, st.ip_sum, c, st.port, st.all, m, 16, 22, s.ip, s.port)
  BY ToSubscriberIs
<1> HIDE DEF st
<1>2. 16 \in {12, 16} /\ 22 \in {20, 22}
  OBVIOUS
<1>3. /\ Stages(st, p, m, 16, 22)
      /\ Carries(st.all, 16, s.ip, 4) /\ Carries(st.all, 22, s.port, 2)
  BY <1>1, <1>2, StagesAre
<1> QED BY <1>3 DEF st

\* Fields are equal if their bytes are.
LEMMA FieldEqual ==
  ASSUME NEW m \in Nat, NEW p \in Packet(m), NEW o \in Nat, NEW n \in Nat, o + n <= m,
         NEW s \in Packet(n), Carries(p, o, s, n)
  PROVE  Field(p, o, n) = s
<1>1. IsField(Field(p, o, n), p, o, n)
  BY FieldBytes
<1> QED BY <1>1 DEF IsField, Packet, Carries

\* A copy of the packet from the broker that has the address of the subscriber.
LEMMA AddressedIs ==
  ASSUME NEW m \in Nat, m > 28, m = Len(frame.bytes), frame.bytes \in Packet(m),
         NEW c, c.bytes \in Packet(m), c.to.ip \in Packet(4), c.to.port \in Packet(2),
         FromTheBroker(c.bytes),
         Carries(c.bytes, 16, c.to.ip, 4), Carries(c.bytes, 22, c.to.port, 2)
  PROVE  Addressed(c)
<1> DEFINE p == c.bytes
           q == frame.bytes
<1>1. /\ 12 \in Nat /\ 16 \in Nat /\ 20 \in Nat /\ 22 \in Nat /\ 4 \in Nat /\ 2 \in Nat
      /\ 12 + 4 <= m /\ 16 + 4 <= m /\ 20 + 2 <= m /\ 22 + 2 <= m
  BY SMT
<1>2. Field(p, 16, 4) = c.to.ip /\ Field(p, 22, 2) = c.to.port
  BY <1>1, FieldEqual
<1> DEFINE n == m - 28
<1>3. n \in Nat /\ 28 \in Nat /\ 28 + n <= m /\ 28 + n = m
  BY SMT
<1> HIDE DEF n
<1>4. /\ IsField(Field(q, 16, 4), q, 16, 4) /\ IsField(Field(q, 22, 2), q, 22, 2)
      /\ IsField(Field(q, 28, n), q, 28, n)
  BY <1>1, <1>3, FieldBytes
<1>5. Carries(p, 12, Field(q, 16, 4), 4) /\ Field(q, 16, 4) \in Packet(4)
  <2>1. \A j \in 1..4 : p[12 + j] = q[16 + j]
    <3>1. \A k \in (12 + 1)..(12 + 4) : p[k] = q[k + 4]
      BY DEF FromTheBroker, Saddr
    <3>2. \A j \in 1..4 : 12 + j \in (12 + 1)..(12 + 4) /\ (12 + j) + 4 = 16 + j
      BY SMT
    <3> QED BY <3>1, <3>2
  <2> QED BY <1>4, <2>1 DEF IsField, Carries
<1>6. Carries(p, 20, Field(q, 22, 2), 2) /\ Field(q, 22, 2) \in Packet(2)
  <2>1. \A j \in 1..2 : p[20 + j] = q[22 + j]
    <3>1. \A k \in (20 + 1)..(20 + 2) : p[k] = q[k + 2]
      BY DEF FromTheBroker, Source
    <3>2. \A j \in 1..2 : 20 + j \in (20 + 1)..(20 + 2) /\ (20 + j) + 2 = 22 + j
      BY SMT
    <3> QED BY <3>1, <3>2
  <2> QED BY <1>4, <2>1 DEF IsField, Carries
<1>7. Carries(p, 28, Field(q, 28, n), n) /\ Field(q, 28, n) \in Packet(n)
  <2>1. \A j \in 1..n : p[28 + j] = q[28 + j]
    <3>1. \A k \in (28 + 1)..m : p[k] = q[k]
      BY DEF FromTheBroker, Payload
    <3>2. \A j \in 1..n : 28 + j \in (28 + 1)..m
      BY <1>3, SMT
    <3> QED BY <3>1, <3>2
  <2> QED BY <1>4, <2>1 DEF IsField, Carries
<1>8. Field(p, 12, 4) = Field(q, 16, 4) /\ Field(p, 20, 2) = Field(q, 22, 2)
  BY <1>1, <1>5, <1>6, FieldEqual
<1>9. Field(p, 28, n) = Field(q, 28, n)
  BY <1>3, <1>7, FieldEqual
<1>10. SubSeq(p, 28 + 1, m) = SubSeq(q, 28 + 1, m)
  BY <1>3, <1>9 DEF Field
<1> QED BY <1>2, <1>8, <1>10 DEF Addressed, Saddr, Daddr, Source, Dest, Payload

-----------------------------------------------------------------------------
(* IInv holds in the first state, and the steps up to the lookup keep it.  *)

LEMMA KeyDomain == DOMAIN EmptyKey = 0..(MAX_TOPIC_ID_CHARS - 1) /\ NUL \in Byte
                   /\ \A k \in DOMAIN EmptyKey : EmptyKey[k] = NUL
BY ByteNat, SMT DEF EmptyKey, NUL

LEMMA NothingSent ==
  << >> \in Seq([to : Address, bytes : Seq(Byte), bad : BOOLEAN]) /\ Len(<< >>) = 0
BY EmptySeq

LEMMA InitInv == Init => IInv
<1> SUFFICES ASSUME Init PROVE IInv
  OBVIOUS
<1>1. pc = "parse" /\ i = 0 /\ topic_id = EmptyKey /\ csum = 0 /\ route = << >> /\ copies = << >>
      /\ bad = FALSE /\ faults = 0 /\ skb = frame.bytes /\ frame \in Frames
  BY DEF Init
<1>2. TypeOK
  <2>1. skb \in Seq(Byte)
    BY <1>1, FrameBytes
  <2>2. 0 \in 0..MAX_TOPIC_ID_CHARS /\ 0 \in 0..MaxFaults
    BY SMT
  <2>3. 0 \in 0..((MaxWords + 6) * (U16 - 1))
    BY Modulus, SMT
  <2>4. topic_id \in [DOMAIN EmptyKey -> Byte]
    BY <1>1, KeyDomain DEF EmptyKey
  <2>5. Len(copies) <= Len(route)
    BY <1>1, NothingSent, SMT
  <2> QED BY <1>1, <2>1, <2>2, <2>3, <2>4, <2>5, NothingSent DEF TypeOK
<1>3. ControlInv
  BY <1>1 DEF ControlInv, Untouched
<1>4. KeyInv
  BY <1>1 DEF KeyInv
<1>5. SumInv /\ WalkInv /\ TxVerifies /\ WalkVerifies
  BY <1>1 DEF SumInv, WalkInv, TxVerifies, WalkVerifies
<1> QED BY <1>2, <1>3, <1>4, <1>5 DEF IInv

\* Where only control is at stake.
LEMMA NotYet ==
  ASSUME pc' \notin {"udp", "tx", "walk", "shot"}
  PROVE  SumInv' /\ WalkInv' /\ TxVerifies' /\ WalkVerifies'
BY DEF SumInv, WalkInv, TxVerifies, WalkVerifies

LEMMA ParseStep ==
  ASSUME IInv, Parse
  PROVE  IInv'
<1>1. /\ pc = "parse" /\ pc' \in {"extract", "pass"} /\ (pc' = "extract" => Parses(frame))
      /\ UNCHANGED <<frame, skb, i, topic_id, csum, route, copies, bad, faults>>
  BY DEF Parse
<1>2. TypeOK'
  BY <1>1 DEF IInv, TypeOK
<1>3. ControlInv'
  BY <1>1 DEF IInv, ControlInv, Untouched, Parses
<1>4. KeyInv'
  <2>1. i = 0 /\ topic_id = EmptyKey
    BY <1>1 DEF IInv, ControlInv, KeyInv
  <2>2. ASSUME NEW k \in DOMAIN topic_id PROVE ~(k < 0) /\ topic_id[k] = NUL
    BY <2>1, KeyDomain, SMT
  <2>3. Read(i)'
    BY <1>1, <2>1, <2>2 DEF Read
  <2> QED BY <1>1, <2>3 DEF KeyInv
<1> QED BY <1>1, <1>2, <1>3, <1>4, NotYet DEF IInv

LEMMA ExtractCharStep ==
  ASSUME IInv, ExtractChar
  PROVE  IInv'
<1> DEFINE o == Payload + Len(Prefix) + i
<1>1. /\ pc = "extract" /\ pc' \in {"extract", "lookup", "pass"} /\ i < MAX_TOPIC_ID_CHARS
      /\ UNCHANGED <<frame, skb, csum, route, copies, bad, faults>>
  BY DEF ExtractChar, InKey
<1>2. /\ TypeOK /\ skb = frame.bytes /\ i \in Nat /\ Read(i) /\ Parses(frame)
      /\ i \in DOMAIN topic_id /\ DOMAIN topic_id = DOMAIN EmptyKey
  <2>1. TypeOK /\ skb = frame.bytes /\ i \in 0..MAX_TOPIC_ID_CHARS /\ Read(i) /\ Parses(frame)
        /\ DOMAIN topic_id = DOMAIN EmptyKey
    BY <1>1 DEF IInv, ControlInv, KeyInv, Untouched, TypeOK
  <2> QED BY <1>1, <2>1, KeyDomain, SMT
<1>3. o \in Nat /\ o = Topic + i /\ Len(skb) \in Nat
  <2>1. Len(Prefix) \in Nat
    BY BytesAssumption, LenProperties
  <2>2. Len(skb) \in Nat
    BY <1>2, FrameBytes DEF TypeOK
  <2> QED BY <1>2, <2>1, <2>2, SMT DEF Payload, Topic
<1>4. \/ pc' = "pass" /\ UNCHANGED <<topic_id, i>>
      \/ /\ o < Len(skb) /\ skb[o + 1] \in KernelStops /\ pc' = "lookup"
         /\ topic_id' = [topic_id EXCEPT ![i] = NUL] /\ i' = i
      \/ /\ o < Len(skb) /\ skb[o + 1] \notin KernelStops /\ pc' = pc
         /\ topic_id' = [topic_id EXCEPT ![i] = skb[o + 1]] /\ i' = i + 1
  BY <1>3, SMT DEF ExtractChar
<1>5. o < Len(skb) => skb[o + 1] \in Byte
  <2>1. skb \in Packet(Len(frame.bytes))
    BY <1>2, StateBytes
  <2> QED BY <1>2, <1>3, <2>1, SMT DEF Packet
<1> HIDE DEF o
<1>6. /\ i' \in 0..MAX_TOPIC_ID_CHARS
      /\ topic_id' \in [DOMAIN EmptyKey -> Byte]
  <2>1. topic_id \in [DOMAIN EmptyKey -> Byte]
    BY <1>2 DEF TypeOK
  <2>2. i' \in 0..MAX_TOPIC_ID_CHARS
    BY <1>1, <1>2, <1>4, SMT
  <2> QED BY <1>4, <1>5, <2>1, <2>2, KeyDomain
<1>7. TypeOK'
  BY <1>1, <1>2, <1>6 DEF TypeOK
<1>8. ControlInv'
  BY <1>1 DEF IInv, ControlInv, Untouched, Parses
<1>9. KeyInv'
  <2>1. CASE pc' = "pass"
    BY <2>1 DEF KeyInv
  <2>2. CASE pc' = "lookup"
    <3>1. /\ o < Len(skb) /\ skb[o + 1] \in KernelStops
          /\ topic_id' = [topic_id EXCEPT ![i] = NUL]
      BY <1>1, <1>4, <2>2
    <3>2. Read(i) /\ DOMAIN topic_id' = DOMAIN topic_id
      BY <1>2, <3>1
    <3>3. \A k \in DOMAIN topic_id : IF k = i THEN topic_id'[k] = NUL ELSE topic_id'[k] = topic_id[k]
      BY <3>1
    <3>4. ~(i < i)
      BY <1>2, SMT
    <3>5. \A k \in DOMAIN topic_id' :
            IF k < i
            THEN /\ Topic + k < Len(frame.bytes)
                 /\ topic_id'[k] = frame.bytes[Topic + k + 1]
                 /\ topic_id'[k] \notin KernelStops
            ELSE topic_id'[k] = NUL
      BY <3>2, <3>3, <3>4 DEF Read
    <3>6. /\ i \in 0..(MAX_TOPIC_ID_CHARS - 1)
          /\ Topic + i < Len(frame.bytes) /\ frame.bytes[Topic + i + 1] \in KernelStops
      BY <1>1, <1>2, <1>3, <3>1, SMT
    <3> QED BY <1>1, <2>2, <3>5, <3>6 DEF KeyInv, Read
  <2>3. CASE pc' = "extract"
    <3>1. /\ o < Len(skb) /\ skb[o + 1] \notin KernelStops /\ i' = i + 1
          /\ topic_id' = [topic_id EXCEPT ![i] = skb[o + 1]]
      BY <1>1, <1>4, <2>3
    <3>2. DOMAIN topic_id' = DOMAIN topic_id
      BY <3>1
    <3>3. ASSUME NEW k \in DOMAIN topic_id
          PROVE  IF k < i + 1
                 THEN /\ Topic + k < Len(frame.bytes)
                      /\ topic_id'[k] = frame.bytes[Topic + k + 1]
                      /\ topic_id'[k] \notin KernelStops
                 ELSE topic_id'[k] = NUL
      <4>1. k \in Nat
        BY <1>2, KeyDomain, SMT
      <4>2. CASE k = i
        <5>1. topic_id'[k] = skb[o + 1] /\ k < i + 1
          BY <1>2, <3>1, <4>2, SMT
        <5> QED BY <1>2, <1>3, <3>1, <4>2, <5>1
      <4>3. CASE k # i
        <5>1. topic_id'[k] = topic_id[k] /\ (k < i + 1 <=> k < i)
          BY <1>2, <3>1, <4>1, <4>3, SMT
        <5> QED BY <1>2, <5>1 DEF Read
      <4> QED BY <4>2, <4>3
    <3>4. Read(i)'
      BY <1>1, <3>1, <3>2, <3>3 DEF Read, Topic
    <3> QED BY <2>3, <3>4 DEF KeyInv
  <2> QED BY <1>1, <2>1, <2>2, <2>3
<1> QED BY <1>1, <1>7, <1>8, <1>9, NotYet DEF IInv

LEMMA ExtractEndStep ==
  ASSUME IInv, ExtractEnd
  PROVE  IInv'
<1> DEFINE n == MAX_TOPIC_ID_CHARS - 1
<1>1. /\ pc = "extract" /\ pc' = "lookup" /\ ~(i < MAX_TOPIC_ID_CHARS)
      /\ topic_id' = [topic_id EXCEPT ![n] = NUL]
      /\ UNCHANGED <<frame, skb, i, csum, route, copies, bad, faults>>
  BY DEF ExtractEnd, InKey
<1>2. /\ TypeOK /\ i \in 0..MAX_TOPIC_ID_CHARS /\ Read(i) /\ DOMAIN topic_id = 0..n /\ Parses(frame)
      /\ DOMAIN topic_id = DOMAIN EmptyKey /\ \A k \in DOMAIN topic_id : topic_id[k] \in Byte
  BY <1>1, KeyDomain DEF IInv, ControlInv, KeyInv, TypeOK
<1>3. n \in 0..n /\ i = n + 1
  BY <1>1, <1>2, SMT
<1> HIDE DEF n
<1>4. /\ DOMAIN topic_id' = DOMAIN topic_id
      /\ \A k \in DOMAIN topic_id : topic_id'[k] = IF k = n THEN NUL ELSE topic_id[k]
  BY <1>1
<1>5. TypeOK'
  <2>1. \A k \in DOMAIN topic_id' : topic_id'[k] \in Byte
    BY <1>2, <1>4, KeyDomain
  <2> QED BY <1>1, <1>2, <1>4, <2>1 DEF TypeOK
<1>6. ControlInv'
  BY <1>1 DEF IInv, ControlInv, Untouched, Parses
<1>7. KeyInv'
  <2>1. ASSUME NEW k \in DOMAIN topic_id
        PROVE  IF k < n
               THEN /\ Topic + k < Len(frame.bytes)
                    /\ topic_id'[k] = frame.bytes[Topic + k + 1]
                    /\ topic_id'[k] \notin KernelStops
               ELSE topic_id'[k] = NUL
    <3>1. k \in Int /\ k <= n
      BY <1>2, <1>3, SMT
    <3>2. CASE k = n
      BY <1>3, <1>4, <3>2, SMT
    <3>3. CASE k # n
      <4>1. k < n /\ k < i /\ topic_id'[k] = topic_id[k]
        BY <1>3, <1>4, <3>1, <3>3, SMT
      <4> QED BY <1>2, <4>1 DEF Read
    <3> QED BY <3>2, <3>3
  <2>2. \A k \in DOMAIN topic_id' :
          IF k < n
          THEN /\ Topic + k < Len(frame.bytes)
               /\ topic_id'[k] = frame.bytes[Topic + k + 1]
               /\ topic_id'[k] \notin KernelStops
          ELSE topic_id'[k] = NUL
    BY <1>4, <2>1
  <2>3. n = MAX_TOPIC_ID_CHARS - 1 /\ n \in 0..(MAX_TOPIC_ID_CHARS - 1)
    BY <1>3 DEF n
  <2> QED BY <1>1, <2>2, <2>3 DEF KeyInv, Read
<1> QED BY <1>1, <1>5, <1>6, <1>7, NotYet DEF IInv

LEMMA LookupStep ==
  ASSUME IInv, Lookup
  PROVE  IInv'
<1>1. /\ pc = "lookup" /\ i' = 0 /\ pc' \in {"pass", "rewrite", "tc"}
      /\ pc' = "rewrite" => Len(route') = 1
      /\ route' = route \/ route' \in Routes
      /\ UNCHANGED <<frame, skb, topic_id, csum, copies, bad, faults>>
  BY DEF Lookup
<1>2. TypeOK /\ copies = << >>
  BY <1>1 DEF IInv, ControlInv, Untouched
<1>3. route' \in Routes \cup {<< >>}
  BY <1>1, <1>2 DEF TypeOK
<1>4. Len(copies') <= Len(route')
  <2>1. Len(route') \in Nat
    BY <1>3, RouteAddresses
  <2> QED BY <1>1, <1>2, <2>1, NothingSent, SMT
<1>5. TypeOK'
  BY <1>1, <1>2, <1>3, <1>4 DEF TypeOK
<1>6. ControlInv'
  BY <1>1 DEF IInv, ControlInv, Untouched, Parses
<1>7. KeyInv'
  BY <1>1 DEF IInv, KeyInv, Read
<1> QED BY <1>1, <1>5, <1>6, <1>7, NotYet DEF IInv

\* The key stays what it is.
LEMMA KeyKept ==
  ASSUME IInv, pc \notin {"parse", "extract", "pass"}, pc' \notin {"parse", "extract"},
         UNCHANGED <<frame, topic_id>>
  PROVE  KeyInv'
BY DEF IInv, KeyInv, Read

\* The packet has whole headers.
LEMMA WholeHeaders ==
  ASSUME IInv, pc \notin {"parse", "pass"}
  PROVE  /\ Len(frame.bytes) \in Nat /\ Len(frame.bytes) > 28 /\ Parses(frame)
         /\ frame.bytes \in Packet(Len(frame.bytes)) /\ skb \in Packet(Len(frame.bytes))
BY StateBytes DEF IInv, ControlInv, Parses, Payload

LEMMA RewriteStep ==
  ASSUME IInv, Rewrite
  PROVE  IInv'
<1> DEFINE m == Len(frame.bytes)
<1>1. /\ pc = "rewrite" /\ pc' = "udp" /\ skb' = Readdressed(skb, route[1])
      /\ csum' = PseudoHeader(skb')
      /\ UNCHANGED <<frame, i, topic_id, route, copies, bad, faults>>
  BY DEF Rewrite
<1>2. /\ TypeOK /\ skb = frame.bytes /\ i = 0 /\ Len(route) = 1 /\ copies = << >>
      /\ Parses(frame) /\ route \in Routes \cup {<< >>}
  BY <1>1 DEF IInv, ControlInv, Untouched, TypeOK
<1>3. m \in Nat /\ m > 28 /\ frame.bytes \in Packet(m) /\ skb \in Packet(m)
  BY <1>1, WholeHeaders
<1> HIDE DEF m
<1>4. route[1].ip \in Packet(4) /\ route[1].port \in Packet(2)
  <2>1. 1 \in 1..Len(route)
    BY <1>2, SMT
  <2> QED BY <1>2, <2>1, RouteAddresses
<1>5. Moved(skb', frame.bytes, route[1].ip, route[1].port, m)
  BY <1>1, <1>2, <1>3, <1>4, ReaddressedMoves
<1>6. skb' \in Packet(m)
  BY <1>5 DEF Moved
<1>7. skb' \in Seq(Byte) /\ Len(skb') = m
  BY <1>3, <1>6, PacketSeq
<1>8. csum' \in Nat /\ csum' <= 6 * 65535 /\ Is16(Length(skb'))
  BY <1>1, <1>3, <1>6, PseudoType
<1>9. csum' \in 0..((MaxWords + 6) * (U16 - 1))
  BY <1>8, Modulus, SMT
<1>10. TypeOK'
  <2>1. i' \in 0..MaxWords
    BY <1>1, <1>2, SMT
  <2> QED BY <1>1, <1>2, <1>7, <1>9, <2>1 DEF TypeOK, m
<1>11. ControlInv'
  <2>1. csum' <= (i' + 6) * (U16 - 1)
    BY <1>1, <1>2, <1>8, Modulus, SMT
  <2> QED BY <1>1, <1>2, <2>1 DEF ControlInv, Parses
<1>12. KeyInv'
  BY <1>1, KeyKept
<1>13. SumInv'
  <2>1. 0..(0 - 1) = {}
    BY SMT
  <2> DEFINE f == [k \in 0..(i' - 1) |-> Word(skb', Udp + 2 * k)]
  <2>2. DOMAIN f = {}
    BY <1>1, <1>2, <2>1
  <2> HIDE DEF f
  <2>3. SumFunction(f) = 0
    BY <2>2, SumNone DEF SumFunction
  <2>4. csum' = PseudoHeader(skb') + SumFunction(f)
    BY <1>1, <1>8, <2>3, SMT
  <2>5. Udp + 2 * i' <= Len(skb')
    BY <1>1, <1>2, <1>3, <1>7, SMT DEF Udp
  <2>6. 2 * i' <= Length(skb') + 1
    BY <1>1, <1>2, <1>8, SMT DEF Is16
  <2> QED BY <1>1, <1>2, <2>4, <2>5, <2>6 DEF SumInv, f
<1>14. WalkInv' /\ TxVerifies' /\ WalkVerifies'
  BY <1>1 DEF WalkInv, TxVerifies, WalkVerifies
<1> QED BY <1>10, <1>11, <1>12, <1>13, <1>14 DEF IInv

LEMMA SumWordStep ==
  ASSUME IInv, SumWord
  PROVE  IInv'
<1> DEFINE m == Len(frame.bytes)
           f == [k \in 0..i |-> Word(skb, Udp + 2 * k)]
           g == [k \in 0..(i - 1) |-> Word(skb, Udp + 2 * k)]
           w == Word(skb, Udp + 2 * i)
<1>1. /\ pc = "udp" /\ i < MaxWords /\ Udp + 2 * i + 2 <= Len(skb) /\ 2 * i < Length(skb)
      /\ csum' = csum + w /\ i' = i + 1
      /\ UNCHANGED <<pc, frame, skb, topic_id, route, copies, bad, faults>>
  BY DEF SumWord, MoreWords
<1>2. /\ TypeOK /\ i \in 0..MaxWords /\ Len(skb) = m /\ csum \in Nat
      /\ csum <= (i + 6) * (U16 - 1)
      /\ csum = PseudoHeader(skb) + SumFunction(g)
  <2>1. TypeOK /\ i \in 0..MaxWords /\ Len(skb) = m /\ csum \in 0..((MaxWords + 6) * (U16 - 1))
        /\ csum <= (i + 6) * (U16 - 1)
        /\ csum = PseudoHeader(skb) + SumFunction(g)
    BY <1>1 DEF IInv, TypeOK, ControlInv, SumInv
  <2>2. csum \in Nat
    BY <2>1, Modulus, SMT
  <2> QED BY <2>1, <2>2
<1>3. m \in Nat /\ m > 28 /\ skb \in Packet(m)
  BY <1>1, WholeHeaders
<1> HIDE DEF m
<1>4. ASSUME NEW k \in 0..i PROVE Is16(Word(skb, Udp + 2 * k))
  <2>1. Udp + 2 * k \in Nat /\ (Udp + 2 * k) + 2 <= m
    BY <1>1, <1>2, <1>3, SMT DEF Udp
  <2> QED BY <1>3, <2>1, WordType
<1>5. Is16(w)
  BY <1>2, <1>4, SMT
<1>6. Is16(Length(skb)) /\ PseudoHeader(skb) \in Nat
  BY <1>3, PseudoType
<1>7. SumFunction(f) = SumFunction(g) + w
  <2>1. OnNat(f, 0..i)
    BY <1>4 DEF OnNat, Is16
  <2>2. i \in Nat
    BY <1>2, SMT
  <2>3. SumFunctionOnSet(f, 0..i) = SumFunctionOnSet(f, 0..(i - 1)) + f[i]
    BY <2>1, <2>2, SumLast
  <2>4. \A k \in 0..(i - 1) : f[k] = g[k] /\ k \in 0..i
    BY <2>2, SMT
  <2>5. SumFunctionOnSet(f, 0..(i - 1)) = SumFunctionOnSet(g, 0..(i - 1))
    <3>1. OnNat(f, 0..(i - 1))
      BY <2>1, <2>4 DEF OnNat
    <3>2. 0 \in Int /\ i - 1 \in Int
      BY <2>2, SMT
    <3>3. IsFiniteSet(0..(i - 1))
      BY <3>2, FS_Interval
    <3> HIDE DEF f, g
    <3> QED BY <2>4, <3>1, <3>3, SumSame
  <2>6. f[i] = w /\ DOMAIN f = 0..i /\ DOMAIN g = 0..(i - 1)
    BY <2>2, SMT
  <2> HIDE DEF f, g, w
  <2> QED BY <2>3, <2>5, <2>6 DEF SumFunction
<1>8. SumFunction(g) \in Int
  <2>1. OnNat(g, 0..(i - 1))
    BY <1>2, <1>4, SMT DEF OnNat, Is16
  <2>2. 0 \in Int /\ i - 1 \in Int
    BY <1>2, SMT
  <2>3. IsFiniteSet(0..(i - 1))
    BY <2>2, FS_Interval
  <2>4. DOMAIN g = 0..(i - 1)
    OBVIOUS
  <2> HIDE DEF g
  <2> QED BY <2>1, <2>3, <2>4, SumRest, SMT DEF SumFunction
<1> HIDE DEF w
<1>9. csum' \in Nat /\ csum' <= (i' + 6) * (U16 - 1)
  BY <1>1, <1>2, <1>5, Modulus, SMT DEF Is16
<1>10. csum' \in 0..((MaxWords + 6) * (U16 - 1)) /\ i' \in 0..MaxWords
  BY <1>1, <1>2, <1>9, Modulus, SMT
<1>11. TypeOK'
  BY <1>1, <1>2, <1>10 DEF TypeOK
<1>12. ControlInv'
  BY <1>1, <1>9 DEF IInv, ControlInv, Parses
<1>13. KeyInv'
  BY <1>1, KeyKept
<1>14. SumInv'
  <2>1. csum' = PseudoHeader(skb) + SumFunction(f)
    <3>1. csum' = csum + w /\ csum = PseudoHeader(skb) + SumFunction(g)
      BY <1>1, <1>2
    <3>2. PseudoHeader(skb) \in Int /\ SumFunction(g) \in Int /\ w \in Int
      BY <1>5, <1>6, <1>8, SMT DEF Is16
    <3> HIDE DEF f, g
    <3> QED BY <1>7, <3>1, <3>2, SMT
  <2>2. i' - 1 = i
    BY <1>1, <1>2, SMT
  <2>3. SumFunction(f) = SumFunction([k \in 0..(i' - 1) |-> Word(skb', Udp + 2 * k)])
    BY <1>1, <2>2
  <2>4. Udp + 2 * i' <= Len(skb') /\ 2 * i' <= Length(skb') + 1
    BY <1>1, <1>2, <1>3, <1>6, SMT DEF Udp, Is16
  <2>5. PseudoHeader(skb') = PseudoHeader(skb)
    BY <1>1
  <2> QED BY <1>1, <2>1, <2>3, <2>4, <2>5 DEF IInv, SumInv
<1>15. WalkInv' /\ TxVerifies' /\ WalkVerifies'
  BY <1>1 DEF WalkInv, TxVerifies, WalkVerifies
<1> QED BY <1>11, <1>12, <1>13, <1>14, <1>15 DEF IInv

-----------------------------------------------------------------------------
(* compute_udp_checksum ends.                                              *)

\* The frame is padded with zero bytes.
Padded(p, m) == m - 20 > Length(p) /\ \A k \in (20 + Length(p) + 1)..m : p[k] = 0

\* The words the loop has added are those of the datagram, and no odd byte is left.
LEMMA LoopCovers ==
  ASSUME NEW m \in Nat, m > 28, NEW q \in Packet(m), NEW j \in Nat, 8 <= Length(q),
         Length(q) <= m - 20, Length(q) % 2 = 0 \/ Padded(q, m),
         2 * j <= Length(q) + 1, Length(q) <= 2 * j
  PROVE  /\ [k \in 0..(j - 1) |-> Word(q, 20 + 2 * k)] = LeWords(q, 20, Length(q))
         /\ Words(Length(q)) = 0..(j - 1)
         /\ Length(q) % 2 = 1 /\ 20 + 2 * j < m => q[20 + 2 * j + 1] = 0
<1> DEFINE L == Length(q)
<1>1. L \in Nat
  BY PseudoType DEF Is16
<1>2. \/ L % 2 = 0 /\ 2 * j = L
      \/ L % 2 = 1 /\ 2 * j = L + 1 /\ Padded(q, m)
  <2>1. L \in Nat /\ 2 * j <= L + 1 /\ L <= 2 * j /\ (L % 2 = 0 \/ Padded(q, m))
    BY <1>1
  <2> HIDE DEF L
  <2> QED BY <2>1, SMT
<1>3. Padded(q, m) => m - 20 > L /\ \A k \in (20 + L + 1)..m : q[k] = 0
  BY DEF Padded
<1>4. L = Length(q) /\ 8 <= L /\ L <= m - 20
  OBVIOUS
<1> HIDE DEF L
<1>5. ASSUME NEW k \in 0..(j - 1) PROVE Word(q, 20 + 2 * k) = LeWord(q, 20, L, k)
  <2>1. k \in Nat /\ k <= j - 1
    BY SMT
  <2>2. CASE 2 * k + 1 < L
    BY <2>2 DEF Word, LeWord
  <2>3. CASE ~(2 * k + 1 < L)
    <3>1. Padded(q, m) /\ 2 * k + 1 = L
      BY <1>1, <1>2, <2>1, <2>3, SMT
    <3>2. 20 + 2 * k + 2 \in (20 + L + 1)..m
      BY <1>1, <1>3, <2>1, <3>1, SMT
    <3>3. q[20 + 2 * k + 2] = 0
      BY <1>3, <3>1, <3>2
    <3> QED BY <2>3, <3>3 DEF Word, LeWord
  <2> QED BY <2>2, <2>3
<1>6. Words(L) = 0..(j - 1)
  <2>1. \A k : k \in Words(L) <=> k \in Nat /\ 2 * k < L
    BY <1>1, WordsOf
  <2>2. ASSUME NEW k PROVE k \in Words(L) <=> k \in 0..(j - 1)
    BY <1>1, <1>2, <2>1, SMT
  <2> QED BY <2>2
<1>7. [k \in 0..(j - 1) |-> Word(q, 20 + 2 * k)] = LeWords(q, 20, L)
  BY <1>5, <1>6 DEF LeWords
<1>8. ASSUME L % 2 = 1, 20 + 2 * j < m PROVE q[20 + 2 * j + 1] = 0
  <2>1. Padded(q, m) /\ 2 * j = L + 1
    BY <1>1, <1>2, <1>8, SMT
  <2>2. 20 + 2 * j + 1 \in (20 + L + 1)..m
    BY <1>1, <1>8, <2>1, SMT
  <2> QED BY <1>3, <2>1, <2>2
<1> QED BY <1>4, <1>6, <1>7, <1>8

\* The checksum that is stored makes the datagram verify.
LEMMA Sealing ==
  ASSUME NEW m \in Nat, m > 28, NEW q \in Packet(m), 8 <= Length(q), Length(q) <= m - 20,
         Word(q, 26) = 0, IpVerifies(q), UdpLe(q) \in Nat, UdpLe(q) < 65536 * 65536,
         NEW e, e = Store(q, 26, Finish(UdpLe(q)))
  PROVE  Verifies(e)
<1> DEFINE L == Length(q)
           c == UdpLe(q)
           w == Finish(c)
<1>1. Is16(w) /\ Cong(c + w, 0)
  BY FinishType, FinishSum
<1>2. L \in Nat /\ 8 <= L /\ 20 + L <= m
  BY PseudoType, SMT DEF Is16
<1>3. c = PseudoHeader(q) + LeSum(q, 20, L)
  BY DEF UdpLe, Udp
<1> HIDE DEF w
<1>4. Changed(e, q, 26, m) /\ Word(e, 26) = w
  <2>1. 26 \in Nat /\ 26 + 2 <= m
    BY SMT
  <2>2. Changed(Store(q, 26, w), q, 26, m) /\ Word(Store(q, 26, w), 26) = w
    BY <1>1, <2>1, StoreBytes
  <2> QED BY <2>2 DEF w
<1>5. e \in Packet(m) /\ \A k \in 1..m : k <= 26 => e[k] = q[k]
  BY <1>4, SMT DEF Changed, Apart
<1>6. Length(e) = L
  <2>1. 25 \in 1..m /\ 26 \in 1..m
    BY SMT
  <2>2. e[25] = q[25] /\ e[26] = q[26]
    BY <1>5, <2>1, SMT
  <2> QED BY <2>2, SameLength
<1> HIDE DEF L, c
<1>7. LeSum(e, 20, L) = LeSum(q, 20, L) + w /\ LeSum(q, 20, L) \in Nat
  <2>1. LeSum(e, 20, L) + Word(q, 26) = LeSum(q, 20, L) + Word(e, 26)
    BY <1>2, <1>4, UdpWordChange
  <2>2. 20 \in Nat /\ LeSum(e, 20, L) \in Nat /\ LeSum(q, 20, L) \in Nat
    BY <1>2, <1>5, LeNat
  <2> QED BY <1>1, <1>4, <2>1, <2>2, SMT DEF Is16
<1>8. PseudoHeader(e) = PseudoHeader(q) /\ PseudoHeader(q) \in Nat
  <2>1. \A x : PseudoHeader(x) = Word(x, 12) + Word(x, 14) + Word(x, 16) + Word(x, 18) + 4352 + Word(x, 24)
    BY SMT DEF PseudoHeader, Saddr, Daddr, UdpLen
  <2>2. /\ Word(e, 12) = Word(q, 12) /\ Word(e, 14) = Word(q, 14) /\ Word(e, 16) = Word(q, 16)
        /\ Word(e, 18) = Word(q, 18) /\ Word(e, 24) = Word(q, 24)
    BY <1>5, SMT DEF Word
  <2> QED BY <2>1, <2>2, PseudoType
<1>9. UdpLe(e) = c + w
  BY <1>1, <1>3, <1>6, <1>7, <1>8, SMT DEF UdpLe, Udp, Is16
<1>10. UdpVerifies(e)
  <2>1. Length(e) <= m - 20
    BY <1>2, <1>6, SMT
  <2> QED BY <1>1, <1>5, <1>9, <2>1, UdpIsLe
<1>11. IpVerifies(e)
  <2>1. 0 \in Nat /\ 20 \in Nat /\ 0 + 20 <= m
    BY SMT
  <2>2. Agree(e, q, 0, 20)
    <3>1. ASSUME NEW k \in Nat, 1 <= k, k <= 20 PROVE e[k] = q[k]
      BY <1>5, <3>1, SMT
    <3> QED BY <3>1, SMT DEF Agree
  <2>3. LeSum(e, 0, 20) = LeSum(q, 0, 20)
    BY <1>5, <2>1, <2>2, WordsSame
  <2> QED BY <1>5, <2>3, IpIsLe
<1> QED BY <1>10, <1>11 DEF Verifies

\* A sequence of one copy.
LEMMA OneCopy ==
  ASSUME NEW c \in [to : Address, bytes : Seq(Byte), bad : BOOLEAN]
  PROVE  /\ <<c>> \in Seq([to : Address, bytes : Seq(Byte), bad : BOOLEAN])
         /\ Len(<<c>>) = 1 /\ <<c>>[1] = c
<1> DEFINE S == [to : Address, bytes : Seq(Byte), bad : BOOLEAN]
<1>1. c \in S
  OBVIOUS
<1> HIDE DEF S
<1>2. <<c>> \in Seq(S) /\ Len(<<c>>) = 1 /\ <<c>>[1] = c
  BY <1>1
<1> QED BY <1>2 DEF S

\* The byte that follows the last word of an odd datagram is added as the high byte
\* of a word.
LEMMA OddByteType ==
  ASSUME IInv, pc = "udp"
  PROVE  OddByte \in Nat /\ OddByte <= 65280
<1> DEFINE m == Len(frame.bytes)
<1>1. m \in Nat /\ skb \in Packet(m)
  BY WholeHeaders
<1>2. i \in 0..MaxWords /\ Len(skb) = m
  BY DEF IInv, TypeOK
<1>3. i \in Nat
  BY <1>2, SMT
<1> HIDE DEF m
<1>4. CASE ~(Length(skb) % 2 = 1 /\ Udp + 2 * i < Len(skb))
  BY <1>4, SMT DEF OddByte
<1>5. CASE Length(skb) % 2 = 1 /\ Udp + 2 * i < Len(skb)
  <2>1. Udp + 2 * i + 1 \in 1..m
    BY <1>1, <1>2, <1>3, <1>5, SMT DEF Udp
  <2>2. skb[Udp + 2 * i + 1] \in Byte
    BY <1>1, <2>1 DEF Packet
  <2>3. OddByte = 256 * skb[Udp + 2 * i + 1]
    BY <1>5 DEF OddByte
  <2> QED BY <2>2, <2>3, ByteNat, SMT
<1> QED BY <1>4, <1>5

LEMMA SumDoneStep ==
  ASSUME IInv, SumDone
  PROVE  IInv'
<1> DEFINE m == Len(frame.bytes)
           p == frame.bytes
           copy == [to |-> route[1], bytes |-> skb', bad |-> FALSE]
           g == [k \in 0..(i - 1) |-> Word(skb, Udp + 2 * k)]
<1>1. /\ pc = "udp" /\ pc' = "tx" /\ ~MoreWords
      /\ skb' = Store(skb, UdpCheck, Finish(csum + OddByte))
      /\ copies' = <<copy>>
      /\ UNCHANGED <<frame, i, topic_id, csum, route, bad, faults>>
  BY DEF SumDone
<1>2. /\ TypeOK /\ i \in 0..MaxWords /\ Len(skb) = m /\ csum \in 0..((MaxWords + 6) * (U16 - 1))
      /\ csum <= (i + 6) * (U16 - 1) /\ Len(route) = 1 /\ route \in Routes \cup {<< >>}
      /\ Parses(frame)
  BY <1>1 DEF IInv, TypeOK, ControlInv
<1>3. /\ skb = Readdressed(p, route[1]) /\ Udp + 2 * i <= Len(skb) /\ 2 * i <= Length(skb) + 1
      /\ csum = PseudoHeader(skb) + SumFunction(g)
  BY <1>1 DEF IInv, SumInv
<1>4. m \in Nat /\ m > 28 /\ skb \in Packet(m) /\ p \in Packet(m)
  BY <1>1, WholeHeaders
<1>5. route[1] \in Address /\ route[1].ip \in Packet(4) /\ route[1].port \in Packet(2)
  <2>1. 1 \in 1..Len(route)
    BY <1>2, SMT
  <2> QED BY <1>2, <2>1, RouteAddresses
<1>6. Moved(skb, p, route[1].ip, route[1].port, m)
  BY <1>3, <1>4, <1>5, ReaddressedMoves
<1>7. m = Len(frame.bytes) /\ p = frame.bytes
  OBVIOUS
<1> HIDE DEF m
<1>8. csum \in Nat /\ i \in Nat
  BY <1>2, Modulus, SMT
<1>9. OddByte \in Nat
  BY <1>1, OddByteType
<1>10. Changed(skb', skb, 26, m)
  <2>1. csum + OddByte \in Nat
    BY <1>8, <1>9, SMT
  <2>2. Is16(Finish(csum + OddByte))
    BY <2>1, FinishType
  <2>3. 26 \in Nat /\ 26 + 2 <= m
    BY <1>4, SMT
  <2> QED BY <1>1, <1>4, <2>2, <2>3, StoreBytes DEF UdpCheck
<1>11. skb' \in Packet(m) /\ \A k \in 1..m : Apart(26, k) => skb'[k] = skb[k]
  BY <1>10 DEF Changed
<1>12. skb' \in Seq(Byte) /\ Len(skb') = m
  BY <1>4, <1>11, PacketSeq
<1>13. /\ copies' \in Seq([to : Address, bytes : Seq(Byte), bad : BOOLEAN])
       /\ Len(copies') = 1 /\ copies'[1] = copy
  <2>1. copy \in [to : Address, bytes : Seq(Byte), bad : BOOLEAN]
    BY <1>5, <1>12
  <2> HIDE DEF copy
  <2> QED BY <1>1, <2>1, OneCopy
<1>14. copy.to = route[1] /\ copy.bytes = skb'
  OBVIOUS
<1> HIDE DEF copy
<1>15. TypeOK'
  <2>1. Len(copies') <= Len(route')
    BY <1>1, <1>2, <1>13, SMT
  <2> QED BY <1>1, <1>2, <1>7, <1>12, <1>13, <2>1 DEF TypeOK
<1>16. ControlInv'
  BY <1>1, <1>2 DEF ControlInv, Parses
<1>17. KeyInv'
  BY <1>1, KeyKept
<1>18. SumInv' /\ WalkInv' /\ WalkVerifies'
  BY <1>1 DEF SumInv, WalkInv, WalkVerifies
<1>19. ASSUME WellFormed(p), Length(p) <= 2 * MaxWords,
              \/ Length(p) % 2 = 0
              \/ /\ Len(p) - Udp > Length(p)
                 /\ \A k \in (Udp + Length(p) + 1)..Len(p) : p[k] = 0
       PROVE  Verifies(skb')
  <2>1. Length(skb) = Length(p) /\ Is16(Length(p))
    <3>1. 25 \in 1..m /\ 26 \in 1..m
      BY <1>4, SMT
    <3>2. skb[25] = p[25] /\ skb[26] = p[26]
      BY <1>6, <3>1 DEF Moved
    <3> QED BY <1>4, <3>2, SameLength, PseudoType
  <2> DEFINE L == Length(p)
  <2>2. L \in Nat /\ 8 <= L /\ L <= m - 20 /\ L <= 65535 /\ L <= 2 * MaxWords
    BY <1>4, <1>7, <1>19, <2>1, SMT DEF WellFormed, Udp, Is16
  <2>3. L % 2 = 0 \/ Padded(skb, m)
    <3>1. CASE L % 2 = 0
      BY <3>1
    <3>2. CASE L % 2 # 0
      <4>1. m - 20 > L /\ \A k \in (20 + L + 1)..m : p[k] = 0
        BY <1>7, <1>19, <3>2 DEF Udp
      <4>2. \A k \in (20 + L + 1)..m : k \in 1..m /\ 28 < k
        BY <1>4, <2>2, SMT
      <4>3. \A k \in (20 + L + 1)..m : skb[k] = p[k]
        BY <1>6, <4>2 DEF Moved
      <4> QED BY <2>1, <4>1, <4>3 DEF Padded
    <3> QED BY <3>1, <3>2
  <2> HIDE DEF L
  <2>4. L = Length(skb)
    BY <2>1 DEF L
  <2>5. L <= 2 * i
    <3>1. i >= MaxWords \/ 20 + 2 * i + 2 > m \/ 2 * i >= L
      BY <1>1, <1>2, <1>4, <1>8, <2>2, <2>4, SMT DEF MoreWords, Udp
    <3>2. CASE 2 * i >= L
      BY <1>8, <2>2, <3>2, SMT
    <3>3. CASE i >= MaxWords
      BY <1>8, <2>2, <3>3, SMT
    <3>4. CASE 20 + 2 * i + 2 > m
      <4>1. CASE L % 2 = 0
        BY <1>4, <1>8, <2>2, <3>4, <4>1, SMT
      <4>2. CASE Padded(skb, m)
        <5>1. m - 20 > L
          BY <2>4, <4>2 DEF Padded
        <5> QED BY <1>4, <1>8, <2>2, <3>4, <5>1, SMT
      <4> QED BY <2>3, <4>1, <4>2
    <3> QED BY <3>1, <3>2, <3>3, <3>4
  <2>6. 2 * i <= L + 1
    BY <1>3, <2>4
  <2>7. /\ [k \in 0..(i - 1) |-> Word(skb, 20 + 2 * k)] = LeWords(skb, 20, L)
        /\ Words(L) = 0..(i - 1)
        /\ L % 2 = 1 /\ 20 + 2 * i < m => skb[20 + 2 * i + 1] = 0
    BY <1>4, <1>8, <2>2, <2>3, <2>4, <2>5, <2>6, LoopCovers
  <2>8. csum = UdpLe(skb)
    <3>1. g = LeWords(skb, 20, L) /\ DOMAIN g = 0..(i - 1)
      BY <2>7 DEF Udp
    <3> HIDE DEF g
    <3>2. SumFunction(g) = LeSum(skb, 20, L)
      BY <2>7, <3>1 DEF SumFunction, LeSum
    <3> QED BY <1>3, <2>4, <3>2 DEF UdpLe, Udp
  <2>9. OddByte = 0
    BY <1>2, <2>4, <2>7, SMT DEF OddByte, Udp
  <2>10. UdpLe(skb) \in Nat /\ UdpLe(skb) < 65536 * 65536
    BY <1>2, <1>8, <2>2, <2>6, <2>8, Modulus, SMT
  <2>11. skb' = Store(skb, 26, Finish(UdpLe(skb)))
    <3>1. csum + OddByte = UdpLe(skb)
      BY <1>8, <2>8, <2>9, SMT
    <3> QED BY <1>1, <3>1 DEF UdpCheck
  <2>12. Word(skb, 26) = 0 /\ IpVerifies(skb)
    BY <1>6 DEF Moved
  <2>13. 8 <= Length(skb) /\ Length(skb) <= m - 20
    BY <2>2, <2>4
  <2> QED BY <1>4, <2>10, <2>11, <2>12, <2>13, Sealing
<1>20. Addressed(copy)
  <2>1. FromTheBroker(skb')
    <3>1. \A k \in (12 + 1)..(12 + 4) : skb'[k] = p[k + 4]
      <4>1. \A k \in (12 + 1)..(12 + 4) : k \in 1..m /\ Apart(26, k) /\ 12 < k /\ k <= 16
        BY <1>4, SMT DEF Apart
      <4> QED BY <1>6, <1>11, <4>1 DEF Moved
    <3>2. \A k \in (20 + 1)..(20 + 2) : skb'[k] = p[k + 2]
      <4>1. \A k \in (20 + 1)..(20 + 2) : k \in 1..m /\ Apart(26, k) /\ 20 < k /\ k <= 22
        BY <1>4, SMT DEF Apart
      <4> QED BY <1>6, <1>11, <4>1 DEF Moved
    <3>3. \A k \in (24 + 1)..(24 + 2) : skb'[k] = p[k]
      <4>1. \A k \in (24 + 1)..(24 + 2) : k \in 1..m /\ Apart(26, k) /\ k \in {25, 26}
        BY <1>4, SMT DEF Apart
      <4> QED BY <1>6, <1>11, <4>1 DEF Moved
    <3>4. \A k \in (28 + 1)..m : skb'[k] = p[k]
      <4>1. \A k \in (28 + 1)..m : k \in 1..m /\ Apart(26, k) /\ 28 < k
        BY <1>4, SMT DEF Apart
      <4> QED BY <1>6, <1>11, <4>1 DEF Moved
    <3> QED BY <1>7, <3>1, <3>2, <3>3, <3>4 DEF FromTheBroker, Saddr, Source, UdpLen, Payload
  <2>2. Carries(skb', 16, route[1].ip, 4)
    <3>1. \A j \in 1..4 : 16 + j \in 1..m /\ Apart(26, 16 + j) /\ 16 < 16 + j /\ 16 + j <= 20
                          /\ (16 + j) - 16 = j
      BY <1>4, SMT DEF Apart
    <3> QED BY <1>6, <1>11, <3>1 DEF Moved, Carries
  <2>3. Carries(skb', 22, route[1].port, 2)
    <3>1. \A j \in 1..2 : 22 + j \in 1..m /\ Apart(26, 22 + j) /\ 22 < 22 + j /\ 22 + j <= 24
                          /\ (22 + j) - 22 = j
      BY <1>4, SMT DEF Apart
    <3> QED BY <1>6, <1>11, <3>1 DEF Moved, Carries
  <2> QED BY <1>4, <1>5, <1>7, <1>11, <1>14, <2>1, <2>2, <2>3, AddressedIs
<1>21. TxVerifies'
  <2>1. Addressed(copies[1])'
    BY <1>1, <1>13, <1>20 DEF Addressed
  <2>2. Verifies(copies'[1].bytes) <=> Verifies(skb')
    BY <1>13, <1>14
  <2> QED BY <1>1, <1>19, <2>1, <2>2 DEF TxVerifies, Reaches
<1> QED BY <1>15, <1>16, <1>17, <1>18, <1>21 DEF IInv

-----------------------------------------------------------------------------
(* tc_ingress_broker and the walk.                                         *)

LEMMA TcIngressStep ==
  ASSUME IInv, TcIngress
  PROVE  IInv'
<1> DEFINE m == Len(frame.bytes)
           p == frame.bytes
           st == FromBroker(skb)
<1>1. /\ pc = "tc" /\ UNCHANGED <<frame, i, topic_id, csum, route, copies, bad>>
      /\ skb' \in {skb, st.address, st.ip_sum, st.port, st.all}
      /\ \/ skb' = st.all /\ pc' = "walk" /\ faults' = faults
         \/ faults < MaxFaults /\ faults' = faults + 1 /\ pc' = "pass"
  BY DEF TcIngress
<1>2. TypeOK /\ skb = p /\ copies = << >> /\ i = 0 /\ bad = FALSE /\ Parses(frame) /\ faults \in 0..MaxFaults
      /\ route \in Routes \cup {<< >>}
  BY <1>1 DEF IInv, ControlInv, Untouched, TypeOK
<1>3. m \in Nat /\ m > 28 /\ skb \in Packet(m) /\ p \in Packet(m)
  BY <1>1, WholeHeaders
<1>4. m = Len(frame.bytes) /\ p = frame.bytes /\ st = FromBroker(skb)
  OBVIOUS
<1> HIDE DEF m, st
<1>5. /\ Stages(st, skb, m, 12, 20)
      /\ \A j \in 1..4 : st.all[12 + j] = skb[16 + j]
      /\ \A j \in 1..2 : st.all[20 + j] = skb[22 + j]
  BY <1>3, <1>4, FromBrokerDoes
<1>6. skb' \in Packet(m)
  BY <1>1, <1>3, <1>5 DEF Stages
<1>7. skb' \in Seq(Byte) /\ Len(skb') = m
  BY <1>3, <1>6, PacketSeq
<1>8. Len(route) \in Nat /\ Len(copies) = 0
  BY <1>2, RouteAddresses, NothingSent
<1>9. TypeOK'
  <2>1. faults' \in 0..MaxFaults
    BY <1>1, <1>2, SMT
  <2>2. 0 \in 0..Len(route)
    BY <1>8, SMT
  <2>3. pc' \in {"walk", "pass"}
    BY <1>1
  <2> QED BY <1>1, <1>2, <1>4, <1>7, <2>1, <2>2, <2>3 DEF TypeOK
<1>10. ControlInv'
  <2>1. Len(copies') <= i'
    BY <1>1, <1>2, <1>8, SMT
  <2> QED BY <1>1, <1>2, <2>1 DEF ControlInv, Parses
<1>11. KeyInv'
  BY <1>1, KeyKept
<1>12. CASE pc' = "pass"
  <2>1. pc' \notin {"udp", "tx", "walk", "shot"}
    BY <1>12
  <2> QED BY <1>9, <1>10, <1>11, <2>1, NotYet DEF IInv
<1>13. CASE pc' = "walk"
  <2>1. skb' = st.all
    BY <1>1, <1>13
  <2>2. \A k \in 1..m : Elsewhere(k, 12, 20) => skb'[k] = p[k]
    BY <1>2, <1>5, <2>1 DEF Stages
  <2>3. FromTheBroker(skb')
    <3>1. \A k \in (12 + 1)..(12 + 4) : skb'[k] = p[k + 4]
      <4>1. \A k \in (12 + 1)..(12 + 4) : k - 12 \in 1..4 /\ 12 + (k - 12) = k /\ 16 + (k - 12) = k + 4
        BY SMT
      <4> QED BY <1>2, <1>5, <2>1, <4>1
    <3>2. \A k \in (20 + 1)..(20 + 2) : skb'[k] = p[k + 2]
      <4>1. \A k \in (20 + 1)..(20 + 2) : k - 20 \in 1..2 /\ 20 + (k - 20) = k /\ 22 + (k - 20) = k + 2
        BY SMT
      <4> QED BY <1>2, <1>5, <2>1, <4>1
    <3>3. \A k \in (24 + 1)..(24 + 2) : skb'[k] = p[k]
      <4>1. \A k \in (24 + 1)..(24 + 2) : k \in 1..m /\ Elsewhere(k, 12, 20)
        BY <1>3, SMT DEF Apart, Elsewhere
      <4> QED BY <2>2, <4>1
    <3>4. \A k \in (28 + 1)..m : skb'[k] = p[k]
      <4>1. \A k \in (28 + 1)..m : k \in 1..m /\ Elsewhere(k, 12, 20)
        BY <1>3, SMT DEF Apart, Elsewhere
      <4> QED BY <2>2, <4>1
    <3> QED BY <1>4, <3>1, <3>2, <3>3, <3>4 DEF FromTheBroker, Saddr, Source, UdpLen, Payload
  <2>4. Trusted(p) => Verifies(skb')
    BY <1>2, <1>5, <2>1 DEF Stages, Trusted
  <2>5. WalkInv'
    <3>1. FromTheBroker(skb)'
      BY <1>1, <2>3 DEF FromTheBroker
    <3>2. Trusted(frame.bytes)' => Verifies(skb)'
      BY <1>1, <2>4
    <3> QED BY <3>1, <3>2 DEF WalkInv
  <2>6. WalkVerifies'
    <3>1. DOMAIN copies' = {}
      BY <1>1, <1>2
    <3> QED BY <3>1 DEF WalkVerifies
  <2>7. SumInv' /\ TxVerifies'
    BY <1>13 DEF SumInv, TxVerifies
  <2> QED BY <1>9, <1>10, <1>11, <2>5, <2>6, <2>7 DEF IInv
<1> QED BY <1>1, <1>12, <1>13

\* The packet the walk is working on.
LEMMA WalkPacket ==
  ASSUME IInv, pc = "walk", i < Len(route)
  PROVE  /\ i \in 0..Len(route) /\ Len(route) \in Nat /\ i + 1 \in 1..Len(route)
         /\ route[i + 1] \in Address
         /\ route[i + 1].ip \in Packet(4) /\ route[i + 1].port \in Packet(2)
         /\ WellFormed(frame.bytes) => WellFormed(skb)
<1>1. i \in 0..Len(route) /\ route \in Routes \cup {<< >>}
  BY DEF IInv, TypeOK
<1>2. Len(route) \in Nat
  BY <1>1, RouteAddresses
<1>3. i + 1 \in 1..Len(route)
  BY <1>1, <1>2, SMT
<1>4. WellFormed(frame.bytes) => WellFormed(skb)
  <2>1. skb[25] = frame.bytes[25] /\ skb[26] = frame.bytes[26]
    <3>1. \A k \in (24 + 1)..(24 + 2) : skb[k] = frame.bytes[k]
      BY DEF IInv, WalkInv, FromTheBroker, UdpLen
    <3>2. 25 \in (24 + 1)..(24 + 2) /\ 26 \in (24 + 1)..(24 + 2)
      BY SMT
    <3> QED BY <3>1, <3>2
  <2>2. Len(skb) = Len(frame.bytes) /\ Length(skb) = Length(frame.bytes)
    BY <2>1, SameLength DEF IInv, TypeOK
  <2> QED BY <2>2 DEF WellFormed
<1> QED BY <1>1, <1>2, <1>3, <1>4, RouteAddresses

LEMMA CallbackStep ==
  ASSUME IInv, Callback
  PROVE  IInv'
<1> DEFINE m == Len(frame.bytes)
           p == frame.bytes
           s == route[i + 1]
           st == ToSubscriber(skb, s)
           copy == [to |-> s, bytes |-> skb', bad |-> bad]
           C == [to : Address, bytes : Seq(Byte), bad : BOOLEAN]
<1>1. /\ pc = "walk" /\ i < Len(route) /\ i' = i + 1
      /\ UNCHANGED <<pc, frame, topic_id, csum, route>>
      /\ \/ /\ skb' = st.all /\ bad' = bad /\ faults' = faults
            /\ copies' = Append(copies, copy)
         \/ /\ faults < MaxFaults /\ faults' = faults + 1 /\ copies' = copies
            /\ \/ skb' = st.all /\ bad' = bad
               \/ skb' \in {st.address, st.ip_sum, st.port} /\ bad' = TRUE
  BY DEF Callback
<1>2. /\ TypeOK /\ Parses(frame) /\ Len(copies) <= i /\ WalkInv /\ WalkVerifies
      /\ bad \in BOOLEAN /\ faults \in 0..MaxFaults /\ copies \in Seq(C)
  BY <1>1 DEF IInv, ControlInv, TypeOK
<1>3. m \in Nat /\ m > 28 /\ skb \in Packet(m) /\ p \in Packet(m)
  BY <1>1, WholeHeaders
<1>4. /\ i \in 0..Len(route) /\ Len(route) \in Nat /\ i + 1 \in 1..Len(route)
      /\ s \in Address /\ s.ip \in Packet(4) /\ s.port \in Packet(2)
      /\ WellFormed(p) => WellFormed(skb)
  BY <1>1, WalkPacket
<1>5. m = Len(frame.bytes) /\ st = ToSubscriber(skb, s) /\ copy.to = s /\ copy.bytes = skb' /\ copy.bad = bad
  OBVIOUS
<1> HIDE DEF m, s, st
<1>6. /\ Stages(st, skb, m, 16, 22)
      /\ Carries(st.all, 16, s.ip, 4) /\ Carries(st.all, 22, s.port, 2)
  BY <1>3, <1>4, <1>5, ToSubscriberDoes
<1>7. skb' \in Packet(m) /\ \A k \in 1..m : Elsewhere(k, 16, 22) => skb'[k] = skb[k]
  BY <1>1, <1>6 DEF Stages
<1>8. skb' \in Seq(Byte) /\ Len(skb') = m
  BY <1>3, <1>7, PacketSeq
<1>9. copy \in C
  BY <1>2, <1>4, <1>8
<1> HIDE DEF copy, C
<1>10. Len(copies) \in Nat
  BY <1>2, LenProperties
<1>11. /\ Append(copies, copy) \in Seq(C) /\ Len(Append(copies, copy)) = Len(copies) + 1
       /\ DOMAIN Append(copies, copy) = 1..(Len(copies) + 1)
       /\ \A k \in 1..Len(copies) : Append(copies, copy)[k] = copies[k]
       /\ Append(copies, copy)[Len(copies) + 1] = copy
  <2>1. Append(copies, copy) \in Seq(C) /\ Len(Append(copies, copy)) = Len(copies) + 1
    BY <1>2, <1>9, AppendProperties
  <2>2. DOMAIN Append(copies, copy) = 1..(Len(copies) + 1)
    BY <2>1, LenProperties
  <2> QED BY <1>2, <1>9, <1>10, <2>1, <2>2, SMT
<1>12. /\ copies' \in Seq(C) /\ Len(copies') \in Nat /\ Len(copies') <= i' /\ i' \in 0..Len(route)
       /\ Len(copies') <= Len(route)
  <2>1. copies' \in Seq(C) /\ Len(copies') \in {Len(copies), Len(copies) + 1}
    BY <1>1, <1>2, <1>11
  <2> QED BY <1>1, <1>2, <1>4, <1>10, <2>1, SMT
<1>13. TypeOK'
  <2>1. faults' \in 0..MaxFaults
    BY <1>1, <1>2, SMT
  <2>2. bad' \in BOOLEAN
    BY <1>1, <1>2
  <2> QED BY <1>1, <1>2, <1>5, <1>8, <1>12, <2>1, <2>2 DEF TypeOK, C
<1>14. ControlInv'
  BY <1>1, <1>2, <1>12 DEF ControlInv, Parses
<1>15. KeyInv'
  BY <1>1, KeyKept
<1>16. SumInv' /\ TxVerifies'
  BY <1>1 DEF SumInv, TxVerifies
<1>17. FromTheBroker(skb')
  <2>1. FromTheBroker(skb)
    BY <1>1, <1>2 DEF WalkInv
  <2>2. \A k \in 1..m : Elsewhere(k, 16, 22) => skb'[k] = skb[k]
    BY <1>7
  <2>3. \A k \in (12 + 1)..(12 + 4) : skb'[k] = p[k + 4]
    <3>1. \A k \in (12 + 1)..(12 + 4) : k \in 1..m /\ Elsewhere(k, 16, 22)
      BY <1>3, SMT DEF Apart, Elsewhere
    <3> QED BY <2>1, <2>2, <3>1 DEF FromTheBroker, Saddr
  <2>4. \A k \in (20 + 1)..(20 + 2) : skb'[k] = p[k + 2]
    <3>1. \A k \in (20 + 1)..(20 + 2) : k \in 1..m /\ Elsewhere(k, 16, 22)
      BY <1>3, SMT DEF Apart, Elsewhere
    <3> QED BY <2>1, <2>2, <3>1 DEF FromTheBroker, Source
  <2>5. \A k \in (24 + 1)..(24 + 2) : skb'[k] = p[k]
    <3>1. \A k \in (24 + 1)..(24 + 2) : k \in 1..m /\ Elsewhere(k, 16, 22)
      BY <1>3, SMT DEF Apart, Elsewhere
    <3> QED BY <2>1, <2>2, <3>1 DEF FromTheBroker, UdpLen
  <2>6. \A k \in (28 + 1)..m : skb'[k] = p[k]
    <3>1. \A k \in (28 + 1)..m : k \in 1..m /\ Elsewhere(k, 16, 22)
      BY <1>3, SMT DEF Apart, Elsewhere
    <3> QED BY <1>5, <2>1, <2>2, <3>1 DEF FromTheBroker, Payload
  <2> QED BY <1>5, <2>3, <2>4, <2>5, <2>6 DEF FromTheBroker, Saddr, Source, UdpLen, Payload
<1>18. ASSUME Trusted(p), ~bad, skb' = st.all PROVE Verifies(skb')
  <2>1. Verifies(skb)
    BY <1>1, <1>2, <1>18 DEF WalkInv
  <2>2. WellFormed(skb)
    BY <1>4, <1>18 DEF Trusted
  <2> QED BY <1>6, <1>18, <2>1, <2>2 DEF Stages
<1>19. WalkInv'
  <2>1. FromTheBroker(skb)'
    BY <1>1, <1>17 DEF FromTheBroker
  <2>2. ~bad' /\ Trusted(p) => Verifies(skb')
    BY <1>1, <1>18
  <2>3. (~bad /\ Trusted(frame.bytes) => Verifies(skb))'
    BY <1>1, <2>2
  <2> QED BY <2>1, <2>3 DEF WalkInv
<1>20. WalkVerifies'
  <2>1. \A k \in DOMAIN copies : ~copies[k].bad /\ Trusted(p) => Reaches(copies[k])
    BY <1>1, <1>2 DEF WalkVerifies
  <2>2. CASE copies' = copies
    BY <1>1, <2>1, <2>2 DEF WalkVerifies, Reaches, Addressed
  <2>3. CASE skb' = st.all /\ copies' = Append(copies, copy)
    <3>1. ASSUME Trusted(p), ~copy.bad PROVE Reaches(copy)
      <4>1. Verifies(skb')
        BY <1>5, <1>18, <2>3, <3>1
      <4>2. Carries(skb', 16, s.ip, 4) /\ Carries(skb', 22, s.port, 2)
        BY <1>6, <2>3
      <4>3. Addressed(copy)
        BY <1>3, <1>4, <1>5, <1>7, <1>17, <4>2, AddressedIs
      <4> QED BY <1>5, <4>1, <4>3 DEF Reaches
    <3>2. ASSUME NEW k \in DOMAIN copies' PROVE ~copies'[k].bad /\ Trusted(p) => Reaches(copies'[k])
      <4>1. k \in 1..Len(copies) \/ k = Len(copies) + 1
        BY <1>10, <1>11, <2>3, SMT
      <4>2. CASE k \in 1..Len(copies)
        <5>1. k \in DOMAIN copies /\ copies'[k] = copies[k]
          BY <1>2, <1>11, <2>3, <4>2, LenProperties
        <5> QED BY <2>1, <5>1
      <4>3. CASE k = Len(copies) + 1
        BY <1>11, <2>3, <3>1, <4>3
      <4> QED BY <4>1, <4>2, <4>3
    <3> QED BY <1>1, <3>2 DEF WalkVerifies, Reaches, Addressed
  <2> QED BY <1>1, <2>2, <2>3
<1> QED BY <1>13, <1>14, <1>15, <1>16, <1>19, <1>20 DEF IInv

LEMMA WalkDoneStep ==
  ASSUME IInv, WalkDone
  PROVE  IInv'
<1>1. /\ pc = "walk" /\ pc' = "shot"
      /\ UNCHANGED <<frame, skb, i, topic_id, csum, route, copies, bad, faults>>
  BY DEF WalkDone
<1>2. TypeOK'
  BY <1>1 DEF IInv, TypeOK
<1>3. ControlInv'
  BY <1>1 DEF IInv, ControlInv, Parses
<1>4. KeyInv'
  BY <1>1, KeyKept
<1>5. WalkInv' /\ WalkVerifies'
  BY <1>1 DEF IInv, WalkInv, WalkVerifies, FromTheBroker, Reaches, Addressed
<1>6. SumInv' /\ TxVerifies'
  BY <1>1 DEF SumInv, TxVerifies
<1> QED BY <1>2, <1>3, <1>4, <1>5, <1>6 DEF IInv

LEMMA StutterStep ==
  ASSUME IInv, UNCHANGED vars
  PROVE  IInv'
<1>1. UNCHANGED <<pc, frame, skb, i, topic_id, csum, route, copies, bad, faults>>
  BY DEF vars
<1>2. TypeOK'
  BY <1>1 DEF IInv, TypeOK
<1>3. ControlInv' /\ KeyInv' /\ SumInv'
  BY <1>1 DEF IInv, ControlInv, Untouched, Parses, KeyInv, Read, SumInv
<1>4. WalkInv' /\ WalkVerifies' /\ TxVerifies'
  BY <1>1 DEF IInv, WalkInv, WalkVerifies, FromTheBroker, Reaches, Addressed, TxVerifies
<1> QED BY <1>2, <1>3, <1>4 DEF IInv

\* IInv holds in every reachable state.
THEOREM Invariance == Spec => []IInv
<1>1. IInv /\ [Next]_vars => IInv'
  BY ParseStep, ExtractCharStep, ExtractEndStep, LookupStep, RewriteStep, SumWordStep,
     SumDoneStep, TcIngressStep, CallbackStep, WalkDoneStep, StutterStep
     DEF Next
<1> QED BY <1>1, InitInv, PTL DEF Spec

\* The packet keeps its length and its bytes, loops stay within their bounds, and the
\* sum of compute_udp_checksum within that of its loop.
THEOREM PacketTypes == Spec => []TypeOK
<1>1. IInv => TypeOK
  BY DEF IInv
<1> QED BY <1>1, Invariance, PTL

\* The __u32 sum of compute_udp_checksum never wraps, and the two folds leave no carry
\* for the final cast to __u16 to drop.
NoCarryLost ==
  pc = "udp" => csum + OddByte < U16 * U16 /\ Fold(Fold(csum + OddByte)) < U16

\* NoCarryLost holds for every datagram and however many words the loop may cover: the
\* 16-bit length of the datagram bounds the words that are added.
THEOREM SumNeverWraps == Spec => []NoCarryLost
<1>1. ASSUME IInv, pc = "udp"
      PROVE  csum + OddByte < U16 * U16 /\ Fold(Fold(csum + OddByte)) < U16
  <2>1. OddByte \in Nat /\ OddByte <= 65280
    BY <1>1, OddByteType
  <2>2. /\ i \in 0..MaxWords /\ csum \in 0..((MaxWords + 6) * (U16 - 1))
        /\ csum <= (i + 6) * (U16 - 1) /\ 2 * i <= Length(skb) + 1
    BY <1>1 DEF IInv, TypeOK, ControlInv, SumInv
  <2>3. Is16(Length(skb))
    <3>1. Len(frame.bytes) \in Nat /\ Len(frame.bytes) > 28 /\ skb \in Packet(Len(frame.bytes))
      BY <1>1, WholeHeaders
    <3> QED BY <3>1, PseudoType
  <2>4. i \in Nat /\ csum \in Nat /\ csum <= (i + 6) * 65535
    BY <2>2, Modulus, SMT
  <2>5. i <= 32768
    BY <2>2, <2>3, <2>4, SMT DEF Is16
  <2>6. csum + OddByte \in Nat /\ csum + OddByte < 65536 * 65536
    BY <2>1, <2>4, <2>5, SMT
  <2>7. Fold(Fold(csum + OddByte)) <= 65535
    BY <2>6, FinishSum
  <2>8. Fold(Fold(csum + OddByte)) \in Int
    <3>1. \A x \in Nat : Fold(x) \in Nat
      BY Modulus, SMT DEF Fold
    <3> QED BY <2>6, <3>1, SMT
  <2> QED BY <2>6, <2>7, <2>8, Modulus, SMT
<1>2. IInv => NoCarryLost
  BY <1>1 DEF NoCarryLost
<1> QED BY <1>2, Invariance, PTL

\* What xdp_broker transmits passes both checks of the subscriber, for a datagram of any
\* length that the loop covers, even or padded with zero bytes.
THEOREM TransmittedVerifies == Spec => []TxVerifies
<1>1. IInv => TxVerifies
  BY DEF IInv
<1> QED BY <1>1, Invariance, PTL

\* Every copy the walk sends passes both checks, however many subscribers came before,
\* as long as no checksum helper failed.
THEOREM CopiesVerify == Spec => []WalkVerifies
<1>1. IInv => WalkVerifies
  BY DEF IInv
<1> QED BY <1>1, Invariance, PTL

\* A run of callback_fn neither spoils nor heals the checksums of the skb.
THEOREM NeverHeals == Spec => SpoiledForGood
<1>1. ASSUME IInv, [Next]_vars, pc = "walk", i' = i + 1, faults' = faults, WellFormed(skb)
      PROVE  Verifies(skb') <=> Verifies(skb)
  <2>1. i \in Int /\ faults \in Int
    <3>1. i \in 0..Len(route) /\ faults \in 0..MaxFaults
      BY <1>1 DEF IInv, TypeOK
    <3> QED BY <3>1, SMT
  <2>2. Callback
    <3>1. i' # i
      BY <1>1, <2>1, SMT
    <3> QED BY <1>1, <3>1 DEF Next, vars, Parse, ExtractChar, ExtractEnd, Lookup, Rewrite,
                              SumWord, SumDone, TcIngress, WalkDone
  <2>3. i < Len(route) /\ skb' = ToSubscriber(skb, route[i + 1]).all
    <3>1. faults' # faults + 1
      BY <1>1, <2>1, SMT
    <3> QED BY <2>2, <3>1 DEF Callback
  <2>4. Len(frame.bytes) \in Nat /\ Len(frame.bytes) > 28 /\ skb \in Packet(Len(frame.bytes))
    BY <1>1, WholeHeaders
  <2>5. route[i + 1].ip \in Packet(4) /\ route[i + 1].port \in Packet(2)
    BY <1>1, <2>3, WalkPacket
  <2>6. Stages(ToSubscriber(skb, route[i + 1]), skb, Len(frame.bytes), 16, 22)
    BY <2>4, <2>5, ToSubscriberDoes
  <2> QED BY <1>1, <2>3, <2>6 DEF Stages
<1>2. IInv /\ [Next]_vars
        => [pc = "walk" /\ i' = i + 1 /\ faults' = faults /\ WellFormed(skb)
              => (Verifies(skb') <=> Verifies(skb))]_vars
  BY <1>1
<1> QED BY <1>2, Invariance, PTL DEF Spec, SpoiledForGood

-----------------------------------------------------------------------------
(* Topic keys.                                                             *)

LEMMA MinIs ==
  ASSUME NEW T, T \subseteq Int, NEW m \in T, \A y \in T : m <= y
  PROVE  Min(T) = m
<1>1. \A x \in T : (\A y \in T : x <= y) => x = m
  BY SMT
<1> QED BY <1>1 DEF Min

\* A sequence that an end set cuts: n is where it is cut.
CutAt(s, E, n) ==
  /\ n \in 0..Len(s)
  /\ \A k \in 0..Len(s) : k < n => s[k + 1] \notin E
  /\ n = Len(s) \/ s[n + 1] \in E

LEMMA CutIs ==
  ASSUME NEW s, Len(s) \in Nat, NEW E, NEW n, CutAt(s, E, n)
  PROVE  Min({k \in 0..Len(s) : k = Len(s) \/ s[k + 1] \in E}) = n
<1> DEFINE T == {k \in 0..Len(s) : k = Len(s) \/ s[k + 1] \in E}
<1>1. T \subseteq Int /\ n \in T
  BY DEF CutAt
<1>2. \A y \in T : n <= y
  BY SMT DEF CutAt
<1> HIDE DEF T
<1>3. Min(T) = n
  BY <1>1, <1>2, MinIs
<1> QED BY <1>3 DEF T

\* Every sequence is cut somewhere.
LEMMA CutExists ==
  ASSUME NEW s, Len(s) \in Nat, NEW E
  PROVE  \E n : CutAt(s, E, n)
<1> DEFINE T == {k \in 0..Len(s) : k = Len(s) \/ s[k + 1] \in E}
<1>1. T \subseteq Nat /\ Len(s) \in T
  BY SMT
<1>2. PICK n \in T : \A y \in T : n <= y
  BY <1>1, Least
<1>3. \A k \in 0..Len(s) : k < n => s[k + 1] \notin E
  BY <1>1, <1>2, SMT
<1>4. n \in 0..Len(s) /\ (n = Len(s) \/ s[n + 1] \in E)
  OBVIOUS
<1> QED BY <1>3, <1>4 DEF CutAt

\* The topic keys that n characters of a sequence make.
KeyOf(s, n) == [k \in 0..(MAX_TOPIC_ID_CHARS - 1) |-> IF k < n THEN s[k + 1] ELSE NUL]

\* The daemon's key for a plain name, whatever ends the line.
LEMMA DaemonKeyIs ==
  ASSUME NEW name \in Names, NEW end \in LineEnds
  PROVE  /\ Len(name) \in Nat
         /\ \A k \in 1..Len(name) : name[k] \in Byte \ (DaemonStops \cup KernelStops)
         /\ DaemonKey(name \o end) = IF Len(name) < MAX_TOPIC_ID_CHARS
                                     THEN KeyOf(name, Len(name)) ELSE Refused
<1> DEFINE C == Byte \ (DaemonStops \cup KernelStops)
           raw == name \o end
           n == Len(name)
<1>1. name \in Seq(C)
  BY BytesAssumption
<1>2. n \in Nat /\ \A k \in 1..n : name[k] \in C
  BY <1>1, LenProperties, ElementOfSeq
<1>3. NUL \in Byte /\ NL \in Byte /\ CR \in Byte
  BY ByteNat, SMT DEF NUL, NL, CR
<1>4. /\ end \in Seq(Byte)
      /\ Len(end) = 0 \/ (Len(end) \in Nat /\ Len(end) > 0 /\ end[1] \in DaemonStops)
  <2>1. NL \in DaemonStops /\ CR \in DaemonStops
    BY DEF DaemonStops
  <2>2. CASE end = << >>
    <3>1. << >> \in Seq(Byte) /\ Len(<< >>) = 0
      BY EmptySeq
    <3> QED BY <2>2, <3>1
  <2>3. CASE end = <<NL>>
    BY <1>3, <2>1, <2>3, SMT
  <2>4. CASE end = <<CR, NL>>
    BY <1>3, <2>1, <2>4, SMT
  <2> QED BY <2>2, <2>3, <2>4 DEF LineEnds
<1>5. name \in Seq(Byte)
  BY <1>1, <1>2
<1> HIDE DEF C
<1>6. /\ Len(raw) = n + Len(end)
      /\ \A k \in 1..(n + Len(end)) : raw[k] = IF k <= n THEN name[k] ELSE end[k - n]
  BY <1>4, <1>5, ConcatProperties
<1>7. CutAt(raw, DaemonStops, n)
  <2>1. n \in 0..Len(raw) /\ Len(raw) \in Nat
    BY <1>2, <1>4, <1>6, SMT
  <2>2. ASSUME NEW k \in 0..Len(raw), k < n PROVE raw[k + 1] \notin DaemonStops
    <3>1. k + 1 \in 1..n /\ k + 1 \in 1..(n + Len(end)) /\ k + 1 <= n
      BY <1>2, <1>4, <1>6, <2>1, <2>2, SMT
    <3>2. raw[k + 1] = name[k + 1]
      BY <1>6, <3>1
    <3> QED BY <1>2, <3>1, <3>2 DEF C
  <2>3. n = Len(raw) \/ raw[n + 1] \in DaemonStops
    <3>1. CASE Len(end) = 0
      BY <1>2, <1>6, <3>1, SMT
    <3>2. CASE Len(end) \in Nat /\ Len(end) > 0 /\ end[1] \in DaemonStops
      <4>1. n + 1 \in 1..(n + Len(end)) /\ ~(n + 1 <= n) /\ (n + 1) - n = 1
        BY <1>2, <3>2, SMT
      <4> QED BY <1>6, <3>2, <4>1
    <3> QED BY <1>4, <3>1, <3>2
  <2> QED BY <2>1, <2>2, <2>3 DEF CutAt
<1>8. Len(raw) \in Nat
  BY <1>2, <1>4, <1>6, SMT
<1>9. Min({k \in 0..Len(raw) : k = Len(raw) \/ raw[k + 1] \in DaemonStops}) = n
  BY <1>7, <1>8, CutIs
<1>10. ASSUME NEW k \in 0..(MAX_TOPIC_ID_CHARS - 1), k < n PROVE raw[k + 1] = name[k + 1]
  <2>1. k + 1 \in 1..(n + Len(end)) /\ k + 1 <= n
    BY <1>2, <1>4, <1>10, SMT
  <2> QED BY <1>6, <2>1
<1>11. DaemonKey(raw) = IF n < MAX_TOPIC_ID_CHARS
                        THEN [k \in DOMAIN EmptyKey |-> IF k < n THEN raw[k + 1] ELSE NUL]
                        ELSE Refused
  BY <1>9 DEF DaemonKey
<1>12. [k \in DOMAIN EmptyKey |-> IF k < n THEN raw[k + 1] ELSE NUL] = KeyOf(name, n)
  BY <1>10, KeyDomain DEF KeyOf
<1> QED BY <1>2, <1>11, <1>12 DEF C

\* The first n characters of what was published, n being at most its length.
LEMMA PublishedIs ==
  ASSUME TypeOK, NEW n \in Nat,
         n > 0 => Topic + n <= Len(frame.bytes),
         \A k \in 1..n : frame.bytes[Topic + k] \notin KernelStops
  PROVE  /\ Len(Published) \in Nat /\ n <= Len(Published)
         /\ \A k \in 1..n : Published[k] = frame.bytes[Topic + k]
         /\ Topic + n < Len(frame.bytes) /\ frame.bytes[Topic + n + 1] \in KernelStops
              => Len(Published) = n
         /\ \A m \in 0..Len(Published) :
              /\ SubSeq(Published, 1, m) \in Seq(Byte) /\ Len(SubSeq(Published, 1, m)) = m
              /\ \A k \in 1..m : SubSeq(Published, 1, m)[k] = Published[k]
<1> DEFINE b == frame.bytes
           l == Len(b)
           t == Topic
           text == SubSeq(b, t + 1, l)
<1>1. t \in Nat /\ t = Payload + Len(Prefix)
  <2>1. Len(Prefix) \in Nat
    BY BytesAssumption, LenProperties
  <2> QED BY <2>1, SMT DEF Topic, Payload
<1>2. l \in Nat /\ b \in Packet(l)
  BY StateBytes
<1> HIDE DEF b, t
<1>3. \A k \in 1..l : b[k] \in Byte
  BY <1>2, SMT DEF Packet
<1>4. /\ text \in Seq(Byte)
      /\ Len(text) = IF t + 1 <= l THEN l - (t + 1) + 1 ELSE 0
      /\ \A k \in 1..(l - (t + 1) + 1) : text[k] = b[(t + 1) + k - 1]
  <2>1. t + 1 \in Int /\ l \in Int
    BY <1>1, <1>2, SMT
  <2>2. \A k \in (t + 1)..l : b[k] \in Byte
    BY <1>1, <1>2, <1>3, SMT
  <2> QED BY <2>1, <2>2, SubSeqProperties
<1> HIDE DEF text
<1>5. Len(text) \in Nat /\ \A k \in 1..Len(text) : text[k] = b[t + k] /\ text[k] \in Byte
  <2>1. Len(text) \in Nat /\ \A k \in 1..Len(text) : text[k] \in Byte
    BY <1>4, LenProperties, ElementOfSeq
  <2>2. ASSUME NEW k \in 1..Len(text) PROVE text[k] = b[t + k]
    <3>1. k \in 1..(l - (t + 1) + 1) /\ (t + 1) + k - 1 = t + k
      BY <1>1, <1>2, <1>4, SMT
    <3> QED BY <1>4, <3>1
  <2> QED BY <2>1, <2>2
<1>6. PICK c : CutAt(text, KernelStops, c)
  BY <1>5, CutExists
<1>7. Published = SubSeq(text, 1, c)
  <2>1. Min({k \in 0..Len(text) : k = Len(text) \/ text[k + 1] \in KernelStops}) = c
    BY <1>5, <1>6, CutIs
  <2>2. KernelStops = TopicEnds
    BY DEF KernelStops, TopicEnds
  <2> QED BY <1>1, <2>1, <2>2 DEF Published, text, b, t
<1>8. c \in Nat /\ c <= Len(text)
  BY <1>5, <1>6, SMT DEF CutAt
<1>9. /\ Published \in Seq(Byte) /\ Len(Published) = c
      /\ \A k \in 1..c : Published[k] = text[k] /\ Published[k] = b[t + k]
  <2>1. 1 \in Int /\ c \in Int /\ \A k \in 1..c : text[k] \in Byte /\ k \in 1..Len(text)
    BY <1>5, <1>8, SMT
  <2>2. /\ Published \in Seq(Byte)
        /\ Len(Published) = IF 1 <= c THEN c - 1 + 1 ELSE 0
        /\ \A k \in 1..(c - 1 + 1) : Published[k] = text[1 + k - 1]
    BY <1>7, <2>1, SubSeqProperties
  <2>3. \A k \in 1..c : k \in 1..(c - 1 + 1) /\ 1 + k - 1 = k
    BY <1>8, SMT
  <2>4. Len(Published) = c
    BY <1>8, <2>2, SMT
  <2> QED BY <1>5, <2>1, <2>2, <2>3, <2>4
<1>10. n <= Len(text)
  BY <1>1, <1>2, <1>4, <1>5, SMT DEF b, t
<1>11. n <= c
  <2>1. SUFFICES ASSUME c < n PROVE FALSE
    BY <1>8, SMT
  <2>2. c # Len(text) /\ c + 1 \in 1..Len(text) /\ c + 1 \in 1..n
    BY <1>5, <1>8, <1>10, <2>1, SMT
  <2>3. text[c + 1] \in KernelStops
    BY <1>6, <2>2 DEF CutAt
  <2>4. text[c + 1] = b[t + (c + 1)]
    BY <1>5, <2>2
  <2> QED BY <2>2, <2>3, <2>4 DEF b, t
<1>12. \A k \in 1..n : Published[k] = b[t + k]
  <2>1. \A k \in 1..n : k \in 1..c
    BY <1>8, <1>11, SMT
  <2> QED BY <1>9, <2>1
<1>13. ASSUME t + n < l, b[t + n + 1] \in KernelStops PROVE c = n
  <2>1. SUFFICES ASSUME n < c PROVE FALSE
    BY <1>8, <1>11, SMT
  <2>2. n \in 0..Len(text) /\ n + 1 \in 1..Len(text) /\ t + (n + 1) = t + n + 1
    BY <1>1, <1>5, <1>8, <2>1, SMT
  <2>3. text[n + 1] \notin KernelStops
    BY <1>6, <2>1, <2>2 DEF CutAt
  <2> QED BY <1>5, <1>13, <2>2, <2>3
<1>14. ASSUME NEW m \in 0..c
       PROVE  /\ SubSeq(Published, 1, m) \in Seq(Byte) /\ Len(SubSeq(Published, 1, m)) = m
              /\ \A k \in 1..m : SubSeq(Published, 1, m)[k] = Published[k]
  <2>1. 1 \in Int /\ m \in Int /\ m \in Nat /\ \A k \in 1..m : k \in 1..c
    BY <1>8, SMT
  <2>2. \A k \in 1..m : Published[k] \in Byte
    BY <1>9, <2>1, ElementOfSeq
  <2>3. /\ SubSeq(Published, 1, m) \in Seq(Byte)
        /\ Len(SubSeq(Published, 1, m)) = IF 1 <= m THEN m - 1 + 1 ELSE 0
        /\ \A k \in 1..(m - 1 + 1) : SubSeq(Published, 1, m)[k] = Published[1 + k - 1]
    BY <2>1, <2>2, SubSeqProperties
  <2>4. \A k \in 1..m : k \in 1..(m - 1 + 1) /\ 1 + k - 1 = k
    BY <2>1, SMT
  <2>5. Len(SubSeq(Published, 1, m)) = m
    BY <2>1, <2>3, SMT
  <2> QED BY <2>3, <2>4, <2>5
<1> HIDE DEF l
<1>15. Len(Published) \in Nat /\ n <= Len(Published)
  BY <1>8, <1>9, <1>11
<1>16. /\ \A k \in 1..n : Published[k] = frame.bytes[Topic + k]
       /\ Topic + n < Len(frame.bytes) /\ frame.bytes[Topic + n + 1] \in KernelStops
            => Len(Published) = n
  BY <1>9, <1>12, <1>13 DEF b, t, l
<1> QED BY <1>9, <1>14, <1>15, <1>16

\* Two keys of plain characters are the same exactly when the characters are.
LEMMA SameKey ==
  ASSUME NEW s, NEW u, s \in Seq(Byte), u \in Seq(Byte),
         Len(s) < MAX_TOPIC_ID_CHARS, Len(u) < MAX_TOPIC_ID_CHARS,
         \A k \in 1..Len(s) : s[k] # NUL, \A k \in 1..Len(u) : u[k] # NUL,
         KeyOf(s, Len(s)) = KeyOf(u, Len(u))
  PROVE  s = u
<1> DEFINE M == 0..(MAX_TOPIC_ID_CHARS - 1)
<1>1. Len(s) \in Nat /\ Len(u) \in Nat
  BY LenProperties
<1>2. \A k \in M : (IF k < Len(s) THEN s[k + 1] ELSE NUL) = (IF k < Len(u) THEN u[k + 1] ELSE NUL)
  <2>1. ASSUME NEW k \in M PROVE KeyOf(s, Len(s))[k] = KeyOf(u, Len(u))[k]
    OBVIOUS
  <2> QED BY <2>1 DEF KeyOf
<1>3. ~(Len(s) < Len(u))
  <2>1. SUFFICES ASSUME Len(s) < Len(u) PROVE FALSE
    OBVIOUS
  <2>2. Len(s) \in M /\ Len(s) + 1 \in 1..Len(u) /\ ~(Len(s) < Len(s))
    BY <1>1, <2>1, SMT
  <2> QED BY <1>2, <2>1, <2>2
<1>4. ~(Len(u) < Len(s))
  <2>1. SUFFICES ASSUME Len(u) < Len(s) PROVE FALSE
    OBVIOUS
  <2>2. Len(u) \in M /\ Len(u) + 1 \in 1..Len(s) /\ ~(Len(u) < Len(u))
    BY <1>1, <2>1, SMT
  <2> QED BY <1>2, <2>1, <2>2
<1>5. Len(s) = Len(u)
  BY <1>1, <1>3, <1>4, SMT
<1>6. ASSUME NEW k \in 1..Len(s) PROVE s[k] = u[k]
  <2>1. k - 1 \in M /\ k - 1 < Len(s) /\ k - 1 < Len(u) /\ (k - 1) + 1 = k
    BY <1>1, <1>5, SMT
  <2> QED BY <1>2, <2>1
<1> QED BY <1>5, <1>6, SeqEqual

LEMMA KeyMeans == IInv => KeysAgree
<1> SUFFICES ASSUME IInv, pc \notin {"parse", "extract", "pass"} PROVE KeysAgree
  BY DEF KeysAgree
<1>1. TypeOK
  BY DEF IInv
<1> DEFINE Ends(n) == \/ n = MAX_TOPIC_ID_CHARS - 1
                      \/ /\ Topic + n < Len(frame.bytes)
                         /\ frame.bytes[Topic + n + 1] \in KernelStops
<1>2. PICK n \in 0..(MAX_TOPIC_ID_CHARS - 1) : Read(n) /\ Ends(n)
  BY DEF IInv, KeyInv
<1>3. n \in Nat /\ n < MAX_TOPIC_ID_CHARS /\ MAX_TOPIC_ID_CHARS - 1 \in Nat
  BY SMT
<1>4. topic_id \in [0..(MAX_TOPIC_ID_CHARS - 1) -> Byte]
  BY <1>1, KeyDomain DEF TypeOK
<1>5. Topic \in Nat /\ Len(frame.bytes) \in Nat
  <2>1. Len(Prefix) \in Nat
    BY BytesAssumption, LenProperties
  <2> QED BY <1>1, <2>1, StateBytes, SMT DEF Topic, Payload
<1>6. ASSUME NEW k \in 1..n
      PROVE  /\ Topic + k <= Len(frame.bytes)
             /\ frame.bytes[Topic + k] \notin KernelStops
             /\ topic_id[k - 1] = frame.bytes[Topic + k]
  <2>1. /\ k - 1 \in 0..(MAX_TOPIC_ID_CHARS - 1) /\ k - 1 < n
        /\ Topic + (k - 1) + 1 = Topic + k
    BY <1>3, <1>5, SMT
  <2>2. k - 1 \in DOMAIN topic_id
    BY <1>4, <2>1
  <2>3. /\ Topic + (k - 1) < Len(frame.bytes)
        /\ topic_id[k - 1] = frame.bytes[Topic + (k - 1) + 1]
        /\ topic_id[k - 1] \notin KernelStops
    BY <1>2, <2>1, <2>2 DEF Read
  <2>4. Topic + k <= Len(frame.bytes)
    BY <1>3, <1>5, <2>3, SMT
  <2> QED BY <2>1, <2>3, <2>4
<1>7. n > 0 => Topic + n <= Len(frame.bytes)
  <2>1. n > 0 => n \in 1..n
    BY <1>3, SMT
  <2> QED BY <1>6, <2>1
<1> DEFINE w == SubSeq(Published, 1, n)
<1>8. /\ Len(Published) \in Nat /\ n <= Len(Published)
      /\ \A k \in 1..n : Published[k] = frame.bytes[Topic + k]
      /\ Topic + n < Len(frame.bytes) /\ frame.bytes[Topic + n + 1] \in KernelStops
           => Len(Published) = n
      /\ \A m \in 0..Len(Published) :
           /\ SubSeq(Published, 1, m) \in Seq(Byte) /\ Len(SubSeq(Published, 1, m)) = m
           /\ \A k \in 1..m : SubSeq(Published, 1, m)[k] = Published[k]
  BY <1>1, <1>3, <1>6, <1>7, PublishedIs
<1>9. n \in 0..Len(Published)
  BY <1>3, <1>8, SMT
<1>10. w \in Seq(Byte) /\ Len(w) = n /\ \A k \in 1..n : w[k] = topic_id[k - 1] /\ w[k] # NUL
  <2>1. w \in Seq(Byte) /\ Len(w) = n /\ \A k \in 1..n : w[k] = Published[k]
    BY <1>8, <1>9
  <2> QED BY <1>6, <1>8, <2>1 DEF KernelStops
<1>11. Min({Len(Published), MAX_TOPIC_ID_CHARS - 1}) = n
  <2>1. n = Len(Published) \/ n = MAX_TOPIC_ID_CHARS - 1
    BY <1>2, <1>8
  <2>2. /\ {Len(Published), MAX_TOPIC_ID_CHARS - 1} \subseteq Int
        /\ \A y \in {Len(Published), MAX_TOPIC_ID_CHARS - 1} : n <= y
        /\ n \in {Len(Published), MAX_TOPIC_ID_CHARS - 1}
    BY <1>3, <1>8, <2>1, SMT
  <2> QED BY <2>2, MinIs
<1> HIDE DEF w
<1>12. topic_id = KeyOf(w, n)
  <2>1. ASSUME NEW k \in 0..(MAX_TOPIC_ID_CHARS - 1)
        PROVE  topic_id[k] = IF k < n THEN w[k + 1] ELSE NUL
    <3>1. k < n => k + 1 \in 1..n /\ (k + 1) - 1 = k
      BY <1>3, SMT
    <3>2. ~(k < n) => topic_id[k] = NUL
      BY <1>2, <1>4 DEF Read
    <3> QED BY <1>10, <3>1, <3>2
  <2> QED BY <1>4, <2>1 DEF KeyOf
<1>13. ASSUME NEW name \in Names, NEW end \in LineEnds
       PROVE  topic_id = DaemonKey(name \o end) <=> name = w
  <2>1. /\ Len(name) \in Nat
        /\ \A k \in 1..Len(name) : name[k] \in Byte \ (DaemonStops \cup KernelStops)
        /\ DaemonKey(name \o end) = IF Len(name) < MAX_TOPIC_ID_CHARS
                                    THEN KeyOf(name, Len(name)) ELSE Refused
    BY DaemonKeyIs
  <2>2. name \in Seq(Byte) /\ \A k \in 1..Len(name) : name[k] # NUL
    <3>1. name \in Seq(Byte \ (DaemonStops \cup KernelStops))
      BY BytesAssumption
    <3> QED BY <2>1, <3>1 DEF DaemonStops
  <2>3. ASSUME topic_id = DaemonKey(name \o end) PROVE name = w
    <3>1. Len(name) < MAX_TOPIC_ID_CHARS
      <4>1. 0 \in DOMAIN topic_id /\ DOMAIN Refused = {}
        BY <1>3, <1>4 DEF Refused
      <4> QED BY <2>1, <2>3, <4>1
    <3> QED BY <1>3, <1>10, <1>12, <2>1, <2>2, <2>3, <3>1, SameKey
  <2>4. ASSUME name = w PROVE topic_id = DaemonKey(name \o end)
    BY <1>3, <1>10, <1>12, <2>1, <2>4
  <2> QED BY <2>3, <2>4
<1> QED BY <1>11, <1>13 DEF KeysAgree, w

\* A PUBLISH is looked up under the key that the daemon stored for a plain name exactly
\* when it names that topic, for every size of a key, name, line end and frame.
THEOREM SameTopic == Spec => []KeysAgree
BY KeyMeans, Invariance, PTL

=============================================================================
