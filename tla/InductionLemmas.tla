--------------------------- MODULE InductionLemmas ---------------------------
(***************************************************************************)
(* Induction, stated for sets: the provers cannot instantiate a theorem    *)
(* that takes a predicate, but they can apply one to the set of the        *)
(* numbers that satisfy it.  And what follows from it for the sums of the  *)
(* community modules.                                                      *)
(***************************************************************************)
EXTENDS Integers, FiniteSets, Functions, FiniteSetTheorems, WellFoundedInduction, TLAPS

\* A nonempty set of natural numbers has a least element.
LEMMA Least ==
  ASSUME NEW T, T \subseteq Nat, T # {}
  PROVE  \E x \in T : \A y \in T : x <= y
<1> DEFINE R == {ss \in Nat \X Nat : ss[1] < ss[2]}
<1>1. OpToRel(<, Nat) = R
  BY DEF OpToRel
<1>2. IsWellFoundedOn(R, Nat)
  BY <1>1, NatLessThanWellFounded
<1>3. \A x, y \in Nat : <<y, x>> \in R <=> y < x
  OBVIOUS
<1> HIDE DEF R
<1>4. PICK x \in T : \A y \in T : ~ (<<y, x>> \in R)
  BY <1>2, WFMin
<1>5. \A y \in T : ~(y < x)
  BY <1>3, <1>4
<1> QED BY <1>5

\* A set that has 0 and is closed under successor has every natural number.
LEMMA Induct ==
  ASSUME NEW S, 0 \in S, \A n \in Nat : n \in S => n + 1 \in S
  PROVE  Nat \subseteq S
<1>1. SUFFICES ASSUME Nat \ S # {} PROVE FALSE
  OBVIOUS
<1>2. PICK x \in Nat \ S : \A y \in Nat \ S : x <= y
  BY <1>1, Least
<1>3. x - 1 \in Nat /\ x - 1 \notin S
  BY <1>2
<1> QED BY <1>2, <1>3

\* h[s] is what f adds up to on s, for every subset s of W.
AddsUp(h, f, W) ==
  /\ \A x \in W : f[x] \in Nat
  /\ h \in [SUBSET W -> Nat]
  /\ h[{}] = 0
  /\ \A s \in SUBSET W : \A x \in s : h[s] = f[x] + h[s \ {x}]

\* SumFunctionOnSet picks the elements in an order of its own, which does not matter.
LEMMA SumIs ==
  ASSUME NEW W, IsFiniteSet(W), NEW f, NEW h, AddsUp(h, f, W)
  PROVE  SumFunctionOnSet(f, W) = h[W]
<1> USE DEF AddsUp
<1> DEFINE pick(s) == CHOOSE x \in s : TRUE
           body(g, s) == IF s = {} THEN 0 ELSE f[pick(s)] + g[s \ {pick(s)}]
           iter == CHOOSE g : g = [s \in SUBSET W |-> body(g, s)]
<1>1. SumFunctionOnSet(f, W) = iter[W]
  BY DEF SumFunctionOnSet, FoldFunctionOnSet, MapThenFoldSet
<1>2. h = [s \in SUBSET W |-> body(h, s)]
  <2>1. ASSUME NEW s \in SUBSET W PROVE h[s] = body(h, s)
    <3>1. s # {} => pick(s) \in s
      OBVIOUS
    <3> QED BY <3>1
  <2> QED BY <2>1
<1>3. iter = [s \in SUBSET W |-> body(iter, s)]
  <2>1. \E g : g = [s \in SUBSET W |-> body(g, s)]
    BY <1>2, Zenon
  <2> HIDE DEF body
  <2> QED BY <2>1, Zenon
<1> HIDE DEF iter
<1>4. \A s \in SUBSET W : iter[s] = body(iter, s)
  BY <1>3
<1> DEFINE S == {n \in Nat : \A s \in SUBSET W : Cardinality(s) = n => iter[s] = h[s]}
<1>5. 0 \in S
  <2> SUFFICES ASSUME NEW s \in SUBSET W, Cardinality(s) = 0 PROVE iter[s] = h[s]
    OBVIOUS
  <2>1. s = {}
    BY FS_Subset, FS_EmptySet
  <2> QED BY <2>1, <1>4
<1>6. ASSUME NEW n \in Nat, n \in S PROVE n + 1 \in S
  <2> SUFFICES ASSUME NEW s \in SUBSET W, Cardinality(s) = n + 1 PROVE iter[s] = h[s]
    OBVIOUS
  <2>1. s # {} /\ IsFiniteSet(s)
    BY FS_Subset, FS_EmptySet
  <2>2. pick(s) \in s
    BY <2>1
  <2>3. s \ {pick(s)} \in SUBSET W /\ Cardinality(s \ {pick(s)}) = n
    <3>1. \A x : Cardinality(s \ {x}) = IF x \in s THEN Cardinality(s) - 1 ELSE Cardinality(s)
      BY <2>1, FS_RemoveElement
    <3> HIDE DEF pick
    <3> QED BY <2>2, <3>1
  <2>4. iter[s \ {pick(s)}] = h[s \ {pick(s)}]
    BY <1>6, <2>3
  <2>5. iter[s] = f[pick(s)] + iter[s \ {pick(s)}]
    BY <1>4, <2>1
  <2> HIDE DEF pick
  <2> QED BY <2>2, <2>4, <2>5
<1> HIDE DEF S
<1>7. Nat \subseteq S
  BY <1>5, <1>6, Induct
<1>8. Cardinality(W) \in Nat
  BY FS_CardinalityType
<1>9. Cardinality(W) \in S
  BY <1>7, <1>8
<1> QED BY <1>1, <1>9 DEF S

\* f[x] is the number of elements of T that c puts into part x.
Counts(f, c, T, W) == \A x \in W : f[x] = Cardinality({d \in T : c[d] = x})

\* The sizes of the parts add up to the size of their union.
LEMMA SumOfParts ==
  ASSUME NEW T, IsFiniteSet(T), NEW W, IsFiniteSet(W), NEW c, NEW f, Counts(f, c, T, W)
  PROVE  SumFunctionOnSet(f, W) = Cardinality({d \in T : c[d] \in W})
<1> USE DEF Counts
<1> DEFINE h == [s \in SUBSET W |-> Cardinality({d \in T : c[d] \in s})]
<1>1. ASSUME NEW s PROVE /\ IsFiniteSet({d \in T : c[d] \in s})
                         /\ Cardinality({d \in T : c[d] \in s}) \in Nat
  <2>1. {d \in T : c[d] \in s} \in SUBSET T
    OBVIOUS
  <2>2. IsFiniteSet({d \in T : c[d] \in s})
    BY <2>1, FS_Subset
  <2> QED BY <2>2, FS_CardinalityType
<1>2. h \in [SUBSET W -> Nat]
  BY <1>1
<1>3. h[{}] = 0
  <2>1. {d \in T : c[d] \in {}} = {}
    OBVIOUS
  <2> QED BY <2>1, FS_EmptySet
<1>4. \A x : {d \in T : c[d] \in {x}} = {d \in T : c[d] = x}
  OBVIOUS
<1>5. \A s \in SUBSET W : \A x \in s : h[s] = f[x] + h[s \ {x}]
  <2> SUFFICES ASSUME NEW s \in SUBSET W, NEW x \in s PROVE h[s] = f[x] + h[s \ {x}]
    OBVIOUS
  <2> DEFINE A == {d \in T : c[d] = x}
             B == {d \in T : c[d] \in s \ {x}}
  <2>1. A \cup B = {d \in T : c[d] \in s} /\ A \cap B = {}
    OBVIOUS
  <2>2. IsFiniteSet(A) /\ Cardinality(A) \in Nat
    BY <1>1, <1>4
  <2>3. IsFiniteSet(B) /\ Cardinality(B) \in Nat
    BY <1>1
  <2>4. f[x] = Cardinality(A) /\ h[s \ {x}] = Cardinality(B)
    OBVIOUS
  <2>5. h[s] = Cardinality(A \cup B)
    BY <2>1
  <2> HIDE DEF A, B, h
  <2>6. Cardinality(A \cup B) = Cardinality(A) + Cardinality(B) - Cardinality({})
    BY <2>1, <2>2, <2>3, FS_Union
  <2> QED BY <2>2, <2>3, <2>4, <2>5, <2>6, FS_EmptySet
<1>6. ASSUME NEW x \in W PROVE f[x] \in Nat
  <2>1. Cardinality({d \in T : c[d] = x}) \in Nat
    BY <1>1, <1>4
  <2> QED BY <2>1
<1>7. h[W] = Cardinality({d \in T : c[d] \in W})
  OBVIOUS
<1> HIDE DEF h
<1>8. AddsUp(h, f, W)
  BY <1>2, <1>3, <1>5, <1>6 DEF AddsUp
<1>9. SumFunctionOnSet(f, W) = h[W]
  BY <1>8, SumIs
<1> QED BY <1>7, <1>9

\* Every function to natural numbers adds up on a finite set.
LEMMA Additive ==
  ASSUME NEW W, IsFiniteSet(W), NEW f, \A x \in W : f[x] \in Nat
  PROVE  \E h : AddsUp(h, f, W)
<1> DEFINE S == {n \in Nat : \A s \in SUBSET W : Cardinality(s) = n => \E h : AddsUp(h, f, s)}
<1>1. 0 \in S
  <2> SUFFICES ASSUME NEW s \in SUBSET W, Cardinality(s) = 0 PROVE \E h : AddsUp(h, f, s)
    OBVIOUS
  <2>1. s = {}
    BY FS_Subset, FS_EmptySet
  <2>2. AddsUp([r \in SUBSET s |-> 0], f, s)
    BY <2>1 DEF AddsUp
  <2> QED BY <2>2
<1>2. ASSUME NEW n \in Nat, n \in S PROVE n + 1 \in S
  <2> SUFFICES ASSUME NEW s \in SUBSET W, Cardinality(s) = n + 1
               PROVE  \E h : AddsUp(h, f, s)
    OBVIOUS
  <2>1. s # {} /\ IsFiniteSet(s)
    BY FS_Subset, FS_EmptySet
  <2>2. PICK a \in s : TRUE
    BY <2>1
  <2> DEFINE t == s \ {a}
  <2>3. t \in SUBSET W /\ Cardinality(t) = n
    <3>1. Cardinality(s \ {a}) = IF a \in s THEN Cardinality(s) - 1 ELSE Cardinality(s)
      BY <2>1, FS_RemoveElement
    <3> QED BY <2>2, <3>1
  <2>4. PICK g : AddsUp(g, f, t)
    BY <1>2, <2>3
  <2> DEFINE h == [r \in SUBSET s |-> IF a \in r THEN f[a] + g[r \ {a}] ELSE g[r]]
  <2>5. \A r \in SUBSET s : r \ {a} \in SUBSET t /\ (a \notin r => r \in SUBSET t)
    OBVIOUS
  <2>6. \A x \in s : f[x] \in Nat
    OBVIOUS
  <2>7. h \in [SUBSET s -> Nat]
    BY <2>2, <2>4, <2>5, <2>6 DEF AddsUp
  <2>8. h[{}] = 0
    BY <2>4 DEF AddsUp
  <2>9. ASSUME NEW r \in SUBSET s, NEW x \in r PROVE h[r] = f[x] + h[r \ {x}]
    <3>1. CASE x = a
      BY <3>1
    <3>2. CASE x # a /\ a \notin r
      <4>1. g[r] = f[x] + g[r \ {x}]
        BY <2>4, <2>5, <3>2 DEF AddsUp
      <4> QED BY <3>2, <4>1
    <3>3. CASE x # a /\ a \in r
      <4>1. r \ {a} \in SUBSET t /\ x \in r \ {a} /\ (r \ {a}) \ {x} = (r \ {x}) \ {a}
        BY <2>5, <3>3
      <4>2. (r \ {a}) \ {x} \in SUBSET t
        BY <4>1
      <4>3. g[r \ {a}] = f[x] + g[(r \ {x}) \ {a}]
        <5>1. \A q \in SUBSET t : \A y \in q : g[q] = f[y] + g[q \ {y}]
          BY <2>4 DEF AddsUp
        <5>2. g[r \ {a}] = f[x] + g[(r \ {a}) \ {x}]
          BY <4>1, <5>1
        <5> QED BY <4>1, <5>2
      <4>4. g[(r \ {x}) \ {a}] \in Nat
        BY <2>4, <4>1, <4>2 DEF AddsUp
      <4>5. h[r] = f[a] + g[r \ {a}] /\ h[r \ {x}] = f[a] + g[(r \ {x}) \ {a}]
        BY <3>3
      <4>6. f[a] \in Nat /\ f[x] \in Nat
        BY <2>6, <3>3
      <4> HIDE DEF h, t
      <4> QED BY <4>3, <4>4, <4>5, <4>6
    <3> QED BY <3>1, <3>2, <3>3
  <2> HIDE DEF h, t
  <2>10. AddsUp(h, f, s)
    BY <2>6, <2>7, <2>8, <2>9 DEF AddsUp
  <2> QED BY <2>10
<1> HIDE DEF S
<1>3. Nat \subseteq S
  BY <1>1, <1>2, Induct
<1>4. Cardinality(W) \in S
  BY <1>3, FS_CardinalityType
<1> QED BY <1>4 DEF S

\* f has a natural number for every element of W.
OnNat(f, W) == \A x \in W : f[x] \in Nat

\* A sum, one element at a time.
LEMMA SumRest ==
  ASSUME NEW W, IsFiniteSet(W), NEW f, OnNat(f, W)
  PROVE  /\ SumFunctionOnSet(f, W) \in Nat
         /\ \A a \in W : SumFunctionOnSet(f, W) = f[a] + SumFunctionOnSet(f, W \ {a})
<1>1. \A x \in W : f[x] \in Nat
  BY DEF OnNat
<1>2. PICK h : AddsUp(h, f, W)
  BY <1>1, Additive
<1>3. SumFunctionOnSet(f, W) = h[W]
  BY <1>2, SumIs
<1>4. ASSUME NEW a \in W
      PROVE SumFunctionOnSet(f, W) = f[a] + SumFunctionOnSet(f, W \ {a})
  <2> DEFINE V == W \ {a}
             g == [s \in SUBSET V |-> h[s]]
  <2>1. IsFiniteSet(V)
    BY FS_RemoveElement
  <2>2. AddsUp(g, f, V)
    <3>1. SUBSET V \subseteq SUBSET W /\ \A s \in SUBSET V : \A x : s \ {x} \in SUBSET V
      OBVIOUS
    <3>2. \A x \in V : f[x] \in Nat
      BY <1>1
    <3>3. g \in [SUBSET V -> Nat]
      BY <1>2, <3>1 DEF AddsUp
    <3>4. g[{}] = 0
      BY <1>2 DEF AddsUp
    <3>5. \A s \in SUBSET V : \A x \in s : g[s] = f[x] + g[s \ {x}]
      BY <1>2, <3>1 DEF AddsUp
    <3> HIDE DEF g, V
    <3> QED BY <3>2, <3>3, <3>4, <3>5 DEF AddsUp
  <2>3. g[V] = h[V]
    OBVIOUS
  <2> HIDE DEF g
  <2>4. SumFunctionOnSet(f, V) = g[V]
    BY <2>1, <2>2, SumIs
  <2>5. h[W] = f[a] + h[V]
    BY <1>2 DEF AddsUp
  <2> QED BY <1>3, <2>3, <2>4, <2>5
<1> QED BY <1>2, <1>3, <1>4 DEF AddsUp

LEMMA SumNone ==
  ASSUME NEW f
  PROVE  SumFunctionOnSet(f, {}) = 0
<1> DEFINE h == [s \in SUBSET {} |-> 0]
<1>1. AddsUp(h, f, {})
  BY DEF AddsUp
<1>2. h[{}] = 0
  OBVIOUS
<1> HIDE DEF h
<1> QED BY <1>1, <1>2, SumIs, FS_EmptySet

LEMMA SumOne ==
  ASSUME NEW a, NEW f, f[a] \in Nat
  PROVE  SumFunctionOnSet(f, {a}) = f[a]
<1>1. IsFiniteSet({a}) /\ {a} \ {a} = {}
  BY FS_Singleton
<1>2. OnNat(f, {a})
  BY DEF OnNat
<1>3. SumFunctionOnSet(f, {a}) = f[a] + SumFunctionOnSet(f, {})
  BY <1>1, <1>2, SumRest, Zenon
<1> QED BY <1>3, SumNone

LEMMA SumTwo ==
  ASSUME NEW a, NEW b, a # b, NEW f, f[a] \in Nat, f[b] \in Nat
  PROVE  SumFunctionOnSet(f, {a, b}) = f[a] + f[b]
<1>1. IsFiniteSet({a, b})
  <2>1. IsFiniteSet({a}) /\ {a} \cup {b} = {a, b}
    BY FS_Singleton
  <2>2. IsFiniteSet({a} \cup {b})
    BY <2>1, FS_AddElement
  <2> QED BY <2>1, <2>2
<1>2. OnNat(f, {a, b}) /\ {a, b} \ {a} = {b}
  BY DEF OnNat
<1>3. SumFunctionOnSet(f, {a, b}) = f[a] + SumFunctionOnSet(f, {b})
  BY <1>1, <1>2, SumRest, Zenon
<1> QED BY <1>3, SumOne

\* A sum up to n, by its last term.
LEMMA SumLast ==
  ASSUME NEW n \in Nat, NEW f, OnNat(f, 0..n)
  PROVE  /\ SumFunctionOnSet(f, 0..n) = SumFunctionOnSet(f, 0..(n - 1)) + f[n]
         /\ SumFunctionOnSet(f, 0..(n - 1)) \in Nat
<1>1. n \in 0..n /\ (0..n) \ {n} = 0..(n - 1) /\ 0 \in Int /\ n - 1 \in Int
  OBVIOUS
<1>2. IsFiniteSet(0..n) /\ IsFiniteSet(0..(n - 1))
  BY <1>1, FS_Interval
<1>3. OnNat(f, 0..(n - 1))
  BY DEF OnNat
<1>4. SumFunctionOnSet(f, 0..(n - 1)) \in Nat
  BY <1>2, <1>3, SumRest
<1>5. SumFunctionOnSet(f, 0..n) = f[n] + SumFunctionOnSet(f, (0..n) \ {n})
  BY <1>1, <1>2, SumRest
<1>6. SumFunctionOnSet(f, 0..n) = f[n] + SumFunctionOnSet(f, 0..(n - 1))
  BY <1>1, <1>5, Zenon
<1>7. f[n] \in Nat
  BY <1>1 DEF OnNat
<1> QED BY <1>4, <1>6, <1>7

\* Only the terms matter.
LEMMA SumSame ==
  ASSUME NEW W, IsFiniteSet(W), NEW f, NEW g, OnNat(f, W), \A x \in W : f[x] = g[x]
  PROVE  SumFunctionOnSet(f, W) = SumFunctionOnSet(g, W)
<1>1. PICK h : AddsUp(h, f, W)
  BY Additive DEF OnNat
<1>2. AddsUp(h, g, W)
  BY <1>1 DEF AddsUp
<1> QED BY <1>1, <1>2, SumIs

AlikeExcept(f, g, W, a) == \A x \in W \ {a} : f[x] = g[x]

\* Sums that differ in one term differ as that term does.
LEMMA SumExcept ==
  ASSUME NEW W, IsFiniteSet(W), NEW a \in W, NEW f, NEW g, OnNat(f, W), OnNat(g, W),
         AlikeExcept(f, g, W, a)
  PROVE  SumFunctionOnSet(f, W) + g[a] = SumFunctionOnSet(g, W) + f[a]
<1> DEFINE V == W \ {a}
<1>1. IsFiniteSet(V) /\ OnNat(f, V) /\ f[a] \in Nat /\ g[a] \in Nat
  BY FS_RemoveElement DEF OnNat
<1>2. \A x \in V : f[x] = g[x]
  BY DEF AlikeExcept
<1>3. /\ SumFunctionOnSet(f, W) = f[a] + SumFunctionOnSet(f, V)
      /\ SumFunctionOnSet(g, W) = g[a] + SumFunctionOnSet(g, V)
  BY SumRest
<1> HIDE DEF V
<1>4. SumFunctionOnSet(f, V) = SumFunctionOnSet(g, V) /\ SumFunctionOnSet(f, V) \in Nat
  BY <1>1, <1>2, SumSame, SumRest
<1> QED BY <1>1, <1>3, <1>4

\* Shifting a number by the divisor does not change the remainder.
LEMMA ModShift ==
  ASSUME NEW a \in Nat, NEW n \in Nat, n > 0
  PROVE  (a + n) % n = a % n
<1> DEFINE q == a \div n  r == a % n  q2 == (a + n) \div n  r2 == (a + n) % n
<1>1. a = n * q + r /\ q \in Int /\ r \in 0..(n - 1)
  OBVIOUS
<1>2. a + n = n * q2 + r2 /\ q2 \in Int /\ r2 \in 0..(n - 1)
  OBVIOUS
<1> HIDE DEF q, r, q2, r2
<1> DEFINE k == q2 - q - 1
<1>3. k \in Int /\ n * k = r - r2
  BY <1>1, <1>2
<1> HIDE DEF k
<1>4. k >= 1 => n * k >= n
  BY <1>3
<1>5. k <= -1 => n * k <= -n
  BY <1>3
<1>6. r = r2
  BY <1>1, <1>2, <1>3, <1>4, <1>5
<1> QED BY <1>6 DEF r, r2

=============================================================================
