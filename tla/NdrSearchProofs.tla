--------------------------- MODULE NdrSearchProofs ---------------------------
(* Proofs about NdrSearch, for every bound on rates and iterations.        *)
EXTENDS NdrSearch, InductionLemmas, TLAPS

\* The midpoint of a proper interval is in it, below its upper end, and above its
\* lower one unless the two are neighbours.
LEMMA MidInside ==
  ASSUME lo \in Nat, hi \in Nat, lo < hi
  PROVE  mid \in Nat /\ lo <= mid /\ mid < hi /\ (mid = lo => hi = lo + 1)
  BY DEF mid

\* No trial that failed was below hi; and after the first trial the loop goes on only
\* with an interval wider than Close, hence with lo below mid.
TriedInv ==
  /\ \A r \in failed : hi <= r
  /\ \/ pc = "search" => hi - lo > Close
     \/ lo = ndr_min_pps /\ hi = ndr_max_pps /\ passed = {}

\* The inductive invariant: types, the bracket of passed and failed rates, and what
\* was tried.
SearchInv == TypeOK /\ Bracket /\ Encloses /\ TriedInv

LEMMA InitInv == Init => SearchInv
  BY SearchAssumption DEF Init, SearchInv, TypeOK, Bracket, Encloses, TriedInv, Rates, Noisy

LEMMA TrialInv ==
  ASSUME SearchInv, NEW pass \in BOOLEAN, Trial(pass)
  PROVE  SearchInv'
<1> USE SearchAssumption
<1>1. /\ lo \in Nat /\ hi \in Nat /\ iter \in Nat /\ iter < ndr_iterations
      /\ lo < hi /\ hi <= MaxRate
  BY DEF SearchInv, TypeOK, Trial, Searching, Rates
<1>2. mid \in Nat /\ lo <= mid /\ mid < hi /\ (mid = lo => hi = lo + 1)
  BY <1>1, MidInside
<1>3. mid \in Rates
  BY <1>1, <1>2 DEF Rates
<1>4. lo' = (IF pass THEN mid ELSE lo) /\ hi' = (IF pass THEN hi ELSE mid)
  BY DEF Trial, Narrow
<1>5. ndr_min_pps' = ndr_min_pps /\ ndr_max_pps' = ndr_max_pps /\ capacity' = capacity
  BY DEF Trial, arguments
<1>6. TypeOK'
  BY <1>1, <1>3, <1>4, <1>5 DEF SearchInv, TypeOK, Trial
<1>7. Bracket'
  <2>1. lo' \in passed' \cup {ndr_min_pps'} /\ hi' \in failed' \cup {ndr_max_pps'}
    BY <1>4, <1>5 DEF SearchInv, Bracket, Trial
  <2>2. ndr_min_pps' <= ndr_max_pps' =>
          ndr_min_pps' <= lo' /\ lo' <= hi' /\ hi' <= ndr_max_pps'
    BY <1>1, <1>2, <1>4, <1>5 DEF SearchInv, Bracket, TypeOK, Rates
  <2>3. ASSUME lo' \in failed'
        PROVE  passed' = {} /\ lo' = ndr_min_pps' /\ ndr_max_pps' = ndr_min_pps' + 1
    <3>1. lo \notin failed /\ mid \notin failed
      BY <1>1, <1>2 DEF SearchInv, TriedInv, TypeOK, Rates
    <3>2. ~pass /\ lo' = lo /\ mid = lo /\ passed' = passed
      BY <1>4, <2>3, <3>1 DEF Trial
    <3>3. pc = "search" /\ ~(hi - lo > Close)
      BY <1>1, <1>2, <3>2 DEF Trial, Searching
    <3>4. lo = ndr_min_pps /\ hi = ndr_max_pps /\ passed = {}
      BY <3>3 DEF SearchInv, TriedInv
    <3> QED BY <1>2, <1>5, <3>2, <3>4
  <2> QED BY <2>1, <2>2, <2>3 DEF Bracket
<1>8. Encloses'
  <2> SUFFICES ASSUME ndr_min_pps <= capacity, capacity < ndr_max_pps
               PROVE  lo' <= capacity /\ capacity < hi'
    BY <1>5 DEF Encloses
  <2>1. capacity # Noisy
    BY DEF SearchInv, TypeOK, Rates, Noisy
  <2>2. pass <=> mid <= capacity
    BY <2>1 DEF Trial, Outcomes
  <2>3. lo <= capacity /\ capacity < hi /\ capacity \in Int
    BY DEF SearchInv, Encloses, TypeOK, Rates, Noisy
  <2> QED BY <1>1, <1>2, <1>4, <2>2, <2>3
<1>9. TriedInv'
  <2>1. \A r \in failed' : hi' <= r
    BY <1>1, <1>2, <1>4 DEF SearchInv, TriedInv, TypeOK, Rates, Trial
  <2>2. pc' = "search" => hi' - lo' > Close
    BY <1>1, <1>2, <1>4 DEF Trial
  <2> QED BY <2>1, <2>2 DEF TriedInv
<1> QED BY <1>6, <1>7, <1>8, <1>9 DEF SearchInv

\* Steps that leave the interval and its history alone.
LEMMA OtherInv ==
  ASSUME SearchInv, EndSearch \/ FinalRun \/ UNCHANGED vars
  PROVE  SearchInv'
<1>1. UNCHANGED <<arguments, lo, hi, iter, passed, failed>>
  BY DEF EndSearch, FinalRun, vars, arguments
<1>2. TypeOK'
  BY <1>1 DEF SearchInv, TypeOK, EndSearch, FinalRun, vars, arguments
<1>3. pc' = "search" => pc = "search"
  BY DEF EndSearch, FinalRun, vars
<1> QED BY <1>1, <1>2, <1>3 DEF SearchInv, Bracket, Encloses, TriedInv, arguments

LEMMA StepInv == SearchInv /\ [Next]_vars => SearchInv'
  BY TrialInv, OtherInv DEF Next

LEMMA SearchInvariance == Spec => []SearchInv
  BY InitInv, StepInv, PTL DEF Spec

\* Rates stay within the bounds of the command line's type and no more trials are
\* made than asked for.
THEOREM SearchTypes == Spec => []TypeOK
  BY SearchInvariance, PTL DEF SearchInv

\* However noisy the trials and whatever the bounds on the command line, find_ndr
\* reports the lower bound or a rate that passed, and a rate that was measured to drop
\* only if the bounds are neighbours and the one trial, at the lower of them, failed.
THEOREM SearchBracket == Spec => []Bracket
  BY SearchInvariance, PTL DEF SearchInv

\* find_ndr keeps the capacity of a broker that has one between lo and hi.
THEOREM SearchEncloses == Spec => []Encloses
  BY SearchInvariance, PTL DEF SearchInv

\* Why an unlimited final run means that nothing passed: trials are made at rates
\* above 0, and a trial that passes lifts lo above 0 for good.
PacingInv ==
  /\ lo = 0 => passed = {}
  /\ 0 \notin failed
  /\ pc = "done" /\ paced = "no" => lo = 0

LEMMA StepPacing == SearchInv /\ PacingInv /\ [Next]_vars => PacingInv'
<1> SUFFICES ASSUME SearchInv, PacingInv, [Next]_vars PROVE PacingInv'
  OBVIOUS
<1> USE SearchAssumption
<1>1. ASSUME NEW pass \in BOOLEAN, Trial(pass) PROVE PacingInv'
  <2>1. lo \in Nat /\ hi \in Nat /\ lo < hi /\ mid # 0
    BY <1>1 DEF SearchInv, TypeOK, Trial, Searching, Rates
  <2>2. mid \in Nat /\ lo <= mid
    BY <2>1, MidInside
  <2>3. lo' = (IF pass THEN mid ELSE lo) /\ pc' # "done"
    BY <1>1 DEF Trial, Narrow
  <2>4. lo' = 0 => ~pass /\ lo = 0
    BY <2>1, <2>2, <2>3
  <2> QED BY <1>1, <2>1, <2>3, <2>4 DEF PacingInv, Trial
<1>2. CASE EndSearch
  BY <1>2 DEF EndSearch, PacingInv
<1>3. CASE FinalRun
  BY <1>3 DEF FinalRun, PacingInv, SearchInv, TypeOK, Rates
<1>4. CASE UNCHANGED vars
  BY <1>4 DEF vars, PacingInv
<1> QED BY <1>1, <1>2, <1>3, <1>4 DEF Next

\* The final run of main is unlimited only when the search started from 0 and not
\* one trial passed.
THEOREM SearchUnlimited == Spec => []UnlimitedFinal
<1>1. Init => PacingInv
  BY DEF Init, PacingInv
<1>2. SearchInv /\ PacingInv => UnlimitedFinal
  BY DEF SearchInv, Bracket, PacingInv, UnlimitedFinal
<1> QED BY SearchInvariance, StepPacing, <1>1, <1>2, PTL DEF Spec

-----------------------------------------------------------------------------
(* How close the search gets. *)

Half(w) == (w + 1) \div 2

LEMMA HalfType == \A w \in Nat \ {0} : Half(w) \in Nat \ {0}
BY DEF Half

\* The widths that w takes in the first m trials.
Widths(w, m) ==
  {f \in [0..m -> Nat \ {0}] : f[0] = w /\ \A n \in 1..m : f[n] = Half(f[n - 1])}

LEMMA WidthsExist ==
  ASSUME NEW w \in Nat \ {0}
  PROVE  \A m \in Nat : Widths(w, m) # {}
<1> DEFINE S == {m \in Nat : Widths(w, m) # {}}
<1>1. 0 \in S
  <2>1. [n \in 0..0 |-> w] \in Widths(w, 0)
    BY DEF Widths
  <2> QED BY <2>1
<1>2. ASSUME NEW m \in Nat, m \in S PROVE m + 1 \in S
  <2>1. PICK f \in Widths(w, m) : TRUE
    BY <1>2
  <2> DEFINE g == [n \in 0..(m + 1) |-> IF n = m + 1 THEN Half(f[m]) ELSE f[n]]
  <2>2. /\ f \in [0..m -> Nat \ {0}] /\ f[0] = w
        /\ \A n \in 1..m : f[n] = Half(f[n - 1])
    BY DEF Widths
  <2>3. g \in [0..(m + 1) -> Nat \ {0}]
    BY <2>2, HalfType
  <2>4. g[0] = w /\ \A n \in 1..(m + 1) : g[n] = Half(g[n - 1])
    BY <2>2
  <2>5. g \in Widths(w, m + 1)
    BY <2>3, <2>4 DEF Widths
  <2> QED BY <2>5
<1> HIDE DEF S
<1>3. Nat \subseteq S
  BY <1>1, <1>2, Induct
<1> QED BY <1>3 DEF S

\* Halved is the function its definition describes.
LEMMA HalvedType ==
  ASSUME NEW w \in Nat \ {0}
  PROVE  Halved(w) \in Widths(w, ndr_iterations)
<1> DEFINE N == ndr_iterations
           E(f) == [n \in 0..N |-> IF n = 0 THEN w ELSE (f[n - 1] + 1) \div 2]
<1>0. N \in Nat
  BY SearchAssumption
<1>1. Halved(w) = CHOOSE f : f = E(f)
  BY DEF Halved
<1>2. PICK g : g \in Widths(w, N)
  BY <1>0, WidthsExist
<1>3. g = E(g)
  <2>1. /\ g \in [0..N -> Nat \ {0}] /\ g[0] = w
        /\ \A n \in 1..N : g[n] = Half(g[n - 1])
    BY <1>2 DEF Widths
  <2>2. \A n \in 0..N : g[n] = E(g)[n]
    BY <1>0, <2>1 DEF Half
  <2> QED BY <2>1, <2>2
<1>4. Halved(w) = E(Halved(w))
  BY <1>1, <1>3
<1> DEFINE h == Halved(w)
<1>5. /\ h = [n \in 0..N |-> h[n]] /\ h[0] = w
      /\ \A n \in 1..N : h[n] = Half(h[n - 1])
  <2>1. h = E(h)
    BY <1>4
  <2> HIDE DEF h
  <2>2. \A n \in 0..N : h[n] = IF n = 0 THEN w ELSE Half(h[n - 1])
    BY <2>1 DEF Half
  <2>3. 0 \in 0..N /\ \A n \in 1..N : n \in 0..N /\ n # 0
    BY <1>0
  <2>4. h = [n \in 0..N |-> h[n]]
    BY <2>1
  <2> QED BY <2>2, <2>3, <2>4
<1> HIDE DEF h
<1>6. \A n \in 0..N : h[n] \in Nat \ {0}
  <2> DEFINE S == {n \in Nat : n \in 0..N => h[n] \in Nat \ {0}}
  <2>1. 0 \in S
    BY <1>5
  <2>2. ASSUME NEW n \in Nat, n \in S PROVE n + 1 \in S
    <3> SUFFICES ASSUME n + 1 \in 0..N PROVE h[n + 1] \in Nat \ {0}
      OBVIOUS
    <3>1. n \in 0..N /\ n + 1 \in 1..N /\ (n + 1) - 1 = n
      BY <1>0
    <3>2. h[n] \in Nat \ {0} /\ h[n + 1] = Half(h[n])
      BY <1>5, <2>2, <3>1
    <3> QED BY <3>2, HalfType
  <2> HIDE DEF S
  <2>3. Nat \subseteq S
    BY <2>1, <2>2, Induct
  <2> QED BY <1>0, <2>3 DEF S
<1> QED BY <1>5, <1>6 DEF h, Widths

\* The broker has a capacity within the bounds of the command line.
Bounded == ndr_min_pps <= capacity /\ capacity < ndr_max_pps

\* Trial by trial the interval is no wider than Halved says.
WidthInv == Bounded => hi - lo <= Halved(ndr_max_pps - ndr_min_pps)[iter] /\ Accurate

LEMMA WidthFacts ==
  ASSUME SearchInv, Bounded
  PROVE  LET h == Halved(ndr_max_pps - ndr_min_pps)
         IN  /\ h[0] = ndr_max_pps - ndr_min_pps
             /\ \A n \in 0..ndr_iterations : h[n] \in Nat \ {0}
             /\ \A n \in 1..ndr_iterations : h[n] = Half(h[n - 1])
<1>1. ndr_max_pps - ndr_min_pps \in Nat \ {0}
  BY SearchAssumption DEF SearchInv, TypeOK, Bounded, Rates, Noisy
<1> QED BY <1>1, HalvedType DEF Widths

LEMMA InitWidth == Init => WidthInv
<1> SUFFICES ASSUME Init, Bounded PROVE hi - lo <= Halved(ndr_max_pps - ndr_min_pps)[iter] /\ Accurate
  BY DEF WidthInv
<1>1. SearchInv
  BY InitInv
<1>2. Halved(ndr_max_pps - ndr_min_pps)[0] = ndr_max_pps - ndr_min_pps
  BY <1>1, WidthFacts
<1>3. hi - lo = ndr_max_pps - ndr_min_pps /\ hi - lo \in Int /\ iter = 0 /\ pc = "search"
  BY SearchAssumption DEF Init, Rates
<1> QED BY <1>2, <1>3 DEF Accurate

\* A trial leaves the lower or the upper half.
LEMMA HalfOfIt ==
  ASSUME lo \in Nat, hi \in Nat, lo < hi
  PROVE  /\ mid - lo <= Half(hi - lo) /\ hi - mid <= Half(hi - lo)
         /\ mid = 0 => hi - lo = 1
BY DEF mid, Half

LEMMA HalfMonotone == \A v, w \in Nat : v <= w => Half(v) <= Half(w)
BY DEF Half

LEMMA StepWidth == SearchInv /\ WidthInv /\ [Next]_vars => WidthInv'
<1> SUFFICES ASSUME SearchInv, WidthInv, [Next]_vars, Bounded'
             PROVE  (hi - lo <= Halved(ndr_max_pps - ndr_min_pps)[iter] /\ Accurate)'
  BY DEF WidthInv
<1> USE SearchAssumption
<1>1. UNCHANGED arguments
  BY DEF Next, Trial, EndSearch, FinalRun, vars
<1>2. Bounded /\ ndr_max_pps' = ndr_max_pps /\ ndr_min_pps' = ndr_min_pps
  BY <1>1 DEF Bounded, arguments
<1> DEFINE h == Halved(ndr_max_pps - ndr_min_pps)
<1>3. h' = h
  BY <1>2
<1>4. /\ lo \in Nat /\ hi \in Nat /\ iter \in 0..ndr_iterations
      /\ pc \in {"search", "final", "done"} /\ lo <= capacity /\ capacity < hi
      /\ capacity \in Int
  BY <1>2 DEF SearchInv, TypeOK, Encloses, Bounded, Rates, Noisy
<1>5. /\ \A n \in 0..ndr_iterations : h[n] \in Nat \ {0}
      /\ \A n \in 1..ndr_iterations : h[n] = Half(h[n - 1])
  BY <1>2, WidthFacts
<1>6. hi - lo <= h[iter] /\ Accurate
  BY <1>2 DEF WidthInv
<1> HIDE DEF h
<1>7. Accurate <=> (pc # "search" => hi - lo <= Close \/ hi - lo <= h[ndr_iterations])
  BY <1>2 DEF Accurate, Bounded, h
<1>8. Accurate' <=> (pc' # "search" => hi' - lo' <= Close \/ hi' - lo' <= h[ndr_iterations])
  BY <1>2, <1>3 DEF Accurate, Bounded, h
<1>9. SUFFICES hi' - lo' <= h[iter'] /\ Accurate'
  BY <1>2, <1>3 DEF h
<1>10. ASSUME NEW pass \in BOOLEAN, Trial(pass) PROVE hi' - lo' <= h[iter'] /\ Accurate'
  <2>1. /\ lo < hi /\ iter < ndr_iterations /\ iter' = iter + 1
        /\ lo' = (IF pass THEN mid ELSE lo) /\ hi' = (IF pass THEN hi ELSE mid)
        /\ pc' = IF hi' - lo' <= Close THEN "final" ELSE "search"
    BY <1>10 DEF Trial, Searching, Narrow
  <2>2. mid \in Nat /\ lo <= mid /\ mid < hi
    BY <1>4, <2>1, MidInside
  <2>3. mid - lo <= Half(hi - lo) /\ hi - mid <= Half(hi - lo)
    BY <1>4, <2>1, HalfOfIt
  <2>4. hi' - lo' <= Half(hi - lo) /\ hi' - lo' \in Int
    BY <1>4, <2>1, <2>2, <2>3
  <2>5. iter' \in 1..ndr_iterations /\ iter' - 1 = iter
    BY <1>4, <2>1
  <2>6. h[iter'] = Half(h[iter]) /\ h[iter] \in Nat
    BY <1>4, <1>5, <2>5
  <2>7. hi - lo \in Nat
    BY <1>4, <2>1
  <2>8. Half(hi - lo) <= Half(h[iter]) /\ Half(hi - lo) \in Int /\ Half(h[iter]) \in Int
    BY <1>6, <2>6, <2>7, HalfMonotone DEF Half
  <2>9. hi' - lo' <= h[iter']
    BY <2>4, <2>6, <2>8
  <2> QED BY <1>8, <2>1, <2>9
<1>11. CASE EndSearch
  <2>1. UNCHANGED <<lo, hi, iter>> /\ pc = "search" /\ ~Searching
    BY <1>11 DEF EndSearch
  <2>2. hi - lo <= h[ndr_iterations]
    <3>1. iter = ndr_iterations \/ mid = 0
      BY <1>4, <2>1 DEF Searching
    <3>2. mid = 0 => hi - lo = 1
      BY <1>4, HalfOfIt
    <3>3. h[ndr_iterations] \in Nat \ {0}
      BY <1>5
    <3> QED BY <1>6, <3>1, <3>2, <3>3
  <2> QED BY <1>6, <1>8, <2>1, <2>2
<1>12. CASE FinalRun \/ UNCHANGED vars
  <2>1. UNCHANGED <<lo, hi, iter>> /\ (pc' = pc \/ pc # "search")
    BY <1>12 DEF FinalRun, vars
  <2> QED BY <1>6, <1>7, <1>8, <2>1
<1> QED BY <1>10, <1>11, <1>12 DEF Next

\* find_ndr ends within Close of the capacity or as close as its iterations allow,
\* for every width of the interval and every number of iterations.
THEOREM SearchAccurate == Spec => []Accurate
<1>1. SearchInv /\ WidthInv => Accurate
  BY DEF WidthInv, Accurate, Bounded
<1> QED BY <1>1, InitWidth, StepWidth, SearchInvariance, PTL DEF Spec

=============================================================================
