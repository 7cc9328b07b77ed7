------------------------------ MODULE NdrSearch ------------------------------
(***************************************************************************)
(* find_ndr of pubsub-benchmark: the bisection for the no-drop rate, and   *)
(* the final measurement that main makes at the rate it returns.  A trial  *)
(* is a run of run_benchmark at the rate mid; here it only has an outcome. *)
(* Either the broker has a capacity and a trial passes exactly when it is  *)
(* not exceeded, or trials are noisy and may come out either way.          *)
(***************************************************************************)
EXTENDS Integers

CONSTANTS
  MaxRate,         \* bound: rates are at most this
  ndr_iterations,  \* trials at most
  Close            \* the search ends when hi and lo are this close (100 pps)

ASSUME SearchAssumption ==
  MaxRate \in Nat /\ ndr_iterations \in Nat /\ Close \in Nat \ {0}

Rates == 0..MaxRate
Noisy == -1  \* no capacity: trials come out either way

VARIABLES
  ndr_min_pps, ndr_max_pps,  \* command line
  capacity,  \* the rate up to which trials pass, or Noisy
  lo, hi,    \* the interval searched
  iter,      \* trials made
  pc,        \* "search" in the loop, "final" after it, "done" when main is through
  paced,     \* the final run's publishers pace themselves: "no", "yes"
  passed,    \* history: rates of trials that passed
  failed     \* history: rates of trials that failed

arguments == <<ndr_min_pps, ndr_max_pps, capacity>>
vars == <<arguments, lo, hi, iter, pc, paced, passed, failed>>

Init ==
  /\ ndr_min_pps \in Rates
  /\ ndr_max_pps \in Rates
  /\ capacity \in Rates \cup {Noisy}
  /\ lo = ndr_min_pps
  /\ hi = ndr_max_pps
  /\ iter = 0
  /\ pc = "search"
  /\ paced = "no"
  /\ passed = {}
  /\ failed = {}

-----------------------------------------------------------------------------
\* The midpoint, in unsigned arithmetic that cannot overflow.
mid_Sum == lo + hi
mid_FromZero == (hi - lo) \div 2
mid == lo + (hi - lo) \div 2

\* The loop has iterations left and none of its breaks is taken.
Searching_Zero == pc = "search" /\ iter < ndr_iterations /\ lo < hi
Searching == pc = "search" /\ iter < ndr_iterations /\ lo < hi /\ mid # 0

Outcomes(rate) == IF capacity = Noisy THEN BOOLEAN ELSE {rate <= capacity}

\* The interval after a trial at rate that passed or failed.
Narrow_Swapped(rate, pass) == <<IF pass THEN lo ELSE rate, IF pass THEN rate ELSE hi>>
Narrow_SkipOne(rate, pass) == <<IF pass THEN rate + 1 ELSE lo, IF pass THEN hi ELSE rate>>
Narrow(rate, pass) == <<IF pass THEN rate ELSE lo, IF pass THEN hi ELSE rate>>

Trial(pass) ==
  /\ Searching
  /\ pass \in Outcomes(mid)
  /\ lo' = Narrow(mid, pass)[1]
  /\ hi' = Narrow(mid, pass)[2]
  /\ iter' = iter + 1
  /\ pc' = IF hi' - lo' <= Close THEN "final" ELSE "search"
  /\ passed' = IF pass THEN passed \cup {mid} ELSE passed
  /\ failed' = IF pass THEN failed ELSE failed \cup {mid}
  /\ UNCHANGED <<arguments, paced>>

\* A break at the head of the loop, or the last iteration.
EndSearch ==
  /\ pc = "search"
  /\ ~Searching
  /\ pc' = "final"
  /\ UNCHANGED <<arguments, lo, hi, iter, paced, passed, failed>>

\* main measures at lo; publishers pace themselves only for a rate above 0.
FinalRun ==
  /\ pc = "final"
  /\ pc' = "done"
  /\ paced' = IF lo > 0 THEN "yes" ELSE "no"
  /\ UNCHANGED <<arguments, lo, hi, iter, passed, failed>>

Next == (\E pass \in BOOLEAN : Trial(pass)) \/ EndSearch \/ FinalRun

Spec == Init /\ [][Next]_vars

-----------------------------------------------------------------------------
TypeOK ==
  /\ ndr_min_pps \in Rates
  /\ ndr_max_pps \in Rates
  /\ capacity \in Rates \cup {Noisy}
  /\ lo \in Rates
  /\ hi \in Rates
  /\ iter \in 0..ndr_iterations
  /\ pc \in {"search", "final", "done"}
  /\ paced \in {"no", "yes"}
  /\ passed \subseteq Rates
  /\ failed \subseteq Rates

\* However noisy the trials are, lo is the lower bound given or a rate that
\* passed, hi the upper bound given or a rate that failed, and the two do not
\* cross unless the command line crossed them.  The reported rate was measured to
\* drop in one case only: the bounds given are neighbours, so that the one trial
\* is made at the lower of them, fails, and lo is returned all the same.
Bracket ==
  /\ lo \in passed \cup {ndr_min_pps}
  /\ hi \in failed \cup {ndr_max_pps}
  /\ ndr_min_pps <= ndr_max_pps => ndr_min_pps <= lo /\ lo <= hi /\ hi <= ndr_max_pps
  /\ lo \in failed =>
       passed = {} /\ lo = ndr_min_pps /\ ndr_max_pps = ndr_min_pps + 1

\* A broker with a capacity inside the interval keeps it there: the search never
\* steps over the rate it looks for, so what it reports does not drop.
Encloses ==
  ndr_min_pps <= capacity /\ capacity < ndr_max_pps => lo <= capacity /\ capacity < hi

\* An interval of width w after n trials, each halving it and rounding up.
Halved(w) ==
  LET width[n \in 0..ndr_iterations] == IF n = 0 THEN w ELSE (width[n - 1] + 1) \div 2
  IN width

\* Then the reported rate is no further below the capacity than Close, or than
\* the number of trials allows.
Accurate ==
  pc # "search" /\ ndr_min_pps <= capacity /\ capacity < ndr_max_pps =>
    hi - lo <= Close \/ hi - lo <= Halved(ndr_max_pps - ndr_min_pps)[ndr_iterations]

\* The final run is unlimited, rate 0, only when the search started from 0 and not
\* one trial passed; then it is made at full speed although every trial, at
\* whatever rate, dropped.  (A trial at rate 0 would be unlimited too: the break
\* at mid = 0 keeps find_ndr from it.)
UnlimitedFinal ==
  pc = "done" /\ paced = "no" => ndr_min_pps = 0 /\ passed = {} /\ 0 \notin failed

=============================================================================
