------------------------------ MODULE LoaderInv ------------------------------
(***************************************************************************)
(* The inductive invariant of the loaders: why a run that is alone takes   *)
(* over whatever an earlier one left, why none that was torn down leaves a *)
(* program behind, and why a daemon opens the maps of one run.             *)
(***************************************************************************)
EXTENDS Loader

PinPcs == {"pin", "unlink", "repin"}
TcPcs == {"tc_destroy", "tc_create", "tc_attach"}
DownPcs == {"down_tc", "down_xdp"}
NotPinned == {"new", "pin_prog", "unpin_prog"}

\* The rounds of its loop that a run has completed.
Past(l) == 1..(at[l] - 1)

\* What main may assume of its own progress.
ControlInv ==
  \A l \in Loaders :
    /\ l \in Alive => args[l] # << >>
    /\ pc[l] \in NotPinned \cup {"mask", "wait"} => at[l] = 1
    /\ pc[l] \in {"pin_prog", "unpin_prog", "down_tc"} \cup TcPcs => WithTc

\* A run that is alone is the only one that is alive.
AloneInv ==
  \A l \in alone : pc[l] # "new" /\ (l \in Alive => Alive = {l})

\* A call of a run that is alone finds the state that the call before it left:
\* what EEXIST reported is still there, and what was removed is still gone.
Calls(l) ==
  /\ pc[l] = "unpin_prog" => progpin # None
  /\ pc[l] = "unlink" => pin[maps[at[l]]] # None
  /\ pc[l] = "repin" => pin[maps[at[l]]] = None
  /\ pc[l] = "tc_create" /\ l \notin faulty => Iface(l) \notin hook
  /\ pc[l] = "tc_attach" => Iface(l) \in hook /\ filter[Iface(l)] = {}

\* The maps that it has pinned so far are its own.
Pins(l) ==
  /\ pc[l] \in PinPcs => \A j \in Past(l) : pin[maps[j]] = l
  /\ pc[l] \in TcPcs \cup {"mask", "wait"} => \A m \in MapNames : pin[m] = l

\* So are the XDP programs on the interfaces it has passed.
Xdps(l) ==
  /\ pc[l] = "xdp" => \A j \in Past(l) : xdp[args[l][j]] = l
  /\ pc[l] \in PinPcs \cup TcPcs \cup {"mask", "wait"} => \A i \in Range(args[l]) : xdp[i] = l

\* The filter of a run is the only one of an interface.
Sole(l, i) == i \in hook /\ filter[i] = {l}

\* So are the filters, but on an interface named twice and now attached again.
Filters(l) ==
  /\ pc[l] \in TcPcs =>
       \A j \in Past(l) :
         (pc[l] # "tc_destroy" /\ args[l][j] = Iface(l)) \/ Sole(l, args[l][j])
  /\ pc[l] \in {"mask", "wait"} /\ WithTc => \A i \in Range(args[l]) : Sole(l, i)

\* What a run that is alone has done holds, whatever it found.
LoneInv ==
  \A l \in alone : Calls(l) /\ Pins(l) /\ Xdps(l) /\ Filters(l)

\* A filter needs its qdisc, and the clone broker has none.
HookInv ==
  \A i \in Ifaces : filter[i] # {} => i \in hook /\ WithTc

\* No program of the run is attached to the interface.
Free(l, i) == xdp[i] # l /\ l \notin filter[i]

\* A run has programs on its interfaces only, and its tear-down leaves none on
\* the interfaces that it has passed.
OrphanInv ==
  \A l \in Loaders :
    /\ pc[l] = "new" => \A i \in Ifaces : Free(l, i)
    /\ l \in Alive => \A i \in Ifaces \ Range(args[l]) : Free(l, i)
    /\ l \notin faulty /\ pc[l] \in DownPcs => \A j \in Past(l) : Free(l, args[l][j])
    /\ l \notin faulty /\ pc[l] = "down_xdp" => l \notin filter[Iface(l)]

\* The runs that may have pinned the program.
PastPin == {l \in Loaders : pc[l] \notin NotPinned}

\* A run that still tries to pin the program has removed the pins of others that
\* have, and not the one that is there now.
RetryInv ==
  /\ progpin \in PastPin \cup {None}
  /\ \A l \in Loaders :
       /\ pc[l] \in NotPinned => tries[l] <= Cardinality(PastPin \ {progpin})
       /\ pc[l] = "unpin_prog" => tries[l] + 1 <= Cardinality(PastPin)

\* While a daemon opens its maps, the run that was up when it started remains the
\* last one that was started, and its pins remain.
DaemonInv ==
  \A d \in Daemons :
    /\ dpc[d] # "open" => dat[d] = 1
    /\ dpc[d] = "open" /\ base[d] # None =>
         /\ Alive \subseteq {base[d]}
         /\ pc[base[d]] \in {"wait"} \cup DownPcs \cup Ended
         /\ \A m \in MapNames : pin[m] = base[d]
         /\ \A k \in 1..(dat[d] - 1) : fd[d][opens[k]] = base[d]
    /\ dpc[d] \in {"bind", "serve"} /\ base[d] # None =>
         \A m \in Range(opens) : fd[d][m] = base[d]

\* The inductive invariant of the loaders and the starting daemons: what a run has
\* done so far, what the next call finds, whose programs are where, and which maps
\* an opening daemon gets.
IInv ==
  /\ TypeOK
  /\ ControlInv
  /\ AloneInv
  /\ LoneInv
  /\ HookInv
  /\ RestartSucceeds
  /\ OrphanInv
  /\ NoOrphans
  /\ RetryInv
  /\ RetryEnds
  /\ DaemonInv

=============================================================================
