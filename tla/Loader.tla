------------------------------- MODULE Loader -------------------------------
(***************************************************************************)
(* The loaders (bpf_broker_user.c of both brokers) and the start of the    *)
(* daemons, over what they share: the pins in /sys/fs/bpf and the programs *)
(* attached to interfaces.  A member of Loaders is one run of the loader;  *)
(* it also names the maps and the programs that this run created, so that  *)
(* the maps of different runs can be told apart.                           *)
(***************************************************************************)
EXTENDS Naturals, Sequences, FiniteSets, Functions

CONSTANTS
  Loaders,   \* runs of bpf_broker
  Daemons,   \* processes running bpf_broker_proto
  Ifaces,    \* network interfaces
  Setups,    \* which broker it is, its command lines and its daemons
  None       \* no run at all

ASSUME NoneAssumption == None \notin Loaders

ASSUME LoadersAssumption == IsFiniteSet(Loaders)

\* tc: the hash broker, whose loader also attaches tc_ingress_broker.
ASSUME SetupsAssumption ==
  \A s \in Setups :
    /\ s.tc \in BOOLEAN
    /\ s.args \subseteq Seq(Ifaces) \ {<< >>}
    /\ s.daemons \subseteq Daemons

VARIABLES
  setup,    \* the one of Setups that is used here
  pc,       \* loader -> the system call it is about to make
  at,       \* loader -> i, the loop variable of main
  args,     \* loader -> its interfaces
  pin,      \* pinned map -> the run whose map it is
  progpin,  \* the run whose tc_ingress_broker is pinned
  xdp,      \* interface -> the run whose xdp_broker is attached
  hook,     \* the interfaces that have a clsact qdisc
  filter,   \* interface -> runs whose tc_ingress_broker is attached there
  dpc,      \* daemon -> what it is doing
  dat,      \* daemon -> the next map it opens
  fd,       \* daemon -> opened map -> the run whose map it is
  \* history
  alone,    \* loaders that never ran at the same time as another
  faulty,   \* loaders one of whose system calls failed by itself
  tries,    \* loader -> how often it has removed the pin of the program
  base      \* daemon -> the lone loader that was up when it started

loaderVars == <<pc, at, args>>
kernelVars == <<pin, progpin, xdp, hook, filter>>
daemonVars == <<dpc, dat, fd, base>>
vars == <<setup, loaderVars, kernelVars, daemonVars, alone, faulty, tries>>

-----------------------------------------------------------------------------
WithTc == setup.tc

HashMaps == <<"topic_subscribe", "topic_sub_cnt", "topic_first_sub", "pub_counter_2">>
CloneMaps == <<"topic_sub_array", "topic_sub_cnt", "pub_counter_2">>
maps == IF WithTc THEN HashMaps ELSE CloneMaps

\* The maps that the daemon opens, in this order.
HashOpens == <<"topic_subscribe", "topic_sub_cnt", "topic_first_sub">>
CloneOpens == <<"topic_sub_array", "topic_sub_cnt">>
opens == IF WithTc THEN HashOpens ELSE CloneOpens

MapNames == Range(maps)
NoFds == [m \in Range(opens) |-> None]

Starting == {"pin_prog", "unpin_prog", "xdp", "pin", "unlink", "repin",
             "tc_destroy", "tc_create", "tc_attach", "mask"}
Ended == {"failed", "stopped", "killed"}
Alive == {l \in Loaders : pc[l] \notin Ended \cup {"new"}}

Init ==
  /\ setup \in Setups
  /\ pc = [l \in Loaders |-> "new"]
  /\ at = [l \in Loaders |-> 1]
  /\ args = [l \in Loaders |-> << >>]
  /\ pin = [m \in MapNames |-> None]
  /\ progpin = None
  /\ xdp = [i \in Ifaces |-> None]
  /\ hook = {}
  /\ filter = [i \in Ifaces |-> {}]
  /\ dpc = [d \in Daemons |-> "off"]
  /\ dat = [d \in Daemons |-> 1]
  /\ fd = [d \in Daemons |-> NoFds]
  /\ alone = {}
  /\ faulty = {}
  /\ tries = [l \in Loaders |-> 0]
  /\ base = [d \in Daemons |-> None]

-----------------------------------------------------------------------------
(* The loader: main, one action per system call that changes shared state. *)

\* A run that ended keeps nothing; what it attached and pinned stays.
Goto(l, to) ==
  /\ pc' = [pc EXCEPT ![l] = to]
  /\ at' = [at EXCEPT ![l] = IF to \in Ended THEN 1 ELSE @]
  /\ args' = [args EXCEPT ![l] = IF to \in Ended THEN << >> ELSE @]

\* The end of a loop body: the next of n rounds, or what follows the loop.
Loop_NoReset(l, n, again, after) ==
  /\ pc' = [pc EXCEPT ![l] = IF at[l] < n THEN again ELSE after]
  /\ at' = [at EXCEPT ![l] = IF at[l] < n THEN @ + 1 ELSE @]
  /\ UNCHANGED args

Loop(l, n, again, after) ==
  IF at[l] < n
  THEN /\ pc' = [pc EXCEPT ![l] = again]
       /\ at' = [at EXCEPT ![l] = @ + 1]
       /\ UNCHANGED args
  ELSE /\ pc' = [pc EXCEPT ![l] = after]
       /\ at' = [at EXCEPT ![l] = 1]
       /\ args' = [args EXCEPT ![l] = IF after \in Ended THEN << >> ELSE @]

Iface(l) == args[l][at[l]]

\* What follows the loading of the object.
AfterLoad == IF WithTc THEN "pin_prog" ELSE "xdp"

\* The object is opened and loaded, which creates new maps.  Nothing keeps a
\* second loader from starting.
Load(l, s) ==
  /\ pc[l] = "new"
  /\ pc' = [pc EXCEPT ![l] = AfterLoad]
  /\ args' = [args EXCEPT ![l] = s]
  /\ alone' = (alone \ Alive) \cup (IF Alive = {} THEN {l} ELSE {})
  /\ base' = [d \in Daemons |-> IF dpc[d] = "open" THEN None ELSE base[d]]
  /\ UNCHANGED <<setup, at, kernelVars, dpc, dat, fd, faulty, tries>>

\* bpf_program__pin; an existing pin is removed and the call repeated.
PinProg(l) ==
  /\ pc[l] = "pin_prog"
  /\ IF progpin = None
     THEN progpin' = l /\ Goto(l, "xdp")
     ELSE Goto(l, "unpin_prog") /\ UNCHANGED progpin
  /\ UNCHANGED <<setup, pin, xdp, hook, filter, daemonVars, alone, faulty, tries>>

AfterUnpin_Kept == progpin
AfterUnpin == None

UnpinProg(l) ==
  /\ pc[l] = "unpin_prog"
  /\ Goto(l, IF progpin = None THEN "failed" ELSE "pin_prog")
  /\ progpin' = AfterUnpin
  /\ tries' = [tries EXCEPT ![l] = @ + 1]
  /\ UNCHANGED <<setup, pin, xdp, hook, filter, daemonVars, alone, faulty>>

\* bpf_xdp_attach, without XDP_FLAGS_UPDATE_IF_NOEXIST, replaces whatever program
\* is attached.
Replace_IfNone(old, l) == IF old = None THEN l ELSE old
Replace(old, l) == l

XdpAttach(l) ==
  /\ pc[l] = "xdp"
  /\ xdp' = [xdp EXCEPT ![Iface(l)] = Replace(@, l)]
  /\ Loop(l, Len(args[l]), "xdp", "pin")
  /\ UNCHANGED <<setup, pin, progpin, hook, filter, daemonVars, alone, faulty, tries>>

\* What follows the pinning of the last map.
AfterPins == IF WithTc THEN "tc_destroy" ELSE "mask"

\* The old map left in place.
PinMap_Keep(l) ==
  LET m == maps[at[l]] IN
  /\ pc[l] = "pin"
  /\ pin' = [pin EXCEPT ![m] = IF @ = None THEN l ELSE @]
  /\ Loop(l, Len(maps), "pin", AfterPins)
  /\ UNCHANGED <<setup, progpin, xdp, hook, filter, daemonVars, alone, faulty, tries>>

\* pin_map: on EEXIST the old pin is removed and the map pinned again.
PinMap(l) ==
  LET m == maps[at[l]] IN
  /\ pc[l] \in {"pin", "repin"}
  /\ \/ /\ pin[m] = None
        /\ pin' = [pin EXCEPT ![m] = l]
        /\ Loop(l, Len(maps), "pin", AfterPins)
     \/ /\ pin[m] # None
        /\ Goto(l, IF pc[l] = "pin" THEN "unlink" ELSE "failed")
        /\ UNCHANGED pin
  /\ UNCHANGED <<setup, progpin, xdp, hook, filter, daemonVars, alone, faulty, tries>>

UnlinkPin(l) ==
  LET m == maps[at[l]] IN
  /\ pc[l] = "unlink"
  /\ Goto(l, IF pin[m] = None THEN "failed" ELSE "repin")
  /\ pin' = [pin EXCEPT ![m] = None]
  /\ UNCHANGED <<setup, progpin, xdp, hook, filter, daemonVars, alone, faulty, tries>>

\* A clsact qdisc left by an earlier run goes, with all its filters.
Destroy_FiltersOnly(i) ==
  /\ filter' = [filter EXCEPT ![i] = {}]
  /\ UNCHANGED hook

Destroy(i) ==
  /\ hook' = hook \ {i}
  /\ filter' = [filter EXCEPT ![i] = {}]

TcDestroy(l) ==
  /\ pc[l] = "tc_destroy"
  /\ Destroy(Iface(l))
  /\ Goto(l, "tc_create")
  /\ UNCHANGED <<setup, pin, progpin, xdp, daemonVars, alone, faulty, tries>>

\* bpf_tc_hook_create fails when there is a clsact qdisc.
TcCreate(l) ==
  /\ pc[l] = "tc_create"
  /\ Goto(l, IF Iface(l) \in hook THEN "failed" ELSE "tc_attach")
  /\ hook' = hook \cup {Iface(l)}
  /\ UNCHANGED <<setup, pin, progpin, xdp, filter, daemonVars, alone, faulty, tries>>

\* bpf_tc_attach without handle and priority adds a filter.
TcAttach(l) ==
  /\ pc[l] = "tc_attach"
  /\ \/ /\ Iface(l) \in hook
        /\ filter' = [filter EXCEPT ![Iface(l)] = @ \cup {l}]
        /\ Loop(l, Len(args[l]), "tc_destroy", "mask")
     \/ /\ Iface(l) \notin hook
        /\ Goto(l, "failed")
        /\ UNCHANGED filter
  /\ UNCHANGED <<setup, pin, progpin, xdp, hook, daemonVars, alone, faulty, tries>>

\* sigprocmask: from here on signals wait for sigwait.
Mask(l) ==
  /\ pc[l] = "mask"
  /\ Goto(l, "wait")
  /\ UNCHANGED <<setup, kernelVars, daemonVars, alone, faulty, tries>>

\* The tear-down of an interface.
TearDown == IF WithTc THEN "down_tc" ELSE "down_xdp"

\* sigwait returns SIGINT, SIGTERM or SIGUSR1.
Signal(l) ==
  /\ pc[l] = "wait"
  /\ Goto(l, TearDown)
  /\ UNCHANGED <<setup, kernelVars, daemonVars, alone, faulty, tries>>

\* The tear-down removes whatever is attached, also what another run attached.
DownTc(l) ==
  /\ pc[l] = "down_tc"
  /\ Destroy(Iface(l))
  /\ Goto(l, "down_xdp")
  /\ UNCHANGED <<setup, pin, progpin, xdp, daemonVars, alone, faulty, tries>>

DownXdp_First(l) ==
  /\ pc[l] = "down_xdp"
  /\ xdp' = [xdp EXCEPT ![Iface(l)] = None]
  /\ Goto(l, "stopped")
  /\ UNCHANGED <<setup, pin, progpin, hook, filter, daemonVars, alone, faulty, tries>>

DownXdp(l) ==
  /\ pc[l] = "down_xdp"
  /\ xdp' = [xdp EXCEPT ![Iface(l)] = None]
  /\ Loop(l, Len(args[l]), TearDown, "stopped")
  /\ UNCHANGED <<setup, pin, progpin, hook, filter, daemonVars, alone, faulty, tries>>

LoaderStep(l) ==
  \/ PinProg(l) \/ UnpinProg(l)
  \/ XdpAttach(l)
  \/ PinMap(l) \/ UnlinkPin(l)
  \/ TcDestroy(l) \/ TcCreate(l) \/ TcAttach(l)
  \/ Mask(l)
  \/ DownTc(l) \/ DownXdp(l)

\* A call fails for a reason of its own and main returns, undoing nothing.  (Before
\* the first hook is destroyed: calloc, or the descriptor of the TC program.)
CallFails(l) ==
  /\ pc[l] \in Starting \cup {"new", "wait"}
  /\ pc[l] = "tc_destroy" => at[l] = 1
  /\ Goto(l, "failed")
  /\ faulty' = faulty \cup {l}
  /\ UNCHANGED <<setup, kernelVars, daemonVars, alone, tries>>

\* A call fails whose result is ignored.
CallFailsUnseen(l) ==
  /\ \/ pc[l] = "tc_destroy" /\ Goto(l, "tc_create")
     \/ pc[l] = "down_tc" /\ Goto(l, "down_xdp")
     \/ pc[l] = "down_xdp" /\ Loop(l, Len(args[l]), TearDown, "stopped")
  /\ faulty' = faulty \cup {l}
  /\ UNCHANGED <<setup, kernelVars, daemonVars, alone, tries>>

\* SIGKILL at any time; SIGINT, SIGTERM or SIGUSR1 before sigprocmask.
Die(l) ==
  /\ l \in Alive
  /\ Goto(l, "killed")
  /\ UNCHANGED <<setup, kernelVars, daemonVars, alone, faulty, tries>>

-----------------------------------------------------------------------------
(* The start of the daemon: main of bpf_broker_proto.c up to its loop.     *)

\* The lone loader that is up, if there is one.
Up == {l \in alone : pc[l] = "wait"}

DaemonStart(d) ==
  /\ d \in setup.daemons
  /\ dpc[d] = "off"
  /\ dpc' = [dpc EXCEPT ![d] = "open"]
  /\ base' = [base EXCEPT ![d] = IF Up = {} THEN None ELSE CHOOSE l \in Up : TRUE]
  /\ UNCHANGED <<setup, dat, fd, loaderVars, kernelVars, alone, faulty, tries>>

\* main returns, or the process is killed; its file descriptors are closed.
Exit(d) ==
  /\ dpc' = [dpc EXCEPT ![d] = "off"]
  /\ dat' = [dat EXCEPT ![d] = 1]
  /\ fd' = [fd EXCEPT ![d] = NoFds]
  /\ base' = [base EXCEPT ![d] = None]

\* bpf_obj_get of the next map.
DaemonOpen(d) ==
  LET m == opens[dat[d]] IN
  /\ dpc[d] = "open"
  /\ \/ /\ pin[m] = None
        /\ Exit(d)
     \/ /\ pin[m] # None
        /\ fd' = [fd EXCEPT ![d][m] = pin[m]]
        /\ dpc' = [dpc EXCEPT ![d] = IF dat[d] < Len(opens) THEN "open" ELSE "bind"]
        /\ dat' = [dat EXCEPT ![d] = IF dat[d] < Len(opens) THEN @ + 1 ELSE 1]
        /\ UNCHANGED base
  /\ UNCHANGED <<setup, loaderVars, kernelVars, alone, faulty, tries>>

\* bind fails when another daemon has the port.
DaemonBind(d) ==
  /\ dpc[d] = "bind"
  /\ \/ /\ \A e \in Daemons : dpc[e] # "serve"
        /\ dpc' = [dpc EXCEPT ![d] = "serve"]
        /\ UNCHANGED <<dat, fd, base>>
     \/ /\ \E e \in Daemons : dpc[e] = "serve"
        /\ Exit(d)
  /\ UNCHANGED <<setup, loaderVars, kernelVars, alone, faulty, tries>>

\* A daemon is stopped, or dies; a loader stopping has no effect on it.
DaemonExit(d) ==
  /\ dpc[d] # "off"
  /\ Exit(d)
  /\ UNCHANGED <<setup, loaderVars, kernelVars, alone, faulty, tries>>

-----------------------------------------------------------------------------
Next ==
  \/ \E l \in Loaders, s \in setup.args : Load(l, s)
  \/ \E l \in Loaders :
       LoaderStep(l) \/ Signal(l) \/ CallFails(l) \/ CallFailsUnseen(l) \/ Die(l)
  \/ \E d \in Daemons :
       DaemonStart(d) \/ DaemonOpen(d) \/ DaemonBind(d) \/ DaemonExit(d)

Spec == Init /\ [][Next]_vars

-----------------------------------------------------------------------------
TypeOK ==
  /\ pc \in [Loaders -> Starting \cup Ended \cup {"new", "wait", "down_tc", "down_xdp"}]
  /\ setup \in Setups
  /\ args \in [Loaders -> setup.args \cup {<< >>}]
  /\ at \in [Loaders -> Nat]
  /\ \A l \in Loaders :
       /\ pc[l] \in {"pin", "unlink", "repin"} => at[l] \in DOMAIN maps
       /\ l \in Alive /\ pc[l] \notin {"pin", "unlink", "repin"} => at[l] \in DOMAIN args[l]
  /\ pin \in [MapNames -> Loaders \cup {None}]
  /\ progpin \in Loaders \cup {None}
  /\ xdp \in [Ifaces -> Loaders \cup {None}]
  /\ hook \subseteq Ifaces
  /\ filter \in [Ifaces -> SUBSET Loaders]
  /\ dpc \in [Daemons -> {"off", "open", "bind", "serve"}]
  /\ dat \in [Daemons -> DOMAIN opens]
  /\ fd \in [Daemons -> [Range(opens) -> Loaders \cup {None}]]
  /\ alone \subseteq Loaders
  /\ faulty \subseteq Loaders
  /\ tries \in [Loaders -> Nat]
  /\ base \in [Daemons -> Loaders \cup {None}]

\* A loader that runs alone and waits for a signal is in charge: on each of its
\* interfaces its own programs and no others are attached, and the pins are its
\* own maps, whatever a killed or failed run before it left behind (pin_map, and
\* the tear-down of stale hooks before bpf_tc_hook_create).
InCharge ==
  \A l \in alone \ faulty : pc[l] = "wait" =>
    /\ \A m \in MapNames : pin[m] = l
    /\ \A i \in Range(args[l]) :
         xdp[i] = l /\ (WithTc => i \in hook /\ filter[i] = {l})

\* A daemon started while a lone loader was up, and done opening its maps before
\* another loader was started, writes the very maps that this loader's programs
\* read: the assumption under which HashBroker and CloneBroker model the pair.
OneGeneration ==
  \A d \in Daemons : dpc[d] = "serve" /\ base[d] # None =>
    \A m \in Range(opens) : fd[d][m] = base[d]

\* Whatever an earlier run left behind when it failed or was killed, a later
\* run on its own does not fail because of it (EEXIST of pins and hooks).
RestartSucceeds ==
  \A l \in alone : pc[l] = "failed" => l \in faulty

\* No program of a loader that ended through its tear-down stays attached, also
\* when other loaders worked on the same interfaces meanwhile.
NoOrphans ==
  \A l \in Loaders \ faulty : pc[l] = "stopped" =>
    \A i \in Ifaces : xdp[i] # l /\ l \notin filter[i]

\* The retry loop of the program pin ends: every round of it removes the pin of
\* another run, which sets it only once (goto retry).
RetryEnds == \A l \in Loaders : tries[l] < Cardinality(Loaders)

=============================================================================
