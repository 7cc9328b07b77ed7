---------------------------- MODULE LoaderProofs ----------------------------
(***************************************************************************)
(* The invariant of LoaderInv proved for any number of runs, daemons and   *)
(* interfaces.  A step of a run that is alone keeps what the run has done  *)
(* (Held), a step of any run keeps the tear-down tidy (Tidy), the retries  *)
(* are counted against the runs that have left the loop (RetryInv), and a  *)
(* daemon opens maps that nobody replaces (Opening).                       *)
(***************************************************************************)
EXTENDS LoaderInv, FiniteSetTheorems, TLAPS

\* The maps that a run pins have different names, and a daemon opens some of them.
LEMMA MapsType ==
  /\ DOMAIN maps = 1..Len(maps) /\ DOMAIN opens = 1..Len(opens)
  /\ Len(maps) \in Nat /\ Len(opens) \in Nat /\ Len(maps) > 0 /\ Len(opens) > 0
  /\ \A j, k \in DOMAIN maps : maps[j] = maps[k] => j = k
  /\ \A j, k \in DOMAIN opens : opens[j] = opens[k] => j = k
  /\ \A j \in DOMAIN maps : maps[j] \in MapNames
  /\ \A k \in DOMAIN opens : opens[k] \in MapNames /\ opens[k] \in Range(opens)
<1>1. CASE WithTc
  <2>1. /\ maps = HashMaps /\ opens = HashOpens
    BY <1>1 DEF maps, opens
  <2>2. /\ DOMAIN HashMaps = 1..4 /\ Len(HashMaps) = 4
        /\ DOMAIN HashOpens = 1..3 /\ Len(HashOpens) = 3
    BY DEF HashMaps, HashOpens
  <2>3. /\ \A j, k \in 1..4 : HashMaps[j] = HashMaps[k] => j = k
        /\ \A j, k \in 1..3 : HashOpens[j] = HashOpens[k] => j = k
        /\ \A j \in 1..3 : HashOpens[j] = HashMaps[j]
    BY DEF HashMaps, HashOpens
  <2> QED BY <2>1, <2>2, <2>3 DEF MapNames, Range
<1>2. CASE ~WithTc
  <2>1. /\ maps = CloneMaps /\ opens = CloneOpens
    BY <1>2 DEF maps, opens
  <2>2. /\ DOMAIN CloneMaps = 1..3 /\ Len(CloneMaps) = 3
        /\ DOMAIN CloneOpens = 1..2 /\ Len(CloneOpens) = 2
    BY DEF CloneMaps, CloneOpens
  <2>3. /\ \A j, k \in 1..3 : CloneMaps[j] = CloneMaps[k] => j = k
        /\ \A j, k \in 1..2 : CloneOpens[j] = CloneOpens[k] => j = k
        /\ \A j \in 1..2 : CloneOpens[j] = CloneMaps[j]
    BY DEF CloneMaps, CloneOpens
  <2> QED BY <2>1, <2>2, <2>3 DEF MapNames, Range
<1> QED BY <1>1, <1>2

Pcs == Starting \cup Ended \cup {"new", "wait", "down_tc", "down_xdp"}

\* Where a run may be: TypeOK and ControlInv of one run.
Sensible(p, n, s) ==
  /\ p \in Pcs
  /\ n \in Nat
  /\ s \in setup.args \cup {<< >>}
  /\ p \in PinPcs => n \in DOMAIN maps
  /\ p \notin Ended \cup {"new"} => s # << >> /\ (p \notin PinPcs => n \in DOMAIN s)
  /\ p \in NotPinned \cup {"mask", "wait"} => n = 1
  /\ p \in {"pin_prog", "unpin_prog", "down_tc"} \cup TcPcs => WithTc

LoaderTypes ==
  /\ pc \in [Loaders -> Pcs]
  /\ setup \in Setups
  /\ args \in [Loaders -> setup.args \cup {<< >>}]
  /\ at \in [Loaders -> Nat]
  /\ \A l \in Loaders : Sensible(pc[l], at[l], args[l])

KernelTypes ==
  /\ pin \in [MapNames -> Loaders \cup {None}]
  /\ progpin \in Loaders \cup {None}
  /\ xdp \in [Ifaces -> Loaders \cup {None}]
  /\ hook \subseteq Ifaces
  /\ filter \in [Ifaces -> SUBSET Loaders]

DaemonTypes ==
  /\ dpc \in [Daemons -> {"off", "open", "bind", "serve"}]
  /\ dat \in [Daemons -> DOMAIN opens]
  /\ fd \in [Daemons -> [Range(opens) -> Loaders \cup {None}]]
  /\ base \in [Daemons -> Loaders \cup {None}]

HistoryTypes ==
  /\ alone \subseteq Loaders
  /\ faulty \subseteq Loaders
  /\ tries \in [Loaders -> Nat]

\* The types and the control of the runs, part by part.
LEMMA Types ==
  TypeOK /\ ControlInv <=> LoaderTypes /\ KernelTypes /\ DaemonTypes /\ HistoryTypes
<1>1. ASSUME pc \in [Loaders -> Pcs], args \in [Loaders -> setup.args \cup {<< >>}],
             at \in [Loaders -> Nat]
      PROVE  (\A l \in Loaders : Sensible(pc[l], at[l], args[l]))
               <=> ControlInv /\ \A l \in Loaders :
                     /\ pc[l] \in {"pin", "unlink", "repin"} => at[l] \in DOMAIN maps
                     /\ l \in Alive /\ pc[l] \notin {"pin", "unlink", "repin"} => at[l] \in DOMAIN args[l]
  BY <1>1 DEF Sensible, ControlInv, Alive, PinPcs
<1> QED
  BY <1>1 DEF TypeOK, LoaderTypes, KernelTypes, DaemonTypes, HistoryTypes, Pcs

\* A run moves on to p with the loop variable n and the interfaces s.
Moves(l, p, n, s) ==
  /\ setup' = setup
  /\ pc' = [pc EXCEPT ![l] = p]
  /\ at' = [at EXCEPT ![l] = n]
  /\ args' = [args EXCEPT ![l] = s]

\* Which broker it is never changes.
LEMMA Fixed ==
  ASSUME setup' = setup
  PROVE  /\ WithTc' = WithTc /\ maps' = maps /\ opens' = opens /\ MapNames' = MapNames
         /\ NoFds' = NoFds
BY DEF WithTc, maps, opens, MapNames, NoFds, HashMaps, CloneMaps, HashOpens, CloneOpens

\* A move to somewhere sensible.
LEMMA MovesTyped ==
  ASSUME LoaderTypes, NEW l \in Loaders, NEW p, NEW n, NEW s,
         Moves(l, p, n, s), Sensible(p, n, s)
  PROVE  LoaderTypes'
<1>1. \A k \in Loaders : Sensible(pc'[k], at'[k], args'[k])
  BY DEF LoaderTypes, Moves, Sensible
<1>2. \A k \in Loaders : Sensible(pc[k], at[k], args[k])'
  BY <1>1, Fixed DEF Moves, Sensible
<1> QED BY <1>2 DEF LoaderTypes, Moves, Sensible

\* Goto and Loop as moves.
LEMMA GotoMoves ==
  ASSUME LoaderTypes, NEW l \in Loaders, NEW to, Goto(l, to), setup' = setup
  PROVE  Moves(l, to, IF to \in Ended THEN 1 ELSE at[l],
                      IF to \in Ended THEN << >> ELSE args[l])
BY DEF LoaderTypes, Goto, Moves

LEMMA LoopMoves ==
  ASSUME LoaderTypes, NEW l \in Loaders, NEW n, NEW again, NEW after,
         Loop(l, n, again, after), setup' = setup
  PROVE  IF at[l] < n
         THEN Moves(l, again, at[l] + 1, args[l])
         ELSE Moves(l, after, 1, IF after \in Ended THEN << >> ELSE args[l])
BY DEF LoaderTypes, Loop, Moves

\* The command line names at least one interface.
LEMMA ArgsType ==
  ASSUME LoaderTypes
  PROVE  \A s \in setup.args :
           /\ s \in Seq(Ifaces) /\ s # << >>
           /\ DOMAIN s = 1..Len(s) /\ Len(s) \in Nat /\ Len(s) > 0
           /\ \A j \in DOMAIN s : s[j] \in Ifaces
           /\ Range(s) \subseteq Ifaces
BY SetupsAssumption DEF LoaderTypes, Range

\* A run that ends is somewhere sensible, whatever it was doing.
LEMMA EndMoves ==
  ASSUME LoaderTypes, NEW l \in Loaders, NEW to \in Ended, Goto(l, to), setup' = setup
  PROVE  Moves(l, to, 1, << >>) /\ Sensible(to, 1, << >>)
BY GotoMoves DEF Sensible, Ended, Pcs, PinPcs, NotPinned, TcPcs

\* So is one that goes on with the same loop variable.
LEMMA GoesOn ==
  ASSUME LoaderTypes, NEW l \in Loaders, NEW to \in Pcs \ (Ended \cup {"new"}), l \in Alive,
         Goto(l, to), setup' = setup,
         to \in PinPcs <=> pc[l] \in PinPcs,
         to \in NotPinned \cup {"mask", "wait"} => pc[l] \in NotPinned \cup {"mask", "wait"},
         to \in {"pin_prog", "unpin_prog", "down_tc"} \cup TcPcs => WithTc
  PROVE  Moves(l, to, at[l], args[l]) /\ Sensible(to, at[l], args[l])
BY GotoMoves DEF Sensible, LoaderTypes, Alive

LEMMA Rounds ==
  /\ \A m \in Nat : m > 0 => 1 \in 1..m
  /\ \A m, i \in Nat : i < m => i + 1 \in 1..m
OBVIOUS

\* A loop of n rounds that main has, and what follows it.
IsLoop(l, n, again, after) ==
  /\ l \in Alive
  /\ n \in Nat
  /\ again \in Pcs \ (Ended \cup NotPinned \cup {"mask", "wait"})
  /\ after \in Pcs /\ after # "new"
  /\ again \in PinPcs => n = Len(maps)
  /\ again \notin PinPcs => n = Len(args[l])
  /\ again \in {"pin_prog", "unpin_prog", "down_tc"} \cup TcPcs => WithTc
  /\ after \in {"pin_prog", "unpin_prog", "down_tc"} \cup TcPcs => WithTc

\* And one at the end of a loop body.
LEMMA LoopsOn ==
  ASSUME LoaderTypes, NEW l \in Loaders, NEW n, NEW again, NEW after,
         IsLoop(l, n, again, after), Loop(l, n, again, after), setup' = setup
  PROVE  IF at[l] < n
         THEN Moves(l, again, at[l] + 1, args[l]) /\ Sensible(again, at[l] + 1, args[l])
         ELSE /\ Moves(l, after, 1, IF after \in Ended THEN << >> ELSE args[l])
              /\ Sensible(after, 1, IF after \in Ended THEN << >> ELSE args[l])
<1>1. /\ at[l] \in Nat /\ args[l] \in setup.args
      /\ DOMAIN args[l] = 1..Len(args[l]) /\ Len(args[l]) \in Nat /\ Len(args[l]) > 0
      /\ DOMAIN maps = 1..Len(maps) /\ Len(maps) \in Nat /\ Len(maps) > 0
      /\ n \in Nat
  BY ArgsType, MapsType, Zenon DEF LoaderTypes, Sensible, Alive, IsLoop
<1>2. CASE at[l] < n
  <2>1. Moves(l, again, at[l] + 1, args[l])
    BY <1>2, LoopMoves
  <2>2. /\ again \in PinPcs => at[l] + 1 \in 1..Len(maps)
        /\ again \notin PinPcs => at[l] + 1 \in 1..Len(args[l])
        /\ at[l] + 1 \in Nat
    <3>1. at[l] + 1 \in 1..n /\ at[l] + 1 \in Nat
      <4>1. at[l] \in Nat /\ n \in Nat
        BY <1>1
      <4> QED BY <1>2, <4>1, Rounds
    <3>2. (again \in PinPcs => n = Len(maps)) /\ (again \notin PinPcs => n = Len(args[l]))
      BY DEF IsLoop
    <3> QED BY <3>1, <3>2
  <2>3. args[l] # << >>
    BY <1>1, ArgsType
  <2>4. Sensible(again, at[l] + 1, args[l])
    BY <1>1, <2>2, <2>3, Zenon DEF Sensible, IsLoop
  <2> QED BY <1>2, <2>1, <2>4
<1>3. CASE ~(at[l] < n)
  <2>1. Moves(l, after, 1, IF after \in Ended THEN << >> ELSE args[l])
    BY <1>3, LoopMoves
  <2>2. args[l] # << >> /\ 1 \in DOMAIN args[l] /\ 1 \in DOMAIN maps
    <3>1. args[l] # << >>
      BY <1>1, ArgsType
    <3>2. 1 \in 1..Len(args[l]) /\ 1 \in 1..Len(maps)
      BY <1>1, Rounds
    <3> QED BY <1>1, <3>1, <3>2
  <2>3. Sensible(after, 1, IF after \in Ended THEN << >> ELSE args[l])
    BY <1>1, <2>2, Zenon DEF Sensible, IsLoop, Ended, NotPinned, PinPcs, TcPcs
  <2> QED BY <1>3, <2>1, <2>3
<1> QED BY <1>2, <1>3

RunStep(l) == LoaderStep(l) \/ Signal(l) \/ CallFails(l) \/ CallFailsUnseen(l) \/ Die(l)

USE DEF Pcs, Starting, Ended, PinPcs, TcPcs, NotPinned, DownPcs

\* Where each call takes its run.
LEMMA RunMoves ==
  ASSUME LoaderTypes, NEW l \in Loaders, RunStep(l)
  PROVE  \E p, n, s : Moves(l, p, n, s) /\ Sensible(p, n, s)
<1>0. setup' = setup
  BY DEF RunStep, LoaderStep, PinProg, UnpinProg, XdpAttach, PinMap, UnlinkPin, TcDestroy, TcCreate,
     TcAttach, Mask, DownTc, DownXdp, Signal, CallFails, CallFailsUnseen, Die
<1>1. Len(args[l]) \in Nat \/ l \notin Alive
  BY ArgsType DEF LoaderTypes, Sensible, Alive
<1>2. Len(maps) \in Nat
  BY MapsType
<1>3. CASE PinProg(l)
  BY <1>0, <1>3, GoesOn DEF PinProg, Alive, LoaderTypes, Sensible
<1>4. CASE UnpinProg(l)
  BY <1>0, <1>4, GoesOn, EndMoves DEF UnpinProg, Alive, LoaderTypes, Sensible
<1>5. CASE XdpAttach(l)
  BY <1>0, <1>1, <1>5, LoopsOn DEF IsLoop, XdpAttach, Alive
<1>6. CASE PinMap(l)
  BY <1>0, <1>2, <1>6, LoopsOn, GoesOn, EndMoves DEF IsLoop, PinMap, AfterPins, Alive
<1>7. CASE UnlinkPin(l)
  BY <1>0, <1>7, GoesOn, EndMoves DEF UnlinkPin, Alive
<1>8. CASE TcDestroy(l)
  BY <1>0, <1>8, GoesOn DEF TcDestroy, Alive, LoaderTypes, Sensible
<1>9. CASE TcCreate(l)
  BY <1>0, <1>9, GoesOn, EndMoves DEF TcCreate, Alive, LoaderTypes, Sensible
<1>10. CASE TcAttach(l)
  <2>1. l \in Alive /\ WithTc
    BY <1>10 DEF TcAttach, Alive, LoaderTypes, Sensible
  <2>2. CASE Loop(l, Len(args[l]), "tc_destroy", "mask")
    BY <1>0, <1>1, <2>1, <2>2, LoopsOn DEF IsLoop
  <2>3. CASE Goto(l, "failed")
    BY <1>0, <2>3, EndMoves
  <2> QED BY <1>10, <2>2, <2>3 DEF TcAttach
<1>11. CASE Mask(l)
  BY <1>0, <1>11, GoesOn DEF Mask, Alive
<1>12. CASE Signal(l)
  BY <1>0, <1>12, GoesOn DEF Signal, TearDown, Alive
<1>13. CASE DownTc(l)
  BY <1>0, <1>13, GoesOn DEF DownTc, Alive
<1>14. CASE DownXdp(l)
  BY <1>0, <1>1, <1>14, LoopsOn DEF IsLoop, DownXdp, TearDown, Alive
<1>15. CASE CallFails(l)
  BY <1>0, <1>15, EndMoves DEF CallFails
<1>16. CASE CallFailsUnseen(l)
  <2>1. CASE pc[l] = "tc_destroy" /\ Goto(l, "tc_create")
    BY <1>0, <2>1, GoesOn DEF Alive, LoaderTypes, Sensible
  <2>2. CASE pc[l] = "down_tc" /\ Goto(l, "down_xdp")
    BY <1>0, <2>2, GoesOn DEF Alive
  <2>3. CASE pc[l] = "down_xdp" /\ Loop(l, Len(args[l]), TearDown, "stopped")
    BY <1>0, <1>1, <2>3, LoopsOn DEF IsLoop, TearDown, Alive
  <2> QED BY <1>16, <2>1, <2>2, <2>3 DEF CallFailsUnseen
<1>17. CASE Die(l)
  BY <1>0, <1>17, EndMoves DEF Die
<1> QED
  BY <1>3, <1>4, <1>5, <1>6, <1>7, <1>8, <1>9, <1>10, <1>11, <1>12, <1>13, <1>14, <1>15, <1>16,
     <1>17 DEF RunStep, LoaderStep

\* The calls of a run act on the pins, interfaces and filters it may act on.
LEMMA RunKernel ==
  ASSUME LoaderTypes, KernelTypes, NEW l \in Loaders, RunStep(l)
  PROVE  KernelTypes'
<1>0. setup' = setup /\ MapNames' = MapNames
  BY Fixed DEF RunStep, LoaderStep, PinProg, UnpinProg, XdpAttach, PinMap, UnlinkPin, TcDestroy,
     TcCreate, TcAttach, Mask, DownTc, DownXdp, Signal, CallFails, CallFailsUnseen, Die
<1>1. l \in Alive /\ pc[l] \notin PinPcs => Iface(l) \in Ifaces
  BY ArgsType DEF LoaderTypes, Sensible, Alive, Iface
<1>2. pc[l] \in PinPcs => maps[at[l]] \in MapNames
  BY MapsType DEF LoaderTypes, Sensible
<1>3. UNCHANGED kernelVars => KernelTypes'
  BY <1>0 DEF kernelVars, KernelTypes
<1>4. CASE PinProg(l) \/ UnpinProg(l)
  BY <1>0, <1>4 DEF PinProg, UnpinProg, AfterUnpin, KernelTypes
<1>5. CASE XdpAttach(l) \/ DownXdp(l)
  BY <1>0, <1>1, <1>5 DEF XdpAttach, DownXdp, Replace, KernelTypes, Alive
<1>6. CASE PinMap(l) \/ UnlinkPin(l)
  BY <1>0, <1>2, <1>6 DEF PinMap, UnlinkPin, KernelTypes
<1>7. CASE TcDestroy(l) \/ DownTc(l)
  BY <1>0, <1>1, <1>7 DEF TcDestroy, DownTc, Destroy, KernelTypes, Alive
<1>8. CASE TcCreate(l) \/ TcAttach(l)
  BY <1>0, <1>1, <1>8 DEF TcCreate, TcAttach, KernelTypes, Alive
<1>9. CASE Mask(l) \/ Signal(l) \/ CallFails(l) \/ CallFailsUnseen(l) \/ Die(l)
  BY <1>3, <1>9 DEF Mask, Signal, CallFails, CallFailsUnseen, Die
<1> QED
  BY <1>4, <1>5, <1>6, <1>7, <1>8, <1>9 DEF RunStep, LoaderStep

\* Nothing else changes, but for the history.
LEMMA RunRest ==
  ASSUME HistoryTypes, NEW l \in Loaders, RunStep(l)
  PROVE  /\ UNCHANGED <<setup, daemonVars, alone>>
         /\ faulty \subseteq faulty' /\ faulty' \subseteq faulty \cup {l}
         /\ HistoryTypes'
BY DEF RunStep, LoaderStep, PinProg, UnpinProg, XdpAttach, PinMap, UnlinkPin, TcDestroy,
   TcCreate, TcAttach, Mask, DownTc, DownXdp, Signal, CallFails, CallFailsUnseen, Die, HistoryTypes

DaemonStep(d) == DaemonStart(d) \/ DaemonOpen(d) \/ DaemonBind(d) \/ DaemonExit(d)

\* No descriptor is open.
LEMMA NoFdsType == NoFds \in [Range(opens) -> Loaders \cup {None}]
BY DEF NoFds

\* The steps of a daemon concern its own descriptors.
LEMMA DaemonTyped ==
  ASSUME LoaderTypes, KernelTypes, HistoryTypes, DaemonTypes, NEW d \in Daemons, DaemonStep(d)
  PROVE  /\ UNCHANGED <<setup, loaderVars, kernelVars, alone, faulty, tries>>
         /\ DaemonTypes'
<1>1. UNCHANGED <<setup, loaderVars, kernelVars, alone, faulty, tries>>
  BY DEF DaemonStep, DaemonStart, DaemonOpen, DaemonBind, DaemonExit
<1>2. opens' = opens
  BY <1>1, Fixed
<1>3. ASSUME Exit(d) PROVE DaemonTypes'
  <2>1. 1 \in DOMAIN opens
    BY MapsType, Rounds
  <2> QED BY <1>2, <1>3, <2>1, NoFdsType DEF Exit, DaemonTypes
<1>4. CASE DaemonStart(d)
  BY <1>2, <1>4 DEF DaemonStart, Up, HistoryTypes, DaemonTypes
<1>5. CASE DaemonOpen(d)
  <2> DEFINE m == opens[dat[d]]
  <2>1. CASE Exit(d)
    BY <1>1, <1>3, <2>1
  <2>2. CASE /\ pin[m] # None
             /\ fd' = [fd EXCEPT ![d][m] = pin[m]]
             /\ dpc' = [dpc EXCEPT ![d] = IF dat[d] < Len(opens) THEN "open" ELSE "bind"]
             /\ dat' = [dat EXCEPT ![d] = IF dat[d] < Len(opens) THEN @ + 1 ELSE 1]
             /\ UNCHANGED base
    <3>1. pin[m] \in Loaders \cup {None} /\ m \in Range(opens)
      BY MapsType DEF DaemonTypes, KernelTypes
    <3>2. dat[d] \in Nat /\ Len(opens) \in Nat /\ Len(opens) > 0 /\ DOMAIN opens = 1..Len(opens)
      BY MapsType DEF DaemonTypes
    <3>3. dat'[d] \in DOMAIN opens
      BY <2>2, <3>2, Rounds DEF DaemonTypes
    <3> HIDE DEF m
    <3> QED BY <1>1, <1>2, <2>2, <3>1, <3>3 DEF DaemonTypes
  <2> QED BY <1>5, <2>1, <2>2 DEF DaemonOpen
<1>6. CASE DaemonBind(d)
  BY <1>2, <1>3, <1>6 DEF DaemonBind, DaemonTypes
<1>7. CASE DaemonExit(d)
  BY <1>3, <1>7 DEF DaemonExit
<1> QED BY <1>1, <1>4, <1>5, <1>6, <1>7 DEF DaemonStep

AllTypes == LoaderTypes /\ KernelTypes /\ DaemonTypes /\ HistoryTypes

\* The start of a run.
LEMMA LoadTyped ==
  ASSUME AllTypes, NEW l \in Loaders, NEW s \in setup.args, Load(l, s)
  PROVE  Moves(l, AfterLoad, 1, s) /\ AllTypes'
<1>1. Moves(l, AfterLoad, 1, s)
  BY DEF Load, Moves, AllTypes, LoaderTypes, Sensible
<1>2. Sensible(AfterLoad, 1, s)
  <2>1. s # << >> /\ 1 \in DOMAIN s
    BY ArgsType, Rounds DEF AllTypes
  <2> QED BY <2>1 DEF Sensible, AfterLoad
<1>3. LoaderTypes'
  BY <1>1, <1>2, MovesTyped DEF AllTypes
<1>4. MapNames' = MapNames /\ opens' = opens
  BY Fixed DEF Load
<1>5. KernelTypes'
  BY <1>4 DEF AllTypes, KernelTypes, Load, kernelVars
<1>6. DaemonTypes'
  BY <1>4 DEF AllTypes, DaemonTypes, Load
<1>7. HistoryTypes'
  BY DEF AllTypes, HistoryTypes, Load
<1> QED BY <1>1, <1>3, <1>5, <1>6, <1>7 DEF AllTypes

\* Every step keeps the types.
LEMMA TypesStep == AllTypes /\ [Next]_vars => AllTypes'
<1> SUFFICES ASSUME AllTypes, [Next]_vars PROVE AllTypes'
  OBVIOUS
<1>1. CASE UNCHANGED vars
  <2>1. UNCHANGED <<setup, loaderVars, kernelVars, daemonVars, alone, faulty, tries>>
    BY <1>1 DEF vars
  <2>2. WithTc' = WithTc /\ maps' = maps /\ opens' = opens /\ MapNames' = MapNames
    BY <2>1, Fixed
  <2> QED
    BY <2>1, <2>2 DEF AllTypes, LoaderTypes, KernelTypes, DaemonTypes, HistoryTypes, Sensible,
       loaderVars, kernelVars, daemonVars
<1>2. ASSUME NEW l \in Loaders, RunStep(l) PROVE AllTypes'
  <2>1. LoaderTypes'
    BY <1>2, RunMoves, MovesTyped DEF AllTypes
  <2>2. KernelTypes'
    BY <1>2, RunKernel DEF AllTypes
  <2>3. HistoryTypes' /\ UNCHANGED <<setup, daemonVars>>
    BY <1>2, RunRest DEF AllTypes
  <2>4. DaemonTypes'
    BY <2>3, Fixed DEF AllTypes, DaemonTypes, daemonVars
  <2> QED BY <2>1, <2>2, <2>3, <2>4 DEF AllTypes
<1>3. ASSUME NEW d \in Daemons, DaemonStep(d) PROVE AllTypes'
  <2>1. DaemonTypes' /\ UNCHANGED <<setup, loaderVars, kernelVars, alone, faulty, tries>>
    BY <1>3, DaemonTyped DEF AllTypes
  <2>2. WithTc' = WithTc /\ maps' = maps /\ opens' = opens /\ MapNames' = MapNames
    BY <2>1, Fixed
  <2> QED
    BY <2>1, <2>2 DEF AllTypes, LoaderTypes, KernelTypes, HistoryTypes, Sensible,
       loaderVars, kernelVars
<1> QED BY <1>1, <1>2, <1>3, LoadTyped DEF Next, RunStep, DaemonStep

\* Other runs stay where they are, and only a call that fails touches a run that
\* has not been loaded.
LEMMA RunAlive ==
  ASSUME LoaderTypes, NEW l \in Loaders, RunStep(l)
  PROVE  /\ \A k \in Loaders : k # l => pc'[k] = pc[k] /\ at'[k] = at[k] /\ args'[k] = args[k]
         /\ pc[l] \notin Ended /\ pc'[l] # "new"
         /\ l \in Alive \/ CallFails(l)
         /\ Alive' \subseteq Alive /\ Alive \subseteq Alive' \cup {l}
<1>1. PICK p, n, s : Moves(l, p, n, s)
  BY RunMoves
<1>2. \A k \in Loaders : k # l => pc'[k] = pc[k] /\ at'[k] = at[k] /\ args'[k] = args[k]
  BY <1>1 DEF Moves, LoaderTypes
<1>3. pc[l] \notin Ended /\ (pc[l] # "new" \/ CallFails(l))
  BY DEF RunStep, LoaderStep, PinProg, UnpinProg, XdpAttach, PinMap, UnlinkPin, TcDestroy,
     TcCreate, TcAttach, Mask, DownTc, DownXdp, Signal, CallFails, CallFailsUnseen, Die, Alive
<1>4. pc'[l] # "new"
  BY DEF RunStep, LoaderStep, PinProg, UnpinProg, XdpAttach, PinMap, UnlinkPin, TcDestroy,
     TcCreate, TcAttach, Mask, DownTc, DownXdp, Signal, CallFails, CallFailsUnseen, Die, Goto, Loop,
     AfterPins, TearDown, LoaderTypes
<1>5. CallFails(l) => pc'[l] \in Ended
  BY DEF CallFails, Goto, LoaderTypes
<1> QED BY <1>2, <1>3, <1>4, <1>5 DEF Alive

\* While a run that is alone is alive, other runs change nothing.
LEMMA LoneUndisturbed ==
  ASSUME LoaderTypes, AloneInv, NEW l \in Loaders, RunStep(l), NEW k \in alone, k \in Alive, k # l
  PROVE  UNCHANGED kernelVars /\ faulty' \subseteq faulty \cup {l}
<1>1. CallFails(l)
  BY RunAlive DEF AloneInv
<1> QED BY <1>1 DEF CallFails

\* The attachment of filters, and their removal, keep qdisc and filters together.
LEMMA HookRun ==
  ASSUME LoaderTypes, KernelTypes, HookInv, NEW l \in Loaders, RunStep(l)
  PROVE  HookInv'
<1>1. setup' = setup /\ WithTc' = WithTc
  BY Fixed DEF RunStep, LoaderStep, PinProg, UnpinProg, XdpAttach, PinMap, UnlinkPin, TcDestroy,
     TcCreate, TcAttach, Mask, DownTc, DownXdp, Signal, CallFails, CallFailsUnseen, Die
<1>2. CASE TcDestroy(l) \/ DownTc(l)
  BY <1>1, <1>2 DEF TcDestroy, DownTc, Destroy, HookInv, KernelTypes
<1>3. CASE TcCreate(l)
  BY <1>1, <1>3 DEF TcCreate, HookInv, KernelTypes
<1>4. CASE TcAttach(l)
  BY <1>1, <1>4 DEF TcAttach, HookInv, KernelTypes, LoaderTypes, Sensible
<1>5. CASE UNCHANGED <<hook, filter>>
  BY <1>1, <1>5 DEF HookInv
<1> QED
  BY <1>2, <1>3, <1>4, <1>5 DEF RunStep, LoaderStep, PinProg, UnpinProg, XdpAttach, PinMap,
     UnlinkPin, Mask, DownXdp, Signal, CallFails, CallFailsUnseen, Die, kernelVars

\* A run that is alone keeps what it has done so far and fails only by itself.
Held(l) == Calls(l) /\ Pins(l) /\ Xdps(l) /\ Filters(l) /\ (pc[l] = "failed" => l \in faulty)

\* What is past after a round, and after the last one.
LEMMA PastNext ==
  ASSUME LoaderTypes, NEW l \in Loaders, l \in Alive
  PROVE  /\ at'[l] = at[l] => Past(l)' = Past(l)
         /\ at'[l] = at[l] + 1 => Past(l)' = Past(l) \cup {at[l]}
         /\ at'[l] = 1 => Past(l)' = {}
         /\ at[l] \notin Past(l)
<1>1. at[l] \in Nat /\ at[l] >= 1
  <2>1. at[l] \in DOMAIN maps \/ at[l] \in DOMAIN args[l]
    BY DEF LoaderTypes, Sensible, Alive
  <2>2. DOMAIN maps = 1..Len(maps) /\ Len(maps) \in Nat
    BY MapsType
  <2>3. DOMAIN args[l] = 1..Len(args[l]) /\ Len(args[l]) \in Nat
    BY ArgsType DEF LoaderTypes, Sensible, Alive
  <2> QED BY <2>1, <2>2, <2>3 DEF LoaderTypes
<1>2. at'[l] = at[l] => Past(l)' = Past(l)
  BY DEF Past
<1>3. at'[l] = 1 => Past(l)' = {}
  BY DEF Past
<1>4. \A n \in Nat : n >= 1 => 1..((n + 1) - 1) = 1..(n - 1) \cup {n}
  OBVIOUS
<1>5. at'[l] = at[l] + 1 => Past(l)' = Past(l) \cup {at[l]}
  BY <1>1, <1>4 DEF Past
<1>6. at[l] \notin Past(l)
  BY <1>1 DEF Past
<1> QED BY <1>2, <1>3, <1>5, <1>6

\* The rounds that are past are the ones of the loop.
LEMMA PastRounds ==
  ASSUME LoaderTypes, NEW l \in Loaders, l \in Alive
  PROVE  /\ pc[l] \in PinPcs =>
              /\ Past(l) \subseteq DOMAIN maps
              /\ at[l] \in DOMAIN maps
              /\ ~(at[l] < Len(maps)) => Past(l) \cup {at[l]} = DOMAIN maps
         /\ pc[l] \notin PinPcs =>
              /\ Past(l) \subseteq DOMAIN args[l]
              /\ at[l] \in DOMAIN args[l]
              /\ ~(at[l] < Len(args[l])) => Past(l) \cup {at[l]} = DOMAIN args[l]
<1>1. \A m, n \in Nat : n \in 1..m =>
        1..(n - 1) \subseteq 1..m /\ (~(n < m) => 1..(n - 1) \cup {n} = 1..m)
  OBVIOUS
<1>2. CASE pc[l] \in PinPcs
  <2>1. /\ at[l] \in Nat /\ at[l] \in DOMAIN maps /\ DOMAIN maps = 1..Len(maps)
        /\ Len(maps) \in Nat
    BY <1>2, MapsType DEF LoaderTypes, Sensible
  <2> QED BY <1>1, <1>2, <2>1 DEF Past
<1>3. CASE pc[l] \notin PinPcs
  <2>1. /\ at[l] \in Nat /\ at[l] \in DOMAIN args[l] /\ DOMAIN args[l] = 1..Len(args[l])
        /\ Len(args[l]) \in Nat
    BY <1>3, ArgsType DEF LoaderTypes, Sensible, Alive
  <2> QED BY <1>1, <1>3, <2>1 DEF Past
<1> QED BY <1>2, <1>3

\* The program is pinned before anything else is done.
LEMMA HeldProg ==
  ASSUME AllTypes, NEW l \in alone, Held(l), PinProg(l) \/ UnpinProg(l)
  PROVE  Held(l)'
<1>1. l \in Loaders /\ at[l] = 1
  BY DEF AllTypes, HistoryTypes, LoaderTypes, Sensible, PinProg, UnpinProg
<1>2. CASE PinProg(l) /\ progpin # None
  <2>1. pc'[l] = "unpin_prog" /\ progpin' # None
    BY <1>1, <1>2 DEF PinProg, Goto, AllTypes, LoaderTypes
  <2> QED BY <2>1 DEF Held, Calls, Pins, Xdps, Filters
<1>3. CASE PinProg(l) /\ progpin = None
  <2>1. pc'[l] = "xdp" /\ at'[l] = 1
    BY <1>1, <1>3 DEF PinProg, Goto, AllTypes, LoaderTypes
  <2> QED BY <2>1 DEF Held, Calls, Pins, Xdps, Filters, Past
<1>4. CASE UnpinProg(l)
  <2>1. progpin # None
    BY <1>4 DEF UnpinProg, Held, Calls
  <2>2. pc'[l] = "pin_prog"
    BY <1>1, <1>4, <2>1 DEF UnpinProg, Goto, AllTypes, LoaderTypes
  <2> QED BY <2>2 DEF Held, Calls, Pins, Xdps, Filters
<1> QED BY <1>2, <1>3, <1>4

\* bpf_xdp_attach replaces what it finds.
LEMMA HeldXdp ==
  ASSUME AllTypes, NEW l \in alone, Held(l), XdpAttach(l)
  PROVE  Held(l)'
<1>1. /\ l \in Loaders /\ l \in Alive /\ pc[l] = "xdp" /\ LoaderTypes
      /\ setup' = setup /\ maps' = maps /\ MapNames' = MapNames
  BY Fixed DEF AllTypes, HistoryTypes, XdpAttach, Alive
<1>2. /\ \A j \in DOMAIN args[l] : args[l][j] \in Ifaces
      /\ args[l] \in setup.args /\ Past(l) \subseteq DOMAIN args[l] /\ at[l] \in DOMAIN args[l]
  BY <1>1, ArgsType, PastRounds DEF LoaderTypes, Sensible, Alive
<1>3. \A j \in Past(l) \cup {at[l]} : xdp'[args[l][j]] = l
  BY <1>1, <1>2 DEF XdpAttach, Replace, Iface, Held, Xdps, AllTypes, KernelTypes
<1>4. CASE at[l] < Len(args[l])
  <2>1. pc'[l] = "xdp" /\ at'[l] = at[l] + 1 /\ args' = args
    BY <1>1, <1>4 DEF XdpAttach, Loop, LoaderTypes
  <2> QED BY <1>1, <1>3, <2>1, PastNext DEF Held, Calls, Pins, Xdps, Filters
<1>5. CASE ~(at[l] < Len(args[l]))
  <2>1. pc'[l] = "pin" /\ at'[l] = 1 /\ args'[l] = args[l]
    BY <1>1, <1>5 DEF XdpAttach, Loop, LoaderTypes
  <2>2. \A i \in Range(args[l]) : xdp'[i] = l
    <3>1. Past(l) \cup {at[l]} = DOMAIN args[l]
      BY <1>1, <1>5, PastRounds
    <3>2. \A j \in DOMAIN args[l] : xdp'[args[l][j]] = l
      BY <1>3, <3>1
    <3> QED BY <3>2 DEF Range
  <2> QED BY <1>1, <2>1, <2>2, PastNext DEF Held, Calls, Pins, Xdps, Filters
<1> QED BY <1>4, <1>5

\* pin_map gets its own map pinned.
LEMMA HeldPin ==
  ASSUME AllTypes, NEW l \in alone, Held(l), PinMap(l) \/ UnlinkPin(l)
  PROVE  Held(l)'
<1> DEFINE m == maps[at[l]]
<1>1. /\ l \in Loaders /\ l \in Alive /\ pc[l] \in PinPcs /\ LoaderTypes
      /\ setup' = setup /\ maps' = maps /\ MapNames' = MapNames /\ WithTc' = WithTc
      /\ xdp' = xdp
  BY Fixed DEF AllTypes, HistoryTypes, PinMap, UnlinkPin, Alive
<1>2. /\ \A j \in DOMAIN maps : maps[j] \in MapNames
      /\ Past(l) \subseteq DOMAIN maps /\ at[l] \in DOMAIN maps
      /\ \A j \in Past(l) : maps[j] # m
  BY <1>1, MapsType, PastRounds, PastNext
<1>3. CASE PinMap(l) /\ pin[m] = None
  <2>1. pin' = [pin EXCEPT ![m] = l] /\ Loop(l, Len(maps), "pin", AfterPins)
    BY <1>3 DEF PinMap
  <2>2. \A j \in Past(l) \cup {at[l]} : pin'[maps[j]] = l
    BY <1>1, <1>2, <2>1 DEF Held, Pins, AllTypes, KernelTypes
  <2>3. CASE at[l] < Len(maps)
    <3>1. pc'[l] = "pin" /\ at'[l] = at[l] + 1 /\ args' = args
      BY <1>1, <2>1, <2>3 DEF Loop, LoaderTypes
    <3> QED BY <1>1, <2>2, <3>1, PastNext DEF Held, Calls, Pins, Xdps, Filters
  <2>4. CASE ~(at[l] < Len(maps))
    <3>1. /\ pc'[l] = AfterPins /\ at'[l] = 1 /\ args'[l] = args[l]
      BY <1>1, <2>1, <2>4 DEF Loop, LoaderTypes, AfterPins
    <3>2. \A x \in MapNames : pin'[x] = l
      <4>1. Past(l) \cup {at[l]} = DOMAIN maps
        BY <1>1, <2>4, PastRounds
      <4>2. \A j \in DOMAIN maps : pin'[maps[j]] = l
        BY <2>2, <4>1
      <4> QED BY <4>2 DEF MapNames, Range
    <3> QED BY <1>1, <3>1, <3>2, PastNext DEF Held, Calls, Pins, Xdps, Filters, AfterPins
  <2> QED BY <2>3, <2>4
<1>4. CASE PinMap(l) /\ pin[m] # None
  <2>1. pc[l] = "pin"
    BY <1>1, <1>4 DEF Held, Calls, PinMap
  <2>2. pc'[l] = "unlink" /\ at'[l] = at[l] /\ args'[l] = args[l] /\ pin' = pin
    BY <1>1, <1>4, <2>1 DEF PinMap, Goto, LoaderTypes
  <2> QED BY <1>1, <1>4, <2>1, <2>2, PastNext DEF Held, Calls, Pins, Xdps, Filters
<1>5. CASE UnlinkPin(l)
  <2>1. pin[m] # None
    BY <1>5 DEF UnlinkPin, Held, Calls
  <2>2. pc[l] = "unlink" /\ pc'[l] = "repin" /\ at'[l] = at[l] /\ args'[l] = args[l]
        /\ pin' = [pin EXCEPT ![m] = None]
    BY <1>1, <1>5, <2>1 DEF UnlinkPin, Goto, LoaderTypes
  <2>3. pin'[m] = None /\ \A j \in Past(l) : pin'[maps[j]] = l
    BY <1>1, <1>2, <2>2 DEF Held, Pins, AllTypes, KernelTypes
  <2> QED BY <1>1, <2>2, <2>3, PastNext DEF Held, Calls, Pins, Xdps, Filters
<1> QED BY <1>3, <1>4, <1>5

\* A stale qdisc goes before the new one is made, and its filters with it.
LEMMA HeldTc ==
  ASSUME AllTypes, HookInv, NEW l \in alone, Held(l), TcDestroy(l) \/ TcCreate(l) \/ TcAttach(l)
  PROVE  Held(l)'
<1> DEFINE i == Iface(l)
<1>1. /\ l \in Loaders /\ l \in Alive /\ pc[l] \in TcPcs /\ LoaderTypes
      /\ setup' = setup /\ maps' = maps /\ MapNames' = MapNames /\ WithTc' = WithTc
      /\ xdp' = xdp /\ pin' = pin /\ faulty' = faulty
  BY Fixed DEF AllTypes, HistoryTypes, TcDestroy, TcCreate, TcAttach, Alive
<1>2. /\ \A j \in DOMAIN args[l] : args[l][j] \in Ifaces
      /\ args[l] \in setup.args /\ Past(l) \subseteq DOMAIN args[l] /\ at[l] \in DOMAIN args[l]
      /\ i = args[l][at[l]] /\ i \in Ifaces
  BY <1>1, ArgsType, PastRounds DEF LoaderTypes, Sensible, Alive, Iface
<1>3. /\ \A x \in MapNames : pin[x] = l
      /\ \A x \in Range(args[l]) : xdp[x] = l
  BY <1>1 DEF Held, Pins, Xdps
<1>4. CASE TcDestroy(l)
  <2>1. /\ pc[l] = "tc_destroy" /\ pc'[l] = "tc_create" /\ at'[l] = at[l] /\ args'[l] = args[l]
        /\ hook' = hook \ {i} /\ filter' = [filter EXCEPT ![i] = {}]
    BY <1>1, <1>4 DEF TcDestroy, Destroy, Goto, LoaderTypes
  <2>2. \A j \in Past(l) : args[l][j] = i \/ Sole(l, args[l][j])'
    BY <1>1, <1>2, <2>1 DEF Held, Filters, Sole, AllTypes, KernelTypes
  <2>3. Iface(l)' = i /\ Past(l)' = Past(l)
    BY <1>1, <2>1, PastNext DEF Iface
  <2> HIDE DEF i
  <2> QED BY <1>1, <1>3, <2>1, <2>2, <2>3 DEF Held, Calls, Pins, Xdps, Filters
<1>5. CASE TcCreate(l) /\ i \in hook
  <2>1. pc'[l] = "failed" /\ l \in faulty
    BY <1>1, <1>5 DEF TcCreate, Goto, LoaderTypes, Held, Calls
  <2> QED BY <1>1, <2>1 DEF Held, Calls, Pins, Xdps, Filters
<1>6. CASE TcCreate(l) /\ i \notin hook
  <2>1. /\ pc[l] = "tc_create" /\ pc'[l] = "tc_attach" /\ at'[l] = at[l] /\ args'[l] = args[l]
        /\ hook' = hook \cup {i} /\ filter' = filter
    BY <1>1, <1>6 DEF TcCreate, Goto, LoaderTypes
  <2>2. filter[i] = {}
    BY <1>2, <1>6 DEF HookInv
  <2>3. \A j \in Past(l) : args[l][j] = i \/ Sole(l, args[l][j])'
    BY <1>1, <1>2, <2>1 DEF Held, Filters, Sole
  <2>4. Iface(l)' = i /\ Past(l)' = Past(l)
    BY <1>1, <2>1, PastNext DEF Iface
  <2> HIDE DEF i
  <2> QED BY <1>1, <1>3, <2>1, <2>2, <2>3, <2>4 DEF Held, Calls, Pins, Xdps, Filters
<1>7. CASE TcAttach(l)
  <2>1. i \in hook /\ filter[i] = {} /\ pc[l] = "tc_attach"
    BY <1>7 DEF TcAttach, Held, Calls
  <2>2. /\ filter' = [filter EXCEPT ![i] = @ \cup {l}] /\ hook' = hook
        /\ Loop(l, Len(args[l]), "tc_destroy", "mask")
    BY <1>7, <2>1 DEF TcAttach
  <2>3. \A j \in Past(l) \cup {at[l]}, x \in Ifaces : x = args[l][j] => Sole(l, x)'
    <3>1. filter'[i] = {l} /\ \A x \in Ifaces : x # i => filter'[x] = filter[x]
      BY <1>2, <2>1, <2>2 DEF AllTypes, KernelTypes
    <3>2. \A j \in Past(l) : args[l][j] = i \/ Sole(l, args[l][j])
      BY <1>1 DEF Held, Filters
    <3> HIDE DEF i
    <3>3. \A x \in Ifaces : Sole(l, x) \/ x = i => Sole(l, x)'
      BY <2>1, <2>2, <3>1 DEF Sole
    <3> QED BY <1>2, <3>2, <3>3
  <2>4. CASE at[l] < Len(args[l])
    <3>1. pc'[l] = "tc_destroy" /\ at'[l] = at[l] + 1 /\ args'[l] = args[l]
      BY <1>1, <2>2, <2>4 DEF Loop, LoaderTypes
    <3>2. \A j \in Past(l)' : Sole(l, args[l][j])'
      BY <1>1, <1>2, <2>3, <3>1, PastNext
    <3> QED BY <1>1, <1>3, <3>1, <3>2 DEF Held, Calls, Pins, Xdps, Filters
  <2>5. CASE ~(at[l] < Len(args[l]))
    <3>1. pc'[l] = "mask" /\ at'[l] = 1 /\ args'[l] = args[l]
      BY <1>1, <2>2, <2>5 DEF Loop, LoaderTypes
    <3>2. Past(l) \cup {at[l]} = DOMAIN args[l] /\ Range(args[l]) \subseteq Ifaces
      BY <1>1, <1>2, <2>5, PastRounds, ArgsType
    <3>3. \A x \in Range(args[l]) : Sole(l, x)'
      BY <2>3, <3>2 DEF Range
    <3> QED BY <1>1, <1>3, <3>1, <3>3 DEF Held, Calls, Pins, Xdps, Filters
  <2> QED BY <2>4, <2>5
<1> QED BY <1>4, <1>5, <1>6, <1>7

\* The other steps of a run that is alone.
LEMMA HeldRest ==
  ASSUME AllTypes, NEW l \in alone, Held(l),
         Mask(l) \/ Signal(l) \/ DownTc(l) \/ DownXdp(l)
           \/ CallFails(l) \/ CallFailsUnseen(l) \/ Die(l)
  PROVE  Held(l)'
<1>1. l \in Loaders /\ LoaderTypes
  BY DEF AllTypes, HistoryTypes
<1>2. ASSUME pc'[l] \in DownPcs \cup {"stopped", "killed", "failed"},
             pc'[l] = "failed" => l \in faulty'
      PROVE  Held(l)'
  BY <1>2 DEF Held, Calls, Pins, Xdps, Filters
<1>3. CASE Mask(l)
  <2>1. /\ pc[l] = "mask" /\ pc'[l] = "wait" /\ args'[l] = args[l]
        /\ UNCHANGED <<setup, pin, xdp, hook, filter>>
    BY <1>1, <1>3 DEF Mask, Goto, LoaderTypes, kernelVars
  <2>2. MapNames' = MapNames /\ WithTc' = WithTc
    BY <2>1, Fixed
  <2> QED BY <2>1, <2>2 DEF Held, Calls, Pins, Xdps, Filters, Sole
<1>4. CASE Signal(l) \/ DownTc(l)
  BY <1>1, <1>2, <1>4 DEF Signal, DownTc, Goto, TearDown, LoaderTypes
<1>5. CASE DownXdp(l)
  BY <1>1, <1>2, <1>5 DEF DownXdp, Loop, TearDown, LoaderTypes
<1>6. CASE CallFails(l) \/ Die(l)
  BY <1>1, <1>2, <1>6 DEF CallFails, Die, Goto, LoaderTypes
<1>7. CASE CallFailsUnseen(l) /\ pc[l] # "tc_destroy"
  BY <1>1, <1>2, <1>7 DEF CallFailsUnseen, Goto, Loop, TearDown, LoaderTypes
<1>8. CASE CallFailsUnseen(l) /\ pc[l] = "tc_destroy"
  <2>1. /\ pc'[l] = "tc_create" /\ at'[l] = at[l] /\ args'[l] = args[l] /\ l \in faulty'
        /\ UNCHANGED <<setup, pin, xdp, hook, filter>>
    BY <1>1, <1>8 DEF CallFailsUnseen, Goto, LoaderTypes, kernelVars
  <2>2. MapNames' = MapNames /\ Past(l)' = Past(l)
    BY <2>1, Fixed DEF Past
  <2> QED BY <1>8, <2>1, <2>2 DEF Held, Calls, Pins, Xdps, Filters, Sole
<1> QED BY <1>3, <1>4, <1>5, <1>6, <1>7, <1>8

\* LoneInv and RestartSucceeds, one run at a time.
LEMMA HeldAll == LoneInv /\ RestartSucceeds <=> \A l \in alone : Held(l)
BY DEF LoneInv, RestartSucceeds, Held

\* A run that is alone holds on to what it has done, whoever moves.
LEMMA LoneRun ==
  ASSUME AllTypes, AloneInv, HookInv, \A k \in alone : Held(k), NEW l \in Loaders, RunStep(l)
  PROVE  AloneInv' /\ HookInv' /\ \A k \in alone' : Held(k)'
<1>1. LoaderTypes /\ KernelTypes /\ HistoryTypes
  BY DEF AllTypes
<1>2. UNCHANGED <<setup, alone>> /\ faulty \subseteq faulty' /\ alone \subseteq Loaders
  BY <1>1, RunRest DEF HistoryTypes
<1>3. AloneInv'
  BY <1>1, <1>2, RunAlive DEF AloneInv, Alive
<1>4. ASSUME NEW k \in alone, k # l PROVE Held(k)'
  <2>1. pc'[k] = pc[k] /\ at'[k] = at[k] /\ args'[k] = args[k] /\ pc[k] # "new"
    BY <1>1, <1>2, <1>4, RunAlive DEF AloneInv
  <2>2. CASE k \notin Alive
    <3>1. pc[k] \in Ended
      BY <1>2, <2>1, <2>2 DEF Alive
    <3> QED BY <1>2, <2>1, <3>1 DEF Held, Calls, Pins, Xdps, Filters
  <2>3. CASE k \in Alive
    <3>1. UNCHANGED <<pin, progpin, xdp, hook, filter>>
      BY <1>1, <1>4, <2>3, LoneUndisturbed DEF kernelVars
    <3>2. MapNames' = MapNames /\ maps' = maps /\ WithTc' = WithTc
      BY <1>2, Fixed
    <3> QED
      BY <1>2, <2>1, <3>1, <3>2 DEF Held, Calls, Pins, Xdps, Filters, Sole, Past, Iface
  <2> QED BY <2>2, <2>3
<1>5. l \in alone => Held(l)'
  BY HeldProg, HeldXdp, HeldPin, HeldTc, HeldRest DEF RunStep, LoaderStep
<1> QED BY <1>1, <1>2, <1>3, <1>4, <1>5, HookRun

\* A run that is started while another is alive ends the solitude of both.
LEMMA LoneLoad ==
  ASSUME AllTypes, AloneInv, HookInv, \A k \in alone : Held(k),
         NEW l \in Loaders, NEW s \in setup.args, Load(l, s)
  PROVE  AloneInv' /\ HookInv' /\ \A k \in alone' : Held(k)'
<1>1. /\ Moves(l, AfterLoad, 1, s) /\ pc[l] = "new"
      /\ alone' = (alone \ Alive) \cup (IF Alive = {} THEN {l} ELSE {})
      /\ UNCHANGED <<setup, faulty, hook, filter>>
  BY LoadTyped DEF Load, kernelVars
<1>2. /\ pc'[l] = AfterLoad /\ at'[l] = 1
      /\ \A k \in Loaders : k # l => pc'[k] = pc[k]
      /\ l \notin alone /\ alone \subseteq Loaders
  BY <1>1 DEF Moves, AllTypes, LoaderTypes, AloneInv, HistoryTypes
<1>3. Alive' = Alive \cup {l} /\ l \notin Alive
  BY <1>1, <1>2 DEF Alive, AfterLoad
<1>4. AloneInv'
  <2> SUFFICES ASSUME NEW k \in alone' PROVE pc'[k] # "new" /\ (k \in Alive' => Alive' = {k})
    BY DEF AloneInv
  <2>1. CASE k = l
    BY <1>1, <1>2, <1>3, <2>1 DEF AfterLoad
  <2>2. CASE k # l
    BY <1>1, <1>2, <1>3, <2>2 DEF AloneInv
  <2> QED BY <2>1, <2>2
<1>5. HookInv'
  BY <1>1, Fixed DEF HookInv
<1>6. ASSUME NEW k \in alone' PROVE Held(k)'
  <2>1. CASE k = l
    BY <1>2, <2>1 DEF Held, Calls, Pins, Xdps, Filters, Past, AfterLoad
  <2>2. CASE k # l
    <3>1. pc'[k] = pc[k] /\ pc[k] \in Ended /\ Held(k)
      BY <1>1, <1>2, <2>2 DEF AloneInv, Alive
    <3> QED BY <1>1, <3>1 DEF Held, Calls, Pins, Xdps, Filters
  <2> QED BY <2>1, <2>2
<1> QED BY <1>4, <1>5, <1>6

\* OrphanInv and NoOrphans of one run.
Tidy(l) ==
  /\ pc[l] = "new" => \A i \in Ifaces : Free(l, i)
  /\ l \in Alive => \A i \in Ifaces \ Range(args[l]) : Free(l, i)
  /\ l \notin faulty /\ pc[l] \in DownPcs => \A j \in Past(l) : Free(l, args[l][j])
  /\ l \notin faulty /\ pc[l] = "down_xdp" => l \notin filter[Iface(l)]
  /\ l \notin faulty /\ pc[l] = "stopped" => \A i \in Ifaces : Free(l, i)

\* The same for all runs.
LEMMA TidyAll == OrphanInv /\ NoOrphans <=> \A l \in Loaders : Tidy(l)
BY DEF OrphanInv, NoOrphans, Tidy, Free

\* A run attaches its own programs only.
LEMMA FreeOthers ==
  ASSUME AllTypes, NEW l \in Loaders, RunStep(l)
  PROVE  \A i \in Ifaces : /\ xdp'[i] \in {xdp[i], l, None}
                           /\ filter'[i] \subseteq filter[i] \cup {l}
<1>1. xdp \in [Ifaces -> Loaders \cup {None}] /\ filter \in [Ifaces -> SUBSET Loaders]
  BY DEF AllTypes, KernelTypes
<1>2. CASE XdpAttach(l) \/ DownXdp(l)
  BY <1>1, <1>2 DEF XdpAttach, DownXdp, Replace
<1>3. CASE TcDestroy(l) \/ DownTc(l)
  BY <1>1, <1>3 DEF TcDestroy, DownTc, Destroy
<1>4. CASE TcAttach(l)
  BY <1>1, <1>4 DEF TcAttach
<1>5. CASE UNCHANGED <<xdp, filter>>
  BY <1>5
<1> QED
  BY <1>2, <1>3, <1>4, <1>5 DEF RunStep, LoaderStep, PinProg, UnpinProg, PinMap, UnlinkPin,
     TcCreate, Mask, Signal, CallFails, CallFailsUnseen, Die, kernelVars

\* And only on its own interfaces.
LEMMA FreeOwn ==
  ASSUME AllTypes, NEW l \in Loaders, l \in Alive, RunStep(l)
  PROVE  \A i \in Ifaces \ Range(args[l]) : Free(l, i) => Free(l, i)'
<1>1. /\ xdp \in [Ifaces -> Loaders \cup {None}] /\ filter \in [Ifaces -> SUBSET Loaders]
      /\ None \notin Loaders
  BY NoneAssumption DEF AllTypes, KernelTypes
<1>2. pc[l] \notin PinPcs => Iface(l) \in Range(args[l])
  BY DEF AllTypes, LoaderTypes, Sensible, Alive, Iface, Range
<1>3. CASE XdpAttach(l)
  BY <1>1, <1>2, <1>3 DEF XdpAttach, Replace, Free
<1>4. CASE TcAttach(l)
  BY <1>1, <1>2, <1>4 DEF TcAttach, Free
<1>5. CASE DownXdp(l)
  BY <1>1, <1>5 DEF DownXdp, Free
<1>6. CASE TcDestroy(l) \/ DownTc(l)
  BY <1>1, <1>6 DEF TcDestroy, DownTc, Destroy, Free
<1>7. CASE UNCHANGED <<xdp, filter>>
  BY <1>7 DEF Free
<1> QED
  BY <1>3, <1>4, <1>5, <1>6, <1>7 DEF RunStep, LoaderStep, PinProg, UnpinProg, PinMap, UnlinkPin,
     TcCreate, Mask, Signal, CallFails, CallFailsUnseen, Die, kernelVars

\* The tear-down of a run.
LEMMA TidyDown ==
  ASSUME AllTypes, HookInv, NEW l \in Loaders, Tidy(l), l \notin faulty,
         Signal(l) \/ DownTc(l) \/ DownXdp(l)
  PROVE  Tidy(l)'
<1> DEFINE i == Iface(l)
<1>1. /\ l \in Alive /\ LoaderTypes /\ setup' = setup /\ None \notin Loaders
      /\ pc[l] \notin PinPcs /\ pc[l] # "xdp"
      /\ xdp \in [Ifaces -> Loaders \cup {None}] /\ filter \in [Ifaces -> SUBSET Loaders]
  BY NoneAssumption DEF AllTypes, KernelTypes, Alive, Signal, DownTc, DownXdp
<1>2. /\ \A j \in DOMAIN args[l] : args[l][j] \in Ifaces
      /\ args[l] \in setup.args /\ Past(l) \subseteq DOMAIN args[l] /\ at[l] \in DOMAIN args[l]
      /\ i = args[l][at[l]] /\ i \in Ifaces
  BY <1>1, ArgsType, PastRounds DEF LoaderTypes, Sensible, Alive, Iface
<1>3. \A x \in Ifaces : Free(l, x) => Free(l, x)'
  BY <1>1 DEF Free, Signal, DownTc, DownXdp, Destroy, kernelVars
<1>4. CASE Signal(l)
  <2>1. /\ pc'[l] = TearDown /\ at'[l] = 1 /\ args'[l] = args[l]
        /\ UNCHANGED <<xdp, filter>>
    BY <1>1, <1>4 DEF Signal, Goto, TearDown, LoaderTypes, Sensible, kernelVars
  <2>2. Past(l)' = {} /\ Iface(l)' \in Ifaces
    BY <1>1, <1>2, <2>1, PastNext, ArgsType, Rounds DEF Iface
  <2>3. ~WithTc => \A x \in Ifaces : filter[x] = {}
    BY DEF HookInv
  <2> QED BY <1>1, <1>3, <2>1, <2>2, <2>3 DEF Tidy, TearDown, Alive
<1>5. CASE DownTc(l)
  <2>1. /\ pc[l] = "down_tc" /\ pc'[l] = "down_xdp" /\ at'[l] = at[l] /\ args'[l] = args[l]
        /\ filter'[i] = {}
    BY <1>1, <1>2, <1>5 DEF DownTc, Goto, Destroy, LoaderTypes
  <2>2. Past(l)' = Past(l) /\ Iface(l)' = i
    BY <1>1, <2>1, PastNext DEF Iface
  <2> HIDE DEF i
  <2>3. \A j \in Past(l) : Free(l, args[l][j])
    BY <2>1 DEF Tidy
  <2>4. \A j \in Past(l)' : Free(l, args[l][j])'
    BY <1>2, <1>3, <2>1, <2>2, <2>3
  <2> QED BY <1>1, <1>3, <2>1, <2>2, <2>4 DEF Tidy, Alive
<1>6. CASE DownXdp(l)
  <2>1. /\ pc[l] = "down_xdp" /\ xdp' = [xdp EXCEPT ![i] = None] /\ filter' = filter
        /\ Loop(l, Len(args[l]), TearDown, "stopped")
    BY <1>6 DEF DownXdp
  <2>2. \A j \in Past(l) \cup {at[l]}, x \in Ifaces : x = args[l][j] => Free(l, x)'
    <3>1. l \notin filter[i] /\ xdp'[i] # l
      BY <1>1, <1>2, <2>1 DEF Tidy
    <3>2. \A j \in Past(l) : Free(l, args[l][j])
      BY <2>1 DEF Tidy
    <3>3. \A x \in Ifaces : x = i => Free(l, x)'
      BY <2>1, <3>1 DEF Free
    <3> QED BY <1>2, <1>3, <3>2, <3>3
  <2>3. CASE at[l] < Len(args[l])
    <3>1. pc'[l] = TearDown /\ at'[l] = at[l] + 1 /\ args'[l] = args[l]
      BY <1>1, <2>1, <2>3 DEF Loop, TearDown, LoaderTypes
    <3>2. \A j \in Past(l)' : Free(l, args[l][j])'
      BY <1>1, <1>2, <2>2, <3>1, PastNext
    <3>3. Iface(l)' \in Ifaces
      BY <1>1, <1>2, <2>3, <3>1, ArgsType, Rounds DEF Iface, LoaderTypes
    <3>4. ~WithTc => \A x \in Ifaces : filter[x] = {}
      BY DEF HookInv
    <3> QED BY <1>1, <1>3, <2>1, <3>1, <3>2, <3>3, <3>4 DEF Tidy, TearDown, Alive
  <2>4. CASE ~(at[l] < Len(args[l]))
    <3>1. pc'[l] = "stopped"
      BY <1>1, <2>1, <2>4 DEF Loop, LoaderTypes
    <3>2. Past(l) \cup {at[l]} = DOMAIN args[l]
      BY <1>1, <2>4, PastRounds
    <3>3. \A x \in Range(args[l]) \cap Ifaces : Free(l, x)'
      BY <2>2, <3>2 DEF Range
    <3>4. \A x \in Ifaces : Free(l, x)'
      BY <1>1, <1>3, <3>3 DEF Tidy
    <3> QED BY <3>1, <3>4 DEF Tidy, Alive
  <2> QED BY <2>3, <2>4
<1> QED BY <1>4, <1>5, <1>6

\* Any step of a run.
LEMMA TidyRun ==
  ASSUME AllTypes, HookInv, NEW l \in Loaders, RunStep(l), \A k \in Loaders : Tidy(k)
  PROVE  \A k \in Loaders : Tidy(k)'
<1>1. LoaderTypes /\ HistoryTypes /\ None \notin Loaders
  BY NoneAssumption DEF AllTypes
<1>2. setup' = setup /\ faulty \subseteq faulty'
  BY <1>1, RunRest
<1>3. ASSUME NEW k \in Loaders, k # l PROVE Tidy(k)'
  <2>1. /\ pc'[k] = pc[k] /\ at'[k] = at[k] /\ args'[k] = args[k] /\ (k \in Alive' <=> k \in Alive)
    BY <1>1, <1>3, RunAlive DEF Alive
  <2>2. \A i \in Ifaces : Free(k, i) => Free(k, i)'
    BY <1>1, <1>3, FreeOthers DEF Free
  <2>3. Past(k)' = Past(k) /\ Iface(k)' = Iface(k)
    BY <2>1 DEF Past, Iface
  <2>4. pc[k] \in DownPcs => /\ Iface(k) \in Ifaces
                             /\ \A j \in Past(k) : args[k][j] \in Ifaces
    BY <1>1, ArgsType, PastRounds DEF LoaderTypes, Sensible, Alive, Iface
  <2>5. pc[k] = "down_xdp" /\ k \notin filter[Iface(k)] => k \notin filter'[Iface(k)]
    BY <1>3, <2>4, FreeOthers
  <2> QED BY <1>2, <1>3, <2>1, <2>2, <2>3, <2>4, <2>5 DEF Tidy
<1>4. Tidy(l)'
  <2>1. pc'[l] # "new"
    BY <1>1, RunAlive
  <2>2. ASSUME l \in Alive'
        PROVE  /\ args'[l] = args[l]
               /\ \A i \in Ifaces \ Range(args[l]) : Free(l, i)'
    <3>1. l \in Alive /\ args'[l] = args[l]
      <4>1. l \in Alive /\ pc'[l] \notin Ended
        BY <1>1, <2>2, RunAlive DEF Alive
      <4> QED
        BY <1>1, <4>1 DEF RunStep, LoaderStep, PinProg, UnpinProg, XdpAttach, PinMap, UnlinkPin,
           TcDestroy, TcCreate, TcAttach, Mask, DownTc, DownXdp, Signal, CallFails, CallFailsUnseen,
           Die, Goto, Loop, AfterPins, TearDown, LoaderTypes
    <3> QED BY <3>1, FreeOwn DEF Tidy
  <2>3. CASE pc'[l] \in {"failed", "killed"} \/ l \in faulty' \/ pc'[l] \notin DownPcs \cup {"stopped"}
    BY <2>1, <2>2, <2>3 DEF Tidy, Alive
  <2>4. CASE pc'[l] \in DownPcs \cup {"stopped"} /\ l \notin faulty'
    <3>1. Signal(l) \/ DownTc(l) \/ DownXdp(l)
      BY <1>1, <2>4 DEF RunStep, LoaderStep, PinProg, UnpinProg, XdpAttach, PinMap, UnlinkPin,
         TcDestroy, TcCreate, TcAttach, Mask, CallFails, CallFailsUnseen, Die, Goto, Loop, AfterPins,
         LoaderTypes
    <3> QED BY <1>2, <2>4, <3>1, TidyDown
  <2> QED BY <2>3, <2>4
<1> QED BY <1>3, <1>4

\* A run that starts has attached nothing.
LEMMA TidyLoad ==
  ASSUME AllTypes, NEW l \in Loaders, NEW s \in setup.args, Load(l, s), \A k \in Loaders : Tidy(k)
  PROVE  \A k \in Loaders : Tidy(k)'
<1>1. /\ Moves(l, AfterLoad, 1, s) /\ pc[l] = "new" /\ UNCHANGED <<xdp, filter, faulty>>
  BY LoadTyped DEF Load, kernelVars
<1>2. /\ pc'[l] = AfterLoad
      /\ \A k \in Loaders : k # l => pc'[k] = pc[k] /\ at'[k] = at[k] /\ args'[k] = args[k]
  BY <1>1 DEF Moves, AllTypes, LoaderTypes
<1>3. \A k, i : Free(k, i) => Free(k, i)'
  BY <1>1 DEF Free
<1>4. Tidy(l)'
  BY <1>1, <1>2, <1>3 DEF Tidy, AfterLoad
<1>5. ASSUME NEW k \in Loaders, k # l PROVE Tidy(k)'
  BY <1>1, <1>2, <1>5 DEF Tidy, Free, Past, Iface, Alive
<1> QED BY <1>4, <1>5

\* Counting runs.
LEMMA PastPinFinite ==
  ASSUME NEW S \in SUBSET Loaders
  PROVE  /\ IsFiniteSet(S) /\ Cardinality(S) \in Nat
         /\ \A T \in SUBSET S : Cardinality(T) <= Cardinality(S)
         /\ \A x \in S : Cardinality(S \ {x}) = Cardinality(S) - 1
         /\ \A x \in Loaders \ S : Cardinality(S) < Cardinality(Loaders)
<1>1. IsFiniteSet(S)
  BY LoadersAssumption, FS_Subset
<1>2. Cardinality(S) \in Nat /\ Cardinality(Loaders) \in Nat
  BY <1>1, LoadersAssumption, FS_CardinalityType
<1>3. \A T \in SUBSET S : Cardinality(T) <= Cardinality(S)
  BY <1>1, FS_Subset
<1>4. \A x \in S : Cardinality(S \ {x}) = Cardinality(S) - 1
  BY <1>1, FS_RemoveElement
<1>5. ASSUME NEW x \in Loaders \ S PROVE Cardinality(S) < Cardinality(Loaders)
  <2>1. Cardinality(S) <= Cardinality(Loaders) /\ (Cardinality(Loaders) = Cardinality(S) => Loaders = S)
    BY LoadersAssumption, FS_Subset
  <2> QED BY <1>2, <2>1
<1> QED BY <1>1, <1>2, <1>3, <1>4, <1>5

\* A run leaves the retry loop once.
LEMMA PastPinGrows ==
  ASSUME LoaderTypes, NEW l \in Loaders, RunStep(l)
  PROVE  /\ PastPin \subseteq PastPin'
         /\ \A k \in Loaders : pc'[k] \in NotPinned => pc[k] \in NotPinned
<1>1. pc[l] \notin NotPinned => pc'[l] \notin NotPinned
  BY DEF RunStep, LoaderStep, PinProg, UnpinProg, XdpAttach, PinMap, UnlinkPin, TcDestroy, TcCreate,
     TcAttach, Mask, DownTc, DownXdp, Signal, CallFails, CallFailsUnseen, Die, Goto, Loop, AfterPins,
     TearDown, LoaderTypes
<1>2. \A k \in Loaders : k # l => pc'[k] = pc[k]
  BY RunAlive
<1> QED BY <1>1, <1>2 DEF PastPin

\* A pin that is removed is the pin of a run that has left the loop, and such a
\* run sets it no more.
LEMMA RetryRun ==
  ASSUME AllTypes, RetryInv, RetryEnds, NEW l \in Loaders, RunStep(l)
  PROVE  RetryInv' /\ RetryEnds'
<1> DEFINE S == PastPin
           T == PastPin'
<1>1. /\ LoaderTypes /\ HistoryTypes /\ None \notin Loaders /\ S \subseteq T
      /\ S \subseteq Loaders /\ T \subseteq Loaders
      /\ \A k \in Loaders : pc'[k] \in NotPinned => pc[k] \in NotPinned
      /\ progpin \in S \cup {None}
  BY NoneAssumption, PastPinGrows DEF AllTypes, PastPin, RetryInv
<1>2. \A k \in Loaders : k # l => pc'[k] = pc[k]
  BY <1>1, RunAlive
<1>3. \A k \in Loaders : tries[k] \in Nat
  BY <1>1 DEF HistoryTypes
<1>4. /\ Cardinality(S) \in Nat /\ Cardinality(T) \in Nat /\ Cardinality(S) <= Cardinality(T)
      /\ Cardinality(S \ {progpin}) \in Nat /\ Cardinality(T \ {progpin}) \in Nat
      /\ Cardinality(S \ {progpin}) <= Cardinality(T \ {progpin})
      /\ Cardinality(S \ {progpin}) <= Cardinality(S)
      /\ Cardinality(Loaders) \in Nat
  <2>1. S \ {progpin} \in SUBSET Loaders /\ T \ {progpin} \in SUBSET Loaders
        /\ S \ {progpin} \in SUBSET (T \ {progpin}) /\ S \ {progpin} \in SUBSET S
        /\ S \in SUBSET T /\ Loaders \in SUBSET Loaders
    BY <1>1
  <2> HIDE DEF S, T
  <2> QED BY <1>1, <2>1, PastPinFinite
<1>5. CASE progpin' = progpin /\ tries' = tries /\ pc'[l] # "unpin_prog"
  BY <1>1, <1>2, <1>3, <1>4, <1>5 DEF RetryInv, RetryEnds
<1>6. CASE PinProg(l) /\ progpin # None
  <2>1. pc[l] = "pin_prog" /\ pc'[l] = "unpin_prog" /\ progpin' = progpin /\ tries' = tries
    BY <1>1, <1>6 DEF PinProg, Goto, LoaderTypes
  <2>2. tries[l] + 1 <= Cardinality(T)
    <3>1. progpin \in S /\ tries[l] <= Cardinality(S \ {progpin})
      BY <1>1, <1>6, <2>1 DEF RetryInv
    <3>2. Cardinality(S \ {progpin}) = Cardinality(S) - 1
      BY <1>1, <3>1, PastPinFinite
    <3> HIDE DEF S, T
    <3> QED BY <1>3, <1>4, <3>1, <3>2
  <2> QED BY <1>1, <1>2, <1>3, <1>4, <2>1, <2>2 DEF RetryInv, RetryEnds
<1>7. CASE PinProg(l) /\ progpin = None
  <2>1. pc[l] = "pin_prog" /\ pc'[l] = "xdp" /\ progpin' = l /\ tries' = tries
    BY <1>1, <1>7 DEF PinProg, Goto, LoaderTypes
  <2>2. l \in T /\ l \notin S /\ S \in SUBSET (T \ {l}) /\ T \ {l} \in SUBSET Loaders /\ S \ {None} = S
    BY <1>1, <2>1 DEF PastPin
  <2>3. Cardinality(S) <= Cardinality(T \ {l}) /\ Cardinality(T \ {l}) \in Nat
    BY <2>2, PastPinFinite
  <2>4. \A k \in Loaders : pc[k] \in NotPinned => tries[k] <= Cardinality(S)
    BY <1>7, <2>2 DEF RetryInv
  <2> QED BY <1>1, <1>2, <1>3, <1>4, <2>1, <2>2, <2>3, <2>4 DEF RetryInv, RetryEnds
<1>8. CASE UnpinProg(l)
  <2>1. /\ pc[l] = "unpin_prog" /\ progpin' = None /\ tries' = [tries EXCEPT ![l] = @ + 1]
        /\ pc'[l] = IF progpin = None THEN "failed" ELSE "pin_prog"
    BY <1>1, <1>8 DEF UnpinProg, AfterUnpin, Goto, LoaderTypes
  <2>2. /\ tries'[l] = tries[l] + 1 /\ tries[l] + 1 <= Cardinality(S)
        /\ \A k \in Loaders : k # l => tries'[k] = tries[k]
    BY <1>1, <2>1 DEF HistoryTypes, RetryInv
  <2>3. Cardinality(S) < Cardinality(Loaders)
    <3>1. l \in Loaders \ S
      BY <2>1 DEF PastPin
    <3> QED BY <1>1, <3>1, PastPinFinite
  <2>4. T \ {None} = T
    BY <1>1
  <2>5. RetryEnds'
    BY <1>3, <1>4, <2>2, <2>3 DEF RetryEnds
  <2>6. \A k \in Loaders : pc'[k] \in NotPinned => tries'[k] <= Cardinality(T)
    BY <1>1, <1>2, <1>3, <1>4, <2>2 DEF RetryInv
  <2>7. \A k \in Loaders : pc'[k] = "unpin_prog" => tries'[k] + 1 <= Cardinality(T)
    BY <1>2, <1>3, <1>4, <2>1, <2>2 DEF RetryInv
  <2> QED BY <2>1, <2>4, <2>5, <2>6, <2>7 DEF RetryInv
<1>9. ~PinProg(l) /\ ~UnpinProg(l) => progpin' = progpin /\ tries' = tries /\ pc'[l] # "unpin_prog"
  BY <1>1 DEF RunStep, LoaderStep, XdpAttach, PinMap, UnlinkPin, TcDestroy, TcCreate,
     TcAttach, Mask, DownTc, DownXdp, Signal, CallFails, CallFailsUnseen, Die, Goto, Loop, AfterPins,
     TearDown, LoaderTypes, kernelVars
<1> QED BY <1>5, <1>6, <1>7, <1>8, <1>9

\* A run that starts has not tried yet.
LEMMA RetryLoad ==
  ASSUME AllTypes, RetryInv, RetryEnds, NEW l \in Loaders, NEW s \in setup.args, Load(l, s)
  PROVE  RetryInv' /\ RetryEnds'
<1>1. /\ Moves(l, AfterLoad, 1, s) /\ pc[l] = "new" /\ UNCHANGED <<progpin, tries>>
  BY LoadTyped DEF Load, kernelVars
<1>2. pc'[l] = AfterLoad /\ \A k \in Loaders : k # l => pc'[k] = pc[k]
  BY <1>1 DEF Moves, AllTypes, LoaderTypes
<1>3. /\ PastPin \in SUBSET PastPin' /\ PastPin' \in SUBSET Loaders
      /\ PastPin \ {progpin} \in SUBSET (PastPin' \ {progpin})
      /\ PastPin' \ {progpin} \in SUBSET Loaders
  BY <1>1, <1>2 DEF PastPin
<1>4. /\ Cardinality(PastPin) <= Cardinality(PastPin')
      /\ Cardinality(PastPin \ {progpin}) <= Cardinality(PastPin' \ {progpin})
      /\ Cardinality(PastPin) \in Nat /\ Cardinality(PastPin') \in Nat
      /\ Cardinality(PastPin \ {progpin}) \in Nat /\ Cardinality(PastPin' \ {progpin}) \in Nat
  BY <1>3, PastPinFinite
<1>5. \A k \in Loaders : tries[k] \in Nat
  BY DEF AllTypes, HistoryTypes
<1>6. \A k \in Loaders : /\ pc'[k] \in NotPinned => pc[k] \in NotPinned
                         /\ pc'[k] = "unpin_prog" => pc[k] = "unpin_prog"
  BY <1>1, <1>2 DEF AfterLoad
<1> QED BY <1>1, <1>3, <1>4, <1>5, <1>6 DEF RetryInv, RetryEnds

\* DaemonInv of one daemon.
Opening(d) ==
  /\ dpc[d] # "open" => dat[d] = 1
  /\ dpc[d] = "open" /\ base[d] # None =>
       /\ Alive \subseteq {base[d]}
       /\ pc[base[d]] \in {"wait"} \cup DownPcs \cup Ended
       /\ \A m \in MapNames : pin[m] = base[d]
       /\ \A k \in 1..(dat[d] - 1) : fd[d][opens[k]] = base[d]
  /\ dpc[d] \in {"bind", "serve"} /\ base[d] # None =>
       \A m \in Range(opens) : fd[d][m] = base[d]

LEMMA OpeningAll == DaemonInv <=> \A d \in Daemons : Opening(d)
BY DEF DaemonInv, Opening

\* A run that is up, or past it, leaves the pins alone, and so does one that is
\* never loaded.
LEMMA OpeningRun ==
  ASSUME AllTypes, NEW l \in Loaders, RunStep(l), NEW d \in Daemons, Opening(d)
  PROVE  Opening(d)'
<1>1. LoaderTypes /\ HistoryTypes /\ base[d] \in Loaders \cup {None}
  BY DEF AllTypes, DaemonTypes
<1>2. UNCHANGED <<setup, dpc, dat, fd, base>>
  BY <1>1, RunRest DEF daemonVars
<1>3. opens' = opens /\ MapNames' = MapNames
  BY <1>2, Fixed
<1>4. CASE dpc[d] = "open" /\ base[d] # None
  <2>1. base[d] \in Loaders /\ Alive' \subseteq Alive
    BY <1>1, <1>4, RunAlive
  <2>2. CASE l # base[d]
    <3>1. CallFails(l) /\ pc'[base[d]] = pc[base[d]]
      BY <1>1, <1>4, <2>1, <2>2, RunAlive DEF Opening
    <3> QED BY <1>2, <1>3, <1>4, <2>1, <3>1 DEF Opening, CallFails, kernelVars
  <2>3. CASE l = base[d]
    <3>1. pc[l] \in {"wait"} \cup DownPcs \cup Ended
      BY <1>4, <2>3 DEF Opening
    <3>2. /\ Signal(l) \/ DownTc(l) \/ DownXdp(l) \/ CallFails(l) \/ CallFailsUnseen(l) \/ Die(l)
          /\ pc[l] # "tc_destroy"
      BY <3>1 DEF RunStep, LoaderStep, PinProg, UnpinProg, XdpAttach, PinMap, UnlinkPin, TcDestroy,
         TcCreate, TcAttach, Mask
    <3>3. pin' = pin
      BY <3>2 DEF DownTc, DownXdp, Signal, CallFails, CallFailsUnseen, Die, kernelVars
    <3>4. pc'[l] \in {"wait"} \cup DownPcs \cup Ended
      BY <1>1, <3>2 DEF DownTc, DownXdp, Signal, CallFails, CallFailsUnseen, Die, Goto, Loop,
         TearDown, LoaderTypes
    <3> QED BY <1>2, <1>3, <1>4, <2>1, <2>3, <3>3, <3>4 DEF Opening
  <2> QED BY <2>2, <2>3
<1>5. CASE ~(dpc[d] = "open" /\ base[d] # None)
  BY <1>2, <1>3, <1>5 DEF Opening
<1> QED BY <1>4, <1>5

\* Once another run is started, a daemon that is still opening maps may get either's.
LEMMA OpeningLoad ==
  ASSUME AllTypes, NEW l \in Loaders, NEW s \in setup.args, Load(l, s), NEW d \in Daemons, Opening(d)
  PROVE  Opening(d)'
<1>1. opens' = opens
  BY Fixed DEF Load
<1>2. dpc'[d] = dpc[d] /\ dat'[d] = dat[d] /\ fd'[d] = fd[d]
      /\ base'[d] = IF dpc[d] = "open" THEN None ELSE base[d]
  BY DEF Load
<1> QED BY <1>1, <1>2 DEF Opening

\* A daemon opens one map after another and all of them while the run is the last.
LEMMA OpeningDaemon ==
  ASSUME AllTypes, AloneInv, \A k \in alone : Held(k), NEW e \in Daemons, DaemonStep(e),
         NEW d \in Daemons, Opening(d)
  PROVE  Opening(d)'
<1>1. /\ UNCHANGED <<setup, pc, pin>> /\ DaemonTypes
      /\ dpc \in [Daemons -> {"off", "open", "bind", "serve"}] /\ dat \in [Daemons -> DOMAIN opens]
      /\ fd \in [Daemons -> [Range(opens) -> Loaders \cup {None}]]
      /\ base \in [Daemons -> Loaders \cup {None}]
  BY DaemonTyped DEF AllTypes, loaderVars, kernelVars, DaemonTypes
<1>2. opens' = opens /\ MapNames' = MapNames /\ Alive' = Alive
  BY <1>1, Fixed DEF Alive
<1>3. CASE d # e
  <2>1. dpc'[d] = dpc[d] /\ dat'[d] = dat[d] /\ fd'[d] = fd[d] /\ base'[d] = base[d]
    BY <1>1, <1>3 DEF DaemonStep, DaemonStart, DaemonOpen, DaemonBind, DaemonExit, Exit
  <2> QED BY <1>1, <1>2, <2>1 DEF Opening
<1>4. ASSUME Exit(d) PROVE Opening(d)'
  BY <1>1, <1>4 DEF Exit, Opening
<1>5. CASE DaemonStart(d)
  <2>1. dpc'[d] = "open" /\ dat'[d] = 1 /\ fd'[d] = fd[d]
        /\ base'[d] = IF Up = {} THEN None ELSE CHOOSE l \in Up : TRUE
    BY <1>1, <1>5 DEF DaemonStart, Opening
  <2>2. CASE Up = {}
    BY <2>1, <2>2 DEF Opening
  <2>3. CASE Up # {}
    <3>1. base'[d] \in Up
      BY <2>1, <2>3
    <3>2. base'[d] \in alone /\ pc[base'[d]] = "wait" /\ Alive = {base'[d]}
      BY <3>1 DEF Up, AloneInv, Alive, AllTypes, HistoryTypes
    <3>3. \A m \in MapNames : pin[m] = base'[d]
      BY <3>2 DEF Held, Pins
    <3> QED BY <1>1, <1>2, <2>1, <3>2, <3>3 DEF Opening
  <2> QED BY <2>2, <2>3
<1>6. CASE DaemonOpen(d)
  <2> DEFINE m == opens[dat[d]]
  <2>1. dpc[d] = "open" /\ m \in MapNames /\ m \in Range(opens)
    BY <1>1, <1>6, MapsType DEF DaemonOpen
  <2>2. CASE Exit(d)
    BY <1>4, <2>2
  <2>3. CASE ~Exit(d)
    <3>1. /\ fd' = [fd EXCEPT ![d][m] = pin[m]] /\ base' = base
          /\ dpc'[d] = IF dat[d] < Len(opens) THEN "open" ELSE "bind"
          /\ dat'[d] = IF dat[d] < Len(opens) THEN dat[d] + 1 ELSE 1
      BY <1>1, <1>6, <2>3 DEF DaemonOpen
    <3>2. /\ fd'[d][m] = pin[m]
          /\ \A x \in Range(opens) : x # m => fd'[d][x] = fd[d][x]
      BY <1>1, <2>1, <3>1
    <3>3. /\ dat[d] \in 1..Len(opens) /\ Len(opens) \in Nat /\ DOMAIN opens = 1..Len(opens)
          /\ \A k \in 1..Len(opens) : opens[k] \in Range(opens)
      BY <1>1, MapsType
    <3>4. ASSUME base[d] # None PROVE \A k \in 1..dat[d] : fd'[d][opens[k]] = base[d]
      <4>1. /\ pin[m] = base[d] /\ \A k \in 1..(dat[d] - 1) : fd[d][opens[k]] = base[d]
        BY <2>1, <3>4 DEF Opening
      <4> SUFFICES ASSUME NEW k \in 1..dat[d] PROVE fd'[d][opens[k]] = base[d]
        OBVIOUS
      <4>2. k \in 1..Len(opens) /\ (k = dat[d] \/ k \in 1..(dat[d] - 1))
        BY <3>3
      <4> QED BY <3>2, <3>3, <4>1, <4>2
    <3>5. CASE dat[d] < Len(opens)
      <4>1. dpc'[d] = "open" /\ dat'[d] = dat[d] + 1 /\ 1..(dat'[d] - 1) = 1..dat[d]
        BY <3>1, <3>3, <3>5
      <4> QED BY <1>1, <1>2, <2>1, <3>1, <3>4, <4>1 DEF Opening
    <3>6. CASE ~(dat[d] < Len(opens))
      <4>1. dpc'[d] = "bind" /\ dat'[d] = 1 /\ 1..dat[d] = DOMAIN opens
        BY <3>1, <3>3, <3>6
      <4>2. base[d] # None => \A x \in Range(opens) : fd'[d][x] = base[d]
        BY <3>4, <4>1 DEF Range
      <4> QED BY <1>2, <3>1, <4>1, <4>2 DEF Opening
    <3> QED BY <3>5, <3>6
  <2> QED BY <2>2, <2>3
<1>7. CASE DaemonBind(d) /\ ~Exit(d)
  <2>1. dpc[d] = "bind" /\ dpc'[d] = "serve" /\ UNCHANGED <<dat, fd, base>>
    BY <1>1, <1>7 DEF DaemonBind
  <2> QED BY <1>2, <2>1 DEF Opening
<1> QED BY <1>3, <1>4, <1>5, <1>6, <1>7 DEF DaemonStep, DaemonExit

-----------------------------------------------------------------------------
(* The invariant and the theorems. *)

\* IInv, one run and one daemon at a time.
Full ==
  /\ AllTypes
  /\ AloneInv
  /\ HookInv
  /\ \A l \in alone : Held(l)
  /\ \A l \in Loaders : Tidy(l)
  /\ RetryInv /\ RetryEnds
  /\ \A d \in Daemons : Opening(d)

LEMMA FullIsIInv == Full <=> IInv
BY Types, HeldAll, TidyAll, OpeningAll DEF Full, IInv, AllTypes

LEMMA FullInit == Init => Full
<1> SUFFICES ASSUME Init PROVE Full
  OBVIOUS
<1>1. /\ pc = [l \in Loaders |-> "new"] /\ alone = {} /\ filter = [i \in Ifaces |-> {}]
      /\ xdp = [i \in Ifaces |-> None] /\ tries = [l \in Loaders |-> 0] /\ progpin = None
      /\ None \notin Loaders
  BY NoneAssumption DEF Init
<1>2. AllTypes
  <2>1. LoaderTypes
    BY DEF Init, LoaderTypes, Sensible
  <2>2. KernelTypes /\ HistoryTypes
    BY DEF Init, KernelTypes, HistoryTypes
  <2>3. DaemonTypes
    <3>1. 1 \in DOMAIN opens
      BY MapsType, Rounds
    <3> QED BY <3>1, NoFdsType DEF Init, DaemonTypes
  <2> QED BY <2>1, <2>2, <2>3 DEF AllTypes
<1>3. AloneInv /\ HookInv /\ \A l \in alone : Held(l)
  BY <1>1 DEF AloneInv, HookInv
<1>4. \A l \in Loaders : Tidy(l)
  BY <1>1 DEF Tidy, Free, Alive
<1>5. RetryInv /\ RetryEnds
  <2>1. {} \in SUBSET Loaders /\ PastPin = {} /\ {} \ {None} = {}
    BY <1>1 DEF PastPin
  <2>2. Cardinality({}) \in Nat /\ \A x \in Loaders : Cardinality({}) < Cardinality(Loaders)
    BY <2>1, PastPinFinite
  <2>3. Cardinality(Loaders) \in Nat
    BY PastPinFinite
  <2> QED BY <1>1, <2>1, <2>2, <2>3 DEF RetryInv, RetryEnds
<1>6. \A d \in Daemons : Opening(d)
  BY DEF Init, Opening
<1> QED BY <1>2, <1>3, <1>4, <1>5, <1>6 DEF Full

LEMMA FullSame == Full /\ UNCHANGED vars => Full'
<1> SUFFICES ASSUME Full, UNCHANGED vars PROVE Full'
  OBVIOUS
<1>1. /\ UNCHANGED <<setup, pc, at, args, pin, progpin, xdp, hook, filter, dpc, dat, fd, base>>
      /\ UNCHANGED <<alone, faulty, tries>>
  BY DEF vars, loaderVars, kernelVars, daemonVars
<1>2. /\ WithTc' = WithTc /\ maps' = maps /\ opens' = opens /\ MapNames' = MapNames
  BY <1>1, Fixed
<1>3. AllTypes'
  BY TypesStep DEF Full
<1>4. AloneInv' /\ HookInv'
  BY <1>1, <1>2 DEF Full, AloneInv, HookInv, Alive
<1>5. \A l \in alone' : Held(l)'
  BY <1>1, <1>2 DEF Full, Held, Calls, Pins, Xdps, Filters, Sole, Past, Iface
<1>6. \A l \in Loaders : Tidy(l)'
  BY <1>1 DEF Full, Tidy, Free, Past, Iface, Alive
<1>7. RetryInv' /\ RetryEnds'
  BY <1>1 DEF Full, RetryInv, RetryEnds, PastPin
<1>8. \A d \in Daemons : Opening(d)'
  BY <1>1, <1>2 DEF Full, Opening, Alive
<1> QED BY <1>3, <1>4, <1>5, <1>6, <1>7, <1>8 DEF Full

LEMMA FullStep == Full /\ [Next]_vars => Full'
<1> SUFFICES ASSUME Full, Next PROVE Full'
  BY FullSame
<1>0. AllTypes /\ AllTypes'
  BY TypesStep DEF Full
<1>1. ASSUME NEW l \in Loaders, RunStep(l) PROVE Full'
  <2>1. UNCHANGED alone
    BY <1>0, <1>1, RunRest DEF AllTypes
  <2>2. \A d \in Daemons : Opening(d)'
    BY <1>0, <1>1, OpeningRun DEF Full
  <2> QED BY <1>0, <1>1, <2>1, <2>2, LoneRun, TidyRun, RetryRun DEF Full
<1>2. ASSUME NEW l \in Loaders, NEW s \in setup.args, Load(l, s) PROVE Full'
  <2>1. \A d \in Daemons : Opening(d)'
    BY <1>0, <1>2, OpeningLoad DEF Full
  <2> QED BY <1>0, <1>2, <2>1, LoneLoad, TidyLoad, RetryLoad DEF Full
<1>3. ASSUME NEW d \in Daemons, DaemonStep(d) PROVE Full'
  <2>1. /\ UNCHANGED <<setup, pc, at, args, pin, progpin, xdp, hook, filter>>
        /\ UNCHANGED <<alone, faulty, tries>>
    BY <1>0, <1>3, DaemonTyped DEF AllTypes, loaderVars, kernelVars
  <2>2. /\ WithTc' = WithTc /\ maps' = maps /\ MapNames' = MapNames
    BY <2>1, Fixed
  <2>3. AloneInv' /\ HookInv'
    BY <2>1, <2>2 DEF Full, AloneInv, HookInv, Alive
  <2>4. \A l \in alone' : Held(l)'
    BY <2>1, <2>2 DEF Full, Held, Calls, Pins, Xdps, Filters, Sole, Past, Iface
  <2>5. \A l \in Loaders : Tidy(l)'
    BY <2>1 DEF Full, Tidy, Free, Past, Iface, Alive
  <2>6. RetryInv' /\ RetryEnds'
    BY <2>1 DEF Full, RetryInv, RetryEnds, PastPin
  <2>7. \A e \in Daemons : Opening(e)'
    BY <1>0, <1>3, OpeningDaemon DEF Full
  <2> QED BY <1>0, <2>3, <2>4, <2>5, <2>6, <2>7 DEF Full
<1> QED BY <1>1, <1>2, <1>3 DEF Next, RunStep, DaemonStep

\* Whatever runs are started, fail, are killed or are stopped, and whatever other
\* runs and daemons do meanwhile, main, pin_map and the daemons' bpf_obj_get keep
\* the invariant: for any number of runs, daemons and interfaces.
THEOREM Invariance == Spec => []IInv
<1>1. Init => Full
  BY FullInit
<1>2. Full /\ [Next]_vars => Full'
  BY FullStep
<1>3. Full => IInv
  BY FullIsIInv
<1> QED BY <1>1, <1>2, <1>3, PTL DEF Spec

\* The loop variable of main stays within the maps and the interfaces it walks.
THEOREM TypeCorrect == Spec => []TypeOK
<1>1. IInv => TypeOK
  BY DEF IInv
<1> QED BY <1>1, Invariance, PTL

\* A run that is alone and up is in charge of its interfaces and of the pins,
\* whatever earlier runs left behind and in whatever order interfaces are named.
THEOREM LoneRunInCharge == Spec => []InCharge
<1>1. IInv => InCharge
  BY DEF IInv, LoneInv, Pins, Xdps, Filters, Sole, InCharge
<1> QED BY <1>1, Invariance, PTL

\* A run that is alone is never made to fail by what another left behind.
THEOREM RestartsSucceed == Spec => []RestartSucceeds
<1>1. IInv => RestartSucceeds
  BY DEF IInv
<1> QED BY <1>1, Invariance, PTL

\* No program of a run survives its tear-down.
THEOREM NothingOrphaned == Spec => []NoOrphans
<1>1. IInv => NoOrphans
  BY DEF IInv
<1> QED BY <1>1, Invariance, PTL

\* A run goes round the retry loop of the program pin at most once per other run.
THEOREM RetryBounded == Spec => []RetryEnds
<1>1. IInv => RetryEnds
  BY DEF IInv
<1> QED BY <1>1, Invariance, PTL

\* A daemon that serves has opened the maps of one and the same run.
THEOREM DaemonSharesMaps == Spec => []OneGeneration
<1>1. IInv => OneGeneration
  BY DEF IInv, DaemonInv, OneGeneration
<1> QED BY <1>1, Invariance, PTL

=============================================================================
