------------------------------ MODULE MCLoader ------------------------------
(* Loader for TLC: the hash broker with two interfaces, and with a daemon; *)
(* the clone broker with two interfaces and two daemons.                   *)
EXTENDS LoaderInv, TLC

One == {<<i>> : i \in {CHOOSE x \in Ifaces : TRUE}}
Both == {<<i, j>> : i \in {CHOOSE x \in Ifaces : TRUE}, j \in Ifaces}
          \ {<<i, i>> : i \in Ifaces}

MCSetups ==
  {[tc |-> TRUE, args |-> One \cup Both, daemons |-> {}],
   [tc |-> TRUE, args |-> One, daemons |-> {CHOOSE d \in Daemons : TRUE}],
   [tc |-> FALSE, args |-> One \cup Both, daemons |-> Daemons]}

\* Runs are only compared with each other.
Symmetry == Permutations(Loaders)

=============================================================================
