---------------------------- MODULE MCHashBroker ----------------------------
(* HashBroker for TLC.                                                     *)
EXTENDS HashBrokerInv, TLC

\* Client addresses and topic keys are only compared with each other.
Symmetry == Permutations(Clients) \cup Permutations(Topics)

=============================================================================
