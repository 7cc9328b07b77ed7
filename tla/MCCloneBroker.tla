---------------------------- MODULE MCCloneBroker ----------------------------
(* CloneBroker for TLC.                                                    *)
EXTENDS CloneBrokerInv, TLC

\* Client addresses and topic keys are only compared with each other.
Symmetry == Permutations(Clients) \cup Permutations(Topics)

=============================================================================
