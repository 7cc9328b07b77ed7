-------------------------- MODULE MCBenchmarkTrial --------------------------
(* BenchmarkTrial for TLC: two trials of one message with a worker for     *)
(* each of two subscribers; one trial of two messages in a batch with one  *)
(* worker for two subscribers; and one trial with three subscribers for    *)
(* two workers.                                                            *)
EXTENDS BenchmarkTrialInv

Setup(s, w, b, t, q) == [subs |-> s, threads |-> w, batch |-> b, trials |-> t, seqs |-> q]

MCSetups == {Setup(2, 2, 1, 2, 1), Setup(2, 1, 2, 1, 2), Setup(3, 2, 1, 1, 1)}

=============================================================================
