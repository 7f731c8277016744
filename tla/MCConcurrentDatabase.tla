------------------------ MODULE MCConcurrentDatabase ------------------------
(* Instances of ConcurrentDatabase for the model checker.                  *)
EXTENDS ConcurrentDatabase, TLC

Symmetry == Permutations(Threads) \cup Permutations(Names)
=============================================================================
