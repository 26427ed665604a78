----------------------------- MODULE MCWorkQueue -----------------------------
(* Instances of WorkQueue for TLC; the .cfg files give the constants.      *)
EXTENDS WorkQueue, TLC

(* Threads of one role are interchangeable in the safety run.              *)
Symmetry == Permutations(Producers) \cup Permutations(Consumers) \cup Permutations(Items)
=============================================================================
