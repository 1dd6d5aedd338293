----------------------------- MODULE MCChannel -----------------------------
(* Instances of Channel for TLC: two ends, a few user threads and keys. *)
EXTENDS Channel, TLC

CONSTANTS alice, bob, t1, t2, k1, k2

\* The two ends run the same code, threads and keys are interchangeable.
Symmetry == Permutations(Peers) \cup Permutations(Threads) \cup Permutations(Keys)

\* One sender: only the keys and the threads are interchangeable.
SymmetryOneWay == Permutations(Threads) \cup Permutations(Keys)
=============================================================================
