--------------------------- MODULE MCParallelRun ---------------------------
(* Two users of the pool: one reduces a range that does not divide evenly and *)
(* then meets an empty range, the bodies of the other make nested calls.      *)
EXTENDS ParallelRun

CONSTANTS reducer, nester

TwoUsers == {reducer, nester}
TwoPrograms ==
  [u \in TwoUsers |->
     IF u = reducer
     THEN <<[kind |-> "reduce", size |-> 5, grain |-> 1, nests |-> FALSE],
            [kind |-> "for", size |-> 0, grain |-> 1, nests |-> FALSE]>>
     ELSE <<[kind |-> "for", size |-> 2, grain |-> 1, nests |-> TRUE]>>]
=============================================================================
