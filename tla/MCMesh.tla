------------------------------- MODULE MCMesh -------------------------------
(* Instances of Mesh: small worlds whose programs cover every collective. *)
EXTENDS Mesh

Do(kind, root) == [kind |-> kind, root |-> root, dst |-> 0]
Msg(src, dst) == [kind |-> "P2P", root |-> src, dst |-> dst]
Everyone(n) == [k \in 1 .. n |-> k - 1]
Alone(n, program) == [size |-> n, parties |-> [main |-> Everyone(n)],
                      program |-> [main |-> program]]

\* A broadcast tree of three levels with a gap in it, and a barrier.
FiveTree == Alone(5, <<Do("BCAST", 2)>>)
FourBarrier == Alone(4, <<Do("BARRIER", 0)>>)
\* One call after the other, so that parties run ahead of each other.
Three == Alone(3, <<Do("ALLGATHER", 0), Do("SCATTER", 1), Do("SCATTER", 1),
                    Do("GATHER", 2)>>)
\* A barrier between two messages.
ThreeP2P == Alone(3, <<Msg(0, 2), Do("BARRIER", 0), Msg(0, 2)>>)
\* A sub world with its ranks turned round, next to the main world.
SubWorld == [size |-> 3,
             parties |-> [main |-> Everyone(3), sub |-> <<2, 0>>],
             program |-> [main |-> <<Do("ALLGATHER", 0)>>,
                          sub |-> <<Do("ALLGATHER", 0), Msg(1, 0)>>]]

SmallMeshes == {FiveTree, FourBarrier, Three, ThreeP2P, SubWorld}
=============================================================================
