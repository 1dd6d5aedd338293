------------------------------- MODULE IdSet -------------------------------
(***************************************************************************)
(* What yacl::utils::SegmentTree promises its users (the link channel):    *)
(* a set of sequence ids that answers membership, size and the number of   *)
(* maximal runs of consecutive ids.  It says nothing of how ids are kept.  *)
(***************************************************************************)
EXTENDS Integers, FiniteSets

CONSTANT Items          \* the ids a user may insert or ask for

VARIABLES ids,          \* the ids inserted so far
          ret,          \* the last Boolean answer, [op, item, yes]
          size          \* the last numeric answer, [op, n]

idVars == <<ids, ret, size>>

\* The first ids of the maximal runs of consecutive ids of S.
RunStarts(S) == {i \in S : i - 1 \notin S}

\* The answers before any call: there are none yet.
NoRet == [op |-> "none", item |-> 0, yes |-> FALSE]
NoSize == [op |-> "none", n |-> 0]

IdInit == ids = {} /\ ret = NoRet /\ size = NoSize

\* TRUE iff the id is new.
IdInsert(x) == /\ ret' = [op |-> "Insert", item |-> x, yes |-> x \notin ids]
               /\ ids' = ids \cup {x}
               /\ UNCHANGED size

IdContains(x) == /\ ret' = [op |-> "Contains", item |-> x, yes |-> x \in ids]
                 /\ UNCHANGED <<ids, size>>

IdCount == /\ size' = [op |-> "Count", n |-> Cardinality(ids)]
           /\ UNCHANGED <<ids, ret>>

IdSegmentsCount == /\ size' = [op |-> "SegmentsCount", n |-> Cardinality(RunStarts(ids))]
                   /\ UNCHANGED <<ids, ret>>

IdNext == \/ \E x \in Items : IdInsert(x) \/ IdContains(x)
          \/ IdCount
          \/ IdSegmentsCount

IdSpec == IdInit /\ [][IdNext]_idVars
=============================================================================
