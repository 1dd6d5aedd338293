---------------------------- MODULE SegmentTree ----------------------------
(***************************************************************************)
(* yacl/utils/segment_tree.h: a set of ids kept as disjoint half-open      *)
(* segments [key, value) in a std::map, and a separate element counter.    *)
(* The channel keeps its finished, received and acknowledged sequence ids  *)
(* in three of these.                                                      *)
(***************************************************************************)
EXTENDS Integers, FiniteSets

CONSTANT Items          \* the ids callers insert or look up (T is size_t)

ASSUME ItemsAssumption == Items \subseteq Nat

VARIABLES segments,     \* segments_: first id of a segment -> one past its last
          count,        \* count_
          ret,          \* the last bool returned, [op, item, yes]
          size          \* the last size_t returned, [op, n]

vars == <<segments, count, ret, size>>

-----------------------------------------------------------------------------
\* std::prev(segments_.upper_bound(item)): the greatest key <= item, when
\* there is one.
KeysUpTo(f, item) == {k \in DOMAIN f : k <= item}

Floor(f, item) == CHOOSE k \in KeysUpTo(f, item) :
                    \A j \in KeysUpTo(f, item) : j <= k

\* Mutant of ContainsItem: the end of a segment taken as inclusive.
ContainsItemClosed(f, item) ==
    KeysUpTo(f, item) # {} /\ item <= f[Floor(f, item)]

ContainsItem(f, item) == KeysUpTo(f, item) # {} /\ item < f[Floor(f, item)]

\* The new segment [item, item + 1), or the segment that ends at item grown
\* by one.
Placed(f, item) ==
    IF KeysUpTo(f, item) # {} /\ item = f[Floor(f, item)]
    THEN [f EXCEPT ![Floor(f, item)] = item + 1]
    ELSE [k \in DOMAIN f \cup {item} |-> IF k = item THEN item + 1 ELSE f[k]]

\* The segment before current swallows it when they touch.
MergePrev(f, cur) ==
    LET Touching == {p \in DOMAIN f : /\ p < cur
                                      /\ f[p] = cur
                                      /\ \A j \in DOMAIN f : j <= p \/ j >= cur}
    IN  [k \in IF Touching = {} THEN DOMAIN f ELSE DOMAIN f \ {cur} |->
            IF k \in Touching THEN f[cur] ELSE f[k]]

\* Mutant of MergeNext: touching segments are left apart.
MergeNextNever(f, cur) == f

\* Current swallows the segment after it when they touch.
MergeNext(f, cur) ==
    LET Touching == {n \in DOMAIN f : /\ n > cur
                                      /\ n = f[cur]
                                      /\ \A j \in DOMAIN f : j <= cur \/ j >= n}
    IN  [k \in DOMAIN f \ Touching |->
            IF k = cur /\ Touching # {} THEN f[f[cur]] ELSE f[k]]

Inserted(f, item) ==
    LET g == Placed(f, item)
        h == MergePrev(g, Floor(g, item))
    IN  MergeNext(h, Floor(h, item))

-----------------------------------------------------------------------------
Init == /\ segments = [k \in {} |-> 0]
        /\ count = 0
        /\ ret = [op |-> "none", item |-> 0, yes |-> FALSE]
        /\ size = [op |-> "none", n |-> 0]

\* Mutant of Insert: the counter also counts an id that is already there.
InsertMiscounts(item) ==
    LET new == ~ ContainsItem(segments, item) IN
    /\ segments' = IF new THEN Inserted(segments, item) ELSE segments
    /\ count' = count + 1
    /\ ret' = [op |-> "Insert", item |-> item, yes |-> new]
    /\ UNCHANGED size

Insert(item) ==
    LET new == ~ ContainsItem(segments, item) IN
    /\ segments' = IF new THEN Inserted(segments, item) ELSE segments
    /\ count' = IF new THEN count + 1 ELSE count
    /\ ret' = [op |-> "Insert", item |-> item, yes |-> new]
    /\ UNCHANGED size

Contains(item) ==
    /\ ret' = [op |-> "Contains", item |-> item, yes |-> ContainsItem(segments, item)]
    /\ UNCHANGED <<segments, count, size>>

Count == /\ size' = [op |-> "Count", n |-> count]
         /\ UNCHANGED <<segments, count, ret>>

SegmentsCount == /\ size' = [op |-> "SegmentsCount", n |-> Cardinality(DOMAIN segments)]
                 /\ UNCHANGED <<segments, count, ret>>

Next == \/ \E item \in Items : Insert(item) \/ Contains(item)
        \/ Count
        \/ SegmentsCount

Spec == Init /\ [][Next]_vars

-----------------------------------------------------------------------------
\* The ids the segments stand for.
Covered(f) == UNION {k .. (f[k] - 1) : k \in DOMAIN f}

\* Segments are non-empty, and between two of them at least one id is missing:
\* SegmentsCount() > 1 therefore means that an id is missing in between, which
\* is what the channel's close relies on.
WellFormed(f) ==
    /\ \A k \in DOMAIN f : k < f[k]
    /\ \A j, k \in DOMAIN f : j < k => f[j] < k

\* The type invariant: every segment starts at an inserted id and ends one
\* past one, and the answers are bools and sizes.
TypeOK == /\ DOMAIN segments \subseteq Items
          /\ segments \in [DOMAIN segments -> {i + 1 : i \in Items}]
          /\ count \in Nat
          /\ ret \in [op : {"none", "Insert", "Contains"}, item : Nat, yes : BOOLEAN]
          /\ size \in [op : {"none", "Count", "SegmentsCount"}, n : Nat]

\* The map stays canonical: non-empty segments, never two that touch.
Canonical == WellFormed(segments)

\* count_, which Insert keeps by hand beside the map, is the number of ids the
\* segments cover (the throttle window of the channel reads only Count()).
CountExact == /\ IsFiniteSet(Covered(segments))
              /\ count = Cardinality(Covered(segments))

\* A SegmentTree is a set of ids: every answer of Insert, Contains, Count and
\* SegmentsCount is the one IdSet gives for the ids inserted so far.
Ids == INSTANCE IdSet WITH ids <- Covered(segments)

ImplementsIdSet == Ids!IdSpec
=============================================================================
