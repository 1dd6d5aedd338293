------------------------- MODULE SegmentTreeProofs -------------------------
(***************************************************************************)
(* SegmentTree implements IdSet for every set of ids.  The argument: the   *)
(* map stays canonical (WellFormed), so the segment with the greatest key  *)
(* <= item decides membership, an insertion can only touch the segments    *)
(* around item, and the keys of a canonical map are exactly the starts of  *)
(* the runs of the ids it covers.                                          *)
(***************************************************************************)
EXTENDS SegmentTree, FiniteSetTheorems, WellFoundedInduction, TLAPS

\* A map from ids to ends.
IsMap(f) == /\ f = [k \in DOMAIN f |-> f[k]]
            /\ DOMAIN f \subseteq Nat
            /\ \A k \in DOMAIN f : f[k] \in Nat

\* A non-empty set of naturals with an upper bound has a greatest element.
LEMMA GreatestBelow ==
  ASSUME NEW S \in SUBSET Nat, S # {}, NEW n \in Nat, \A k \in S : k <= n
  PROVE  \E k \in S : \A j \in S : j <= k
<1> DEFINE R == OpToRel(<, Nat)
           T == {n - k : k \in S}
<1>1. IsWellFoundedOn(R, Nat)
  BY NatLessThanWellFounded
<1>2. T \subseteq Nat /\ T # {}
  <2>1. PICK k \in S : TRUE
    OBVIOUS
  <2>2. n - k \in T
    OBVIOUS
  <2>3. \A j \in S : n - j \in Nat
    OBVIOUS
  <2> QED BY <2>2, <2>3
<1>3. PICK x \in T : \A y \in T : ~ (<<y, x>> \in R)
  <2> HIDE DEF R, T
  <2> QED BY <1>1, <1>2, WFMin
<1>4. \A y \in T : ~ (y < x)
  BY <1>2, <1>3 DEF OpToRel
<1>5. PICK k \in S : x = n - k
  BY <1>3
<1>6. \A j \in S : j <= k
  <2> SUFFICES ASSUME NEW j \in S PROVE j <= k
    OBVIOUS
  <2>1. n - j \in T
    OBVIOUS
  <2>2. ~ (n - j < n - k)
    BY <2>1, <1>4, <1>5
  <2> QED BY <2>2
<1> QED BY <1>5, <1>6

\* Floor is the greatest key not above item.
LEMMA FloorIsGreatest ==
  ASSUME NEW f, IsMap(f), NEW item \in Nat, KeysUpTo(f, item) # {}
  PROVE  /\ Floor(f, item) \in DOMAIN f
         /\ Floor(f, item) \in Nat
         /\ Floor(f, item) <= item
         /\ \A j \in DOMAIN f : j <= item => j <= Floor(f, item)
<1>1. KeysUpTo(f, item) \in SUBSET Nat /\ \A k \in KeysUpTo(f, item) : k <= item
  BY DEF KeysUpTo, IsMap
<1>2. \E k \in KeysUpTo(f, item) : \A j \in KeysUpTo(f, item) : j <= k
  BY <1>1, GreatestBelow
<1>3. /\ Floor(f, item) \in KeysUpTo(f, item)
      /\ \A j \in KeysUpTo(f, item) : j <= Floor(f, item)
  BY <1>2 DEF Floor
<1> QED BY <1>1, <1>3 DEF KeysUpTo

\* Membership in the covered set, spelled out.
LEMMA CoveredMember ==
  ASSUME NEW f, IsMap(f), NEW x
  PROVE  x \in Covered(f) <=> x \in Nat /\ \E k \in DOMAIN f : k <= x /\ x < f[k]
BY DEF Covered, IsMap

\* Looking only at the segment with the greatest key <= item decides
\* membership (Contains, and the "exist item" branch of Insert).
LEMMA ContainsIffCovered ==
  ASSUME NEW f, IsMap(f), WellFormed(f), NEW item \in Nat
  PROVE  ContainsItem(f, item) <=> item \in Covered(f)
<1>1. CASE KeysUpTo(f, item) = {}
  BY <1>1, CoveredMember DEF ContainsItem, KeysUpTo
<1>2. CASE KeysUpTo(f, item) # {}
  <2> DEFINE c == Floor(f, item)
  <2>1. /\ c \in DOMAIN f /\ c \in Nat /\ c <= item
        /\ \A j \in DOMAIN f : j <= item => j <= c
    BY <1>2, FloorIsGreatest
  <2> HIDE DEF c
  <2>2. ASSUME NEW k \in DOMAIN f, k <= item, item < f[k]
        PROVE  k = c
    <3>1. k \in Nat /\ f[k] \in Nat
      BY DEF IsMap
    <3>2. k < c => f[k] < c
      BY <2>1 DEF WellFormed
    <3> QED BY <2>1, <2>2, <3>1, <3>2
  <2> QED BY <1>2, <2>1, <2>2, CoveredMember DEF ContainsItem, c
<1> QED BY <1>1, <1>2

\* What the first half of Insert builds: the segment of item ends right after
\* item and is the only one that can touch its right neighbour.
PlacedAt(g, cur, item) ==
  /\ IsMap(g)
  /\ cur \in DOMAIN g /\ cur \in Nat /\ cur <= item
  /\ g[cur] = item + 1
  /\ \A k \in DOMAIN g : k < g[k]
  /\ \A j, k \in DOMAIN g : j < k => g[j] < k \/ (j = cur /\ g[j] = k)

LEMMA PlacedIsPlaced ==
  ASSUME NEW f, IsMap(f), WellFormed(f), NEW item \in Nat, item \notin Covered(f)
  PROVE  \E cur \in Nat : /\ PlacedAt(Placed(f, item), cur, item)
                          /\ Covered(Placed(f, item)) = Covered(f) \cup {item}
<1> DEFINE g == Placed(f, item)
           c == Floor(f, item)
<1>0. \A k \in DOMAIN f : k \in Nat /\ f[k] \in Nat
  BY DEF IsMap
<1>1. \A k \in DOMAIN f : k <= item => f[k] <= item
  BY <1>0, CoveredMember
<1>2. CASE KeysUpTo(f, item) # {} /\ item = f[c]
  <2>1. /\ c \in DOMAIN f /\ c \in Nat /\ c <= item
        /\ \A j \in DOMAIN f : j <= item => j <= c
    BY <1>2, FloorIsGreatest
  <2>2. g = [f EXCEPT ![c] = item + 1]
    BY <1>2 DEF Placed
  <2> HIDE DEF g, c
  <2>3. DOMAIN g = DOMAIN f /\ g[c] = item + 1 /\ \A k \in DOMAIN f : k # c => g[k] = f[k]
    BY <2>1, <2>2
  <2>4. IsMap(g)
    <3>1. g = [k \in DOMAIN g |-> g[k]]
      BY <2>2
    <3> QED BY <3>1, <2>1, <2>3, <1>0 DEF IsMap
  <2>5. \A k \in DOMAIN g : k < g[k]
    BY <2>1, <2>3, <1>0 DEF WellFormed
  <2>6. ASSUME NEW j \in DOMAIN g, NEW k \in DOMAIN g, j < k
        PROVE  g[j] < k \/ (j = c /\ g[j] = k)
    <3>1. f[j] < k
      BY <2>6, <2>3 DEF WellFormed
    <3>2. CASE j = c
      BY <3>1, <3>2, <2>1, <2>3, <2>6, <1>0
    <3>3. CASE j # c
      BY <3>1, <3>3, <2>3
    <3> QED BY <3>2, <3>3
  <2>7. Covered(g) = Covered(f) \cup {item}
    <3>1. ASSUME NEW x PROVE x \in Covered(g) <=> x \in Covered(f) \/ x = item
      <4>1. x \in Covered(g) <=> x \in Nat /\ \E k \in DOMAIN g : k <= x /\ x < g[k]
        BY <2>4, CoveredMember
      <4>2. x \in Covered(f) <=> x \in Nat /\ \E k \in DOMAIN f : k <= x /\ x < f[k]
        BY CoveredMember
      <4>3. f[c] = item
        BY <1>2 DEF c
      <4> QED BY <4>1, <4>2, <4>3, <2>1, <2>3, <1>0
    <3> QED BY <3>1
  <2> QED BY <2>1, <2>3, <2>4, <2>5, <2>6, <2>7 DEF PlacedAt, g
<1>3. CASE ~ (KeysUpTo(f, item) # {} /\ item = f[c])
  <2>1. g = [k \in DOMAIN f \cup {item} |-> IF k = item THEN item + 1 ELSE f[k]]
    BY <1>3 DEF Placed
  <2>2. \A k \in DOMAIN f : k <= item => f[k] < item
    <3> SUFFICES ASSUME NEW k \in DOMAIN f, k <= item, f[k] = item PROVE FALSE
      BY <1>0, <1>1
    <3>1. k \in KeysUpTo(f, item)
      BY DEF KeysUpTo
    <3>2. /\ c \in DOMAIN f /\ c \in Nat /\ c <= item /\ k <= c
      BY <3>1, FloorIsGreatest
    <3> HIDE DEF c
    <3>3. k < c => f[k] < c
      BY <3>2 DEF WellFormed
    <3>4. k = c
      BY <3>2, <3>3, <1>0
    <3> QED BY <3>1, <3>4, <1>3
  <2>2a. item \notin DOMAIN f
    BY <2>2, <1>0 DEF WellFormed
  <2> HIDE DEF g
  <2>3. /\ DOMAIN g = DOMAIN f \cup {item}
        /\ g[item] = item + 1
        /\ \A k \in DOMAIN f : g[k] = f[k]
    BY <2>1, <2>2a
  <2>4. IsMap(g)
    <3>1. g = [k \in DOMAIN g |-> g[k]]
      BY <2>1
    <3> QED BY <3>1, <2>3, <1>0 DEF IsMap
  <2>5. \A k \in DOMAIN g : k < g[k]
    BY <2>3, <1>0 DEF WellFormed
  <2>6. ASSUME NEW j \in DOMAIN g, NEW k \in DOMAIN g, j < k
        PROVE  g[j] < k \/ (j = item /\ g[j] = k)
    <3>1. CASE j = item
      BY <3>1, <2>6, <2>3, <1>0
    <3>2. CASE j # item /\ k = item
      BY <3>2, <2>6, <2>3, <2>2, <1>0
    <3>3. CASE j # item /\ k # item
      BY <3>3, <2>6, <2>3 DEF WellFormed
    <3> QED BY <3>1, <3>2, <3>3
  <2>7. Covered(g) = Covered(f) \cup {item}
    <3>1. ASSUME NEW x PROVE x \in Covered(g) <=> x \in Covered(f) \/ x = item
      <4>1. x \in Covered(g) <=> x \in Nat /\ \E k \in DOMAIN g : k <= x /\ x < g[k]
        BY <2>4, CoveredMember
      <4>2. x \in Covered(f) <=> x \in Nat /\ \E k \in DOMAIN f : k <= x /\ x < f[k]
        BY CoveredMember
      <4> QED BY <4>1, <4>2, <2>3, <1>0
    <3> QED BY <3>1
  <2> QED BY <2>3, <2>4, <2>5, <2>6, <2>7 DEF PlacedAt, g
<1> QED BY <1>2, <1>3

\* In a canonical map the segment before current never touches it: the merge
\* with the previous segment changes nothing.
LEMMA MergePrevIsIdle ==
  ASSUME NEW g, NEW cur, NEW item \in Nat, PlacedAt(g, cur, item)
  PROVE  MergePrev(g, cur) = g
<1>1. \A p \in DOMAIN g : ~ (p < cur /\ g[p] = cur)
  BY DEF PlacedAt, IsMap
<1>2. MergePrev(g, cur) = [k \in DOMAIN g |-> g[k]]
  BY <1>1 DEF MergePrev
<1> QED BY <1>2 DEF PlacedAt, IsMap

\* Current is the segment with the greatest key <= item.
LEMMA FloorOfPlaced ==
  ASSUME NEW g, NEW cur, NEW item \in Nat, PlacedAt(g, cur, item)
  PROVE  Floor(g, item) = cur
<1>1. IsMap(g) /\ cur \in DOMAIN g /\ cur \in Nat /\ cur <= item /\ g[cur] = item + 1
  BY DEF PlacedAt
<1>2. KeysUpTo(g, item) # {}
  BY <1>1 DEF KeysUpTo
<1> DEFINE c == Floor(g, item)
<1>3. c \in DOMAIN g /\ c \in Nat /\ c <= item /\ cur <= c
  BY <1>1, <1>2, FloorIsGreatest
<1> HIDE DEF c
<1>4. cur < c => g[cur] <= c
  BY <1>1, <1>3 DEF PlacedAt
<1>5. c = cur
  BY <1>1, <1>3, <1>4
<1> QED BY <1>5 DEF c

\* The merge with the next segment restores the canonical form and covers the
\* same ids.
LEMMA MergeNextRestores ==
  ASSUME NEW g, NEW cur, NEW item \in Nat, PlacedAt(g, cur, item)
  PROVE  /\ IsMap(MergeNext(g, cur))
         /\ WellFormed(MergeNext(g, cur))
         /\ Covered(MergeNext(g, cur)) = Covered(g)
         /\ DOMAIN MergeNext(g, cur) \subseteq DOMAIN g
         /\ \A k \in DOMAIN MergeNext(g, cur) :
               \E j \in DOMAIN g : MergeNext(g, cur)[k] = g[j]
<1> DEFINE h == MergeNext(g, cur)
           e == item + 1
<1>0. \A k \in DOMAIN g : k \in Nat /\ g[k] \in Nat /\ k < g[k]
  BY DEF PlacedAt, IsMap
<1>1. cur \in DOMAIN g /\ cur \in Nat /\ cur <= item /\ g[cur] = e /\ IsMap(g)
  BY DEF PlacedAt
<1>2. \A j, k \in DOMAIN g : j < k => g[j] < k \/ (j = cur /\ g[j] = k)
  BY DEF PlacedAt
<1>3. CASE e \in DOMAIN g
  <2>1. \A j \in DOMAIN g : j <= cur \/ j >= e
    BY <1>0, <1>1, <1>2
  <2>2. {n \in DOMAIN g : n > cur /\ n = g[cur] /\ \A j \in DOMAIN g : j <= cur \/ j >= n} = {e}
    BY <1>1, <1>3, <2>1
  <2>3. h = [k \in DOMAIN g \ {e} |-> IF k = cur THEN g[e] ELSE g[k]]
    BY <2>2, <1>1, Zenon DEF MergeNext
  <2> HIDE DEF h
  <2>4. /\ DOMAIN h = DOMAIN g \ {e}
        /\ h[cur] = g[e]
        /\ \A k \in DOMAIN h : k # cur => h[k] = g[k]
    BY <2>3, <1>1
  <2>5. IsMap(h)
    <3>1. h = [k \in DOMAIN h |-> h[k]]
      BY <2>3
    <3> QED BY <3>1, <2>4, <1>0, <1>3 DEF IsMap
  <2>6. WellFormed(h)
    <3>1. \A k \in DOMAIN h : k < h[k]
      BY <2>4, <1>0, <1>1, <1>3
    <3>2. ASSUME NEW j \in DOMAIN h, NEW k \in DOMAIN h, j < k PROVE h[j] < k
      <4>1. CASE j = cur
        <5>1. k > e
          BY <4>1, <3>2, <2>1, <2>4, <1>0, <1>1
        <5>2. g[e] < k
          BY <5>1, <1>1, <1>2, <1>3, <2>4
        <5> QED BY <4>1, <5>2, <2>4
      <4>2. CASE j # cur
        BY <4>2, <3>2, <2>4, <1>2
      <4> QED BY <4>1, <4>2
    <3> QED BY <3>1, <3>2 DEF WellFormed
  <2>7. Covered(h) = Covered(g)
    <3>1. ASSUME NEW x PROVE x \in Covered(h) <=> x \in Covered(g)
      <4>1. x \in Covered(h) <=> x \in Nat /\ \E k \in DOMAIN h : k <= x /\ x < h[k]
        BY <2>5, CoveredMember
      <4>2. x \in Covered(g) <=> x \in Nat /\ \E k \in DOMAIN g : k <= x /\ x < g[k]
        BY <1>1, CoveredMember
      <4>3. ASSUME x \in Nat, NEW k \in DOMAIN h, k <= x, x < h[k]
            PROVE  \E j \in DOMAIN g : j <= x /\ x < g[j]
        <5>1. CASE k # cur
          BY <5>1, <4>3, <2>4
        <5>2. CASE k = cur /\ x < e
          BY <5>2, <4>3, <1>1
        <5>3. CASE k = cur /\ ~ (x < e)
          BY <5>3, <4>3, <2>4, <1>3
        <5> QED BY <5>1, <5>2, <5>3
      <4>4. ASSUME x \in Nat, NEW k \in DOMAIN g, k <= x, x < g[k]
            PROVE  \E j \in DOMAIN h : j <= x /\ x < h[j]
        <5>1. CASE k = cur
          BY <5>1, <4>4, <2>4, <1>0, <1>1, <1>3
        <5>2. CASE k = e
          BY <5>2, <4>4, <2>4, <1>0, <1>1
        <5>3. CASE k # cur /\ k # e
          BY <5>3, <4>4, <2>4
        <5> QED BY <5>1, <5>2, <5>3
      <4> QED BY <4>1, <4>2, <4>3, <4>4
    <3> QED BY <3>1
  <2> QED BY <2>4, <2>5, <2>6, <2>7, <1>3 DEF h
<1>4. CASE e \notin DOMAIN g
  <2>1. {n \in DOMAIN g : n > cur /\ n = g[cur] /\ \A j \in DOMAIN g : j <= cur \/ j >= n} = {}
    BY <1>1, <1>4
  <2>2. h = [k \in DOMAIN g |-> g[k]]
    BY <2>1, Zenon DEF MergeNext
  <2>3. h = g
    BY <2>2, <1>1 DEF IsMap
  <2> HIDE DEF h
  <2>4. WellFormed(g)
    BY <1>0, <1>1, <1>2, <1>4 DEF WellFormed
  <2> QED BY <2>3, <2>4, <1>1 DEF h
<1> QED BY <1>3, <1>4

\* Insert of an id that is not covered: the map stays canonical and covers
\* exactly one more id.
LEMMA InsertedAddsItem ==
  ASSUME NEW f, IsMap(f), WellFormed(f), NEW item \in Nat, item \notin Covered(f)
  PROVE  /\ IsMap(Inserted(f, item))
         /\ WellFormed(Inserted(f, item))
         /\ Covered(Inserted(f, item)) = Covered(f) \cup {item}
         /\ DOMAIN Inserted(f, item) \subseteq DOMAIN f \cup {item}
         /\ \A k \in DOMAIN Inserted(f, item) :
               \/ Inserted(f, item)[k] = item + 1
               \/ \E j \in DOMAIN f : Inserted(f, item)[k] = f[j]
<1> DEFINE g == Placed(f, item)
<1>1. PICK cur \in Nat : PlacedAt(g, cur, item) /\ Covered(g) = Covered(f) \cup {item}
  BY PlacedIsPlaced
<1>2. DOMAIN g \subseteq DOMAIN f \cup {item}
  BY DEF Placed
<1>2a. \A k \in DOMAIN g : g[k] = item + 1 \/ \E j \in DOMAIN f : g[k] = f[j]
  BY DEF Placed
<1>3. Inserted(f, item) = MergeNext(MergePrev(g, Floor(g, item)),
                                    Floor(MergePrev(g, Floor(g, item)), item))
  BY DEF Inserted
<1> HIDE DEF g
<1>4. Floor(g, item) = cur
  BY <1>1, FloorOfPlaced
<1>5. MergePrev(g, cur) = g
  BY <1>1, MergePrevIsIdle
<1>6. Inserted(f, item) = MergeNext(g, cur)
  BY <1>3, <1>4, <1>5
<1>7. /\ IsMap(MergeNext(g, cur))
      /\ WellFormed(MergeNext(g, cur))
      /\ Covered(MergeNext(g, cur)) = Covered(g)
      /\ DOMAIN MergeNext(g, cur) \subseteq DOMAIN g
      /\ \A k \in DOMAIN MergeNext(g, cur) :
            \E j \in DOMAIN g : MergeNext(g, cur)[k] = g[j]
  BY <1>1, MergeNextRestores
<1> HIDE DEF PlacedAt
<1> QED BY <1>1, <1>2, <1>2a, <1>6, <1>7

\* The keys of a canonical map are the starts of the runs of its ids, so
\* segments_.size() is the number of runs.
LEMMA KeysAreRunStarts ==
  ASSUME NEW f, IsMap(f), WellFormed(f)
  PROVE  DOMAIN f = Ids!RunStarts(Covered(f))
<1>0. \A k \in DOMAIN f : k \in Nat /\ f[k] \in Nat /\ k < f[k]
  BY DEF IsMap, WellFormed
<1>1. ASSUME NEW k \in DOMAIN f PROVE k \in Ids!RunStarts(Covered(f))
  <2>1. k \in Covered(f)
    BY <1>0, CoveredMember
  <2>2. ASSUME k - 1 \in Covered(f) PROVE FALSE
    <3>1. PICK j \in DOMAIN f : j <= k - 1 /\ k - 1 < f[j]
      BY <2>2, CoveredMember
    <3>2. f[j] < k
      BY <3>1, <1>0 DEF WellFormed
    <3> QED BY <3>1, <3>2, <1>0
  <2> QED BY <2>1, <2>2 DEF Ids!RunStarts
<1>2. ASSUME NEW x \in Ids!RunStarts(Covered(f)) PROVE x \in DOMAIN f
  <2>1. x \in Covered(f) /\ x - 1 \notin Covered(f)
    BY DEF Ids!RunStarts
  <2>2. PICK k \in DOMAIN f : x \in Nat /\ k <= x /\ x < f[k]
    BY <2>1, CoveredMember
  <2>3. k = x
    <3> SUFFICES ASSUME k # x PROVE FALSE
      OBVIOUS
    <3>1. x - 1 \in Nat /\ k <= x - 1 /\ x - 1 < f[k]
      BY <2>2, <1>0
    <3> QED BY <2>1, <3>1, CoveredMember
  <2> QED BY <2>3
<1> QED BY <1>1, <1>2

-----------------------------------------------------------------------------
\* The inductive invariant.
Inv == TypeOK /\ Canonical /\ CountExact

LEMMA TypedIsMap ==
  ASSUME TypeOK
  PROVE  IsMap(segments)
BY ItemsAssumption DEF TypeOK, IsMap

LEMMA InitInv == Init => Inv
<1> SUFFICES ASSUME Init PROVE Inv
  OBVIOUS
<1>1. DOMAIN segments = {}
  BY DEF Init
<1>2. Covered(segments) = {}
  BY <1>1 DEF Covered
<1>3. TypeOK
  BY <1>1 DEF Init, TypeOK
<1>4. Canonical
  BY <1>1 DEF Canonical, WellFormed
<1>5. CountExact
  BY <1>2, FS_EmptySet DEF CountExact, Init
<1> QED BY <1>3, <1>4, <1>5 DEF Inv

\* A step that leaves the map and the counter alone keeps the invariant.
LEMMA ReadStep ==
  ASSUME Inv, UNCHANGED <<segments, count>>,
         ret' \in [op : {"none", "Insert", "Contains"}, item : Nat, yes : BOOLEAN],
         size' \in [op : {"none", "Count", "SegmentsCount"}, n : Nat]
  PROVE  Inv' /\ Covered(segments)' = Covered(segments)
BY DEF Inv, TypeOK, Canonical, WellFormed, CountExact, Covered

\* What one Insert does, in terms of the covered ids.
LEMMA InsertStep ==
  ASSUME Inv, NEW item \in Items, Insert(item)
  PROVE  /\ Inv'
         /\ ret' = [op |-> "Insert", item |-> item, yes |-> item \notin Covered(segments)]
         /\ Covered(segments)' = Covered(segments) \cup {item}
<1>0. item \in Nat
  BY ItemsAssumption
<1>1. IsMap(segments) /\ WellFormed(segments)
  BY TypedIsMap DEF Inv, Canonical
<1>2. /\ ContainsItem(segments, item) <=> item \in Covered(segments)
      /\ ret' = [op |-> "Insert", item |-> item, yes |-> item \notin Covered(segments)]
  BY <1>0, <1>1, ContainsIffCovered DEF Insert
<1>2a. /\ ret' \in [op : {"none", "Insert", "Contains"}, item : Nat, yes : BOOLEAN]
       /\ size' \in [op : {"none", "Count", "SegmentsCount"}, n : Nat]
  <2>1. (item \notin Covered(segments)) \in BOOLEAN
    OBVIOUS
  <2>2. size' = size
    BY DEF Insert
  <2> QED BY <1>0, <1>2, <2>1, <2>2 DEF Inv, TypeOK
<1>3. CASE item \in Covered(segments)
  <2>1. segments' = segments /\ count' = count
    BY <1>2, <1>3 DEF Insert
  <2>2. Inv' /\ Covered(segments)' = Covered(segments)
    BY <1>2a, <2>1, ReadStep
  <2> QED BY <1>2, <1>3, <2>2
<1>4. CASE item \notin Covered(segments)
  <2>1. segments' = Inserted(segments, item) /\ count' = count + 1
    BY <1>2, <1>4 DEF Insert
  <2> DEFINE g == Inserted(segments, item)
  <2>2. /\ IsMap(g) /\ WellFormed(g)
        /\ Covered(g) = Covered(segments) \cup {item}
        /\ DOMAIN g \subseteq DOMAIN segments \cup {item}
        /\ \A k \in DOMAIN g : g[k] = item + 1 \/ \E j \in DOMAIN segments : g[k] = segments[j]
    BY <1>0, <1>1, <1>4, InsertedAddsItem
  <2> HIDE DEF g
  <2>3. segments' = g
    BY <2>1 DEF g
  <2>4. Covered(segments)' = Covered(segments) \cup {item}
    BY <2>2, <2>3 DEF Covered
  <2>5. TypeOK'
    <3>1. DOMAIN g \subseteq Items
      BY <2>2 DEF Inv, TypeOK
    <3>2. g \in [DOMAIN g -> {i + 1 : i \in Items}]
      <4>1. \A k \in DOMAIN g : g[k] \in {i + 1 : i \in Items}
        BY <2>2 DEF Inv, TypeOK
      <4> QED BY <4>1, <2>2 DEF IsMap
    <3> QED BY <1>2a, <2>1, <2>3, <3>1, <3>2 DEF Inv, TypeOK
  <2>6. Canonical'
    BY <2>2, <2>3 DEF Canonical, WellFormed
  <2>7. CountExact'
    <3>1. /\ IsFiniteSet(Covered(segments) \cup {item})
          /\ Cardinality(Covered(segments) \cup {item}) = Cardinality(Covered(segments)) + 1
      BY <1>4, FS_AddElement DEF Inv, CountExact
    <3> QED BY <2>1, <2>4, <3>1 DEF Inv, CountExact
  <2> QED BY <1>2, <2>4, <2>5, <2>6, <2>7 DEF Inv
<1> QED BY <1>3, <1>4

LEMMA NextInv == Inv /\ [Next]_vars => Inv'
<1> SUFFICES ASSUME Inv, [Next]_vars PROVE Inv'
  OBVIOUS
<1>1. ASSUME NEW item \in Items, Insert(item) PROVE Inv'
  BY <1>1, InsertStep
<1>2. ASSUME NEW item \in Items, Contains(item) PROVE Inv'
  <2>1. ContainsItem(segments, item) \in BOOLEAN
    BY DEF ContainsItem
  <2> QED BY <1>2, <2>1, ItemsAssumption, ReadStep DEF Contains, Inv, TypeOK
<1>3. CASE Count
  BY <1>3, ReadStep DEF Count, Inv, TypeOK
<1>4. CASE SegmentsCount
  <2>1. IsMap(segments) /\ WellFormed(segments)
    BY TypedIsMap DEF Inv, Canonical
  <2>2. DOMAIN segments \subseteq Covered(segments)
    BY <2>1, KeysAreRunStarts DEF Ids!RunStarts
  <2>3. Cardinality(DOMAIN segments) \in Nat
    BY <2>2, FS_Subset, FS_CardinalityType DEF Inv, CountExact
  <2> QED BY <1>4, <2>3, ReadStep DEF SegmentsCount, Inv, TypeOK
<1>5. CASE UNCHANGED vars
  BY <1>5, ReadStep DEF vars, Inv, TypeOK
<1> QED BY <1>1, <1>2, <1>3, <1>4, <1>5 DEF Next

LEMMA Invariance == Spec => []Inv
BY InitInv, NextInv, PTL DEF Spec

\* Every segment of segments_ starts at an id that was inserted and ends one
\* past one, for every set of ids.
THEOREM SegmentTreeTypeOK == Spec => []TypeOK
BY Invariance, PTL DEF Inv

\* Insert never leaves an empty segment, overlapping segments or two segments
\* that touch, whatever the order of insertion.
THEOREM SegmentTreeCanonical == Spec => []Canonical
BY Invariance, PTL DEF Inv

\* count_, the counter the throttle window reads, is the number of ids the
\* map stands for.
THEOREM SegmentTreeCountExact == Spec => []CountExact
BY Invariance, PTL DEF Inv

\* Both modules count with the same Cardinality.
LEMMA SameCardinality == \A S : Ids!Cardinality(S) = Cardinality(S)
BY Zenon DEF Ids!Cardinality, Cardinality, Ids!IsFiniteSet, IsFiniteSet

\* Every step of the segment tree is a step of the id set: Insert returns
\* whether the id is new, Contains whether it is in, Count the number of ids
\* and SegmentsCount the number of runs.
THEOREM SegmentTreeImplementsIdSet == Spec => ImplementsIdSet
<1>1. Init => Ids!IdInit
  <2> SUFFICES ASSUME Init PROVE Ids!IdInit
    OBVIOUS
  <2>1. Covered(segments) = {}
    BY DEF Init, Covered
  <2> QED BY <2>1 DEF Init, Ids!IdInit, Ids!NoRet, Ids!NoSize
<1>2. Inv /\ [Next]_vars => [Ids!IdNext]_(Ids!idVars)
  <2> SUFFICES ASSUME Inv, [Next]_vars PROVE [Ids!IdNext]_(Ids!idVars)
    OBVIOUS
  <2>0. IsMap(segments) /\ WellFormed(segments)
    BY TypedIsMap DEF Inv, Canonical
  <2>1. ASSUME NEW item \in Items, Insert(item) PROVE Ids!IdInsert(item)
    BY <2>1, InsertStep DEF Insert, Ids!IdInsert
  <2>2. ASSUME NEW item \in Items, Contains(item) PROVE Ids!IdContains(item)
    <3>1. ContainsItem(segments, item) <=> item \in Covered(segments)
      BY <2>0, ItemsAssumption, ContainsIffCovered
    <3> QED BY <2>2, <3>1 DEF Contains, Ids!IdContains, Covered, ContainsItem
  <2>3. ASSUME Count PROVE Ids!IdCount
    BY <2>3, SameCardinality DEF Count, Ids!IdCount, Inv, CountExact, Covered
  <2>4. ASSUME SegmentsCount PROVE Ids!IdSegmentsCount
    <3>1. DOMAIN segments = Ids!RunStarts(Covered(segments))
      BY <2>0, KeysAreRunStarts
    <3>2. UNCHANGED <<Covered(segments), ret>>
      BY <2>4 DEF SegmentsCount, Covered
    <3> QED BY <2>4, <3>1, <3>2, SameCardinality DEF SegmentsCount, Ids!IdSegmentsCount
  <2>5. CASE UNCHANGED vars
    BY <2>5 DEF vars, Ids!idVars, Covered
  <2> QED BY <2>1, <2>2, <2>3, <2>4, <2>5 DEF Next, Ids!IdNext
<1> QED BY <1>1, <1>2, Invariance, PTL DEF Spec, ImplementsIdSet, Ids!IdSpec
=============================================================================
