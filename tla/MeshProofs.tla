----------------------------- MODULE MeshProofs -----------------------------
(***************************************************************************)
(* Proofs about Mesh, for every deployment: any number of parties, worlds  *)
(* and calls.                                                              *)
(*                                                                         *)
(* First the collectives alone: their places, and that the patterns of     *)
(* sends and receives the parties compute fit (CallStarts, CallGoesOn).    *)
(* Then the types, with the counters (TypesKept); what a message in a      *)
(* channel, a filled buffer and a round of a barrier say (CallInv); and    *)
(* how sends and receives match while nothing due was late (FailInv).      *)
(***************************************************************************)
EXTENDS Mesh, FiniteSetTheorems, NaturalsInduction, WellFoundedInduction, TLAPS

-----------------------------------------------------------------------------
(* Arithmetic: remainders and numbers of a single bit.                       *)

\* A multiple of n has remainder 0.
LEMMA MultipleMod ==
  ASSUME NEW n \in Nat \ {0}, NEW q \in Nat
  PROVE  (n * q) % n = 0
  OBVIOUS

\* A number with remainder 0 is a multiple.
LEMMA ZeroMod ==
  ASSUME NEW n \in Nat \ {0}, NEW x \in Nat, x % n = 0
  PROVE  \E q \in Nat : x = n * q
  OBVIOUS

\* What 2i divides, i divides.
LEMMA DoubleDivides ==
  ASSUME NEW i \in Nat \ {0}, NEW x \in Nat, x % (2 * i) = 0
  PROVE  x % i = 0
<1>1. PICK q \in Nat : x = (2 * i) * q
  BY ZeroMod
<1>2. x = i * (2 * q) /\ 2 * q \in Nat
  BY <1>1
<1>. QED
  BY <1>2, MultipleMod

\* An odd multiple of i is one i above a multiple of 2i.
LEMMA OddMultiple ==
  ASSUME NEW i \in Nat \ {0}, NEW x \in Nat, x % (2 * i) # 0, x % i = 0
  PROVE  x >= i /\ (x - i) % (2 * i) = 0
<1>1. PICK q \in Nat : x = i * q
  BY ZeroMod
<1>2. q % 2 = 1
  <2>. SUFFICES ASSUME q % 2 = 0 PROVE FALSE
    BY <1>1
  <2>1. PICK h \in Nat : q = 2 * h
    BY ZeroMod
  <2>2. x = (2 * i) * h
    BY <1>1, <2>1
  <2>. QED
    BY <2>2, MultipleMod
<1>3. PICK h \in Nat : q = 2 * h + 1
  <2>1. q - 1 \in Nat /\ (q - 1) % 2 = 0
    BY <1>2
  <2>2. PICK h \in Nat : q - 1 = 2 * h
    <3>. DEFINE y == q - 1
    <3>1. y \in Nat /\ y % 2 = 0
      BY <2>1
    <3>. HIDE DEF y
    <3>2. \E h \in Nat : y = 2 * h
      BY <3>1, ZeroMod
    <3>. QED
      BY <3>2 DEF y
  <2>. QED
    BY <2>2
<1>4. x = (2 * i) * h + i /\ (2 * i) * h \in Nat
  BY <1>1, <1>3
<1>5. x - i = (2 * i) * h /\ x >= i
  BY <1>4
<1>. QED
  BY <1>5, MultipleMod

\* One i above a multiple of 2i is a multiple of i and not of 2i.
LEMMA NextMultiple ==
  ASSUME NEW i \in Nat \ {0}, NEW x \in Nat, x % (2 * i) = 0
  PROVE  (x + i) % i = 0 /\ (x + i) % (2 * i) # 0
<1>1. PICK q \in Nat : x = (2 * i) * q
  BY ZeroMod
<1>2. x + i = i * (2 * q + 1)
  BY <1>1
<1>3. (x + i) % i = 0
  <2>. DEFINE u == 2 * q + 1
  <2>1. u \in Nat
    OBVIOUS
  <2>. HIDE DEF u
  <2>2. (i * u) % i = 0
    BY <2>1, MultipleMod
  <2>. QED
    BY <1>2, <2>2 DEF u
<1>4. ASSUME (x + i) % (2 * i) = 0 PROVE FALSE
  <2>1. PICK r \in Nat : x + i = (2 * i) * r
    BY <1>4, ZeroMod
  <2>2. i * (2 * q + 1) = i * (2 * r)
    BY <1>2, <2>1
  <2>3. 2 * q + 1 = 2 * r
    BY <2>2
  <2>. QED
    BY <2>3
<1>. QED
  BY <1>3, <1>4

\* The half of a single bit is one.
LEMMA SingleBitOfDouble ==
  ASSUME NEW h \in Nat, HasSingleBit(2 * h)
  PROVE  HasSingleBit(h)
<1>. SUFFICES ASSUME NEW d \in 2 .. h, h % d = 0 PROVE d % 2 = 0
  BY DEF HasSingleBit
<1>1. PICK q \in Nat : h = d * q
  BY ZeroMod
<1>2. 2 * h = d * (2 * q) /\ 2 * q \in Nat
  BY <1>1
<1>3. (2 * h) % d = 0
  <2>. DEFINE u == 2 * q
  <2>1. u \in Nat /\ d \in Nat \ {0}
    OBVIOUS
  <2>. HIDE DEF u
  <2>2. (d * u) % d = 0
    BY <2>1, MultipleMod
  <2>. QED
    BY <1>2, <2>2 DEF u
<1>. QED
  BY <1>3 DEF HasSingleBit

\* Shifting a single bit to the left.
LEMMA SingleBitDouble ==
  ASSUME NEW h \in Nat, HasSingleBit(h)
  PROVE  HasSingleBit(2 * h)
<1>. SUFFICES ASSUME NEW d \in 2 .. (2 * h), (2 * h) % d = 0, d % 2 # 0 PROVE FALSE
  BY DEF HasSingleBit
<1>1. PICK q \in Nat : 2 * h = d * q
  OBVIOUS
<1>2. q % 2 = 0
  <2>. SUFFICES ASSUME q % 2 = 1 PROVE FALSE
    OBVIOUS
  <2>1. PICK a \in Nat : d = 2 * a + 1
    OBVIOUS
  <2>2. PICK b \in Nat : q = 2 * b + 1
    OBVIOUS
  <2>3. d * q = 2 * (2 * (a * b) + a + b) + 1 /\ a * b \in Nat
    BY <2>1, <2>2
  <2>4. PICK e \in Nat : e = a * b
    BY <2>3
  <2>5. 2 * h = 2 * (2 * e + a + b) + 1
    BY <1>1, <2>3, <2>4
  <2>. QED
    BY <2>5
<1>3. PICK b \in Nat : q = 2 * b
  BY <1>2, ZeroMod
<1>4. h = d * b
  <2>1. 2 * h = 2 * (d * b) /\ d * b \in Nat
    BY <1>1, <1>3
  <2>. QED
    BY <2>1
<1>5. b # 0
  BY <1>4
<1>6. h % d = 0
  <2>1. d \in Nat \ {0}
    OBVIOUS
  <2>2. (d * b) % d = 0
    BY <2>1, MultipleMod
  <2>. QED
    BY <1>4, <2>2
<1>7. d <= h
  BY <1>4, <1>5
<1>. QED
  BY <1>6, <1>7 DEF HasSingleBit

\* A set of numbers that is not empty has a least one.
LEMMA LeastOf ==
  ASSUME NEW S \in SUBSET Nat, S # {}
  PROVE  \E k \in S : \A j \in S : k <= j
<1>. DEFINE R == OpToRel(<, Nat)
<1>1. IsWellFoundedOn(R, Nat)
  BY NatLessThanWellFounded
<1>2. PICK x \in S : \A y \in S : ~ (<<y, x>> \in R)
  <2>. HIDE DEF R
  <2>. QED
    BY <1>1, WFMin
<1>3. \A y \in S : ~ (y < x)
  BY <1>2 DEF OpToRel
<1>. QED
  BY <1>3

\* Shifting a single bit to the right, unless it falls out.
LEMMA SingleBitHalf ==
  ASSUME NEW p \in Nat, p > 1, HasSingleBit(p)
  PROVE  p % 2 = 0 /\ p \div 2 \in Nat \ {0} /\ p = 2 * (p \div 2) /\ HasSingleBit(p \div 2)
<1>1. p % 2 = 0 /\ p \div 2 \in Nat \ {0} /\ p = 2 * (p \div 2)
  BY DEF HasSingleBit
<1>. QED
  BY <1>1, SingleBitOfDouble

\* Nothing between a single bit and the next one has a single bit.
LEMMA NoBitBetween ==
  ASSUME NEW p \in Nat \ {0}, NEW q \in Nat, HasSingleBit(p), HasSingleBit(q), p < q
  PROVE  2 * p <= q
<1>. DEFINE Bad == {a \in Nat \ {0} : HasSingleBit(a) /\ \E b \in Nat : HasSingleBit(b) /\ a < b /\ b < 2 * a}
<1>1. SUFFICES ASSUME Bad # {} PROVE FALSE
  <2>1. SUFFICES ASSUME q < 2 * p PROVE FALSE
    OBVIOUS
  <2>2. p \in Bad
    BY <2>1
  <2>. QED
    BY <1>1, <2>2
<1>2. PICK a \in Bad : \A x \in Bad : a <= x
  <2>1. Bad \in SUBSET Nat
    OBVIOUS
  <2>. HIDE DEF Bad
  <2>. QED
    BY <1>1, <2>1, LeastOf
<1>3. PICK b \in Nat : HasSingleBit(b) /\ a < b /\ b < 2 * a
  BY <1>2
<1>4. a \in Nat /\ a > 1 /\ b > 1 /\ HasSingleBit(a)
  BY <1>2, <1>3
<1>5. /\ a \div 2 \in Nat \ {0} /\ a = 2 * (a \div 2) /\ HasSingleBit(a \div 2)
      /\ b \div 2 \in Nat \ {0} /\ b = 2 * (b \div 2) /\ HasSingleBit(b \div 2)
  BY <1>3, <1>4, SingleBitHalf
<1>6. a \div 2 < b \div 2 /\ b \div 2 < 2 * (a \div 2) /\ a \div 2 < a
  BY <1>3, <1>4, <1>5
<1>7. a \div 2 \in Bad
  BY <1>5, <1>6
<1>. QED
  BY <1>2, <1>4, <1>5, <1>6, <1>7

\* std::bit_floor is what its name says: there is such a number.
LEMMA bit_floorFacts ==
  ASSUME NEW n \in Nat \ {0}
  PROVE  bit_floor(n) \in 1 .. n /\ HasSingleBit(bit_floor(n)) /\ n < 2 * bit_floor(n)
<1>. DEFINE S == {n - p : p \in {p \in 1 .. n : HasSingleBit(p)}}
<1>1. S \in SUBSET Nat
  OBVIOUS
<1>2. n - 1 \in S
  <2>1. HasSingleBit(1) /\ 1 \in 1 .. n
    BY DEF HasSingleBit
  <2>. QED
    BY <2>1
<1>3. PICK x \in S : \A y \in S : x <= y
  <2>. HIDE DEF S
  <2>. QED
    BY <1>1, <1>2, LeastOf
<1>4. PICK p \in 1 .. n : HasSingleBit(p) /\ x = n - p
  BY <1>3
<1>5. ASSUME 2 * p <= n PROVE FALSE
  <2>1. 2 * p \in 1 .. n /\ HasSingleBit(2 * p)
    BY <1>4, <1>5, SingleBitDouble
  <2>2. n - 2 * p \in S
    BY <2>1
  <2>3. x <= n - 2 * p
    BY <1>3, <2>2
  <2>. QED
    BY <1>4, <2>3
<1>6. n < 2 * p
  BY <1>5
<1>. QED
  BY <1>4, <1>6 DEF bit_floor

-----------------------------------------------------------------------------
(* Ranks on a ring.                                                          *)

\* RingOffset without the remainder.
LEMMA RingOffsetIs ==
  ASSUME NEW n \in Nat \ {0}, NEW b \in 0 .. (n - 1), NEW e \in 0 .. (n - 1)
  PROVE  RingOffset(b, e, n) = IF e >= b THEN e - b ELSE e - b + n
  BY DEF RingOffset

\* NextRank without the remainder.
LEMMA NextRankIs ==
  ASSUME NEW n \in Nat \ {0}, NEW v \in 0 .. (n - 1), NEW o \in 0 .. (n - 1)
  PROVE  NextRank(v, o, n) = IF v + o < n THEN v + o ELSE v + o - n
  BY DEF NextRank

\* PrevRank without the remainder.
LEMMA PrevRankIs ==
  ASSUME NEW n \in Nat \ {0}, NEW v \in 0 .. (n - 1), NEW o \in 0 .. (n - 1)
  PROVE  PrevRank(v, o, n) = IF v >= o THEN v - o ELSE v - o + n
  BY DEF PrevRank

-----------------------------------------------------------------------------
(* What a collective does, whoever else takes part.  The send and receive    *)
(* patterns are computed by every party for itself; the lemmas below say     *)
(* that they fit.                                                            *)

CallIn(n) == [kind : Kinds, root : 0 .. (n - 1), dst : 0 .. (n - 1)]

PlaceSet == [do : {"send", "recv", "skip", "end"}, i : Nat, received : BOOLEAN]

\* The places party v of n can be at.  The offsets and strides have a single
\* bit; a party of a broadcast has the value by the stride whose double divides
\* its distance from the root.
PlaceOK(c, v, n, l) ==
  /\ l \in PlaceSet
  /\ c.kind # "BCAST" => ~l.received /\ l.do # "skip"
  /\ l.do = "end" => l.i = 0 /\ ~l.received
  /\ l.do # "end" =>
       CASE c.kind = "ALLGATHER" -> l.i \in (0 .. (n - 1)) \ {v}
         [] c.kind = "GATHER" -> IF v = c.root
                                 THEN l.do = "recv" /\ l.i \in (0 .. (n - 1)) \ {v}
                                 ELSE l.do = "send" /\ l.i = c.root
         [] c.kind = "SCATTER" -> IF v = c.root
                                  THEN l.do = "send" /\ l.i \in (0 .. (n - 1)) \ {v}
                                  ELSE l.do = "recv" /\ l.i = c.root
         [] c.kind = "BARRIER" -> l.i \in 1 .. (n - 1) /\ HasSingleBit(l.i)
         [] c.kind = "BCAST" ->
              /\ l.i \in 1 .. n /\ HasSingleBit(l.i)
              /\ l.received <=> RingOffset(c.root, v, n) % (2 * l.i) = 0
              /\ l.do = "send" <=> l.received /\ RingOffset(c.root, v, n) + l.i < n
              /\ l.do = "recv" <=> ~l.received /\ RingOffset(c.root, v, n) % l.i = 0
         [] c.kind = "P2P" -> /\ c.root # c.dst
                              /\ \/ v = c.root /\ l.do = "send" /\ l.i = c.dst
                                 \/ v = c.dst /\ l.do = "recv" /\ l.i = c.root

\* Rank v of n sends to rank d in call c.
Sends(c, n, v, d) ==
  /\ v # d
  /\ CASE c.kind = "ALLGATHER" -> TRUE
       [] c.kind = "GATHER" -> d = c.root
       [] c.kind = "SCATTER" -> v = c.root
       [] c.kind = "P2P" -> v = c.root /\ d = c.dst
       [] c.kind = "BARRIER" -> HasSingleBit(RingOffset(v, d, n))
       [] c.kind = "BCAST" -> /\ HasSingleBit(RingOffset(v, d, n))
                              /\ RingOffset(c.root, v, n) % (2 * RingOffset(v, d, n)) = 0
                              /\ RingOffset(c.root, v, n) + RingOffset(v, d, n) < n

\* Party v, at l, comes to a call that receives from rank "from" later or now.
StillRecvs(c, v, n, l, from) ==
  CASE c.kind = "ALLGATHER" -> l.do = "send" \/ (l.do = "recv" /\ l.i <= from)
    [] c.kind = "GATHER" -> l.do = "recv" /\ l.i <= from
    [] c.kind \in {"SCATTER", "P2P"} -> l.do = "recv"
    [] c.kind = "BARRIER" -> l.do # "end" /\ l.i <= RingOffset(from, v, n)
    [] c.kind = "BCAST" -> \/ l.i > RingOffset(from, v, n)
                           \/ l.do = "recv" /\ l.i = RingOffset(from, v, n)

\* Party v, at l, has the value it wants in a slot.
Has(c, v, l, slot) ==
  CASE c.kind = "ALLGATHER" -> slot = v \/ l.do = "end" \/ (l.do = "recv" /\ slot < l.i)
    [] c.kind = "GATHER" -> \/ slot = v
                            \/ v = c.root /\ (l.do = "end" \/ (l.do = "recv" /\ slot < l.i))
    [] c.kind = "SCATTER" -> v = c.root \/ (l.do = "end" /\ slot = v)
    [] c.kind = "BCAST" -> slot = c.root /\ (v = c.root \/ l.received \/ l.do = "end")
    [] c.kind = "P2P" -> slot = c.root /\ (v = c.root \/ (v = c.dst /\ l.do = "end"))
    [] OTHER -> FALSE

\* Where a call starts: everything is still to do, and the only values are the
\* party's own.
FirstPlace(c, v, n, f) ==
  /\ PlaceOK(c, v, n, f)
  /\ \A d \in 0 .. (n - 1) : /\ Sends(c, n, v, d) => StillSends(c, v, n, f, d)
                             /\ Sends(c, n, d, v) => StillRecvs(c, v, n, f, d)
  /\ \A slot \in 0 .. (n - 1) : Has(c, v, f, slot) =>
       IF c.kind \in {"SCATTER", "BCAST"} THEN v = c.root ELSE slot = v

\* What is true of the peer p of a channel call, and of the place f after it.
ChannelCall(c, v, n, l, f, p) ==
  /\ p \in (0 .. (n - 1)) \ {v}
  /\ l.do = "send" => /\ Sends(c, n, v, p)
                      /\ StillSends(c, v, n, l, p) /\ ~StillSends(c, v, n, f, p)
                      /\ c.kind # "BARRIER" => Has(c, v, l, Slot(c, v, p))
  /\ l.do = "recv" => /\ Sends(c, n, p, v)
                      /\ StillRecvs(c, v, n, l, p) /\ ~StillRecvs(c, v, n, f, p)

\* The place f after l: no peer of the pattern is passed over, none comes twice.
NextPlace(c, v, n, l, f, p) ==
  /\ PlaceOK(c, v, n, f)
  /\ \A d \in 0 .. (n - 1) :
       /\ StillSends(c, v, n, f, d) => StillSends(c, v, n, l, d)
       /\ StillRecvs(c, v, n, f, d) => StillRecvs(c, v, n, l, d)
       /\ Sends(c, n, v, d) /\ StillSends(c, v, n, l, d)
            => StillSends(c, v, n, f, d) \/ (l.do = "send" /\ d = p)
       /\ Sends(c, n, d, v) /\ StillRecvs(c, v, n, l, d)
            => StillRecvs(c, v, n, f, d) \/ (l.do = "recv" /\ d = p)
  /\ \A slot \in 0 .. (n - 1) :
       Has(c, v, f, slot) => Has(c, v, l, slot) \/ (l.do = "recv" /\ slot = Slot(c, p, v))

\* Everyone sends to all and then receives from all.
LEMMA AllGatherFits ==
  ASSUME NEW n \in Nat \ {0}, NEW c \in CallIn(n), c.kind = "ALLGATHER", NEW v \in 0 .. (n - 1)
  PROVE  /\ FirstPlace(c, v, n, AllGather(v, n, Start))
         /\ \A l : PlaceOK(c, v, n, l) /\ l.do # "end" =>
              /\ l.do # "skip" => ChannelCall(c, v, n, l, AllGather(v, n, l), l.i)
              /\ NextPlace(c, v, n, l, AllGather(v, n, l), l.i)
<1>1. FirstPlace(c, v, n, AllGather(v, n, Start))
  BY DEF FirstPlace, AllGather, Start, Place, End, NextPeer, ForOthers, Idx, PlaceOK, PlaceSet,
         Sends, StillSends, StillRecvs, Has, CallIn, Kinds
<1>2. ASSUME NEW l, PlaceOK(c, v, n, l), l.do # "end"
      PROVE  ChannelCall(c, v, n, l, AllGather(v, n, l), l.i) /\ NextPlace(c, v, n, l, AllGather(v, n, l), l.i)
  <2>1. ChannelCall(c, v, n, l, AllGather(v, n, l), l.i)
    BY <1>2 DEF ChannelCall, AllGather, Place, End, NextPeer, ForOthers, Idx, PlaceOK, PlaceSet,
           Sends, StillSends, StillRecvs, Has, Slot, CallIn, Kinds
  <2>2. NextPlace(c, v, n, l, AllGather(v, n, l), l.i)
    BY <1>2 DEF NextPlace, AllGather, Place, End, NextPeer, ForOthers, Idx, PlaceOK, PlaceSet,
           Sends, StillSends, StillRecvs, Has, Slot, CallIn, Kinds
  <2>. QED
    BY <2>1, <2>2
<1>. QED
  BY <1>1, <1>2

\* Everyone sends to the root.
LEMMA GatherFits ==
  ASSUME NEW n \in Nat \ {0}, NEW c \in CallIn(n), c.kind = "GATHER", NEW v \in 0 .. (n - 1)
  PROVE  /\ FirstPlace(c, v, n, Gather(v, n, c.root, Start))
         /\ \A l : PlaceOK(c, v, n, l) /\ l.do # "end" =>
              /\ l.do # "skip" => ChannelCall(c, v, n, l, Gather(v, n, c.root, l), l.i)
              /\ NextPlace(c, v, n, l, Gather(v, n, c.root, l), l.i)
<1>1. FirstPlace(c, v, n, Gather(v, n, c.root, Start))
  BY DEF FirstPlace, Gather, Start, Place, End, NextPeer, ForOthers, Idx, PlaceOK, PlaceSet,
         Sends, StillSends, StillRecvs, Has, CallIn, Kinds
<1>2. ASSUME NEW l, PlaceOK(c, v, n, l), l.do # "end"
      PROVE  ChannelCall(c, v, n, l, Gather(v, n, c.root, l), l.i) /\ NextPlace(c, v, n, l, Gather(v, n, c.root, l), l.i)
  <2>1. ChannelCall(c, v, n, l, Gather(v, n, c.root, l), l.i)
    BY <1>2 DEF ChannelCall, Gather, Place, End, NextPeer, ForOthers, Idx, PlaceOK, PlaceSet,
           Sends, StillSends, StillRecvs, Has, Slot, CallIn, Kinds
  <2>2. NextPlace(c, v, n, l, Gather(v, n, c.root, l), l.i)
    BY <1>2 DEF NextPlace, Gather, Place, End, NextPeer, ForOthers, Idx, PlaceOK, PlaceSet,
           Sends, StillSends, StillRecvs, Has, Slot, CallIn, Kinds
  <2>. QED
    BY <2>1, <2>2
<1>. QED
  BY <1>1, <1>2

\* The root sends to everyone.
LEMMA ScatterFits ==
  ASSUME NEW n \in Nat \ {0}, NEW c \in CallIn(n), c.kind = "SCATTER", NEW v \in 0 .. (n - 1)
  PROVE  /\ FirstPlace(c, v, n, Scatter(v, n, c.root, Start))
         /\ \A l : PlaceOK(c, v, n, l) /\ l.do # "end" =>
              /\ l.do # "skip" => ChannelCall(c, v, n, l, Scatter(v, n, c.root, l), l.i)
              /\ NextPlace(c, v, n, l, Scatter(v, n, c.root, l), l.i)
<1>1. FirstPlace(c, v, n, Scatter(v, n, c.root, Start))
  BY DEF FirstPlace, Scatter, Start, Place, End, NextPeer, ForOthers, Idx, PlaceOK, PlaceSet,
         Sends, StillSends, StillRecvs, Has, CallIn, Kinds
<1>2. ASSUME NEW l, PlaceOK(c, v, n, l), l.do # "end"
      PROVE  ChannelCall(c, v, n, l, Scatter(v, n, c.root, l), l.i) /\ NextPlace(c, v, n, l, Scatter(v, n, c.root, l), l.i)
  <2>1. ChannelCall(c, v, n, l, Scatter(v, n, c.root, l), l.i)
    BY <1>2 DEF ChannelCall, Scatter, Place, End, NextPeer, ForOthers, Idx, PlaceOK, PlaceSet,
           Sends, StillSends, StillRecvs, Has, Slot, CallIn, Kinds
  <2>2. NextPlace(c, v, n, l, Scatter(v, n, c.root, l), l.i)
    BY <1>2 DEF NextPlace, Scatter, Place, End, NextPeer, ForOthers, Idx, PlaceOK, PlaceSet,
           Sends, StillSends, StillRecvs, Has, Slot, CallIn, Kinds
  <2>. QED
    BY <2>1, <2>2
<1>. QED
  BY <1>1, <1>2

\* One party sends, one receives.
LEMMA P2PFits ==
  ASSUME NEW n \in Nat \ {0}, NEW c \in CallIn(n), c.kind = "P2P", NEW v \in 0 .. (n - 1)
  PROVE  /\ FirstPlace(c, v, n, P2P(v, c.root, c.dst, Start))
         /\ \A l : PlaceOK(c, v, n, l) /\ l.do # "end" =>
              /\ l.do # "skip" => ChannelCall(c, v, n, l, P2P(v, c.root, c.dst, l), l.i)
              /\ NextPlace(c, v, n, l, P2P(v, c.root, c.dst, l), l.i)
<1>1. FirstPlace(c, v, n, P2P(v, c.root, c.dst, Start))
  BY DEF FirstPlace, P2P, Start, Place, End, NextPeer, ForOthers, Idx, PlaceOK, PlaceSet,
         Sends, StillSends, StillRecvs, Has, CallIn, Kinds
<1>2. ASSUME NEW l, PlaceOK(c, v, n, l), l.do # "end"
      PROVE  ChannelCall(c, v, n, l, P2P(v, c.root, c.dst, l), l.i) /\ NextPlace(c, v, n, l, P2P(v, c.root, c.dst, l), l.i)
  <2>1. ChannelCall(c, v, n, l, P2P(v, c.root, c.dst, l), l.i)
    BY <1>2 DEF ChannelCall, P2P, Place, End, NextPeer, ForOthers, Idx, PlaceOK, PlaceSet,
           Sends, StillSends, StillRecvs, Has, Slot, CallIn, Kinds
  <2>2. NextPlace(c, v, n, l, P2P(v, c.root, c.dst, l), l.i)
    BY <1>2 DEF NextPlace, P2P, Place, End, NextPeer, ForOthers, Idx, PlaceOK, PlaceSet,
           Sends, StillSends, StillRecvs, Has, Slot, CallIn, Kinds
  <2>. QED
    BY <2>1, <2>2
<1>. QED
  BY <1>1, <1>2

\* Offsets of the barrier as peers: the party a message of an offset goes to or
\* comes from is at that distance on the ring, and the only one.
LEMMA AtOffset ==
  ASSUME NEW n \in Nat \ {0}, NEW v \in 0 .. (n - 1), NEW o \in 1 .. (n - 1)
  PROVE  /\ NextRank(v, o, n) \in (0 .. (n - 1)) \ {v} /\ RingOffset(v, NextRank(v, o, n), n) = o
         /\ PrevRank(v, o, n) \in (0 .. (n - 1)) \ {v} /\ RingOffset(PrevRank(v, o, n), v, n) = o
<1>0. o \in 0 .. (n - 1)
  OBVIOUS
<1>a. NextRank(v, o, n) = IF v + o < n THEN v + o ELSE v + o - n
  BY <1>0, NextRankIs
<1>b. PrevRank(v, o, n) = IF v >= o THEN v - o ELSE v - o + n
  BY <1>0, PrevRankIs
<1>1. NextRank(v, o, n) \in (0 .. (n - 1)) \ {v} /\ PrevRank(v, o, n) \in (0 .. (n - 1)) \ {v}
  BY <1>a, <1>b
<1>2. RingOffset(v, NextRank(v, o, n), n) = o
  BY <1>1, <1>a, RingOffsetIs
<1>3. RingOffset(PrevRank(v, o, n), v, n) = o
  BY <1>1, <1>b, RingOffsetIs
<1>. QED
  BY <1>1, <1>2, <1>3

\* The distance of two ranks, and back.
LEMMA OffsetOf ==
  ASSUME NEW n \in Nat \ {0}, NEW v \in 0 .. (n - 1), NEW d \in 0 .. (n - 1)
  PROVE  /\ RingOffset(v, d, n) \in 0 .. (n - 1)
         /\ v # d => RingOffset(v, d, n) # 0
         /\ NextRank(v, RingOffset(v, d, n), n) = d
         /\ PrevRank(d, RingOffset(v, d, n), n) = v
<1>1. RingOffset(v, d, n) \in 0 .. (n - 1) /\ (v # d => RingOffset(v, d, n) # 0)
  BY RingOffsetIs
<1>2. NextRank(v, RingOffset(v, d, n), n) = d
  BY <1>1, NextRankIs, RingOffsetIs
<1>3. PrevRank(d, RingOffset(v, d, n), n) = v
  BY <1>1, PrevRankIs, RingOffsetIs
<1>. QED
  BY <1>1, <1>2, <1>3

\* A round of the barrier, and what follows it.
LEMMA BarrierFits ==
  ASSUME NEW n \in Nat \ {0}, NEW c \in CallIn(n), c.kind = "BARRIER", NEW v \in 0 .. (n - 1)
  PROVE  /\ FirstPlace(c, v, n, Barrier(v, n, Start))
         /\ \A l : PlaceOK(c, v, n, l) /\ l.do # "end" =>
              /\ l.do # "skip" => ChannelCall(c, v, n, l, Barrier(v, n, l), PeerOf(c, v, n, l))
              /\ NextPlace(c, v, n, l, Barrier(v, n, l), PeerOf(c, v, n, l))
<1>0. \A d \in 0 .. (n - 1) : /\ RingOffset(v, d, n) \in 0 .. (n - 1) /\ (v # d => RingOffset(v, d, n) # 0)
                              /\ RingOffset(d, v, n) \in 0 .. (n - 1) /\ (v # d => RingOffset(d, v, n) # 0)
  BY OffsetOf
<1>1. FirstPlace(c, v, n, Barrier(v, n, Start))
  <2>1. HasSingleBit(1)
    BY DEF HasSingleBit
  <2>. QED
    BY <1>0, <2>1 DEF FirstPlace, Barrier, Start, Place, End, PlaceOK, PlaceSet,
           Sends, StillSends, StillRecvs, Has, CallIn, Kinds
<1>2. ASSUME NEW l, PlaceOK(c, v, n, l), l.do # "end"
      PROVE  /\ ChannelCall(c, v, n, l, Barrier(v, n, l), PeerOf(c, v, n, l))
             /\ NextPlace(c, v, n, l, Barrier(v, n, l), PeerOf(c, v, n, l))
  <2>. DEFINE p == PeerOf(c, v, n, l)
              f == Barrier(v, n, l)
  <2>0. l \in PlaceSet /\ l.do \in {"send", "recv"} /\ l.i \in 1 .. (n - 1) /\ HasSingleBit(l.i) /\ ~l.received
    BY <1>2 DEF PlaceOK, PlaceSet
  <2>1. /\ p \in (0 .. (n - 1)) \ {v}
        /\ l.do = "send" => RingOffset(v, p, n) = l.i
        /\ l.do = "recv" => RingOffset(p, v, n) = l.i
    <3>. DEFINE o == l.i
    <3>1. o \in 1 .. (n - 1)
      BY <2>0
    <3>2. /\ NextRank(v, o, n) \in (0 .. (n - 1)) \ {v} /\ RingOffset(v, NextRank(v, o, n), n) = o
          /\ PrevRank(v, o, n) \in (0 .. (n - 1)) \ {v} /\ RingOffset(PrevRank(v, o, n), v, n) = o
      <4>. HIDE DEF o
      <4>. QED
        BY <3>1, AtOffset
    <3>. QED
      BY <2>0, <3>2 DEF PeerOf
  <2>2. ChannelCall(c, v, n, l, f, p)
    <3>. HIDE DEF p
    <3>. QED
      BY <2>0, <2>1 DEF ChannelCall, Barrier, Place, End, Sends, StillSends, StillRecvs
  <2>3. PlaceOK(c, v, n, f)
    <3>1. HasSingleBit(2 * l.i)
      BY <2>0, SingleBitDouble
    <3>. QED
      BY <2>0, <3>1 DEF PlaceOK, PlaceSet, Barrier, Place, End
  <2>4. ASSUME NEW d \in 0 .. (n - 1)
        PROVE  /\ StillSends(c, v, n, f, d) => StillSends(c, v, n, l, d)
               /\ StillRecvs(c, v, n, f, d) => StillRecvs(c, v, n, l, d)
    BY <1>0, <2>0 DEF Barrier, Place, End, StillSends, StillRecvs
  <2>5. ASSUME NEW d \in 0 .. (n - 1), Sends(c, n, v, d), StillSends(c, v, n, l, d)
        PROVE  StillSends(c, v, n, f, d) \/ (l.do = "send" /\ d = p)
    <3>. DEFINE o == RingOffset(v, d, n)
    <3>1. o \in 1 .. (n - 1) /\ HasSingleBit(o)
      BY <1>0, <2>5 DEF Sends
    <3>2. l.i < o => 2 * l.i <= o
      BY <2>0, <3>1, NoBitBetween
    <3>3. l.do = "send" /\ l.i = o => d = p
      BY OffsetOf DEF PeerOf
    <3>. HIDE DEF p
    <3>. QED
      BY <1>0, <2>0, <2>5, <3>1, <3>2, <3>3 DEF Barrier, Place, End, StillSends
  <2>6. ASSUME NEW d \in 0 .. (n - 1), Sends(c, n, d, v), StillRecvs(c, v, n, l, d)
        PROVE  StillRecvs(c, v, n, f, d) \/ (l.do = "recv" /\ d = p)
    <3>. DEFINE o == RingOffset(d, v, n)
    <3>1. o \in 1 .. (n - 1) /\ HasSingleBit(o)
      BY <1>0, <2>6 DEF Sends
    <3>2. l.i < o => 2 * l.i <= o
      BY <2>0, <3>1, NoBitBetween
    <3>3. l.do = "recv" /\ l.i = o => d = p
      BY OffsetOf DEF PeerOf
    <3>. HIDE DEF p
    <3>. QED
      BY <1>0, <2>0, <2>6, <3>1, <3>2, <3>3 DEF Barrier, Place, End, StillRecvs
  <2>. QED
    BY <2>2, <2>3, <2>4, <2>5, <2>6 DEF NextPlace, Has
<1>. QED
  BY <1>1, <1>2

\* Distances add up while they do not go round the ring.
LEMMA OffsetsAdd ==
  ASSUME NEW n \in Nat \ {0}, NEW r \in 0 .. (n - 1), NEW v \in 0 .. (n - 1), NEW d \in 0 .. (n - 1),
         RingOffset(r, v, n) + RingOffset(v, d, n) < n
  PROVE  RingOffset(r, d, n) = RingOffset(r, v, n) + RingOffset(v, d, n)
  BY RingOffsetIs

\* Where a broadcast starts: the root has the value.
LEMMA BroadcastStarts ==
  ASSUME NEW n \in Nat \ {0}, NEW c \in CallIn(n), c.kind = "BCAST", NEW v \in 0 .. (n - 1)
  PROVE  FirstPlace(c, v, n, Broadcast(v, n, c.root, Start))
<1>. DEFINE f == Broadcast(v, n, c.root, Start)
            vr == RingOffset(c.root, v, n)
            b == bit_floor(n)
<1>0. c.root \in 0 .. (n - 1) /\ vr \in 0 .. (n - 1) /\ (vr = 0 <=> v = c.root)
  <2>1. c.root \in 0 .. (n - 1)
    BY DEF CallIn
  <2>2. vr = IF v >= c.root THEN v - c.root ELSE v - c.root + n
    BY <2>1, RingOffsetIs
  <2>. HIDE DEF vr
  <2>. QED
    BY <2>1, <2>2
<1>1. b \in 1 .. n /\ HasSingleBit(b) /\ n < 2 * b
  BY bit_floorFacts
<1>2. vr % (2 * b) = 0 <=> vr = 0
  <2>1. 2 * b \in Nat \ {0} /\ vr \in 0 .. (2 * b - 1)
    BY <1>0, <1>1
  <2>2. vr % (2 * b) = vr
    <3>. HIDE DEF b, vr
    <3>. QED
      BY <2>1
  <2>. QED
    BY <2>2
<1>3. /\ f.i = b /\ (f.received <=> vr = 0)
      /\ f.do = IF vr = 0 THEN IF vr + b < n THEN "send" ELSE "skip"
                ELSE IF vr % b = 0 THEN "recv" ELSE "skip"
      /\ f \in PlaceSet
  <2>1. f = [do |-> IF vr = 0 THEN IF vr + b < n THEN "send" ELSE "skip"
                    ELSE IF vr % b = 0 THEN "recv" ELSE "skip",
             i |-> b, received |-> (vr = 0)]
    <3>1. b # 0
      BY <1>1
    <3>. QED
      BY <3>1 DEF Broadcast, Start, Place, Received
  <2>2. b \in Nat
    BY <1>1
  <2>. HIDE DEF f, b, vr
  <2>. QED
    BY <2>1, <2>2 DEF PlaceSet
<1>. HIDE DEF f
<1>4. PlaceOK(c, v, n, f)
  BY <1>0, <1>1, <1>2, <1>3 DEF PlaceOK, CallIn, Kinds
<1>5. ASSUME NEW d \in 0 .. (n - 1), Sends(c, n, v, d)
      PROVE  StillSends(c, v, n, f, d)
  <2>. DEFINE o == RingOffset(v, d, n)
  <2>1. o \in 1 .. (n - 1) /\ HasSingleBit(o) /\ vr % (2 * o) = 0 /\ vr + o < n
    BY <1>5, OffsetOf DEF Sends
  <2>2. o <= b
    <3>. HIDE DEF o, b
    <3>. QED
      BY <1>1, <2>1, NoBitBetween
  <2>3. o = b => f.do = "send"
    BY <1>2, <1>3, <2>1
  <2>. QED
    BY <1>1, <1>3, <2>1, <2>2, <2>3 DEF StillSends
<1>6. ASSUME NEW d \in 0 .. (n - 1), Sends(c, n, d, v)
      PROVE  StillRecvs(c, v, n, f, d)
  <2>. DEFINE o == RingOffset(d, v, n)
              vd == RingOffset(c.root, d, n)
  <2>1. o \in 1 .. (n - 1) /\ HasSingleBit(o) /\ vd % (2 * o) = 0 /\ vd + o < n /\ vd \in Nat
    BY <1>0, <1>6, OffsetOf DEF Sends
  <2>2. vr = vd + o
    BY <1>0, <2>1, OffsetsAdd
  <2>3. vr % o = 0 /\ vr % (2 * o) # 0
    <3>. HIDE DEF o, vd, vr
    <3>1. o \in Nat \ {0}
      BY <2>1
    <3>2. (vd + o) % o = 0 /\ (vd + o) % (2 * o) # 0
      BY <2>1, <3>1, NextMultiple
    <3>. QED
      BY <2>2, <3>2
  <2>4. o <= b
    <3>. HIDE DEF o, b
    <3>. QED
      BY <1>1, <2>1, NoBitBetween
  <2>5. o = b => f.do = "recv"
    BY <1>2, <1>3, <2>3
  <2>. QED
    BY <1>1, <1>3, <2>1, <2>4, <2>5 DEF StillRecvs
<1>7. \A slot \in 0 .. (n - 1) : Has(c, v, f, slot) => v = c.root
  BY <1>0, <1>3 DEF Has
<1>. QED
  BY <1>4, <1>5, <1>6, <1>7 DEF FirstPlace, f

\* The peer of a channel call of a broadcast: the distance is the stride, and the
\* sender has the value when its turn comes.
LEMMA BroadcastCalls ==
  ASSUME NEW n \in Nat \ {0}, NEW c \in CallIn(n), c.kind = "BCAST", NEW v \in 0 .. (n - 1),
         NEW l, PlaceOK(c, v, n, l), l.do \in {"send", "recv"}
  PROVE  /\ PeerOf(c, v, n, l) \in (0 .. (n - 1)) \ {v}
         /\ l.do = "send" => /\ Sends(c, n, v, PeerOf(c, v, n, l))
                             /\ RingOffset(v, PeerOf(c, v, n, l), n) = l.i
         /\ l.do = "recv" => /\ Sends(c, n, PeerOf(c, v, n, l), v)
                             /\ RingOffset(PeerOf(c, v, n, l), v, n) = l.i
<1>. DEFINE p == PeerOf(c, v, n, l)
            vr == RingOffset(c.root, v, n)
            o == l.i
<1>0. c.root \in 0 .. (n - 1) /\ vr \in 0 .. (n - 1)
  <2>1. c.root \in 0 .. (n - 1)
    BY DEF CallIn
  <2>. QED
    BY <2>1, OffsetOf
<1>1. /\ o \in 1 .. n /\ HasSingleBit(o) /\ l.do # "end"
      /\ l.received <=> vr % (2 * o) = 0
      /\ l.do = "send" <=> l.received /\ vr + o < n
      /\ l.do = "recv" <=> ~l.received /\ vr % o = 0
  BY DEF PlaceOK
<1>2. l.do = "recv" => vr >= o /\ (vr - o) % (2 * o) = 0
  <2>. HIDE DEF vr, o
  <2>1. o \in Nat \ {0} /\ vr \in Nat
    BY <1>0, <1>1
  <2>. QED
    BY <1>1, <2>1, OddMultiple
<1>3. o \in 1 .. (n - 1)
  BY <1>0, <1>1, <1>2
<1>4. /\ NextRank(v, o, n) \in (0 .. (n - 1)) \ {v} /\ RingOffset(v, NextRank(v, o, n), n) = o
      /\ PrevRank(v, o, n) \in (0 .. (n - 1)) \ {v} /\ RingOffset(PrevRank(v, o, n), v, n) = o
  <2>. HIDE DEF o
  <2>. QED
    BY <1>3, AtOffset
<1>5. p = IF l.do = "send" THEN NextRank(v, o, n) ELSE PrevRank(v, o, n)
  BY DEF PeerOf
<1>6. p \in (0 .. (n - 1)) \ {v}
  BY <1>4, <1>5
<1>7. ASSUME l.do = "send" PROVE Sends(c, n, v, p) /\ RingOffset(v, p, n) = o
  <2>1. RingOffset(v, p, n) = o
    BY <1>4, <1>5, <1>7
  <2>. HIDE DEF p, o, vr
  <2>. QED
    BY <1>1, <1>6, <1>7, <2>1 DEF Sends, vr
<1>8. ASSUME l.do = "recv" PROVE Sends(c, n, p, v) /\ RingOffset(p, v, n) = o
  <2>1. RingOffset(p, v, n) = o
    BY <1>4, <1>5, <1>8
  <2>2. RingOffset(c.root, p, n) = vr - o
    <3>1. p = IF v >= o THEN v - o ELSE v - o + n
      BY <1>3, <1>5, <1>8, PrevRankIs
    <3>2. vr = IF v >= c.root THEN v - c.root ELSE v - c.root + n
      BY <1>0, RingOffsetIs
    <3>3. p \in 0 .. (n - 1)
      BY <1>6
    <3>. HIDE DEF p, o, vr
    <3>4. RingOffset(c.root, p, n) = IF p >= c.root THEN p - c.root ELSE p - c.root + n
      BY <1>0, <3>3, RingOffsetIs
    <3>. QED
      BY <1>0, <1>2, <1>3, <1>8, <3>1, <3>2, <3>3, <3>4
  <2>. HIDE DEF p, o, vr
  <2>. QED
    BY <1>0, <1>1, <1>2, <1>3, <1>6, <1>8, <2>1, <2>2 DEF Sends
<1>. QED
  BY <1>6, <1>7, <1>8

\* The next stride of a broadcast.
LEMMA BroadcastGoesOn ==
  ASSUME NEW n \in Nat \ {0}, NEW c \in CallIn(n), c.kind = "BCAST", NEW v \in 0 .. (n - 1),
         NEW l, PlaceOK(c, v, n, l), l.do # "end"
  PROVE  /\ l.do # "skip" => ChannelCall(c, v, n, l, Broadcast(v, n, c.root, l), PeerOf(c, v, n, l))
         /\ NextPlace(c, v, n, l, Broadcast(v, n, c.root, l), PeerOf(c, v, n, l))
<1>. DEFINE f == Broadcast(v, n, c.root, l)
            p == PeerOf(c, v, n, l)
            vr == RingOffset(c.root, v, n)
            s == l.i
            h == l.i \div 2
<1>0. c.root \in 0 .. (n - 1) /\ vr \in Nat /\ vr < n
  <2>1. c.root \in 0 .. (n - 1)
    BY DEF CallIn
  <2>2. vr \in 0 .. (n - 1)
    BY <2>1, OffsetOf
  <2>. HIDE DEF vr
  <2>. QED
    BY <2>1, <2>2
<1>1. /\ s \in 1 .. n /\ HasSingleBit(s) /\ l \in PlaceSet
      /\ l.received <=> vr % (2 * s) = 0
      /\ l.do = "send" <=> l.received /\ vr + s < n
      /\ l.do = "recv" <=> ~l.received /\ vr % s = 0
  BY DEF PlaceOK
<1>2. /\ l.do \in {"send", "recv"} => p \in (0 .. (n - 1)) \ {v}
      /\ l.do = "send" => Sends(c, n, v, p) /\ RingOffset(v, p, n) = s
      /\ l.do = "recv" => Sends(c, n, p, v) /\ RingOffset(p, v, n) = s
  BY BroadcastCalls
<1>3. ~l.received /\ l.do # "recv" <=> vr % s # 0
  <2>1. vr % (2 * s) = 0 => vr % s = 0
    <3>. HIDE DEF vr, s
    <3>1. s \in Nat \ {0}
      BY <1>1
    <3>. QED
      BY <1>0, <3>1, DoubleDivides
  <2>. QED
    BY <1>1, <2>1
<1>4. CASE s = 1
  <2>1. f = End /\ vr % s = 0
    <3>1. h = 0
      BY <1>4
    <3>2. vr % s = 0
      BY <1>0, <1>4
    <3>. QED
      BY <1>1, <3>1, <3>2 DEF Broadcast, PlaceSet
  <2>2. PlaceOK(c, v, n, f)
    BY <2>1 DEF PlaceOK, End, Place, PlaceSet
  <2>3. \A d \in 0 .. (n - 1) : /\ ~StillSends(c, v, n, f, d) /\ ~StillRecvs(c, v, n, f, d)
    BY <2>1, OffsetOf DEF StillSends, StillRecvs, End, Place
  <2>4. ASSUME NEW d \in 0 .. (n - 1), Sends(c, n, v, d), StillSends(c, v, n, l, d)
        PROVE  l.do = "send" /\ d = p
    <3>. DEFINE o == RingOffset(v, d, n)
    <3>1. o \in 1 .. (n - 1) /\ NextRank(v, o, n) = d
      BY <2>4, OffsetOf DEF Sends
    <3>2. o = s /\ l.do = "send"
      BY <1>4, <2>4, <3>1 DEF StillSends
    <3>. QED
      BY <3>1, <3>2 DEF PeerOf
  <2>5. ASSUME NEW d \in 0 .. (n - 1), Sends(c, n, d, v), StillRecvs(c, v, n, l, d)
        PROVE  l.do = "recv" /\ d = p
    <3>. DEFINE o == RingOffset(d, v, n)
    <3>1. o \in 1 .. (n - 1) /\ PrevRank(v, o, n) = d
      BY <2>5, OffsetOf DEF Sends
    <3>2. o = s /\ l.do = "recv"
      BY <1>4, <2>5, <3>1 DEF StillRecvs
    <3>. QED
      BY <3>1, <3>2 DEF PeerOf
  <2>6. \A slot \in 0 .. (n - 1) :
          Has(c, v, f, slot) => Has(c, v, l, slot) \/ (l.do = "recv" /\ slot = Slot(c, p, v))
    BY <1>3, <2>1 DEF Has, Slot
  <2>7. /\ l.do = "send" => StillSends(c, v, n, l, p) /\ Has(c, v, l, Slot(c, v, p))
        /\ l.do = "recv" => StillRecvs(c, v, n, l, p)
    BY <1>1, <1>2 DEF StillSends, StillRecvs, Has, Slot
  <2>8. l.do # "skip" => ChannelCall(c, v, n, l, f, p)
    <3>. HIDE DEF f, p
    <3>1. l.do # "skip" => l.do \in {"send", "recv"}
      BY <1>1 DEF PlaceSet
    <3>. QED
      BY <1>2, <2>3, <2>7, <3>1 DEF ChannelCall
  <2>9. NextPlace(c, v, n, l, f, p)
    <3>. HIDE DEF f, p
    <3>. QED
      BY <2>2, <2>3, <2>4, <2>5, <2>6 DEF NextPlace
  <2>. QED
    BY <2>8, <2>9
<1>5. CASE s > 1
  <2>0. h \in Nat \ {0} /\ s = 2 * h /\ HasSingleBit(h) /\ h < n
    <3>1. s \in Nat
      BY <1>1
    <3>2. s \div 2 \in Nat \ {0} /\ s = 2 * (s \div 2) /\ HasSingleBit(s \div 2)
      <4>. HIDE DEF s
      <4>. QED
        BY <1>1, <1>5, <3>1, SingleBitHalf
    <3>. QED
      BY <1>1, <3>2
  <2>1. f = [do |-> IF vr % s = 0 THEN IF vr + h < n THEN "send" ELSE "skip"
                    ELSE IF vr % h = 0 THEN "recv" ELSE "skip",
             i |-> h, received |-> (vr % s = 0)]
    <3>1. Received(vr, l) = (vr % s = 0)
      <4>1. l.do # "start" /\ l.received \in BOOLEAN
        BY <1>1 DEF PlaceSet
      <4>. QED
        BY <1>3, <4>1 DEF Received
    <3>2. l.do # "start" /\ h # 0
      BY <1>1, <2>0 DEF PlaceSet
    <3>. QED
      BY <3>1, <3>2 DEF Broadcast
  <2>2. /\ f \in PlaceSet /\ f.i = h /\ f.do # "end"
        /\ f.received <=> vr % (2 * h) = 0
        /\ f.do = "send" <=> f.received /\ vr + h < n
        /\ f.do = "recv" <=> ~f.received /\ vr % h = 0
    <3>. HIDE DEF f, h, s, vr
    <3>. QED
      BY <2>0, <2>1 DEF PlaceSet
  <2>. HIDE DEF f
  <2>3. PlaceOK(c, v, n, f)
    <3>. HIDE DEF h
    <3>. QED
      BY <2>0, <2>2 DEF PlaceOK
  <2>4. ASSUME NEW d \in 0 .. (n - 1)
        PROVE  /\ StillSends(c, v, n, f, d) => StillSends(c, v, n, l, d)
               /\ StillRecvs(c, v, n, f, d) => StillRecvs(c, v, n, l, d)
    <3>0. RingOffset(v, d, n) \in 0 .. (n - 1) /\ RingOffset(d, v, n) \in 0 .. (n - 1)
      BY OffsetOf
    <3>1. RingOffset(v, d, n) \in Nat /\ RingOffset(d, v, n) \in Nat
      BY <3>0
    <3>2. h \in Nat /\ l.i \in Nat /\ h < l.i
      BY <1>1, <2>0
    <3>. HIDE DEF h
    <3>. QED
      BY <2>2, <3>1, <3>2 DEF StillSends, StillRecvs
  <2>5. ASSUME NEW d \in 0 .. (n - 1), Sends(c, n, v, d), StillSends(c, v, n, l, d)
        PROVE  StillSends(c, v, n, f, d) \/ (l.do = "send" /\ d = p)
    <3>. DEFINE o == RingOffset(v, d, n)
    <3>1. o \in 1 .. (n - 1) /\ NextRank(v, o, n) = d /\ HasSingleBit(o) /\ vr % (2 * o) = 0 /\ vr + o < n
      BY <2>5, OffsetOf DEF Sends
    <3>2. s > o \/ (l.do = "send" /\ s = o)
      BY <2>5 DEF StillSends
    <3>3. l.do = "send" /\ s = o => d = p
      BY <3>1 DEF PeerOf
    <3>4. s > o => h >= o
      <4>. HIDE DEF h, s, o
      <4>. QED
        BY <1>1, <2>0, <3>1, NoBitBetween
    <3>5. h = o => f.do = "send"
      BY <2>2, <3>1
    <3>. HIDE DEF h, p
    <3>. QED
      BY <2>0, <2>2, <3>1, <3>2, <3>3, <3>4, <3>5 DEF StillSends
  <2>6. ASSUME NEW d \in 0 .. (n - 1), Sends(c, n, d, v), StillRecvs(c, v, n, l, d)
        PROVE  StillRecvs(c, v, n, f, d) \/ (l.do = "recv" /\ d = p)
    <3>. DEFINE o == RingOffset(d, v, n)
                vd == RingOffset(c.root, d, n)
    <3>1. /\ o \in 1 .. (n - 1) /\ PrevRank(v, o, n) = d /\ HasSingleBit(o)
          /\ vd \in Nat /\ vd % (2 * o) = 0 /\ vd + o < n
      BY <1>0, <2>6, OffsetOf DEF Sends
    <3>2. s > o \/ (l.do = "recv" /\ s = o)
      BY <2>6 DEF StillRecvs
    <3>3. l.do = "recv" /\ s = o => d = p
      BY <3>1 DEF PeerOf
    <3>4. s > o => h >= o
      <4>. HIDE DEF h, s, o
      <4>. QED
        BY <1>1, <2>0, <3>1, NoBitBetween
    <3>5. vr = vd + o
      BY <1>0, <3>1, OffsetsAdd
    <3>6. vr % o = 0 /\ vr % (2 * o) # 0
      <4>. HIDE DEF o, vd, vr
      <4>1. o \in Nat \ {0}
        BY <3>1
      <4>2. (vd + o) % o = 0 /\ (vd + o) % (2 * o) # 0
        BY <3>1, <4>1, NextMultiple
      <4>. QED
        BY <3>5, <4>2
    <3>7. h = o => f.do = "recv"
      BY <2>2, <3>6
    <3>. HIDE DEF h, p
    <3>. QED
      BY <2>0, <2>2, <3>1, <3>2, <3>3, <3>4, <3>7 DEF StillRecvs
  <2>7. \A slot \in 0 .. (n - 1) :
          Has(c, v, f, slot) => Has(c, v, l, slot) \/ (l.do = "recv" /\ slot = Slot(c, p, v))
    BY <1>3, <2>0, <2>2 DEF Has, Slot
  <2>8. /\ l.do = "send" => StillSends(c, v, n, l, p) /\ ~StillSends(c, v, n, f, p)
        /\ l.do = "recv" => StillRecvs(c, v, n, l, p) /\ ~StillRecvs(c, v, n, f, p)
    <3>1. h < s /\ h \in Nat /\ s \in Nat
      BY <1>1, <2>0
    <3>. HIDE DEF h, p
    <3>. QED
      BY <1>2, <2>2, <3>1 DEF StillSends, StillRecvs
  <2>9. l.do = "send" => Has(c, v, l, Slot(c, v, p))
    BY <1>1 DEF Has, Slot
  <2>10. l.do # "skip" => ChannelCall(c, v, n, l, f, p)
    <3>1. l.do # "skip" => l.do \in {"send", "recv"}
      BY <1>1 DEF PlaceSet
    <3>. HIDE DEF p
    <3>. QED
      BY <1>2, <2>8, <2>9, <3>1 DEF ChannelCall
  <2>11. NextPlace(c, v, n, l, f, p)
    <3>. HIDE DEF p
    <3>. QED
      BY <2>3, <2>4, <2>5, <2>6, <2>7 DEF NextPlace
  <2>. QED
    BY <2>10, <2>11 DEF f
<1>. QED
  BY <1>1, <1>4, <1>5

\* All collectives: where they start and how they go on.
LEMMA CallStarts ==
  ASSUME NEW n \in Nat \ {0}, NEW c \in CallIn(n), NEW v \in 0 .. (n - 1)
  PROVE  FirstPlace(c, v, n, Following(c, v, n, Start))
<1>1. c.kind \in Kinds
  BY DEF CallIn
<1>. QED
  BY <1>1, AllGatherFits, GatherFits, ScatterFits, P2PFits, BarrierFits, BroadcastStarts
     DEF Following, Kinds

\* A call that is not at its end goes on to a place of the same call, and a channel
\* call at it has a peer that expects it.
LEMMA CallGoesOn ==
  ASSUME NEW n \in Nat \ {0}, NEW c \in CallIn(n), NEW v \in 0 .. (n - 1),
         NEW l, PlaceOK(c, v, n, l), l.do # "end"
  PROVE  /\ l.do # "skip" => ChannelCall(c, v, n, l, Following(c, v, n, l), PeerOf(c, v, n, l))
         /\ NextPlace(c, v, n, l, Following(c, v, n, l), PeerOf(c, v, n, l))
<1>1. c.kind \in Kinds
  BY DEF CallIn
<1>2. c.kind \notin {"BARRIER", "BCAST"} => PeerOf(c, v, n, l) = l.i
  BY DEF PeerOf
<1>. QED
  BY <1>1, <1>2, AllGatherFits, GatherFits, ScatterFits, P2PFits, BarrierFits, BroadcastGoesOn
     DEF Following, Kinds

-----------------------------------------------------------------------------
(* The deployment.                                                           *)

\* What DeploymentAssumption says of the mesh at hand.
LEMMA MeshFacts ==
  ASSUME mesh \in Deployments
  PROVE  /\ mesh.size \in Nat \ {0} /\ "main" \in Worlds
         /\ WorldSize("main") = mesh.size /\ VRanks("main") = Ranks
         /\ \A w \in Worlds :
              /\ WorldSize(w) \in Nat
              /\ \A v \in VRanks(w) : WorldSize(w) \in Nat \ {0} /\ OrigRank(w, v) \in Ranks
              /\ \A v, d \in VRanks(w) : OrigRank(w, v) = OrigRank(w, d) => v = d
              /\ Len(mesh.program[w]) \in Nat
              /\ DOMAIN mesh.program[w] = 1 .. Len(mesh.program[w])
              /\ \A k \in DOMAIN mesh.program[w] : mesh.program[w][k] \in CallIn(WorldSize(w))
<1>1. mesh.size \in Nat \ {0} /\ "main" \in Worlds
  BY DeploymentAssumption DEF Worlds
<1>2. WorldSize("main") = mesh.size /\ VRanks("main") = Ranks
  <2>1. mesh.parties["main"] = [k \in 1 .. mesh.size |-> k - 1]
    BY DeploymentAssumption
  <2>2. Len(mesh.parties["main"]) = mesh.size
    BY <1>1, <2>1
  <2>. QED
    BY <2>2 DEF WorldSize, VRanks, Ranks
<1>3. ASSUME NEW w \in Worlds
      PROVE  /\ WorldSize(w) \in Nat
             /\ \A v \in VRanks(w) : WorldSize(w) \in Nat \ {0} /\ OrigRank(w, v) \in Ranks
             /\ \A v, d \in VRanks(w) : OrigRank(w, v) = OrigRank(w, d) => v = d
             /\ Len(mesh.program[w]) \in Nat
             /\ DOMAIN mesh.program[w] = 1 .. Len(mesh.program[w])
             /\ \A k \in DOMAIN mesh.program[w] : mesh.program[w][k] \in CallIn(WorldSize(w))
  <2>. DEFINE P == mesh.parties[w]
              S == CallIn(Len(P))
  <2>1. /\ P \in Seq(0 .. (mesh.size - 1))
        /\ \A j, k \in DOMAIN P : P[j] = P[k] => j = k
        /\ mesh.program[w] \in Seq(S)
    BY DeploymentAssumption DEF Worlds, CallIn
  <2>2. Len(P) \in Nat /\ DOMAIN P = 1 .. Len(P) /\ \A k \in 1 .. Len(P) : P[k] \in 0 .. (mesh.size - 1)
    <3>. DEFINE T == 0 .. (mesh.size - 1)
    <3>. HIDE DEF P, T
    <3>1. P \in Seq(T)
      BY <2>1 DEF T
    <3>2. Len(P) \in Nat /\ DOMAIN P = 1 .. Len(P) /\ \A k \in 1 .. Len(P) : P[k] \in T
      BY <3>1
    <3>. QED
      BY <3>2 DEF T
  <2>3. \A v \in 0 .. (Len(P) - 1) : v + 1 \in 1 .. Len(P) /\ Len(P) # 0
    BY <2>2
  <2>4. /\ \A v \in VRanks(w) : WorldSize(w) \in Nat \ {0} /\ OrigRank(w, v) \in Ranks
        /\ \A v, d \in VRanks(w) : OrigRank(w, v) = OrigRank(w, d) => v = d
    <3>1. VRanks(w) = 0 .. (Len(P) - 1) /\ WorldSize(w) = Len(P)
      BY DEF VRanks, WorldSize
    <3>2. \A v \in VRanks(w) : WorldSize(w) \in Nat \ {0} /\ P[v + 1] \in 0 .. (mesh.size - 1)
      <4>. HIDE DEF P
      <4>. QED
        BY <2>2, <2>3, <3>1
    <3>3. \A v, d \in VRanks(w) : P[v + 1] = P[d + 1] => v = d
      <4>. SUFFICES ASSUME NEW v \in VRanks(w), NEW d \in VRanks(w), P[v + 1] = P[d + 1]
                    PROVE  v = d
        OBVIOUS
      <4>1. v + 1 \in DOMAIN P /\ d + 1 \in DOMAIN P
        BY <2>2, <2>3, <3>1
      <4>2. v + 1 = d + 1
        BY <2>1, <4>1
      <4>. QED
        BY <2>2, <3>1, <4>2
    <3>. QED
      BY <3>2, <3>3 DEF OrigRank, Ranks
  <2>5. /\ Len(mesh.program[w]) \in Nat /\ DOMAIN mesh.program[w] = 1 .. Len(mesh.program[w])
        /\ \A k \in DOMAIN mesh.program[w] : mesh.program[w][k] \in S
    <3>. HIDE DEF S
    <3>. QED
      BY <2>1
  <2>. QED
    BY <2>2, <2>4, <2>5 DEF WorldSize
<1>. QED
  BY <1>1, <1>2, <1>3

\* A strand is a world and one of its ranks.
LEMMA StrandIs ==
  ASSUME NEW s \in Strands
  PROVE  s[1] \in Worlds /\ s[2] \in VRanks(s[1]) /\ s = <<s[1], s[2]>>
  BY DEF Strands

\* A rank of a world is a strand.
LEMMA IsStrand ==
  ASSUME NEW w \in Worlds, NEW v \in VRanks(w)
  PROVE  <<w, v>> \in Strands
  BY DEF Strands

\* The ids of the calls, the same at all parties of a world: how many calls before
\* advanced the counter.
Calls(w) == DOMAIN mesh.program[w]
Collectives(w, k) == {j \in 1 .. k : mesh.program[w][j].kind # "P2P"}
Messages(w, k, e) ==
  {j \in 1 .. k : /\ mesh.program[w][j].kind = "P2P"
                  /\ <<mesh.program[w][j].root, mesh.program[w][j].dst>> = e}
KeyOf(w, k) ==
  LET c == mesh.program[w][k]
  IN IF c.kind = "P2P"
     THEN [world |-> w, id |-> Cardinality(Messages(w, k, <<c.root, c.dst>>)),
           kind |-> "P2P", src |-> c.root, dst |-> c.dst]
     ELSE [world |-> w, id |-> Cardinality(Collectives(w, k)), kind |-> c.kind,
           src |-> 0, dst |-> 0]

\* No two calls have the same key.
LEMMA KeysDiffer ==
  ASSUME mesh \in Deployments, NEW w \in Worlds, NEW w2 \in Worlds,
         NEW j \in Calls(w), NEW k \in Calls(w2), KeyOf(w, j) = KeyOf(w2, k)
  PROVE  w = w2 /\ j = k
<1>1. w = w2
  BY DEF KeyOf
<1>2. j \in Nat \ {0} /\ k \in Nat \ {0}
  BY MeshFacts DEF Calls
<1>3. ASSUME NEW a \in Nat \ {0}, NEW b \in Nat \ {0}, a < b, KeyOf(w, a) = KeyOf(w, b) PROVE FALSE
  <2>. DEFINE c == mesh.program[w][b]
  <2>1. CASE c.kind = "P2P"
    <3>. DEFINE e == <<c.root, c.dst>>
                A == Messages(w, a, e)
                B == Messages(w, b, e)
    <3>1. Cardinality(A) = Cardinality(B)
      BY <1>3, <2>1 DEF KeyOf
    <3>2. A \subseteq B /\ b \in B /\ b \notin A
      BY <1>3, <2>1 DEF Messages
    <3>3. IsFiniteSet(B)
      <4>1. IsFiniteSet(1 .. b) /\ B \subseteq 1 .. b
        <5>1. IsFiniteSet(1 .. b)
          BY FS_Interval
        <5>2. B \subseteq 1 .. b
          BY DEF Messages
        <5>. QED
          BY <5>1, <5>2
      <4>. QED
        BY <4>1, FS_Subset
    <3>. HIDE DEF A, B
    <3>. QED
      BY <3>1, <3>2, <3>3, FS_Subset
  <2>2. CASE c.kind # "P2P"
    <3>. DEFINE A == Collectives(w, a)
                B == Collectives(w, b)
    <3>1. Cardinality(A) = Cardinality(B)
      BY <1>3, <2>2 DEF KeyOf
    <3>2. A \subseteq B /\ b \in B /\ b \notin A
      BY <1>3, <2>2 DEF Collectives
    <3>3. IsFiniteSet(B)
      <4>1. IsFiniteSet(1 .. b) /\ B \subseteq 1 .. b
        <5>1. IsFiniteSet(1 .. b)
          BY FS_Interval
        <5>2. B \subseteq 1 .. b
          BY DEF Collectives
        <5>. QED
          BY <5>1, <5>2
      <4>. QED
        BY <4>1, FS_Subset
    <3>. HIDE DEF A, B
    <3>. QED
      BY <3>1, <3>2, <3>3, FS_Subset
  <2>. QED
    BY <2>1, <2>2
<1>. QED
  BY <1>1, <1>2, <1>3

\* A FIN is of no call.
LEMMA FinDiffers ==
  ASSUME mesh \in Deployments, NEW w \in Worlds, NEW k \in Calls(w)
  PROVE  KeyOf(w, k) # kFinKey
<1>1. mesh.program[w][k].kind # "fin"
  BY MeshFacts DEF Calls, CallIn, Kinds
<1>. QED
  BY <1>1 DEF KeyOf, kFinKey

\* How the counts go on with the next call.
LEMMA CountsGoOn ==
  ASSUME NEW w, NEW k \in Nat
  PROVE  /\ Cardinality(Collectives(w, k)) \in Nat
         /\ Cardinality(Collectives(w, k + 1)) =
              Cardinality(Collectives(w, k)) + IF mesh.program[w][k + 1].kind = "P2P" THEN 0 ELSE 1
<1>. DEFINE A == Collectives(w, k)
<1>1. IsFiniteSet(A) /\ k + 1 \notin A
  <2>1. IsFiniteSet(1 .. k) /\ A \subseteq 1 .. k
    <3>1. IsFiniteSet(1 .. k)
      BY FS_Interval
    <3>2. A \subseteq 1 .. k
      BY DEF Collectives
    <3>. QED
      BY <3>1, <3>2
  <2>. QED
    BY <2>1, FS_Subset
<1>2. Collectives(w, k + 1) = IF mesh.program[w][k + 1].kind = "P2P" THEN A ELSE A \cup {k + 1}
  BY DEF Collectives
<1>. HIDE DEF A
<1>3. Cardinality(A) \in Nat /\ Cardinality(A \cup {k + 1}) = Cardinality(A) + 1
  BY <1>1, FS_AddElement, FS_CardinalityType
<1>. QED
  BY <1>2, <1>3 DEF A

\* The same for the calls that use NextP2PId of one pair of ranks.
LEMMA MessageCountsGoOn ==
  ASSUME NEW w, NEW k \in Nat, NEW e
  PROVE  /\ Cardinality(Messages(w, k, e)) \in Nat
         /\ Cardinality(Messages(w, k + 1, e)) =
              Cardinality(Messages(w, k, e)) +
                IF /\ mesh.program[w][k + 1].kind = "P2P"
                   /\ <<mesh.program[w][k + 1].root, mesh.program[w][k + 1].dst>> = e
                THEN 1 ELSE 0
<1>. DEFINE A == Messages(w, k, e)
            Adds == /\ mesh.program[w][k + 1].kind = "P2P"
                    /\ <<mesh.program[w][k + 1].root, mesh.program[w][k + 1].dst>> = e
<1>1. IsFiniteSet(A) /\ k + 1 \notin A
  <2>1. IsFiniteSet(1 .. k) /\ A \subseteq 1 .. k
    <3>1. IsFiniteSet(1 .. k)
      BY FS_Interval
    <3>2. A \subseteq 1 .. k
      BY DEF Messages
    <3>. QED
      BY <3>1, <3>2
  <2>. QED
    BY <2>1, FS_Subset
<1>2. Messages(w, k + 1, e) = IF Adds THEN A \cup {k + 1} ELSE A
  BY DEF Messages
<1>. HIDE DEF A
<1>3. Cardinality(A) \in Nat /\ Cardinality(A \cup {k + 1}) = Cardinality(A) + 1
  BY <1>1, FS_AddElement, FS_CardinalityType
<1>. HIDE DEF Adds
<1>. QED
  BY <1>2, <1>3 DEF A, Adds

-----------------------------------------------------------------------------
(* Types, places and counters.                                               *)

Running(s) == status[s] = "running"

Outcomes(w) == {<<"thrown">>} \cup {<<"returned", b>> : b \in [VRanks(w) -> Value]}
Edges(w) == VRanks(w) \X VRanks(w)

\* A strand's counters are those of its calls so far, and while it runs a call it
\* is at a place of that call.
StrandOK(s) ==
  /\ entered[s] \in 0 .. Len(Program(s))
  /\ status[s] \in {"ready", "running", "gone"}
  /\ IF Running(s) THEN /\ entered[s] # 0
                        /\ PlaceOK(Call(s), s[2], WorldSize(s[1]), loop[s])
                        /\ buf[s] \in [VRanks(s[1]) -> Value]
                   ELSE loop[s] = End
  /\ results[s] \in Seq(Outcomes(s[1]))
  /\ Len(results[s]) = IF Running(s) THEN entered[s] - 1 ELSE entered[s]
  /\ counter[s] = Cardinality(Collectives(s[1], entered[s]))
  /\ DOMAIN p2p_counter[s] = Edges(s[1])
  /\ \A e \in Edges(s[1]) : s[2] \in {e[1], e[2]} =>
       p2p_counter[s][e] = Cardinality(Messages(s[1], entered[s], e))

Domains ==
  /\ mesh \in Deployments
  /\ DOMAIN counter = Strands /\ DOMAIN p2p_counter = Strands /\ DOMAIN status = Strands
  /\ DOMAIN entered = Strands /\ DOMAIN loop = Strands /\ DOMAIN buf = Strands
  /\ DOMAIN results = Strands
  /\ DOMAIN recv_msgs = Ranks /\ \A r \in Ranks : DOMAIN recv_msgs[r] = Ranks
  /\ finished \in [Ranks -> [Ranks -> BOOLEAN]]
  /\ closing \in [Ranks -> [at : {"open", "send", "recv", "closed", "thrown"}, peer : Ranks]]
  /\ \A r \in Ranks : closing[r].at \in {"send", "recv"} => closing[r].peer # r
  /\ timeouts \in 0 .. MaxTimeouts

MessagesOK == \A r, p \in Ranks : \A m \in recv_msgs[r][p] : m.value \in Value

TypeInv == Domains /\ MessagesOK /\ \A s \in Strands : StrandOK(s)

\* The mesh does not change, and with it everything that is computed from it.
LEMMA MeshStays ==
  ASSUME mesh' = mesh
  PROVE  /\ Strands' = Strands /\ Worlds' = Worlds /\ Ranks' = Ranks /\ Value' = Value
         /\ \A w : /\ WorldSize(w)' = WorldSize(w) /\ VRanks(w)' = VRanks(w)
                   /\ Calls(w)' = Calls(w) /\ Outcomes(w)' = Outcomes(w) /\ Edges(w)' = Edges(w)
         /\ \A w, v : OrigRank(w, v)' = OrigRank(w, v)
         /\ \A w, k : KeyOf(w, k)' = KeyOf(w, k) /\ Collectives(w, k)' = Collectives(w, k)
         /\ \A w, k, e : Messages(w, k, e)' = Messages(w, k, e)
         /\ \A s : Program(s)' = Program(s)
<1>1. Strands' = Strands /\ Worlds' = Worlds /\ Ranks' = Ranks
  BY DEF Strands, Worlds, Ranks, VRanks, WorldSize
<1>2. \A w : /\ WorldSize(w)' = WorldSize(w) /\ VRanks(w)' = VRanks(w)
             /\ Calls(w)' = Calls(w) /\ Edges(w)' = Edges(w)
  BY DEF VRanks, WorldSize, Calls, Edges
<1>3. Value' = Value /\ \A w : Outcomes(w)' = Outcomes(w)
  <2>1. Value' = Value
    BY <1>1, <1>2 DEF Value, InputsOf
  <2>. QED
    BY <1>2, <2>1 DEF Outcomes
<1>4. \A w, k : Collectives(w, k)' = Collectives(w, k)
  BY DEF Collectives
<1>5. \A w, k, e : Messages(w, k, e)' = Messages(w, k, e)
  BY DEF Messages
<1>6. \A w, k : KeyOf(w, k)' = KeyOf(w, k)
  BY <1>4, <1>5 DEF KeyOf
<1>7. \A w, v : OrigRank(w, v)' = OrigRank(w, v)
  BY DEF OrigRank
<1>8. \A s : Program(s)' = Program(s)
  BY DEF Program
<1>. QED
  BY <1>1, <1>2, <1>3, <1>4, <1>5, <1>6, <1>7, <1>8

\* Strand t is not touched by the step.
Same(t) == /\ counter'[t] = counter[t] /\ p2p_counter'[t] = p2p_counter[t]
           /\ status'[t] = status[t] /\ entered'[t] = entered[t] /\ loop'[t] = loop[t]
           /\ buf'[t] = buf[t] /\ results'[t] = results[t]

\* A strand that is not touched stays as it is.
LEMMA SameStrand ==
  ASSUME NEW t \in Strands, mesh' = mesh, StrandOK(t), Same(t)
  PROVE  StrandOK(t)'
<1>1. Call(t)' = Call(t)
  BY MeshStays DEF Call, Same
<1>. QED
  BY <1>1, MeshStays DEF StrandOK, Same, Running

\* What a strand is at, with the facts of its world.
LEMMA StrandFacts ==
  ASSUME TypeInv, NEW s \in Strands
  PROVE  /\ s[1] \in Worlds /\ s[2] \in VRanks(s[1]) /\ s = <<s[1], s[2]>>
         /\ WorldSize(s[1]) \in Nat \ {0} /\ VRanks(s[1]) = 0 .. (WorldSize(s[1]) - 1)
         /\ Program(s) = mesh.program[s[1]] /\ Calls(s[1]) = 1 .. Len(Program(s))
         /\ Len(Program(s)) \in Nat /\ entered[s] \in Nat
         /\ Running(s) => /\ entered[s] \in Calls(s[1])
                          /\ Call(s) = mesh.program[s[1]][entered[s]]
                          /\ Call(s) \in CallIn(WorldSize(s[1]))
<1>1. s[1] \in Worlds /\ s[2] \in VRanks(s[1]) /\ s = <<s[1], s[2]>>
  BY StrandIs
<1>2. mesh \in Deployments /\ StrandOK(s)
  BY DEF TypeInv, Domains
<1>3. /\ WorldSize(s[1]) \in Nat \ {0} /\ VRanks(s[1]) = 0 .. (WorldSize(s[1]) - 1)
      /\ Program(s) = mesh.program[s[1]] /\ Calls(s[1]) = 1 .. Len(Program(s))
      /\ Len(Program(s)) \in Nat
  BY <1>1, <1>2, MeshFacts DEF VRanks, Program, Calls
<1>4. entered[s] \in Nat /\ (Running(s) => entered[s] \in Calls(s[1]))
  BY <1>2, <1>3 DEF StrandOK
<1>5. Running(s) => /\ Call(s) = mesh.program[s[1]][entered[s]]
                    /\ Call(s) \in CallIn(WorldSize(s[1]))
  BY <1>1, <1>2, <1>3, <1>4, MeshFacts DEF Call, Calls
<1>. QED
  BY <1>1, <1>3, <1>4, <1>5

\* The peer of a channel call, and the key it uses: that of the call.
LEMMA AtChannel ==
  ASSUME TypeInv, NEW s \in Strands, At(s, "send") \/ At(s, "recv")
  PROVE  /\ Running(s) /\ loop[s].do \in {"send", "recv"}
         /\ ChannelCall(Call(s), s[2], WorldSize(s[1]), loop[s],
                        Following(Call(s), s[2], WorldSize(s[1]), loop[s]), To(s))
         /\ NextPlace(Call(s), s[2], WorldSize(s[1]), loop[s],
                        Following(Call(s), s[2], WorldSize(s[1]), loop[s]), To(s))
         /\ To(s) \in VRanks(s[1]) /\ To(s) # s[2]
         /\ <<s[1], To(s)>> \in Strands
         /\ Self(s) \in Ranks /\ Peer(s) \in Ranks
         /\ Key(s) = KeyOf(s[1], entered[s])
<1>. DEFINE w == s[1]
            v == s[2]
            n == WorldSize(w)
            c == Call(s)
            l == loop[s]
<1>1. Running(s) /\ l.do \in {"send", "recv"}
  BY DEF At, Running
<1>2. /\ w \in Worlds /\ v \in VRanks(w) /\ n \in Nat \ {0} /\ VRanks(w) = 0 .. (n - 1)
      /\ c = mesh.program[w][entered[s]] /\ c \in CallIn(n)
  BY <1>1, StrandFacts
<1>3. PlaceOK(c, v, n, l) /\ l.do # "end" /\ l.do # "skip"
  BY <1>1 DEF TypeInv, StrandOK
<1>4. To(s) = PeerOf(c, v, n, l)
  BY DEF To
<1>5. ChannelCall(c, v, n, l, Following(c, v, n, l), To(s)) /\ NextPlace(c, v, n, l, Following(c, v, n, l), To(s))
  <2>. HIDE DEF c, v, n, l
  <2>. QED
    BY <1>2, <1>3, <1>4, CallGoesOn
<1>6. To(s) \in VRanks(w) /\ To(s) # v
  BY <1>2, <1>5 DEF ChannelCall
<1>7. <<w, To(s)>> \in Strands
  BY <1>2, <1>6, IsStrand
<1>8. Self(s) \in Ranks /\ Peer(s) \in Ranks
  <2>1. mesh \in Deployments
    BY DEF TypeInv, Domains
  <2>. QED
    BY <1>2, <1>6, <2>1, MeshFacts DEF Self, Peer
<1>9. Key(s) = KeyOf(w, entered[s])
  <2>1. counter[s] = Cardinality(Collectives(w, entered[s]))
    BY DEF TypeInv, StrandOK
  <2>2. CASE c.kind = "P2P"
    <3>1. v \in {c.root, c.dst} /\ <<c.root, c.dst>> \in Edges(w)
      BY <1>2, <1>3, <2>2 DEF PlaceOK, CallIn, Edges
    <3>2. p2p_counter[s][<<c.root, c.dst>>] = Cardinality(Messages(w, entered[s], <<c.root, c.dst>>))
      BY <3>1 DEF TypeInv, StrandOK
    <3>. QED
      BY <1>2, <2>2, <3>2 DEF Key, KeyOf
  <2>3. CASE c.kind # "P2P"
    BY <1>2, <2>1, <2>3 DEF Key, KeyOf
  <2>. QED
    BY <2>2, <2>3
<1>. QED
  BY <1>1, <1>5, <1>6, <1>7, <1>8, <1>9

-----------------------------------------------------------------------------
(* The steps of a strand: it enters a call, goes on in it, or ends it.       *)

OnlyMoves(s) == mesh' = mesh /\ \A t \in Strands : t # s => Same(t)

Enters(s) ==
  /\ status[s] = "ready" /\ status'[s] = "running"
  /\ entered'[s] = entered[s] + 1 /\ entered[s] < Len(Program(s))
  /\ LET c == Program(s)[entered[s] + 1]
     IN  /\ loop'[s] = Following(c, s[2], WorldSize(s[1]), Start)
         /\ counter'[s] = counter[s] + IF c.kind = "P2P" THEN 0 ELSE 1
         /\ DOMAIN p2p_counter'[s] = DOMAIN p2p_counter[s]
         /\ \A e \in DOMAIN p2p_counter[s] : p2p_counter'[s][e] =
              IF c.kind = "P2P" /\ s[2] \in {c.root, c.dst} /\ e = <<c.root, c.dst>>
              THEN p2p_counter[s][e] + 1 ELSE p2p_counter[s][e]
  /\ buf'[s] = Inputs(s[1], entered[s] + 1, s[2])
  /\ results'[s] = results[s]

GoesOn(s) ==
  /\ status[s] = "running" /\ loop[s].do # "end"
  /\ status'[s] = status[s] /\ entered'[s] = entered[s] /\ results'[s] = results[s]
  /\ counter'[s] = counter[s] /\ p2p_counter'[s] = p2p_counter[s]
  /\ loop'[s] = Following(Call(s), s[2], WorldSize(s[1]), loop[s])

Ends(s) ==
  /\ status[s] = "running" /\ status'[s] \in {"ready", "gone"}
  /\ entered'[s] = entered[s] /\ counter'[s] = counter[s] /\ p2p_counter'[s] = p2p_counter[s]
  /\ buf'[s] = buf[s] /\ loop'[s] = End
  /\ \/ /\ loop[s].do = "end" /\ status'[s] = "ready"
        /\ results'[s] = Append(results[s], <<"returned", buf[s]>>)
     \/ results'[s] = Append(results[s], <<"thrown">>)

\* The strands' variables keep their domain.
StrandDomains ==
  /\ DOMAIN counter' = Strands /\ DOMAIN p2p_counter' = Strands /\ DOMAIN status' = Strands
  /\ DOMAIN entered' = Strands /\ DOMAIN loop' = Strands /\ DOMAIN buf' = Strands
  /\ DOMAIN results' = Strands

\* Enter moves one strand into its next call.
LEMMA EnterIs ==
  ASSUME TypeInv, NEW s \in Strands, Enter(s)
  PROVE  OnlyMoves(s) /\ StrandDomains /\ Enters(s)
<1>. USE DEF Enter
<1>0. Domains
  BY DEF TypeInv
<1>1. StrandDomains
  BY <1>0 DEF Domains, StrandDomains
<1>2. OnlyMoves(s)
  BY <1>0 DEF Domains, OnlyMoves, Same
<1>3. Enters(s)
  <2>. DEFINE c == Program(s)[entered[s] + 1]
              x == <<c.root, c.dst>>
  <2>1. DOMAIN p2p_counter'[s] = DOMAIN p2p_counter[s]
    BY <1>0 DEF Domains
  <2>2. ASSUME NEW e \in DOMAIN p2p_counter[s]
        PROVE  p2p_counter'[s][e] =
                 IF c.kind = "P2P" /\ s[2] \in {c.root, c.dst} /\ e = x
                 THEN p2p_counter[s][e] + 1 ELSE p2p_counter[s][e]
    BY <1>0 DEF Domains, NextP2PId
  <2>3. counter'[s] = counter[s] + IF c.kind = "P2P" THEN 0 ELSE 1
    <3>1. counter[s] \in Nat
      <4>1. entered[s] \in Nat
        BY StrandFacts
      <4>2. counter[s] = Cardinality(Collectives(s[1], entered[s]))
        BY DEF TypeInv, StrandOK
      <4>. QED
        BY <4>1, <4>2, CountsGoOn
    <3>. QED
      BY <1>0, <3>1 DEF Domains, NextId
  <2>4. /\ status[s] = "ready" /\ status'[s] = "running"
        /\ entered'[s] = entered[s] + 1 /\ entered[s] < Len(Program(s))
        /\ loop'[s] = Following(c, s[2], WorldSize(s[1]), Start)
        /\ buf'[s] = Inputs(s[1], entered[s] + 1, s[2])
        /\ results'[s] = results[s]
    BY <1>0 DEF Domains
  <2>. QED
    BY <2>1, <2>2, <2>3, <2>4 DEF Enters
<1>. QED
  BY <1>1, <1>2, <1>3

\* A channel call, and an iteration without one, move one strand on in its call.
LEMMA MoveIs ==
  ASSUME TypeInv, NEW s \in Strands, SendImpl(s) \/ Recv(s) \/ Skip(s)
  PROVE  OnlyMoves(s) /\ StrandDomains /\ GoesOn(s)
<1>0. Domains
  BY DEF TypeInv
<1>1. CASE SendImpl(s)
  BY <1>0, <1>1 DEF SendImpl, At, Step, Domains, OnlyMoves, Same, StrandDomains, GoesOn
<1>2. CASE Skip(s)
  BY <1>0, <1>2 DEF Skip, At, Step, Domains, OnlyMoves, Same, StrandDomains, GoesOn
<1>3. CASE Recv(s)
  <2>1. \A t \in Strands : t # s => buf'[t] = buf[t]
    BY <1>0, <1>3 DEF Recv, Domains
  <2>2. DOMAIN buf' = Strands
    BY <1>0, <1>3 DEF Recv, Domains
  <2>. QED
    BY <1>0, <1>3, <2>1, <2>2 DEF Recv, At, Step, Domains, OnlyMoves, Same, StrandDomains, GoesOn
<1>. QED
  BY <1>1, <1>2, <1>3

\* A call that returns or throws ends for one strand.
LEMMA EndIs ==
  ASSUME TypeInv, NEW s \in Strands, RecvTimeout(s) \/ Return(s)
  PROVE  OnlyMoves(s) /\ StrandDomains /\ Ends(s)
<1>0. Domains
  BY DEF TypeInv
<1>1. CASE RecvTimeout(s)
  BY <1>0, <1>1 DEF RecvTimeout, At, Domains, OnlyMoves, Same, StrandDomains, Ends
<1>2. CASE Return(s)
  <2>1. loop[s] = End
    <3>1. PlaceOK(Call(s), s[2], WorldSize(s[1]), loop[s]) /\ loop[s].do = "end"
      BY <1>2 DEF Return, At, TypeInv, StrandOK, Running
    <3>. QED
      BY <3>1 DEF PlaceOK, PlaceSet, End, Place
  <2>. QED
    BY <1>0, <1>2, <2>1 DEF Return, At, Domains, OnlyMoves, Same, StrandDomains, Ends
<1>. QED
  BY <1>1, <1>2

-----------------------------------------------------------------------------
(* The steps on the channels.                                                *)

\* Rank r's channel to p after a message with that key was handed to it.
Added(r, p, key, value) ==
  IF key \in Keys(r, p) THEN recv_msgs[r][p]
  ELSE recv_msgs[r][p] \cup {[key |-> key, value |-> value]}

\* The channels after OnMessage.
LEMMA AddedTo ==
  ASSUME Domains, NEW a \in Ranks, NEW b \in Ranks, NEW key, NEW value,
         recv_msgs' = OnMessage(a, b, key, value)
  PROVE  /\ DOMAIN recv_msgs' = Ranks /\ \A r \in Ranks : DOMAIN recv_msgs'[r] = Ranks
         /\ \A r, p \in Ranks : recv_msgs'[r][p] =
              IF r = a /\ p = b THEN Added(a, b, key, value) ELSE recv_msgs[r][p]
<1>1. CASE key \in Keys(a, b)
  BY <1>1 DEF OnMessage, Added, Domains
<1>2. CASE key \notin Keys(a, b)
  BY <1>2 DEF OnMessage, Added, Domains
<1>. QED
  BY <1>1, <1>2

\* The channels after a message was taken out.
LEMMA TakenFrom ==
  ASSUME Domains, NEW a \in Ranks, NEW b \in Ranks, NEW key,
         recv_msgs' = Taken(a, b, key)
  PROVE  /\ DOMAIN recv_msgs' = Ranks /\ \A r \in Ranks : DOMAIN recv_msgs'[r] = Ranks
         /\ \A r, p \in Ranks : recv_msgs'[r][p] =
              IF r = a /\ p = b THEN {m \in recv_msgs[a][b] : m.key # key} ELSE recv_msgs[r][p]
  BY DEF Taken, Domains

\* The payload of a FIN and of a barrier is a value.
LEMMA EmptyValue == Empty \in Value
  BY DEF Value

\* A party's inputs are values.
LEMMA InputsOK ==
  ASSUME mesh \in Deployments, NEW s \in Strands, NEW k \in Calls(s[1])
  PROVE  /\ Inputs(s[1], k, s[2]) \in [VRanks(s[1]) -> Value]
         /\ \A slot \in VRanks(s[1]) : Inputs(s[1], k, s[2])[slot] =
              Input(s[1], k, s[2], IF mesh.program[s[1]][k].kind = "SCATTER" THEN slot ELSE 0)
<1>1. s[1] \in Worlds /\ s[2] \in VRanks(s[1])
  BY StrandIs
<1>2. 0 \in VRanks(s[1])
  BY <1>1, MeshFacts DEF VRanks
<1>3. \A x \in VRanks(s[1]) : Input(s[1], k, s[2], x) \in Value
  <2>1. \A x \in VRanks(s[1]) : Input(s[1], k, s[2], x) \in InputsOf(s[1])
    BY <1>1 DEF Input, InputsOf, Calls
  <2>. QED
    BY <1>1, <2>1 DEF Value
<1>. QED
  BY <1>2, <1>3 DEF Inputs

\* A Recv of something else than a barrier puts the value into its slot.
LEMMA RecvIs ==
  ASSUME TypeInv, NEW s \in Strands, Recv(s)
  PROVE  \E m \in recv_msgs[Self(s)][Peer(s)] :
           /\ m.key = Key(s) /\ m.value \in Value
           /\ buf'[s] \in [VRanks(s[1]) -> Value]
           /\ \A slot \in VRanks(s[1]) : buf'[s][slot] =
                IF Call(s).kind # "BARRIER" /\ slot = Slot(Call(s), To(s), s[2])
                THEN m.value ELSE buf[s][slot]
<1>1. PICK m \in recv_msgs[Self(s)][Peer(s)] :
         /\ m.key = Key(s)
         /\ buf' = IF Call(s).kind = "BARRIER" THEN buf
                   ELSE [buf EXCEPT ![s][Slot(Call(s), To(s), s[2])] = m.value]
  BY DEF Recv
<1>2. At(s, "recv")
  BY DEF Recv
<1>3. Self(s) \in Ranks /\ Peer(s) \in Ranks /\ Running(s)
  BY <1>2, AtChannel
<1>4. m.value \in Value
  BY <1>1, <1>3 DEF TypeInv, MessagesOK
<1>5. DOMAIN buf = Strands /\ buf[s] \in [VRanks(s[1]) -> Value]
  BY <1>3 DEF TypeInv, Domains, StrandOK
<1>. DEFINE x == Slot(Call(s), To(s), s[2])
<1>6. buf'[s] = IF Call(s).kind = "BARRIER" THEN buf[s] ELSE [buf[s] EXCEPT ![x] = m.value]
  BY <1>1, <1>5
<1>. HIDE DEF x
<1>7. buf'[s] \in [VRanks(s[1]) -> Value]
  BY <1>4, <1>5, <1>6
<1>8. \A slot \in VRanks(s[1]) : buf'[s][slot] =
        IF Call(s).kind # "BARRIER" /\ slot = x THEN m.value ELSE buf[s][slot]
  BY <1>5, <1>6
<1>. QED
  BY <1>1, <1>4, <1>7, <1>8 DEF x

\* What is sent is a value.
LEMMA PayloadOK ==
  ASSUME TypeInv, NEW s \in Strands, At(s, "send")
  PROVE  /\ Payload(s) \in Value
         /\ Call(s).kind # "BARRIER" =>
              /\ Slot(Call(s), s[2], To(s)) \in VRanks(s[1])
              /\ Payload(s) = buf[s][Slot(Call(s), s[2], To(s))]
<1>1. Running(s) /\ To(s) \in VRanks(s[1])
  BY AtChannel
<1>2. Call(s) \in CallIn(WorldSize(s[1])) /\ s[2] \in VRanks(s[1]) /\ VRanks(s[1]) = 0 .. (WorldSize(s[1]) - 1)
  BY <1>1, StrandFacts
<1>3. Slot(Call(s), s[2], To(s)) \in VRanks(s[1])
  BY <1>1, <1>2 DEF Slot, CallIn
<1>4. Empty \in Value
  BY EmptyValue
<1>5. buf[s] \in [VRanks(s[1]) -> Value]
  BY <1>1 DEF TypeInv, StrandOK
<1>. QED
  BY <1>3, <1>4, <1>5 DEF Payload

-----------------------------------------------------------------------------
(* The types are kept.                                                       *)

\* A call is entered with the counters of that call, at its first place.
LEMMA EntersKeeps ==
  ASSUME TypeInv, NEW s \in Strands, mesh' = mesh, Enters(s)
  PROVE  /\ StrandOK(s)' /\ Running(s)' /\ ~Running(s)
         /\ Call(s)' = mesh.program[s[1]][entered[s] + 1] /\ entered[s] + 1 \in Calls(s[1])
         /\ FirstPlace(Call(s)', s[2], WorldSize(s[1]), loop'[s])
<1>. DEFINE w == s[1]
            v == s[2]
            n == WorldSize(w)
            k == entered[s] + 1
            c == mesh.program[w][k]
<1>0. mesh \in Deployments /\ StrandOK(s)
  BY DEF TypeInv, Domains
<1>1. /\ w \in Worlds /\ v \in VRanks(w) /\ n \in Nat \ {0} /\ VRanks(w) = 0 .. (n - 1)
      /\ Program(s) = mesh.program[w] /\ Calls(w) = 1 .. Len(Program(s))
      /\ Len(Program(s)) \in Nat /\ entered[s] \in Nat
  BY StrandFacts
<1>2. k \in Calls(w) /\ k \in 1 .. Len(Program(s))
  <2>1. entered[s] < Len(Program(s))
    BY DEF Enters
  <2>. QED
    BY <1>1, <2>1
<1>3. c \in CallIn(n)
  BY <1>0, <1>1, <1>2, MeshFacts DEF Calls
<1>4. FirstPlace(c, v, n, Following(c, v, n, Start))
  <2>. HIDE DEF c, v, n
  <2>. QED
    BY <1>1, <1>3, CallStarts
<1>5. Program(s)' = Program(s) /\ WorldSize(w)' = n /\ VRanks(w)' = VRanks(w)
  BY MeshStays
<1>6. Call(s)' = c
  BY <1>1, <1>5 DEF Call, Enters
<1>7. loop'[s] = Following(c, v, n, Start)
  BY <1>1 DEF Enters
<1>8. Running(s)' /\ ~Running(s)
  BY DEF Running, Enters
<1>9. buf'[s] \in [VRanks(w) -> Value]
  BY <1>0, <1>2, InputsOK DEF Enters
<1>10. counter'[s] = Cardinality(Collectives(w, k))
  <2>1. counter[s] = Cardinality(Collectives(w, entered[s]))
    BY <1>0 DEF StrandOK
  <2>2. Cardinality(Collectives(w, k)) =
          Cardinality(Collectives(w, entered[s])) + IF c.kind = "P2P" THEN 0 ELSE 1
    BY <1>1, CountsGoOn
  <2>3. counter'[s] = counter[s] + IF c.kind = "P2P" THEN 0 ELSE 1
    BY <1>1 DEF Enters
  <2>. QED
    BY <2>1, <2>2, <2>3
<1>11. DOMAIN p2p_counter'[s] = Edges(w)
  BY <1>0 DEF StrandOK, Enters
<1>12. ASSUME NEW e \in Edges(w), v \in {e[1], e[2]}
       PROVE  p2p_counter'[s][e] = Cardinality(Messages(w, k, e))
  <2>1. p2p_counter[s][e] = Cardinality(Messages(w, entered[s], e)) /\ DOMAIN p2p_counter[s] = Edges(w)
    BY <1>0, <1>12 DEF StrandOK
  <2>2. p2p_counter'[s][e] = IF c.kind = "P2P" /\ v \in {c.root, c.dst} /\ e = <<c.root, c.dst>>
                             THEN p2p_counter[s][e] + 1 ELSE p2p_counter[s][e]
    BY <1>1, <2>1 DEF Enters
  <2>3. e = <<c.root, c.dst>> => v \in {c.root, c.dst}
    BY <1>12
  <2>4. /\ Cardinality(Messages(w, entered[s], e)) \in Nat
        /\ Cardinality(Messages(w, k, e)) = Cardinality(Messages(w, entered[s], e)) +
             IF c.kind = "P2P" /\ <<c.root, c.dst>> = e THEN 1 ELSE 0
    BY <1>1, MessageCountsGoOn
  <2>. DEFINE A == Cardinality(Messages(w, entered[s], e))
              B == Cardinality(Messages(w, k, e))
              P == c.kind = "P2P" /\ e = <<c.root, c.dst>>
  <2>5. p2p_counter'[s][e] = IF P THEN A + 1 ELSE A
    BY <2>1, <2>2, <2>3
  <2>6. A \in Nat /\ B = A + IF P THEN 1 ELSE 0
    BY <2>4
  <2>. HIDE DEF A, B, P
  <2>7. p2p_counter'[s][e] = B
    BY <2>5, <2>6
  <2>. QED
    BY <2>7 DEF B
<1>13. results'[s] \in Seq(Outcomes(w)) /\ Len(results'[s]) = entered'[s] - 1
  <2>1. results[s] \in Seq(Outcomes(w)) /\ Len(results[s]) = entered[s]
    BY <1>0, <1>8 DEF StrandOK
  <2>2. results'[s] = results[s] /\ entered'[s] = entered[s] + 1
    BY DEF Enters
  <2>3. Len(results'[s]) = entered'[s] - 1
    BY <1>1, <2>1, <2>2
  <2>. QED
    BY <2>1, <2>2, <2>3
<1>14. entered'[s] = k /\ status'[s] = "running"
  BY DEF Enters
<1>15. PlaceOK(c, v, n, loop'[s])
  BY <1>4, <1>7 DEF FirstPlace
<1>16. StrandOK(s)'
  <2>1. entered'[s] \in 0 .. Len(Program(s)) /\ entered'[s] # 0
    BY <1>1, <1>2, <1>14
  <2>. HIDE DEF w, v, n, k, c
  <2>. QED
    BY <1>5, <1>6, <1>8, <1>9, <1>10, <1>11, <1>12, <1>13, <1>14, <1>15, <2>1, MeshStays
       DEF StrandOK, w, v, n
<1>. QED
  BY <1>2, <1>4, <1>6, <1>7, <1>8, <1>16

\* A strand that goes on is at a place of the same call.
LEMMA GoesOnKeeps ==
  ASSUME TypeInv, NEW s \in Strands, mesh' = mesh, GoesOn(s), buf'[s] \in [VRanks(s[1]) -> Value]
  PROVE  StrandOK(s)' /\ Running(s) /\ Running(s)' /\ Call(s)' = Call(s)
<1>1. /\ WorldSize(s[1]) \in Nat \ {0} /\ VRanks(s[1]) = 0 .. (WorldSize(s[1]) - 1)
      /\ s[2] \in VRanks(s[1]) /\ entered[s] \in Nat /\ Len(Program(s)) \in Nat
  BY StrandFacts
<1>2. Running(s) /\ Running(s)' /\ StrandOK(s)
  BY DEF GoesOn, Running, TypeInv
<1>3. Call(s) \in CallIn(WorldSize(s[1])) /\ PlaceOK(Call(s), s[2], WorldSize(s[1]), loop[s])
  BY <1>2, StrandFacts DEF StrandOK
<1>4. PlaceOK(Call(s), s[2], WorldSize(s[1]), loop'[s])
  <2>. DEFINE f == Following(Call(s), s[2], WorldSize(s[1]), loop[s])
  <2>1. loop[s].do # "end" /\ loop'[s] = f
    BY DEF GoesOn
  <2>2. NextPlace(Call(s), s[2], WorldSize(s[1]), loop[s], f, PeerOf(Call(s), s[2], WorldSize(s[1]), loop[s]))
    BY <1>1, <1>3, <2>1, CallGoesOn
  <2>. QED
    BY <2>1, <2>2 DEF NextPlace
<1>5. Call(s)' = Call(s)
  BY MeshStays DEF Call, GoesOn
<1>6. StrandOK(s)'
  BY <1>2, <1>4, <1>5, MeshStays DEF StrandOK, GoesOn, Running
<1>. QED
  BY <1>2, <1>5, <1>6

\* A call that ends adds one result.
LEMMA EndsKeeps ==
  ASSUME TypeInv, NEW s \in Strands, mesh' = mesh, Ends(s)
  PROVE  /\ StrandOK(s)' /\ Running(s) /\ ~Running(s)'
         /\ \A k \in 1 .. (entered[s] - 1) : results'[s][k] = results[s][k]
         /\ DOMAIN results[s] = 1 .. (entered[s] - 1) /\ DOMAIN results'[s] = 1 .. entered[s]
         /\ \/ results'[s][entered[s]] = <<"thrown">>
            \/ loop[s].do = "end" /\ results'[s][entered[s]] = <<"returned", buf[s]>>
<1>1. Running(s) /\ ~Running(s)' /\ StrandOK(s) /\ entered[s] \in Nat /\ entered[s] # 0
  BY StrandFacts DEF Ends, Running, TypeInv, StrandOK
<1>2. results[s] \in Seq(Outcomes(s[1])) /\ Len(results[s]) = entered[s] - 1
  BY <1>1 DEF StrandOK
<1>3. PICK x \in Outcomes(s[1]) : /\ results'[s] = Append(results[s], x)
                                  /\ x = <<"thrown">> \/ (loop[s].do = "end" /\ x = <<"returned", buf[s]>>)
  <2>1. buf[s] \in [VRanks(s[1]) -> Value]
    BY <1>1 DEF StrandOK
  <2>2. <<"returned", buf[s]>> \in Outcomes(s[1]) /\ <<"thrown">> \in Outcomes(s[1])
    BY <2>1 DEF Outcomes
  <2>. QED
    BY <2>2 DEF Ends
<1>4. /\ results'[s] \in Seq(Outcomes(s[1])) /\ Len(results'[s]) = entered[s]
      /\ DOMAIN results[s] = 1 .. (entered[s] - 1) /\ DOMAIN results'[s] = 1 .. entered[s]
      /\ \A k \in 1 .. (entered[s] - 1) : results'[s][k] = results[s][k]
      /\ results'[s][entered[s]] = x
  <2>. DEFINE q == results[s]
              S == Outcomes(s[1])
              N == entered[s]
  <2>1. q \in Seq(S) /\ Len(q) = N - 1 /\ N \in Nat /\ x \in S /\ results'[s] = Append(q, x)
    BY <1>1, <1>2, <1>3
  <2>. HIDE DEF q, S, N
  <2>2. /\ Append(q, x) \in Seq(S) /\ Len(Append(q, x)) = N
        /\ DOMAIN q = 1 .. (N - 1) /\ DOMAIN Append(q, x) = 1 .. N
        /\ \A k \in 1 .. (N - 1) : Append(q, x)[k] = q[k]
        /\ Append(q, x)[N] = x
    BY <2>1
  <2>. QED
    BY <2>1, <2>2 DEF q, S, N
<1>5. StrandOK(s)'
  <2>1. entered'[s] = entered[s] /\ loop'[s] = End /\ status'[s] \in {"ready", "gone"}
        /\ counter'[s] = counter[s] /\ p2p_counter'[s] = p2p_counter[s]
    BY DEF Ends
  <2>. QED
    BY <1>1, <1>4, <2>1, MeshStays DEF StrandOK
<1>. QED
  BY <1>1, <1>3, <1>4, <1>5

\* The steps of the close leave the strands alone.
LEMMA CloseIs ==
  ASSUME NEW r \in Ranks, StartClose(r) \/ SendFin(r) \/ RecvFin(r) \/ FinTimeout(r)
  PROVE  mesh' = mesh /\ UNCHANGED strandVars
  BY DEF StartClose, SendFin, RecvFin, FinTimeout

\* The types hold at the start.
LEMMA InitTypes == Init => TypeInv
<1>. SUFFICES ASSUME Init PROVE TypeInv
  OBVIOUS
<1>0. mesh \in Deployments
  BY DEF Init
<1>1. Domains
  <2>1. 0 \in Ranks
    BY <1>0, MeshFacts DEF Ranks
  <2>. QED
    BY <2>1, DeploymentAssumption DEF Init, Domains
<1>2. MessagesOK
  BY DEF Init, MessagesOK
<1>3. ASSUME NEW s \in Strands PROVE StrandOK(s)
  <2>1. s[1] \in Worlds /\ s[2] \in VRanks(s[1])
    BY StrandIs
  <2>2. Len(Program(s)) \in Nat
    BY <1>0, <2>1, MeshFacts DEF Program
  <2>3. Collectives(s[1], 0) = {} /\ \A e : Messages(s[1], 0, e) = {}
    BY DEF Collectives, Messages
  <2>4. Cardinality({}) = 0
    BY FS_EmptySet
  <2>5. <<>> \in Seq(Outcomes(s[1])) /\ Len(<<>>) = 0
    OBVIOUS
  <2>6. /\ counter[s] = 0 /\ entered[s] = 0 /\ status[s] = "ready" /\ loop[s] = End /\ results[s] = <<>>
        /\ p2p_counter[s] = [e \in Edges(s[1]) |-> 0]
    BY DEF Init, Edges
  <2>7. /\ DOMAIN p2p_counter[s] = Edges(s[1])
        /\ \A e \in Edges(s[1]) : p2p_counter[s][e] = Cardinality(Messages(s[1], entered[s], e))
    <3>1. \A e \in Edges(s[1]) : p2p_counter[s][e] = 0
      BY <2>6
    <3>2. \A e : Cardinality(Messages(s[1], entered[s], e)) = 0
      BY <2>3, <2>4, <2>6
    <3>. QED
      BY <2>6, <3>1, <3>2
  <2>8. results[s] \in Seq(Outcomes(s[1])) /\ Len(results[s]) = 0
    BY <2>5, <2>6
  <2>9. counter[s] = Cardinality(Collectives(s[1], entered[s]))
    BY <2>3, <2>4, <2>6
  <2>10. entered[s] \in 0 .. Len(Program(s)) /\ ~Running(s) /\ entered[s] = 0
    BY <2>2, <2>6 DEF Running
  <2>. QED
    BY <2>6, <2>7, <2>8, <2>9, <2>10 DEF StrandOK
<1>. QED
  BY <1>1, <1>2, <1>3 DEF TypeInv


\* The parts of TypeInv a step of strand s can break.
LEMMA StrandStep ==
  ASSUME TypeInv, NEW s \in Strands, OnlyMoves(s), StrandDomains, StrandOK(s)', MessagesOK',
         DOMAIN recv_msgs' = Ranks, \A r \in Ranks : DOMAIN recv_msgs'[r] = Ranks,
         UNCHANGED closeVars, timeouts' \in 0 .. MaxTimeouts
  PROVE  TypeInv'
<1>1. mesh' = mesh /\ Domains
  BY DEF OnlyMoves, TypeInv
<1>2. Strands' = Strands /\ Ranks' = Ranks
  BY <1>1, MeshStays
<1>3. Domains'
  BY <1>1, <1>2 DEF Domains, StrandDomains, closeVars
<1>4. ASSUME NEW t \in Strands PROVE StrandOK(t)'
  <2>1. CASE t # s
    BY <1>1, <2>1, SameStrand DEF OnlyMoves, TypeInv
  <2>. QED
    BY <2>1
<1>. QED
  BY <1>2, <1>3, <1>4 DEF TypeInv

\* Messages that are added or taken leave values in the channels.
LEMMA MessagesStay ==
  ASSUME MessagesOK, mesh' = mesh, NEW x \in Value,
         \A r, p \in Ranks : \A m \in recv_msgs'[r][p] : m \in recv_msgs[r][p] \/ m.value = x
  PROVE  MessagesOK'
  BY MeshStays DEF MessagesOK

\* Messages of the channels after a step that sends.
LEMMA SentIs ==
  ASSUME Domains, NEW a \in Ranks, NEW b \in Ranks, NEW key, NEW value,
         recv_msgs' = OnMessage(a, b, key, value)
  PROVE  /\ \A r, p \in Ranks : \A m \in recv_msgs'[r][p] :
              \/ m \in recv_msgs[r][p]
              \/ /\ r = a /\ p = b /\ m.key = key /\ m.value = value
                 /\ key \notin Keys(a, b)
         /\ \A r, p \in Ranks : \A m \in recv_msgs[r][p] : m \in recv_msgs'[r][p]
         /\ \E m \in recv_msgs'[a][b] : m.key = key
<1>1. \A r, p \in Ranks : recv_msgs'[r][p] =
         IF r = a /\ p = b THEN Added(a, b, key, value) ELSE recv_msgs[r][p]
  BY AddedTo
<1>2. \A r, p \in Ranks : \A m \in recv_msgs'[r][p] :
              \/ m \in recv_msgs[r][p]
              \/ /\ r = a /\ p = b /\ m.key = key /\ m.value = value
                 /\ key \notin Keys(a, b)
  BY <1>1 DEF Added
<1>3. \A r, p \in Ranks : \A m \in recv_msgs[r][p] : m \in recv_msgs'[r][p]
  BY <1>1 DEF Added
<1>4. \E m \in recv_msgs'[a][b] : m.key = key
  <2>1. CASE key \in Keys(a, b)
    BY <1>3, <2>1 DEF Keys
  <2>2. CASE key \notin Keys(a, b)
    <3>1. [key |-> key, value |-> value] \in recv_msgs'[a][b]
      BY <1>1, <2>2 DEF Added
    <3>. QED
      BY <3>1
  <2>. QED
    BY <2>1, <2>2
<1>. QED
  BY <1>2, <1>3, <1>4

\* Messages of the channels after a step that receives.
LEMMA TakenIs ==
  ASSUME Domains, NEW a \in Ranks, NEW b \in Ranks, NEW key,
         recv_msgs' = Taken(a, b, key)
  PROVE  \A r, p \in Ranks : \A m :
           m \in recv_msgs'[r][p] <=> m \in recv_msgs[r][p] /\ ~(r = a /\ p = b /\ m.key = key)
<1>1. \A r, p \in Ranks : recv_msgs'[r][p] =
         IF r = a /\ p = b THEN {m \in recv_msgs[a][b] : m.key # key} ELSE recv_msgs[r][p]
  BY DEF Taken, Domains
<1>. QED
  BY <1>1

\* WaitLinkTaskFinish goes from one other rank to the next.
LEMMA GotoIs ==
  ASSUME mesh \in Deployments, NEW r \in Ranks, NEW q \in Nat
  PROVE  \/ /\ Goto(r, q) = [at |-> "send", peer |-> NextPeer(r, q)]
            /\ NextPeer(r, q) \in Ranks /\ NextPeer(r, q) # r
         \/ /\ Goto(r, q) = [at |-> "closed", peer |-> 0] /\ 0 \in Ranks
            /\ NextPeer(r, q) >= mesh.size
<1>1. mesh.size \in Nat \ {0}
  BY MeshFacts
<1>. QED
  BY <1>1 DEF Goto, NextPeer, Ranks

\* What each step of the close does to the party that takes it.
LEMMA CloseSteps ==
  ASSUME Domains, NEW r \in Ranks, StartClose(r) \/ SendFin(r) \/ RecvFin(r) \/ FinTimeout(r)
  PROVE  /\ closing' \in [Ranks -> [at : {"open", "send", "recv", "closed", "thrown"}, peer : Ranks]]
         /\ \A a \in Ranks : closing'[a].at \in {"send", "recv"} => closing'[a].peer # a
         /\ \A a \in Ranks : a # r => closing'[a] = closing[a]
         /\ closing'[r] = IF StartClose(r) THEN Goto(r, 0)
                          ELSE IF RecvFin(r) THEN Goto(r, closing[r].peer + 1)
                          ELSE [at |-> IF SendFin(r) THEN "recv" ELSE "thrown", peer |-> closing[r].peer]
<1>. DEFINE R == [at : {"open", "send", "recv", "closed", "thrown"}, peer : Ranks]
            p == closing[r].peer
            new == IF StartClose(r) THEN Goto(r, 0)
                   ELSE IF RecvFin(r) THEN Goto(r, p + 1)
                   ELSE [at |-> IF SendFin(r) THEN "recv" ELSE "thrown", peer |-> p]
<1>1. closing \in [Ranks -> R] /\ mesh \in Deployments
  BY DEF Domains
<1>2. p \in Ranks /\ p + 1 \in Nat
  BY <1>1, MeshFacts DEF Ranks
<1>3. \A q \in Nat : Goto(r, q) \in R /\ (Goto(r, q).at \in {"send", "recv"} => Goto(r, q).peer # r)
  <2>. TAKE q \in Nat
  <2>. QED
    BY <1>1, GotoIs
<1>4. closing[r] = [at |-> closing[r].at, peer |-> p]
  BY <1>1
<1>5. closing' = [closing EXCEPT ![r] = new]
  <2>1. CASE StartClose(r)
    BY <2>1 DEF StartClose
  <2>2. CASE RecvFin(r)
    <3>1. ~StartClose(r)
      BY <2>2 DEF RecvFin, StartClose
    <3>. QED
      BY <2>2, <3>1 DEF RecvFin
  <2>3. CASE SendFin(r)
    <3>1. ~StartClose(r) /\ ~RecvFin(r)
      BY <2>3 DEF SendFin, StartClose, RecvFin
    <3>. QED
      <4>0. [closing[r] EXCEPT !.at = "recv"] = [at |-> "recv", peer |-> p]
        BY <1>1, <1>4
      <4>1. closing' = [closing EXCEPT ![r].at = "recv"] /\ new = [at |-> "recv", peer |-> p]
        BY <2>3, <3>1 DEF SendFin
      <4>. HIDE DEF new
      <4>. QED
        BY <4>0, <4>1, Zenon
  <2>4. CASE FinTimeout(r) /\ ~RecvFin(r)
    <3>1. ~StartClose(r) /\ ~SendFin(r)
      BY <2>4 DEF FinTimeout, StartClose, SendFin
    <3>. QED
      <4>0. [closing[r] EXCEPT !.at = "thrown"] = [at |-> "thrown", peer |-> p]
        BY <1>1, <1>4
      <4>1. closing' = [closing EXCEPT ![r].at = "thrown"] /\ new = [at |-> "thrown", peer |-> p]
        BY <2>4, <3>1 DEF FinTimeout
      <4>. HIDE DEF new
      <4>. QED
        BY <4>0, <4>1, Zenon
  <2>. QED
    BY <2>1, <2>2, <2>3, <2>4
<1>6. new \in R /\ (new.at \in {"send", "recv"} => new.peer # r)
  <2>1. closing[r].at \in {"send", "recv"} => p # r
    BY DEF Domains
  <2>2. StartClose(r) \/ RecvFin(r) \/ closing[r].at \in {"send", "recv"}
    BY DEF SendFin, FinTimeout
  <2>. QED
    BY <1>2, <1>3, <2>1, <2>2
<1>. HIDE DEF new
<1>7. \A a \in Ranks : closing'[a] = IF a = r THEN new ELSE closing[a]
  BY <1>1, <1>5
<1>. QED
  BY <1>1, <1>5, <1>6, <1>7 DEF Domains, new

\* Every step keeps the types: the counters stay those of the calls made so far, and
\* a strand goes from place to place of its call.
LEMMA TypesKept == TypeInv /\ [Next]_vars => TypeInv'
<1>. SUFFICES ASSUME TypeInv, [Next]_vars PROVE TypeInv'
  OBVIOUS
<1>0. Domains /\ MessagesOK /\ timeouts \in 0 .. MaxTimeouts /\ MaxTimeouts \in Nat
  BY DeploymentAssumption DEF TypeInv, Domains
<1>1. ASSUME NEW s \in Strands, Enter(s) PROVE TypeInv'
  <2>1. OnlyMoves(s) /\ StrandDomains /\ Enters(s)
    BY <1>1, EnterIs
  <2>2. StrandOK(s)'
    BY <2>1, EntersKeeps DEF OnlyMoves
  <2>3. UNCHANGED <<recv_msgs, closeVars, timeouts>>
    BY <1>1 DEF Enter
  <2>4. MessagesOK'
    BY <1>0, <2>1, <2>3, MeshStays DEF MessagesOK, OnlyMoves
  <2>. QED
    BY <1>0, <2>1, <2>2, <2>3, <2>4, StrandStep DEF Domains
<1>2. ASSUME NEW s \in Strands, SendImpl(s) PROVE TypeInv'
  <2>1. OnlyMoves(s) /\ StrandDomains /\ GoesOn(s)
    BY <1>2, MoveIs
  <2>2. /\ UNCHANGED <<buf, closeVars, timeouts>> /\ At(s, "send")
        /\ recv_msgs' = OnMessage(Peer(s), Self(s), Key(s), Payload(s))
    BY <1>2 DEF SendImpl
  <2>3. Peer(s) \in Ranks /\ Self(s) \in Ranks /\ Running(s)
    BY <2>2, AtChannel
  <2>4. Payload(s) \in Value
    BY <2>2, PayloadOK
  <2>5. MessagesOK'
    BY <1>0, <2>1, <2>2, <2>3, <2>4, SentIs, MessagesStay DEF OnlyMoves
  <2>6. buf'[s] \in [VRanks(s[1]) -> Value]
    BY <2>2, <2>3 DEF TypeInv, StrandOK
  <2>7. StrandOK(s)'
    BY <2>1, <2>6, GoesOnKeeps DEF OnlyMoves
  <2>8. DOMAIN recv_msgs' = Ranks /\ \A r \in Ranks : DOMAIN recv_msgs'[r] = Ranks
    BY <1>0, <2>2, <2>3, AddedTo
  <2>. QED
    BY <1>0, <2>1, <2>2, <2>5, <2>7, <2>8, StrandStep
<1>3. ASSUME NEW s \in Strands, Recv(s) PROVE TypeInv'
  <2>1. OnlyMoves(s) /\ StrandDomains /\ GoesOn(s)
    BY <1>3, MoveIs
  <2>2. /\ UNCHANGED <<closeVars, timeouts>> /\ At(s, "recv")
        /\ recv_msgs' = Taken(Self(s), Peer(s), Key(s))
    BY <1>3 DEF Recv
  <2>3. Peer(s) \in Ranks /\ Self(s) \in Ranks /\ Running(s)
    BY <2>2, AtChannel
  <2>5. MessagesOK'
    BY <1>0, <2>1, <2>2, <2>3, TakenIs, MessagesStay, EmptyValue DEF OnlyMoves
  <2>6. buf'[s] \in [VRanks(s[1]) -> Value]
    BY <1>3, RecvIs
  <2>7. StrandOK(s)'
    BY <2>1, <2>6, GoesOnKeeps DEF OnlyMoves
  <2>8. DOMAIN recv_msgs' = Ranks /\ \A r \in Ranks : DOMAIN recv_msgs'[r] = Ranks
    BY <1>0, <2>2, <2>3, TakenFrom
  <2>. QED
    BY <1>0, <2>1, <2>2, <2>5, <2>7, <2>8, StrandStep
<1>4. ASSUME NEW s \in Strands, Skip(s) PROVE TypeInv'
  <2>1. OnlyMoves(s) /\ StrandDomains /\ GoesOn(s)
    BY <1>4, MoveIs
  <2>2. UNCHANGED <<buf, recv_msgs, closeVars, timeouts>> /\ Running(s)
    BY <1>4 DEF Skip, At, Running
  <2>3. buf'[s] \in [VRanks(s[1]) -> Value]
    BY <2>2 DEF TypeInv, StrandOK
  <2>4. StrandOK(s)'
    BY <2>1, <2>3, GoesOnKeeps DEF OnlyMoves
  <2>5. MessagesOK'
    BY <1>0, <2>1, <2>2, MeshStays DEF MessagesOK, OnlyMoves
  <2>. QED
    BY <1>0, <2>1, <2>2, <2>4, <2>5, StrandStep DEF Domains
<1>5. ASSUME NEW s \in Strands, RecvTimeout(s) \/ Return(s) PROVE TypeInv'
  <2>1. OnlyMoves(s) /\ StrandDomains /\ Ends(s)
    BY <1>5, EndIs
  <2>2. StrandOK(s)'
    BY <2>1, EndsKeeps DEF OnlyMoves
  <2>3. UNCHANGED <<recv_msgs, closeVars>> /\ timeouts' \in 0 .. MaxTimeouts
    BY <1>0, <1>5 DEF RecvTimeout, Return
  <2>4. MessagesOK'
    BY <1>0, <2>1, <2>3, MeshStays DEF MessagesOK, OnlyMoves
  <2>. QED
    BY <1>0, <2>1, <2>2, <2>3, <2>4, StrandStep DEF Domains
<1>6. ASSUME NEW r \in Ranks, StartClose(r) \/ SendFin(r) \/ RecvFin(r) \/ FinTimeout(r) PROVE TypeInv'
  <2>. DEFINE p == closing[r].peer
  <2>1. mesh' = mesh /\ UNCHANGED strandVars
    BY <1>6, CloseIs
  <2>2. \A s \in Strands : StrandOK(s)'
    BY <2>1, SameStrand DEF TypeInv, Same, strandVars
  <2>3. /\ closing' \in [Ranks -> [at : {"open", "send", "recv", "closed", "thrown"}, peer : Ranks]]
        /\ \A a \in Ranks : closing'[a].at \in {"send", "recv"} => closing'[a].peer # a
    BY <1>0, <1>6, CloseSteps
  <2>4. CASE ~(SendFin(r) \/ RecvFin(r))
    <3>1. UNCHANGED <<recv_msgs, finished>> /\ timeouts' \in 0 .. MaxTimeouts
      BY <1>0, <1>6, <2>4 DEF StartClose, FinTimeout
    <3>2. MessagesOK'
      BY <1>0, <2>1, <3>1, MeshStays DEF MessagesOK
    <3>3. Domains'
      BY <1>0, <2>1, <2>3, <3>1, MeshStays DEF Domains, strandVars
    <3>. QED
      BY <2>1, <2>2, <3>2, <3>3, MeshStays DEF TypeInv
  <2>5. CASE SendFin(r) \/ RecvFin(r)
    <3>1. CASE p \in Ranks
      <4>1. /\ \A a, b \in Ranks : \A m \in recv_msgs'[a][b] : m \in recv_msgs[a][b] \/ m.value = Empty
            /\ DOMAIN recv_msgs' = Ranks /\ \A a \in Ranks : DOMAIN recv_msgs'[a] = Ranks
        <5>1. CASE SendFin(r)
          <6>1. recv_msgs' = OnMessage(p, r, kFinKey, Empty)
            BY <5>1 DEF SendFin
          <6>. QED
            BY <1>0, <3>1, <6>1, SentIs, AddedTo
        <5>2. CASE RecvFin(r)
          <6>1. recv_msgs' = Taken(r, p, kFinKey)
            BY <5>2 DEF RecvFin
          <6>. QED
            BY <1>0, <3>1, <6>1, TakenIs, TakenFrom
        <5>. QED
          BY <2>5, <5>1, <5>2
      <4>2. MessagesOK'
        BY <1>0, <2>1, <4>1, EmptyValue, MessagesStay
      <4>3. finished' \in [Ranks -> [Ranks -> BOOLEAN]] /\ timeouts' = timeouts
        <5>1. CASE SendFin(r)
          <6>1. finished' = [finished EXCEPT ![r][p] = TRUE] /\ finished \in [Ranks -> [Ranks -> BOOLEAN]]
                /\ timeouts' = timeouts
            BY <1>0, <5>1 DEF SendFin, Domains
          <6>. HIDE DEF p
          <6>. QED
            BY <3>1, <6>1
        <5>2. CASE RecvFin(r)
          BY <1>0, <5>2 DEF RecvFin, Domains
        <5>. QED
          BY <2>5, <5>1, <5>2
      <4>4. Domains'
        BY <1>0, <2>1, <2>3, <4>1, <4>3, MeshStays DEF Domains, strandVars
      <4>. QED
        BY <2>1, <2>2, <4>2, <4>4, MeshStays DEF TypeInv
    <3>2. p \in Ranks
      BY <1>0 DEF Domains
    <3>. QED
      BY <3>1, <3>2
  <2>. QED
    BY <2>4, <2>5
<1>7. CASE UNCHANGED vars
  <2>1. mesh' = mesh /\ UNCHANGED strandVars /\ UNCHANGED <<recv_msgs, closeVars, timeouts>>
    BY <1>7 DEF vars
  <2>2. \A s \in Strands : StrandOK(s)'
    BY <2>1, SameStrand DEF TypeInv, Same, strandVars
  <2>3. MessagesOK' /\ Domains'
    BY <1>0, <2>1, MeshStays DEF MessagesOK, Domains, strandVars, closeVars
  <2>. QED
    BY <2>1, <2>2, <2>3, MeshStays DEF TypeInv
<1>. QED
  BY <1>1, <1>2, <1>3, <1>4, <1>5, <1>6, <1>7 DEF Next

-----------------------------------------------------------------------------
(* What a step does to every strand, and what no step undoes.                *)

\* What an action of strand t does to it.
Acts(t) ==
  \/ Enter(t) /\ Enters(t)
  \/ Recv(t) /\ GoesOn(t)
  \/ (SendImpl(t) \/ Skip(t)) /\ GoesOn(t) /\ buf'[t] = buf[t] /\ loop[t].do # "recv"
  \/ (RecvTimeout(t) \/ Return(t)) /\ Ends(t)

\* Every step moves one strand by an action of its own, or none.
LEMMA StepIs ==
  ASSUME TypeInv, [Next]_vars
  PROVE  mesh' = mesh /\ \A t \in Strands : Same(t) \/ Acts(t)
<1>. DEFINE Goal == mesh' = mesh /\ \A t \in Strands : Same(t) \/ Acts(t)
<1>1. ASSUME NEW s \in Strands, Enter(s) PROVE Goal
  BY <1>1, EnterIs DEF OnlyMoves, Acts
<1>2. ASSUME NEW s \in Strands, SendImpl(s) \/ Recv(s) \/ Skip(s) PROVE Goal
  <2>1. Recv(s) \/ ((SendImpl(s) \/ Skip(s)) /\ buf'[s] = buf[s] /\ loop[s].do # "recv")
    BY <1>2 DEF SendImpl, Skip, At
  <2>. QED
    BY <1>2, <2>1, MoveIs DEF OnlyMoves, Acts
<1>3. ASSUME NEW s \in Strands, RecvTimeout(s) \/ Return(s) PROVE Goal
  BY <1>3, EndIs DEF OnlyMoves, Acts
<1>4. ASSUME NEW r \in Ranks, StartClose(r) \/ SendFin(r) \/ RecvFin(r) \/ FinTimeout(r) PROVE Goal
  BY <1>4, CloseIs DEF Same, strandVars
<1>5. CASE UNCHANGED vars
  BY <1>5 DEF vars, Same, strandVars
<1>. QED
  BY <1>1, <1>2, <1>3, <1>4, <1>5 DEF Next

\* A strand that goes on comes to the next place of its call.
LEMMA GoesOnTo ==
  ASSUME TypeInv, NEW s \in Strands, GoesOn(s)
  PROVE  /\ NextPlace(Call(s), s[2], WorldSize(s[1]), loop[s], loop'[s], To(s))
         /\ PlaceOK(Call(s), s[2], WorldSize(s[1]), loop[s])
         /\ loop[s].do # "end"
         /\ loop[s].do # "skip" => ChannelCall(Call(s), s[2], WorldSize(s[1]), loop[s], loop'[s], To(s))
<1>. DEFINE f == Following(Call(s), s[2], WorldSize(s[1]), loop[s])
<1>1. Running(s) /\ loop[s].do # "end" /\ loop'[s] = f
  BY DEF GoesOn, Running
<1>2. /\ WorldSize(s[1]) \in Nat \ {0} /\ VRanks(s[1]) = 0 .. (WorldSize(s[1]) - 1)
      /\ s[2] \in VRanks(s[1]) /\ Call(s) \in CallIn(WorldSize(s[1]))
  BY <1>1, StrandFacts
<1>3. PlaceOK(Call(s), s[2], WorldSize(s[1]), loop[s])
  BY <1>1 DEF TypeInv, StrandOK
<1>4. /\ NextPlace(Call(s), s[2], WorldSize(s[1]), loop[s], f, PeerOf(Call(s), s[2], WorldSize(s[1]), loop[s]))
      /\ loop[s].do # "skip" => ChannelCall(Call(s), s[2], WorldSize(s[1]), loop[s], f, PeerOf(Call(s), s[2], WorldSize(s[1]), loop[s]))
  BY <1>1, <1>2, <1>3, CallGoesOn
<1>. QED
  BY <1>1, <1>3, <1>4 DEF To

\* Strand s has nothing more to receive from rank "from" in its k-th call.
GotAll(s, k, from) ==
  \/ entered[s] > k
  \/ /\ entered[s] = k
     /\ \/ ~Running(s)
        \/ ~StillRecvs(Call(s), s[2], WorldSize(s[1]), loop[s], from)

\* Calls are made one after the other, and a channel call is not made again.
LEMMA NothingUndone ==
  ASSUME TypeInv, [Next]_vars, NEW t \in Strands
  PROVE  /\ entered'[t] >= entered[t] /\ entered'[t] \in Nat /\ entered[t] \in Nat
         /\ \A k \in Nat, d \in VRanks(t[1]) : SentAll(t, k, d) => SentAll(t, k, d)'
         /\ \A k \in Nat, d \in VRanks(t[1]) : GotAll(t, k, d) => GotAll(t, k, d)'
<1>. DEFINE Goal == /\ entered'[t] >= entered[t] /\ entered'[t] \in Nat /\ entered[t] \in Nat
                    /\ \A k \in Nat, d \in VRanks(t[1]) : SentAll(t, k, d) => SentAll(t, k, d)'
                    /\ \A k \in Nat, d \in VRanks(t[1]) : GotAll(t, k, d) => GotAll(t, k, d)'
<1>1. mesh' = mesh /\ (Same(t) \/ Enters(t) \/ GoesOn(t) \/ Ends(t)) /\ entered[t] \in Nat
  BY StepIs, StrandFacts DEF Acts
<1>2. /\ Program(t)' = Program(t) /\ WorldSize(t[1])' = WorldSize(t[1])
      /\ VRanks(t[1])' = VRanks(t[1]) /\ VRanks(t[1]) = 0 .. (WorldSize(t[1]) - 1)
  BY <1>1, MeshStays, StrandFacts
<1>3. CASE Same(t)
  <2>1. Call(t)' = Call(t)
    BY <1>2, <1>3 DEF Call, Same
  <2>. QED
    BY <1>1, <1>2, <1>3, <2>1 DEF Same, SentAll, GotAll, Running
<1>4. CASE Enters(t)
  BY <1>1, <1>4 DEF Enters, SentAll, GotAll, Running
<1>5. CASE GoesOn(t)
  <2>1. Call(t)' = Call(t)
    BY <1>2, <1>5 DEF Call, GoesOn
  <2>2. \A d \in VRanks(t[1]) :
          /\ StillSends(Call(t), t[2], WorldSize(t[1]), loop'[t], d)
               => StillSends(Call(t), t[2], WorldSize(t[1]), loop[t], d)
          /\ StillRecvs(Call(t), t[2], WorldSize(t[1]), loop'[t], d)
               => StillRecvs(Call(t), t[2], WorldSize(t[1]), loop[t], d)
    BY <1>2, <1>5, GoesOnTo DEF NextPlace
  <2>3. entered'[t] = entered[t] /\ status'[t] = status[t]
    BY <1>5 DEF GoesOn
  <2>. QED
    BY <1>1, <1>2, <2>1, <2>2, <2>3 DEF SentAll, GotAll, Running
<1>6. CASE Ends(t)
  BY <1>1, <1>6 DEF Ends, SentAll, GotAll, Running
<1>. QED
  BY <1>1, <1>3, <1>4, <1>5, <1>6

\* A message with the key of a call that was not there before: the party of that
\* world just sent it, in that call.
LEMMA NewMessage ==
  ASSUME TypeInv, [Next]_vars, NEW w \in Worlds, NEW k \in Calls(w),
         NEW v \in VRanks(w), NEW d \in VRanks(w),
         NEW m \in recv_msgs'[OrigRank(w, d)][OrigRank(w, v)],
         m \notin recv_msgs[OrigRank(w, d)][OrigRank(w, v)], m.key = KeyOf(w, k)
  PROVE  /\ SendImpl(<<w, v>>) /\ entered[<<w, v>>] = k /\ To(<<w, v>>) = d
         /\ m.value = Payload(<<w, v>>)
<1>0. Domains /\ mesh \in Deployments
  BY DEF TypeInv, Domains
<1>1. OrigRank(w, d) \in Ranks /\ OrigRank(w, v) \in Ranks /\ KeyOf(w, k) # kFinKey
  BY <1>0, MeshFacts, FinDiffers
<1>2. ~UNCHANGED recv_msgs
  OBVIOUS
<1>3. ASSUME NEW s \in Strands, Recv(s) PROVE FALSE
  <2>1. Self(s) \in Ranks /\ Peer(s) \in Ranks /\ recv_msgs' = Taken(Self(s), Peer(s), Key(s))
    BY <1>3, AtChannel DEF Recv
  <2>. QED
    BY <1>0, <1>1, <2>1, TakenIs
<1>4. ASSUME NEW r \in Ranks, SendFin(r) PROVE FALSE
  <2>1. closing[r].peer \in Ranks /\ recv_msgs' = OnMessage(closing[r].peer, r, kFinKey, Empty)
    BY <1>0, <1>4 DEF SendFin, Domains
  <2>. QED
    BY <1>0, <1>1, <2>1, SentIs
<1>5. ASSUME NEW r \in Ranks, RecvFin(r) PROVE FALSE
  <2>1. closing[r].peer \in Ranks /\ recv_msgs' = Taken(r, closing[r].peer, kFinKey)
    BY <1>0, <1>5 DEF RecvFin, Domains
  <2>. QED
    BY <1>0, <1>1, <2>1, TakenIs
<1>6. PICK s \in Strands : SendImpl(s)
  BY <1>2, <1>3, <1>4, <1>5 DEF Next, vars, Enter, Skip, RecvTimeout, Return, StartClose, FinTimeout
<1>7. /\ At(s, "send") /\ Self(s) \in Ranks /\ Peer(s) \in Ranks
      /\ recv_msgs' = OnMessage(Peer(s), Self(s), Key(s), Payload(s))
      /\ Key(s) = KeyOf(s[1], entered[s]) /\ Running(s) /\ To(s) \in VRanks(s[1])
  BY <1>6, AtChannel DEF SendImpl
<1>8. /\ OrigRank(w, d) = Peer(s) /\ OrigRank(w, v) = Self(s) /\ m.key = Key(s) /\ m.value = Payload(s)
  BY <1>0, <1>1, <1>7, SentIs
<1>9. s[1] \in Worlds /\ s[2] \in VRanks(s[1]) /\ s = <<s[1], s[2]>> /\ entered[s] \in Calls(s[1])
  BY <1>7, StrandFacts
<1>10. w = s[1] /\ k = entered[s]
  <2>1. KeyOf(w, k) = KeyOf(s[1], entered[s])
    BY <1>7, <1>8
  <2>. QED
    BY <1>0, <1>9, <2>1, KeysDiffer
<1>11. d = To(s) /\ v = s[2]
  <2>1. OrigRank(w, d) = OrigRank(w, To(s)) /\ OrigRank(w, v) = OrigRank(w, s[2])
    BY <1>8, <1>10 DEF Peer, Self
  <2>. QED
    BY <1>0, <1>7, <1>9, <1>10, <2>1, MeshFacts
<1>. QED
  BY <1>6, <1>8, <1>9, <1>10, <1>11

-----------------------------------------------------------------------------
(* What a message says: its sender is done with it, it carries the value the *)
(* call wants in its slot, and a message of a barrier was sent after the     *)
(* parties before its sender had entered.                                    *)

\* What a slot has to hold in the end.
Want(w, k, slot) ==
  LET c == mesh.program[w][k]
  IN CASE c.kind = "SCATTER" -> Input(w, k, c.root, slot)
       [] c.kind = "BCAST" -> Input(w, k, c.root, 0)
       [] OTHER -> Input(w, k, slot, 0)

\* The o ranks up to v have entered the k-th call.
Heard(w, k, v, o) ==
  \A j \in 0 .. (o - 1) : entered[<<w, PrevRank(v, j, WorldSize(w))>>] >= k

MsgOK(w, k, v, d, m) ==
  /\ SentAll(<<w, v>>, k, d)
  /\ mesh.program[w][k].kind # "BARRIER" => m.value = Want(w, k, Slot(mesh.program[w][k], v, d))
  /\ mesh.program[w][k].kind = "BARRIER" => Heard(w, k, v, RingOffset(v, d, WorldSize(w)))

MsgInv ==
  \A w \in Worlds : \A k \in Calls(w) : \A v, d \in VRanks(w) :
    \A m \in recv_msgs[OrigRank(w, d)][OrigRank(w, v)] :
      m.key = KeyOf(w, k) => MsgOK(w, k, v, d, m)

\* A buffer that is filled in holds what it has to.
BufInv ==
  \A s \in Strands : Running(s) =>
    \A slot \in VRanks(s[1]) :
      Has(Call(s), s[2], loop[s], slot) => buf[s][slot] = Want(s[1], entered[s], slot)

\* In a barrier's round with some offset, that many parties have entered.
RoundInv ==
  \A s \in Strands : Running(s) /\ Call(s).kind = "BARRIER" =>
    Heard(s[1], entered[s], s[2], IF loop[s].do = "end" THEN WorldSize(s[1]) ELSE loop[s].i)

\* A rank of the ring.
LEMMA PrevRankIn ==
  ASSUME NEW n \in Nat \ {0}, NEW v \in 0 .. (n - 1), NEW o \in 0 .. (n - 1)
  PROVE  PrevRank(v, o, n) \in 0 .. (n - 1)
<1>1. PrevRank(v, o, n) = IF v >= o THEN v - o ELSE v - o + n
  BY PrevRankIs
<1>. QED
  BY <1>1

\* Two steps back along the ring are one.
LEMMA PrevRankAdds ==
  ASSUME NEW n \in Nat \ {0}, NEW v \in 0 .. (n - 1), NEW o \in 0 .. (n - 1), NEW j \in 0 .. (n - 1),
         o + j < n
  PROVE  PrevRank(PrevRank(v, o, n), j, n) = PrevRank(v, o + j, n)
<1>1. PrevRank(v, o, n) = IF v >= o THEN v - o ELSE v - o + n
  BY PrevRankIs
<1>2. PrevRank(v, o, n) \in 0 .. (n - 1)
  BY <1>1
<1>3. PrevRank(PrevRank(v, o, n), j, n) =
        IF PrevRank(v, o, n) >= j THEN PrevRank(v, o, n) - j ELSE PrevRank(v, o, n) - j + n
  BY <1>2, PrevRankIs
<1>4. o + j \in 0 .. (n - 1)
  OBVIOUS
<1>5. PrevRank(v, o + j, n) = IF v >= o + j THEN v - (o + j) ELSE v - (o + j) + n
  BY <1>4, PrevRankIs
<1>. QED
  BY <1>1, <1>2, <1>3, <1>5

\* What was heard stays heard.
LEMMA HeardStays ==
  ASSUME TypeInv, [Next]_vars, NEW w \in Worlds, NEW k \in Nat, NEW v \in VRanks(w),
         NEW o \in 0 .. WorldSize(w), Heard(w, k, v, o)
  PROVE  Heard(w, k, v, o)'
<1>1. mesh' = mesh /\ mesh \in Deployments
  BY StepIs DEF TypeInv, Domains
<1>2. WorldSize(w)' = WorldSize(w) /\ WorldSize(w) \in Nat \ {0} /\ VRanks(w) = 0 .. (WorldSize(w) - 1)
  BY <1>1, MeshStays, MeshFacts DEF VRanks
<1>3. ASSUME NEW j \in 0 .. (o - 1) PROVE entered'[<<w, PrevRank(v, j, WorldSize(w))>>] >= k
  <2>1. j \in 0 .. (WorldSize(w) - 1)
    BY <1>2
  <2>2. PrevRank(v, j, WorldSize(w)) \in VRanks(w)
    BY <1>2, <2>1, PrevRankIn
  <2>3. <<w, PrevRank(v, j, WorldSize(w))>> \in Strands
    BY <2>2, IsStrand
  <2>4. entered[<<w, PrevRank(v, j, WorldSize(w))>>] >= k
    BY <1>3 DEF Heard
  <2>. DEFINE t == <<w, PrevRank(v, j, WorldSize(w))>>
  <2>5. entered'[t] >= entered[t] /\ entered'[t] \in Nat /\ entered[t] \in Nat
    BY <2>3, NothingUndone
  <2>. QED
    BY <2>4, <2>5
<1>. QED
  BY <1>2, <1>3 DEF Heard

\* A message that was in the channel before.
LEMMA MsgStays ==
  ASSUME TypeInv, [Next]_vars, NEW w \in Worlds, NEW k \in Calls(w),
         NEW v \in VRanks(w), NEW d \in VRanks(w), NEW m, MsgOK(w, k, v, d, m)
  PROVE  MsgOK(w, k, v, d, m)'
<1>1. mesh' = mesh /\ mesh \in Deployments
  BY StepIs DEF TypeInv, Domains
<1>2. /\ WorldSize(w)' = WorldSize(w) /\ WorldSize(w) \in Nat \ {0} /\ VRanks(w) = 0 .. (WorldSize(w) - 1)
      /\ k \in Nat
  BY <1>1, MeshStays, MeshFacts DEF VRanks, Calls
<1>3. SentAll(<<w, v>>, k, d)'
  <2>. DEFINE t == <<w, v>>
  <2>1. t \in Strands /\ t[1] = w
    BY IsStrand
  <2>2. SentAll(t, k, d)
    BY DEF MsgOK
  <2>. HIDE DEF t
  <2>3. SentAll(t, k, d)'
    BY <1>2, <2>1, <2>2, NothingUndone
  <2>. QED
    BY <2>3 DEF t
<1>4. mesh.program[w][k].kind = "BARRIER" => Heard(w, k, v, RingOffset(v, d, WorldSize(w)))'
  <2>. SUFFICES ASSUME mesh.program[w][k].kind = "BARRIER"
                PROVE  Heard(w, k, v, RingOffset(v, d, WorldSize(w)))'
    OBVIOUS
  <2>. DEFINE o == RingOffset(v, d, WorldSize(w))
  <2>1. o \in 0 .. WorldSize(w)
    <3>1. o \in 0 .. (WorldSize(w) - 1)
      BY <1>2, OffsetOf
    <3>. QED
      BY <1>2, <3>1
  <2>2. Heard(w, k, v, o) /\ o' = o
    BY <1>2 DEF MsgOK, RingOffset
  <2>. HIDE DEF o
  <2>3. \A q \in 0 .. WorldSize(w) : Heard(w, k, v, q) => Heard(w, k, v, q)'
    BY <1>2, HeardStays
  <2>4. o \in 0 .. WorldSize(w) /\ Heard(w, k, v, o)'
    BY <2>1, <2>2, <2>3
  <2>. QED
    BY <2>4 DEF o
<1>5. Want(w, k, Slot(mesh.program[w][k], v, d))' = Want(w, k, Slot(mesh.program[w][k], v, d))
  BY <1>1 DEF Want, Slot, Input
<1>. QED
  BY <1>1, <1>3, <1>4, <1>5 DEF MsgOK

\* A message that is sent is of the place its sender is at.
LEMMA MsgInvKept ==
  ASSUME TypeInv, MsgInv, BufInv, RoundInv, [Next]_vars
  PROVE  MsgInv'
<1>0. mesh' = mesh /\ mesh \in Deployments /\ TypeInv'
  BY StepIs, TypesKept DEF TypeInv, Domains
<1>1. ASSUME NEW w \in Worlds, NEW k \in Calls(w), NEW v \in VRanks(w), NEW d \in VRanks(w),
             NEW m \in recv_msgs'[OrigRank(w, d)][OrigRank(w, v)], m.key = KeyOf(w, k)
      PROVE  MsgOK(w, k, v, d, m)'
  <2>1. CASE m \in recv_msgs[OrigRank(w, d)][OrigRank(w, v)]
    <3>1. MsgOK(w, k, v, d, m)
      BY <1>1, <2>1 DEF MsgInv
    <3>. QED
      BY <3>1, MsgStays
  <2>2. CASE m \notin recv_msgs[OrigRank(w, d)][OrigRank(w, v)]
    <3>. DEFINE s == <<w, v>>
                n == WorldSize(w)
                c == mesh.program[w][k]
    <3>1. SendImpl(s) /\ entered[s] = k /\ To(s) = d /\ m.value = Payload(s)
      BY <1>1, <2>2, NewMessage
    <3>2. s \in Strands /\ s[1] = w /\ s[2] = v
      BY IsStrand
    <3>. HIDE DEF s
    <3>3. At(s, "send") /\ Running(s) /\ loop[s].do = "send" /\ GoesOn(s)
      BY <3>1, <3>2, MoveIs DEF SendImpl, At, Running
    <3>4. Call(s) = c /\ n \in Nat \ {0} /\ VRanks(w) = 0 .. (n - 1) /\ k \in Nat
      BY <3>1, <3>2, <3>3, StrandFacts
    <3>5. ChannelCall(c, v, n, loop[s], loop'[s], d) /\ PlaceOK(c, v, n, loop[s])
      BY <3>1, <3>2, <3>3, <3>4, GoesOnTo
    <3>6. SentAll(<<w, v>>, k, d)'
      <4>1. entered'[s] = k /\ Call(s)' = c /\ WorldSize(w)' = n /\ loop'[s] = loop[s]' 
        BY <1>0, <3>1, <3>3, <3>4, MeshStays DEF GoesOn, Call
      <4>2. ~StillSends(c, v, n, loop'[s], d)
        BY <3>3, <3>5 DEF ChannelCall
      <4>3. SentAll(s, k, d)'
        BY <3>2, <4>1, <4>2 DEF SentAll
      <4>. QED
        BY <4>3 DEF s
    <3>7. c.kind # "BARRIER" => m.value = Want(w, k, Slot(c, v, d))
      BY <3>1, <3>2, <3>3, <3>4, <3>5, PayloadOK DEF ChannelCall, BufInv
    <3>8. c.kind = "BARRIER" => Heard(w, k, v, RingOffset(v, d, n))'
      <4>. SUFFICES ASSUME c.kind = "BARRIER" PROVE Heard(w, k, v, RingOffset(v, d, n))'
        OBVIOUS
      <4>. DEFINE o == loop[s].i
      <4>1. o \in 1 .. (n - 1) /\ d = NextRank(v, o, n)
        BY <3>1, <3>2, <3>3, <3>4, <3>5 DEF PlaceOK, To, PeerOf
      <4>. HIDE DEF o
      <4>2. RingOffset(v, d, n) = o /\ o \in 0 .. n
        BY <3>4, <4>1, AtOffset
      <4>3. Heard(w, k, v, o)
        BY <3>1, <3>2, <3>3, <3>4 DEF RoundInv, o
      <4>4. \A q \in 0 .. n : Heard(w, k, v, q) => Heard(w, k, v, q)'
        BY <3>4, HeardStays
      <4>5. RingOffset(v, d, n)' = RingOffset(v, d, n)
        BY <1>0, MeshStays DEF RingOffset
      <4>6. RingOffset(v, d, n) \in 0 .. n /\ Heard(w, k, v, RingOffset(v, d, n))
        BY <4>2, <4>3
      <4>. DEFINE q == RingOffset(v, d, n)
      <4>7. q \in 0 .. n /\ Heard(w, k, v, q) /\ q' = q
        BY <4>5, <4>6
      <4>. HIDE DEF q
      <4>8. Heard(w, k, v, q)'
        BY <4>4, <4>7
      <4>. QED
        BY <4>8 DEF q
    <3>9. Want(w, k, Slot(c, v, d))' = Want(w, k, Slot(c, v, d)) /\ c' = c
      BY <1>0 DEF Want, Slot, Input
    <3>. QED
      BY <3>6, <3>7, <3>8, <3>9 DEF MsgOK
  <2>. QED
    BY <2>1, <2>2
<1>. QED
  BY <1>0, <1>1, MeshStays DEF MsgInv

\* A buffer is filled by the party's own input or by a message.
LEMMA BufInvKept ==
  ASSUME TypeInv, MsgInv, BufInv, [Next]_vars
  PROVE  BufInv'
<1>0. mesh' = mesh /\ mesh \in Deployments /\ TypeInv' /\ \A w, k, x : Want(w, k, x)' = Want(w, k, x)
  BY StepIs, TypesKept DEF TypeInv, Domains, Want, Input
<1>. SUFFICES ASSUME NEW s \in Strands, Running(s)', NEW slot \in VRanks(s[1]),
                     Has(Call(s)', s[2], loop'[s], slot)
              PROVE  buf'[s][slot] = Want(s[1], entered'[s], slot)
  BY <1>0, MeshStays DEF BufInv
<1>. DEFINE w == s[1]
            v == s[2]
            n == WorldSize(w)
<1>1. /\ w \in Worlds /\ v \in VRanks(w) /\ n \in Nat \ {0} /\ VRanks(w) = 0 .. (n - 1)
      /\ s = <<w, v>>
  BY StrandFacts
<1>2. CASE Same(s)
  <2>1. Call(s)' = Call(s) /\ Running(s)
    BY <1>0, <1>2, MeshStays DEF Call, Same, Running
  <2>. QED
    BY <1>2, <2>1 DEF BufInv, Same
<1>3. CASE Enters(s)
  <2>. DEFINE k == entered[s] + 1
              c == mesh.program[w][k]
  <2>1. Call(s)' = c /\ k \in Calls(w) /\ FirstPlace(c, v, n, loop'[s]) /\ entered'[s] = k
    BY <1>0, <1>3, EntersKeeps DEF Enters
  <2>2. IF c.kind \in {"SCATTER", "BCAST"} THEN v = c.root ELSE slot = v
    BY <1>1, <2>1 DEF FirstPlace
  <2>3. buf'[s][slot] = Input(w, k, v, IF c.kind = "SCATTER" THEN slot ELSE 0)
    BY <1>0, <1>3, <2>1, InputsOK DEF Enters
  <2>. QED
    BY <2>1, <2>2, <2>3 DEF Want
<1>4. CASE GoesOn(s) /\ (Recv(s) \/ (buf'[s] = buf[s] /\ loop[s].do # "recv"))
  <2>. DEFINE k == entered[s]
              c == Call(s)
  <2>1. Running(s) /\ entered'[s] = k /\ Call(s)' = c
    BY <1>0, <1>4, MeshStays DEF GoesOn, Running, Call
  <2>2. c = mesh.program[w][k] /\ k \in Calls(w)
    BY <2>1, StrandFacts
  <2>3. Has(c, v, loop[s], slot) \/ (loop[s].do = "recv" /\ slot = Slot(c, To(s), v))
    BY <1>1, <1>4, <2>1, GoesOnTo DEF NextPlace
  <2>4. CASE buf'[s] = buf[s] /\ loop[s].do # "recv"
    BY <2>1, <2>3, <2>4 DEF BufInv
  <2>5. CASE Recv(s)
    <3>1. PICK m \in recv_msgs[Self(s)][Peer(s)] :
           /\ m.key = Key(s)
           /\ \A x \in VRanks(s[1]) : buf'[s][x] =
                IF Call(s).kind # "BARRIER" /\ x = Slot(Call(s), To(s), s[2])
                THEN m.value ELSE buf[s][x]
      BY <2>5, RecvIs
    <3>2. c.kind # "BARRIER"
      BY <2>1 DEF Has
    <3>3. Key(s) = KeyOf(w, k) /\ To(s) \in VRanks(w)
      BY <2>5, AtChannel DEF Recv
    <3>4. MsgOK(w, k, To(s), v, m)
      <4>1. m \in recv_msgs[OrigRank(w, v)][OrigRank(w, To(s))] /\ m.key = KeyOf(w, k)
        BY <3>1, <3>3 DEF Self, Peer
      <4>. QED
        BY <1>1, <2>2, <3>3, <4>1 DEF MsgInv
    <3>5. m.value = Want(w, k, Slot(c, To(s), v))
      BY <2>2, <3>2, <3>4 DEF MsgOK
    <3>6. CASE slot = Slot(c, To(s), v)
      BY <2>1, <3>1, <3>2, <3>5, <3>6
    <3>7. CASE slot # Slot(c, To(s), v)
      BY <2>1, <2>3, <3>1, <3>7 DEF BufInv
    <3>. QED
      BY <3>6, <3>7
  <2>. QED
    BY <1>4, <2>4, <2>5
<1>5. ~Ends(s)
  BY DEF Ends, Running
<1>. QED
  BY <1>2, <1>3, <1>4, <1>5, StepIs DEF Acts

\* A barrier starts with its own entry, and each round doubles what was heard.
LEMMA RoundInvKept ==
  ASSUME TypeInv, MsgInv, RoundInv, [Next]_vars
  PROVE  RoundInv'
<1>0. mesh' = mesh /\ mesh \in Deployments /\ TypeInv'
  BY StepIs, TypesKept DEF TypeInv, Domains
<1>. SUFFICES ASSUME NEW s \in Strands, Running(s)', Call(s)'.kind = "BARRIER",
                     NEW j \in 0 .. ((IF loop'[s].do = "end" THEN WorldSize(s[1]) ELSE loop'[s].i) - 1)
              PROVE  entered'[<<s[1], PrevRank(s[2], j, WorldSize(s[1]))>>] >= entered'[s]
  BY <1>0, MeshStays DEF RoundInv, Heard
<1>. DEFINE w == s[1]
            v == s[2]
            n == WorldSize(w)
            o == IF loop[s].do = "end" THEN n ELSE loop[s].i
            p == IF loop'[s].do = "end" THEN n ELSE loop'[s].i
            k == entered'[s]
            By(x) == entered'[<<w, PrevRank(v, x, n)>>] >= k
<1>1. /\ w \in Worlds /\ v \in VRanks(w) /\ n \in Nat \ {0} /\ VRanks(w) = 0 .. (n - 1)
      /\ s = <<w, v>> /\ entered[s] \in Nat /\ n' = n
  BY <1>0, StrandFacts, MeshStays
<1>2. j \in 0 .. (p - 1)
  OBVIOUS
<1>3. By(0) /\ k \in Nat
  <2>1. PrevRank(v, 0, n) = v
    BY <1>1, PrevRankIs
  <2>. QED
    BY <1>1, <2>1, NothingUndone
<1>4. ASSUME Running(s), entered'[s] = entered[s], Call(s).kind = "BARRIER", NEW i \in 0 .. (o - 1) PROVE By(i)
  <2>1. o \in 0 .. n
    <3>1. PlaceOK(Call(s), v, n, loop[s])
      BY <1>4 DEF TypeInv, StrandOK
    <3>. QED
      BY <1>1, <1>4, <3>1 DEF PlaceOK
  <2>2. Heard(w, k, v, o) /\ k \in Nat
    BY <1>1, <1>4 DEF RoundInv
  <2>. HIDE DEF o, k
  <2>3. \A x \in Nat : \A q \in 0 .. n : Heard(w, x, v, q) => Heard(w, x, v, q)'
    BY <1>1, HeardStays
  <2>. DEFINE e == entered[s]
  <2>4. e \in Nat /\ e = k /\ Heard(w, e, v, o)
    BY <1>4, <2>2 DEF k
  <2>5. ASSUME NEW x \in Nat, NEW q \in 0 .. n, Heard(w, x, v, q), NEW y \in 0 .. (q - 1)
        PROVE  entered'[<<w, PrevRank(v, y, n)>>] >= x
    BY <1>1, <2>3, <2>5 DEF Heard
  <2>. QED
    BY <1>4, <2>1, <2>4, <2>5
<1>5. CASE Same(s)
  <2>1. Call(s)' = Call(s) /\ Running(s) /\ entered'[s] = entered[s] /\ p = o
    BY <1>0, <1>5, MeshStays DEF Call, Same, Running
  <2>. QED
    BY <1>2, <1>4, <2>1
<1>6. CASE Enters(s)
  <2>. DEFINE c == mesh.program[w][entered[s] + 1]
  <2>1. Call(s)' = c
    BY <1>0, <1>6, EntersKeeps
  <2>2. loop'[s] = Barrier(v, n, Start)
    <3>1. Program(s) = mesh.program[w]
      BY StrandFacts
    <3>. QED
      BY <1>6, <2>1, <3>1 DEF Enters, Following
  <2>3. p = 1
    BY <1>1, <2>2 DEF Barrier, Start, Place, End
  <2>. QED
    BY <1>2, <1>3, <2>3
<1>7. CASE GoesOn(s) /\ loop[s].do # "recv"
  <2>1. Running(s) /\ entered'[s] = entered[s] /\ Call(s)' = Call(s) /\ loop[s].do # "end"
    BY <1>0, <1>7, MeshStays DEF GoesOn, Running, Call
  <2>2. loop[s].do = "send"
    <3>1. PlaceOK(Call(s), v, n, loop[s])
      BY <2>1 DEF TypeInv, StrandOK
    <3>. QED
      BY <1>7, <2>1, <3>1 DEF PlaceOK, PlaceSet
  <2>3. p = o
    <3>1. loop'[s] = Barrier(v, n, loop[s])
      BY <1>7, <2>1 DEF GoesOn, Following
    <3>. QED
      BY <2>2, <3>1 DEF Barrier, Place
  <2>. QED
    BY <1>2, <1>4, <2>1, <2>3
<1>8. CASE GoesOn(s) /\ Recv(s)
  <2>1. Running(s) /\ entered'[s] = entered[s] /\ Call(s)' = Call(s) /\ loop[s].do = "recv"
    BY <1>0, <1>8, MeshStays DEF GoesOn, Running, Call, Recv, At
  <2>2. o \in 1 .. (n - 1) /\ o = loop[s].i /\ To(s) = PrevRank(v, o, n)
    <3>1. PlaceOK(Call(s), v, n, loop[s])
      BY <2>1 DEF TypeInv, StrandOK
    <3>. QED
      BY <2>1, <3>1 DEF PlaceOK, To, PeerOf
  <2>3. p = IF 2 * o < n THEN 2 * o ELSE n
    <3>1. loop'[s] = Barrier(v, n, loop[s])
      BY <1>8, <2>1 DEF GoesOn, Following
    <3>. QED
      BY <2>1, <2>2, <3>1 DEF Barrier, Place, End
  <2>4. \A y \in 0 .. (o - 1) : entered'[<<w, PrevRank(To(s), y, n)>>] >= k
    <3>1. PICK m \in recv_msgs[Self(s)][Peer(s)] : m.key = Key(s)
      BY <1>8 DEF Recv
    <3>2. Key(s) = KeyOf(w, entered[s]) /\ To(s) \in VRanks(w)
      BY <1>8, AtChannel DEF Recv
    <3>3. entered[s] \in Calls(w) /\ Call(s) = mesh.program[w][entered[s]]
      BY <2>1, StrandFacts
    <3>4. MsgOK(w, entered[s], To(s), v, m)
      <4>1. m \in recv_msgs[OrigRank(w, v)][OrigRank(w, To(s))] /\ m.key = KeyOf(w, entered[s])
        BY <3>1, <3>2 DEF Self, Peer
      <4>. QED
        BY <1>1, <3>2, <3>3, <4>1 DEF MsgInv
    <3>5. Heard(w, entered[s], To(s), RingOffset(To(s), v, n))
      BY <2>1, <3>3, <3>4 DEF MsgOK
    <3>6. RingOffset(To(s), v, n) = o
      <4>. HIDE DEF o
      <4>. QED
        BY <1>1, <2>2, AtOffset
    <3>7. \A x \in Nat : \A q \in 0 .. n : \A u \in VRanks(w) : Heard(w, x, u, q) => Heard(w, x, u, q)'
      BY <1>1, HeardStays
    <3>. HIDE DEF o
    <3>8. \A x \in Nat : \A q \in 0 .. n : \A u \in VRanks(w) : Heard(w, x, u, q) =>
            \A y \in 0 .. (q - 1) : entered'[<<w, PrevRank(u, y, n)>>] >= x
      BY <1>1, <3>7 DEF Heard
    <3>9. o \in 0 .. n /\ Heard(w, entered[s], To(s), o)
      BY <1>1, <2>2, <3>5, <3>6
    <3>. QED
      BY <1>1, <2>1, <3>2, <3>8, <3>9
  <2>. HIDE DEF o, p
  <2>5. CASE j < o
    BY <1>1, <1>2, <1>4, <2>1, <2>2, <2>5
  <2>6. CASE j >= o
    <3>1. j - o \in 0 .. (o - 1) /\ j - o \in 0 .. (n - 1) /\ o \in 0 .. (n - 1) /\ o + (j - o) < n /\ o + (j - o) = j
      <4>1. p \in Nat /\ p <= 2 * o /\ p <= n /\ o \in Nat /\ n \in Nat /\ o < n
        BY <1>1, <2>2, <2>3
      <4>. HIDE DEF n
      <4>. QED
        BY <1>2, <2>6, <4>1
    <3>2. PrevRank(PrevRank(v, o, n), j - o, n) = PrevRank(v, o + (j - o), n)
      <4>. DEFINE y == j - o
      <4>. HIDE DEF y
      <4>1. y \in 0 .. (n - 1) /\ o + y < n
        BY <3>1 DEF y
      <4>2. PrevRank(PrevRank(v, o, n), y, n) = PrevRank(v, o + y, n)
        BY <1>1, <3>1, <4>1, PrevRankAdds
      <4>. QED
        BY <4>2 DEF y
    <3>. QED
      BY <2>2, <2>4, <3>1, <3>2
  <2>. QED
    BY <1>1, <1>2, <2>2, <2>3, <2>5, <2>6
<1>9. ~Ends(s)
  BY DEF Ends, Running
<1>. QED
  BY <1>5, <1>6, <1>7, <1>8, <1>9, StepIs DEF Acts

-----------------------------------------------------------------------------
(* ResultsRight, BarrierHolds and SendNeverClashes.                          *)

\* Each key comes once: what s is about to send was not sent before.
LEMMA Clash ==
  ASSUME TypeInv, MsgInv
  PROVE  SendNeverClashes
<1>. SUFFICES ASSUME NEW s \in Strands, At(s, "send"), Key(s) \in Keys(Peer(s), Self(s)) PROVE FALSE
  BY DEF SendNeverClashes
<1>1. /\ Running(s) /\ loop[s].do = "send" /\ To(s) \in VRanks(s[1]) /\ Key(s) = KeyOf(s[1], entered[s])
      /\ ChannelCall(Call(s), s[2], WorldSize(s[1]), loop[s],
                     Following(Call(s), s[2], WorldSize(s[1]), loop[s]), To(s))
  BY AtChannel DEF At
<1>2. /\ s[1] \in Worlds /\ s[2] \in VRanks(s[1]) /\ s = <<s[1], s[2]>>
      /\ entered[s] \in Calls(s[1]) /\ entered[s] \in Nat
  BY <1>1, StrandFacts
<1>3. PICK m \in recv_msgs[Peer(s)][Self(s)] : m.key = KeyOf(s[1], entered[s])
  BY <1>1 DEF Keys
<1>4. MsgOK(s[1], entered[s], s[2], To(s), m)
  <2>1. m \in recv_msgs[OrigRank(s[1], To(s))][OrigRank(s[1], s[2])]
    BY DEF Peer, Self
  <2>. QED
    BY <1>1, <1>2, <1>3, <2>1 DEF MsgInv
<1>5. SentAll(s, entered[s], To(s))
  BY <1>2, <1>4 DEF MsgOK
<1>6. StillSends(Call(s), s[2], WorldSize(s[1]), loop[s], To(s))
  BY <1>1 DEF ChannelCall
<1>. QED
  BY <1>1, <1>2, <1>5, <1>6 DEF SentAll, Running

\* A call at its end holds what is expected of it.
LEMMA EndHas ==
  ASSUME NEW w \in Worlds, NEW k \in Calls(w), NEW v \in VRanks(w), mesh \in Deployments,
         NEW l, l.do = "end", NEW slot \in DOMAIN Expected(w, k, v)
  PROVE  /\ slot \in VRanks(w) /\ Has(mesh.program[w][k], v, l, slot)
         /\ Expected(w, k, v)[slot] = Want(w, k, slot)
<1>1. /\ mesh.program[w][k] \in CallIn(WorldSize(w)) /\ VRanks(w) = 0 .. (WorldSize(w) - 1)
  BY MeshFacts DEF Calls, VRanks
<1>2. mesh.program[w][k].kind \in Kinds /\ mesh.program[w][k].root \in VRanks(w)
  BY <1>1 DEF CallIn
<1>. DEFINE c == mesh.program[w][k]
<1>3. CASE c.kind = "ALLGATHER" \/ (c.kind = "GATHER" /\ v = c.root)
  <2>1. Expected(w, k, v) = [x \in VRanks(w) |-> Input(w, k, x, 0)]
    BY <1>3 DEF Expected
  <2>. QED
    BY <1>3, <2>1 DEF Has, Want
<1>4. CASE c.kind = "BCAST"
  <2>1. Expected(w, k, v) = [x \in {c.root} |-> Input(w, k, c.root, 0)]
    BY <1>4 DEF Expected
  <2>. QED
    BY <1>2, <1>4, <2>1 DEF Has, Want
<1>5. CASE c.kind = "SCATTER"
  <2>1. Expected(w, k, v) = [x \in {v} |-> Input(w, k, c.root, v)]
    BY <1>5 DEF Expected
  <2>. QED
    BY <1>2, <1>5, <2>1 DEF Has, Want
<1>6. CASE c.kind = "P2P" /\ v = c.dst
  <2>1. Expected(w, k, v) = [x \in {c.root} |-> Input(w, k, c.root, 0)]
    BY <1>6 DEF Expected
  <2>. QED
    BY <1>2, <1>6, <2>1 DEF Has, Want
<1>7. CASE c.kind = "BARRIER" \/ (c.kind = "GATHER" /\ v # c.root) \/ (c.kind = "P2P" /\ v # c.dst)
  <2>1. Expected(w, k, v) = <<>>
    BY <1>7 DEF Expected
  <2>. QED
    BY <2>1
<1>. QED
  BY <1>2, <1>3, <1>4, <1>5, <1>6, <1>7 DEF Kinds

\* What a step adds to a strand's results.
LEMMA NewResult ==
  ASSUME TypeInv, [Next]_vars, NEW s \in Strands, NEW k \in DOMAIN results'[s]
  PROVE  \/ k \in DOMAIN results[s] /\ results'[s][k] = results[s][k]
         \/ RecvTimeout(s) /\ k = entered[s] /\ results'[s][k] = <<"thrown">>
         \/ /\ Return(s) /\ k = entered[s] /\ results'[s][k] = <<"returned", buf[s]>>
            /\ Running(s) /\ loop[s].do = "end"
<1>1. mesh' = mesh /\ (Same(s) \/ Acts(s)) /\ entered[s] \in Nat
  BY StepIs, StrandFacts
<1>2. CASE ~Ends(s)
  BY <1>1, <1>2 DEF Acts, Same, Enters, GoesOn
<1>3. CASE Ends(s)
  <2>1. /\ \A j \in 1 .. (entered[s] - 1) : results'[s][j] = results[s][j]
        /\ DOMAIN results[s] = 1 .. (entered[s] - 1) /\ DOMAIN results'[s] = 1 .. entered[s]
        /\ Running(s)
    BY <1>1, <1>3, EndsKeeps
  <2>2. RecvTimeout(s) \/ Return(s)
    BY <1>1, <1>3 DEF Acts, Same, Ends, Enters, GoesOn
  <2>3. CASE k # entered[s]
    BY <1>1, <2>1, <2>3
  <2>4. CASE k = entered[s] /\ RecvTimeout(s)
    <3>1. loop[s].do # "end"
      BY <2>4 DEF RecvTimeout, At
    <3>. QED
      BY <1>1, <1>3, <2>4, <3>1, EndsKeeps
  <2>5. CASE k = entered[s] /\ Return(s)
    <3>. DEFINE q == results[s]
                x == <<"returned", buf[s]>>
    <3>1. results'[s] = Append(q, x) /\ loop[s].do = "end"
      BY <2>5 DEF Return, At, TypeInv, Domains
    <3>2. Len(q) = k - 1 /\ q \in Seq(Outcomes(s[1])) /\ k \in Nat
      BY <1>1, <2>1, <2>5 DEF TypeInv, StrandOK
    <3>. HIDE DEF q, x
    <3>3. Append(q, x)[k] = x
      BY <3>2
    <3>. QED
      BY <2>1, <2>5, <3>1, <3>3 DEF x
  <2>. QED
    BY <2>2, <2>3, <2>4, <2>5
<1>. QED
  BY <1>2, <1>3

\* A call that returns hands out buffers that are filled.
LEMMA ResultsKept ==
  ASSUME TypeInv, BufInv, ResultsRight, [Next]_vars
  PROVE  ResultsRight'
<1>0. mesh' = mesh /\ mesh \in Deployments /\ \A w, k, v : Expected(w, k, v)' = Expected(w, k, v)
  <2>1. mesh' = mesh /\ mesh \in Deployments
    BY StepIs DEF TypeInv, Domains
  <2>2. \A w : VRanks(w)' = VRanks(w)
    BY <2>1, MeshStays
  <2>3. ASSUME NEW w, NEW k, NEW v PROVE Expected(w, k, v)' = Expected(w, k, v)
    <3>1. VRanks(w)' = VRanks(w) /\ mesh.program[w][k]' = mesh.program[w][k]
      BY <2>1, <2>2
    <3>. QED
      BY <3>1 DEF Expected, Input
  <2>. QED
    BY <2>1, <2>3
<1>. SUFFICES ASSUME NEW s \in Strands, NEW k \in DOMAIN results'[s], results'[s][k][1] = "returned",
                     NEW slot \in DOMAIN Expected(s[1], k, s[2])
              PROVE  results'[s][k][2][slot] = Expected(s[1], k, s[2])[slot]
  BY <1>0, MeshStays DEF ResultsRight
<1>1. CASE k \in DOMAIN results[s] /\ results'[s][k] = results[s][k]
  BY <1>1 DEF ResultsRight
<1>2. CASE results'[s][k] = <<"thrown">>
  BY <1>2
<1>3. CASE /\ k = entered[s] /\ results'[s][k] = <<"returned", buf[s]>>
           /\ Running(s) /\ loop[s].do = "end"
  <2>1. /\ s[1] \in Worlds /\ s[2] \in VRanks(s[1]) /\ k \in Calls(s[1])
        /\ Call(s) = mesh.program[s[1]][k]
    BY <1>3, StrandFacts
  <2>2. /\ slot \in VRanks(s[1]) /\ Has(Call(s), s[2], loop[s], slot)
        /\ Expected(s[1], k, s[2])[slot] = Want(s[1], k, slot)
    BY <1>0, <1>3, <2>1, EndHas
  <2>3. buf[s][slot] = Want(s[1], k, slot)
    BY <1>3, <2>2 DEF BufInv
  <2>. QED
    BY <1>3, <2>2, <2>3
<1>. QED
  BY <1>1, <1>2, <1>3, NewResult

\* A barrier that returns has heard of everyone.
LEMMA BarrierKept ==
  ASSUME TypeInv, RoundInv, BarrierHolds, [Next]_vars
  PROVE  BarrierHolds'
<1>0. mesh' = mesh /\ mesh \in Deployments
  BY StepIs DEF TypeInv, Domains
<1>. SUFFICES ASSUME NEW s \in Strands, NEW k \in DOMAIN results'[s],
                     Program(s)[k].kind = "BARRIER", results'[s][k][1] = "returned",
                     NEW v \in VRanks(s[1])
              PROVE  entered'[<<s[1], v>>] >= k
  BY <1>0, MeshStays DEF BarrierHolds
<1>1. /\ s[1] \in Worlds /\ s[2] \in VRanks(s[1]) /\ entered[s] \in Nat
      /\ WorldSize(s[1]) \in Nat \ {0} /\ VRanks(s[1]) = 0 .. (WorldSize(s[1]) - 1)
  BY StrandFacts
<1>2. <<s[1], v>> \in Strands
  BY <1>1, IsStrand
<1>3. k \in Nat
  <2>1. results'[s] \in Seq(Outcomes(s[1])')
    BY <1>0, TypesKept, MeshStays DEF TypeInv, StrandOK
  <2>. QED
    BY <2>1
<1>. DEFINE t == <<s[1], v>>
<1>4. entered'[t] >= entered[t] /\ entered'[t] \in Nat /\ entered[t] \in Nat
  BY <1>2, NothingUndone
<1>5. entered[t] >= k
  <2>1. CASE k \in DOMAIN results[s] /\ results'[s][k] = results[s][k]
    BY <2>1 DEF BarrierHolds
  <2>2. CASE results'[s][k] = <<"thrown">>
    BY <2>2
  <2>3. CASE k = entered[s] /\ Running(s) /\ loop[s].do = "end"
    <3>. DEFINE n == WorldSize(s[1])
                o == RingOffset(v, s[2], n)
    <3>1. Heard(s[1], k, s[2], n)
      <4>1. Call(s).kind = "BARRIER"
        BY <2>3 DEF Call
      <4>. QED
        BY <2>3, <4>1 DEF RoundInv
    <3>2. o \in 0 .. (n - 1) /\ PrevRank(s[2], o, n) = v
      BY <1>1, OffsetOf
    <3>. HIDE DEF o
    <3>. QED
      BY <3>1, <3>2 DEF Heard
  <2>. QED
    BY <2>1, <2>2, <2>3, NewResult
<1>. QED
  BY <1>3, <1>4, <1>5

\* Nothing is sent, filled or returned at the start.
LEMMA StartsEmpty ==
  ASSUME Init
  PROVE  MsgInv /\ BufInv /\ RoundInv /\ ResultsRight /\ BarrierHolds
<1>1. mesh \in Deployments /\ \A s \in Strands : ~Running(s) /\ results[s] = <<>>
  BY DEF Init, Running
<1>2. \A r, p \in Ranks : recv_msgs[r][p] = {}
  BY DEF Init
<1>3. MsgInv
  BY <1>1, <1>2, MeshFacts DEF MsgInv
<1>. QED
  BY <1>1, <1>3 DEF BufInv, RoundInv, ResultsRight, BarrierHolds

\* What holds of every message, buffer and barrier, with the types it rests on.
CallInv == TypeInv /\ MsgInv /\ BufInv /\ RoundInv /\ ResultsRight /\ BarrierHolds

\* The invariant behind ResultsRight, BarrierHolds and SendNeverClashes.
LEMMA CallInvHolds == Spec => []CallInv
<1>1. Init => CallInv
  BY InitTypes, StartsEmpty DEF CallInv
<1>2. CallInv /\ [Next]_vars => CallInv'
  BY TypesKept, MsgInvKept, BufInvKept, RoundInvKept, ResultsKept, BarrierKept DEF CallInv
<1>. QED
  BY <1>1, <1>2, PTL DEF Spec

\* A call that returns has the inputs of the right parties to the same call in
\* the right places, in every mesh and program, whatever timed out before
\* (allgather.cc, gather.cc, scatter.cc, broadcast.cc, Context::Recv).
THEOREM MeshResultsRight == Spec => []ResultsRight
<1>1. CallInv => ResultsRight
  BY DEF CallInv
<1>. QED
  BY <1>1, CallInvHolds, PTL

\* No party leaves Barrier before every party of its world has entered it, in
\* worlds of every size (barrier.cc).
THEOREM MeshBarrierHolds == Spec => []BarrierHolds
<1>1. CallInv => BarrierHolds
  BY DEF CallInv
<1>. QED
  BY <1>1, CallInvHolds, PTL

\* No message meets another one of the same key in the peer's channel, where
\* ChannelMem::OnMessage would drop it (channel_mem.cc).
THEOREM MeshSendNeverClashes == Spec => []SendNeverClashes
<1>1. CallInv => SendNeverClashes
  BY Clash DEF CallInv
<1>. QED
  BY <1>1, CallInvHolds, PTL

-----------------------------------------------------------------------------
(* NoUnprovokedFailure.  While nothing due was late, every send of a pattern *)
(* has its Recv and every Recv its send.                                     *)

InChannel(w, k, v, d) == KeyOf(w, k) \in Keys(OrigRank(w, d), OrigRank(w, v))

\* Between two parties of a call: what is in the channel is still to be received;
\* what was sent is in the channel or received; what was received was sent.
Pair(w, k, v, d) ==
  /\ InChannel(w, k, v, d) => /\ Sends(mesh.program[w][k], WorldSize(w), v, d)
                              /\ ~GotAll(<<w, d>>, k, v)
  /\ Sends(mesh.program[w][k], WorldSize(w), v, d) =>
       /\ SentAll(<<w, v>>, k, d) => InChannel(w, k, v, d) \/ GotAll(<<w, d>>, k, v)
       /\ GotAll(<<w, d>>, k, v) => SentAll(<<w, v>>, k, d)

Matched == \A w \in Worlds : \A k \in Calls(w) : \A v, d \in VRanks(w) : Pair(w, k, v, d)

Clean == /\ \A s \in Strands : status[s] # "gone"
         /\ \A s \in Strands : \A k \in DOMAIN results[s] : results[s][k][1] = "returned"
         /\ \A r \in Ranks : closing[r].at # "thrown"

\* The close of rank r is over with its channel to p.
PastRecv(r, p) == \/ closing[r].at = "closed"
                  \/ closing[r].at \in {"send", "recv"} /\ closing[r].peer > p

\* A FIN is in the channel from the SendImpl of the one end to the Recv of the other.
FinsOf(r, p) ==
  /\ kFinKey \in Keys(r, p) <=> finished[p][r] /\ ~PastRecv(r, p)
  /\ finished[p][r] <=> PastRecv(p, r) \/ (closing[p].at = "recv" /\ closing[p].peer = r)
  /\ PastRecv(r, p) => finished[p][r]

Fins == \A r, p \in Ranks : r # p => FinsOf(r, p)

\* A channel holds nothing but FINs of the peer and messages of calls.
Known ==
  \A r, p \in Ranks : \A m \in recv_msgs[r][p] :
    \/ m.key = kFinKey /\ r # p
    \/ \E w \in Worlds : \E k \in Calls(w) : \E v, d \in VRanks(w) :
         r = OrigRank(w, d) /\ p = OrigRank(w, v) /\ m.key = KeyOf(w, k)

Unprovoked == timeouts = 0 => Clean /\ Matched /\ Fins

FailInv == CallInv /\ Known /\ Unprovoked

\* At the end of a call nothing is left to do.
LEMMA NothingLeft ==
  ASSUME NEW n \in Nat \ {0}, NEW c \in CallIn(n), NEW v \in 0 .. (n - 1), NEW d \in 0 .. (n - 1),
         NEW l, PlaceOK(c, v, n, l), l.do = "end"
  PROVE  ~StillSends(c, v, n, l, d) /\ ~StillRecvs(c, v, n, l, d)
<1>1. c.kind \in Kinds /\ l.i = 0
  BY DEF CallIn, PlaceOK
<1>2. RingOffset(v, d, n) \in 0 .. (n - 1) /\ RingOffset(d, v, n) \in 0 .. (n - 1)
  BY OffsetOf
<1>3. ~(l.i > RingOffset(v, d, n)) /\ ~(l.i > RingOffset(d, v, n))
  BY <1>1, <1>2
<1>4. ~StillSends(c, v, n, l, d)
  BY <1>1, <1>3 DEF Kinds, StillSends
<1>5. ~StillRecvs(c, v, n, l, d)
  BY <1>1, <1>3 DEF Kinds, StillRecvs
<1>. QED
  BY <1>4, <1>5

\* Nothing is left to send, or to receive, only after the channel call was made.
LEMMA HowSent ==
  ASSUME TypeInv, [Next]_vars, NEW s \in Strands, NEW k \in Calls(s[1]), NEW d \in VRanks(s[1]),
         Sends(mesh.program[s[1]][k], WorldSize(s[1]), s[2], d), ~SentAll(s, k, d), SentAll(s, k, d)'
  PROVE  RecvTimeout(s) \/ (SendImpl(s) /\ entered[s] = k /\ To(s) = d)
<1>. DEFINE w == s[1]
            v == s[2]
            n == WorldSize(w)
            c == mesh.program[w][k]
<1>1. /\ w \in Worlds /\ v \in VRanks(w) /\ n \in Nat \ {0} /\ VRanks(w) = 0 .. (n - 1)
      /\ entered[s] \in Nat /\ k \in Nat /\ n' = n
  BY StrandFacts, StepIs, MeshStays
<1>2. mesh' = mesh /\ (Same(s) \/ Acts(s)) /\ mesh \in Deployments /\ c \in CallIn(n)
  BY <1>1, StepIs, MeshFacts DEF TypeInv, Domains, Calls
<1>3. Program(s)' = Program(s) /\ Program(s) = mesh.program[w]
  BY <1>2, MeshStays, StrandFacts
<1>4. CASE Same(s)
  <2>1. Call(s)' = Call(s)
    BY <1>3, <1>4 DEF Call, Same
  <2>. QED
    BY <1>1, <1>4, <2>1 DEF Same, SentAll
<1>5. CASE Enters(s)
  <2>1. FirstPlace(Call(s)', v, n, loop'[s]) /\ Call(s)' = mesh.program[w][entered[s] + 1] /\ Running(s)'
    BY <1>2, <1>5, EntersKeeps
  <2>2. entered'[s] = entered[s] + 1 /\ status[s] # "running"
    BY <1>5 DEF Enters
  <2>3. entered'[s] = k
    BY <1>1, <2>2 DEF SentAll
  <2>4. StillSends(c, v, n, loop'[s], d)
    BY <1>1, <2>1, <2>2, <2>3 DEF FirstPlace
  <2>. QED
    BY <1>1, <2>1, <2>2, <2>3, <2>4 DEF SentAll, Running
<1>6. CASE GoesOn(s)
  <2>1. Running(s) /\ Running(s)' /\ entered'[s] = entered[s] /\ Call(s)' = Call(s)
    BY <1>3, <1>6 DEF GoesOn, Running, Call
  <2>2. entered[s] = k /\ Call(s) = c
    BY <1>1, <1>3, <2>1 DEF SentAll, Call
  <2>3. StillSends(c, v, n, loop[s], d) /\ ~StillSends(c, v, n, loop'[s], d)
    BY <1>1, <2>1, <2>2 DEF SentAll, Running
  <2>4. loop[s].do = "send" /\ d = To(s)
    BY <1>1, <1>6, <2>2, <2>3, GoesOnTo DEF NextPlace
  <2>5. ~Same(s) /\ ~Recv(s) /\ ~Skip(s)
    <3>1. loop'[s] # loop[s]
      BY <2>3
    <3>. QED
      BY <2>4, <3>1 DEF Same, Recv, Skip, At
  <2>. QED
    BY <1>2, <1>6, <2>2, <2>4, <2>5 DEF Acts, GoesOn, Enters, Ends
<1>7. CASE Return(s) /\ Ends(s)
  <2>1. Running(s) /\ loop[s].do = "end" /\ entered'[s] = entered[s]
    BY <1>7 DEF Return, At, Running, Ends
  <2>2. PlaceOK(Call(s), v, n, loop[s])
    BY <2>1 DEF TypeInv, StrandOK
  <2>3. entered[s] = k /\ Call(s) = c
    BY <1>1, <1>3, <2>1 DEF SentAll, Call
  <2>4. ~StillSends(c, v, n, loop[s], d)
    BY <1>1, <1>2, <2>1, <2>2, <2>3, NothingLeft
  <2>. QED
    BY <2>3, <2>4 DEF SentAll
<1>. QED
  BY <1>2, <1>4, <1>5, <1>6, <1>7 DEF Acts

\* The same for what is received.
LEMMA HowGot ==
  ASSUME TypeInv, [Next]_vars, NEW s \in Strands, NEW k \in Calls(s[1]), NEW d \in VRanks(s[1]),
         Sends(mesh.program[s[1]][k], WorldSize(s[1]), d, s[2]), ~GotAll(s, k, d), GotAll(s, k, d)'
  PROVE  RecvTimeout(s) \/ (Recv(s) /\ entered[s] = k /\ To(s) = d)
<1>. DEFINE w == s[1]
            v == s[2]
            n == WorldSize(w)
            c == mesh.program[w][k]
<1>1. /\ w \in Worlds /\ v \in VRanks(w) /\ n \in Nat \ {0} /\ VRanks(w) = 0 .. (n - 1)
      /\ entered[s] \in Nat /\ k \in Nat /\ n' = n
  BY StrandFacts, StepIs, MeshStays
<1>2. mesh' = mesh /\ (Same(s) \/ Acts(s)) /\ mesh \in Deployments /\ c \in CallIn(n)
  BY <1>1, StepIs, MeshFacts DEF TypeInv, Domains, Calls
<1>3. Program(s)' = Program(s) /\ Program(s) = mesh.program[w]
  BY <1>2, MeshStays, StrandFacts
<1>4. CASE Same(s)
  <2>1. Call(s)' = Call(s)
    BY <1>3, <1>4 DEF Call, Same
  <2>. QED
    BY <1>1, <1>4, <2>1 DEF Same, GotAll, Running
<1>5. CASE Enters(s)
  <2>1. FirstPlace(Call(s)', v, n, loop'[s]) /\ Call(s)' = mesh.program[w][entered[s] + 1] /\ Running(s)'
    BY <1>2, <1>5, EntersKeeps
  <2>2. entered'[s] = entered[s] + 1 /\ ~Running(s)
    BY <1>5 DEF Enters, Running
  <2>3. entered'[s] = k
    BY <1>1, <2>2 DEF GotAll
  <2>4. StillRecvs(c, v, n, loop'[s], d)
    BY <1>1, <2>1, <2>2, <2>3 DEF FirstPlace
  <2>. QED
    BY <1>1, <2>1, <2>2, <2>3, <2>4 DEF GotAll
<1>6. CASE GoesOn(s)
  <2>1. Running(s) /\ Running(s)' /\ entered'[s] = entered[s] /\ Call(s)' = Call(s)
    BY <1>3, <1>6 DEF GoesOn, Running, Call
  <2>2. entered[s] = k /\ Call(s) = c
    BY <1>1, <1>3, <2>1 DEF GotAll, Call
  <2>3. StillRecvs(c, v, n, loop[s], d) /\ ~StillRecvs(c, v, n, loop'[s], d)
    BY <1>1, <2>1, <2>2 DEF GotAll
  <2>4. loop[s].do = "recv" /\ d = To(s)
    BY <1>1, <1>6, <2>2, <2>3, GoesOnTo DEF NextPlace
  <2>5. ~Same(s)
    <3>1. loop'[s] # loop[s]
      BY <2>3
    <3>. QED
      BY <3>1 DEF Same
  <2>. QED
    BY <1>2, <1>6, <2>2, <2>4, <2>5 DEF Acts, GoesOn, Enters, Ends
<1>7. CASE Return(s) /\ Ends(s)
  <2>1. Running(s) /\ loop[s].do = "end" /\ entered'[s] = entered[s]
    BY <1>7 DEF Return, At, Running, Ends
  <2>2. PlaceOK(Call(s), v, n, loop[s])
    BY <2>1 DEF TypeInv, StrandOK
  <2>3. entered[s] = k /\ Call(s) = c
    BY <1>1, <1>3, <2>1 DEF GotAll, Call
  <2>4. ~StillRecvs(c, v, n, loop[s], d)
    BY <1>1, <1>2, <2>1, <2>2, <2>3, NothingLeft
  <2>. QED
    BY <2>3, <2>4 DEF GotAll
<1>. QED
  BY <1>2, <1>4, <1>5, <1>6, <1>7 DEF Acts

\* A message of a call that is no longer there: the party of that world just received it.
LEMMA TakenMessage ==
  ASSUME TypeInv, [Next]_vars, NEW w \in Worlds, NEW k \in Calls(w),
         NEW v \in VRanks(w), NEW d \in VRanks(w), InChannel(w, k, v, d), ~InChannel(w, k, v, d)'
  PROVE  Recv(<<w, d>>) /\ entered[<<w, d>>] = k /\ To(<<w, d>>) = v
<1>0. Domains /\ mesh \in Deployments /\ mesh' = mesh
  BY StepIs DEF TypeInv, Domains
<1>1. OrigRank(w, d) \in Ranks /\ OrigRank(w, v) \in Ranks /\ KeyOf(w, k) # kFinKey
  BY <1>0, MeshFacts, FinDiffers
<1>2. PICK m \in recv_msgs[OrigRank(w, d)][OrigRank(w, v)] : m.key = KeyOf(w, k)
  BY DEF InChannel, Keys
<1>3. m \notin recv_msgs'[OrigRank(w, d)][OrigRank(w, v)]
  BY <1>0, <1>2, MeshStays DEF InChannel, Keys
<1>4. ASSUME NEW s \in Strands, SendImpl(s) PROVE FALSE
  <2>1. Self(s) \in Ranks /\ Peer(s) \in Ranks /\ recv_msgs' = OnMessage(Peer(s), Self(s), Key(s), Payload(s))
    BY <1>4, AtChannel DEF SendImpl
  <2>. QED
    BY <1>0, <1>1, <1>2, <1>3, <2>1, SentIs
<1>5. ASSUME NEW r \in Ranks, SendFin(r) PROVE FALSE
  <2>1. closing[r].peer \in Ranks /\ recv_msgs' = OnMessage(closing[r].peer, r, kFinKey, Empty)
    BY <1>0, <1>5 DEF SendFin, Domains
  <2>. QED
    BY <1>0, <1>1, <1>2, <1>3, <2>1, SentIs
<1>6. ASSUME NEW r \in Ranks, RecvFin(r) PROVE FALSE
  <2>1. closing[r].peer \in Ranks /\ recv_msgs' = Taken(r, closing[r].peer, kFinKey)
    BY <1>0, <1>6 DEF RecvFin, Domains
  <2>. QED
    BY <1>0, <1>1, <1>2, <1>3, <2>1, TakenIs
<1>7. ~UNCHANGED recv_msgs
  BY <1>2, <1>3
<1>8. PICK s \in Strands : Recv(s)
  BY <1>4, <1>5, <1>6, <1>7 DEF Next, vars, Enter, Skip, RecvTimeout, Return, StartClose, FinTimeout
<1>9. /\ Self(s) \in Ranks /\ Peer(s) \in Ranks
      /\ recv_msgs' = Taken(Self(s), Peer(s), Key(s))
      /\ Key(s) = KeyOf(s[1], entered[s]) /\ Running(s) /\ To(s) \in VRanks(s[1])
  BY <1>8, AtChannel DEF Recv
<1>10. /\ OrigRank(w, d) = Self(s) /\ OrigRank(w, v) = Peer(s) /\ m.key = Key(s)
  BY <1>0, <1>1, <1>2, <1>3, <1>9, TakenIs
<1>11. s[1] \in Worlds /\ s[2] \in VRanks(s[1]) /\ s = <<s[1], s[2]>> /\ entered[s] \in Calls(s[1])
  BY <1>9, StrandFacts
<1>12. w = s[1] /\ k = entered[s]
  <2>1. KeyOf(w, k) = KeyOf(s[1], entered[s])
    BY <1>2, <1>9, <1>10
  <2>. QED
    BY <1>0, <1>11, <2>1, KeysDiffer
<1>13. v = To(s) /\ d = s[2]
  <2>1. OrigRank(w, v) = OrigRank(w, To(s)) /\ OrigRank(w, d) = OrigRank(w, s[2])
    BY <1>10, <1>12 DEF Peer, Self
  <2>. QED
    BY <1>0, <1>9, <1>11, <1>12, <2>1, MeshFacts
<1>. QED
  BY <1>8, <1>11, <1>12, <1>13

\* While nothing due is late, nothing times out.
LEMMA NoTimeouts ==
  ASSUME TypeInv, Unprovoked, [Next]_vars, timeouts' = 0
  PROVE  /\ timeouts = 0 /\ Clean /\ Matched /\ Fins
         /\ \A s \in Strands : ~RecvTimeout(s)
         /\ \A r \in Ranks : ~FinTimeout(r)
<1>0. mesh \in Deployments /\ timeouts \in Nat
  BY DEF TypeInv, Domains
<1>1. timeouts = 0
  <2>1. ASSUME NEW s \in Strands, Enter(s) \/ SendImpl(s) \/ Recv(s) \/ Skip(s) \/ Return(s)
        PROVE  timeouts' = timeouts
    BY <2>1 DEF Enter, SendImpl, Recv, Skip, Return
  <2>2. ASSUME NEW s \in Strands, RecvTimeout(s) PROVE timeouts' = timeouts \/ timeouts' = timeouts + 1
    BY <2>2 DEF RecvTimeout
  <2>3. ASSUME NEW r \in Ranks, StartClose(r) \/ SendFin(r) \/ RecvFin(r) PROVE timeouts' = timeouts
    BY <2>3 DEF StartClose, SendFin, RecvFin
  <2>4. ASSUME NEW r \in Ranks, FinTimeout(r) PROVE timeouts' = timeouts \/ timeouts' = timeouts + 1
    BY <2>4 DEF FinTimeout
  <2>5. timeouts' = timeouts \/ timeouts' = timeouts + 1
    BY <2>1, <2>2, <2>3, <2>4 DEF Next, vars
  <2>. QED
    BY <1>0, <2>5
<1>2. Clean /\ Matched /\ Fins
  BY <1>1 DEF Unprovoked
<1>3. ASSUME NEW s \in Strands, RecvTimeout(s) PROVE FALSE
  <2>. DEFINE w == s[1]
              v == s[2]
              u == To(s)
              k == entered[s]
  <2>1. At(s, "recv") /\ Key(s) \notin Keys(Self(s), Peer(s)) /\ ~Due(s)
    BY <1>0, <1>1, <1>3 DEF RecvTimeout
  <2>2. /\ Running(s) /\ loop[s].do = "recv" /\ u \in VRanks(w) /\ Key(s) = KeyOf(w, k)
        /\ ChannelCall(Call(s), v, WorldSize(w), loop[s], Following(Call(s), v, WorldSize(w), loop[s]), u)
        /\ <<w, u>> \in Strands
    BY <2>1, AtChannel DEF At
  <2>3. /\ w \in Worlds /\ v \in VRanks(w) /\ s = <<w, v>> /\ k \in Calls(w) /\ k \in Nat
        /\ Call(s) = mesh.program[w][k]
    BY <2>2, StrandFacts
  <2>4. SentAll(<<w, u>>, k, v)
    BY <1>2, <2>1, <2>2 DEF Due, Clean
  <2>5. Sends(Call(s), WorldSize(w), u, v) /\ StillRecvs(Call(s), v, WorldSize(w), loop[s], u)
    BY <2>2 DEF ChannelCall
  <2>6. ~GotAll(s, k, u)
    BY <2>2, <2>3, <2>5 DEF GotAll
  <2>7. ~InChannel(w, k, u, v)
    BY <2>1, <2>2 DEF InChannel, Self, Peer
  <2>8. Pair(w, k, u, v)
    BY <1>2, <2>2, <2>3 DEF Matched
  <2>. QED
    BY <2>3, <2>4, <2>5, <2>6, <2>7, <2>8 DEF Pair
<1>4. ASSUME NEW r \in Ranks, FinTimeout(r) PROVE FALSE
  <2>. DEFINE p == closing[r].peer
  <2>1. closing[r].at = "recv" /\ kFinKey \notin Keys(r, p) /\ ~FinDue(r, p)
    BY <1>0, <1>1, <1>4 DEF FinTimeout
  <2>2. p \in Ranks /\ p # r /\ Ranks = VRanks("main") /\ "main" \in Worlds /\ p \in Nat
    <3>1. p \in Ranks /\ p # r
      BY <2>1 DEF TypeInv, Domains
    <3>2. Ranks = VRanks("main") /\ "main" \in Worlds /\ mesh.size \in Nat
      BY <1>0, MeshFacts
    <3>. QED
      BY <3>1, <3>2 DEF Ranks
  <2>3. <<"main", p>> \in Strands
    BY <2>2, IsStrand
  <2>4. finished[p][r]
    BY <1>2, <2>1, <2>2, <2>3 DEF FinDue, Clean
  <2>5. ~PastRecv(r, p)
    BY <2>1, <2>2 DEF PastRecv
  <2>. QED
    BY <1>2, <2>1, <2>2, <2>4, <2>5 DEF Fins, FinsOf
<1>. QED
  BY <1>1, <1>2, <1>3, <1>4

\* Nothing throws while nothing due is late.
LEMMA CleanKept ==
  ASSUME TypeInv, Unprovoked, [Next]_vars, timeouts' = 0
  PROVE  Clean'
<1>0. Domains /\ mesh \in Deployments /\ mesh' = mesh
  BY StepIs DEF TypeInv, Domains
<1>1. /\ Clean /\ \A s \in Strands : ~RecvTimeout(s)
      /\ \A r \in Ranks : ~FinTimeout(r)
  BY NoTimeouts
<1>2. \A s \in Strands : status'[s] # "gone"
  <2>. TAKE s \in Strands
  <2>1. status[s] # "gone"
    BY <1>1 DEF Clean
  <2>2. CASE Return(s)
    BY <1>0, <2>2 DEF Return, Domains
  <2>. QED
    BY <1>1, <2>1, <2>2, StepIs DEF Acts, Same, Enters, GoesOn
<1>3. ASSUME NEW s \in Strands, NEW k \in DOMAIN results'[s] PROVE results'[s][k][1] = "returned"
  <2>1. CASE k \in DOMAIN results[s] /\ results'[s][k] = results[s][k]
    BY <1>1, <2>1 DEF Clean
  <2>2. CASE results'[s][k] = <<"returned", buf[s]>>
    BY <2>2
  <2>. QED
    BY <1>1, <2>1, <2>2, NewResult
<1>4. ASSUME NEW r \in Ranks PROVE closing'[r].at # "thrown"
  <2>1. closing[r].at # "thrown"
    BY <1>1 DEF Clean
  <2>2. ASSUME NEW a \in Ranks, StartClose(a) \/ SendFin(a) \/ RecvFin(a) PROVE closing'[r].at # "thrown"
    <3>1. closing'[a] = Goto(a, 0) \/ closing'[a] = Goto(a, closing[a].peer + 1) \/ closing'[a].at = "recv"
      <4>1. closing'[a] = IF StartClose(a) THEN Goto(a, 0)
                          ELSE IF RecvFin(a) THEN Goto(a, closing[a].peer + 1)
                          ELSE [at |-> IF SendFin(a) THEN "recv" ELSE "thrown", peer |-> closing[a].peer]
        BY <1>0, <2>2, CloseSteps
      <4>. QED
        BY <2>2, <4>1
    <3>2. closing'[a].at # "thrown"
      BY <3>1 DEF Goto
    <3>. QED
      BY <1>0, <2>1, <2>2, <3>2, CloseSteps
  <2>3. CASE UNCHANGED closing
    BY <2>1, <2>3
  <2>. QED
    BY <1>1, <2>2, <2>3 DEF Next, vars, closeVars, Enter, SendImpl, Recv, Skip, RecvTimeout, Return
<1>. QED
  BY <1>0, <1>2, <1>3, <1>4, MeshStays DEF Clean

\* Sends and Recvs stay matched: a send finds its Recv still to come, a Recv takes
\* what its peer sent.
LEMMA MatchedKept ==
  ASSUME TypeInv, MsgInv, Unprovoked, [Next]_vars, timeouts' = 0
  PROVE  Matched'
<1>0. Domains /\ mesh \in Deployments /\ mesh' = mesh
  BY StepIs DEF TypeInv, Domains
<1>1. Matched /\ \A s \in Strands : ~RecvTimeout(s)
  BY NoTimeouts
<1>2. SUFFICES ASSUME NEW w \in Worlds, NEW k \in Calls(w), NEW v \in VRanks(w), NEW d \in VRanks(w)
               PROVE  Pair(w, k, v, d)'
  BY <1>0, MeshStays DEF Matched
<1>. DEFINE s == <<w, v>>
            t == <<w, d>>
            S == Sends(mesh.program[w][k], WorldSize(w), v, d)
<1>3. s \in Strands /\ t \in Strands /\ s[1] = w /\ s[2] = v /\ t[1] = w /\ t[2] = d
  BY IsStrand
<1>4. k \in Nat /\ S' = S
  <2>1. WorldSize(w)' = WorldSize(w)
    BY <1>0, MeshStays
  <2>. QED
    BY <1>0, <2>1, MeshFacts DEF Calls, Sends, RingOffset, HasSingleBit
<1>5. Pair(w, k, v, d)
  BY <1>1 DEF Matched
<1>. HIDE DEF S
<1>6. Pair(w, k, v, d) = /\ InChannel(w, k, v, d) => S /\ ~GotAll(t, k, v)
                         /\ S => /\ SentAll(s, k, d) => InChannel(w, k, v, d) \/ GotAll(t, k, v)
                                 /\ GotAll(t, k, v) => SentAll(s, k, d)
  BY DEF Pair, S
<1>. HIDE DEF s, t
<1>7. SentAll(s, k, d) => SentAll(s, k, d)'
  BY <1>3, <1>4, NothingUndone
<1>8. GotAll(t, k, v) => GotAll(t, k, v)'
  BY <1>3, <1>4, NothingUndone
<1>9. ASSUME InChannel(w, k, v, d)', ~InChannel(w, k, v, d) PROVE SendImpl(s) /\ entered[s] = k /\ To(s) = d
  <2>1. PICK m \in recv_msgs'[OrigRank(w, d)][OrigRank(w, v)] : m.key = KeyOf(w, k)
    BY <1>0, <1>9, MeshStays DEF InChannel, Keys
  <2>2. m \notin recv_msgs[OrigRank(w, d)][OrigRank(w, v)]
    BY <1>9, <2>1 DEF InChannel, Keys
  <2>. QED
    BY <2>1, <2>2, NewMessage DEF s
<1>10. ASSUME InChannel(w, k, v, d), ~InChannel(w, k, v, d)' PROVE Recv(t) /\ entered[t] = k /\ To(t) = v
  BY <1>10, TakenMessage DEF t
<1>11. ASSUME S, ~SentAll(s, k, d), SentAll(s, k, d)' PROVE SendImpl(s) /\ entered[s] = k /\ To(s) = d
  BY <1>1, <1>3, <1>11, HowSent DEF S
<1>12. ASSUME S, ~GotAll(t, k, v), GotAll(t, k, v)' PROVE Recv(t) /\ entered[t] = k /\ To(t) = v
  BY <1>1, <1>3, <1>12, HowGot DEF S
<1>13. ASSUME SendImpl(s), entered[s] = k, To(s) = d
       PROVE  S /\ ~SentAll(s, k, d) /\ InChannel(w, k, v, d)' /\ ~Recv(t)
  <2>1. /\ At(s, "send") /\ Running(s) /\ Self(s) \in Ranks /\ Peer(s) \in Ranks /\ d # v
        /\ recv_msgs' = OnMessage(Peer(s), Self(s), Key(s), Payload(s)) /\ Key(s) = KeyOf(w, k)
        /\ ChannelCall(Call(s), v, WorldSize(w), loop[s], Following(Call(s), v, WorldSize(w), loop[s]), d)
        /\ loop[s].do = "send" /\ loop[t] = loop'[t] /\ OnlyMoves(s)
    <3>1. At(s, "send") /\ recv_msgs' = OnMessage(Peer(s), Self(s), Key(s), Payload(s)) /\ OnlyMoves(s)
      BY <1>3, <1>13, MoveIs DEF SendImpl
    <3>2. /\ Running(s) /\ Self(s) \in Ranks /\ Peer(s) \in Ranks /\ d # v /\ Key(s) = KeyOf(w, k)
          /\ ChannelCall(Call(s), v, WorldSize(w), loop[s], Following(Call(s), v, WorldSize(w), loop[s]), d)
          /\ loop[s].do = "send"
      BY <1>3, <1>13, <3>1, AtChannel DEF At
    <3>3. t # s
      BY <1>3, <3>2
    <3>. QED
      BY <1>3, <3>1, <3>2, <3>3 DEF OnlyMoves, Same
  <2>2. Call(s) = mesh.program[w][k]
    BY <1>3, <1>13, <2>1, StrandFacts
  <2>3. S /\ StillSends(Call(s), v, WorldSize(w), loop[s], d)
    BY <2>1, <2>2 DEF S, ChannelCall
  <2>4. ~SentAll(s, k, d)
    BY <1>3, <1>4, <1>13, <2>1, <2>3 DEF SentAll, Running
  <2>5. InChannel(w, k, v, d)'
    <3>1. \E m \in recv_msgs'[Peer(s)][Self(s)] : m.key = KeyOf(w, k)
      BY <1>0, <2>1, SentIs
    <3>2. Peer(s) = OrigRank(w, d) /\ Self(s) = OrigRank(w, v)
      BY <1>3, <1>13 DEF Peer, Self
    <3>. QED
      BY <1>0, <3>1, <3>2, MeshStays DEF InChannel, Keys
  <2>6. ~Recv(t)
    <3>1. ASSUME Recv(t) PROVE FALSE
      <4>1. GoesOn(t) /\ OnlyMoves(t) /\ loop[t].do = "recv" /\ At(t, "recv")
        BY <1>3, <3>1, MoveIs DEF Recv, At
      <4>2. ChannelCall(Call(t), t[2], WorldSize(t[1]), loop[t], loop'[t], To(t))
        BY <1>3, <4>1, GoesOnTo
      <4>. QED
        BY <2>1, <4>1, <4>2 DEF ChannelCall
    <3>. QED
      BY <3>1
  <2>. QED
    BY <2>3, <2>4, <2>5, <2>6
<1>14. ASSUME Recv(t), entered[t] = k, To(t) = v
       PROVE  SentAll(s, k, d) /\ ~InChannel(w, k, v, d)' /\ GotAll(t, k, v)'
  <2>1. /\ At(t, "recv") /\ Running(t) /\ Self(t) \in Ranks /\ Peer(t) \in Ranks
        /\ recv_msgs' = Taken(Self(t), Peer(t), Key(t)) /\ Key(t) = KeyOf(w, k) /\ GoesOn(t)
    BY <1>3, <1>14, AtChannel, MoveIs DEF Recv
  <2>2. Peer(t) = OrigRank(w, v) /\ Self(t) = OrigRank(w, d)
    BY <1>3, <1>14 DEF Peer, Self
  <2>3. PICK m \in recv_msgs[Self(t)][Peer(t)] : m.key = KeyOf(w, k)
    BY <1>14, <2>1 DEF Recv
  <2>4. MsgOK(w, k, v, d, m)
    BY <2>2, <2>3 DEF MsgInv
  <2>5. SentAll(s, k, d)
    BY <2>4 DEF MsgOK, s
  <2>6. ~InChannel(w, k, v, d)'
    <3>1. \A x \in recv_msgs'[OrigRank(w, d)][OrigRank(w, v)] : x.key # KeyOf(w, k)
      BY <1>0, <2>1, <2>2, TakenIs
    <3>. QED
      BY <1>0, <3>1, MeshStays DEF InChannel, Keys
  <2>7. GotAll(t, k, v)'
    <3>1. ~StillRecvs(Call(t), d, WorldSize(w), loop'[t], v)
      <4>1. ChannelCall(Call(t), d, WorldSize(w), loop[t], loop'[t], v) /\ loop[t].do = "recv"
        BY <1>3, <1>14, <2>1, GoesOnTo DEF At
      <4>. QED
        BY <4>1 DEF ChannelCall
    <3>2. Call(t)' = Call(t) /\ entered'[t] = k /\ WorldSize(w)' = WorldSize(w)
      BY <1>0, <1>14, <2>1, MeshStays DEF GoesOn, Call
    <3>. QED
      BY <1>3, <3>1, <3>2 DEF GotAll
  <2>. QED
    BY <2>5, <2>6, <2>7
<1>15. /\ InChannel(w, k, v, d)' => S /\ ~GotAll(t, k, v)'
       /\ S => /\ SentAll(s, k, d)' => InChannel(w, k, v, d)' \/ GotAll(t, k, v)'
               /\ GotAll(t, k, v)' => SentAll(s, k, d)'
  BY <1>5, <1>6, <1>7, <1>8, <1>9, <1>10, <1>11, <1>12, <1>13, <1>14, Zenon
<1>. QED
  BY <1>4, <1>15 DEF Pair, S, s, t

\* A step of a strand leaves the FINs in the channels alone.
LEMMA FinKeysStay ==
  ASSUME TypeInv, [Next]_vars, \A r \in Ranks : ~SendFin(r) /\ ~RecvFin(r),
         NEW r \in Ranks, NEW p \in Ranks
  PROVE  (kFinKey \in Keys(r, p))' <=> kFinKey \in Keys(r, p)
<1>0. Domains /\ mesh \in Deployments /\ mesh' = mesh
  BY StepIs DEF TypeInv, Domains
<1>. DEFINE Goal == (\E m \in recv_msgs'[r][p] : m.key = kFinKey) <=> (\E m \in recv_msgs[r][p] : m.key = kFinKey)
<1>1. ASSUME NEW s \in Strands, At(s, "send") \/ At(s, "recv") PROVE Key(s) # kFinKey
  <2>1. Key(s) = KeyOf(s[1], entered[s]) /\ Running(s)
    BY <1>1, AtChannel
  <2>2. s[1] \in Worlds /\ entered[s] \in Calls(s[1])
    BY <2>1, StrandFacts
  <2>. QED
    BY <1>0, <2>1, <2>2, FinDiffers
<1>2. ASSUME NEW s \in Strands, SendImpl(s) PROVE Goal
  <2>1. /\ Self(s) \in Ranks /\ Peer(s) \in Ranks /\ Key(s) # kFinKey
        /\ recv_msgs' = OnMessage(Peer(s), Self(s), Key(s), Payload(s))
    BY <1>1, <1>2, AtChannel DEF SendImpl
  <2>. QED
    BY <1>0, <2>1, SentIs
<1>3. ASSUME NEW s \in Strands, Recv(s) PROVE Goal
  <2>1. /\ Self(s) \in Ranks /\ Peer(s) \in Ranks /\ Key(s) # kFinKey
        /\ recv_msgs' = Taken(Self(s), Peer(s), Key(s))
    BY <1>1, <1>3, AtChannel DEF Recv
  <2>. QED
    BY <1>0, <2>1, TakenIs
<1>4. ASSUME recv_msgs' = recv_msgs PROVE Goal
  <2>1. recv_msgs'[r][p] = recv_msgs[r][p]
    BY <1>4
  <2>. QED
    BY <2>1, Zenon
<1>5. Goal
  BY <1>2, <1>3, <1>4 DEF Next, vars, Enter, Skip, RecvTimeout, Return, StartClose, FinTimeout
<1>. QED
  BY <1>5 DEF Keys

\* How far the close of rank a is, after each of its steps.
LEMMA PastRecvAfter ==
  ASSUME Domains, NEW a \in Ranks, NEW b \in Ranks, a # b
  PROVE  /\ StartClose(a) => ~PastRecv(a, b) /\ ~PastRecv(a, b)' /\ closing'[a].at # "recv"
         /\ SendFin(a) => /\ PastRecv(a, b)' <=> PastRecv(a, b)
                          /\ closing'[a].at = "recv" /\ closing'[a].peer = closing[a].peer
         /\ RecvFin(a) => /\ PastRecv(a, b)' <=> PastRecv(a, b) \/ b = closing[a].peer
                          /\ closing'[a].at # "recv"
<1>. DEFINE p == closing[a].peer
<1>0. /\ mesh \in Deployments /\ p \in Ranks /\ mesh.size \in Nat \ {0}
      /\ Ranks = 0 .. (mesh.size - 1)
  BY MeshFacts DEF Domains, Ranks
<1>1. CASE StartClose(a)
  <2>1. closing'[a] = Goto(a, 0) /\ closing[a].at = "open"
    BY <1>1, CloseSteps DEF StartClose
  <2>2. ~SendFin(a) /\ ~RecvFin(a)
    BY <2>1 DEF SendFin, RecvFin
  <2>3. \/ Goto(a, 0) = [at |-> "send", peer |-> NextPeer(a, 0)]
        \/ Goto(a, 0) = [at |-> "closed", peer |-> 0] /\ NextPeer(a, 0) >= mesh.size
    BY <1>0, GotoIs
  <2>4. ~(NextPeer(a, 0) > b) /\ ~(NextPeer(a, 0) >= mesh.size)
    BY <1>0 DEF NextPeer
  <2>5. ~PastRecv(a, b) /\ ~PastRecv(a, b)' /\ closing'[a].at # "recv"
    BY <2>1, <2>3, <2>4 DEF PastRecv
  <2>. QED
    BY <2>2, <2>5
<1>2. CASE SendFin(a)
  <2>1. closing[a].at = "send" /\ ~StartClose(a) /\ ~RecvFin(a)
    BY <1>2 DEF SendFin, StartClose, RecvFin
  <2>2. closing'[a] = [at |-> "recv", peer |-> p]
    <3>1. closing'[a] = IF StartClose(a) THEN Goto(a, 0)
                        ELSE IF RecvFin(a) THEN Goto(a, p + 1)
                        ELSE [at |-> IF SendFin(a) THEN "recv" ELSE "thrown", peer |-> p]
      BY <1>2, CloseSteps
    <3>. QED
      BY <1>2, <2>1, <3>1
  <2>. QED
    BY <2>1, <2>2 DEF PastRecv
<1>3. CASE RecvFin(a)
  <2>1. closing[a].at = "recv" /\ ~StartClose(a) /\ ~SendFin(a)
    BY <1>3 DEF SendFin, StartClose, RecvFin
  <2>2. closing'[a] = Goto(a, p + 1)
    <3>1. closing'[a] = IF StartClose(a) THEN Goto(a, 0)
                        ELSE IF RecvFin(a) THEN Goto(a, p + 1)
                        ELSE [at |-> IF SendFin(a) THEN "recv" ELSE "thrown", peer |-> p]
      BY <1>3, CloseSteps
    <3>. QED
      BY <1>3, <2>1, <3>1
  <2>3. \/ Goto(a, p + 1) = [at |-> "send", peer |-> NextPeer(a, p + 1)]
        \/ Goto(a, p + 1) = [at |-> "closed", peer |-> 0] /\ NextPeer(a, p + 1) >= mesh.size
    <3>. DEFINE q == p + 1
    <3>1. q \in Nat
      BY <1>0
    <3>. HIDE DEF q
    <3>2. \/ Goto(a, q) = [at |-> "send", peer |-> NextPeer(a, q)]
          \/ Goto(a, q) = [at |-> "closed", peer |-> 0] /\ NextPeer(a, q) >= mesh.size
      BY <1>0, <3>1, GotoIs
    <3>. QED
      BY <3>2 DEF q
  <2>4. NextPeer(a, p + 1) > b <=> p > b \/ b = p
    BY <1>0 DEF NextPeer
  <2>5. PastRecv(a, b) <=> p > b
    BY <2>1 DEF PastRecv
  <2>6. CASE closing'[a] = [at |-> "send", peer |-> NextPeer(a, p + 1)]
    <3>1. PastRecv(a, b)' <=> NextPeer(a, p + 1) > b
      BY <2>6 DEF PastRecv
    <3>. QED
      BY <2>1, <2>4, <2>5, <2>6, <3>1
  <2>7. CASE closing'[a] = [at |-> "closed", peer |-> 0] /\ NextPeer(a, p + 1) >= mesh.size
    <3>1. PastRecv(a, b)'
      BY <2>7 DEF PastRecv
    <3>2. NextPeer(a, p + 1) > b
      BY <1>0, <2>7 DEF NextPeer
    <3>. QED
      BY <2>1, <2>4, <2>5, <2>7, <3>1, <3>2
  <2>. QED
    BY <2>2, <2>3, <2>6, <2>7
<1>. QED
  BY <1>1, <1>2, <1>3

\* FINs stay matched with the closes of their two ends.
LEMMA FinsKept ==
  ASSUME TypeInv, Unprovoked, [Next]_vars, timeouts' = 0
  PROVE  Fins'
<1>0. Domains /\ mesh \in Deployments /\ mesh' = mesh /\ Ranks' = Ranks
  BY StepIs, MeshStays DEF TypeInv, Domains
<1>1. Fins /\ \A r \in Ranks : ~FinTimeout(r)
  BY NoTimeouts
<1>2. SUFFICES ASSUME NEW r \in Ranks, NEW p \in Ranks, r # p PROVE FinsOf(r, p)'
  BY <1>0 DEF Fins
<1>3. FinsOf(r, p)
  BY <1>1, <1>2 DEF Fins
<1>. DEFINE F == (kFinKey \in Keys(r, p))
            G == finished[p][r]
            At2 == closing[p].at = "recv" /\ closing[p].peer = r
<1>4. ASSUME F' <=> F, G' <=> G, At2' <=> At2, PastRecv(r, p)' <=> PastRecv(r, p), PastRecv(p, r)' <=> PastRecv(p, r)
      PROVE  FinsOf(r, p)'
  BY <1>3, <1>4 DEF FinsOf
<1>5. CASE UNCHANGED closeVars
  <2>1. \A a \in Ranks : ~SendFin(a) /\ ~RecvFin(a)
    <3>1. ASSUME NEW a \in Ranks, SendFin(a) \/ RecvFin(a) PROVE FALSE
      <4>1. closing'[a] # closing[a]
        <5>1. CASE SendFin(a)
          BY <1>0, <5>1 DEF SendFin, Domains
        <5>2. CASE RecvFin(a)
          BY <1>0, <5>2 DEF RecvFin, Domains, Goto
        <5>. QED
          BY <3>1, <5>1, <5>2
      <4>. QED
        BY <1>5, <4>1 DEF closeVars
    <3>. QED
      BY <3>1
  <2>2. F' <=> F
    BY <2>1, FinKeysStay
  <2>3. (G' <=> G) /\ (At2' <=> At2) /\ (PastRecv(r, p)' <=> PastRecv(r, p)) /\ (PastRecv(p, r)' <=> PastRecv(p, r))
    BY <1>5 DEF PastRecv, closeVars
  <2>. QED
    BY <1>4, <2>2, <2>3
<1>6. ASSUME NEW a \in Ranks, NEW b \in Ranks, a # b, closing'[a] = closing[a]
      PROVE  PastRecv(a, b)' <=> PastRecv(a, b)
  BY <1>6 DEF PastRecv
<1>7. ASSUME NEW a \in Ranks, StartClose(a) \/ SendFin(a) \/ RecvFin(a)
      PROVE  \A b \in Ranks : b # a => closing'[b] = closing[b]
  BY <1>0, <1>7, CloseSteps
<1>8. ASSUME NEW a \in Ranks, StartClose(a) PROVE FinsOf(r, p)'
  <2>1. \A c \in Ranks : ~SendFin(c) /\ ~RecvFin(c)
    <3>1. ASSUME NEW c \in Ranks, SendFin(c) \/ RecvFin(c) PROVE FALSE
      <4>1. closing[c].at # "open" /\ closing[a].at = "open" /\ closing'[a] = closing[a]
        BY <1>7, <1>8, <3>1 DEF SendFin, RecvFin, StartClose
      <4>2. closing'[a] = Goto(a, 0)
        BY <1>0, <1>8, CloseSteps
      <4>. QED
        BY <4>1, <4>2 DEF Goto
    <3>. QED
      BY <3>1
  <2>2. F' <=> F
    BY <2>1, FinKeysStay
  <2>3. G' = G
    BY <1>8 DEF StartClose
  <2>4. CASE a = r
    BY <1>0, <1>2, <1>4, <1>6, <1>7, <1>8, <2>2, <2>3, <2>4, PastRecvAfter
  <2>5. CASE a = p
    <3>1. ~PastRecv(p, r) /\ ~PastRecv(p, r)' /\ ~At2 /\ ~At2'
      BY <1>0, <1>2, <1>8, <2>5, PastRecvAfter DEF StartClose
    <3>2. PastRecv(r, p)' <=> PastRecv(r, p)
      BY <1>2, <1>6, <1>7, <1>8, <2>5
    <3>. QED
      BY <1>4, <2>2, <2>3, <3>1, <3>2
  <2>6. CASE a # r /\ a # p
    BY <1>2, <1>4, <1>6, <1>7, <1>8, <2>2, <2>3, <2>6
  <2>. QED
    BY <2>4, <2>5, <2>6
<1>9. ASSUME NEW a \in Ranks, SendFin(a) PROVE FinsOf(r, p)'
  <2>. DEFINE q == closing[a].peer
  <2>1. /\ closing[a].at = "send" /\ ~finished[a][q] /\ finished' = [finished EXCEPT ![a][q] = TRUE]
        /\ recv_msgs' = OnMessage(q, a, kFinKey, Empty) /\ q \in Ranks /\ q # a
    BY <1>0, <1>9 DEF SendFin, Domains
  <2>2. F' <=> F \/ (r = q /\ p = a)
    <3>1. /\ \A m \in recv_msgs'[r][p] : m \in recv_msgs[r][p] \/ (r = q /\ p = a)
          /\ \A m \in recv_msgs[r][p] : m \in recv_msgs'[r][p]
          /\ \E m \in recv_msgs'[q][a] : m.key = kFinKey
      BY <1>0, <2>1, SentIs
    <3>2. F <=> \E m \in recv_msgs[r][p] : m.key = kFinKey
      BY DEF Keys
    <3>3. F' <=> \E m \in recv_msgs'[r][p] : m.key = kFinKey
      BY DEF Keys
    <3>. QED
      BY <3>1, <3>2, <3>3
  <2>3. G' <=> G \/ (r = q /\ p = a)
    BY <1>0, <2>1 DEF Domains
  <2>4. (PastRecv(r, p)' <=> PastRecv(r, p)) /\ (PastRecv(p, r)' <=> PastRecv(p, r))
    BY <1>0, <1>2, <1>6, <1>7, <1>9, PastRecvAfter
  <2>5. At2' <=> IF p = a THEN r = q ELSE At2
    BY <1>0, <1>2, <1>7, <1>9, PastRecvAfter
  <2>6. p = a => ~At2
    BY <2>1
  <2>7. r = q /\ p = a => ~PastRecv(r, p)
    BY <1>3, <2>1 DEF FinsOf
  <2>. HIDE DEF F, G, At2, q
  <2>8. /\ F <=> G /\ ~PastRecv(r, p)
        /\ G <=> PastRecv(p, r) \/ At2
        /\ PastRecv(r, p) => G
    BY <1>3 DEF FinsOf, F, G, At2
  <2>9. /\ F' <=> G' /\ ~PastRecv(r, p)'
        /\ G' <=> PastRecv(p, r)' \/ At2'
        /\ PastRecv(r, p)' => G'
    BY <2>2, <2>3, <2>4, <2>5, <2>6, <2>7, <2>8
  <2>. QED
    BY <2>9 DEF FinsOf, F, G, At2
<1>10. ASSUME NEW a \in Ranks, RecvFin(a) PROVE FinsOf(r, p)'
  <2>. DEFINE q == closing[a].peer
  <2>1. /\ closing[a].at = "recv" /\ kFinKey \in Keys(a, q) /\ finished' = finished
        /\ recv_msgs' = Taken(a, q, kFinKey) /\ q \in Ranks /\ q # a
    BY <1>0, <1>10 DEF RecvFin, Domains
  <2>2. F' <=> F /\ ~(r = a /\ p = q)
    <3>1. \A m : m \in recv_msgs'[r][p] <=> m \in recv_msgs[r][p] /\ ~(r = a /\ p = q /\ m.key = kFinKey)
      BY <1>0, <2>1, TakenIs
    <3>2. F <=> \E m \in recv_msgs[r][p] : m.key = kFinKey
      BY DEF Keys
    <3>3. F' <=> \E m \in recv_msgs'[r][p] : m.key = kFinKey
      BY DEF Keys
    <3>. QED
      BY <3>1, <3>2, <3>3
  <2>3. G' <=> G
    BY <2>1
  <2>4. PastRecv(r, p)' <=> PastRecv(r, p) \/ (r = a /\ p = q)
    BY <1>0, <1>2, <1>6, <1>7, <1>10, PastRecvAfter
  <2>5. PastRecv(p, r)' <=> PastRecv(p, r) \/ (p = a /\ r = q)
    BY <1>0, <1>2, <1>6, <1>7, <1>10, PastRecvAfter
  <2>6. (At2' <=> p # a /\ At2) /\ (p = a => (At2 <=> r = q))
    BY <1>0, <1>2, <1>7, <1>10, <2>1, PastRecvAfter
  <2>7. r = a /\ p = q => F
    BY <2>1
  <2>. HIDE DEF F, G, At2, q
  <2>8. /\ F <=> G /\ ~PastRecv(r, p)
        /\ G <=> PastRecv(p, r) \/ At2
        /\ PastRecv(r, p) => G
    BY <1>3 DEF FinsOf, F, G, At2
  <2>9. /\ F' <=> G' /\ ~PastRecv(r, p)'
        /\ G' <=> PastRecv(p, r)' \/ At2'
        /\ PastRecv(r, p)' => G'
    BY <2>2, <2>3, <2>4, <2>5, <2>6, <2>7, <2>8
  <2>. QED
    BY <2>9 DEF FinsOf, F, G, At2
<1>. QED
  BY <1>1, <1>5, <1>8, <1>9, <1>10 DEF Next, vars, Enter, SendImpl, Recv, Skip, RecvTimeout, Return

\* Every message comes from a call or a close.
LEMMA KnownKept ==
  ASSUME TypeInv, Known, [Next]_vars
  PROVE  Known'
<1>0. Domains /\ mesh \in Deployments /\ mesh' = mesh /\ Ranks' = Ranks
  BY StepIs, MeshStays DEF TypeInv, Domains
<1>. DEFINE K(r, p, key) ==
       \/ key = kFinKey /\ r # p
       \/ \E w \in Worlds : \E k \in Calls(w) : \E v, d \in VRanks(w) :
            r = OrigRank(w, d) /\ p = OrigRank(w, v) /\ key = KeyOf(w, k)
<1>1. \A r, p \in Ranks : \A m \in recv_msgs[r][p] : K(r, p, m.key)
  BY DEF Known
<1>2. SUFFICES \A r, p \in Ranks : \A m \in recv_msgs'[r][p] : K(r, p, m.key)
  BY <1>0, MeshStays DEF Known
<1>. DEFINE Goal == \A r, p \in Ranks : \A m \in recv_msgs'[r][p] : K(r, p, m.key)
<1>3. ASSUME NEW s \in Strands, SendImpl(s) PROVE K(Peer(s), Self(s), Key(s))
  <2>1. Running(s) /\ To(s) \in VRanks(s[1]) /\ Key(s) = KeyOf(s[1], entered[s])
    BY <1>3, AtChannel DEF SendImpl
  <2>2. s[1] \in Worlds /\ s[2] \in VRanks(s[1]) /\ entered[s] \in Calls(s[1])
    BY <2>1, StrandFacts
  <2>. QED
    BY <2>1, <2>2 DEF Peer, Self
<1>. HIDE DEF K
<1>4. ASSUME NEW s \in Strands, SendImpl(s) PROVE Goal
  <2>1. /\ Self(s) \in Ranks /\ Peer(s) \in Ranks
        /\ recv_msgs' = OnMessage(Peer(s), Self(s), Key(s), Payload(s))
    BY <1>4, AtChannel DEF SendImpl
  <2>2. \A r, p \in Ranks : \A m \in recv_msgs'[r][p] :
          m \in recv_msgs[r][p] \/ (r = Peer(s) /\ p = Self(s) /\ m.key = Key(s))
    BY <1>0, <2>1, SentIs
  <2>. QED
    BY <1>1, <1>3, <1>4, <2>2
<1>5. ASSUME NEW s \in Strands, Recv(s) PROVE Goal
  <2>1. Self(s) \in Ranks /\ Peer(s) \in Ranks /\ recv_msgs' = Taken(Self(s), Peer(s), Key(s))
    BY <1>5, AtChannel DEF Recv
  <2>2. \A r, p \in Ranks : \A m \in recv_msgs'[r][p] : m \in recv_msgs[r][p]
    BY <1>0, <2>1, TakenIs
  <2>. QED
    BY <1>1, <2>2
<1>6. ASSUME NEW a \in Ranks, SendFin(a) PROVE Goal
  <2>. DEFINE q == closing[a].peer
  <2>1. q \in Ranks /\ q # a /\ recv_msgs' = OnMessage(q, a, kFinKey, Empty)
    BY <1>0, <1>6 DEF SendFin, Domains
  <2>2. \A r, p \in Ranks : \A m \in recv_msgs'[r][p] :
          m \in recv_msgs[r][p] \/ (r = q /\ p = a /\ m.key = kFinKey)
    BY <1>0, <2>1, SentIs
  <2>3. K(q, a, kFinKey)
    BY <2>1 DEF K
  <2>. QED
    BY <1>1, <2>2, <2>3
<1>7. ASSUME NEW a \in Ranks, RecvFin(a) PROVE Goal
  <2>1. closing[a].peer \in Ranks /\ recv_msgs' = Taken(a, closing[a].peer, kFinKey)
    BY <1>0, <1>7 DEF RecvFin, Domains
  <2>2. \A r, p \in Ranks : \A m \in recv_msgs'[r][p] : m \in recv_msgs[r][p]
    BY <1>0, <2>1, TakenIs
  <2>. QED
    BY <1>1, <2>2
<1>8. CASE UNCHANGED recv_msgs
  BY <1>1, <1>8
<1>. QED
  BY <1>4, <1>5, <1>6, <1>7, <1>8 DEF Next, vars, Enter, Skip, RecvTimeout, Return, StartClose, FinTimeout

\* Nothing is sent, thrown or closed at the start.
LEMMA StartsMatched ==
  ASSUME Init
  PROVE  Known /\ Unprovoked
<1>1. TypeInv
  BY InitTypes
<1>2. \A r, p \in Ranks : recv_msgs[r][p] = {} /\ finished[r][p] = FALSE /\ closing[r].at = "open"
  BY DEF Init
<1>3. \A s \in Strands : status[s] = "ready" /\ entered[s] = 0 /\ results[s] = <<>>
  BY DEF Init
<1>4. Known
  BY <1>2 DEF Known
<1>5. Clean
  BY <1>2, <1>3 DEF Clean
<1>6. Fins
  BY <1>2 DEF Fins, FinsOf, PastRecv, Keys
<1>7. ASSUME NEW w \in Worlds, NEW k \in Calls(w), NEW v \in VRanks(w), NEW d \in VRanks(w)
      PROVE  Pair(w, k, v, d)
  <2>1. mesh \in Deployments /\ <<w, v>> \in Strands /\ <<w, d>> \in Strands
    BY <1>1, IsStrand DEF TypeInv, Domains
  <2>2. k \in Nat \ {0} /\ OrigRank(w, d) \in Ranks /\ OrigRank(w, v) \in Ranks
    BY <2>1, MeshFacts DEF Calls
  <2>3. ~InChannel(w, k, v, d)
    BY <1>2, <2>2 DEF InChannel, Keys
  <2>4. ~SentAll(<<w, v>>, k, d) /\ ~GotAll(<<w, d>>, k, v)
    BY <1>3, <2>1, <2>2 DEF SentAll, GotAll
  <2>. QED
    BY <2>3, <2>4 DEF Pair
<1>. QED
  BY <1>4, <1>5, <1>6, <1>7 DEF Unprovoked, Matched

\* The invariant behind NoUnprovokedFailure.
LEMMA FailInvHolds == Spec => []FailInv
<1>1. Init => FailInv
  BY InitTypes, StartsEmpty, StartsMatched DEF FailInv, CallInv
<1>2. FailInv /\ [Next]_vars => FailInv'
  <2>. SUFFICES ASSUME FailInv, [Next]_vars PROVE FailInv'
    OBVIOUS
  <2>1. CallInv'
    BY TypesKept, MsgInvKept, BufInvKept, RoundInvKept, ResultsKept, BarrierKept DEF FailInv, CallInv
  <2>2. TypeInv /\ MsgInv /\ Known /\ Unprovoked
    BY DEF FailInv, CallInv
  <2>3. Known'
    BY <2>2, KnownKept
  <2>4. timeouts' = 0 => Clean' /\ Matched' /\ Fins'
    BY <2>2, CleanKept, MatchedKept, FinsKept
  <2>. QED
    BY <2>1, <2>3, <2>4 DEF FailInv, Unprovoked
<1>. QED
  BY <1>1, <1>2, PTL DEF Spec

\* While nothing due was late, no call and no close gives up, and a mesh that has
\* closed has read everything it was sent: the send and receive patterns of the
\* collectives fit for every number of parties and every root (broadcast.cc,
\* barrier.cc, channel_mem.cc).
THEOREM MeshNoUnprovokedFailure == Spec => []NoUnprovokedFailure
<1>1. FailInv => NoUnprovokedFailure
  <2>. SUFFICES ASSUME FailInv, timeouts = 0
                PROVE  /\ \A s \in Strands : \A k \in DOMAIN results[s] : results[s][k][1] = "returned"
                       /\ \A r \in Ranks : closing[r].at # "thrown"
                       /\ \/ \E s \in Strands : ~Done(s)
                          \/ \E r \in Ranks : closing[r].at # "closed"
                          \/ \A r, p \in Ranks : recv_msgs[r][p] = {}
    BY DEF NoUnprovokedFailure
  <2>1. TypeInv /\ Known /\ Clean /\ Matched /\ Fins
    BY DEF FailInv, CallInv, Unprovoked
  <2>2. ASSUME \A s \in Strands : Done(s), \A r \in Ranks : closing[r].at = "closed",
               NEW r \in Ranks, NEW p \in Ranks, NEW m \in recv_msgs[r][p]
        PROVE  FALSE
    <3>1. CASE m.key = kFinKey /\ r # p
      <4>1. kFinKey \in Keys(r, p)
        BY <2>2, <3>1 DEF Keys
      <4>2. PastRecv(r, p)
        BY <2>2 DEF PastRecv
      <4>. QED
        BY <2>1, <3>1, <4>1, <4>2 DEF Fins, FinsOf
    <3>2. ASSUME NEW w \in Worlds, NEW k \in Calls(w), NEW v \in VRanks(w), NEW d \in VRanks(w),
                 r = OrigRank(w, d), p = OrigRank(w, v), m.key = KeyOf(w, k)
          PROVE  FALSE
      <4>. DEFINE t == <<w, d>>
      <4>1. t \in Strands /\ t[1] = w
        BY IsStrand
      <4>2. InChannel(w, k, v, d)
        BY <2>2, <3>2 DEF InChannel, Keys
      <4>3. ~GotAll(t, k, v)
        BY <2>1, <4>2 DEF Matched, Pair
      <4>. HIDE DEF t
      <4>4. entered[t] = Len(Program(t)) /\ ~Running(t)
        BY <2>2, <4>1 DEF Done, Running
      <4>5. k \in 1 .. Len(Program(t)) /\ Len(Program(t)) \in Nat
        BY <2>1, <4>1, StrandFacts
      <4>. QED
        BY <4>3, <4>4, <4>5 DEF GotAll
    <3>. QED
      BY <2>1, <2>2, <3>1, <3>2 DEF Known
  <2>. QED
    BY <2>1, <2>2 DEF Clean
<1>. QED
  BY <1>1, FailInvHolds, PTL

\* A loop variable stays within the world.
LEMMA PlaceIn ==
  ASSUME NEW n \in Nat \ {0}, NEW c \in CallIn(n), NEW v \in 0 .. (n - 1), NEW l, PlaceOK(c, v, n, l)
  PROVE  l.i \in 0 .. n
<1>1. c.kind \in Kinds /\ c.root \in 0 .. n /\ c.dst \in 0 .. n
  BY DEF CallIn
<1>2. CASE l.do = "end"
  BY <1>2 DEF PlaceOK
<1>3. CASE l.do # "end" /\ c.kind = "ALLGATHER"
  BY <1>3 DEF PlaceOK
<1>4. CASE l.do # "end" /\ c.kind = "GATHER"
  BY <1>1, <1>4 DEF PlaceOK
<1>5. CASE l.do # "end" /\ c.kind = "SCATTER"
  BY <1>1, <1>5 DEF PlaceOK
<1>6. CASE l.do # "end" /\ c.kind = "BARRIER"
  BY <1>6 DEF PlaceOK
<1>7. CASE l.do # "end" /\ c.kind = "BCAST"
  <2>1. l.i \in 1 .. n
    BY <1>7 DEF PlaceOK
  <2>. QED
    BY <2>1
<1>8. CASE l.do # "end" /\ c.kind = "P2P"
  BY <1>1, <1>8 DEF PlaceOK
<1>. QED
  BY <1>1, <1>2, <1>3, <1>4, <1>5, <1>6, <1>7, <1>8 DEF Kinds

\* No call of any collective, of any size of world, names a rank outside it or the
\* caller itself, and every strand, channel and close is in a state the code has.
THEOREM MeshTypeOK == Spec => []TypeOK
<1>1. TypeInv => TypeOK
  <2>. SUFFICES ASSUME TypeInv PROVE TypeOK
    OBVIOUS
  <2>1. Domains /\ MessagesOK /\ MaxTimeouts \in Nat
    BY DeploymentAssumption DEF TypeInv
  <2>2. ASSUME NEW s \in Strands
        PROVE  /\ counter[s] \in 0 .. entered[s]
               /\ entered[s] \in 0 .. Len(Program(s))
               /\ status[s] \in {"ready", "running", "gone"}
               /\ loop[s].do \in {"send", "recv", "skip", "end"}
               /\ loop[s].i \in 0 .. WorldSize(s[1]) /\ loop[s].received \in BOOLEAN
               /\ At(s, "send") \/ At(s, "recv") => To(s) \in VRanks(s[1]) \ {s[2]}
               /\ Len(results[s]) = IF status[s] = "running" THEN entered[s] - 1 ELSE entered[s]
    <3>1. StrandOK(s) /\ entered[s] \in Nat /\ WorldSize(s[1]) \in Nat \ {0} /\ s[2] \in 0 .. (WorldSize(s[1]) - 1)
      BY <2>2, StrandFacts DEF TypeInv
    <3>2. counter[s] \in 0 .. entered[s]
      <4>. DEFINE C == Collectives(s[1], entered[s])
                  I == 1 .. entered[s]
      <4>1. IsFiniteSet(I) /\ Cardinality(I) = entered[s]
        <5>. DEFINE b == entered[s]
        <5>1. b \in Int /\ b \in Nat /\ I = 1 .. b
          BY <3>1
        <5>. HIDE DEF b
        <5>2. IsFiniteSet(1 .. b) /\ Cardinality(1 .. b) = IF 1 > b THEN 0 ELSE b - 1 + 1
          BY <5>1, FS_Interval
        <5>3. Cardinality(1 .. b) = b
          BY <5>1, <5>2
        <5>. QED
          BY <5>1, <5>2, <5>3 DEF b
      <4>2. C \subseteq I
        BY DEF Collectives
      <4>. HIDE DEF C, I
      <4>3. Cardinality(C) \in Nat /\ Cardinality(C) <= Cardinality(I)
        BY <4>1, <4>2, FS_Subset, FS_CardinalityType
      <4>4. counter[s] = Cardinality(C)
        BY <3>1 DEF StrandOK, C
      <4>. QED
        BY <3>1, <4>1, <4>3, <4>4
    <3>3. /\ loop[s].do \in {"send", "recv", "skip", "end"}
          /\ loop[s].i \in 0 .. WorldSize(s[1]) /\ loop[s].received \in BOOLEAN
      <4>1. CASE Running(s)
        <5>1. PlaceOK(Call(s), s[2], WorldSize(s[1]), loop[s]) /\ Call(s) \in CallIn(WorldSize(s[1]))
          BY <2>2, <3>1, <4>1, StrandFacts DEF StrandOK
        <5>2. loop[s] \in PlaceSet
          BY <5>1 DEF PlaceOK
        <5>3. loop[s].i \in 0 .. WorldSize(s[1])
          BY <3>1, <5>1, PlaceIn
        <5>. QED
          BY <5>2, <5>3 DEF PlaceSet
      <4>2. CASE ~Running(s)
        <5>1. loop[s] = [do |-> "end", i |-> 0, received |-> FALSE] /\ 0 \in 0 .. WorldSize(s[1])
          BY <3>1, <4>2 DEF StrandOK, End, Place
        <5>. QED
          BY <5>1
      <4>. QED
        BY <4>1, <4>2
    <3>4. At(s, "send") \/ At(s, "recv") => To(s) \in VRanks(s[1]) \ {s[2]}
      BY <2>2, AtChannel
    <3>. QED
      BY <3>1, <3>2, <3>3, <3>4 DEF StrandOK, Running
  <2>3. mesh \in Deployments /\ timeouts \in 0 .. MaxTimeouts
    BY <2>1 DEF Domains
  <2>4. \A r \in Ranks : /\ closing[r].at \in {"open", "send", "recv", "closed", "thrown"}
                         /\ closing[r].peer \in Ranks
    BY <2>1 DEF Domains
  <2>. QED
    BY <2>1, <2>2, <2>3, <2>4 DEF TypeOK, MessagesOK
<1>2. CallInv => TypeInv
  BY DEF CallInv
<1>. QED
  BY <1>1, <1>2, CallInvHolds, PTL
=============================================================================
