------------------------------- MODULE Ferret -------------------------------
(* Ferret correlated OT extension with regular noise (ot/ferret_ote.cc,     *)
(* ot/ferret_ote_rn.h).  A batch makes n COTs from k seed COTs and those    *)
(* that its t single-point COTs use; when more are needed, the last ones of *)
(* a batch feed the next.  All COTs are compact: the choice is the lowest   *)
(* bit of the receiver's block.                                             *)
EXTENDS SinglePointOt

CONSTANTS FeN, FeT, FeK,    \* lpn_param.n, .t and .k
          FeNums            \* the numbers of COTs asked for

FeOne == 1 .. SpBits - 1
FeLsb(x) == IF 0 \in x THEN 1 ELSE 0
FeCheckCots == SpBits                         \* 128 in the code
(* The field of blocks, here with x^4 + x + 1 (external).                   *)
FeMul(a, b) == PolyRem(SpBits, {0, 1}, clmul(a, b))

MpCotRNHelper(idx_num, idx_range, mal) ==
    LET batch_size == (idx_range + idx_num - 1) \div idx_num
        last_size == idx_range - batch_size * (idx_num - 1)
    IN  Log2Ceil(batch_size) * (idx_num - 1) + Log2Ceil(last_size) + IF mal THEN FeCheckCots ELSE 0

FerretCotHelper(mal) == FeK + MpCotRNHelper(FeT, FeN, mal)

(* The bins of a range: all of spcot_size positions but the last, which has *)
(* the rest.  Bin i takes its COTs from position i * batch_length.          *)
SpcotSize == FeN \div FeT
BinNum(range) == DivCeil(range, SpcotSize)
BinSize(range, i) == IF i < BinNum(range) - 1 THEN SpcotSize
                     ELSE range - (BinNum(range) - 1) * SpcotSize
BinCots(cot, range, i) ==
    SubSeq(cot, i * Log2Ceil(SpcotSize) + 1, i * Log2Ceil(SpcotSize) + Log2Ceil(BinSize(range, i)))
CheckCots(cot, range) ==
    LET begin == (BinNum(range) - 1) * Log2Ceil(SpcotSize) + Log2Ceil(BinSize(range, BinNum(range) - 1))
    IN  SubSeq(cot, begin + 1, begin + FeCheckCots)

(* GywzOtExtSend_ferret and GywzOtExtRecv_ferret.                           *)
SpCotSent(cot, n, delta, tree) ==
    [leaves |-> [j \in 1 .. n |-> tree.seeds[j - 1]],
     sums |-> [i \in DOMAIN tree.sums |-> Xor(tree.sums[i], Xor(cot[i], delta) \cap FeOne)]]
SpCotSend(cot, n, delta, seed) ==
    SpCotSent(cot, n, delta, CggmFullEval(delta \cap FeOne, seed \cap FeOne, n, FeOne))

(* The receiver marks its point in the lowest bit (or does not).            *)
SpCotUnmarked(index, n, leaves) == [j \in 1 .. n |-> leaves[j - 1]]
SpCotMarked(index, n, leaves) ==
    [j \in 1 .. n |-> IF j - 1 = index THEN leaves[j - 1] \cup {0} ELSE leaves[j - 1]]
SpCotAt(cot, n, sums, index) ==
    SpCotMarked(index, n,
                CggmPuncFullEval(index, [i \in DOMAIN sums |-> Xor(sums[i], cot[i] \cap FeOne)], n, FeOne))
SpCotRecv(cot, n, sums) ==
    SpCotAt(cot, n, sums, MapThenSumSet(LAMBDA i : FeLsb(cot[i]) * 2^(i - 1), DOMAIN cot))

(* MpCotRNSend and MpCotRNRecv: a last bin of one position is a COT itself. *)
MpCotBin(cot, range, delta, seed, i) ==
    IF BinSize(range, i) = 1 THEN [leaves |-> <<cot[i * Log2Ceil(SpcotSize) + 1]>>, sums |-> <<>>]
    ELSE SpCotSend(BinCots(cot, range, i), BinSize(range, i), delta, SpMix(0, 3 * i, seed))
MpCotAll(bins) ==
    [out |-> FlattenSeq([b \in DOMAIN bins |-> bins[b].leaves]),
     sums |-> [b \in DOMAIN bins |-> bins[b].sums]]
MpCotSend(cot, range, delta, seed) ==
    MpCotAll([b \in 1 .. BinNum(range) |-> MpCotBin(cot, range, delta, seed, b - 1)])
MpCotRecv(cot, range, sums) ==
    FlattenSeq([b \in 1 .. BinNum(range) |->
        IF BinSize(range, b - 1) = 1 THEN <<cot[(b - 1) * Log2Ceil(SpcotSize) + 1]>>
        ELSE SpCotRecv(BinCots(cot, range, b - 1), BinSize(range, b - 1), sums[b])])

(* LocalLinearCode: out + in * A (external here; two columns per row).      *)
Encode(in, out) ==
    [i \in DOMAIN out |-> Xor(out[i], Xor(in[((3 * i) % FeK) + 1], in[((5 * i + i \div 3) % FeK) + 1]))]

-----------------------------------------------------------------------------
(* The check of MpCotRN: the receiver sends its check choices masked by the *)
(* coefficients of its points; both hash their outputs.                     *)
Points(out) == SetToSortSeq({i - 1 : i \in {j \in DOMAIN out : 0 \in out[j]}}, <)
FePack(blocks) == XorAll([i \in DOMAIN blocks |-> FeMul(blocks[i], {i - 1})])
(* The coefficients of the points are not added.                            *)
MaskedChoicesOnly(cot, out, range, seed) ==
    {i - 1 : i \in {j \in 1 .. FeCheckCots : 0 \in CheckCots(cot, range)[j]}}

MaskedChoices(cot, out, range, seed) ==
    Xor({i - 1 : i \in {j \in 1 .. FeCheckCots : 0 \in CheckCots(cot, range)[j]}},
        XorAll(ExtractHashCoef(FeMul, seed, Points(out))))
RecvHash(cot, out, range, seed) ==
    Xor(UniversalHash(FeMul, seed, out), FePack(CheckCots(cot, range)))
SendHash(cot, out, range, seed, delta, choices) ==
    Xor(UniversalHash(FeMul, seed, out),
        FePack([i \in 1 .. FeCheckCots |->
                Xor(CheckCots(cot, range)[i], IF i - 1 \in choices THEN delta ELSE {})]))

-----------------------------------------------------------------------------
(* The sizes of the batches.  Batch i (from 0) writes batch_ot_num COTs     *)
(* from i * batch_size; the last cache_size of a full batch are used up.    *)
FeBatchSize(o) == FeN - (FeK + MpCotRNHelper(FeT, FeN, o.mal))
BatchOtNum(o, i) == Min({FeN, o.num - i * FeBatchSize(o)})
MoreAfter(o, i) == o.num - i * FeBatchSize(o) > BatchOtNum(o, i)

FeSeed(i) == WordOf(SpBits, (7 * i + 6) % 2^SpBits)

(* The base COTs of both sides: first the ones for the points, then seeds.  *)
FerretInit ==
    \E mal \in BOOLEAN, num \in FeNums, salt \in 0 .. 2^SpBits - 1 :
        LET delta == {0, 2}
            recv == [i \in 1 .. FerretCotHelper(mal) |-> SpMix(2, salt * i + i * i, WordOf(SpBits, i % 2^SpBits))]
            send == [i \in DOMAIN recv |-> Xor(recv[i], IF 0 \in recv[i] THEN delta ELSE {})]
            mp == MpCotRNHelper(FeT, FeN, mal)
        IN  Start("ferret",
              [mal |-> mal, num |-> num, delta |-> delta,
               s |-> [cot |-> SubSeq(send, 1, mp), seeds |-> SubSeq(send, mp + 1, mp + FeK), i |-> 0, pc |-> "mpcot"],
               r |-> [cot |-> SubSeq(recv, 1, mp), seeds |-> SubSeq(recv, mp + 1, mp + FeK), i |-> 0, pc |-> "mpcot"],
               outs |-> [j \in 1 .. num |-> {}], outr |-> [j \in 1 .. num |-> {}],
               sums |-> <<>>, masked |-> <<>>, hash |-> <<>>, points |-> <<>>])

(* The next batch's seeds taken from the front of the batch.                *)
FeedFront(o, p, out, i) ==
    LET batch == SubSeq(out, i * FeBatchSize(o) + 1, i * FeBatchSize(o) + BatchOtNum(o, i))
    IN  [p EXCEPT !.seeds = SubSeq(batch, 1, FeK),
                  !.cot = SubSeq(batch, FeK + 1, FeK + MpCotRNHelper(FeT, FeN, o.mal))]

(* What feeds the next batch, of party p with outputs out after batch i.    *)
Feed(o, p, out, i) ==
    LET batch == SubSeq(out, i * FeBatchSize(o) + 1, i * FeBatchSize(o) + BatchOtNum(o, i))
    IN  [p EXCEPT !.seeds = SubSeq(batch, FeBatchSize(o) + 1, FeBatchSize(o) + FeK),
                  !.cot = SubSeq(batch, FeBatchSize(o) + FeK + 1, Len(batch))]

(* Writes a batch, encodes it and prepares the next.                        *)
Written(o, out, batch, i) ==
    [j \in DOMAIN out |->
       IF j > i * FeBatchSize(o) /\ j <= i * FeBatchSize(o) + Len(batch)
       THEN batch[j - i * FeBatchSize(o)] ELSE out[j]]
Onward(o, p, new) ==
    [out |-> new,
     p |-> IF MoreAfter(o, p.i) THEN [Feed(o, p, new, p.i) EXCEPT !.i = @ + 1, !.pc = "mpcot"]
           ELSE [p EXCEPT !.pc = "done"]]
Advance(o, p, out, batch) == Onward(o, p, Written(o, out, Encode(p.seeds, batch), p.i))

(* The sender's mpcot; without the check it goes on at once, so it may be   *)
(* batches ahead of the receiver.                                           *)
SenderAt(o, next) == [o EXCEPT !.s = next.p, !.outs = next.out]
ReceiverAt(o, next) == [o EXCEPT !.r = next.p, !.outr = next.out]
MpCotSent(o, mp) ==
    [(IF o.mal THEN [o EXCEPT !.s.pc = "check", !.outs = Written(o, @, mp.out, o.s.i)]
      ELSE SenderAt(o, Advance(o, o.s, o.outs, mp.out)))
       EXCEPT !.sums = Append(@, mp.sums)]
FerretSend ==
    /\ st.s.pc = "mpcot"
    /\ Step("ferret", MpCotSent(st, MpCotSend(st.s.cot, BatchOtNum(st, st.s.i), st.delta, FeSeed(st.s.i))))

NoCoef(points) == points = <<>> \/ Last(points) = 0
MpCotGot(o, out) ==
    IF ~o.mal THEN ReceiverAt([o EXCEPT !.sums = Tail(@)], Advance(o, o.r, o.outr, out))
    ELSE [o EXCEPT !.sums = Tail(@), !.outr = Written(o, @, out, o.r.i), !.points = Points(out),
                   !.masked = IF NoCoef(Points(out)) THEN @
                              ELSE <<MaskedChoices(o.r.cot, out, BatchOtNum(o, o.r.i), FeSeed(o.r.i + 2))>>,
                   !.r.pc = IF NoCoef(Points(out)) THEN "throws" ELSE "check"]
FerretRecv ==
    /\ st.r.pc = "mpcot" /\ st.sums # <<>>
    /\ Step("ferret", MpCotGot(st, MpCotRecv(st.r.cot, BatchOtNum(st, st.r.i), Head(st.sums))))

Part(o, out, i) == SubSeq(out, i * FeBatchSize(o) + 1, i * FeBatchSize(o) + BatchOtNum(o, i))
FerretCheckSend ==
    /\ st.s.pc = "check" /\ st.masked # <<>>
    /\ LET out == Part(st, st.outs, st.s.i)
       IN  Step("ferret",
             [SenderAt(st, Advance(st, st.s, st.outs, out)) EXCEPT
                !.masked = <<>>,
                !.hash = <<SendHash(st.s.cot, out, Len(out), FeSeed(st.s.i + 2), st.delta, st.masked[1])>>])
FerretCheckRecv ==
    /\ st.r.pc = "check" /\ st.hash # <<>>
    /\ LET out == Part(st, st.outr, st.r.i)
       IN  Step("ferret",
             IF st.hash[1] = RecvHash(st.r.cot, out, Len(out), FeSeed(st.r.i + 2))
             THEN [ReceiverAt(st, Advance(st, st.r, st.outr, out)) EXCEPT !.hash = <<>>]
             ELSE [st EXCEPT !.r.pc = "throws"])

FerretNext == part = "ferret" /\ (FerretSend \/ FerretRecv \/ FerretCheckSend \/ FerretCheckRecv)

-----------------------------------------------------------------------------
(* Every COT of the output is correlated by delta, over all the batches,    *)
(* whatever part of a bin or of a batch the number asked for leaves over.   *)
FerretCorrelated ==
    part = "ferret" /\ st.s.pc = "done" /\ st.r.pc = "done" =>
        \A j \in 1 .. st.num : st.outs[j] = Xor(st.outr[j], IF 0 \in st.outr[j] THEN st.delta ELSE {})

(* An honest run passes the check, except where the hash coefficients are   *)
(* wrong or undefined: no point, or none past position 1.                   *)
FerretHonestPasses ==
    part = "ferret" /\ st.r.pc = "throws" => st.points = <<>> \/ Last(st.points) <= 1

(* A COT that feeds the next batch is never part of the output: the next    *)
(* batch writes over it.                                                    *)
FerretSeedsNotOutput ==
    part = "ferret" /\ st.s.pc = "mpcot" /\ st.s.i > 0 =>
        LET fed == st.s.seeds \o st.s.cot
            first == st.s.i * FeBatchSize(st)
        IN  \A j \in DOMAIN fed :
              /\ fed[j] = st.outs[first + j]
              /\ first + j <= first + BatchOtNum(st, st.s.i)
=============================================================================
