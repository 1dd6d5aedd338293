-------------------------------- MODULE Vole --------------------------------
(* Vector OLE (vole/mpfss, mp_vole.h, base_vole.h, silent_vole): the sender *)
(* gets delta and c, the receiver a and b with c = a * delta + b.  Base     *)
(* VOLEs come from COTs, multi-point functional secret sharing (MPFSS)      *)
(* spreads them over a long sparse a, and a linear code compresses that.    *)
(* a is in T, of o.tw bits, and b, c and delta in K, of o.kw bits.          *)
EXTENDS SinglePointOt

CONSTANTS VoSuper,     \* kSuperBatch (16 in the code)
          VoSizes,     \* the sizes of the sparse vectors
          VoGap        \* gap of the Silver codes (16 and 32 in the code)

VoMul(w, a, b) == PolyRem(w, {0, 1}, clmul(a, b))
VoHash(x) == SpMix(3, 11, x)                             \* ParaCrHash (external)
Low(w, x) == x \cap 0 .. w - 1

-----------------------------------------------------------------------------
(* MpFssParam: t bins of sp positions, the last with the rest.              *)
MpFssParam(t, size) ==
    LET sp == size \div t
        last == size - (t - 1) * sp
    IN  [t |-> t, size |-> size, sp |-> sp, last |-> last,
         ots |-> Log2Ceil(sp) * (t - 1) + Log2Ceil(last)]
ThisSize(p, i) == IF i = p.t - 1 THEN p.last ELSE p.sp
ThisLength(p, i) == Log2Ceil(ThisSize(p, i))

(* GenChoices: the bits of the index of each bin, in the order of the OTs.  *)
GenChoices(p, indexes) ==
    FlattenSeq([i \in 1 .. p.t |-> [k \in 1 .. ThisLength(p, i - 1) |-> Bit(indexes[i], k - 1)]])

(* The COTs of bin i: Slice takes positions in the whole store.             *)
VoCots(p, cot, i) ==
    SubSeq(cot, i * Log2Ceil(p.sp) + 1, i * Log2Ceil(p.sp) + ThisLength(p, i))

(* The elements of K are added by xor or, as another MpfssOp, as integers.  *)
OpAdd(o, x, y) == IF o.ring THEN WordOf(o.kw, (Val(x) + Val(y)) % 2^o.kw) ELSE Xor(x, y)
OpSub(o, x, y) == IF o.ring THEN WordOf(o.kw, (Val(x) + 2^o.kw - Val(y)) % 2^o.kw) ELSE Xor(x, y)
Reduce(o, first, s) == FoldLeft(LAMBDA x, y : OpAdd(o, x, y), first, s)

(* The trees have all of 2^length leaves in the forms for 64-bit K with     *)
(* fixed index; the leaves past this_size are not used.                     *)
TreeSize(o, p, i) == IF o.fixed /\ o.kw < SpBits THEN 2^ThisLength(p, i) ELSE ThisSize(p, i)
VoSeed(i) == WordOf(SpBits, (5 * i + 9) % 2^SpBits)
Leaves(o, p, i, seeds) == [j \in 1 .. ThisSize(p, i) |-> Low(o.kw, VoHash(seeds[j - 1]))]

(* A bin at the sender: its part of the output and its sibling sums, masked *)
(* by the COT message of the receiver's masked choice.                      *)
VoMask(o, i, k) == IF o.fixed THEN 0 ELSE o.masked[i + 1][k]
SentBin(o, p, i, cot, tree) ==
    [out |-> Leaves(o, p, i, tree.seeds),
     sums |-> [k \in DOMAIN tree.sums |->
                 Xor(tree.sums[k], IF VoMask(o, i, k) = 0 THEN Xor(cot[k], o.delta) ELSE cot[k])]]
SendBin(o, p, i) ==
    SentBin(o, p, i, VoCots(p, o.scot, i),
            CggmFullEval(o.delta, VoSeed(i), TreeSize(o, p, i), 0 .. SpBits - 1))

RecvBin(o, p, i, index, sums) ==
    LET cot == VoCots(p, o.rcot, i)
    IN  Leaves(o, p, i, CggmPuncFullEval(index, [k \in DOMAIN sums |-> Xor(sums[k], cot[k])],
                                         TreeSize(o, p, i), 0 .. SpBits - 1))

(* The sender's messages: one per bin or, with fixed index, one per VoSuper *)
(* bins, each in its place of a buffer that is used again and again (and    *)
(* one that forgets that the last bin is larger).                           *)
VoSuperNum(p) == DivCeil(p.t, VoSuper)
SuperBound(p, s) == Min({VoSuper, p.t - s * VoSuper})
MsgBuffEven(p) == [k \in 1 .. Log2Ceil(p.sp) * VoSuper |-> {}]
MsgBuff(p) == [k \in 1 .. Log2Ceil(p.sp) * (VoSuper - 1) + Log2Ceil(p.last) |-> {}]
MsgLength(p, s) ==
    IF s = VoSuperNum(p) - 1 THEN (SuperBound(p, s) - 1) * Log2Ceil(p.sp) + Log2Ceil(p.last)
    ELSE VoSuper * Log2Ceil(p.sp)
Put(buff, first, sums) ==
    [k \in DOMAIN buff |-> IF k - first \in DOMAIN sums THEN sums[k - first] ELSE buff[k]]
SendSuper(p, bins, buff, s) ==
    FoldLeft(LAMBDA b, i : Put(b, (i - 1) * Log2Ceil(p.sp), bins[s * VoSuper + i].sums),
             buff, [i \in 1 .. SuperBound(p, s) |-> i])
SuperSent(x, buff, length) == [buff |-> buff, msgs |-> Append(x.msgs, SubSeq(buff, 1, length))]
SendMessages(o, p, bins) ==
    IF ~o.fixed THEN [i \in 1 .. p.t |-> bins[i].sums]
    ELSE FoldLeft(LAMBDA x, s : SuperSent(x, SendSuper(p, bins, x.buff, s - 1), MsgLength(p, s - 1)),
                  [buff |-> MsgBuff(p), msgs |-> <<>>], [s \in 1 .. VoSuperNum(p) |-> s]).msgs
BinSums(o, p, msgs, i) ==
    IF ~o.fixed THEN msgs[i + 1]
    ELSE LET first == (i % VoSuper) * Log2Ceil(p.sp)
         IN  SubSeq(msgs[i \div VoSuper + 1], first + 1, first + ThisLength(p, i))

(* MpfssSend and MpfssRecv: w is what the output is to differ by.           *)
MpfssSent(o, p, w, bins) ==
    [out |-> FlattenSeq([i \in 1 .. p.t |-> bins[i].out]), msgs |-> SendMessages(o, p, bins),
     last |-> [i \in 1 .. p.t |-> Reduce(o, OpSub(o, {}, w[i]), bins[i].out)]]
MpfssSend(o, p, w) == MpfssSent(o, p, w, [i \in 1 .. p.t |-> SendBin(o, p, i - 1)])

(* A receiver's bin with its correction; one that adds to its own leaf what *)
(* the sender sent, without the sum of its leaves.                          *)
CorrectedRaw(o, bin, index, last) ==
    [j \in DOMAIN bin |-> IF j = index + 1 THEN OpAdd(o, bin[j], last) ELSE bin[j]]
Corrected(o, bin, index, last) ==
    [j \in DOMAIN bin |-> IF j = index + 1 THEN OpAdd(o, bin[j], OpSub(o, last, Reduce(o, {}, bin)))
                          ELSE bin[j]]
MpfssRecv(o, p, indexes, msgs, last) ==
    FlattenSeq([i \in 1 .. p.t |->
        Corrected(o, RecvBin(o, p, i - 1, indexes[i], BinSums(o, p, msgs, i - 1)), indexes[i], last[i])])

(* With fixed index the choices of the COTs decide, whatever the param says.*)
RealIndexes(o, p) ==
    [i \in 1 .. p.t |-> IF ~o.fixed THEN o.indexes[i]
                        ELSE Val({k \in 0 .. ThisLength(p, i - 1) - 1 : VoCots(p, o.choices, i - 1)[k + 1] = 1})]

-----------------------------------------------------------------------------
(* Ot2VoleSend and Ot2VoleRecv: bit j of u weighs x^j.                      *)
Ot2Vole(o, cot, i) ==
    XorAll([j \in 1 .. o.tw |-> VoMul(o.kw, Low(o.kw, cot[i * o.tw + j]), {j - 1})])
Ot2VoleU(o, choices, i) == {j \in 0 .. o.tw - 1 : choices[i * o.tw + j + 1] = 1}

(* VoleParam of a silent VOLE of num with noise bins.                       *)
VoleParamSize(num, noise, gap) == Max({DivCeil(2 * num, noise), 2}) * noise + gap
CodeSize(size) == size \div 2

(* The dual encodings (external): linear, to num of at least num positions. *)
DualEncode(in, num) ==
    [i \in 1 .. num |-> Xor(in[i], Xor(in[Len(in) + 1 - i], in[((3 * i) % Len(in)) + 1]))]

-----------------------------------------------------------------------------
(* The two parties.  The first p.ots COTs are for the bins, the rest for    *)
(* the base VOLEs, one more with the check.                                 *)

Delta(o) == Low(o.kw, o.delta)
BaseNum(o) == o.p.t + (IF o.mal THEN 1 ELSE 0)
VoBlock(i, salt) == WordOf(SpBits, (7 * i * i + 3 * salt * i + i + salt) % 2^SpBits)

VoleNew(form, tw, kw, fixed, ring, mal, num, p, salt) ==
    LET indexes == [i \in 1 .. p.t |-> (salt + 3 * i) % ThisSize(p, i - 1)]
        o == [form |-> form, tw |-> tw, kw |-> kw, fixed |-> fixed, ring |-> ring, mal |-> mal,
              num |-> num, p |-> p, indexes |-> indexes]
        bases == [i \in 1 .. (p.t + 1) * tw |-> (i * i + i \div 2 + salt) % 2]
        choices == (IF fixed THEN GenChoices(p, indexes) ELSE [i \in 1 .. p.ots |-> i % 2]) \o bases
        rcot == [i \in DOMAIN choices |-> VoBlock(i, salt)]
        delta == {0, 1, 3}
    IN  [form |-> form, tw |-> tw, kw |-> kw, fixed |-> fixed, ring |-> ring, mal |-> mal, num |-> num,
         p |-> p, indexes |-> indexes, delta |-> delta, choices |-> choices, rcot |-> rcot,
         scot |-> [i \in DOMAIN rcot |-> IF choices[i] = 1 THEN Xor(rcot[i], delta) ELSE rcot[i]],
         masked |-> <<>>, msgs |-> <<>>, last |-> <<>>, a |-> <<>>, b |-> <<>>, c |-> <<>>,
         payload |-> <<>>, hash |-> <<>>, s |-> "start", r |-> "start"]

VoInit ==
    \E tk \in {<<2, 2>>, <<4, 4>>, <<2, 4>>}, fixed, mal, ring \in BOOLEAN, t \in 1 .. 3, salt \in 0 .. 1 :
        \/ \E size \in VoSizes :
             /\ size >= 2 * t /\ ~(ring /\ mal)
             /\ \/ ~mal /\ Start("vole", VoleNew("mpfss", tk[1], tk[2], fixed, ring, FALSE, 0, MpFssParam(t, size), salt))
                \/ ~ring /\ Start("vole", VoleNew("mpvole", tk[1], tk[2], fixed, FALSE, mal, 0, MpFssParam(t, size), salt))
        \/ /\ fixed /\ ~ring /\ t > 1
           /\ \E num \in 1 .. 4, gap \in {0, VoGap} :
                Start("vole", VoleNew("silent", tk[1], tk[2], TRUE, FALSE, mal, num,
                                      MpFssParam(t, VoleParamSize(num, t, gap)), salt))

VoW(o) == IF o.form = "mpfss" THEN [i \in 1 .. o.p.t |-> Low(o.kw, VoBlock(i, 5))]
          ELSE [i \in 1 .. BaseNum(o) |-> Ot2Vole(o, SubSeq(o.scot, o.p.ots + 1, Len(o.scot)), i - 1)]
VoU(o) == [i \in 1 .. BaseNum(o) |-> Ot2VoleU(o, SubSeq(o.choices, o.p.ots + 1, Len(o.choices)), i - 1)]
VoV(o) == [i \in 1 .. BaseNum(o) |-> Ot2Vole(o, SubSeq(o.rcot, o.p.ots + 1, Len(o.rcot)), i - 1)]

(* GywzOtExtRecv sends the masked choices of each bin.                      *)
VoChoose ==
    /\ st.r = "start" /\ ~st.fixed
    /\ Step("vole", [st EXCEPT !.r = "wait",
          !.masked = [i \in 1 .. st.p.t |-> [k \in 1 .. ThisLength(st.p, i - 1) |->
              (Bit(st.indexes[i], k - 1) + VoCots(st.p, st.choices, i - 1)[k]) % 2]]])

VoEnd(o, out) == IF o.form = "silent" THEN DualEncode(out, o.num) ELSE out

(* MpVoleSender::Send up to the check.                                      *)
VoSent(o, sent) ==
    [o EXCEPT !.msgs = sent.msgs, !.last = sent.last,
              !.c = IF o.mal THEN sent.out ELSE VoEnd(o, sent.out),
              !.s = IF o.mal THEN "check" ELSE "done"]
VoSend ==
    /\ st.s = "start" /\ (st.fixed \/ st.masked # <<>>)
    /\ Step("vole", VoSent(st, MpfssSend(st, st.p, VoW(st))))

(* The hash of a, masked by the extra base VOLE (and one that does not      *)
(* mask it).                                                                *)
VoPayloadBare(o, coef, u) == XorAll([i \in 1 .. o.p.t |-> VoMul(o.kw, coef[i], u[i])])
VoPayload(o, coef, u) == Xor(XorAll([i \in 1 .. o.p.t |-> VoMul(o.kw, coef[i], u[i])]), Last(u))

(* MpVoleReceiver::Recv: a is zero but for the base VOLEs' values, the      *)
(* others are put into b; then the check's payload, or the end.             *)
Spots(p, indexes) == [i \in 1 .. p.t |-> (i - 1) * p.sp + indexes[i]]
(* values at the spots, added to out.                                       *)
AtSpots(out, spots, values) ==
    [j \in DOMAIN out |-> XorAll(<<out[j]>> \o [i \in DOMAIN spots |-> IF spots[i] = j - 1 THEN values[i] ELSE {}])]
VoCoef(o, spots) == LET mul(x, y) == VoMul(o.kw, x, y) IN ExtractHashCoef(mul, Low(o.kw, {0, 1}), spots)
VoGot(o, spots, a, b) ==
    IF ~o.mal THEN [o EXCEPT !.a = VoEnd(o, a), !.b = VoEnd(o, b), !.r = "done"]
    ELSE IF Last(spots) = 0 THEN [o EXCEPT !.r = "throws"]
    ELSE [o EXCEPT !.a = a, !.b = b, !.r = "check", !.payload = <<VoPayload(o, VoCoef(o, spots), VoU(o))>>]
VoFilled(o, spots, out) ==
    IF o.form = "mpfss" THEN [o EXCEPT !.b = out, !.r = "done"]
    ELSE VoGot(o, spots, AtSpots([j \in DOMAIN out |-> {}], spots, VoU(o)), AtSpots(out, spots, VoV(o)))
VoRecvAt(o, indexes) ==
    VoFilled(o, Spots(o.p, indexes), MpfssRecv(o, o.p, indexes, o.msgs, o.last))

VoRecv ==
    /\ st.r \in {"start", "wait"} /\ st.msgs # <<>>
    /\ Step("vole", VoRecvAt(st, RealIndexes(st, st.p)))

VoCheckSend ==
    /\ st.s = "check" /\ st.payload # <<>>
    /\ LET mul(x, y) == VoMul(st.kw, x, y)
           uhash == UniversalHash(mul, Low(st.kw, {0, 1}), st.c)
       IN  Step("vole", [st EXCEPT !.s = "done", !.c = VoEnd(st, @),
             !.hash = <<Xor(Xor(uhash, mul(st.payload[1], Delta(st))), Last(VoW(st)))>>])
VoCheckRecv ==
    /\ st.r = "check" /\ st.hash # <<>>
    /\ LET mul(x, y) == VoMul(st.kw, x, y)
           uhash == UniversalHash(mul, Low(st.kw, {0, 1}), st.b)
       IN  Step("vole", IF Xor(uhash, Last(VoV(st))) = st.hash[1]
                        THEN [st EXCEPT !.r = "done", !.a = VoEnd(st, @), !.b = VoEnd(st, @)]
                        ELSE [st EXCEPT !.r = "throws"])

VoNext == part = "vole" /\ (VoChoose \/ VoSend \/ VoRecv \/ VoCheckSend \/ VoCheckRecv)

-----------------------------------------------------------------------------
(* MPFSS: the outputs are equal but at the t indexes, where the sender's is *)
(* the receiver's plus w; VOLE: c = a * delta + b everywhere, in the large  *)
(* field, the small one and for a in the subfield, after the compression    *)
(* too.  The first COTs are for the bins and the rest for the base VOLEs at *)
(* both ends.                                                               *)
VoleCorrelated ==
    part = "vole" /\ st.s = "done" /\ st.r = "done" =>
        IF st.form = "mpfss"
        THEN \A i \in 1 .. st.p.t, j \in 0 .. st.p.last - 1 :
               j < ThisSize(st.p, i - 1) =>
                 LET k == (i - 1) * st.p.sp + j + 1
                 IN  st.c[k] = IF j = RealIndexes(st, st.p)[i] THEN OpAdd(st, st.b[k], VoW(st)[i]) ELSE st.b[k]
        ELSE \A k \in DOMAIN st.c : st.c[k] = Xor(VoMul(st.kw, st.a[k], Delta(st)), st.b[k])

(* An honest receiver passes the check, but for the only point at position  *)
(* 0 or 1, whose hash coefficient the code gets wrong or throws on.         *)
VoleHonestPasses ==
    part = "vole" /\ st.r = "throws" => st.p.t = 1 /\ st.indexes[1] <= 1

(* Every message of a super batch lies in the buffer that holds it, no bin  *)
(* is written past it, and the code's output is as long as what is taken    *)
(* of it.                                                                   *)
VoleBuffersSuffice ==
    part = "vole" =>
        /\ \A s \in 0 .. VoSuperNum(st.p) - 1 : MsgLength(st.p, s) <= Len(MsgBuff(st.p))
        /\ (st.p.t - 1) * Log2Ceil(st.p.sp) + ThisLength(st.p, st.p.t - 1) = st.p.ots
        /\ st.form = "silent" => CodeSize(st.p.size) >= st.num
=============================================================================
