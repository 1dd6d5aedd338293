---------------------------- MODULE OtExtension -----------------------------
(* IKNP and KOS OT extension (ot/iknp_ote.cc, ot/kos_ote.cc): from OteK     *)
(* base OTs, in the opposite direction, the two parties make any number of  *)
(* OTs in batches of OteK.  KOS adds OteS random OTs and a check that the   *)
(* receiver used one choice vector in all columns.                          *)
EXTENDS Sequences, SequencesExt, Fields, Scenario

CONSTANTS OteK,       \* kKappa = kBatchSize (128 in the code)
          OteMax      \* bound on the number of OTs of a call

OteS == OteK \div 2                                   \* kS
Rows == 0 .. OteK - 1

(* The field of the check, of elements of OteS bits (external).             *)
GfCheckMul(a, b) == PolyRem(OteS, {0, 1}, clmul(a, b))

(* PrgAesCtr and ParaCrHash (external): any fixed functions will do.        *)
PrgBlock(seed, i) == WordOf(OteK, (5 * seed * seed + 3 * seed * i + 7 * i + seed) % 2^OteK)
CrHash(x) == WordOf(OteK, (3 * Val(x) + 5) % 2^OteK)

MatrixTranspose128(m) == [j \in Rows |-> {k \in Rows : j \in m[k]}]

(* The number of batches for num OTs, and the words of a row (of a bit      *)
(* vector) as elements of the check.                                        *)
BatchNum(num) == (num + OteK - 1) \div OteK
Halves(words) == [i \in 1 .. 2 * Len(words) |->
                    IF i % 2 = 1 THEN words[(i + 1) \div 2] \cap 0 .. OteS - 1
                    ELSE Shr(words[i \div 2], OteS)]
CheckSum(coef, words) ==
    XorAll([i \in DOMAIN coef |-> GfCheckMul(coef[i], Halves(words)[i])])

(* ExtendBaseOt: row k of the message m of base OT k, block by block.       *)
ExtendBaseOt(k, msg, blocks) == [i \in 1 .. blocks |-> PrgBlock(2 * k + msg, i)]

(* The choice bits from position pos of the bits c, as the word of a batch. *)
ChoiceWord(c, i) == {b \in Rows : i * OteK + b + 1 <= Len(c) /\ c[i * OteK + b + 1] = 1}

(* ExtendChoice: the choices, the random bits of the check, zeros.          *)
ExtendChoice(choices, extra) == choices \o extra

-----------------------------------------------------------------------------
(* The receiver's message of a batch: u = G(K_0) ^ G(K_1) ^ r in each row.  *)
RecvBatch(c, blocks, i) ==
    [k \in Rows |-> Xor(Xor(ExtendBaseOt(k, 0, blocks)[i + 1], ExtendBaseOt(k, 1, blocks)[i + 1]),
                        ChoiceWord(c, i))]

(* The two cases of a row exchanged.                                        *)
SendBatchSwapped(delta, u, blocks, i) ==
    [k \in Rows |-> IF k \in delta THEN ExtendBaseOt(k, 1, blocks)[i + 1]
                    ELSE Xor(u[k], ExtendBaseOt(k, 0, blocks)[i + 1])]

(* The sender's rows of a batch: its base OTs gave it the seeds of its      *)
(* choices delta.                                                           *)
SendBatch(delta, u, blocks, i) ==
    [k \in Rows |-> IF k \in delta THEN Xor(u[k], ExtendBaseOt(k, 1, blocks)[i + 1])
                    ELSE ExtendBaseOt(k, 0, blocks)[i + 1]]

(* The outputs: the transposed batches, cut to the number of OTs, hashed    *)
(* unless correlated OTs were asked for.                                    *)
Break(cot, x) == IF cot THEN x ELSE CrHash(x)
SendBlocks(q, delta, num, cot) ==
    [j \in 1 .. num |->
       LET row == MatrixTranspose128(q[(j - 1) \div OteK])[(j - 1) % OteK]
       IN  <<Break(cot, row), Break(cot, Xor(row, delta))>>]
RecvBlocks(t, num, cot) ==
    [j \in 1 .. num |-> Break(cot, MatrixTranspose128(t[(j - 1) \div OteK])[(j - 1) % OteK])]

-----------------------------------------------------------------------------
(* The two calls.  The messages of a batch are sent under a tag of its own, *)
(* so that all of them are one message here.  flip is a fault: bit          *)
(* flip of row 0 of the receiver's first message changes.                   *)

OteInit ==
    \E kos, cot \in BOOLEAN, num \in 1 .. OteMax, delta \in {{}, {0}, {1, OteK - 1}, Rows},
       flip \in -1 .. OteK - 1, ab \in {<<{0}, {1}>>, <<{0, 1}, {0}>>} :
      \E choices \in [1 .. num -> {0, 1}] :
        /\ flip = -1 \/ (kos /\ choices = [i \in 1 .. num |-> i % 2])
        /\ kos \/ ab = <<{0}, {1}>>
        /\ Start("ote", [kos |-> kos, cot |-> cot, num |-> num, delta |-> delta, flip |-> flip,
                         choices |-> choices, extra |-> <<1, 0>>, ab |-> ab,
                         sender |-> "recv_u", receiver |-> "send_u", u |-> <<>>, q |-> <<>>,
                         check |-> <<>>, coef |-> <<>>, out0 |-> <<>>, out1 |-> <<>>])

Total(o) == IF o.kos THEN o.num + OteS ELSE o.num
Batches(o) == BatchNum(Total(o))
RecvChoice(o) == IF o.kos THEN ExtendChoice(o.choices, o.extra) ELSE o.choices
RecvRows(o) == [i \in 0 .. Batches(o) - 1 |-> [k \in Rows |-> ExtendBaseOt(k, 0, Batches(o))[i + 1]]]

(* IknpOtExtRecv, and KosOtExtRecv up to the seed it waits for.             *)
OteRecvSend ==
    /\ st.receiver = "send_u"
    /\ LET sent == [i \in 0 .. Batches(st) - 1 |-> RecvBatch(RecvChoice(st), Batches(st), i)]
           u == IF st.flip = -1 THEN sent ELSE [sent EXCEPT ![0][0] = Xor(@, {st.flip})]
       IN  Step("ote", [st EXCEPT !.u = u,
                                  !.receiver = IF st.kos THEN "recv_seed" ELSE "done",
                                  !.out1 = IF st.kos THEN <<>>
                                           ELSE RecvBlocks(RecvRows(st), st.num, st.cot)])

(* IknpOtExtSend, and KosOtExtSend up to the seed it sends; the seed stands *)
(* for its coefficients, two per batch, here the two ab in turn.            *)
OteSendRecv ==
    /\ st.sender = "recv_u" /\ st.u # <<>>
    /\ LET q == [i \in 0 .. Batches(st) - 1 |-> SendBatch(st.delta, st.u[i], Batches(st), i)]
       IN  Step("ote", [st EXCEPT !.q = q,
                                  !.sender = IF st.kos THEN "recv_check" ELSE "done",
                                  !.coef = IF st.kos
                                           THEN [i \in 1 .. 2 * Batches(st) |-> st.ab[(i % 2) + 1]]
                                           ELSE <<>>,
                                  !.out0 = IF st.kos THEN <<>>
                                           ELSE SendBlocks(q, st.delta, st.num, st.cot)])

(* The rest of KosOtExtRecv: the check values and the outputs.              *)
KosRecvCheck ==
    /\ st.receiver = "recv_seed" /\ st.coef # <<>>
    /\ LET words == [i \in 1 .. Batches(st) |-> ChoiceWord(RecvChoice(st), i - 1)]
       IN  Step("ote", [st EXCEPT
             !.receiver = "done",
             !.check = [x |-> CheckSum(st.coef, words),
                        t |-> [k \in Rows |-> CheckSum(st.coef, ExtendBaseOt(k, 0, Batches(st)))]],
             !.out1 = RecvBlocks(RecvRows(st), st.num, st.cot)])

(* The comparison without the choices' share x.                             *)
CheckPassesWithoutX(o) ==
    \A k \in Rows :
        CheckSum(o.coef, [i \in 1 .. Batches(o) |-> o.q[i - 1][k]]) = o.check.t[k]

(* The sender's comparison of the check values with its own rows.           *)
CheckPasses(o) ==
    \A k \in Rows :
        CheckSum(o.coef, [i \in 1 .. Batches(o) |-> o.q[i - 1][k]])
            = IF k \in o.delta THEN Xor(o.check.t[k], o.check.x) ELSE o.check.t[k]

KosSendCheck ==
    /\ st.sender = "recv_check" /\ st.check # <<>>
    /\ Step("ote", IF CheckPasses(st)
                   THEN [st EXCEPT !.sender = "done",
                                   !.out0 = SendBlocks(st.q, st.delta, st.num, st.cot)]
                   ELSE [st EXCEPT !.sender = "throws"])

OteNext == part = "ote" /\ (OteRecvSend \/ OteSendRecv \/ KosRecvCheck \/ KosSendCheck)

-----------------------------------------------------------------------------
(* When both calls return, the receiver has of every OT the sender's        *)
(* message for its choice and not the other; a last batch that is only      *)
(* partly used and the OTs spent on the check shift nothing.                *)
OteOutputsMatch ==
    part = "ote" /\ st.sender = "done" /\ st.receiver = "done" /\ st.flip = -1 =>
        \A j \in 1 .. st.num :
            /\ st.out1[j] = st.out0[j][st.choices[j] + 1]
            /\ st.delta # {} => st.out1[j] # st.out0[j][2 - st.choices[j]]

(* KOS refuses a message that is not for one choice vector and only that:   *)
(* an honest receiver is never refused, and a bit changed in a column the   *)
(* sender reads (coefficients not zero) never accepted.                     *)
KosRefusesChanged ==
    part = "ote" /\ st.kos /\ st.sender \in {"done", "throws"} =>
        (st.sender = "throws" <=> st.flip # -1 /\ 0 \in st.delta)

-----------------------------------------------------------------------------
(* KKRT oblivious PRFs (ot/kkrt_ote.cc): for each of num instances the      *)
(* receiver learns the PRF at its own input and the sender can evaluate it  *)
(* anywhere.  The streaming classes KkrtOtExtSender and KkrtOtExtReceiver   *)
(* make their rows first; the receiver encodes its inputs in any order and  *)
(* ships the corrections in pieces of its choice.                           *)

CONSTANTS KkWidth,    \* bits of a row (kIknpWidth)
          KkKappa,    \* rows of a transposed block (kKappa)
          KkBatch,    \* rows of a batch (kBatchSize1024, a multiple of KkKappa)
          KkMax       \* bound on the number of instances

KkWords == SUBSET (0 .. KkWidth - 1)

(* The PRG rows of the two seeds of the base OTs and the code of an input   *)
(* (external).                                                              *)
KkRow(seed, i) == WordOf(KkWidth, (5 * i * i + 3 * seed + seed * i + 1) % 2^KkWidth)
Prc(x) == WordOf(KkWidth, (7 * x + 2) % 2^KkWidth)

(* The rows of a batch that the copy loops of Init reach: block by block of *)
(* KkKappa, until one is cut short.  A loop that stops at the first block.  *)
CopiedOfBatchOne(num) == 0 .. Min({KkKappa, num}) - 1
CopiedOfBatch(num) ==
    FoldLeft(LAMBDA t, i : LET idx == i * KkKappa
                               n == Min({KkKappa, num - idx})
                           IN  IF t.over THEN t
                               ELSE [rows |-> t.rows \cup idx .. idx + n - 1, over |-> n < KkKappa],
             [rows |-> {}, over |-> FALSE], [i \in 1 .. KkBatch \div KkKappa |-> i - 1]).rows

(* The rows made for num instances; one no loop reached keeps what the      *)
(* memory held, here nothing.                                               *)
KkRows(seed, num) ==
    [i \in 0 .. num - 1 |->
       LET first == (i \div KkBatch) * KkBatch
       IN  IF i - first \in CopiedOfBatch(Min({num - first, KkBatch})) THEN KkRow(seed, i) ELSE {}]

(* Init of the sender: of each column it has the seed of its base choice.   *)
KkSenderRows(S, num) ==
    [i \in 0 .. num - 1 |-> (KkRows(0, num)[i] \ S) \cup (KkRows(1, num)[i] \cap S)]

(* enc: the input encoded in an instance, 2 for ZeroEncode, -1 for nothing. *)
KkInit ==
    \E num \in 1 .. KkMax, S \in {{0, 2}, {1, 2, 3}} :
        Start("kkrt", [num |-> num, S |-> S, q |-> KkSenderRows(S, num),
                       T |-> KkRows(0, num), U |-> KkRows(1, num),
                       sidx |-> 0, ridx |-> 0, link |-> <<>>, throws |-> FALSE,
                       enc |-> [i \in 0 .. num - 1 |-> -1], out |-> [i \in 0 .. num - 1 |-> {}]])

(* The PRF of instance i as the sender evaluates it (KkrtGroupPRF::Eval).   *)
KkEval(o, i, x) == Xor(o.q[i], Prc(x) \cap o.S)

(* Encode: the correction for input x, and the receiver's output.           *)
KkEncode ==
    \E i \in 0 .. st.num - 1, x \in 0 .. 1 :
        /\ st.enc[i] = -1
        /\ Step("kkrt", [st EXCEPT !.U[i] = Xor(Xor(@, st.T[i]), Prc(x)),
                                   !.enc[i] = x, !.out[i] = st.T[i]])
KkZeroEncode ==
    \E i \in 0 .. st.num - 1 :
        /\ st.enc[i] = -1
        /\ Step("kkrt", [st EXCEPT !.U[i] = Xor(@, st.T[i]), !.enc[i] = 2])

(* SendCorrection and ShiftCorrection: the next count rows, all of them     *)
(* encoded.                                                                 *)
KkSendCorrection ==
    \E count \in 1 .. st.num - st.ridx :
        /\ \A i \in st.ridx .. st.ridx + count - 1 : st.enc[i] # -1
        /\ Step("kkrt", [st EXCEPT !.link = Append(@, [j \in 1 .. count |-> st.U[st.ridx + j - 1]]),
                                   !.ridx = @ + count])

(* CalcQ at the sender's own position, from the first row instead.          *)
KkCalcQFromStart(o, u) ==
    [i \in DOMAIN o.q |-> IF i < Len(u) THEN Xor(o.q[i], u[i + 1] \cap o.S) ELSE o.q[i]]
KkCalcQ(o, u) ==
    [i \in DOMAIN o.q |->
       IF i >= o.sidx /\ i < o.sidx + Len(u) THEN Xor(o.q[i], u[i - o.sidx + 1] \cap o.S) ELSE o.q[i]]

(* RecvCorrection and SetCorrection, for the count the caller expects.      *)
KkRecvCorrection ==
    \E count \in 1 .. KkMax :
        /\ st.link # <<>> /\ ~st.throws
        /\ LET u == Head(st.link)
           IN  Step("kkrt",
                 IF Len(u) # count THEN [st EXCEPT !.throws = TRUE]
                 ELSE [st EXCEPT !.link = Tail(@), !.q = KkCalcQ(st, u), !.sidx = @ + count])

KkNext == part = "kkrt" /\ (KkEncode \/ KkZeroEncode \/ KkSendCorrection \/ KkRecvCorrection)

-----------------------------------------------------------------------------
(* On every corrected instance the sender's PRF at the receiver's input is  *)
(* the receiver's output, in whatever order the inputs were encoded and in  *)
(* whatever pieces the corrections came; all rows were filled.              *)
KkrtAgrees ==
    part = "kkrt" =>
        /\ \A i \in 0 .. st.sidx - 1 :
             \A x \in 0 .. 1 : st.enc[i] = x => KkEval(st, i, x) = st.out[i]
        /\ st.sidx <= st.ridx
        /\ \A i \in 0 .. st.num - 1 : st.T[i] = KkRow(0, i)

-----------------------------------------------------------------------------
(* The bit-matrix transposes of utils/matrix_utils, in full size.  A matrix *)
(* of 128 rows is the set of the places <<row, column>> of its ones; the    *)
(* 128 x 1024 one has eight blocks of columns, each transposed by itself.   *)

Rows128 == 0 .. 127

(* The step all three are made of: rows r1 and r2 of a pair swap the odd    *)
(* blocks of k columns of r1 with the even ones of r2.  (And one with the   *)
(* masks exchanged.)                                                        *)
SwapBlocksEven(m, pairs, k) ==
    {q \in m : \A p \in pairs : q[1] \notin {p[1], p[2]}}
    \cup UNION {{IF (q[2] \div k) % 2 = 0 THEN <<p[2], q[2] + k>> ELSE q : q \in {e \in m : e[1] = p[1]}}
                \cup {IF (q[2] \div k) % 2 = 1 THEN <<p[1], q[2] - k>> ELSE q : q \in {e \in m : e[1] = p[2]}} : p \in pairs}
SwapBlocks(m, pairs, k) ==
    {q \in m : \A p \in pairs : q[1] \notin {p[1], p[2]}}
    \cup UNION {{IF (q[2] \div k) % 2 = 1 THEN <<p[2], q[2] - k>> ELSE q : q \in {e \in m : e[1] = p[1]}}
                \cup {IF (q[2] \div k) % 2 = 0 THEN <<p[1], q[2] + k>> ELSE q : q \in {e \in m : e[1] = p[2]}} : p \in pairs}

(* EklundhTranspose128, one level: 64 is the first width.                   *)
EklundhPairs(width) ==
    {<<k + 2 * width * j, k + width + 2 * width * j>> : k \in 0 .. width - 1, j \in 0 .. (64 \div width) - 1}
EklundhLevel(m, width) == SwapBlocks(m, EklundhPairs(width), width)

-----------------------------------------------------------------------------
(* SseTranspose128 and 128x1024: 16 x 16 squares of column block i.  A      *)
(* loaded square is a set of <<half, byte, bit>>; the top bits of its bytes *)
(* are stored in reverse as the bits of a block are shifted up.             *)
LoadSubSquare(m, x, y, i) ==
    {<<((q[2] % 128) \div 8) - 2 * y, q[1] - 16 * x, q[2] % 8>> :
        q \in {e \in m : e[1] \div 16 = x /\ e[2] \div 16 = 8 * i + y}}
Movemask(b, h, shift) == {s[2] : s \in {e \in b : e[1] = h /\ e[3] = 7 - shift}}
TransposeSubSquare(m, b, x, y, i) ==
    {q \in m : ~(q[1] \div 16 = x /\ q[2] \div 16 = 8 * i + y)}
    \cup UNION {{<<16 * x + 8 * h + 7 - j, 16 * (8 * i + y) + l>> : l \in Movemask(b, h, j)} : j \in 0 .. 7, h \in {0, 1}}

(* A round: the diagonal square, or two squares that change places.  (And   *)
(* a round that loads the second square after the first was stored.)        *)
SseRoundLate(m, j, k, i) ==
    LET a == LoadSubSquare(m, k, j, i)
        n == TransposeSubSquare(m, a, j, k, i)
    IN  IF j = k THEN n ELSE TransposeSubSquare(n, LoadSubSquare(n, j, k, i), k, j, i)
SseRound(m, j, k, i) ==
    LET a == LoadSubSquare(m, k, j, i)
        b == LoadSubSquare(m, j, k, i)
        n == TransposeSubSquare(m, a, j, k, i)
    IN  IF j = k THEN n ELSE TransposeSubSquare(n, b, k, j, i)

-----------------------------------------------------------------------------
(* AvxTranspose128: vectors of two rows.  Blocks of 2^s rows are exchanged  *)
(* in matrices of 2^(s + 1), the rows j and j + 1 of every 2^r.             *)
AvxPairs(s, r, from, to) ==
    UNION {{<<i + j + l, i + j + l + 2^s>> : l \in {0, 1}} :
              i \in {n \in from .. to : (n - from) % 2^(s + 1) = 0}, j \in {n \in 0 .. 2^s - 1 : n % 2^r = 0}}
TwoByTwo == {<<i, i + 1>> : i \in {n \in Rows128 : n % 2 = 0}}
AvxSquares(m) ==            \* avx_transpose<3>: 8 x 8 squares
    SwapBlocks(SwapBlocks(SwapBlocks(m, TwoByTwo, 1), AvxPairs(1, 1, 0, 127), 2), AvxPairs(2, 1, 0, 127), 4)
AvxStripe(m, i, s) ==       \* one level of avx_transpose_block<3, 7, 3, 0>(inOut + i)
    SwapBlocks(m, {<<p[1] + 2 * i, p[2] + 2 * i>> : p \in AvxPairs(s, 3, 0, 127)}, 2^s)

-----------------------------------------------------------------------------
(* A client transposes one matrix with one of them; todo is what is left of *)
(* its loops.                                                               *)
SsePlan(cols) == [n \in 1 .. 36 * cols |->
    LET d == (n - 1) % 36
        j == CHOOSE v \in 0 .. 7 : (v * (v + 1)) \div 2 <= d /\ d < ((v + 1) * (v + 2)) \div 2
        k == d - (j * (j + 1)) \div 2
    IN  <<"sse", j, IF k = 0 THEN j ELSE k - 1, (n - 1) \div 36>>]
Plans ==
    [eklundh |-> [l \in 1 .. 7 |-> <<"level", 2^(7 - l), 0, 0>>],
     sse |-> SsePlan(1), sse8 |-> SsePlan(8),
     avx |-> <<<<"squares", 0, 0, 0>>>> \o [n \in 1 .. 16 |-> <<"stripe", (n - 1) \div 4, 3 + ((n - 1) % 4), 0>>]]
Corners == {0, 1, 2, 7, 8, 18, 32, 79, 127}
TrInit ==
    \E a \in DOMAIN Plans : \E m \in {{<<r, c>>} : r \in Corners, c \in {16, 69} \cup Corners}
                             \cup {{<<r, (r * r + 5) % 128>> : r \in {n \in Rows128 : n % 5 = 2}}} :
        LET in == IF a = "sse8" THEN {<<q[1], q[2] + 128 * (1 + (q[2] % 7))>> : q \in m} ELSE m
        IN  /\ a = "sse8" => Cardinality(m) > 1 \/ \E q \in m : q[1] \in {18, 127}
            /\ Start("transpose", [algo |-> a, in |-> in, m |-> in, todo |-> Plans[a]])

TrDo(m) == Step("transpose", [st EXCEPT !.m = m, !.todo = Tail(@)])
TrLevel(s) == s[1] = "level" /\ TrDo(EklundhLevel(st.m, s[2]))
TrSse(s) == s[1] = "sse" /\ TrDo(SseRound(st.m, s[2], s[3], s[4]))
TrSquares(s) == s[1] = "squares" /\ TrDo(AvxSquares(st.m))
TrStripe(s) == s[1] = "stripe" /\ TrDo(AvxStripe(st.m, s[2], s[3]))
TrNext ==
    /\ part = "transpose" /\ st.todo # <<>>
    /\ LET s == Head(st.todo) IN TrLevel(s) \/ TrSse(s) \/ TrSquares(s) \/ TrStripe(s)

(* Every algorithm ends with the transpose of each 128 x 128 block in its   *)
(* place; being linear, it is right on all matrices when it is on those of  *)
(* one bit (EklundhTranspose128, AvxTranspose128).                          *)
TransposeRight ==
    part = "transpose" /\ st.todo = <<>> /\ st.algo \in {"eklundh", "avx"} => st.m = {<<q[2], q[1]>> : q \in st.in}

(* The same for the one that moves 16 x 16 squares, on one block and on     *)
(* eight (SseTranspose128, SseTranspose128x1024).                           *)
SquaresRight ==
    part = "transpose" /\ st.todo = <<>> /\ st.algo \in {"sse", "sse8"} =>
        st.m = {<<q[2] % 128, q[1] + 128 * (q[2] \div 128)>> : q \in st.in}
=============================================================================
