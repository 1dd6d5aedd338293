----------------------------- MODULE Softspoken -----------------------------
(* Softspoken OT extension (ot/softspoken_ote.cc): the OteK base OTs are    *)
(* grouped k by k into punctured PRFs of 2^k leaves, and a batch of OTs is  *)
(* a small-field VOLE on fresh hashes of the leaves.  A sender and a        *)
(* receiver object keep their leaves and a counter over many calls; a call  *)
(* handles step batches per message, then the rest one by one.              *)
EXTENDS OtExtension

CONSTANTS SsMaxStep, SsSizes     \* bounds: step_ and the sizes of the calls

PprfNum(k) == (OteK + k - 1) \div k
KLimit(k, i) == Min({k, OteK - i * k})

(* The leaves of PRF i (external: the SGRR extension), and the hash of a    *)
(* leaf refreshed by the counter.                                           *)
SsLeaf(i, x) == WordOf(OteK, (7 * i + 5 * x * x + 3) % 2^OteK)
FreshLeaf(leaf, ctr) == CrHash(Xor(leaf, WordOf(OteK, ctr % 2^OteK)))

(* XorReduce: entry 0 of every 2^k becomes the sum of all of them, entry    *)
(* j + 1 the sum of those whose index has bit j.                            *)
XorReduceDepth(buf, depth) ==
    LET stride == 2^(depth - 1)
    IN  [p \in DOMAIN buf |->
           LET j == p % (2 * stride)
           IN  IF j < depth THEN Xor(buf[p], buf[p + stride])
               ELSE IF j = depth THEN buf[p - depth + stride] ELSE buf[p]]
XorReduce(k, buf) == FoldLeft(XorReduceDepth, buf, [d \in 1 .. k |-> d])

-----------------------------------------------------------------------------
(* The constructors and OneTimeSetup.  Of PRF i the sender has all leaves   *)
(* but the one its base choices name; leaf 0 takes that one's place in the  *)
(* compressed list.  In compact mode the first base OT is fixed.            *)
PuncturedIdx(delta, k, i) == Val(Shr(delta, i * k) \cap 0 .. KLimit(k, i) - 1)
SsDelta(compact, choices) == IF compact THEN choices \cup {0} ELSE choices

CompressLeaves(delta, k, i) ==
    LET p == PuncturedIdx(delta, k, i)
    IN  [j \in 1 .. 2^KLimit(k, i) - 1 |-> IF j = p THEN SsLeaf(i, 0) ELSE SsLeaf(i, j)]

(* The buffer of a call: zero, as long as all PRFs of 2^k leaves.           *)
ZeroBuff(k) == [p \in 0 .. PprfNum(k) * 2^k - 1 |-> {}]

(* The sender writes its hashes to their places before the sums; what lies  *)
(* beyond the last, shorter PRF keeps what the batch before left there.     *)
SenderBuff(o, buf) ==
    [p \in DOMAIN buf |->
       LET i == p \div 2^o.k
           x == p % 2^o.k
           idx == PuncturedIdx(o.delta, o.k, i)
           hash(j) == FreshLeaf(CompressLeaves(o.delta, o.k, i)[j], o.sctr)
       IN  IF x >= 2^KLimit(o.k, i) THEN buf[p]
           ELSE IF x = idx THEN {}
           ELSE IF x = 0 THEN hash(idx) ELSE hash(x)]
ReceiverBuff(o, buf) ==
    [p \in DOMAIN buf |->
       LET i == p \div 2^o.k
           x == p % 2^o.k
       IN  IF x >= 2^KLimit(o.k, i) THEN buf[p] ELSE FreshLeaf(SsLeaf(i, x), o.rctr)]

(* GenSfVole of the receiver: W and the masked choices u.                   *)
RecvSfVole(o, choice) ==
    LET buf == XorReduce(o.k, ReceiverBuff(o, o.rbuf))
    IN  [buf |-> buf,
         u |-> [i \in 0 .. PprfNum(o.k) - 1 |-> Xor(choice, buf[i * 2^o.k])],
         W |-> [r \in Rows |-> IF o.compact /\ r = 0 THEN choice
                               ELSE buf[(r \div o.k) * 2^o.k + 1 + (r % o.k)]]]

(* The sender's side without the correction by u.                           *)
SendSfVoleUnmasked(o, u) ==
    LET buf == XorReduce(o.k, SenderBuff(o, o.sbuf))
    IN  [buf |-> buf,
         V |-> [r \in Rows |-> IF o.compact /\ r = 0 THEN {}
                               ELSE buf[(r \div o.k) * 2^o.k + 1 + (r % o.k)]]]

(* GenSfVole of the sender, with p_idx_mask_ as the test r \in delta.       *)
SendSfVole(o, u) ==
    LET buf == XorReduce(o.k, SenderBuff(o, o.sbuf))
    IN  [buf |-> buf,
         V |-> [r \in Rows |->
                  LET i == r \div o.k
                      sum == buf[i * 2^o.k + 1 + (r % o.k)]
                  IN  IF o.compact /\ r = 0 THEN {}
                      ELSE IF r \in o.delta THEN Xor(sum, Xor(u[i], buf[i * 2^o.k])) ELSE sum]]

-----------------------------------------------------------------------------
(* A batch more than the statistical parameter needs.                       *)
ExpandNumTooFar(num) == BatchNum(num + 2 * OteK) * OteK

(* Send and Recv.  The sizes of a call of num OTs: OteS more than asked,    *)
(* rounded up, so many full super batches, so many batches after them.      *)
ExpandNum(num) == BatchNum(num + OteS) * OteK
SuperNum(num, step) == num \div (step * OteK)
RestNum(num, step) == (ExpandNum(num) - SuperNum(num, step) * step * OteK + OteK - 1) \div OteK
AllBatches(num, step) == SuperNum(num, step) * step + RestNum(num, step)

(* The number of batches in the next message after b batches.               *)
MessageBatches(o, b) == IF b < SuperNum(o.num, o.step) * o.step THEN o.step ELSE 1

SsInit ==
    \E k \in 1 .. 3, step \in 1 .. SsMaxStep, mal, compact \in BOOLEAN, first, second \in SsSizes,
       base \in {{}, {0, 2}, {1, 2, 3}} :
        Start("softspoken",
          [k |-> k, step |-> step, mal |-> mal, compact |-> compact, cot |-> compact \/ first = 3,
           calls |-> <<first, second>>, num |-> 0, delta |-> SsDelta(compact, base),
           sctr |-> 0, rctr |-> 0, sbuf |-> ZeroBuff(k), rbuf |-> ZeroBuff(k),
           choices |-> <<>>, link |-> <<>>, vs |-> <<>>, ws |-> <<>>,
           coef |-> <<>>, check |-> <<>>, pc |-> "idle", out0 |-> <<>>, out1 |-> <<>>])

(* The parties call Send and Recv for the next num OTs.                     *)
SsCall ==
    /\ st.pc = "idle" /\ st.calls # <<>>
    /\ LET num == Head(st.calls)
       IN  Step("softspoken",
             [st EXCEPT !.calls = Tail(@), !.num = num, !.pc = "run",
                        !.choices = ExtendChoice([i \in 1 .. num |-> IF i % 3 = 1 THEN 1 ELSE 0], <<1, 1>>),
                        !.sbuf = ZeroBuff(st.k), !.rbuf = ZeroBuff(st.k),
                        !.vs = <<>>, !.ws = <<>>, !.out0 = <<>>, !.out1 = <<>>,
                        !.coef = <<>>, !.check = <<>>])

(* The receiver makes the batches of a message and sends it.                *)
SsRecvOne(o) ==
    LET vole == RecvSfVole(o, ChoiceWord(o.choices, Len(o.ws)))
    IN  [o EXCEPT !.rctr = @ + 1, !.rbuf = vole.buf, !.ws = Append(@, vole.W),
                  !.link = [@ EXCEPT ![Len(@)] = Append(@, vole.u)]]
SsRecv ==
    /\ st.pc = "run" /\ Len(st.ws) < AllBatches(st.num, st.step)
    /\ Step("softspoken",
         FoldLeft(LAMBDA o, s : SsRecvOne(o), [st EXCEPT !.link = Append(@, <<>>)],
                  [s \in 1 .. MessageBatches(st, Len(st.ws)) |-> s]))

(* The sender takes a message, which must have the size it expects.         *)
SsSendOne(o, u) ==
    LET vole == SendSfVole(o, u)
    IN  [o EXCEPT !.sctr = @ + 1, !.sbuf = vole.buf, !.vs = Append(@, vole.V)]
SsSend ==
    /\ st.pc = "run" /\ st.link # <<>>
    /\ Step("softspoken",
         IF Len(Head(st.link)) # MessageBatches(st, Len(st.vs)) THEN [st EXCEPT !.pc = "throws"]
         ELSE FoldLeft(SsSendOne, [st EXCEPT !.link = Tail(@)], Head(st.link)))

(* All batches are through: the transposed rows become the output.          *)
SsOutput(o) ==
    [o EXCEPT !.pc = "idle",
              !.out0 = SendBlocks([i \in 0 .. Len(o.vs) - 1 |-> o.vs[i + 1]], o.delta, o.num, o.cot),
              !.out1 = RecvBlocks([i \in 0 .. Len(o.ws) - 1 |-> o.ws[i + 1]], o.num, o.cot)]
SsThrough(o) == o.pc = "run" /\ Len(o.vs) = AllBatches(o.num, o.step)

SsReturn == SsThrough(st) /\ ~st.mal /\ Step("softspoken", SsOutput(st))

(* With mal_ the sender sends a seed, here its coefficients, the receiver   *)
(* answers with the sums of its choices and columns.                        *)
SsSeed ==
    /\ SsThrough(st) /\ st.mal /\ st.coef = <<>>
    /\ Step("softspoken", [st EXCEPT !.coef = [i \in 1 .. 2 * Len(st.vs) |-> IF i % 3 = 0 THEN {0} ELSE {1}]])

Column(batches, r) == [i \in DOMAIN batches |-> batches[i][r]]
SsAnswer ==
    /\ st.coef # <<>> /\ st.check = <<>>
    /\ Step("softspoken",
         [st EXCEPT !.check = [x |-> CheckSum(st.coef, [i \in DOMAIN st.ws |-> ChoiceWord(st.choices, i - 1)]),
                               t |-> [r \in Rows |-> CheckSum(st.coef, Column(st.ws, r))]]])
SsCheck ==
    /\ SsThrough(st) /\ st.check # <<>>
    /\ Step("softspoken",
         IF \A r \in Rows : CheckSum(st.coef, Column(st.vs, r))
                              = Xor(st.check.t[r], IF r \in st.delta THEN st.check.x ELSE {})
         THEN SsOutput(st) ELSE [st EXCEPT !.pc = "throws"])

SsNext == part = "softspoken" /\ (SsCall \/ SsRecv \/ SsSend \/ SsReturn \/ SsSeed \/ SsAnswer \/ SsCheck)

-----------------------------------------------------------------------------
(* Every call of the two objects gives OTs: the receiver's block is the     *)
(* sender's for its choice, for any number of OTs against the size of the   *)
(* super batches, when k does not divide the number of base OTs, and on a   *)
(* second call that goes on with the counters.  In compact mode the choice  *)
(* is the lowest bit of the receiver's block.                               *)
SsOutputsMatch ==
    part = "softspoken" /\ st.pc = "idle" =>
        /\ Len(st.out0) = Len(st.out1)
        /\ \A j \in DOMAIN st.out0 : st.out1[j] = st.out0[j][st.choices[j] + 1]
        /\ st.compact => \A j \in DOMAIN st.out1 : 0 \in st.out1[j] <=> st.choices[j] = 1

(* Sender and receiver never disagree on the size of a message or in the    *)
(* check, and the batches after the super batches fit in the buffers, which *)
(* have one more than a super batch.                                        *)
SsNeverThrows ==
    part = "softspoken" =>
        /\ st.pc # "throws"
        /\ RestNum(st.num, st.step) <= st.step + 1
        /\ AllBatches(st.num, st.step) * OteK = ExpandNum(st.num)
=============================================================================
