---------------------------- MODULE SinglePointOt ----------------------------
(* (n-1)-out-of-n OT from log n OTs: SGRR (ot/sgrr_ote.cc) and its version  *)
(* for a tree whose levels sum to delta, GYWZ (ot/gywz_ote.cc).  The sender *)
(* expands a seed to n leaves; the receiver learns all but leaf index.  In  *)
(* the fixed_index and ferret forms the choices of the base OTs are the     *)
(* index, so that no choices are sent.                                      *)
EXTENDS Fields

CONSTANTS SpBits,     \* width of a block (128 in the code)
          SpMaxN      \* bound on the number of leaves

(* The two PRFs of kPrfKey, CcrHash and Blake3 (external), and the messages *)
(* of base OT i.                                                            *)
SpMix(a, c, x) == WordOf(SpBits, (a * Val(x) * Val(x) + c + Val(x)) % 2^SpBits)
SpPrf(key, x) == SpMix(2, 3 + 4 * key, x)
CcrHash(x) == SpMix(4, 9, x)
Blake3(x) == WordOf(SpBits, (5 * Val(x) + 3) % 2^SpBits)
SpBase(i, msg, delta) == IF delta = {} THEN SpMix(0, 3 * i + 5 * msg + 1, {})
                         ELSE Xor(SpMix(0, 3 * i + 1, {}), IF msg = 1 THEN delta ELSE {})

Height(n) == Log2Ceil(n)
Bit(x, i) == (x \div 2^i) % 2

-----------------------------------------------------------------------------
(* SGRR.  A level: seed j has its left child at j and its right one at      *)
(* j + width.                                                               *)
SplitAllSeeds(seeds, width, n) ==
    [j \in 0 .. Min({2 * width, n}) - 1 |->
       Xor(SpPrf(j \div width, seeds[j % width]), seeds[j % width])]
SideSum(seeds, width, side, skip) ==
    XorAll([j \in 1 .. width |->
              IF j - 1 = skip THEN {} ELSE Xor(SpPrf(side, seeds[j - 1]), seeds[j - 1])])

(* The sender: the sums of both sides of every level, and the leaves.       *)
SgrrExpand(seed, n) ==
    FoldLeft(LAMBDA t, i : [msgs |-> Append(t.msgs, <<SideSum(t.seeds, 2^(i - 1), 0, -1),
                                                     SideSum(t.seeds, 2^(i - 1), 1, -1)>>),
                            seeds |-> SplitAllSeeds(t.seeds, 2^(i - 1), n)],
             [msgs |-> <<>>, seeds |-> [j \in {0} |-> seed]], [i \in 1 .. Height(n) |-> i])

(* The receiver: at level i the seed on the path (the low bits of index)    *)
(* stays unknown, its sibling is what the sum of the level lacks.           *)
SgrrPuncture(sums, n, index) ==
    FoldLeft(LAMBDA seeds, i :
               LET width == 2^i
                   parent == index % width
                   punctured_idx == index % (2 * width)
                   inserted_idx == parent + (1 - Bit(index, i)) * width
                   insert_val == IF i = 0 THEN sums[1]
                                 ELSE Xor(sums[i + 1], SideSum(seeds, width, 1 - Bit(index, i), parent))
                   splits == IF i = 0 THEN [j \in {0, 1} |-> {}] ELSE SplitAllSeeds(seeds, width, n)
               IN  [j \in DOMAIN splits |-> IF j = punctured_idx THEN {}
                                            ELSE IF j = inserted_idx THEN insert_val
                                            ELSE splits[j]],
             [j \in {0} |-> {}], [i \in 1 .. Height(n) |-> i - 1])

(* GenCheckMsg and VerifyCheckMsg; the hash of all hashes is their list.    *)
LeafHashes(n, out) == [i \in 1 .. n |-> Blake3(out[i - 1])]
GenCheckMsg(n, out) == [t |-> XorAll(LeafHashes(n, out)), s |-> LeafHashes(n, out)]

(* The hash of the punctured leaf is not restored.                          *)
VerifyCheckMsgOpen(n, index, out, proof) ==
    LeafHashes(n, out) = proof.s

VerifyCheckMsg(n, index, out, proof) ==
    [LeafHashes(n, out) EXCEPT ![index + 1] = Xor(@, Xor(proof.t, XorAll(LeafHashes(n, out))))] = proof.s

-----------------------------------------------------------------------------
(* GYWZ.  G(x) = CcrHash(x) || x ^ CcrHash(x), so that each level sums to   *)
(* delta; one masks the blocks.  The leaves past n are cut off.             *)
CggmLevel(seeds, width, one) ==
    [j \in 0 .. 2 * width - 1 |->
       LET h == CcrHash(seeds[j % width]) \cap one
       IN  IF j < width THEN h ELSE Xor(seeds[j - width], h)]
LeftSum(seeds, width) == XorAll([j \in 1 .. width |-> seeds[j - 1]])

CutTo(seeds, n) == [j \in 0 .. n - 1 |-> seeds[j]]
LevelsBelow(n) == [i \in 1 .. Height(n) - 1 |-> i]

CggmGrown(t, next, width) == [sums |-> Append(t.sums, LeftSum(next, width)), seeds |-> next]
CggmFullEval(delta, seed, n, one) ==
    [FoldLeft(LAMBDA t, i : CggmGrown(t, CggmLevel(t.seeds, 2^i, one), 2^i),
              [sums |-> <<seed \cap one>>,
               seeds |-> [j \in {0, 1} |-> IF j = 0 THEN seed \cap one ELSE Xor(seed, delta) \cap one]],
              LevelsBelow(n))
       EXCEPT !.seeds = CutTo(@, n)]

(* The two unknown nodes of a level are corrected by what the sum of its    *)
(* left half lacks (and only the left one of them).                         *)
CggmFixedLeft(next, p, width, sum) ==
    [next EXCEPT ![p] = Xor(@, Xor(sum, LeftSum(next, width)))]
CggmFixed(next, p, width, sum) ==
    [next EXCEPT ![p] = Xor(@, Xor(sum, LeftSum(next, width))),
                 ![p + width] = Xor(@, Xor(sum, LeftSum(next, width)))]
CggmPuncFullEval(index, sums, n, one) ==
    CutTo(FoldLeft(LAMBDA seeds, i :
                     CggmFixed(CggmLevel(seeds, 2^i, one), index % 2^i, 2^i, sums[i + 1]),
                   [j \in {0, 1} |-> sums[1] \cap one], LevelsBelow(n)),
          n)

-----------------------------------------------------------------------------
(* The calls.  base is the choices of the base OTs; changed is a fault: a   *)
(* bit of the left sum of the first level changes on the way.               *)

SpOne(o) == IF o.proto = "gywz_ferret" THEN 1 .. SpBits - 1 ELSE 0 .. SpBits - 1
SpFixed(o) == o.proto \in {"sgrr_fixed", "gywz_fixed", "gywz_ferret"}
SpSgrr(o) == o.proto \in {"sgrr", "sgrr_fixed"}

SpInit ==
    \E proto \in {"sgrr", "sgrr_fixed", "gywz", "gywz_fixed", "gywz_ferret"}, n \in 2 .. SpMaxN,
       delta \in {{0, 2}, {0, 1, 3}}, mal, changed \in BOOLEAN :
      \E base \in SUBSET (0 .. Height(n) - 1), index \in 0 .. 2^Height(n) - 1 :
        LET o == [proto |-> proto, n |-> n, index |-> index, base |-> base, mal |-> mal,
                  changed |-> changed, delta |-> IF proto \in {"sgrr", "sgrr_fixed"} THEN {} ELSE delta,
                  masked |-> <<>>, msgs |-> <<>>, proof |-> <<>>, sent |-> <<>>, got |-> <<>>,
                  recv |-> "start"]
        IN  /\ (SpFixed(o) => index = Val(base))
            /\ (proto \notin {"gywz_fixed", "gywz_ferret"} => index < n)
            /\ (mal => SpSgrr(o)) /\ (changed => mal)
            /\ delta = {0, 2} \/ ~SpSgrr(o)
            /\ Start("spot", o)

(* The receiver sends which of the two messages of each base OT is to mask  *)
(* the sum it wants: the complement of its choice (SGRR), the choice (GYWZ).*)
SpChoose ==
    /\ st.recv = "start" /\ ~SpFixed(st)
    /\ Step("spot", [st EXCEPT !.recv = "wait",
                               !.masked = [i \in 1 .. Height(st.n) |->
                                  LET b == IF i - 1 \in st.base THEN 1 ELSE 0
                                      c == Bit(st.index, i - 1)
                                  IN  (IF SpSgrr(st) THEN 1 - c + b ELSE c + b) % 2]])

(* What the sender sends of its tree: the sums, each masked by a message of *)
(* its base OT.                                                             *)
SpMask(o, i) == IF SpFixed(o) THEN (IF SpSgrr(o) THEN 1 ELSE 0) ELSE o.masked[i]
SpBaseOf(o, i, msg) == SpBase(i, msg, o.delta) \cap SpOne(o)
SgrrMasked(o, sums) ==
    [i \in DOMAIN sums |-> [side \in 1 .. 2 |->
       Xor(sums[i][side], SpBaseOf(o, i, (SpMask(o, i) + side - 1) % 2))]]
GywzMasked(o, sums) == [i \in DOMAIN sums |-> Xor(sums[i], SpBaseOf(o, i, 1 - SpMask(o, i)))]
SpOnTheWay(o, msgs) == IF o.changed THEN [msgs EXCEPT ![1][1] = Xor(@, {1})] ELSE msgs
SgrrSent(o, tree) ==
    [o EXCEPT !.msgs = SpOnTheWay(o, SgrrMasked(o, tree.msgs)),
              !.proof = IF o.mal THEN GenCheckMsg(o.n, tree.seeds) ELSE <<>>,
              !.sent = [j \in DOMAIN tree.seeds |-> IF o.mal THEN CcrHash(tree.seeds[j]) ELSE tree.seeds[j]]]
GywzSent(o, tree) == [o EXCEPT !.msgs = GywzMasked(o, tree.sums), !.sent = tree.seeds]
SpSeed == WordOf(SpBits, 6)

SpSend ==
    /\ st.sent = <<>> /\ (SpFixed(st) \/ st.masked # <<>>)
    /\ Step("spot", IF SpSgrr(st) THEN SgrrSent(st, SgrrExpand(SpSeed, st.n))
                    ELSE GywzSent(st, CggmFullEval(st.delta, SpSeed, st.n, SpOne(st))))

(* The receiver's sums, and what it makes of the leaves.                    *)
SpSums(o) ==
    [i \in DOMAIN o.msgs |->
       Xor(IF SpSgrr(o) THEN o.msgs[i][2 - Bit(o.index, i - 1)] ELSE o.msgs[i],
           SpBaseOf(o, i, IF i - 1 \in o.base THEN 1 ELSE 0))]
SgrrGot(o, leaves) ==
    IF ~o.mal THEN [o EXCEPT !.recv = "done", !.got = leaves]
    ELSE IF VerifyCheckMsg(o.n, o.index, leaves, o.proof)
    THEN [o EXCEPT !.recv = "done",
                   !.got = [j \in DOMAIN leaves |-> IF j = o.index THEN {} ELSE CcrHash(leaves[j])]]
    ELSE [o EXCEPT !.recv = "throws"]
GywzGot(o, leaves) ==
    [o EXCEPT !.recv = "done",
              !.got = [j \in DOMAIN leaves |->
                         IF o.proto = "gywz_ferret" /\ j = o.index THEN leaves[j] \cup {0} ELSE leaves[j]]]

SpReceive ==
    /\ st.msgs # <<>> /\ st.recv \in {"start", "wait"} /\ (st.recv = "start" => SpFixed(st))
    /\ Step("spot", IF SpSgrr(st) THEN SgrrGot(st, SgrrPuncture(SpSums(st), st.n, st.index))
                    ELSE GywzGot(st, CggmPuncFullEval(st.index, SpSums(st), st.n, SpOne(st))))

SpNext == part = "spot" /\ (SpChoose \/ SpSend \/ SpReceive)

-----------------------------------------------------------------------------
(* The receiver ends with the sender's leaves except the punctured one,     *)
(* which SGRR leaves zero and GYWZ turns into the leaf plus delta, also if  *)
(* n is no power of two (in the forms where the base choices are the index  *)
(* it may then lie past the leaves).  With the check it never ends with     *)
(* leaves a changed message made wrong.                                     *)
SpLeavesRight ==
    part = "spot" /\ st.recv = "done" =>
        \A j \in 0 .. st.n - 1 :
            st.got[j] = IF j # st.index THEN st.sent[j]
                        ELSE IF SpSgrr(st) THEN {} ELSE Xor(st.sent[j], st.delta)

(* The check refuses exactly when the changed sum is one the receiver uses. *)
SpCheckExact ==
    part = "spot" =>
        /\ st.recv = "throws" => st.changed /\ Bit(st.index, 0) = 1
        /\ st.recv = "done" => ~(st.changed /\ Bit(st.index, 0) = 1)
=============================================================================
