-------------------------------- MODULE Fss --------------------------------
(* Function secret sharing and puncturable PRFs (dpf/): a point function    *)
(* (DPF), a comparison (DCF), and a PRF whose key can be punctured (PPRF).  *)
(* All walk down a binary tree of seeds; correction words make the two      *)
(* parties' seeds equal off the path of alpha.                              *)
EXTENDS Scenario, Sequences, SequencesExt

CONSTANTS FssBits,     \* bits of a seed and of GE2n's store (128 in the code)
          FssM         \* bits of an input

(* The PRG (external): output number k of a seed; a seed is a word.         *)
FssPrg(seed, k) ==
    LET v == Val(seed) + 3 * k + 1
    IN  WordOf(FssBits, ((5 * v * v * v + 7 * v * k + 2 * v + 11 * k) % (2^FssBits + 1)) % 2^FssBits)

(* GE2n: the store may hold more than the N bits of the value.              *)
GeVal(n, s) == s % 2^n
GeAdd(s, t) == (s + t) % 2^FssBits
GetReverse(n, s) == (2^n - GeVal(n, s)) % 2^FssBits
GeNeg(n, b, s) == IF b THEN GetReverse(n, s) ELSE s
GeBit(x, i) == (x \div 2^i) % 2
GePrg(seed, k) == Val(FssPrg(seed, k))

(* SplitDpfSeed and SplitDcfSeed: side 0 is the left child.                 *)
ChildSeed(seed, side) == FssPrg(seed, side)
ChildT(kind, seed, side) == (Val(FssPrg(seed, IF kind = "dpf" THEN 2 ELSE 4)) \div 2^(side + 1)) % 2
ChildV(seed, side) == GePrg(FssPrg(seed, 2 + side), 0)

(* The bit of an input that decides at level i.                             *)
LevelBit(kind, x, i) == GeBit(x, IF kind = "dcf" THEN FssM - i - 1 ELSE i)

(* A party's node goes to one of its children under a correction word.      *)
CorrectedSeed(t, cw, s) == IF t = 1 THEN Xor(s, cw) ELSE s
Child(kind, node, cw, side) ==
    [seed |-> CorrectedSeed(node.t, cw.seed, ChildSeed(node.seed, side)),
     t |-> (ChildT(kind, node.seed, side) + node.t * cw.t[side]) % 2]

(* The correction word of a level, for the side that alpha does not take.   *)
ChildVDiff(n, nodes, side) == GeAdd(ChildV(nodes[1].seed, side), GetReverse(n, ChildV(nodes[0].seed, side)))
CwV(n, nodes, bit, v, beta) ==
    GeAdd(GeNeg(n, nodes[1].t = 1, GeAdd(ChildVDiff(n, nodes, 1 - bit), GetReverse(n, v))),
          IF bit = 1 THEN GeNeg(n, nodes[1].t = 1, beta) ELSE 0)
LevelCw(kind, n, nodes, bit, v, cwv) ==
    [seed |-> Xor(ChildSeed(nodes[0].seed, 1 - bit), ChildSeed(nodes[1].seed, 1 - bit)),
     t |-> [side \in 0 .. 1 |->
              (ChildT(kind, nodes[0].seed, side) + ChildT(kind, nodes[1].seed, side) + bit + 1 - side) % 2],
     v |-> cwv,
     keep |-> GeAdd(v, GeAdd(GetReverse(n, ChildVDiff(n, nodes, bit)), GeNeg(n, nodes[1].t = 1, cwv)))]

(* DpfKeyGen and DcfKeyGen: level by level, then the last word.             *)
NextLevel(kind, g, bit, cw) ==
    [nodes |-> [p \in 0 .. 1 |-> Child(kind, g.nodes[p], cw, bit)], v |-> cw.keep, cws |-> Append(g.cws, cw)]
KeyGenLevel(kind, n, g, bit, beta) ==
    NextLevel(kind, g, bit, LevelCw(kind, n, g.nodes, bit, g.v, CwV(n, g.nodes, bit, g.v, beta)))
KeyGenLevels(kind, n, alpha, beta, mk) ==
    FoldLeft(LAMBDA g, i : KeyGenLevel(kind, n, g, LevelBit(kind, alpha, i), beta),
             [nodes |-> [p \in 0 .. 1 |-> [seed |-> mk[p + 1], t |-> p]], v |-> 0, cws |-> <<>>],
             [i \in 1 .. FssM |-> i - 1])
LastCw(kind, n, beta, g) ==
    LET diff == GeAdd(GetReverse(n, GePrg(g.nodes[0].seed, 0)), GePrg(g.nodes[1].seed, 0))
    IN  GeVal(n, GeNeg(n, g.nodes[1].t = 1, GeAdd(diff, IF kind = "dpf" THEN beta ELSE GetReverse(n, g.v))))
KeyFrom(kind, n, beta, g) == [cws |-> g.cws, last |-> LastCw(kind, n, beta, g)]
FssKeyOf(kind, n, alpha, beta, mk) == KeyFrom(kind, n, beta, KeyGenLevels(kind, n, alpha, beta, mk))

(* DpfEval and DcfEval by party p.  DcfEval adds up the values on its way   *)
(* (and one that takes the value of the child it does not go to).           *)
EvalLevelLeft(kind, n, p, e, cw, bit) ==
    LET v == GeAdd(ChildV(e.node.seed, 0), e.node.t * cw.v)
    IN  [node |-> Child(kind, e.node, cw, bit), out |-> GeAdd(e.out, GeNeg(n, p = 1, v))]
EvalLevel(kind, n, p, e, cw, bit) ==
    LET v == GeAdd(ChildV(e.node.seed, bit), e.node.t * cw.v)
    IN  [node |-> Child(kind, e.node, cw, bit), out |-> GeAdd(e.out, GeNeg(n, p = 1, v))]
FssEvalAt(kind, n, p, seed, key, x) ==
    LET e == FoldLeft(LAMBDA y, i : EvalLevel(kind, n, p, y, key.cws[i + 1], LevelBit(kind, x, i)),
                      [node |-> [seed |-> seed, t |-> p], out |-> 0], [i \in 1 .. FssM |-> i - 1])
        last == GeNeg(n, p = 1, GeAdd(GePrg(e.node.seed, 0), e.node.t * key.last))
    IN  IF kind = "dpf" THEN last ELSE GeAdd(e.out, last)

(* DpfEvalAll, Traverse: the right child of a node at level l is 2^l places *)
(* further.  N of 64 and 128 never let the tree end early.                  *)
Traverse(p, n, seed, key) ==
    LET down(nodes, l) == [x \in 0 .. 2^(l + 1) - 1 |->
                             Child("dpf", nodes[x % 2^l], key.cws[l + 1], x \div 2^l)]
        leaves == FoldLeft(down, [x \in {0} |-> [seed |-> seed, t |-> p]], [l \in 1 .. FssM |-> l - 1])
    IN  [x \in DOMAIN leaves |->
           GeNeg(n, p = 1, GeAdd(GePrg(leaves[x].seed, 0), leaves[x].t * key.last))]

-----------------------------------------------------------------------------
(* PprfEval, PprfPunc and PprfPuncEval: GgmPrg is the child's seed.         *)
Descend(seed, x, levels) == FoldLeft(LAMBDA s, i : ChildSeed(s, GeBit(x, i)), seed, levels)
From(i) == [k \in 1 .. FssM - i |-> i + k - 1]
PprfEval(seed, x) == Descend(seed, x, From(0))

(* The seeds of the siblings of the path.  A map that already has a seed    *)
(* for a level keeps it: insert does not overwrite.                         *)
PprfPunc(seed, point, old) ==
    [point |-> point,
     seeds |-> [i \in 0 .. FssM - 1 |->
                  IF i \in DOMAIN old.seeds THEN old.seeds[i]
                  ELSE ChildSeed(Descend(seed, point, [k \in 1 .. i |-> k - 1]), 1 - GeBit(point, i))]]
(* From the first level where x leaves the path (and from the last one).    *)
PprfPuncEvalLate(key, x) ==
    LET i == CHOOSE j \in 0 .. FssM - 1 :
               GeBit(x, j) # GeBit(key.point, j) /\ \A k \in j + 1 .. FssM - 1 : GeBit(x, k) = GeBit(key.point, k)
    IN  Descend(key.seeds[i], x, From(i + 1))
PprfPuncEval(key, x) ==
    LET i == CHOOSE j \in 0 .. FssM - 1 :
               GeBit(x, j) # GeBit(key.point, j) /\ \A k \in 0 .. j - 1 : GeBit(x, k) = GeBit(key.point, k)
    IN  Descend(key.seeds[i], x, From(i + 1))

-----------------------------------------------------------------------------
(* The dealer makes keys from two master seeds and each party evaluates its *)
(* own at every input.                                                      *)
Inputs == 0 .. 2^FssM - 1
FssInit ==
    \/ \E kind \in {"dpf", "dpf_all", "dcf"}, n \in {2, FssBits}, alpha \in Inputs, beta \in {1, 2, 3}, salt \in 1 .. 3 :
         Start("fss", [kind |-> kind, n |-> n, alpha |-> alpha, beta |-> beta,
                       mk |-> <<WordOf(FssBits, 3 * salt), WordOf(FssBits, 5 * salt + 4)>>,
                       key |-> <<>>, out |-> [p \in 0 .. 1 |-> <<>>], uses |-> 0])
    \/ \E alpha \in Inputs, salt \in 0 .. 3 :
         Start("fss", [kind |-> "pprf", n |-> FssBits, alpha |-> alpha, beta |-> 0, mk |-> <<WordOf(FssBits, 3 * salt + 1)>>,
                       key |-> [point |-> 0, seeds |-> <<>>], out |-> [p \in 0 .. 1 |-> <<>>], uses |-> 0])

Tree(kind) == IF kind = "dcf" THEN "dcf" ELSE "dpf"
FssKeyGen ==
    /\ st.kind # "pprf" /\ st.key = <<>>
    /\ Step("fss", [st EXCEPT !.key = FssKeyOf(Tree(st.kind), st.n, st.alpha, st.beta, st.mk)])
FssEval(p) ==
    /\ st.kind # "pprf" /\ st.key # <<>> /\ st.out[p] = <<>>
    /\ Step("fss", [st EXCEPT !.out[p] =
          IF st.kind = "dpf_all" THEN Traverse(p, st.n, st.mk[p + 1], st.key)
          ELSE [x \in Inputs |-> FssEvalAt(st.kind, st.n, p, st.mk[p + 1], st.key, x)]])

(* The key object may be one that was punctured before, elsewhere.          *)
FssPuncture ==
    /\ st.kind = "pprf" /\ st.uses < 2
    /\ \E point \in Inputs :
         Step("fss", [st EXCEPT !.key = PprfPunc(st.mk[1], point, st.key), !.alpha = point, !.uses = @ + 1])

FssNext == part = "fss" /\ (FssKeyGen \/ FssPuncture \/ \E p \in 0 .. 1 : FssEval(p))

-----------------------------------------------------------------------------
(* The two outputs add up, modulo 2^N, to beta at alpha (DPF, by single and *)
(* by full evaluation) or below alpha (DCF), and to 0 everywhere else.      *)
FssSharesAddUp ==
    part = "fss" /\ st.kind # "pprf" /\ (\A p \in 0 .. 1 : st.out[p] # <<>>) =>
        \A x \in Inputs :
            GeVal(st.n, st.out[0][x] + st.out[1][x]) =
              IF (st.kind = "dcf" /\ x < st.alpha) \/ (st.kind # "dcf" /\ x = st.alpha) THEN GeVal(st.n, st.beta) ELSE 0

(* A key punctured for the first time evaluates to the PRF at every other   *)
(* point.  (Punctured again it keeps the seeds of the first point, and does *)
(* not.)                                                                    *)
PprfPunctured ==
    part = "fss" /\ st.kind = "pprf" /\ st.uses = 1 =>
        \A x \in Inputs \ {st.alpha} : PprfPuncEval(st.key, x) = PprfEval(st.mk[1], x)
=============================================================================
