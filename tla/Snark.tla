------------------------------- MODULE Snark -------------------------------
(* The Groth16 prover and verifier (snark/): a circuit is built gate by     *)
(* gate, flattened to a rank-1 system, given a witness, turned into         *)
(* polynomials, and proved.  A group element is its exponent: the pairing   *)
(* multiplies exponents.                                                    *)
EXTENDS Integers, Sequences, SequencesExt, FiniteSetsExt, Scenario

CONSTANT SnOrder       \* the order of the groups, a prime

SnMod(x) == x % SnOrder
SnInv(x) == CHOOSE y \in 1 .. SnOrder - 1 : SnMod(x * y) = 1
Throws == <<>>
UpTo(n) == [i \in 1 .. n |-> i]

-----------------------------------------------------------------------------
(* LinearCombination: the non-zero integer coefficients by variable.        *)
(* AddTerms adds k times the terms of m to l.                               *)
Coeff(l, v) == IF v \in DOMAIN l THEN l[v] ELSE 0
AddTerms(l, m, k) ==
    LET c(v) == Coeff(l, v) + k * Coeff(m, v)
    IN  [v \in {x \in DOMAIN l \cup DOMAIN m : c(x) # 0} |-> c(v)]
LcVar(v) == [x \in {v} |-> 1]
NoTerms == [x \in {} |-> 0]
LcEvaluate(l, w) == SnMod(MapThenSumSet(LAMBDA v : l[v] * w[v], DOMAIN l))

(* CircuitBuilder.  A variable that is a linear combination is expanded     *)
(* where it is used; only a product is a new private variable.              *)
NewBuilder == [next |-> 1, lc |-> [v \in {0} |-> LcVar(0)], computed |-> {0},
               publics |-> <<>>, privates |-> <<>>, cons |-> <<>>]
WithLc(cb, l) ==
    [cb EXCEPT !.next = @ + 1, !.lc = [v \in DOMAIN @ \cup {cb.next} |-> IF v = cb.next THEN l ELSE @[v]]]
AllocPublic(cb) == [WithLc(cb, LcVar(cb.next)) EXCEPT !.publics = Append(@, cb.next)]
AllocPrivate(cb) == [WithLc(cb, LcVar(cb.next)) EXCEPT !.privates = Append(@, cb.next)]
Computed(cb, l) == [WithLc(cb, l) EXCEPT !.computed = @ \cup {cb.next}]
CbAdd(cb, a, b) == Computed(cb, AddTerms(cb.lc[a], cb.lc[b], 1))
CbSub(cb, a, b) == Computed(cb, AddTerms(cb.lc[a], cb.lc[b], -1))
MulConst(cb, a, c) == Computed(cb, AddTerms(NoTerms, cb.lc[a], c))
AddConst(cb, a, c) == Computed(cb, AddTerms(cb.lc[a], LcVar(0), c))
Constrain(cb, a, b, c) == [cb EXCEPT !.cons = Append(@, [a |-> a, b |-> b, c |-> c])]
CbMul(cb, a, b) ==
    LET n == AllocPrivate(cb) IN Constrain(n, n.lc[a], n.lc[b], LcVar(cb.next))
AssertEqual(cb, a, b) == Constrain(cb, AddTerms(cb.lc[a], cb.lc[b], -1), LcVar(0), NoTerms)
AssertBoolean(cb, v) == Constrain(cb, cb.lc[v], AddTerms(LcVar(0), cb.lc[v], -1), NoTerms)
AssertMulEquals(cb, a, b, c) == Constrain(cb, cb.lc[a], cb.lc[b], cb.lc[c])

(* The variable a call on the builder returned, for calls that end with the *)
(* allocation of their result.                                              *)
Last1(cb) == cb.next - 1

(* Gadgets: each returns the builder; the result is its last variable.      *)
Boolean(cb) == AssertBoolean(AllocPrivate(cb), cb.next)
BoolAnd(cb, a, b) == CbMul(cb, a, b)
BoolOr(cb, a, b) ==
    LET m == CbMul(cb, a, b)  s == CbAdd(m, a, b) IN CbSub(s, Last1(s), Last1(m))
BoolNot(cb, a) == LET m == MulConst(cb, a, -1) IN AddConst(m, Last1(m), 1)
BoolXor(cb, a, b) ==
    LET m == CbMul(cb, a, b)  t == MulConst(m, Last1(m), 2)  s == CbAdd(t, a, b)
    IN  CbSub(s, Last1(s), Last1(t))
FromBits(cb, bits) ==
    FoldLeft(LAMBDA y, i :
               LET m == MulConst(y.cb, bits[i], 2^(i - 1))  s == CbAdd(m, y.v, Last1(m))
               IN  [cb |-> s, v |-> Last1(s)],
             [cb |-> cb, v |-> bits[1]], Tail(UpTo(Len(bits))))
ToBits(cb, v, n) ==
    LET bits == [i \in 1 .. n |-> cb.next + i - 1]
        packed == FromBits(FoldLeft(LAMBDA y, i : Boolean(y), cb, UpTo(n)), bits)
    IN  [cb |-> AssertEqual(packed.cb, packed.v, v), bits |-> bits]
LessThan(cb, a, b, n) ==
    LET o == AddConst(cb, a, 2^n)  d == CbSub(o, Last1(o), b)  t == ToBits(d, Last1(d), n + 1)
    IN  BoolNot(t.cb, t.bits[n + 1])
Select(cb, cond, a, b) ==
    LET d == CbSub(cb, a, b)  m == CbMul(d, cond, Last1(d)) IN CbAdd(m, Last1(m), b)
MiMCHash(cb, input, key, rounds) ==
    FoldLeft(LAMBDA y, r :
               LET c == IF r > 0 THEN AddConst(y, Last1(y), r) ELSE y
                   x2 == CbMul(c, Last1(c), Last1(c))
                   x4 == CbMul(x2, Last1(x2), Last1(x2))
                   x6 == CbMul(x4, Last1(x4), Last1(x2))
                   x7 == CbMul(x6, Last1(x6), Last1(c))
               IN  CbAdd(x7, Last1(x7), key),
             CbAdd(cb, input, key), [i \in 1 .. rounds |-> i - 1])

(* Build: the one wire, the publics, the privates (every variable of a      *)
(* constraint is one of them, for computed ones are expanded).              *)
Wires(cb) == <<0>> \o cb.publics \o cb.privates
Build(cb) ==
    LET wire(l) == [i \in {j \in 0 .. Len(Wires(cb)) - 1 : Wires(cb)[j + 1] \in DOMAIN l} |-> l[Wires(cb)[i + 1]]]
    IN  [n |-> Len(Wires(cb)), l |-> Len(cb.publics),
         cons |-> [j \in DOMAIN cb.cons |->
                     [a |-> wire(cb.cons[j].a), b |-> wire(cb.cons[j].b), c |-> wire(cb.cons[j].c)]]]

(* ComputeWitness: from the assigned values, products are propagated while  *)
(* something changes; a variable never reached is 0.                        *)
KnownLc(values, l) == DOMAIN l \subseteq DOMAIN values
Product1(vals, c) ==
    LET out == CHOOSE v \in DOMAIN c.c : TRUE
        p == SnMod(LcEvaluate(c.a, vals) * LcEvaluate(c.b, vals))
    IN  [v \in DOMAIN vals \cup {out} |-> IF v = out THEN p ELSE vals[v]]
PropagateOver(vals, c) ==
    IF KnownLc(vals, c.a) /\ KnownLc(vals, c.b) /\ (\E v \in DOMAIN c.c : c.c = LcVar(v)) THEN Product1(vals, c) ELSE vals
Propagate(vals, c) ==
    IF KnownLc(vals, c.a) /\ KnownLc(vals, c.b) /\ (\E v \in DOMAIN c.c : c.c = LcVar(v) /\ v \notin DOMAIN vals)
    THEN Product1(vals, c) ELSE vals
WitnessOf(cb, values) ==
    [i \in 0 .. Len(Wires(cb)) - 1 |-> IF Wires(cb)[i + 1] \in DOMAIN values THEN values[Wires(cb)[i + 1]] ELSE 0]
Assigned(assign) == [v \in DOMAIN assign \cup {0} |-> IF v = 0 THEN 1 ELSE SnMod(assign[v])]

IsSatisfied(r1cs, w) ==
    \A j \in DOMAIN r1cs.cons :
        SnMod(LcEvaluate(r1cs.cons[j].a, w) * LcEvaluate(r1cs.cons[j].b, w)) = LcEvaluate(r1cs.cons[j].c, w)

-----------------------------------------------------------------------------
(* poly_ops: coefficients from the lowest, without trailing zeros but one.  *)
Trim(p) ==
    LET n == Max({1} \cup {i \in DOMAIN p : p[i] # 0}) IN IF Len(p) <= 1 THEN p ELSE SubSeq(p, 1, n)
CoeffAt(p, i) == IF i \in DOMAIN p THEN p[i] ELSE 0
PolyAdd(p, q, k) == Trim([i \in 1 .. Max({Len(p), Len(q)}) |-> SnMod(CoeffAt(p, i) + k * CoeffAt(q, i))])
PolyMul(p, q) ==
    Trim([k \in 1 .. Len(p) + Len(q) - 1 |->
            SnMod(MapThenSumSet(LAMBDA i : p[i] * CoeffAt(q, k - i + 1), DOMAIN p))])
ScalarMul(p, s) == Trim([i \in DOMAIN p |-> SnMod(p[i] * s)])
PolyEvaluate(p, x) == FoldRight(LAMBDA c, r : SnMod(r * x + c), p, 0)
FromRoots(roots) == FoldLeft(LAMBDA p, r : PolyMul(p, <<SnMod(SnOrder - r), 1>>), <<1>>, roots)
DivMod(p, q) ==
    LET d == Len(q)
        step(y, i) ==
            LET c == SnMod(y.rem[i + d - 1] * SnInv(q[d]))
            IN  [quo |-> <<c>> \o y.quo,
                 rem |-> [k \in DOMAIN y.rem |-> IF k \in i .. i + d - 1 THEN SnMod(y.rem[k] - c * q[k - i + 1]) ELSE y.rem[k]]]
        y == FoldLeft(step, [quo |-> <<>>, rem |-> p], Reverse(UpTo(Len(p) - d + 1)))
    IN  IF Len(p) < d THEN [quo |-> <<0>>, rem |-> p]
        ELSE [quo |-> Trim(y.quo), rem |-> Trim(SubSeq(y.rem, 1, d - 1))]
LagrangeInterpolate(xs, ys) ==
    LET others(i) == SelectSeq(xs, LAMBDA x : x # xs[i])
        denom(i) == FoldLeft(LAMBDA d, x : SnMod(d * (xs[i] - x)), 1, others(i))
        term(i) == ScalarMul(FromRoots(others(i)), SnMod(ys[i] * SnInv(denom(i))))
    IN  FoldLeft(LAMBDA p, i : IF ys[i] = 0 THEN p ELSE PolyAdd(p, term(i), 1), [i \in DOMAIN xs |-> 0], UpTo(Len(xs)))

(* R1csToQap: for each wire three polynomials that take, at j, the wire's   *)
(* coefficients in constraint j.                                            *)
R1csToQap(r1cs) ==
    LET m == Len(r1cs.cons)
        poly(vals) == IF \A j \in 1 .. m : vals[j] = 0 THEN <<0>> ELSE LagrangeInterpolate(UpTo(m), vals)
    IN  [t |-> FromRoots(UpTo(m)),
         u |-> [i \in 0 .. r1cs.n - 1 |-> poly([j \in 1 .. m |-> SnMod(Coeff(r1cs.cons[j].a, i))])],
         v |-> [i \in 0 .. r1cs.n - 1 |-> poly([j \in 1 .. m |-> SnMod(Coeff(r1cs.cons[j].b, i))])],
         w |-> [i \in 0 .. r1cs.n - 1 |-> poly([j \in 1 .. m |-> SnMod(Coeff(r1cs.cons[j].c, i))])]]

-----------------------------------------------------------------------------
(* Setup with the random exponents x; gamma and delta are not 0.            *)
Setup(r1cs, qap, x) ==
    LET at(ps, i) == PolyEvaluate(ps[i], x.tau)
        power(i) == FoldLeft(LAMBDA y, j : SnMod(y * x.tau), 1, UpTo(i))
        mix(i) == x.beta * at(qap.u, i) + x.alpha * at(qap.v, i) + at(qap.w, i)
    IN  [pk |-> [alpha |-> x.alpha, beta |-> x.beta, delta |-> x.delta,
                 h |-> [i \in 1 .. Len(r1cs.cons) |-> SnMod(power(i - 1) * PolyEvaluate(qap.t, x.tau) * SnInv(x.delta))],
                 a |-> [i \in DOMAIN qap.u |-> at(qap.u, i)],
                 b |-> [i \in DOMAIN qap.v |-> at(qap.v, i)],
                 l |-> [i \in r1cs.l + 1 .. r1cs.n - 1 |-> SnMod(mix(i) * SnInv(x.delta))]],
         vk |-> [alpha |-> x.alpha, beta |-> x.beta, gamma |-> x.gamma, delta |-> x.delta,
                 alpha_beta |-> SnMod(x.alpha * x.beta),
                 ic |-> [i \in 1 .. r1cs.l + 1 |-> SnMod(mix(i - 1) * SnInv(x.gamma))]]]

(* Prove: throws unless t divides a * b - c.  (And one that checks nothing.) *)
Quotient(qap, w) ==
    LET sum(ps) == FoldLeft(LAMBDA p, i : PolyAdd(p, ScalarMul(ps[i], w[i]), 1), <<0>>, [i \in 1 .. Cardinality(DOMAIN w) |-> i - 1])
    IN  DivMod(PolyAdd(PolyMul(sum(qap.u), sum(qap.v)), sum(qap.w), -1), qap.t)
ProofWith(pk, w, h, r, s) ==
    LET sum(q) == MapThenSumSet(LAMBDA i : w[i] * q[i], DOMAIN q)
        a == SnMod(pk.alpha + sum(pk.a) + r * pk.delta)
        b == SnMod(pk.beta + sum(pk.b) + s * pk.delta)
    IN  [a |-> a, b |-> b,
         c |-> SnMod(MapThenSumSet(LAMBDA i : h[i] * pk.h[i], DOMAIN h \cap DOMAIN pk.h)
                     + sum(pk.l) + s * a + r * b - r * s * pk.delta)]
ProveUnchecked(pk, qap, w, r, s) == ProofWith(pk, w, Quotient(qap, w).quo, r, s)
Prove(pk, qap, w, r, s) ==
    LET q == Quotient(qap, w)
    IN  IF \E i \in DOMAIN q.rem : q.rem[i] # 0 THEN Throws ELSE ProofWith(pk, w, q.quo, r, s)

Verify(vk, publics, proof) ==
    IF Len(publics) + 1 # Len(vk.ic) THEN Throws
    ELSE LET acc == vk.ic[1] + MapThenSumSet(LAMBDA i : publics[i] * vk.ic[i + 1], DOMAIN publics)
         IN  IF SnMod(proof.a * proof.b) = SnMod(vk.alpha_beta + acc * vk.gamma + proof.c * vk.delta)
             THEN <<"accepted">> ELSE <<"refused">>

(* Serialisation: length and data of each field.  A point of G2 takes two   *)
(* cells and one of GT three; a length or a count takes one.                *)
Blob(cells, e) == <<cells>> \o [i \in 1 .. cells |-> e]
SerializeProof(p) == Blob(1, p.a) \o Blob(2, p.b) \o Blob(1, p.c)
SerializeVerificationKey(vk) ==
    <<5>> \o Blob(1, vk.alpha) \o Blob(2, vk.beta) \o Blob(2, vk.gamma) \o Blob(2, vk.delta)
    \o Blob(3, vk.alpha_beta) \o <<Len(vk.ic)>> \o FlattenSeq([i \in DOMAIN vk.ic |-> Blob(1, vk.ic[i])])

(* Reads one blob, or nothing when the buffer ends before it does.  (And    *)
(* one that does not look at what remains.)                                 *)
ReadBlobBlind(buf, y) ==
    IF y = Throws THEN y
    ELSE IF y.off + 1 > Len(buf) THEN Throws
    ELSE [off |-> y.off + 1 + buf[y.off + 1], got |-> Append(y.got, buf[y.off + 1])]
ReadBlob(buf, y) ==
    IF y = Throws THEN y
    ELSE IF y.off + 1 > Len(buf) \/ y.off + 1 + buf[y.off + 1] > Len(buf) THEN Throws
    ELSE [off |-> y.off + 1 + buf[y.off + 1], got |-> Append(y.got, buf[y.off + 2])]
ReadBlobs(buf, y, n) == FoldLeft(LAMBDA z, i : ReadBlob(buf, z), y, UpTo(n))
DeserializeProof(buf) ==
    LET y == ReadBlobs(buf, [off |-> 0, got |-> <<>>], 3)
    IN  IF y = Throws THEN y ELSE [a |-> y.got[1], b |-> y.got[2], c |-> y.got[3]]
DeserializeVerificationKey(buf) ==
    LET y == IF Len(buf) = 0 \/ buf[1] # 5 THEN Throws ELSE ReadBlobs(buf, [off |-> 1, got |-> <<>>], 5)
        z == IF y = Throws \/ y.off + 1 > Len(buf) THEN Throws
             ELSE ReadBlobs(buf, [off |-> y.off + 1, got |-> y.got], buf[y.off + 1])
    IN  IF z = Throws THEN z
        ELSE [alpha |-> z.got[1], beta |-> z.got[2], gamma |-> z.got[3], delta |-> z.got[4],
              alpha_beta |-> z.got[5], ic |-> SubSeq(z.got, 6, Len(z.got))]

-----------------------------------------------------------------------------
(* The circuits: a public output (variable 1), private inputs, the output   *)
(* asserted to be the gadget's; the variables the client has to assign      *)
(* beside these (bits); and what the circuit should say of output o.        *)
Gate(name, x, y) ==
    CASE name = "and" -> x * y [] name = "or" -> x + y - x * y [] name = "xor" -> (x + y) % 2
CircuitOf(k) ==
    LET p1 == AllocPrivate(AllocPublic(NewBuilder))  p2 == AllocPrivate(p1)
        b1 == Boolean(AllocPublic(NewBuilder))  b2 == Boolean(b1)  b4 == AllocPrivate(AllocPrivate(b1))
        out(cb) == AssertEqual(cb, Last1(cb), 1)
    IN  CASE k.name = "mul" -> AssertMulEquals(p2, 2, 3, 1)
          [] k.name = "and" -> out(BoolAnd(b2, 2, 3))
          [] k.name = "or" -> out(BoolOr(b2, 2, 3))
          [] k.name = "xor" -> out(BoolXor(b2, 2, 3))
          [] k.name = "range" -> ToBits(AllocPublic(NewBuilder), 1, 2).cb
          [] k.name = "less" -> out(LessThan(p2, 2, 3, 2))
          [] k.name = "select" -> out(Select(b4, 2, 3, 4))
          [] k.name = "mimc" -> out(MiMCHash(p2, 2, 3, k.z))
Mimc(x, key, rounds) ==
    FoldLeft(LAMBDA s, r : SnMod(SnMod((s + r)^7) + key), SnMod(x + key), [i \in 1 .. rounds |-> i - 1])
Says(k, o) ==
    CASE k.name = "mul" -> o = SnMod(k.x * k.y)
      [] k.name \in {"and", "or", "xor"} -> k.x \in {0, 1} /\ k.y \in {0, 1} /\ o = Gate(k.name, k.x, k.y)
      [] k.name = "range" -> o < 4 /\ k.z = o
      [] k.name = "less" -> o = (IF k.x < k.y THEN 1 ELSE 0) /\ k.z = 4 + k.x - k.y
      [] k.name = "select" -> k.z \in {0, 1} /\ o = IF k.z = 1 THEN k.x ELSE k.y
      [] k.name = "mimc" -> o = Mimc(k.x, k.y, k.z)
BitOf(z, i) == (z \div 2^i) % 2
Assignment(k, o) ==
    CASE k.name = "range" -> [v \in 1 .. 3 |-> IF v = 1 THEN o ELSE BitOf(k.z, v - 2)]
      [] k.name = "less" -> [v \in {1, 2, 3, 6, 7, 8} |-> CASE v = 1 -> o [] v = 2 -> k.x [] v = 3 -> k.y [] OTHER -> BitOf(k.z, v - 6)]
      [] k.name = "select" -> [v \in 1 .. 4 |-> CASE v = 1 -> o [] v = 2 -> k.z [] v = 3 -> k.x [] v = 4 -> k.y]
      [] OTHER -> [v \in 1 .. 3 |-> CASE v = 1 -> o [] v = 2 -> k.x [] v = 3 -> k.y]

(* Setup's random exponents: a tau in the domain, 0, and one outside.       *)
Exponents ==
    {[tau |-> 1, alpha |-> 3, beta |-> 2, gamma |-> 5, delta |-> 4],
     [tau |-> 0, alpha |-> 0, beta |-> 7, gamma |-> 1, delta |-> 10],
     [tau |-> 10, alpha |-> 6, beta |-> 0, gamma |-> 3, delta |-> 2]}

SnInit ==
    \/ \E name \in {"and", "or", "xor"}, x \in 0 .. 2, y \in 0 .. 1, o \in 0 .. 1 :
         Start("snark", [k |-> [name |-> name, x |-> x, y |-> y, z |-> 0], o |-> o, phase |-> "circuit"])
    \/ \E z \in 0 .. 3, o \in 0 .. 4 :
         Start("snark", [k |-> [name |-> "range", x |-> 0, y |-> 0, z |-> z], o |-> o, phase |-> "circuit"])
    \/ \E x \in 0 .. 3, y \in 0 .. 3, o \in 0 .. 1, wrong \in {0, 4} :
         Start("snark", [k |-> [name |-> "less", x |-> x, y |-> y, z |-> (4 + x - y + wrong) % 8], o |-> o, phase |-> "circuit"])
    \/ \E x \in {0, 3}, y \in {1, 5}, o \in {0, 1, 3, 5}, z \in 0 .. 2, name \in {"select", "mul"} :
         Start("snark", [k |-> [name |-> name, x |-> x, y |-> y, z |-> z], o |-> o, phase |-> "circuit"])
    \/ \E x \in {2}, y \in 0 .. 1, o \in 0 .. SnOrder - 1, z \in 1 .. 2 :
         Start("snark", [k |-> [name |-> "mimc", x |-> x, y |-> y, z |-> z], o |-> o, phase |-> "circuit"])

(* The client computes a witness, sets up, proves and verifies.             *)
SnBuild ==
    /\ st.phase = "circuit"
    /\ Step("snark", [k |-> st.k, o |-> st.o, phase |-> "values", cb |-> CircuitOf(st.k),
                      vals |-> Assigned(Assignment(st.k, st.o)), at |-> 1, changed |-> FALSE])
SnPropagate ==
    /\ st.phase = "values" /\ st.at <= Len(st.cb.cons)
    /\ LET vals == Propagate(st.vals, st.cb.cons[st.at])
       IN  Step("snark", [st EXCEPT !.vals = vals, !.at = @ + 1, !.changed = @ \/ vals # st.vals])
ComputeWitness ==
    /\ st.phase = "values" /\ st.at > Len(st.cb.cons)
    /\ Step("snark", IF st.changed THEN [st EXCEPT !.at = 1, !.changed = FALSE]
                     ELSE [k |-> st.k, o |-> st.o, phase |-> "witness", r1cs |-> Build(st.cb), qap |-> <<>>,
                           witness |-> WitnessOf(st.cb, st.vals), keys |-> <<>>, proof |-> <<>>])
SnSetup ==
    /\ st.phase = "witness"
    /\ LET qap == R1csToQap(st.r1cs)
       IN  \E x \in Exponents :
             Step("snark", [st EXCEPT !.phase = "keys", !.qap = qap, !.keys = Setup(st.r1cs, qap, x)])
SnProve ==
    /\ st.phase = "keys"
    /\ \E r \in {0, 3} : Step("snark", [st EXCEPT !.phase = "proved", !.proof = Prove(st.keys.pk, st.qap, st.witness, r, 2)])
SnNext == part = "snark" /\ (SnBuild \/ SnPropagate \/ ComputeWitness \/ SnSetup \/ SnProve)

-----------------------------------------------------------------------------
(* The witness the builder computes from the inputs the client assigns      *)
(* satisfies the system it builds exactly when the gadget's plain function, *)
(* on those inputs, is the public output.                                   *)
SnarkWitnessRight ==
    part = "snark" /\ st.phase = "witness" =>
        /\ IsSatisfied(st.r1cs, st.witness) <=> Says(st.k, st.o)
        /\ st.witness[0] = 1 /\ st.witness[1] = st.o

(* The prover throws exactly on a witness that does not satisfy the system, *)
(* and the verifier accepts what an honest prover makes, whatever setup     *)
(* drew, a tau among the points of the domain included.                     *)
SnarkProofs ==
    part = "snark" /\ st.phase = "proved" =>
        /\ st.proof = Throws <=> ~IsSatisfied(st.r1cs, st.witness)
        /\ st.proof # Throws => Verify(st.keys.vk, <<st.o>>, st.proof) = <<"accepted">>
        /\ Verify(st.keys.vk, <<st.o, 0>>, st.proof) = Throws

(* A proof and a verification key survive serialisation, and a buffer cut   *)
(* short anywhere is refused.                                               *)
SnarkRoundTrip ==
    part = "snark" /\ st.phase = "proved" /\ st.proof # Throws =>
        LET kb == SerializeVerificationKey(st.keys.vk)  pb == SerializeProof(st.proof)
        IN  /\ DeserializeVerificationKey(kb) = st.keys.vk
            /\ DeserializeProof(pb) = st.proof
            /\ \A n \in 0 .. Len(kb) - 1 : DeserializeVerificationKey(SubSeq(kb, 1, n)) = Throws
            /\ \A n \in 0 .. Len(pb) - 1 : DeserializeProof(SubSeq(pb, 1, n)) = Throws
=============================================================================
