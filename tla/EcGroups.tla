------------------------------ MODULE EcGroups ------------------------------
(* math/ecc: the points of the curve libraries as a caller's variables hold *)
(* them.  An EcPoint of OpenSSL and MCL is a shared_ptr to the library's    *)
(* point, so a plain C++ copy is a second name of one memory cell; FourQ's  *)
(* and the toy curves' points are held by value.  A point is written as its *)
(* logarithm to the base of the generator of a group of prime order.        *)
EXTENDS Integers, Sequences, FiniteSets, SequencesExt, FiniteSetsExt, Scenario

CONSTANTS EcN,              \* the order of the group
          EcScalarMax       \* scalars are -EcScalarMax .. EcScalarMax

EcScalars == -EcScalarMax .. EcScalarMax
EcLibs == {"openssl", "mcl", "fourq", "toy"}
SharesCells(lib) == lib \in {"openssl", "mcl"}
EcVars == {"a", "b"}        \* the caller's variables; "gen" is the group's generator_
EcNames == EcVars \union {"gen"}

(* A call leaves the memory and names the cell of its result.               *)
NewCell(s, v) == [heap |-> Append(s.heap, v % EcN), res |-> Len(s.heap) + 1]
PutCell(s, p, v) == [heap |-> [s.heap EXCEPT ![p] = v % EcN], res |-> p]
EcInv(k) == CHOOSE b \in 1 .. EcN - 1 : (k * b) % EcN = 1

(* OpensslGroup: MulBase and MulDoubleBase use the generator inside         *)
(* EC_GROUP, of which generator_ is a copy; Negate inverts a duplicate.     *)
OpensslCall(s, op, p, q, k) ==
    LET v == s.heap
    IN  CASE op = "Add" -> NewCell(s, v[p] + v[q])
          [] op = "AddInplace" -> PutCell(s, p, v[p] + v[q])
          [] op = "Double" -> NewCell(s, 2 * v[p])
          [] op = "DoubleInplace" -> PutCell(s, p, 2 * v[p])
          [] op = "MulBase" -> NewCell(s, k % EcN)
          [] op = "Mul" -> NewCell(s, k * v[p])
          [] op = "MulInplace" -> PutCell(s, p, k * v[p])
          [] op = "MulDoubleBase" -> NewCell(s, (k % EcN) + ((k % EcN) * v[p]))
          [] op = "Negate" -> NewCell(s, -v[p])
          [] op = "NegateInplace" -> PutCell(s, p, -v[p])
(* MclGroupT: scalars are reduced, MulBase multiplies the point generator_  *)
(* names.                                                                   *)
MclCall(s, op, p, q, k) ==
    LET v == s.heap
        scalar == k % EcN
        base == v[s.at["gen"]]
    IN  CASE op = "Add" -> NewCell(s, v[p] + v[q])
          [] op = "AddInplace" -> PutCell(s, p, v[p] + v[q])
          [] op = "Double" -> NewCell(s, 2 * v[p])
          [] op = "DoubleInplace" -> PutCell(s, p, 2 * v[p])
          [] op = "MulBase" -> NewCell(s, scalar * base)
          [] op = "Mul" -> NewCell(s, scalar * v[p])
          [] op = "MulInplace" -> PutCell(s, p, scalar * v[p])
          [] op = "MulDoubleBase" -> NewCell(s, (scalar * base) + (scalar * v[p]))
          [] op = "Negate" -> NewCell(s, -v[p])
          [] op = "NegateInplace" -> PutCell(s, p, -v[p])
(* FourQGroup: results start as arrays of their own; infinity is its own    *)
(* negation.                                                                *)
FourQCall(s, op, p, q, k) ==
    LET v == s.heap
        digits == k % EcN
    IN  CASE op = "Add" -> NewCell(s, v[p] + v[q])
          [] op = "AddInplace" -> PutCell(s, p, v[p] + v[q])
          [] op = "Double" -> NewCell(s, 2 * v[p])
          [] op = "DoubleInplace" -> PutCell(s, p, 2 * v[p])
          [] op = "MulBase" -> NewCell(s, digits)
          [] op = "Mul" -> NewCell(s, digits * v[p])
          [] op = "MulInplace" -> PutCell(s, p, digits * v[p])
          [] op = "MulDoubleBase" -> NewCell(s, digits + (digits * v[p]))
          [] op = "Negate" -> IF v[p] = 0 THEN NewCell(s, v[p]) ELSE NewCell(s, EcN - v[p])
          [] op = "NegateInplace" -> IF v[p] = 0 THEN [heap |-> v, res |-> p] ELSE PutCell(s, p, EcN - v[p])
(* ToyWeierstrassGroup has Add, Mul and Negate; the rest is EcGroupSketch,  *)
(* whose in-place forms assign the result of the pure ones.                 *)
ToyCall(s, op, p, q, k) ==
    LET v == s.heap
        mul(x) == IF k % EcN = 0 THEN 0 ELSE k * x
    IN  CASE op \in {"Add", "AddInplace"} -> NewCell(s, v[p] + v[q])
          [] op \in {"Mul", "MulInplace"} -> NewCell(s, mul(v[p]))
          [] op \in {"Negate", "NegateInplace"} -> NewCell(s, -v[p])
          [] op \in {"Double", "DoubleInplace"} -> NewCell(s, v[p] + v[p])
          [] op = "MulBase" -> NewCell(s, mul(v[s.at["gen"]]))
          [] op = "MulDoubleBase" -> NewCell(s, mul(v[s.at["gen"]]) + mul(v[p]))

LibCall(s, op, p, q, k) ==
    CASE s.lib = "openssl" -> OpensslCall(s, op, p, q, k)
      [] s.lib = "mcl" -> MclCall(s, op, p, q, k)
      [] s.lib = "fourq" -> FourQCall(s, op, p, q, k)
      [] s.lib = "toy" -> ToyCall(s, op, p, q, k)
After(s, done) == [s EXCEPT !.heap = done.heap]

(* EcGroupSketch: Sub adds the negated point; Div multiplies by the inverse *)
(* of the absolute value and negates for a negative scalar; <<>> is a       *)
(* throw, before anything changed.                                          *)
SketchSub(s, op, p, q) ==
    LET neg == LibCall(s, "Negate", q, q, 0)
    IN  LibCall(After(s, neg), IF op = "Sub" THEN "Add" ELSE "AddInplace", p, neg.res, 0)
SketchDivNoSign(s, op, p, k) ==
    IF k % EcN = 0 THEN <<>>
    ELSE <<LibCall(s, IF op = "Div" THEN "Mul" ELSE "MulInplace", p, p, EcInv(IF k > 0 THEN k ELSE -k))>>
SketchDiv(s, op, p, k) ==
    IF k % EcN = 0 THEN <<>>
    ELSE LET inv == EcInv(IF k > 0 THEN k ELSE -k)
             res == LibCall(s, IF op = "Div" THEN "Mul" ELSE "MulInplace", p, p, inv)
         IN  IF k > 0 THEN <<res>>
             ELSE <<LibCall(After(s, res), IF op = "Div" THEN "Negate" ELSE "NegateInplace", res.res, res.res, 0)>>
GroupCall(s, op, p, q, k) ==
    CASE op \in {"Sub", "SubInplace"} -> <<SketchSub(s, op, p, q)>>
      [] op \in {"Div", "DivInplace"} -> SketchDiv(s, op, p, k)
      [] OTHER -> <<LibCall(s, op, p, q, k)>>

(* A plain copy of an EcPoint, and CopyPoint.                               *)
PlainCopy(s, p) == IF SharesCells(s.lib) THEN [heap |-> s.heap, res |-> p] ELSE NewCell(s, s.heap[p])
CopyPointShared(s, p) == PlainCopy(s, p)
CopyPoint(s, p) == NewCell(s, s.heap[p])

-----------------------------------------------------------------------------
(* Cells no variable names are freed; the others are renumbered.            *)
Release(heap, at) ==
    LET used == {at[x] : x \in EcNames}
        rank(c) == Cardinality({d \in used : d <= c})
    IN  [heap |-> [i \in 1 .. Cardinality(used) |-> heap[CHOOSE c \in used : rank(c) = i]],
         at |-> [x \in EcNames |-> rank(at[x])]]
EcHolding(s, x, done) == LET r == Release(done.heap, [s.at EXCEPT ![x] = done.res]) IN [s EXCEPT !.heap = r.heap, !.at = r.at]

(* What a caller expects: want is plain algebra on its own variables,       *)
(* linked the plain copies made of a point, spoilt the variables another    *)
(* name of which was changed in place.                                      *)
Expected(s, op, x, y, k) ==
    LET v == s.want[x]
    IN  CASE op \in {"Add", "AddInplace"} -> v + s.want[y]
          [] op \in {"Sub", "SubInplace"} -> v - s.want[y]
          [] op \in {"Double", "DoubleInplace"} -> 2 * v
          [] op \in {"Mul", "MulInplace"} -> k * v
          [] op \in {"Negate", "NegateInplace"} -> -v
          [] op = "MulBase" -> k
          [] op = "MulDoubleBase" -> k + (k * v)
          [] op \in {"Div", "DivInplace"} -> v * EcInv(k % EcN)
Unlink(s, x) == [n \in EcNames |-> IF n = x THEN {x} ELSE s.linked[n] \ {x}]
Ghost(s, spoilt) == [s EXCEPT !.spoilt = spoilt, !.want = [n \in EcNames |-> IF n \in spoilt THEN 0 ELSE @[n]]]
UsesBase(s, op) == op \in {"MulBase", "MulDoubleBase"} /\ s.lib \in {"mcl", "toy"}
Tainted(s, op, x, y) ==
    \/ op # "MulBase" /\ x \in s.spoilt
    \/ op \in {"Add", "Sub", "AddInplace", "SubInplace"} /\ y \in s.spoilt
    \/ UsesBase(s, op) /\ "gen" \in s.spoilt

(* Only the calls that take a second point or a scalar are given a choice.  *)
Seconds(op) == IF op \in {"Add", "Sub", "AddInplace", "SubInplace"} THEN EcNames ELSE {"gen"}
ScalarsOf(op) == IF op \in {"Mul", "MulBase", "MulDoubleBase", "Div", "MulInplace", "DivInplace"} THEN EcScalars ELSE {0}

PureCall ==
    \E op \in {"Add", "Sub", "Double", "Mul", "MulBase", "MulDoubleBase", "Div", "Negate"} :
    \E x \in EcVars, y \in EcNames, z \in Seconds(op), k \in ScalarsOf(op) :
      LET done == GroupCall(st, op, st.at[y], st.at[z], k)
      IN  /\ done # <<>>
          /\ LET held == [EcHolding(st, x, done[1]) EXCEPT !.linked = Unlink(st, x), !.want[x] = Expected(st, op, y, z, k) % EcN]
             IN  Step("ecgroup", Ghost(held, IF Tainted(st, op, y, z) THEN st.spoilt \union {x} ELSE st.spoilt \ {x}))
InplaceCall ==
    \E op \in {"AddInplace", "SubInplace", "DoubleInplace", "MulInplace", "DivInplace", "NegateInplace"} :
    \E x \in EcVars, z \in Seconds(op), k \in ScalarsOf(op) :
      LET done == GroupCall(st, op, st.at[x], st.at[z], k)
      IN  /\ done # <<>>
          /\ LET held == [EcHolding(st, x, done[1]) EXCEPT !.want[x] = Expected(st, op, x, z, k) % EcN]
                 reached == IF SharesCells(st.lib) THEN st.linked[x] \ {x} ELSE {}
             IN  Step("ecgroup", Ghost(held, (st.spoilt \union reached) \union (IF Tainted(st, op, x, z) THEN {x} ELSE {})))
(* x = y, x = GetGenerator() or x = CopyPoint(y).                           *)
AssignPoint ==
    \E x \in EcVars, y \in EcNames :
      /\ x # y
      /\ LET un == Unlink(st, x)
             class == un[y] \union {x}
             held == [EcHolding(st, x, PlainCopy(st, st.at[y])) EXCEPT !.want[x] = st.want[y],
                        !.linked = [n \in EcNames |-> IF n \in class THEN class ELSE un[n]]]
         IN  Step("ecgroup", Ghost(held, IF y \in st.spoilt THEN st.spoilt \union {x} ELSE st.spoilt \ {x}))
DeepCopy ==
    \E x \in EcVars, y \in EcNames :
      LET held == [EcHolding(st, x, CopyPoint(st, st.at[y])) EXCEPT !.want[x] = st.want[y], !.linked = Unlink(st, x)]
      IN  Step("ecgroup", Ghost(held, IF y \in st.spoilt THEN st.spoilt \union {x} ELSE st.spoilt \ {x}))

EcInit ==
    \E lib \in EcLibs :
        Start("ecgroup", [lib |-> lib, heap |-> <<1, 0, 0>>, at |-> [gen |-> 1, a |-> 2, b |-> 3],
                          want |-> [gen |-> 1, a |-> 0, b |-> 0], linked |-> [n \in EcNames |-> {n}], spoilt |-> {}])
EcNext == part = "ecgroup" /\ (PureCall \/ InplaceCall \/ AssignPoint \/ DeepCopy)

-----------------------------------------------------------------------------
(* Every variable, and the group's own generator, holds what plain algebra  *)
(* says, whatever calls were made: an in-place call reaches another name    *)
(* only in a library that shares cells and only if it is a plain copy, and  *)
(* a CopyPoint, or the result of any other call, is never such a name.      *)
PointsHoldTheirValue ==
    part = "ecgroup" =>
        \A n \in EcNames \ st.spoilt : st.heap[st.at[n]] = st.want[n]

(* Div undoes Mul for every scalar that has an inverse, negative ones too,  *)
(* and throws for the others, whatever point the variables share.           *)
DivUndoesMul ==
    part = "ecgroup" =>
        \A x \in EcNames, k \in EcScalars :
            LET there == GroupCall(st, "Mul", st.at[x], st.at[x], k)[1]
                back == GroupCall(After(st, there), "Div", there.res, there.res, k)
            IN  IF k % EcN = 0 THEN back = <<>>
                ELSE back[1].heap[back[1].res] = st.heap[st.at[x]]

-----------------------------------------------------------------------------
(* math/ecc: points as bytes (SerializePoint, DeserializePoint), hashing to *)
(* the curve and comparing points in projective form, per curve library.    *)
(* The curve is y^2 = x^3 + x + 6 modulo 11, of order 13; a byte holds two  *)
(* bits, so a coordinate takes two bytes and has a most significant one     *)
(* that is often zero, as with the real fields.                             *)

CONSTANTS EcPadding,        \* a buffer is up to so many bytes longer than needed
          EcGuard           \* kHashToCurveCounterGuard, 100 in the code

FieldP == 11
OnCurve(x, y) == (y * y) % FieldP = (((x * x * x) + x) + 6) % FieldP
AtInfinity == [x |-> 0, y |-> 0]
CurvePoints == {AtInfinity} \union {q \in [x : 0 .. FieldP - 1, y : 0 .. FieldP - 1] : OnCurve(q.x, q.y)}
RootOf(x, odd) == LET r == {y \in 0 .. FieldP - 1 : OnCurve(x, y) /\ y % 2 = odd}
                  IN  IF r = {} THEN <<>> ELSE <<[x |-> x, y |-> CHOOSE y \in r : TRUE]>>

Little(v) == <<v % 4, v \div 4>>
Big(v) == <<v \div 4, v % 4>>
FromLittle(b) == b[1] + 4 * b[2]
FromBig(b) == b[2] + 4 * b[1]
Zeros(n) == [i \in 1 .. n |-> 0]
Stale(n) == [i \in 1 .. n |-> 3]          \* what a caller's buffer held before
WriteAt(buf, at, bytes) == [i \in DOMAIN buf |-> IF i > at /\ i <= at + Len(bytes) THEN bytes[i - at] ELSE buf[i]]

PointFormats == {"Autonomous", "X962Compressed", "X962Uncompressed", "X962Hybrid", "ZCash_BLS12_381"}

-----------------------------------------------------------------------------
(* OpenSSL.                                                                 *)
ToOsslForm(f) == IF f \in {"X962Uncompressed", "X962Hybrid"} THEN f ELSE "X962Compressed"
Point2Oct(q, form) ==
    IF q = AtInfinity THEN <<0>>
    ELSE CASE form = "X962Compressed" -> <<2 + (q.y % 2)>> \o Big(q.x)
           [] form = "X962Uncompressed" -> <<4>> \o Big(q.x) \o Big(q.y)
           [] form = "X962Hybrid" -> <<6 + (q.y % 2)>> \o Big(q.x) \o Big(q.y)
Oct2Point(b) ==
    CASE b[1] = 0 -> IF Len(b) = 1 THEN <<AtInfinity>> ELSE <<>>
      [] b[1] \in {2, 3} -> IF Len(b) = 3 /\ FromBig(Tail(b)) < FieldP THEN RootOf(FromBig(Tail(b)), b[1] - 2) ELSE <<>>
      [] b[1] \in {4, 6, 7} ->
           IF Len(b) # 5 THEN <<>>
           ELSE LET q == [x |-> FromBig(SubSeq(b, 2, 3)), y |-> FromBig(SubSeq(b, 4, 5))]
                IN  IF q \in CurvePoints /\ (b[1] = 4 \/ b[1] = 6 + (q.y % 2)) THEN <<q>> ELSE <<>>
      [] OTHER -> <<>>
OpensslLength(f) == IF ToOsslForm(f) = "X962Compressed" THEN 3 ELSE 5
OpensslSerialize(q, f, buf) ==
    LET oct == Point2Oct(q, ToOsslForm(f))
    IN  IF Len(buf) < Len(oct) THEN <<>> ELSE oct \o Zeros(Len(buf) - Len(oct))
OpensslDeserializeWhole(b) == Oct2Point(b)
OpensslDeserialize(b) == Oct2Point(IF b[1] # 0 THEN b ELSE SubSeq(b, 1, 1))

(* x with the parity of y, as MCL's IoSerialize and FourQ's encode write.  *)
PackedEncode(q) == <<q.y % 2>> \o Little(q.x)
PackedDecode(b) == IF SubSeq(b, 1, 3) = Zeros(3) THEN <<AtInfinity>> ELSE RootOf(FromLittle(SubSeq(b, 2, 3)), b[1])

(* MCL, standard curves: the rest of a larger buffer is cleared from        *)
(* write_bits on, which leaves out the format byte.                         *)
MclLength(f) ==
    CASE f \in {"X962Uncompressed", "X962Hybrid"} -> 5
      [] f \in {"Autonomous", "X962Compressed"} -> 3
      [] f = "ZCash_BLS12_381" -> 0                   \* throws
MclPut(q, f) ==             \* the bytes written and write_bits
    CASE f = "X962Uncompressed" -> <<<<4>> \o Little(q.x) \o Little(q.y), 4>>
      [] f = "X962Hybrid" -> <<<<6 + (q.y % 2)>> \o Little(q.x) \o Little(q.y), 4>>
      [] f \in {"Autonomous", "X962Compressed"} ->
           IF q = AtInfinity THEN <<Zeros(3), 3>> ELSE <<<<2 + (q.y % 2)>> \o Little(q.x), 2>>
(* The pairing curve BLS12-381 has one format and leaves the rest alone.    *)
BlsFormat(f) == f \in {"Autonomous", "ZCash_BLS12_381"}
BlsSerialize(q, f, buf) == IF ~BlsFormat(f) \/ Len(buf) < 3 THEN <<>> ELSE WriteAt(buf, 0, PackedEncode(q))
BlsDeserialize(b, f) == IF ~BlsFormat(f) \/ Len(b) < 3 THEN <<>> ELSE PackedDecode(SubSeq(b, 1, 3))
MclSerialize(q, f, buf) ==
    IF MclLength(f) = 0 \/ Len(buf) < MclLength(f) THEN <<>>
    ELSE LET put == MclPut(q, f)
             written == WriteAt(buf, 0, put[1])
         IN  IF Len(buf) > MclLength(f) THEN WriteAt(written, put[2], Zeros(Len(buf) - put[2])) ELSE written
(* deserialize of x||y keeps the coordinates it read, on the curve or not.  *)
MclDeserializeEven(b, f) == IF Len(b) < 3 THEN <<>> ELSE RootOf(FromLittle(SubSeq(b, 2, 3)) % FieldP, 0)
MclDeserialize(b, f) ==
    IF MclLength(f) = 0 \/ Len(b) < MclLength(f) THEN <<>>
    ELSE CASE f \in {"X962Uncompressed", "X962Hybrid"} ->
                IF b[1] \in (IF f = "X962Uncompressed" THEN {4} ELSE {6, 7})
                THEN <<[x |-> FromLittle(SubSeq(b, 2, 3)), y |-> FromLittle(SubSeq(b, 4, 5))]>> ELSE <<>>
           [] f \in {"Autonomous", "X962Compressed"} ->
                IF SubSeq(b, 1, 3) = Zeros(3) THEN <<AtInfinity>>
                ELSE RootOf(FromLittle(SubSeq(b, 2, 3)), IF b[1] = 3 THEN 1 ELSE 0)

(* FourQ: a fixed length, the rest of a larger buffer keeps what it held,   *)
(* and DeserializePoint does not look at the length.                        *)
FourQLength == 3
FourQSerialize(q, f, buf) == IF f # "Autonomous" \/ Len(buf) < FourQLength THEN <<>> ELSE WriteAt(buf, 0, PackedEncode(q))
FourQDeserialize(b, f) == IF f # "Autonomous" THEN <<>> ELSE PackedDecode(b)

(* Toy curves: the msgpack array of the two MPInts, whose length depends on *)
(* their values, while GetSerializeLength is that of the generator.         *)
BitLen(v) == CHOOSE n \in 0 .. 8 : 2 ^ n > v /\ (n = 0 \/ 2 ^ (n - 1) <= v)
PackMp(v) == LET n == (BitLen(v) \div 2) + 1 IN <<n>> \o [i \in 1 .. n |-> (v \div 4 ^ (i - 1)) % 4]
PackAffine(q) == <<2>> \o PackMp(q.x) \o PackMp(q.y)
UnpackMp(b) == FoldLeft(LAMBDA v, d : (4 * v) + d, 0, Reverse(SubSeq(b, 2, 1 + b[1])))
UnpackAffine(b) == LET ys == SubSeq(b, 3 + b[2], Len(b)) IN [x |-> UnpackMp(Tail(b)), y |-> UnpackMp(ys)]
ToyGenerator == [x |-> 2, y |-> 4]
ToyLength == Len(PackAffine(ToyGenerator))
ToySerialize(q, f, buf) ==
    LET packed == PackAffine(q)
    IN  IF f # "Autonomous" \/ Len(buf) < Len(packed) THEN <<>> ELSE packed \o Zeros(Len(buf) - Len(packed))
ToyDeserialize(b, f) == IF f # "Autonomous" THEN <<>> ELSE <<UnpackAffine(b)>>

SerializeLength(lib, f) ==
    CASE lib = "openssl" -> OpensslLength(f)
      [] lib = "mcl" -> MclLength(f)
      [] lib = "bls" -> IF BlsFormat(f) THEN 3 ELSE MclLength(f)
      [] lib = "fourq" -> IF f = "Autonomous" THEN FourQLength ELSE 0
      [] lib = "toy" -> IF f = "Autonomous" THEN ToyLength ELSE 0

SerializePoint ==
    /\ st.kind = "point"
    /\ \E n \in 1 .. SerializeLength(st.lib, st.format) + EcPadding :
         Step("eccodec", [kind |-> "bytes", lib |-> st.lib, format |-> st.format, q |-> st.q, n |-> n,
                          bytes |-> CASE st.lib = "openssl" -> OpensslSerialize(st.q, st.format, Stale(n))
                                      [] st.lib = "mcl" -> MclSerialize(st.q, st.format, Stale(n))
                                      [] st.lib = "bls" -> BlsSerialize(st.q, st.format, Stale(n))
                                      [] st.lib = "fourq" -> FourQSerialize(st.q, st.format, Stale(n))
                                      [] st.lib = "toy" -> ToySerialize(st.q, st.format, Stale(n))])
DeserializePoint ==
    /\ st.kind = "bytes" /\ st.bytes # <<>>
    /\ Step("eccodec", [kind |-> "back", lib |-> st.lib, format |-> st.format, q |-> st.q, n |-> st.n,
                        back |-> CASE st.lib = "openssl" -> OpensslDeserialize(st.bytes)
                                   [] st.lib = "mcl" -> MclDeserialize(st.bytes, st.format)
                                   [] st.lib = "bls" -> BlsDeserialize(st.bytes, st.format)
                                   [] st.lib = "fourq" -> FourQDeserialize(st.bytes, st.format)
                                   [] st.lib = "toy" -> ToyDeserialize(st.bytes, st.format)])

-----------------------------------------------------------------------------
(* HashToCurve: the digest has four bits, so it may exceed the field; the   *)
(* hash function is d -> a d + b, with cycles that miss the curve's points. *)
Strategies == {"Autonomous", "TryAndIncrement_SHA2", "TryAndIncrement_SHA3", "TryAndIncrement_SM",
               "TryAndRehash_SHA2", "TryAndRehash_SHA3", "TryAndRehash_SM", "TryAndRehash_BLAKE3"}
SelectSha2ByBits(bits) == IF bits <= 224 THEN "SHA224" ELSE IF bits <= 256 THEN "SHA256" ELSE IF bits <= 384 THEN "SHA384" ELSE "SHA512"
OpensslHashAlgo(s, bits) ==
    CASE s = "TryAndRehash_SHA2" -> SelectSha2ByBits(bits)
      [] s = "TryAndRehash_SM" -> "SM3"
      [] s \in {"TryAndRehash_BLAKE3", "Autonomous"} -> "BLAKE3"
      [] OTHER -> "throw"
MclHashAlgo(s, bits) ==
    CASE s = "TryAndIncrement_SHA2" -> SelectSha2ByBits(bits)
      [] s = "TryAndIncrement_SM" -> "SM3"
      [] s = "Autonomous" -> "BLAKE3"
      [] OTHER -> "throw"
HashForCurve(h, d) == ((h.a * d) + h.b) % 16

SameDigest(h, buf) == buf
Rehash(h, buf) == HashForCurve(h, buf)
OpensslTry ==
    /\ st.kind = "rehash" /\ st.t < EcGuard
    /\ LET got == RootOf(st.buf % FieldP, 0)
       IN  Step("eccodec", IF got # <<>> THEN [kind |-> "hashed", h |-> st.h, first |-> st.first, out |-> got]
                           ELSE [st EXCEPT !.t = @ + 1, !.buf = Rehash(st.h, @)])
OpensslGiveUp ==
    /\ st.kind = "rehash" /\ st.t = EcGuard
    /\ Step("eccodec", [kind |-> "hashed", h |-> st.h, first |-> st.first, out |-> <<>>])
(* A digest that is not a field element leaves p as it was, 0.              *)
MclMapTo ==
    /\ st.kind = "increment"
    /\ LET p == IF st.buf < FieldP THEN st.buf ELSE 0
           i == Min({j \in 0 .. FieldP - 1 : \E y \in 0 .. FieldP - 1 : OnCurve((p + j) % FieldP, y)})
       IN  \E y \in {r \in 0 .. FieldP - 1 : OnCurve((p + i) % FieldP, r)} :
             Step("eccodec", [kind |-> "mapped", out |-> [x |-> (p + i) % FieldP, y |-> y]])
HashToCurve ==
    /\ st.kind = "input"
    /\ LET algo == IF st.lib = "openssl" THEN OpensslHashAlgo(st.strategy, st.bits) ELSE MclHashAlgo(st.strategy, st.bits)
           d == HashForCurve(st.h, st.d)
       IN  Step("eccodec",
                IF algo = "throw" THEN [kind |-> "unsupported", lib |-> st.lib, strategy |-> st.strategy]
                ELSE IF st.lib = "openssl" THEN [kind |-> "rehash", h |-> st.h, first |-> d, buf |-> d, t |-> 0]
                ELSE [kind |-> "increment", buf |-> d])

-----------------------------------------------------------------------------
(* Projective points: FourQ's curve is -x^2 + y^2 = 1 + 2 x^2 y^2 modulo 13 *)
(* with (X : Y : Z) for x = X/Z, y = Y/Z and the neutral point (0, 1).      *)
EdP == 13
EdPoints == {q \in [x : 0 .. EdP - 1, y : 0 .. EdP - 1] :
               (((q.y * q.y) - (q.x * q.x)) - (1 + (2 * q.x * q.x * q.y * q.y))) % EdP = 0}
Scaled(q, z) == [x |-> (q.x * z) % EdP, y |-> (q.y * z) % EdP, z |-> z]
FourQIsInfinity(a) == a.x = 0 \/ a.z = 0
CrossSame(u, v, a, b) == (u * b.z) % EdP = (a.z * v) % EdP
FourQPointEqualX(a, b) == (FourQIsInfinity(a) /\ FourQIsInfinity(b)) \/ CrossSame(a.x, b.x, a, b)
FourQPointEqual(a, b) ==
    (FourQIsInfinity(a) /\ FourQIsInfinity(b)) \/ (CrossSame(a.x, b.x, a, b) /\ CrossSame(a.y, b.y, a, b))
FourQHashPoint(a) == (a.x * (CHOOSE i \in 1 .. EdP - 1 : (a.z * i) % EdP = 1)) % EdP
ComparePoints ==
    /\ st.kind = "pair"
    /\ Step("eccodec", [kind |-> "compared", p |-> st.p, q |-> st.q, equal |-> FourQPointEqual(st.a, st.b),
                        hashes |-> <<FourQHashPoint(st.a), FourQHashPoint(st.b)>>])

CodecInit ==
    \/ \E lib \in {"openssl", "mcl", "bls", "fourq", "toy"}, f \in PointFormats, q \in CurvePoints :
         Start("eccodec", [kind |-> "point", lib |-> lib, format |-> f, q |-> q])
    \/ \E lib \in {"openssl", "mcl"}, s \in Strategies, bits \in {224, 256, 384, 521}, d \in 0 .. 15,
          h \in [a : {1, 3, 4}, b : {0, 5}] :
         /\ s = "Autonomous" \/ d = 0
         /\ Start("eccodec", [kind |-> "input", lib |-> lib, strategy |-> s, bits |-> bits, h |-> h, d |-> d])
    \/ \E p, q \in EdPoints, z, w \in {1, 5} :
         Start("eccodec", [kind |-> "pair", p |-> p, q |-> q, a |-> Scaled(p, z), b |-> Scaled(q, w)])
CodecNext ==
    /\ part = "eccodec"
    /\ \/ SerializePoint \/ DeserializePoint
       \/ HashToCurve \/ OpensslTry \/ OpensslGiveUp \/ MclMapTo
       \/ ComparePoints

-----------------------------------------------------------------------------
(* What SerializePoint wrote reads back as the same point, infinity and     *)
(* both roots included, whenever the buffer has the length                  *)
(* GetSerializeLength gives or is long enough for what was written.  Left   *)
(* out are finite points of OpenSSL and MCL in a longer buffer, whose       *)
(* readers take the bytes behind the point for a part of it.                *)
PointsReadBack ==
    part = "eccodec" /\ st.kind = "back" =>
        \/ st.back = <<st.q>>
        \/ st.lib \in {"openssl", "mcl"} /\ st.q # AtInfinity /\ st.n # SerializeLength(st.lib, st.format)

(* OpenSSL's HashToCurve returns a point whose x is a digest of the chain,   *)
(* with even y, and throws only if no digest of the chain is on the curve:  *)
(* the guard is longer than any cycle of this hash.                         *)
Chain(h, first) ==
    LET next == [d \in 0 .. 15 |-> HashForCurve(h, d)]
        upto[k \in 0 .. 16] == IF k = 0 THEN {first} ELSE upto[k - 1] \union {next[d] : d \in upto[k - 1]}
    IN  upto[16]
HashLands ==
    part = "eccodec" =>
        /\ st.kind = "hashed" =>
             IF st.out = <<>> THEN \A d \in Chain(st.h, st.first) : RootOf(d % FieldP, 0) = <<>>
             ELSE /\ OnCurve(st.out[1].x, st.out[1].y) /\ st.out[1].y % 2 = 0
                  /\ st.out[1].x \in {d % FieldP : d \in Chain(st.h, st.first)}
        /\ st.kind = "mapped" => OnCurve(st.out.x, st.out.y)

(* Whatever projective form two FourQ points have, PointEqual tells whether *)
(* they are the same point, and equal points hash alike.  The neutral point *)
(* beside the point of order two, both with x = 0, is left out: it is x     *)
(* alone by which FourQ's PointEqual and IsInfinity know the neutral point. *)
EqualPointsHashAlike ==
    part = "eccodec" /\ st.kind = "compared" =>
        /\ st.p = st.q \/ ~(st.p.x = 0 /\ st.q.x = 0) => (st.equal <=> st.p = st.q)
        /\ st.equal => st.hashes[1] = st.hashes[2]
=============================================================================
