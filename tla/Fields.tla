------------------------------- MODULE Fields -------------------------------
(* Arithmetic in GF(2^64) and GF(2^128) (math/galois_field/gf_intrinsic),   *)
(* and the universal hash built on it.  A field element is a word, the set  *)
(* of the exponents of its polynomial, at its full width; clmul stands for  *)
(* the carry-less multiply instruction.                                     *)
EXTENDS Integers, Sequences, FiniteSets, SequencesExt, Scenario

Lo(a) == a \cap 0 .. 63
Hi(a) == Shr(a, 64)
kGfMod64 == {0, 1, 3, 4}
kGfMod128 == {0, 1, 2, 7}

(* The carry-less product of two 64-bit halves (_mm_clmulepi64_si128).      *)
clmul(a, b) ==
    IF a = {} \/ b = {} THEN {}
    ELSE {k \in 0 .. Max(a) + Max(b) : Cardinality({i \in a : k - i \in b}) % 2 = 1}

XorAll(s) == FoldLeft(Xor, {}, s)

-----------------------------------------------------------------------------
Gf64ClMul(x, y) == XorAll([i \in DOMAIN x |-> clmul(x[i], y[i])])

(* One folding less: the carry of the first is lost.                        *)
Gf64ReduceOnce(x) == Lo(Xor(x, clmul(kGfMod64, Hi(x))))

Gf64Reduce(x) ==
    LET t1 == clmul(kGfMod64, Hi(x))
        t2 == clmul(kGfMod64, Hi(t1))
    IN  Lo(Xor(Xor(x, t1), t2))

Gf64MulVec(x, y) == Gf64Reduce(Gf64ClMul(x, y))
Gf64Mul(x, y) == Gf64Reduce(clmul(x, y))

(* The addition chain for x^(2^64 - 2): t0 is squared n times, for n = 2,   *)
(* 4, 8, 16 and 32, and each time t1 and t2 gain the bits of t0.            *)
Gf64InvStart(x) ==
    LET sq == Gf64Mul(x, x)  t2 == Gf64Mul(sq, x) IN [t0 |-> t2, t1 |-> sq, t2 |-> t2, n |-> 2, left |-> 2]
Gf64InvSquare(s) == [s EXCEPT !.t0 = Gf64Mul(@, @), !.left = @ - 1]
Gf64InvJoin(s) ==
    LET t2 == Gf64Mul(s.t2, s.t0) IN [t0 |-> t2, t1 |-> Gf64Mul(s.t1, s.t0), t2 |-> t2, n |-> 2 * s.n, left |-> 2 * s.n]

Gf64Pack(data) == Gf64MulVec(data, [i \in DOMAIN data |-> {i - 1}])

Gf128ClMul(x, y) ==
    LET mid == Xor(clmul(Lo(x), Hi(y)), clmul(Hi(x), Lo(y)))
    IN  [high |-> Xor(clmul(Hi(x), Hi(y)), Shr(mid, 64)),
         low |-> Xor(clmul(Lo(x), Lo(y)), Shl(128, mid, 64))]

Gf128ClMulVec(x, y) ==
    [high |-> XorAll([i \in DOMAIN x |-> Gf128ClMul(x[i], y[i]).high]),
     low |-> XorAll([i \in DOMAIN x |-> Gf128ClMul(x[i], y[i]).low])]

Gf128Reduce(high, low) ==
    LET once == Gf128ClMul(high, kGfMod128)
        twice == Gf128ClMul(once.high, kGfMod128)
    IN  Xor(Xor(low, once.low), twice.low)

Gf128Mul(x, y) == LET p == Gf128ClMul(x, y) IN Gf128Reduce(p.high, p.low)
Gf128MulVec(x, y) == LET p == Gf128ClMulVec(x, y) IN Gf128Reduce(p.high, p.low)

(* The templates of gf_intrinsic.h, for a field with product Mul.  The      *)
(* universal hash is Horner's rule from the last element.                   *)
UniversalHash(Mul(_, _), seed, data) ==
    FoldRight(LAMBDA val, ret : Mul(seed, Xor(ret, val)), data, {})

(* The coefficients UniversalHash gives the positions in indexes (sorted):  *)
(* seed^(index + 1) by the squares of seed, of which the table has as many  *)
(* as the largest index has bits; the rest of the table is zero.            *)
ExtractHashCoef(Mul(_, _), seed, indexes) ==
    LET sqr(n) == FoldLeft(LAMBDA a, i : Mul(a, a), seed, [i \in 1 .. n |-> i])
        buff == [i \in 0 .. 63 |-> IF i <= Log2Ceil(Last(indexes)) THEN sqr(i) ELSE {}]
    IN  [j \in DOMAIN indexes |->
           FoldSet(LAMBDA i, coef : Mul(coef, buff[i]), {0}, WordOf(8, indexes[j] + 1))]

(* Their instances for the field of 64 bits.                                *)
Gf64UniversalHash(seed, data) == UniversalHash(Gf64Mul, seed, data)
Gf64ExtractHashCoef(seed, indexes) == ExtractHashCoef(Gf64Mul, seed, indexes)

-----------------------------------------------------------------------------
(* A call of one of the functions on operands that meet the widths.         *)

Edge64 == {{}, {0}, {63}, {0, 62, 63}, 0 .. 63, {i \in 0 .. 63 : i % 3 = 1}}
Edge128 == {{}, {0}, {63, 64}, {127}, 0 .. 127, {i \in 0 .. 127 : i % 5 = 2}}

GfInit ==
    \/ \E x, y \in Edge64 : Start("gf", [op |-> "mul64", x |-> x, y |-> y, out |-> {}])
    \/ \E x, y \in Edge128 : Start("gf", [op |-> "mul128", x |-> x, y |-> y, out |-> {}])
    \/ \E x \in Edge64 \ {{}} : Start("gf", [op |-> "inv64", x |-> x, s |-> Gf64InvStart(x)])
    \/ \E seed \in {{1}, {63}, {0, 5, 62}}, last \in 2 .. 8 :
          Start("gf", [op |-> "hash", x |-> seed, y |-> {}, out |-> {}, last |-> last])

(* The hash of a vector that is zero outside the positions 0 (if it is not  *)
(* the last) and last, as its two evaluations give it.                      *)
HashData(last) == [i \in 1 .. last + 1 |-> IF i = 1 THEN {2} ELSE IF i = last + 1 THEN {7, 9} ELSE {}]

GfCall ==
    /\ st.op \in {"mul64", "mul128", "hash"}
    /\ LET out == CASE st.op = "mul64" -> Gf64Mul(st.x, st.y)
                    [] st.op = "mul128" -> Gf128Mul(st.x, st.y)
                    [] st.op = "hash" -> Gf64UniversalHash(st.x, HashData(st.last))
       IN  Step("gf", [st EXCEPT !.op = "done_" \o @, !.out = out])
Gf64Inv ==
    /\ st.op = "inv64"
    /\ Step("gf", IF st.s.left > 0 THEN [st EXCEPT !.s = Gf64InvSquare(@)]
                  ELSE IF st.s.n < 32 THEN [st EXCEPT !.s = Gf64InvJoin(@)]
                  ELSE [op |-> "done_inv64", x |-> st.x, out |-> Gf64Mul(st.s.t0, st.s.t1)])

GfNext == part = "gf" /\ (GfCall \/ Gf64Inv)

-----------------------------------------------------------------------------
(* The remainder modulo x^w + mod: the sum of those of its monomials, where *)
(* x^(w + j) is replaced by mod * x^j until no exponent is left above w.    *)
PolyRem(w, mod, p) ==
    LET mono[k \in 0 .. 2 * w] == IF k < w THEN {k} ELSE FoldSet(LAMBDA i, r : Xor(r, mono[k - w + i]), {}, mod)
        rem == [k \in p |-> mono[k]]
    IN  {j \in 0 .. w - 1 : Cardinality({k \in p : j \in rem[k]}) % 2 = 1}

(* The product of two elements is the remainder of the product of the       *)
(* polynomials, although the code folds the high half in twice and never    *)
(* looks whether more would be needed; an inverse times its element is one. *)
GfArithmeticRight ==
    part = "gf" =>
        /\ st.op = "done_mul64" => st.out = PolyRem(64, kGfMod64, clmul(st.x, st.y))
        /\ st.op = "done_mul128" => st.out = PolyRem(128, kGfMod128, clmul(st.x, st.y))
        /\ st.op = "done_inv64" => Gf64Mul(st.out, st.x) = {0}

(* The receiver of a punctured vector knows only the positions that differ  *)
(* from zero: the hash by the coefficients extracted for them is the        *)
(* universal hash of the whole vector.  (For an only index 1 the table of   *)
(* squares is one entry short, and for an only index 0 the call throws.)    *)
GfHashCoefficients ==
    part = "gf" /\ st.op = "done_hash" =>
        LET coef == Gf64ExtractHashCoef(st.x, <<0, st.last>>)
            data == HashData(st.last)
        IN  st.out = Gf64MulVec(coef, <<data[1], data[st.last + 1]>>)

-----------------------------------------------------------------------------
(* math/galois_field/factory: the libraries behind GaloisFieldFactory.  MCL *)
(* keeps the modulus of a field in a static member of the C++ type of its   *)
(* base field, FpT<FpTag, 256> or FpT<FpTag, 512>, so two fields of one     *)
(* type share it; MPIntField keeps its own; IntrinsicField works on words   *)
(* of 64 or 128 bits.  Moduli are small primes; elements of an extension    *)
(* field are MCL's and are not modelled.                                    *)

CONSTANTS FldPrimes,         \* moduli of prime fields
          FldComposite,      \* a modulus that is no prime
          FldCreations,      \* fields created in one behaviour
          FldOps             \* calls on the fields of one behaviour

FieldNames == {"GF_p", "GF_p^k", "GF_2^k"}
FieldLibs == {"libmcl", "mpint", "intel"}

(* An argument is <<>> or <<value>>.                                        *)
GetOrDefault(arg, default) == IF arg = <<>> THEN default ELSE arg[1]

-----------------------------------------------------------------------------
(* Check and Create of the libraries.  Check: "yes", "no" or "throws".      *)
kMclFieldMetas == {<<"GF_p", 1, 256>>, <<"GF_p", 1, 512>>, <<"GF_p^k", 2, 512>>, <<"GF_p^k", 6, 512>>, <<"GF_p^k", 12, 512>>}
MclMetaOf(name, a) == <<name, GetOrDefault(a.degree, 1), GetOrDefault(a.bits, 512)>>
(* With the size left to Create alone: the same request is refused later.   *)
MclCheckNoSize(name, a) ==
    IF name # "GF_p" /\ a.degree = <<>> THEN "throws"
    ELSE IF \E m \in kMclFieldMetas : m[1] = name /\ m[2] = GetOrDefault(a.degree, 1) THEN "yes" ELSE "no"
MclCheck(name, a) ==
    IF name # "GF_p" /\ a.degree = <<>> THEN "throws"
    ELSE IF MclMetaOf(name, a) \in kMclFieldMetas THEN "yes" ELSE "no"
MPIntCheck(name, a) == IF name = "GF_p" THEN "yes" ELSE "no"
IntrinsicCheck(name, a) == IF name = "GF_2^k" THEN "yes" ELSE "no"

Field(lib, name, degree, size, mod) == [lib |-> lib, name |-> name, degree |-> degree, size |-> size, mod |-> mod]
MclCreate(name, a) ==
    LET meta == MclMetaOf(name, a)
    IN  IF a.mod = <<>> \/ meta \notin kMclFieldMetas THEN <<>>
        ELSE <<Field("libmcl", name, meta[2], meta[3], a.mod[1])>>
MPIntCreateAny(name, a) ==
    IF name # "GF_p" \/ a.mod = <<>> THEN <<>>
    ELSE <<Field("mpint", name, GetOrDefault(a.degree, 1), 0, a.mod[1])>>
MPIntCreate(name, a) ==
    IF name # "GF_p" \/ a.mod = <<>> THEN <<>>
    ELSE IF a.mod[1] \in FldComposite THEN <<>>
    ELSE <<Field("mpint", name, 1, 0, a.mod[1])>>
IntrinsicCreate(name, a) ==
    IF name # "GF_2^k" \/ a.degree \notin {<<64>>, <<128>>} THEN <<>>
    ELSE <<Field("intel", name, a.degree[1], a.degree[1], 2)>>

(* GaloisFieldFactory: MCL is asked first, then the two others, no feature  *)
(* of which is common; a named library must accept too.                     *)
FieldCheck(lib, name, a) ==
    CASE lib = "libmcl" -> MclCheck(name, a)
      [] lib = "mpint" -> MPIntCheck(name, a)
      [] lib = "intel" -> IntrinsicCheck(name, a)
FieldCreate(lib, name, a) ==
    CASE lib = "libmcl" -> MclCreate(name, a)
      [] lib = "mpint" -> MPIntCreate(name, a)
      [] lib = "intel" -> IntrinsicCreate(name, a)
FieldLibOf(name, a) ==
    LET asks == <<"libmcl", "mpint", "intel">>
        stop == {i \in DOMAIN asks : FieldCheck(asks[i], name, a) # "no"}
    IN  IF a.lib # <<>> THEN (IF FieldCheck(a.lib[1], name, a) = "yes" THEN a.lib ELSE <<>>)
        ELSE IF stop = {} \/ FieldCheck(asks[Min(stop)], name, a) = "throws" THEN <<>>
        ELSE <<asks[Min(stop)]>>
CreateField(name, a) == LET lib == FieldLibOf(name, a) IN IF lib = <<>> THEN <<>> ELSE FieldCreate(lib[1], name, a)

-----------------------------------------------------------------------------
(* The constructor of MclField sets the modulus of its base field's type;   *)
(* an extension field's base is the 512-bit one.                            *)
MclInitShared(base, f) == [s \in {256, 512} |-> f.mod]
MclInit(base, f) == [base EXCEPT ![f.size] = f.mod]
GetBaseFieldOrder(base, f) == IF f.lib = "libmcl" THEN base[f.size] ELSE f.mod
GetOrder(f) == CASE f.lib = "intel" -> <<2, f.degree>> [] f.degree = 1 -> <<f.mod, 1>> [] OTHER -> <<0, 1>>

(* Arithmetic modulo m; <<>> is a throw.                                    *)
FieldInvertMod(x, m) == LET y == {b \in 1 .. m - 1 : (x * b) % m = 1 % m} IN IF y = {} THEN <<>> ELSE <<CHOOSE b \in y : TRUE>>
PowMod(x, y, m) == IF y = 0 THEN 1 % m ELSE (x ^ y) % m

(* MPIntField; what IsInField checks is checked in debug builds only.       *)
MPIntFieldCall(m, op, x, y) ==
    CASE op = "Add" -> <<(x + y) % m>>
      [] op = "Sub" -> <<(x - y) % m>>
      [] op = "Mul" -> <<(x * y) % m>>
      [] op = "Neg" -> <<IF x = 0 THEN x ELSE m - x>>
      [] op = "NegInplace" -> <<IF x = 0 THEN x ELSE (m + (-x)) % m>>
      [] op = "Inv" -> FieldInvertMod(x, m)
      [] op = "Div" -> IF FieldInvertMod(y, m) = <<>> THEN <<>> ELSE <<(x * FieldInvertMod(y, m)[1]) % m>>
      [] op = "Pow" -> <<PowMod(x, y, m)>>
(* MclField of degree 1: MCL's functions on the modulus of the moment.  Its *)
(* division by zero gives zero.                                             *)
MclFieldCall(m, op, x, y) ==
    CASE op = "Add" -> <<(x + y) % m>>
      [] op = "Sub" -> <<(x - y) % m>>
      [] op = "Mul" -> <<(x * y) % m>>
      [] op \in {"Neg", "NegInplace"} -> <<(-x) % m>>
      [] op = "Inv" -> IF x % m = 0 THEN <<0>> ELSE FieldInvertMod(x, m)
      [] op = "Div" -> IF y % m = 0 THEN <<0>> ELSE <<(x * FieldInvertMod(y, m)[1]) % m>>
      [] op = "Pow" -> <<PowMod(x, y, m)>>
FieldCall(base, f, op, x, y) ==
    IF f.lib = "mpint" THEN MPIntFieldCall(f.mod, op, x, y) ELSE MclFieldCall(base[f.size], op, x, y)

(* MclField::Serialize and DeserializeT, a byte holding 0 .. 3: as many     *)
(* bytes as the modulus of the moment has, lowest first.  DeserializeT does *)
(* not look whether MCL accepted the bytes: the element then stays zero.    *)
BASE_FP_SIZE(base, f) == CHOOSE n \in 1 .. 5 : base[f.size] < 4 ^ n /\ base[f.size] >= 4 ^ (n - 1)
MclFieldSerialize(base, f, x) == [i \in 1 .. BASE_FP_SIZE(base, f) |-> (x \div (4 ^ (i - 1))) % 4]
MclFieldDeserialize(base, f, buf) ==
    LET v == MapThenSumSet(LAMBDA i : buf[i] * (4 ^ (i - 1)), DOMAIN buf)
    IN  IF Len(buf) = BASE_FP_SIZE(base, f) /\ v < base[f.size] THEN v ELSE 0

-----------------------------------------------------------------------------
(* IntrinsicField.                                                          *)
reduce_64(x) ==
    LET t1 == clmul(kGfMod64, Hi(x))
        t2 == clmul(kGfMod64, Hi(t1))
    IN  Lo(Xor(Xor(x, t1), t2))
cl_mul_128(x, y) ==
    LET mid == Xor(clmul(Lo(x), Hi(y)), clmul(Hi(x), Lo(y)))
    IN  [high |-> Xor(clmul(Hi(x), Hi(y)), Shr(mid, 64)), low |-> Xor(clmul(Lo(x), Lo(y)), Shl(128, mid, 64))]
reduce_128Once(high, low) == Xor(low, cl_mul_128(high, kGfMod128).low)
reduce_128(high, low) ==
    LET p == cl_mul_128(high, kGfMod128) IN Xor(Xor(low, p.low), cl_mul_128(p.high, kGfMod128).low)
IntrinsicMul64(x, y) == reduce_64(clmul(x, y))
IntrinsicMul128(x, y) == LET p == cl_mul_128(x, y) IN reduce_128(p.high, p.low)
(* The addition chain of Inv for 64 bits, a multiplication at a time, and   *)
(* the loop of Pow, whose test for the last bit cannot succeed inside it.   *)
IntrinsicInvStart(x) ==
    LET sq == IntrinsicMul64(x, x)  t2 == IntrinsicMul64(sq, x) IN [t0 |-> t2, t1 |-> sq, t2 |-> t2, n |-> 2, left |-> 2]
IntrinsicInvStep(s) ==
    IF s.left > 0 THEN [s EXCEPT !.t0 = IntrinsicMul64(@, @), !.left = @ - 1]
    ELSE LET t2 == IntrinsicMul64(s.t2, s.t0)
         IN  [t0 |-> t2, t1 |-> IntrinsicMul64(s.t1, s.t0), t2 |-> t2, n |-> 2 * s.n, left |-> 2 * s.n]
IntrinsicInvOver(s) == s.n = 32 /\ s.left = 0
IntrinsicPowStep(s) ==
    [i |-> s.i \div 2, res |-> IF s.i = 1 THEN IntrinsicMul64(s.res, s.copy) ELSE s.res,
     copy |-> IntrinsicMul64(s.copy, s.copy)]

(* GFScalarSketch::Equal of two vectors: parallel_for gives each piece of   *)
(* the positions to a thread, which stops at the first difference anyone    *)
(* found.  Vectors of two lengths are not compared.                         *)
Pieces(n) == {<<1, n \div 2>>, <<(n \div 2) + 1, n>>}
EqualStepBlind(s, t) ==
    IF s.at[t] > t[2] THEN [s EXCEPT !.done = @ \union {t}]
    ELSE [s EXCEPT !.res = (s.x[s.at[t]] = s.y[s.at[t]]), !.at[t] = @ + 1]
EqualStep(s, t) ==
    IF s.at[t] > t[2] \/ ~s.res THEN [s EXCEPT !.done = @ \union {t}]
    ELSE IF s.x[s.at[t]] # s.y[s.at[t]] THEN [s EXCEPT !.res = FALSE, !.done = @ \union {t}]
    ELSE [s EXCEPT !.at[t] = @ + 1]
EqualCall(x, y) ==
    IF Len(x) # Len(y) THEN [kind |-> "equal", x |-> x, y |-> y, res |-> FALSE, at |-> <<>>, done |-> {}]
    ELSE [kind |-> "equal", x |-> x, y |-> y, res |-> TRUE, at |-> [t \in Pieces(Len(x)) |-> t[1]], done |-> {}]

-----------------------------------------------------------------------------
(* A caller.                                                                *)
FldOptions(s) == {<<>>} \union {<<v>> : v \in s}
FldRequests ==
    [mod : FldOptions(FldPrimes \union FldComposite), degree : FldOptions({1, 2, 4, 12, 64, 128}),
     bits : FldOptions({256, 384, 512}), lib : FldOptions(FieldLibs)]
(* MCL is not given a composite modulus: what it does then is its own.      *)
FldSensible(name, a) == FieldLibOf(name, a) = <<"libmcl">> => a.mod \in FldOptions(FldPrimes)

(* The requests of a program that uses several fields.                      *)
FldUsual ==
    LET ask(mod, degree, bits, lib) == [mod |-> <<mod>>, degree |-> <<degree>>, bits |-> <<bits>>, lib |-> <<lib>>]
    IN  {<<"GF_p", ask(m, 1, b, "libmcl")>> : m \in FldPrimes, b \in {256, 512}}
        \union {<<"GF_p", ask(m, 1, 512, "mpint")>> : m \in FldPrimes}
        \union {<<"GF_p^k", ask(m, 2, 512, "libmcl")>> : m \in FldPrimes}

Edges64 == {{0}, {63}, {0, 62, 63}, {i \in 0 .. 63 : i % 3 = 1}}
Edges128 == {{}, {63, 64}, 0 .. 127}

FldInit ==
    \/ \E name \in FieldNames : \E a \in FldRequests :
          FldSensible(name, a) /\ Start("field", [kind |-> "create", name |-> name, a |-> a, f |-> CreateField(name, a)])
    \/ Start("field", [kind |-> "fields", base |-> [s \in {256, 512} |-> 0], f |-> <<>>, v |-> <<>>, want |-> <<>>,
                       right |-> <<>>, overtaken |-> <<>>, calls |-> 0])
    \/ \E n, m \in 0 .. 4 : \E x \in [1 .. n -> {0, 1}] : \E y \in [1 .. m -> {0, 1}] : Start("field", EqualCall(x, y))
    \/ \E x, y \in Edges64 : Start("field", [kind |-> "mul64", x |-> x, y |-> y, out |-> {}])
    \/ \E x, y \in Edges128 : Start("field", [kind |-> "mul128", x |-> x, y |-> y, out |-> {}])
    \/ \E x \in Edges64 : Start("field", [kind |-> "inv", x |-> x, s |-> IntrinsicInvStart(x)])
    \/ \E y \in 0 .. 5 : Start("field", [kind |-> "pow", y |-> y, s |-> [i |-> y, res |-> {0}, copy |-> {1}]])

(* A new field overtakes the ones of its type that have another modulus,    *)
(* and hands the type back to those that have the same one.                 *)
SameType(f, g) == f.lib = "libmcl" /\ g.lib = "libmcl" /\ f.size = g.size
FldCreate ==
    /\ st.kind = "fields" /\ Len(st.f) < FldCreations
    /\ \E ask \in FldUsual :
         LET f == CreateField(ask[1], ask[2])[1]
             overtaken == [i \in DOMAIN st.f |-> IF SameType(st.f[i], f) THEN st.f[i].mod # f.mod ELSE st.overtaken[i]]
         IN  Step("field", [st EXCEPT !.base = IF f.lib = "libmcl" THEN MclInit(@, f) ELSE @, !.f = Append(@, f),
                                      !.v = Append(@, 1), !.want = Append(@, 1), !.right = Append(@, TRUE),
                                      !.overtaken = Append(overtaken, FALSE)])

(* The value plain algebra modulo the field's own order gives; a division   *)
(* by zero may throw, and gives nothing a caller could expect.              *)
Algebra(m, op, x, y) ==
    CASE op = "Add" -> {(x + y) % m}
      [] op = "Sub" -> {z \in 0 .. m - 1 : (z + y) % m = x}
      [] op = "Mul" -> {(x * y) % m}
      [] op \in {"Neg", "NegInplace"} -> {z \in 0 .. m - 1 : (z + x) % m = 0}
      [] op = "Inv" -> {z \in 0 .. m - 1 : (z * x) % m = 1}
      [] op = "Div" -> {z \in 0 .. m - 1 : (z * y) % m = x}
      [] op = "Pow" -> {IF y = 0 THEN 1 ELSE (x ^ y) % m}
FldCallOn ==
    /\ st.kind = "fields" /\ st.calls < FldOps
    /\ \E i \in {j \in DOMAIN st.f : st.f[j].degree = 1} :
       \E op \in {"Add", "Sub", "Mul", "Div", "Neg", "NegInplace", "Inv", "Pow"} :
       \E y \in (IF op \in {"Neg", "NegInplace", "Inv"} THEN {0} ELSE 0 .. st.f[i].mod - 1) :
         LET f == st.f[i]
             r == FieldCall(st.base, f, op, st.v[i], y)
             e == Algebra(f.mod, op, st.want[i], y)
         IN  /\ r # <<>> /\ Cardinality(e) = 1
             /\ LET right == st.right[i] /\ ~st.overtaken[i]
                IN  Step("field", [st EXCEPT !.v[i] = IF right THEN r[1] ELSE 0, !.right[i] = right, !.calls = @ + 1,
                                             !.want[i] = IF right THEN CHOOSE z \in e : TRUE ELSE 0])

EqualThread == st.kind = "equal" /\ \E t \in DOMAIN st.at \ st.done : Step("field", EqualStep(st, t))
IntrinsicMul ==
    /\ st.kind \in {"mul64", "mul128"}
    /\ Step("field", [st EXCEPT !.kind = "done_" \o @,
                                !.out = IF st.kind = "mul64" THEN IntrinsicMul64(st.x, st.y) ELSE IntrinsicMul128(st.x, st.y)])
IntrinsicInv ==
    /\ st.kind = "inv"
    /\ Step("field", IF IntrinsicInvOver(st.s) THEN [kind |-> "done_inv", x |-> st.x, out |-> IntrinsicMul64(st.s.t0, st.s.t1)]
                     ELSE [st EXCEPT !.s = IntrinsicInvStep(@)])
IntrinsicPow ==
    /\ st.kind = "pow"
    /\ Step("field", IF st.s.i >= 2 THEN [st EXCEPT !.s = IntrinsicPowStep(@)] ELSE [kind |-> "done_pow", y |-> st.y, out |-> st.s.res])
FldNext ==
    part = "field" /\ (FldCreate \/ FldCallOn \/ EqualThread \/ IntrinsicMul \/ IntrinsicInv \/ IntrinsicPow)

-----------------------------------------------------------------------------
(* A field that was created is the one asked for: the name, the modulus and *)
(* the degree, which for a prime field is 1 whatever was said, and a prime  *)
(* modulus.  (MPIntField accepts a prime field of another degree.)          *)
CreatedAsAsked ==
    part = "field" /\ st.kind = "create" /\ st.f # <<>> =>
        LET f == st.f[1]
        IN  /\ f.name = st.name
            /\ st.name # "GF_2^k" => f.mod = st.a.mod[1] /\ f.mod \in FldPrimes
            /\ f.degree = IF st.name = "GF_p" THEN 1 ELSE st.a.degree[1]

(* A library whose Check accepts a request that has a modulus creates the   *)
(* field, in all but two cases: the binary field of a degree that has no    *)
(* word, and a modulus that is no prime.                                    *)
AcceptedMeansCreated ==
    part = "field" /\ st.kind = "create" =>
        \A lib \in FieldLibs :
            FieldCheck(lib, st.name, st.a) = "yes" /\ st.a.mod # <<>> =>
                \/ FieldCreate(lib, st.name, st.a) # <<>>
                \/ lib = "intel" /\ st.a.degree \notin {<<64>>, <<128>>}
                \/ lib = "mpint" /\ st.a.mod[1] \in FldComposite

(* Every field computes modulo its own order and says so, and its elements  *)
(* read back, however many others were created meanwhile: only an MCL field *)
(* of the same size and another modulus, an extension field included, takes *)
(* its modulus away.                                                        *)
FieldsComputeInTheirOrder ==
    part = "field" /\ st.kind = "fields" =>
        \A i \in {j \in DOMAIN st.f : st.f[j].degree = 1} :
            LET f == st.f[i]
            IN  /\ ~st.overtaken[i] => GetOrder(f) = <<GetBaseFieldOrder(st.base, f), 1>>
                /\ st.right[i] => st.v[i] = st.want[i] /\ st.v[i] < f.mod
                /\ st.right[i] /\ ~st.overtaken[i] /\ f.lib = "libmcl" =>
                       MclFieldDeserialize(st.base, f, MclFieldSerialize(st.base, f, st.v[i])) = st.v[i]

(* Two vectors are found equal when they are, in whatever order the threads *)
(* of the loop look and stop.                                               *)
EqualMeansEqual ==
    part = "field" /\ st.kind = "equal" =>
        /\ st.done = DOMAIN st.at => st.res = (st.x = st.y)
        /\ ~st.res => st.x # st.y

(* The products and inverses of the binary fields.  (Pow of the 64-bit one  *)
(* is 1 whatever the exponent, that of the 128-bit one throws, and with it  *)
(* Inv.)                                                                    *)
IntrinsicArithmeticRight ==
    part = "field" =>
        /\ st.kind = "done_mul64" => st.out = PolyRem(64, kGfMod64, clmul(st.x, st.y))
        /\ st.kind = "done_mul128" => st.out = PolyRem(128, kGfMod128, clmul(st.x, st.y))
        /\ st.kind = "done_inv" => IntrinsicMul64(st.out, st.x) = {0}
=============================================================================
