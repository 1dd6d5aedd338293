------------------------------- MODULE MpInt --------------------------------
(* math/mpint: an MPInt over libtommath's mp_int, its setters and getters   *)
(* and its byte formats.  A digit has MP_DIGIT_BIT bits (60 in the code)    *)
(* and a byte CHAR_BIT (8); as there, a digit is not a whole number of      *)
(* bytes but an even number of half ones.                                   *)
EXTENDS Integers, Sequences, FiniteSets, SequencesExt, FiniteSetsExt, Scenario

CONSTANTS MP_DIGIT_BIT, CHAR_BIT,
          MpCalls         \* calls on the MPInt

DigitMod == 2 ^ MP_DIGIT_BIT
ByteMod == 2 ^ CHAR_BIT
UpDiv(a, b) == (a + b - 1) \div b

(* mp_int: the allocated digits, least first, how many are in use, the sign.*)
mpx_init == [dp |-> <<>>, used |-> 0, neg |-> FALSE]
DigitsOf(v, n) == [k \in 1 .. n |-> (v \div DigitMod ^ (k - 1)) % DigitMod]
MagOf(a) == MapThenSumSet(LAMBDA k : a.dp[k] * DigitMod ^ (k - 1), 1 .. a.used)
ValueOf(a) == IF a.neg THEN -MagOf(a) ELSE MagOf(a)

mp_grow(a, n) == [a EXCEPT !.dp = @ \o [k \in 1 .. Max({0, n - Len(@)}) |-> 0]]
mp_clamp(a) == LET n == Max({0} \cup {k \in 1 .. a.used : a.dp[k] # 0})
               IN  [a EXCEPT !.used = n, !.neg = @ /\ n > 0]
mp_zero(a) == [dp |-> [k \in DOMAIN a.dp |-> 0], used |-> 0, neg |-> FALSE]
Stored(a, ds) == [a EXCEPT !.dp = [k \in DOMAIN @ |-> IF k <= Len(ds) THEN ds[k] ELSE @[k]], !.used = Len(ds)]

-----------------------------------------------------------------------------
(* mpx_set_u and mpx_set_i of a type of some width, mpx_get_mag and         *)
(* mpx_get_i.                                                               *)
SetUnsigned(a, b, bits) ==
    LET g == mp_grow(a, UpDiv(bits, MP_DIGIT_BIT))
        n == Cardinality({k \in 0 .. UpDiv(bits, MP_DIGIT_BIT) - 1 : b \div DigitMod ^ k # 0})
    IN  [dp |-> [k \in DOMAIN g.dp |-> IF k <= n THEN DigitsOf(b, n)[k] ELSE 0], used |-> n, neg |-> FALSE]
SetSigned(a, b, bits) == [SetUnsigned(a, IF b < 0 THEN (-b) % 2 ^ bits ELSE b, bits) EXCEPT !.neg = b < 0]
GetMagOne(a, bits) == IF a.used = 0 THEN 0 ELSE a.dp[1] % 2 ^ bits
GetMag(a, bits) ==
    LET n == Min({a.used, UpDiv(bits, MP_DIGIT_BIT)})
    IN  IF bits <= MP_DIGIT_BIT THEN IF n = 0 THEN 0 ELSE a.dp[1] % 2 ^ bits
        ELSE FoldLeft(LAMBDA r, d : (r * DigitMod + d) % 2 ^ bits, 0, Reverse(SubSeq(a.dp, 1, n)))
AsSigned(v, bits) == IF v % 2 ^ bits >= 2 ^ (bits - 1) THEN (v % 2 ^ bits) - 2 ^ bits ELSE v % 2 ^ bits
GetSigned(a, bits) == AsSigned(IF a.neg THEN -GetMag(a, bits) ELSE GetMag(a, bits), bits)
MPIntGet(a, signed, bits) == IF signed THEN GetSigned(a, bits) ELSE GetMag(a, bits)

mpx_get_bit(a, i) == IF i \div MP_DIGIT_BIT >= a.used THEN 0
                     ELSE (a.dp[(i \div MP_DIGIT_BIT) + 1] \div 2 ^ (i % MP_DIGIT_BIT)) % 2
SetBitUnclamped(a, i, bit) ==
    LET g == mp_grow(a, (i \div MP_DIGIT_BIT) + 1)
        loc == 2 ^ (i % MP_DIGIT_BIT)
        d == g.dp[(i \div MP_DIGIT_BIT) + 1]
    IN  [g EXCEPT !.used = Max({@, (i \div MP_DIGIT_BIT) + 1}), !.dp[(i \div MP_DIGIT_BIT) + 1] = d + (bit - ((d \div loc) % 2)) * loc]
mpx_set_bit(a, i, bit) ==
    LET limb == i \div MP_DIGIT_BIT
        loc == 2 ^ (i % MP_DIGIT_BIT)
        g == mp_grow(a, limb + 1)
        was == (g.dp[limb + 1] \div loc) % 2
    IN  mp_clamp([g EXCEPT !.used = Max({@, limb + 1}), !.dp[limb + 1] = @ + (bit - was) * loc])

(* The bits below bits of what the random source put into the digits.       *)
mpx_rand_bits(a, bits, source) ==
    LET n == UpDiv(bits, MP_DIGIT_BIT)
        g == mp_grow(a, n)
        cut(k) == IF k = n /\ bits % MP_DIGIT_BIT > 0 THEN source[k] % 2 ^ (bits % MP_DIGIT_BIT) ELSE source[k]
    IN  IF bits <= 0 THEN mp_zero(a)
        ELSE mp_clamp([dp |-> [k \in DOMAIN g.dp |-> IF k <= n THEN cut(k) ELSE 0], used |-> n, neg |-> FALSE])

-----------------------------------------------------------------------------
(* The position of the highest bit: the top digit filled with ones below    *)
(* it, 2^n - 1, multiplied by a magic number; bits 57 to 63 of the product  *)
(* are looked up.  Numbers of 64 bits are eight limbs of eight.             *)
Magic == <<107, 111, 150, 233, 24, 241, 4, 108>>
LimbBit(limbs, i) == IF i < 0 \/ i > 63 THEN 0 ELSE (limbs[(i \div 8) + 1] \div 2 ^ (i % 8)) % 2
ShiftedLimb(n, k) == MapThenSumSet(LAMBDA j : LimbBit(Magic, 8 * (k - 1) + j - n) * 2 ^ j, 0 .. 7)
bitPatternToLog2 ==
    <<0,  48, -1, -1, 31, -1, 15, 51, -1, 63, 5,  -1, -1, -1, 19, -1,
      23, 28, -1, -1, -1, 40, 36, 46, -1, 13, -1, -1, -1, 34, -1, 58,
      -1, 60, 2,  43, 55, -1, -1, -1, 50, 62, 4,  -1, 18, 27, -1, 39,
      45, -1, -1, 33, 57, -1, 1,  54, -1, 49, -1, 17, -1, -1, 32, -1,
      53, -1, 16, -1, -1, 52, -1, -1, -1, 64, 6,  7,  8,  -1, 9,  -1,
      -1, -1, 20, 10, -1, -1, 24, -1, 29, -1, -1, 21, -1, 11, -1, -1,
      41, -1, 25, 37, -1, 47, -1, 30, 14, -1, -1, -1, -1, 22, -1, -1,
      35, 12, -1, -1, -1, 59, 42, -1, -1, 61, 3,  26, 38, 44, -1, 56>>

(* What v |= v >> 1, ... v >> 32 makes of a number of n bits: ones from bit *)
(* to to bit n - 1.                                                         *)
FilledHalf(n) == Max({0, n - 32})
Filled(n) == 0
Product(n) ==     \* (2^n - 2^Filled(n)) * Magic, limb by limb with the borrow
    FoldLeft(LAMBDA acc, k : LET d == ShiftedLimb(n, k) - ShiftedLimb(Filled(n), k) - acc.borrow
                             IN  [limbs |-> Append(acc.limbs, d % 256), borrow |-> IF d < 0 THEN 1 ELSE 0],
             [limbs |-> <<>>, borrow |-> 0], <<1, 2, 3, 4, 5, 6, 7, 8>>).limbs
count_bits_debruijn(n) == bitPatternToLog2[(Product(n)[8] \div 2) + 1]

BitWidth(v) == CHOOSE w \in 0 .. 30 : v < 2 ^ w /\ (w > 0 => v >= 2 ^ (w - 1))
mpx_count_bits_fast(a) == IF a.used = 0 THEN 0 ELSE (a.used - 1) * MP_DIGIT_BIT + BitWidth(a.dp[a.used])

-----------------------------------------------------------------------------
(* Bytes, little endian; big endian is the same bytes the other way round.  *)
(* mpx_to_bytes gives two's complement: each round brings a digit into the  *)
(* cache and takes out the whole bytes, with what is left over put down too.*)
ToBytesRound(a, len, w, i) ==
    LET digit == IF i > a.used THEN 0 ELSE a.dp[i]
        ac == w.ac + (DigitMod - 1 - digit)
        x == IF a.neg THEN ac % DigitMod ELSE digit
        cache == w.cache + x * 2 ^ w.remain
        n == Min({(w.remain + MP_DIGIT_BIT) \div CHAR_BIT, len - w.pos})
        rest == cache \div ByteMod ^ n
        pos == w.pos + n
        bytes == [k \in 1 .. len |-> IF k > w.pos /\ k <= pos THEN (cache \div ByteMod ^ (k - w.pos - 1)) % ByteMod
                                     ELSE IF k = pos + 1 /\ rest > 0 THEN rest % ByteMod ELSE w.bytes[k]]
    IN  IF w.pos >= len THEN w
        ELSE [ac |-> IF a.neg THEN ac \div DigitMod ELSE 1, cache |-> rest, pos |-> pos, bytes |-> bytes,
              remain |-> w.remain + MP_DIGIT_BIT - n * CHAR_BIT]
mpx_to_bytes(a, len) ==
    FoldLeft(LAMBDA w, i : ToBytesRound(a, len, w, i),
             [ac |-> 1, cache |-> 0, remain |-> 0, pos |-> 0, bytes |-> [k \in 1 .. len |-> 0]],
             [i \in 1 .. UpDiv(len * CHAR_BIT, MP_DIGIT_BIT) |-> i]).bytes

(* mpx_to_mag_bytes: all digits but the last bring out whole bytes, the     *)
(* last one bytes as long as there is something in the cache.  <<>> stands  *)
(* for the buffer that is too small, else <<bytes>>.                        *)
MagBytesFloor(a) == mpx_count_bits_fast(a) \div CHAR_BIT
mpx_mag_bytes_size(a) == UpDiv(mpx_count_bits_fast(a), CHAR_BIT)
MagRound(w, d, last) ==
    LET cache == w.cache + d * 2 ^ w.remain
        n == IF last THEN UpDiv(BitWidth(cache), CHAR_BIT) ELSE (w.remain + MP_DIGIT_BIT) \div CHAR_BIT
    IN  [cache |-> cache \div ByteMod ^ n, remain |-> w.remain + MP_DIGIT_BIT - n * CHAR_BIT,
         bytes |-> w.bytes \o [k \in 1 .. n |-> (cache \div ByteMod ^ (k - 1)) % ByteMod]]
mpx_to_mag_bytes(a, len) ==
    IF a.used = 0 THEN <<<<>>>> ELSE IF len < mpx_mag_bytes_size(a) THEN <<>>
    ELSE <<FoldLeft(LAMBDA w, k : MagRound(w, a.dp[k], k = a.used), [cache |-> 0, remain |-> 0, bytes |-> <<>>],
                    [k \in 1 .. a.used |-> k]).bytes>>

(* A byte at a time into the cache, a digit out when there is one; what the *)
(* number used before and does not now is cleared.                          *)
FromRound(w, b) ==
    LET cache == w.cache + b * 2 ^ w.bits
        bits == w.bits + CHAR_BIT
    IN  IF bits >= MP_DIGIT_BIT
        THEN [ds |-> Append(w.ds, cache % DigitMod), cache |-> cache \div DigitMod, bits |-> bits - MP_DIGIT_BIT]
        ELSE [ds |-> w.ds, cache |-> cache, bits |-> bits]
Cleared(a, was) == [a EXCEPT !.dp = [k \in DOMAIN @ |-> IF k > a.used /\ k <= was THEN 0 ELSE @[k]]]
mpx_from_mag_bytes(a, bytes) ==
    LET b == IF bytes = <<>> THEN mp_zero(a) ELSE a
        g == mp_grow(b, UpDiv(Len(bytes) * CHAR_BIT, MP_DIGIT_BIT))
        w == FoldLeft(FromRound, [ds |-> <<>>, cache |-> 0, bits |-> 0], bytes)
        ds == IF w.cache > 0 THEN Append(w.ds, w.cache % DigitMod) ELSE w.ds
    IN  mp_clamp(Cleared([Stored(g, ds) EXCEPT !.neg = FALSE], g.used))

(* Serialize: the magnitude and, as the top bit of the last byte, the sign. *)
SerializeSizeTight(a) == Max({1, UpDiv(mpx_count_bits_fast(a), CHAR_BIT)})
mpx_serialize_size(a) == (mpx_count_bits_fast(a) \div CHAR_BIT) + 1
mpx_serialize(a) ==
    LET n == mpx_serialize_size(a)
        mag == mpx_to_mag_bytes(a, n)[1]
    IN  [k \in 1 .. n |-> (IF k <= Len(mag) THEN mag[k] ELSE 0) + (IF k = n /\ a.neg THEN ByteMod \div 2 ELSE 0)]
mpx_deserialize(a, bytes) ==
    LET m == mpx_from_mag_bytes(a, bytes)
        neg == Last(bytes) >= ByteMod \div 2
    IN  mpx_set_bit([m EXCEPT !.neg = neg], Len(bytes) * CHAR_BIT - 1, 0)

-----------------------------------------------------------------------------
(* An MPInt (a) and the number it should be (v).  The last call's name.     *)
Interesting == {0, 1} \cup {2 ^ k - 1 : k \in {3, 4, 6, 7, 8, 11, 12}} \cup {2 ^ k : k \in {3, 5, 6, 7, 11, 12}}
ByteStrings == {<<>>, <<0>>, <<7>>, <<8>>, <<15, 1>>, <<3, 8>>, <<0, 0, 2>>, <<1, 0, 0, 8>>, <<15, 15, 15>>, <<0, 0, 0>>}
BytesValue(bytes) == MapThenSumSet(LAMBDA k : bytes[k] * ByteMod ^ (k - 1), DOMAIN bytes)
WithBit(v, i, bit) == v + (bit - ((v \div 2 ^ i) % 2)) * 2 ^ i
MagSign(neg, mag) == IF neg THEN -mag ELSE mag

MpInit ==
    \/ Start("mpint", [kind |-> "int", a |-> mpx_init, v |-> 0, calls |-> 0])
    \/ \E n \in 0 .. 64 : Start("mpint", [kind |-> "bits", n |-> n, is |-> -1])
Became(a, v) == Step("mpint", [st EXCEPT !.a = a, !.v = v, !.calls = @ + 1])

MpSetUnsigned == \E bits \in {4, 8, 14} : \E b \in {x \in Interesting : x < 2 ^ bits} : Became(SetUnsigned(st.a, b, bits), b)
MpSetSigned == \E bits \in {4, 8, 14} : \E b \in {x \in Interesting : x < 2 ^ (bits - 1)} \cup {2 ^ (bits - 1)} :
    Became(SetSigned(st.a, -b, bits), -b)
MpSetBit == \E i \in {0, 5, 6, 12}, bit \in {0, 1} :
    Became(mpx_set_bit(st.a, i, bit), MagSign(st.v < 0, WithBit(IF st.v < 0 THEN -st.v ELSE st.v, i, bit)))
MpFromMagBytes == \E bytes \in ByteStrings : Became(mpx_from_mag_bytes(st.a, bytes), BytesValue(bytes))
MpDeserialize == \E bytes \in ByteStrings \ {<<>>} :
    LET neg == Last(bytes) >= ByteMod \div 2
    IN  Became(mpx_deserialize(st.a, bytes),
               MagSign(neg, BytesValue([bytes EXCEPT ![Len(bytes)] = @ % (ByteMod \div 2)])))
MpRandBits == \E bits \in {0, 5, 6, 8} : \E source \in {<<0, 0>>, <<63, 0>>, <<33, 63>>} :
    LET a == mpx_rand_bits(st.a, bits, source) IN Became(a, (source[1] + source[2] * DigitMod) % 2 ^ bits)
MpCountBits == st.kind = "bits" /\ st.is = -1 /\ Step("mpint", [st EXCEPT !.is = count_bits_debruijn(st.n)])

MpNext ==
    /\ part = "mpint"
    /\ \/ MpCountBits
       \/ /\ st.kind = "int" /\ st.calls < MpCalls
          /\ MpSetUnsigned \/ MpSetSigned \/ MpSetBit \/ MpFromMagBytes \/ MpDeserialize \/ MpRandBits

-----------------------------------------------------------------------------
(* After any sequence of setters an MPInt is the number last set, in the    *)
(* one form libtommath knows: no leading zero digit, no negative zero, and  *)
(* only zeros in the digits it does not use (which mpx_set_bit and mp_grow  *)
(* rely on).                                                                *)
MpCanonical ==
    part = "mpint" /\ st.kind = "int" =>
        /\ ValueOf(st.a) = st.v
        /\ st.a.used > 0 => st.a.dp[st.a.used] # 0
        /\ st.v = 0 => ~st.a.neg
        /\ \A k \in DOMAIN st.a.dp : k > st.a.used => st.a.dp[k] = 0

(* Get<T> gives the number whenever T can hold it, and the low bits of the  *)
(* magnitude otherwise; GetBit and BitCount are those of the magnitude.     *)
MpGetRight ==
    part = "mpint" /\ st.kind = "int" =>
        LET mag == IF st.v < 0 THEN -st.v ELSE st.v
        IN  /\ \A bits \in {4, 8, 14} : /\ MPIntGet(st.a, FALSE, bits) = mag % 2 ^ bits
                                        /\ st.v \in -(2 ^ (bits - 1)) .. 2 ^ (bits - 1) - 1 => MPIntGet(st.a, TRUE, bits) = st.v
            /\ \A i \in 0 .. 16 : mpx_get_bit(st.a, i) = (mag \div 2 ^ i) % 2
            /\ mpx_count_bits_fast(st.a) = BitWidth(mag)

(* ToBytes is two's complement in as many bytes as asked for, with the sign *)
(* in all the upper ones or the upper part cut off; ToMagBytes the shortest *)
(* magnitude.                                                               *)
MpBytesRight ==
    part = "mpint" /\ st.kind = "int" =>
        /\ \A len \in 0 .. 5 : mpx_to_bytes(st.a, len) = [k \in 1 .. len |-> ((st.v % 2 ^ (len * CHAR_BIT)) \div ByteMod ^ (k - 1)) % ByteMod]
        /\ LET mag == mpx_to_mag_bytes(st.a, mpx_mag_bytes_size(st.a))
           IN  /\ mag # <<>> /\ BytesValue(mag[1]) = (IF st.v < 0 THEN -st.v ELSE st.v)
               /\ Len(mag[1]) = mpx_mag_bytes_size(st.a) /\ (mag[1] # <<>> => Last(mag[1]) > 0)

(* Deserialize of Serialize is the number, whatever the MPInt held that it  *)
(* is read into.                                                            *)
MpSerializeBack ==
    part = "mpint" /\ st.kind = "int" =>
        \A old \in {mpx_init, SetSigned(mpx_init, -3000, 14), SetUnsigned(mpx_init, 70, 8)} :
            ValueOf(mpx_deserialize(old, mpx_serialize(st.a))) = st.v

(* count_bits_debruijn finds the width of every 64 bit number, although its *)
(* comment calls it a coincidence that it does for 2^n - 1.                 *)
DebruijnRight == part = "mpint" /\ st.kind = "bits" /\ st.is # -1 => st.is = st.n

-----------------------------------------------------------------------------
(* The powers of math/mpint: fixed-base tables in Montgomery form,          *)
(* double-and-add over any group, and the search for a safe prime.  Numbers *)
(* are their values; exponents are read digit by digit as in the code.      *)

CONSTANTS PowDigitBits,   \* MP_DIGIT_BIT
          PowDigits,      \* digits of the largest exponent
          PowByteBits,    \* CHAR_BIT
          DeltaLimit      \* 2^20: how far from a random q candidates are tried

PowDigit == 2 ^ PowDigitBits
ExpDigits(e) == IF e = 0 THEN <<>>
                ELSE LET n == Max({k \in 1 .. PowDigits : e >= PowDigit ^ (k - 1)})
                     IN  [k \in 1 .. n |-> (e \div PowDigit ^ (k - 1)) % PowDigit]
WidthOf(v) == CHOOSE w \in 0 .. 30 : v < 2 ^ w /\ (w > 0 => v >= 2 ^ (w - 1))
ModPower(b, e, m) == FoldLeft(LAMBDA a, k : (a * a * (IF (e \div 2 ^ (WidthOf(e) - k)) % 2 = 1 THEN b ELSE 1)) % m, 1 % m,
                              [k \in 1 .. WidthOf(e) |-> k])

-----------------------------------------------------------------------------
(* MontgomerySpace: the identity is R mod m; a number x is x R mod m and a  *)
(* product is reduced by R^-1.                                              *)
Moduli == {9, 13}
MontR(m) == (PowDigit ^ ((WidthOf(m) + PowDigitBits - 1) \div PowDigitBits)) % m
MontInv(m) == CHOOSE x \in 0 .. m - 1 : (x * MontR(m)) % m = 1
MontMulMod(m, a, b) == (((a * b) % m) * MontInv(m)) % m

(* MakeBaseTable: rows of 2^unit - 1 powers, each row starting with the     *)
(* next power after the last of the row before.                             *)
TableRows(unit, maxbits) == (maxbits + unit - 1) \div unit
PowMake ==
    /\ st.kind = "table" /\ st.rows < TableRows(st.unit, st.maxbits)
    /\ LET powers == FoldLeft(LAMBDA a, k : Append(a, MontMulMod(st.m, Last(a), st.now)), <<st.now>>,
                              [k \in 1 .. 2 ^ st.unit - 1 |-> k])
       IN  Step("mppow", [st EXCEPT !.stair = @ \o Front(powers), !.now = Last(powers), !.rows = @ + 1])

(* PowMod: the units of an exponent, one digit at a time; a unit may begin  *)
(* in one digit and end in the next.                                        *)
PowStart ==
    /\ st.kind = "table" /\ st.rows = TableRows(st.unit, st.maxbits)
    /\ \E e \in 0 .. 2 ^ (st.rows * st.unit) - 1 :
         /\ WidthOf(e) <= st.rows * st.unit /\ e < PowDigit ^ PowDigits
         /\ Step("mppow", [kind |-> "pow", m |-> st.m, base |-> st.base, unit |-> st.unit, stair |-> st.stair, e |-> e, at |-> 1,
                           out |-> MontR(st.m), level |-> 0, part |-> 0, start |-> 0])

StepUnit(s, u) == [s EXCEPT !.out = IF u > 0 THEN MontMulMod(s.m, @, s.stair[s.level + u]) ELSE @,
                            !.level = @ + 2 ^ s.unit - 1]
(* The low bits of the digit complete the unit begun in the one before.     *)
JoinUnitFirst(s, digit) == s.part
JoinUnit(s, digit) == s.part + ((digit * 2 ^ (s.unit - s.start)) % (2 ^ s.unit))
PowRound ==
    /\ st.kind = "pow" /\ st.at <= Len(ExpDigits(st.e))
    /\ LET digit == ExpDigits(st.e)[st.at]
           joined == IF st.start > 0 THEN StepUnit(st, JoinUnit(st, digit)) ELSE st
           rest == IF st.start > 0 THEN digit \div 2 ^ st.start ELSE digit
           n == Cardinality({k \in 0 .. PowDigitBits : st.start + k * st.unit <= PowDigitBits - st.unit})
           units == [k \in 1 .. n |-> (rest \div 2 ^ ((k - 1) * st.unit)) % 2 ^ st.unit]
           done == FoldLeft(StepUnit, joined, units)
           start == st.start + n * st.unit
       IN  Step("mppow", [done EXCEPT !.at = @ + 1, !.part = rest \div 2 ^ (n * st.unit),
                                      !.start = IF start = PowDigitBits THEN 0 ELSE start + st.unit - PowDigitBits])
PowEnd ==
    /\ st.kind = "pow" /\ st.at > Len(ExpDigits(st.e))
    /\ Step("mppow", [kind |-> "powdone", m |-> st.m, base |-> st.base, e |-> st.e,
                      out |-> IF st.start > 0 /\ st.part > 0 THEN StepUnit(st, st.part).out ELSE st.out])

-----------------------------------------------------------------------------
(* SlowCustomPow(identity, base, scalar, combine) in the integers mod       *)
(* CustomMod with +: all bits of all digits but the last, then the bits of  *)
(* the last as long as there are any.                                       *)
CustomMod == 1021
CustomDigit ==
    /\ st.kind = "custom" /\ st.at < Len(ExpDigits(st.e))
    /\ LET bits == [k \in 1 .. PowDigitBits |-> (ExpDigits(st.e)[st.at] \div 2 ^ (k - 1)) % 2]
           w == FoldLeft(LAMBDA a, b : [res |-> (a.res + b * a.s) % CustomMod, s |-> (2 * a.s) % CustomMod],
                         [res |-> st.res, s |-> st.s], bits)
       IN  Step("mppow", [st EXCEPT !.res = w.res, !.s = w.s, !.at = @ + 1])
LastBitsShort(d) == [k \in 1 .. WidthOf(d) - 1 |-> (d \div 2 ^ (k - 1)) % 2]
LastBits(d) == [k \in 1 .. WidthOf(d) |-> (d \div 2 ^ (k - 1)) % 2]
CustomLast ==
    /\ st.kind = "custom" /\ st.at = Len(ExpDigits(st.e))
    /\ LET w == FoldLeft(LAMBDA a, b : [res |-> (a.res + b * a.s) % CustomMod, s |-> (2 * a.s) % CustomMod],
                         [res |-> st.res, s |-> st.s], LastBits(ExpDigits(st.e)[st.at]))
       IN  Step("mppow", [st EXCEPT !.res = w.res, !.at = @ + 1])

-----------------------------------------------------------------------------
(* mpx_safe_prime_rand for p of psize bits.  small_primes and their product *)
(* scaled to the size of the numbers.                                       *)
SmallPrimes == {3, 5}
SmallPrimeProd == 15
is_co_prime(m) == \A s \in SmallPrimes : m = s \/ m % s # 0
is_prime_candidate(p) == is_co_prime(p % SmallPrimeProd)
is_pocklington_criterion_satisfied(p) == ModPower(2, p - 1, p) = 1
PrimeIs(v) == v > 1 /\ \A d \in 2 .. v - 1 : d * d > v \/ v % d # 0      \* mp_prime_is_prime

(* The masks over the random bytes, big endian: cut to qsize bits, the two  *)
(* highest and the two lowest set.  The second highest bit may be in the    *)
(* second byte.                                                             *)
SetBitIn(v, i) == IF (v \div 2 ^ i) % 2 = 1 THEN v ELSE v + 2 ^ i
MaskedQ(bytes, qsize) ==
    LET top == IF qsize % PowByteBits = 0 THEN PowByteBits ELSE qsize % PowByteBits
        b1 == [bytes EXCEPT ![1] = SetBitIn(@ % 2 ^ top, (qsize - 1) % PowByteBits)]
        at == IF qsize % PowByteBits = 1 THEN 2 ELSE 1
        b2 == [b1 EXCEPT ![at] = SetBitIn(@, PowByteBits - 1 - ((PowByteBits + 1 - qsize) % PowByteBits))]
    IN  [b2 EXCEPT ![Len(bytes)] = SetBitIn(SetBitIn(@, 0), 1)]
BytesAsNumber(bytes) == FoldLeft(LAMBDA a, b : a * 2 ^ PowByteBits + b, 0, bytes)

(* The first delta for which 2q + 1 may be prime, or the last that was      *)
(* tried; q = 1 mod 3 would make p a multiple of 3.                         *)
Deltas(q) == {d \in 0 .. DeltaLimit - 1 : /\ d % 2 = 0 /\ ((q % SmallPrimeProd) + d) % 3 # 1
                                          /\ is_co_prime((q % SmallPrimeProd) + d)}
ChosenDelta(q) == LET good == {d \in Deltas(q) : is_prime_candidate(2 * (q + d) + 1)}
                  IN  IF good = {} THEN Max(Deltas(q)) ELSE Min(good)
SafeDraw == \E bytes \in [1 .. (st.psize - 1 + PowByteBits - 1) \div PowByteBits -> {0, 5, 6, 7, 9, 15}] :
    /\ st.kind = "safe" /\ ~st.found
    /\ LET q0 == BytesAsNumber(MaskedQ(bytes, st.psize - 1))
       IN  Step("mppow", [st EXCEPT !.q0 = q0, !.q = q0 + ChosenDelta(q0), !.p = 2 * (q0 + ChosenDelta(q0)) + 1])
AcceptsPOnly(p, q) == is_pocklington_criterion_satisfied(p)
AcceptsP(p, q) == is_pocklington_criterion_satisfied(p) /\ PrimeIs(q)
SafeTest ==
    /\ st.kind = "safe" /\ ~st.found /\ st.q # 0
    /\ Step("mppow", IF AcceptsP(st.p, st.q) THEN [st EXCEPT !.found = TRUE] ELSE [st EXCEPT !.q = 0, !.p = 0, !.q0 = 0])

-----------------------------------------------------------------------------
PowInit ==
    \/ \E m \in Moduli, base \in {0, 2, 5}, unit \in 1 .. PowDigitBits, maxbits \in {3, 5, 6} :
           Start("mppow", [kind |-> "table", m |-> m, base |-> base, unit |-> unit, maxbits |-> maxbits, rows |-> 0, stair |-> <<>>,
                           now |-> (base * MontR(m)) % m])
    \/ \E base \in {1, 7}, e \in 0 .. PowDigit ^ PowDigits - 1 :
           Start("mppow", [kind |-> "custom", base |-> base, e |-> e, res |-> 0, s |-> base, at |-> 1])
    \/ \E psize \in 6 .. 9 : Start("mppow", [kind |-> "safe", psize |-> psize, q0 |-> 0, q |-> 0, p |-> 0, found |-> FALSE])
PowNext ==
    /\ part = "mppow"
    /\ PowMake \/ PowStart \/ PowRound \/ PowEnd \/ CustomDigit \/ CustomLast \/ (st.kind = "safe" /\ (SafeDraw \/ SafeTest))

-----------------------------------------------------------------------------
(* A power from the table is the power, in Montgomery form, for every       *)
(* exponent the table takes and every unit width, whether or not units end  *)
(* where digits do (MakeBaseTable, PowMod).                                 *)
TablePowRight ==
    part = "mppow" /\ st.kind = "powdone" => st.out = (ModPower(st.base, st.e, st.m) * MontR(st.m)) % st.m

(* SlowCustomPow combines the base with itself scalar times.                *)
CustomPowRight ==
    part = "mppow" /\ st.kind = "custom" /\ st.at > Len(ExpDigits(st.e)) => st.res = (st.e * st.base) % CustomMod

(* The random q has exactly the bits asked for, the two highest of them and *)
(* the lowest set, so that p has psize bits; what is returned is a safe     *)
(* prime with its Sophie Germain prime, although only q is tested for being *)
(* prime (mpx_safe_prime_rand).                                             *)
SafePrimeRight ==
    part = "mppow" /\ st.kind = "safe" =>
        /\ st.q0 # 0 => st.q0 >= 3 * 2 ^ (st.psize - 3) /\ st.q0 < 2 ^ (st.psize - 1) /\ st.q0 % 4 = 3
        /\ st.found => PrimeIs(st.q) /\ PrimeIs(st.p) /\ st.p = 2 * st.q + 1

-----------------------------------------------------------------------------
(* math/mpint/mp_int.cc: MPInt as a C++ value.  Who owns the digits of the  *)
(* libtommath number behind it, the forms each operation comes in, the      *)
(* literals it is read from, and the loops that draw a random one.          *)

CONSTANTS MpaObjectCalls,   \* calls on a program's MPInt variables
          MpaMax,           \* operands are -MpaMax .. MpaMax
          MpaStringMax      \* characters of a literal

Abs(v) == IF v < 0 THEN -v ELSE v
MpaBits(v) == CHOOSE w \in 0 .. 12 : Abs(v) < 2 ^ w /\ (w > 0 => Abs(v) >= 2 ^ (w - 1))

-----------------------------------------------------------------------------
(* Memory.  dp is 0 (nullptr) or the digits the number owns, alloc how many *)
(* there are; a digit holds 0 .. 3.  heap is the digits allocated, and wild *)
(* whether anything was written through a null pointer.                     *)
DigitsIn(v) == CHOOSE n \in 0 .. 6 : Abs(v) < 4 ^ n /\ (n > 0 => Abs(v) >= 4 ^ (n - 1))
MpInitNull == [dp |-> 0, alloc |-> 0, v |-> 0]
UnusedCell(s) == Min(1 .. 9 \ s.heap)
(* mp_grow: more digits, in another place.                                  *)
MpGrow(s, x, n) ==
    IF s.obj[x].alloc >= n THEN s
    ELSE LET new == UnusedCell(s) IN [s EXCEPT !.heap = (@ \ {s.obj[x].dp}) \union {new}, !.obj[x].dp = new, !.obj[x].alloc = n]
(* The digits of v are written where dp points.                             *)
MpWrite(s, x, v) == [s EXCEPT !.obj[x].v = v, !.wild = @ \/ (s.obj[x].dp = 0 /\ DigitsIn(v) > 0)]
MpClear(s, x) == [s EXCEPT !.heap = @ \ {s.obj[x].dp}, !.obj[x] = MpInitNull]

CopyAssign(s, x, y) == MpWrite(MpGrow(s, x, DigitsIn(s.obj[y].v)), x, s.obj[y].v)
CopyConstruct(s, x, y) == CopyAssign(MpClear(s, x), x, y)
MoveConstructShared(s, x, y) == [MpClear(s, x) EXCEPT !.obj[x] = s.obj[y]]
MoveConstruct(s, x, y) == [MpClear(s, x) EXCEPT !.obj[x] = s.obj[y], !.obj[y].dp = 0]
MoveAssign(s, x, y) == [s EXCEPT !.obj[x] = s.obj[y], !.obj[y] = s.obj[x]]
(* mp_incr writes the first digit of zero without asking for room; mp_add   *)
(* and the like make room for their result.                                 *)
IncrOne(s, x) ==
    LET r == MpGrow(s, x, 1) IN MpWrite(IF r.obj[x].v = 0 THEN r ELSE MpGrow(r, x, DigitsIn(r.obj[x].v + 1)), x, r.obj[x].v + 1)
DecrOne(s, x) ==
    LET r == MpGrow(s, x, 1) IN MpWrite(IF r.obj[x].v = 0 THEN r ELSE MpGrow(r, x, DigitsIn(r.obj[x].v - 1)), x, r.obj[x].v - 1)
AddAssign(s, x, y) == LET v == s.obj[x].v + s.obj[y].v IN MpWrite(MpGrow(s, x, DigitsIn(v)), x, v)

MpaVars == {"a", "b", "c"}
(* want is the number each variable should be; of the variables in moved    *)
(* the program uses none except to destroy it or to move into it.           *)
MpaObjectStart == [kind |-> "object", obj |-> [x \in MpaVars |-> MpInitNull], heap |-> {}, wild |-> FALSE,
                   want |-> [x \in MpaVars |-> 0], moved |-> {}, calls |-> 0]
MpaDid(s, want, moved) == Step("mparith", [s EXCEPT !.want = want, !.moved = moved, !.calls = @ + 1])
MpaUsable == MpaVars \ st.moved
MpaCallable == st.kind = "object" /\ st.calls < MpaObjectCalls
MpaDestroy == MpaCallable /\ \E x \in MpaVars : MpaDid(MpClear(st, x), [st.want EXCEPT ![x] = 0], st.moved \ {x})
MpaCopy ==
    MpaCallable /\ \E x \in MpaVars, y \in MpaUsable : x # y /\
        MpaDid(CopyConstruct(st, x, y), [st.want EXCEPT ![x] = st.want[y]], st.moved \ {x})
MpaMove ==
    MpaCallable /\ \E x \in MpaVars, y \in MpaUsable : x # y /\
        MpaDid(MoveConstruct(st, x, y), [st.want EXCEPT ![x] = st.want[y], ![y] = 0], (st.moved \ {x}) \union {y})
MpaAssign ==
    MpaCallable /\ \E x \in MpaUsable, y \in MpaUsable : MpaDid(CopyAssign(st, x, y), [st.want EXCEPT ![x] = st.want[y]], st.moved)
MpaMoveAssign ==
    MpaCallable /\ \E x \in MpaVars, y \in MpaUsable : x # y /\
        MpaDid(MoveAssign(st, x, y), [st.want EXCEPT ![x] = st.want[y], ![y] = IF x \in st.moved THEN 0 ELSE st.want[x]],
               IF x \in st.moved THEN (st.moved \ {x}) \union {y} ELSE st.moved)
MpaCount ==
    MpaCallable /\ \E x \in MpaUsable : \/ MpaDid(IncrOne(st, x), [st.want EXCEPT ![x] = @ + 1], st.moved)
                                        \/ MpaDid(DecrOne(st, x), [st.want EXCEPT ![x] = @ - 1], st.moved)
MpaAdd ==
    MpaCallable /\ \E x, y \in MpaUsable : MpaDid(AddAssign(st, x, y), [st.want EXCEPT ![x] = @ + st.want[y]], st.moved)

-----------------------------------------------------------------------------
(* The operations.  <<>> is a throw.  libtommath's division cuts towards    *)
(* zero, its mod has the sign of the divisor, >> cuts the magnitude.        *)
mp_div(a, b) ==
    IF b = 0 THEN <<>>
    ELSE LET q == Abs(a) \div Abs(b)
             r == Abs(a) % Abs(b)
         IN  <<IF (a < 0) # (b < 0) THEN -q ELSE q, IF a < 0 THEN -r ELSE r>>
mp_mod(a, b) ==
    LET d == mp_div(a, b)
    IN  IF d = <<>> THEN <<>> ELSE <<IF d[2] # 0 /\ (d[2] < 0) # (b < 0) THEN d[2] + b ELSE d[2]>>
mp_expt(a, n) == IF n = 0 THEN 1 ELSE a ^ n
mp_invmod(a, m) ==
    LET hits == {x \in 0 .. m - 1 : (a * x) % m = 1 % m} IN IF m <= 0 \/ (m > 0 /\ hits = {}) THEN <<>> ELSE <<CHOOSE x \in hits : TRUE>>
Shift(a, n, left) == IF left THEN a * 2 ^ n ELSE IF a < 0 THEN -(Abs(a) \div 2 ^ n) ELSE a \div 2 ^ n

(* Two's complement, in as many bits as the operands need.                  *)
BitsOf(v) == {i \in 0 .. 7 : ((v % 256) \div 2 ^ i) % 2 = 1}
FromBitSet(bits) == MapThenSumSet(LAMBDA i : 2 ^ i, bits) - (IF 7 \in bits THEN 256 ELSE 0)
Div(a, b) == mp_div(a, b)
Div3(a) == IF a < 0 THEN -(Abs(a) \div 3) ELSE a \div 3

(* The operators, which build a new MPInt, and those that assign.           *)
Operator(op, a, b) ==
    CASE op = "+" -> <<a + b>>
      [] op = "-" -> <<a - b>>
      [] op = "*" -> <<a * b>>
      [] op = "/" -> IF Div(a, b) = <<>> THEN <<>> ELSE <<Div(a, b)[1]>>
      [] op = "%" -> mp_mod(a, b)
      [] op = "<<" -> <<Shift(a, b, TRUE)>>
      [] op = ">>" -> <<Shift(a, b, FALSE)>>
      [] op = "&" -> <<FromBitSet(BitsOf(a) \intersect BitsOf(b))>>
      [] op = "|" -> <<FromBitSet(BitsOf(a) \union BitsOf(b))>>
      [] op = "^" -> <<FromBitSet((BitsOf(a) \ BitsOf(b)) \union (BitsOf(b) \ BitsOf(a)))>>
OperatorAssignCut(op, a, b) ==
    IF op = "%" THEN (IF b = 0 THEN <<>> ELSE <<mp_div(a, b)[2]>>) ELSE Operator(op, a, b)
OperatorAssign(op, a, b) ==
    CASE op = "/" -> IF mp_div(a, b) = <<>> THEN <<>> ELSE <<mp_div(a, b)[1]>>
      [] op = "%" -> mp_mod(a, b)
      [] OTHER -> Operator(op, a, b)
(* Pow(a, n, &c), a.Pow(n) and a.PowInplace(n).                             *)
PowStatic(a, n) == IF n = 0 THEN <<1>> ELSE <<mp_expt(a, n)>>
PowMember(a, n) == IF n = 0 THEN (IF a = 0 THEN <<>> ELSE <<1>>) ELSE <<mp_expt(a, n)>>
PowInplace(a, n) == <<mp_expt(a, n)>>
(* The modular ones, in both forms, and InvertMod.                          *)
AddMod(a, b, m) == mp_mod(a + b, m)
SubMod(a, b, m) == mp_mod(a - b, m)
MulMod(a, b, m) == mp_mod(a * b, m)
InvertMpMod(a, m) == mp_invmod(a, m)
Gcd(a, b) == IF a = 0 /\ b = 0 THEN 0 ELSE Max({d \in 1 .. Max({Abs(a), Abs(b)}) : a % d = 0 /\ b % d = 0})
Lcm(a, b) == LET g == Gcd(a, b) IN IF g = 0 THEN <<>> ELSE <<(Abs(a) \div g) * Abs(b)>>
Compare(a, b) == IF a < b THEN -1 ELSE IF a > b THEN 1 ELSE 0

-----------------------------------------------------------------------------
(* A literal is a sequence of characters; a digit character has a value.    *)
DigitSeq == <<"0", "1", "2", "3", "4", "5", "6", "7", "8", "9", "a", "b", "c", "d", "e", "f">>
IsDigit(c) == \E i \in DOMAIN DigitSeq : DigitSeq[i] = c
DigitOf(c) == (CHOOSE i \in DOMAIN DigitSeq : DigitSeq[i] = c) - 1
MpaChars == {"0", "1", "7", "8", "a", "+", "-", "x"}
SeqValue(s, radix) == FoldLeft(LAMBDA v, c : v * radix + DigitOf(c), 0, s)
AllDigits(s, radix) == \A i \in DOMAIN s : IF IsDigit(s[i]) THEN DigitOf(s[i]) < radix ELSE FALSE
(* mp_read_radix: a minus, then digits up to the end; none is zero.         *)
mp_read_radix(s, radix) ==
    LET neg == s # <<>> /\ Head(s \o <<"0">>) = "-"
        body == IF neg THEN Tail(s) ELSE s
    IN  IF ~AllDigits(body, radix) THEN <<>> ELSE <<IF neg THEN -SeqValue(body, radix) ELSE SeqValue(body, radix)>>
(* MPInt::Set(num, 0).                                                      *)
SetUnsignedString(p) ==
    IF p = <<"0">> THEN <<0>>
    ELSE IF Head(p) # "0" THEN mp_read_radix(p, 10)
    ELSE IF Len(p) > 1 /\ p[2] = "x" THEN mp_read_radix(SubSeq(p, 3, Len(p)), 16)
    ELSE mp_read_radix(Tail(p), 8)
SetStringKeepsZeroSign(num) ==
    IF num = <<>> THEN <<>>
    ELSE IF Head(num) \notin {"+", "-"} THEN SetUnsignedString(num)
    ELSE IF Len(num) = 1 THEN <<>>
    ELSE LET r == SetUnsignedString(Tail(num)) IN IF r = <<>> THEN <<>> ELSE IF num[2] = "0" THEN r ELSE <<IF Head(num) = "-" THEN -r[1] ELSE r[1]>>
SetString(num) ==
    IF num = <<>> THEN <<>>
    ELSE IF Head(num) \notin {"+", "-"} THEN SetUnsignedString(num)
    ELSE IF Len(num) = 1 THEN <<>>
    ELSE LET r == SetUnsignedString(Tail(num))
         IN  IF r = <<>> THEN <<>> ELSE <<IF Head(num) = "-" THEN -r[1] ELSE r[1]>>
(* ToRadixString: at most four digits.                                      *)
ToRadixString(v, radix) ==
    LET n == Max({1} \union {k \in 1 .. 4 : Abs(v) >= radix ^ (k - 1)})
        digits == [k \in 1 .. n |-> DigitSeq[((Abs(v) \div radix ^ (n - k)) % radix) + 1]]
    IN  IF v < 0 THEN <<"-">> \o digits ELSE digits

-----------------------------------------------------------------------------
(* The random draws: RandomExactBits until the number fits.                 *)
RandomExactBits(n) == 0 .. 2 ^ n - 1
RandomLtNAgainLoose(n, r) == r > n
RandomLtNAgain(n, r) == r < 0 \/ Compare(r, n) >= 0
RandomMonicAgain(bits, r) == MpaBits(r) # bits
MpaDraw ==
    /\ st.kind \in {"ltn", "monic"} /\ st.drawn # "done"
    /\ \E r \in RandomExactBits(IF st.kind = "ltn" THEN MpaBits(st.n) ELSE st.n) :
         LET again == IF st.kind = "ltn" THEN RandomLtNAgain(st.n, r) ELSE RandomMonicAgain(st.n, r)
         IN  Step("mparith", [st EXCEPT !.r = r, !.drawn = IF again THEN "again" ELSE "done"])

MpaInit ==
    \/ Start("mparith", MpaObjectStart)
    \/ \E a, b \in -MpaMax .. MpaMax : Start("mparith", [kind |-> "op", a |-> a, b |-> b])
    \/ \E n \in 0 .. MpaStringMax : \E s \in [1 .. n -> MpaChars] : Start("mparith", [kind |-> "string", s |-> s])
    \/ \E n \in 1 .. 9 : Start("mparith", [kind |-> "ltn", n |-> n, r |-> 0, drawn |-> "no"])
    \/ \E n \in 1 .. 4 : Start("mparith", [kind |-> "monic", n |-> n, r |-> 0, drawn |-> "no"])
MpaNext ==
    /\ part = "mparith"
    /\ MpaDestroy \/ MpaCopy \/ MpaMove \/ MpaAssign \/ MpaMoveAssign \/ MpaCount \/ MpaAdd \/ MpaDraw

-----------------------------------------------------------------------------
(* However a program copies, moves, swaps and counts, as long as it does    *)
(* not use a variable it moved from: each variable is the number it should  *)
(* be, no digits have two owners or none, none are written through a null   *)
(* pointer, though MPInt() allocates nothing.                               *)
DigitsHaveOneOwner ==
    part = "mparith" /\ st.kind = "object" =>
        /\ ~st.wild
        /\ \A x \in MpaVars \ st.moved : st.obj[x].v = st.want[x] /\ (st.want[x] # 0 => st.obj[x].dp # 0)
        /\ st.heap = {st.obj[x].dp : x \in MpaVars} \ {0}
        /\ \A x, y \in MpaVars : x # y /\ st.obj[x].dp # 0 => st.obj[x].dp # st.obj[y].dp

(* a = (a / b) * b + the remainder of Div; a % b lies in [0, b), for a      *)
(* negative a too, and agrees with the modular operations; the operators    *)
(* that assign give what the others do, the bitwise ones two's complement;  *)
(* the forms of Pow agree but for 0^0, where one throws.                    *)
DivAndModRight ==
    part = "mparith" /\ st.kind = "op" =>
        LET a == st.a  b == st.b
        IN  /\ (b = 0) = (Div(a, b) = <<>>)
            /\ \A op \in {"+", "-", "*", "/", "%", "&", "|", "^"} : OperatorAssign(op, a, b) = Operator(op, a, b)
            /\ b # 0 => Operator("/", a, b)[1] * b + Div(a, b)[2] = a /\ Abs(Div(a, b)[2]) < Abs(b)
            /\ b > 0 => /\ OperatorAssign("%", a, b) = <<a % b>> /\ AddMod(a, a, b) = <<(2 * a) % b>>
                        /\ SubMod(0, a, b) = <<(-a) % b>> /\ MulMod(a, a, b) = <<(a * a) % b>>
                        /\ InvertMpMod(a, b) # <<>> <=> Gcd(a, b) = 1
            /\ b = 3 => Operator("/", a, b) = <<Div3(a)>>
            /\ Operator("^", a, b)[1] + 2 * Operator("&", a, b)[1] = a + b
            /\ Operator("|", a, b)[1] + Operator("&", a, b)[1] = a + b
            /\ b \in 0 .. 3 => /\ Operator(">>", Operator("<<", a, b)[1], b) = <<a>>
                               /\ PowStatic(a, b) = PowInplace(a, b)
                               /\ PowMember(a, b) = IF a = 0 /\ b = 0 THEN <<>> ELSE PowStatic(a, b)
            /\ a # 0 \/ b # 0 => Gcd(a, b) * Lcm(a, b)[1] = Abs(a * b)

(* Every literal of a whole number is read as the number it stands for:     *)
(* decimal, octal after a 0, hexadecimal after 0x, with or without a sign;  *)
(* and a character that is no digit of its radix is refused.  (A second     *)
(* minus is accepted, and 0x alone is zero.)  What ToString and ToHexString *)
(* write is read back.                                                      *)
LiteralsRead ==
    /\ part = "mparith" /\ st.kind = "op" =>
        LET v == 37 * st.a + st.b
        IN  SetString(ToRadixString(v, 10)) = <<v>> /\ mp_read_radix(ToRadixString(v, 16), 16) = <<v>>
    /\ part = "mparith" /\ st.kind = "string" =>
        LET s == st.s
            sign == IF s # <<>> /\ Head(s \o <<"0">>) \in {"+", "-"} THEN 1 ELSE 0
            body == SubSeq(s, sign + 1, Len(s))
            hex == Len(body) > 2 /\ SubSeq(body, 1, 2) = <<"0", "x">>
            octal == Len(body) > 1 /\ Head(body \o <<"0">>) = "0" /\ body[2] # "x"
            radix == IF hex THEN 16 ELSE IF octal THEN 8 ELSE 10
            digits == SubSeq(body, IF hex THEN 3 ELSE 1, Len(body))
            value == SeqValue(digits, radix)
        IN  IF digits # <<>> /\ AllDigits(digits, radix)
            THEN SetString(s) = <<IF Head(s) = "-" THEN -value ELSE value>>
            ELSE \/ SetString(s) = <<>>
                 \/ \E i \in 1 .. 4 : i <= Len(s) /\ s[i] = "-" /\ AllDigits(SubSeq(s, i + 1, Len(s)), 16)
                 \/ body = <<"0", "x">>

(* RandomLtN ends with a number in [0, n), RandomMonicExactBits with one of *)
(* exactly that many bits, and every draw can be the last.                  *)
DrawsInRange ==
    part = "mparith" /\ st.kind \in {"ltn", "monic"} =>
        /\ st.drawn = "done" => IF st.kind = "ltn" THEN st.r \in 0 .. st.n - 1 ELSE st.r \in 2 ^ (st.n - 1) .. 2 ^ st.n - 1
        /\ st.kind = "ltn" => \A r \in 0 .. st.n - 1 : r \in RandomExactBits(MpaBits(st.n)) /\ ~RandomLtNAgain(st.n, r)
=============================================================================
