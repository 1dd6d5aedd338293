---------------------------- MODULE DynamicBitset ----------------------------
(* yacl::dynamic_bitset (utils/dynamic_bitset.h): a vector of bits kept in  *)
(* blocks of bits_per_block bits.  The state is m_blocks and m_bits_number, *)
(* as in the class, and bits, a history variable: the plain sequence of     *)
(* bits that a client of the class believes it holds.                       *)
EXTENDS Scenario, Sequences, SequencesExt

CONSTANTS bits_per_block,    \* width of block_type
          U128Bits,          \* width of the uint128_t a bitset is built from
          BsMaxBits          \* bound on the length of the bitsets

one_block == Ones(bits_per_block)

blocks_required(nbits) ==
    nbits \div bits_per_block + (IF nbits % bits_per_block > 0 THEN 1 ELSE 0)
block_index(pos) == pos \div bits_per_block
bit_index(pos) == pos % bits_per_block
bit_mask(pos) == {bit_index(pos)}

(* bit_mask(first, last): one_block << first, or the difference of two      *)
(* blocks of low ones.                                                      *)
bit_mask_range(first, last) ==
    LET f == bit_index(first)
        l == bit_index(last)
    IN  IF l = bits_per_block - 1
        THEN Shl(bits_per_block, one_block, f)
        ELSE Xor(0 .. l, 0 .. f - 1)

Extra(n) == bit_index(n)                        \* extra_bits_number
Unused(n) == bits_per_block - Extra(n)          \* unused_bits_number

(* Clears the bits of the last block above m_bits_number.                   *)
sanitize(b, n) ==
    IF Extra(n) > 0
    THEN [b EXCEPT ![Len(b)] = @ \ Shl(bits_per_block, one_block, Extra(n))]
    ELSE b

check_consistency(b, n) ==
    /\ Extra(n) > 0 => b[Len(b)] \cap Shl(bits_per_block, one_block, Extra(n)) = {}
    /\ blocks_required(n) = Len(b)

-----------------------------------------------------------------------------
(* Operations on the blocks.                                                *)

ctor_u128(nbits, init_val) ==
    LET zero == [i \in 1 .. blocks_required(nbits) |-> {}]
        toInit == Min({Len(zero), U128Bits \div bits_per_block})
    IN  IF nbits = 0 \/ init_val = {} THEN zero
        ELSE sanitize([i \in DOMAIN zero |->
                         IF i > toInit THEN {}
                         ELSE Shr(init_val, (i - 1) * bits_per_block) \cap one_block],
                      nbits)

resize(b, n, nbits, value) ==
    LET oldNum == Len(b)
        newNum == blocks_required(nbits)
        init == IF value THEN one_block ELSE {}
        sized == [i \in 1 .. newNum |-> IF i <= oldNum THEN b[i] ELSE init]
        filled == IF value /\ nbits > n /\ oldNum > 0 /\ Extra(n) > 0
                  THEN [sized EXCEPT ![oldNum] = @ \cup
                                       Shl(bits_per_block, init, Extra(n))]
                  ELSE sized
    IN  IF nbits = n THEN b ELSE sanitize(filled, nbits)

set_bit(b, pos, value) ==
    [b EXCEPT ![block_index(pos) + 1] =
        IF value THEN @ \cup bit_mask(pos) ELSE @ \ bit_mask(pos)]

push_back(b, n, value) ==
    IF n + 1 <= Len(b) * bits_per_block
    THEN IF value THEN set_bit(b, n, value) ELSE b
    ELSE Append(b, IF value THEN {0} ELSE {})

(* The popped bit stays set in the unused bits.                             *)
pop_backDirty(b, n) ==
    IF n = 0 THEN b ELSE IF Len(b) > blocks_required(n - 1) THEN Front(b) ELSE b

pop_back(b, n) ==
    IF n = 0 THEN b
    ELSE IF Len(b) > blocks_required(n - 1) THEN Front(b)
         ELSE sanitize(b, n - 1)

(* The bits that do not fit in the old last block are dropped.              *)
append_blockCut(b, n, block) ==
    IF Extra(n) = 0 THEN Append(b, block)
    ELSE Append([b EXCEPT ![Len(b)] = @ \cup Shl(bits_per_block, block, Extra(n))], {})

append_block(b, n, block) ==
    IF Extra(n) = 0 THEN Append(b, block)
    ELSE Append([b EXCEPT ![Len(b)] = @ \cup Shl(bits_per_block, block, Extra(n))],
                Shr(block, bits_per_block - Extra(n)))

(* append(first, last): with extra bits every new block is spread over two, *)
(* the high part of one and the low part of the next sharing a block.       *)
append_range(b, n, new) ==
    IF new = <<>> THEN b
    ELSE IF Extra(n) = 0 THEN b \o new
    ELSE LET high(i) == Shr(new[i], Unused(n))
             low(i) == Shl(bits_per_block, new[i], Extra(n))
         IN  [b EXCEPT ![Len(b)] = @ \cup low(1)]
             \o [i \in 1 .. Len(new) |->
                   IF i < Len(new) THEN high(i) \cup low(i + 1) ELSE high(i)]

(* append(other) copies other's blocks and cuts the tail off; when other is *)
(* the bitset itself, the blocks are read one by one while it grows, so the *)
(* last of them is read after the first append has filled its unused bits.  *)
append_other(b, n, other, othern) ==
    resize(append_range(b, n, other), n + Len(other) * bits_per_block,
           n + othern, FALSE)

append_self(b, n) ==
    LET num == Len(b)
        grown[i \in 0 .. num] ==
            IF i = 0 THEN b
            ELSE append_block(grown[i - 1], n + (i - 1) * bits_per_block, grown[i - 1][i])
    IN  resize(grown[num], n + num * bits_per_block, 2 * n, FALSE)

apply_left_shift(b, shift) ==
    LET bs == shift \div bits_per_block
        off == shift % bits_per_block
        L(i) == b[i + 1]
    IN  [k \in DOMAIN b |->
           LET i == k - 1
           IN  CASE i < bs -> {}
                 [] i >= bs /\ off = 0 -> L(i - bs)
                 [] i > bs /\ off # 0 ->
                      Shl(bits_per_block, L(i - bs), off)
                        \cup Shr(L(i - bs - 1), bits_per_block - off)
                 [] i = bs /\ off # 0 -> Shl(bits_per_block, L(0), off)]

apply_right_shift(b, shift) ==
    LET bs == shift \div bits_per_block
        off == shift % bits_per_block
        last == Len(b) - bs - 1
        L(i) == b[i + 1]
    IN  [k \in DOMAIN b |->
           LET i == k - 1
           IN  CASE i > last -> {}
                 [] i <= last /\ off = 0 -> L(i + bs)
                 [] i < last /\ off # 0 ->
                      Shr(L(i + bs), off)
                        \cup Shl(bits_per_block, L(i + bs + 1), bits_per_block - off)
                 [] i = last /\ off # 0 -> Shr(L(Len(b) - 1), off)]

reset_all(b) == [i \in DOMAIN b |-> {}]

shift_left(b, n, shift) ==
    IF shift = 0 THEN b
    ELSE IF shift >= n THEN reset_all(b)
    ELSE sanitize(apply_left_shift(b, shift), n)

shift_right(b, n, shift) ==
    IF shift = 0 THEN b
    ELSE IF shift >= n THEN reset_all(b)
    ELSE apply_right_shift(b, shift)

(* The blocks that set(pos, len, value) and flip(pos, len) change: a head   *)
(* and a tail that are cut, and the full blocks between them.               *)
touched(pos, len, i) ==
    LET fb == block_index(pos)
        lb == block_index(pos + len - 1)
        f == bit_index(pos)
        l == bit_index(pos + len - 1)
    IN  IF fb = lb THEN IF i = fb THEN bit_mask_range(f, l) ELSE {}
        ELSE CASE i = fb /\ f # 0 -> bit_mask_range(f, bits_per_block - 1)
               [] i = lb /\ l # bits_per_block - 1 -> bit_mask_range(0, l)
               [] i \in (IF f # 0 THEN fb + 1 ELSE fb)
                        .. (IF l # bits_per_block - 1 THEN lb - 1 ELSE lb) -> one_block
               [] OTHER -> {}

set_range(b, pos, len, value) ==
    IF len = 0 THEN b
    ELSE [i \in DOMAIN b |-> IF value THEN b[i] \cup touched(pos, len, i - 1)
                                      ELSE b[i] \ touched(pos, len, i - 1)]

flip_range(b, pos, len) ==
    IF len = 0 THEN b
    ELSE [i \in DOMAIN b |-> Xor(b[i], touched(pos, len, i - 1))]

set_all(b, n) == sanitize([i \in DOMAIN b |-> one_block], n)
flip_all(b, n) == sanitize([i \in DOMAIN b |-> Not(bits_per_block, b[i])], n)

and_assign(b, rhs) == [i \in DOMAIN b |-> b[i] \cap rhs[i]]
or_assign(b, rhs) == [i \in DOMAIN b |-> b[i] \cup rhs[i]]
xor_assign(b, rhs) == [i \in DOMAIN b |-> Xor(b[i], rhs[i])]
sub_assign(b, rhs) == [i \in DOMAIN b |-> b[i] \cap Not(bits_per_block, rhs[i])]

(* Character i of str, counted from its end, is bit i.                      *)
init_from_string(str, pos, n) ==
    LET size == Min({n, Len(str) - pos})
        zero == [i \in 1 .. blocks_required(size) |-> {}]
        filled[i \in 0 .. size] ==
            IF i = 0 THEN zero
            ELSE IF str[pos + size - (i - 1)] = 1 THEN set_bit(filled[i - 1], i - 1, TRUE)
            ELSE filled[i - 1]
    IN  filled[size]

(* operator>> reads the characters into a bitset and copies it backwards.   *)
read_stream(str) ==
    LET pushed[i \in 0 .. Len(str)] ==
            IF i = 0 THEN <<>> ELSE push_back(pushed[i - 1], i - 1, str[i] = 1)
        test1(b, p) == bit_index(p) \in b[block_index(p) + 1]
        reverse[i \in 0 .. Len(str)] ==
            IF i = 0 THEN <<>>
            ELSE push_back(reverse[i - 1], i - 1, test1(pushed[Len(str)], Len(str) - i))
    IN  reverse[Len(str)]

-----------------------------------------------------------------------------
(* Questions about the blocks.                                              *)

npos == -1

test(b, pos) == b[block_index(pos) + 1] \cap bit_mask(pos) # {}

all_bits(b, n) ==
    \/ n = 0
    \/ IF Extra(n) = 0 THEN \A i \in DOMAIN b : b[i] = one_block
       ELSE /\ \A i \in 1 .. Len(b) - 1 : b[i] = one_block
            /\ b[Len(b)] = Shr(one_block, Unused(n))

any_bit(b) == \E i \in DOMAIN b : b[i] # {}

block_count(block) == Cardinality(block)
block_count_low(block, nbits) ==
    Cardinality(Shl(bits_per_block, block, bits_per_block - nbits))

count(b, n) ==
    IF n = 0 THEN 0
    ELSE FoldLeft(LAMBDA x, y : x + block_count(y), 0, Front(b))
         + (IF Extra(n) = 0 THEN block_count(Last(b)) ELSE block_count_low(Last(b), Extra(n)))

count_block_trailing_zero(block) == Min(block)

first_in(b, from) ==
    LET nz == {i \in from .. Len(b) - 1 : b[i + 1] # {}}
    IN  IF nz = {} THEN npos
        ELSE Min(nz) * bits_per_block + count_block_trailing_zero(b[Min(nz) + 1])

find_first(b) == first_in(b, 0)

(* Starts from the bit before the first one asked for.                      *)
find_nextFromPrev(b, n, prev) ==
    IF n = 0 \/ prev >= n - 1 THEN npos
    ELSE LET shifted == Shr(b[block_index(prev) + 1], bit_index(prev))
         IN  IF shifted # {} THEN prev + count_block_trailing_zero(shifted)
             ELSE first_in(b, block_index(prev + 1) + 1)

find_next(b, n, prev) ==
    IF n = 0 \/ prev >= n - 1 THEN npos
    ELSE LET shifted == Shr(b[block_index(prev + 1) + 1], bit_index(prev + 1))
         IN  IF shifted # {} THEN prev + 1 + count_block_trailing_zero(shifted)
             ELSE first_in(b, block_index(prev + 1) + 1)

is_subset_of(b, rhs) == \A i \in DOMAIN b : b[i] \cap Not(bits_per_block, rhs[i]) = {}
is_proper_subset_of(b, rhs) ==
    /\ is_subset_of(b, rhs)
    /\ \E i \in DOMAIN b : Not(bits_per_block, b[i]) \cap rhs[i] # {}
intersects(b, rhs) ==
    \E i \in 1 .. Min({Len(b), Len(rhs)}) : b[i] \cap rhs[i] # {}

(* Compares from the lowest block.                                          *)
lessFromLow(b, n, rhs, rn) ==
    LET diff == {i \in 1 .. Min({Len(b), Len(rhs)}) : b[i] # rhs[i]}
    IN  IF diff # {} THEN Less(b[Min(diff)], rhs[Min(diff)]) ELSE n < rn

(* operator<: the longer bitset is greater when one of its further blocks   *)
(* is not zero, then the highest block that differs decides, then the size. *)
less(b, n, rhs, rn) ==
    LET short == Min({Len(b), Len(rhs)})
        long == IF rn > n THEN rhs ELSE b
        diff == {i \in 1 .. short : b[i] # rhs[i]}
    IN  IF n = rn THEN n > 0 /\ diff # {} /\ Less(b[Max(diff)], rhs[Max(diff)])
        ELSE IF n = 0 THEN TRUE
        ELSE IF rn = 0 THEN FALSE
        ELSE IF \E i \in short + 1 .. Len(long) : long[i] # {} THEN rn > n
        ELSE IF diff # {} THEN Less(b[Max(diff)], rhs[Max(diff)])
        ELSE n < rn

(* to_string: bit i goes to the i-th character from the end.  The inner     *)
(* loop runs up to the number of bits left, beyond the block in all blocks  *)
(* but the last; the mask is zero by then.                                  *)
to_string(b, n) ==
    [c \in 1 .. n |->
       LET p == n - c
       IN  IF \E i \in 0 .. Len(b) - 1 :
                LET limit == IF i * bits_per_block < n THEN n - i * bits_per_block
                             ELSE bits_per_block
                IN  \E k \in b[i + 1] : k < limit /\ i * bits_per_block + k = p
           THEN 1 ELSE 0]

-----------------------------------------------------------------------------
(* The client: one bitset, called with every argument within the bound.     *)

Bitset(b, n, bits) == [blocks |-> b, n |-> n, bits |-> bits]
Bits(n) == [1 .. n -> BOOLEAN]
Pack(bits) == [i \in 1 .. blocks_required(Len(bits)) |->
                 {k \in 0 .. bits_per_block - 1 :
                    /\ (i - 1) * bits_per_block + k < Len(bits)
                    /\ bits[(i - 1) * bits_per_block + k + 1]}]

BsInit == Start("bitset", Bitset(<<>>, 0, <<>>))

BsCtor ==
    \E nbits \in 0 .. BsMaxBits, v \in SUBSET (0 .. U128Bits - 1) :
        Step("bitset", Bitset(ctor_u128(nbits, v), nbits, [i \in 1 .. nbits |-> i - 1 \in v]))

BsFromString ==
    \E len \in 1 .. 4 : \E str \in [1 .. len -> {0, 1}], pos \in 0 .. len - 1, n \in 0 .. len :
        LET size == Min({n, len - pos})
        IN  Step("bitset", Bitset(init_from_string(str, pos, n), size,
                     [i \in 1 .. size |-> str[pos + size - i + 1] = 1]))

BsReadStream ==
    \E len \in 0 .. 4 : \E str \in [1 .. len -> {0, 1}] :
        Step("bitset", Bitset(read_stream(str), len, [i \in 1 .. len |-> str[len - i + 1] = 1]))

BsResize ==
    \E nbits \in 0 .. BsMaxBits, value \in BOOLEAN :
        Step("bitset", Bitset(resize(st.blocks, st.n, nbits, value), nbits,
                     [i \in 1 .. nbits |-> IF i <= st.n THEN st.bits[i] ELSE value]))

BsPush ==
    /\ st.n < BsMaxBits
    /\ \E v \in BOOLEAN :
         Step("bitset", Bitset(push_back(st.blocks, st.n, v), st.n + 1, Append(st.bits, v)))

BsPop ==
    Step("bitset", Bitset(pop_back(st.blocks, st.n), IF st.n = 0 THEN 0 ELSE st.n - 1,
                          IF st.n = 0 THEN <<>> ELSE Front(st.bits)))

BsAppendBlock ==
    /\ st.n + bits_per_block <= BsMaxBits
    /\ \E block \in SUBSET one_block :
         Step("bitset", Bitset(append_block(st.blocks, st.n, block), st.n + bits_per_block,
                st.bits \o [i \in 1 .. bits_per_block |-> i - 1 \in block]))

BsAppendRange ==
    /\ st.n + 2 * bits_per_block <= BsMaxBits
    /\ \E b1, b2 \in SUBSET one_block :
         Step("bitset", Bitset(append_range(st.blocks, st.n, <<b1, b2>>),
                st.n + 2 * bits_per_block,
                st.bits \o [i \in 1 .. bits_per_block |-> i - 1 \in b1]
                        \o [i \in 1 .. bits_per_block |-> i - 1 \in b2]))

BsAppendOther ==
    \E m \in 0 .. BsMaxBits - st.n : \E other \in Bits(m) :
        Step("bitset", Bitset(append_other(st.blocks, st.n, Pack(other), m), st.n + m,
                              st.bits \o other))

BsAppendSelf ==
    /\ 2 * st.n <= BsMaxBits
    /\ Step("bitset", Bitset(append_self(st.blocks, st.n), 2 * st.n, st.bits \o st.bits))

BsShift ==
    \E k \in 0 .. BsMaxBits + 1 :
        \/ Step("bitset", Bitset(shift_left(st.blocks, st.n, k), st.n,
             [i \in 1 .. st.n |-> i > k /\ st.bits[i - k]]))
        \/ Step("bitset", Bitset(shift_right(st.blocks, st.n, k), st.n,
             [i \in 1 .. st.n |-> i + k <= st.n /\ st.bits[i + k]]))

BsSetRange ==
    \E pos \in 0 .. st.n - 1, value \in BOOLEAN : \E len \in 0 .. st.n - pos :
        LET in(i) == i - 1 \in pos .. pos + len - 1
        IN  \/ Step("bitset", Bitset(set_range(st.blocks, pos, len, value), st.n,
                 [i \in 1 .. st.n |-> IF in(i) THEN value ELSE st.bits[i]]))
            \/ Step("bitset", Bitset(flip_range(st.blocks, pos, len), st.n,
                 [i \in 1 .. st.n |-> IF in(i) THEN ~st.bits[i] ELSE st.bits[i]]))

BsSetAll ==
    \/ Step("bitset", Bitset(set_all(st.blocks, st.n), st.n, [i \in 1 .. st.n |-> TRUE]))
    \/ Step("bitset", Bitset(flip_all(st.blocks, st.n), st.n, [i \in 1 .. st.n |-> ~st.bits[i]]))

BsCombine ==
    \E rhs \in Bits(st.n) :
        \/ Step("bitset", Bitset(and_assign(st.blocks, Pack(rhs)), st.n,
             [i \in 1 .. st.n |-> st.bits[i] /\ rhs[i]]))
        \/ Step("bitset", Bitset(or_assign(st.blocks, Pack(rhs)), st.n,
             [i \in 1 .. st.n |-> st.bits[i] \/ rhs[i]]))
        \/ Step("bitset", Bitset(xor_assign(st.blocks, Pack(rhs)), st.n,
             [i \in 1 .. st.n |-> st.bits[i] # rhs[i]]))
        \/ Step("bitset", Bitset(sub_assign(st.blocks, Pack(rhs)), st.n,
             [i \in 1 .. st.n |-> st.bits[i] /\ ~rhs[i]]))

BsNext ==
    /\ part = "bitset"
    /\ \/ BsCtor \/ BsFromString \/ BsReadStream \/ BsResize \/ BsPush \/ BsPop
       \/ BsAppendBlock \/ BsAppendRange \/ BsAppendOther \/ BsAppendSelf
       \/ BsShift \/ BsSetRange \/ BsSetAll \/ BsCombine

-----------------------------------------------------------------------------
(* After every sequence of calls the blocks hold exactly the bits the       *)
(* client put there: no call loses, moves or invents a bit at a block       *)
(* boundary.                                                                *)
BitsetHoldsBits ==
    part = "bitset" =>
        /\ Len(st.bits) = st.n
        /\ \A i \in 1 .. st.n : test(st.blocks, i - 1) = st.bits[i]

(* The unused bits of the last block are zero and there is no block too     *)
(* many: count, compare, find, append and all() rely on it without          *)
(* masking.                                                                 *)
BitsetConsistent == part = "bitset" => check_consistency(st.blocks, st.n)

(* Walking a bitset with find_first and find_next visits every one bit once *)
(* and in order, and count, all, any and to_string agree with the bits.     *)
BitsetQueriesRight ==
    part = "bitset" =>
        LET on == {i \in 0 .. st.n - 1 : st.bits[i + 1]}
            next(S) == IF S = {} THEN npos ELSE Min(S)
        IN  /\ find_first(st.blocks) = next(on)
            /\ \A p \in 0 .. st.n : find_next(st.blocks, st.n, p) = next({i \in on : i > p})
            /\ count(st.blocks, st.n) = Cardinality(on)
            /\ all_bits(st.blocks, st.n) = (on = 0 .. st.n - 1)
            /\ any_bit(st.blocks) = (on # {})
            /\ to_string(st.blocks, st.n) =
                 [c \in 1 .. st.n |-> IF st.bits[st.n - c + 1] THEN 1 ELSE 0]

(* operator< orders bitsets by the number they hold and then by size, for   *)
(* operands of any two lengths, and the subset tests agree with the bits.   *)
BitsetComparesRight ==
    part = "bitset" =>
        \A m \in 0 .. BsMaxBits : \A other \in Bits(m) :
            LET b == Pack(other)
                number(x) == Val({i - 1 : i \in {j \in DOMAIN x : x[j]}})
                both == {i \in 1 .. Min({st.n, m}) : st.bits[i] /\ other[i]}
            IN  /\ less(st.blocks, st.n, b, m) =
                     \/ number(st.bits) < number(other)
                     \/ number(st.bits) = number(other) /\ st.n < m
                /\ intersects(st.blocks, b) = (both # {})
                /\ m = st.n =>
                     /\ is_subset_of(st.blocks, b) = \A i \in 1 .. m : st.bits[i] => other[i]
                     /\ is_proper_subset_of(st.blocks, b) =
                          ((\A i \in 1 .. m : st.bits[i] => other[i]) /\ st.bits # other)
=============================================================================
