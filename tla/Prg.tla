-------------------------------- MODULE Prg --------------------------------
(* Pseudorandomness: FillPRand over a block cipher, the Prg that caches a   *)
(* batch of it, and what rand.h and prg.h make of random words: numbers     *)
(* below a bound, bits, a shuffle.  A cipher is symbolic: an encrypted block*)
(* is the tuple of what determines it, and its bytes are <<block, byte>>.   *)
EXTENDS Scenario, Sequences, SequencesExt

CONSTANTS CipherBytes,       \* bytes in a block (16)
          PrgCounts,      \* values of the 64-bit counter
          PrgBatch,       \* BATCH_SIZE, in bytes of the budget
          PrgCalls,       \* calls a client makes
          PrgStat         \* statistical security parameter, in bits (40)

ASSUME PrgAssumption ==
    /\ CipherBytes \in Nat \ {0} /\ PrgCounts \in Nat \ {0} /\ PrgCalls \in Nat
    /\ PrgBatch \in Nat \ {0} /\ PrgBatch % CipherBytes = 0

(* Block i of a message that starts at count, as Encrypt sees it: the       *)
(* counter blocks of EcbMakeContentBlocks (128 bits, no wrap) or, in CTR    *)
(* mode, OpenSSL's big-endian increment of an iv whose first half is count. *)
EcbContent(count, i) == <<count + i, 0>>
CtrContent(count, i) == <<count, i>>

RECURSIVE CbcBlock(_, _, _)
CbcBlock(seed, count, i) ==
    <<seed, EcbContent(count, i), IF i = 0 THEN <<"iv">> ELSE CbcBlock(seed, count, i - 1)>>

EncryptBlock(mode, seed, count, i) ==
    CASE mode = "ecb" -> <<seed, EcbContent(count, i)>>
      [] mode = "ctr" -> <<seed, CtrContent(count, i)>>
      [] mode = "cbc" -> CbcBlock(seed, count, i)

(* The bytes FillPRand writes and the counter it returns.  ECB encrypts the *)
(* whole blocks and then the padding block by itself.  (And one that gives  *)
(* the padding block the number after its own.)                             *)
FillBytesPad(mode, seed, count, len) ==
    LET nblock == (len + CipherBytes - 1) \div CipherBytes
        Byte(n) == LET i == (n - 1) \div CipherBytes
                   IN  <<IF i = nblock - 1 /\ len % CipherBytes # 0 THEN <<seed, EcbContent(count + nblock, 0)>>
                         ELSE EncryptBlock(mode, seed, count, i), (n - 1) % CipherBytes>>
    IN  [n \in 1 .. len |-> Byte(n)]
FillBytes(mode, seed, count, len) ==
    LET nblock == (len + CipherBytes - 1) \div CipherBytes
        whole == IF mode = "ecb" /\ len % CipherBytes # 0 THEN nblock - 1 ELSE nblock
        Byte(n) == LET i == (n - 1) \div CipherBytes
                   IN  <<IF i < whole THEN EncryptBlock(mode, seed, count, i)
                         ELSE <<seed, EcbContent(count + nblock - 1, 0)>>, (n - 1) % CipherBytes>>
    IN  [n \in 1 .. len |-> Byte(n)]
NextCount(count, len) == (count + (len + CipherBytes - 1) \div CipherBytes) % PrgCounts

-----------------------------------------------------------------------------
(* Prg<T>: the budget and what was consumed of it.  A byte stands for an    *)
(* element of T; for bool the budget has 8 (here 2) elements to a byte, but *)
(* num_consumed_ starts at BATCH_SIZE all the same.  Filler is the value of *)
(* an element nothing was written to.  (And a Prg that starts full.)        *)
PerByte(kind) == IF kind = "bool" THEN 2 ELSE 1
Filler == <<>>
NewPrgFull(kind, seed) ==
    [kind |-> kind, seed |-> seed, counter |-> 0, consumed |-> 0,
     budget |-> [n \in 1 .. PrgBatch * PerByte(kind) |-> Filler]]
NewPrg(kind, seed) ==
    [kind |-> kind, seed |-> seed, counter |-> 0, consumed |-> PrgBatch,
     budget |-> [n \in 1 .. PrgBatch * PerByte(kind) |-> Filler]]
SetStatus(g, seed, counter) == [g EXCEPT !.seed = seed, !.counter = counter]
SetSeed(g, seed) == SetStatus(g, seed, 0)

(* (And one that does not keep the counter FillPRand returns.)              *)
GenerateBudgetsStay(g) == [g EXCEPT !.budget =
    LET b == FillBytes("ecb", g.seed, g.counter % PrgCounts, PrgBatch)
    IN  [n \in DOMAIN g.budget |-> <<b[1 + (n - 1) \div PerByte(g.kind)], (n - 1) % PerByte(g.kind)>>]]
GenerateBudgets(g) == [g EXCEPT !.budget =
                         LET b == FillBytes("ecb", g.seed, g.counter % PrgCounts, PrgBatch)
                         IN  [n \in DOMAIN g.budget |->
                                <<b[1 + (n - 1) \div PerByte(g.kind)], (n - 1) % PerByte(g.kind)>>],
                      !.counter = NextCount(g.counter % PrgCounts, PrgBatch)]
Refill(g) == IF g.consumed = Len(g.budget) THEN [GenerateBudgets(g) EXCEPT !.consumed = 0] ELSE g

(* A client draws elements and fills buffers of one Prg and reseeds it; got *)
(* is what it was handed, since when it was last reseeded in fresh, drawn   *)
(* the blocks encrypted in that time, old the elements of the budget then   *)
(* left.                                                                    *)
PrgStarted(g) == [g |-> g, got |-> <<>>, fresh |-> <<>>, drawn |-> 0, old |-> Len(g.budget) - g.consumed, calls |-> 0]
PrgDraw ==
    LET g == Refill(st.g)
        v == g.budget[g.consumed + 1]
    IN  Step("prg", [st EXCEPT !.g = [g EXCEPT !.consumed = @ + 1], !.got = Append(@, v), !.calls = @ + 1,
                     !.fresh = IF st.old > 0 THEN @ ELSE Append(@, v),
                     !.drawn = IF st.g.consumed = Len(g.budget) THEN @ + PrgBatch \div CipherBytes ELSE @,
                     !.old = IF @ > 0 THEN @ - 1 ELSE 0])
PrgFill(len) ==
    LET b == FillBytes("ecb", st.g.seed, st.g.counter % PrgCounts, len)
        new == [n \in DOMAIN b |-> <<b[n], 0>>]
    IN  Step("prg", [st EXCEPT !.g.counter = NextCount(@ % PrgCounts, len), !.got = @ \o new, !.fresh = @ \o new,
                     !.drawn = @ + (len + CipherBytes - 1) \div CipherBytes, !.calls = @ + 1])
PrgReseed(seed, counter) ==
    LET g == IF counter = 0 THEN SetSeed(st.g, seed) ELSE SetStatus(st.g, seed, counter)
    IN  Step("prg", [st EXCEPT !.g = g, !.fresh = <<>>, !.drawn = 0, !.calls = @ + 1,
                     !.old = Len(g.budget) - g.consumed])

-----------------------------------------------------------------------------
(* Chained calls of FillPRand, the counter of one being the next one's.     *)
PrgChain(len) ==
    Step("fillprand", [st EXCEPT !.count = NextCount(@, len), !.calls = @ + 1, !.lens = Append(@, len),
                       !.out = @ \o FillBytes(st.mode, st.seed, st.count, len)])

-----------------------------------------------------------------------------
(* A word of w bits modulo p = 2^k - 1.  MersennePrimeMod folds the high    *)
(* part once for the wide types (and lets i = p stand) and until it is less *)
(* for the narrow ones, whose bytes are one number.                         *)
FoldOnce(all, w, k) ==
    LET i == ((all % 2^w) % 2^k) + (all \div 2^w)
    IN  IF i > 2^k - 1 THEN i - (2^k - 1) ELSE i
RECURSIVE FoldAllEq(_, _)
FoldAllEq(all, k) ==
    LET i == (all % 2^k) + (all \div 2^k)
        r == IF i > 2^k - 1 THEN i - (2^k - 1) ELSE i
    IN  IF r > 2^k - 1 THEN FoldAllEq(r, k) ELSE r
RECURSIVE FoldAll(_, _)
FoldAll(all, k) ==
    LET i == (all % 2^k) + (all \div 2^k)
        r == IF i >= 2^k - 1 THEN i - (2^k - 1) ELSE i
    IN  IF r >= 2^k - 1 THEN FoldAll(r, k) ELSE r
MaskFill(e, k) == IF e % 2^k = 2^k - 1 THEN 0 ELSE e % 2^k
WordKinds == {<<"wide", 4, 3>>, <<"wide", 5, 2>>, <<"narrow", 3, 2>>, <<"narrow", 4, 3>>}
PrgMersenne(all, w) ==
    Step("mersenne", [st EXCEPT !.all = all, !.done = TRUE,
                      !.fill = IF w[1] = "wide" THEN MaskFill(all % 2^w[2], w[3]) ELSE FoldAll(all, w[3]),
                      !.mod = IF w[1] = "wide" THEN FoldOnce(all, w[2], w[3]) ELSE FoldAll(all, w[3])])

(* The bytes FillPRandWithLtN takes a residue of, a byte being 2 bits here. *)
LtNBytesBare(n) == DivCeil(Log2Floor(n) + 1, 2)
LtNBytes(n) == (Log2Floor(n) + 1 + PrgStat + 1) \div 2
RandLtN(buf, n) == buf % n
PrgLtN(n) == Step("ltn", [n |-> n, counts |->
    [r \in 0 .. n - 1 |-> Cardinality({b \in 0 .. 4^LtNBytes(n) - 1 : RandLtN(b, n) = r})]])

-----------------------------------------------------------------------------
(* RandBits: which bit of which random unit becomes each bit of the output. *)
(* A std::vector<bool> has a word of random bits per output bit and uses    *)
(* the words at multiples of the stride; a dynamic_bitset one byte for each *)
(* eight.                                                                   *)
VectorBits(len, stride) ==
    [n \in 0 .. len - 1 |-> <<(n \div stride) * stride, n % stride>>]
BitsetBitsWide(len, stride) == [n \in 0 .. len - 1 |-> <<n \div (2 * stride), n % stride>>]
BitsetBits(len, stride) == [n \in 0 .. len - 1 |-> <<n \div stride, n % stride>>]
PrgRandBits(len) ==
    Step("randbits", [st EXCEPT !.done = TRUE, !.out = IF st.set THEN BitsetBits(len, 3) ELSE VectorBits(len, 3),
                      !.units = IF st.set THEN DivCeil(len, 3) ELSE len])

(* ReplayShuffle of n elements: ind[idx] is a random number modulo idx + 2; *)
(* i runs down from n - 1.                                                  *)
IndexBoundLow(idx) == idx + 1
IndexBound(idx) == idx + 2
Indexes(n) == {f \in [0 .. n - 2 -> 0 .. n - 1] : \A idx \in 0 .. n - 2 : f[idx] < IndexBound(idx)}
SwapAt(s, i, j) == [s EXCEPT ![i] = s[j], ![j] = s[i]]
PrgSwap ==
    /\ part = "shuffle" /\ st.i > 0
    /\ \E j \in {f[st.i - 1] : f \in Indexes(st.n)} :
         Step("shuffle", [st EXCEPT !.s = SwapAt(@, st.i, j), !.ind = (st.i :> j) @@ @, !.i = @ - 1])

-----------------------------------------------------------------------------
PrgSeeds == {"s1", "s2"}
PrgInit ==
    \/ \E k \in {"word", "bool"} : Start("prg", PrgStarted(NewPrg(k, "s1")))
    \/ \E m \in {"ecb", "ctr", "cbc"}, c \in {0, PrgCounts - 2} :
         Start("fillprand", [mode |-> m, seed |-> "s1", first |-> c, count |-> c, out |-> <<>>, lens |-> <<>>, calls |-> 0])
    \/ \E w \in WordKinds : Start("mersenne", [w |-> w, all |-> 0, fill |-> 0, mod |-> 0, done |-> FALSE])
    \/ Start("ltn", [n |-> 1, counts |-> <<>>])
    \/ \E b \in BOOLEAN : Start("randbits", [set |-> b, len |-> 0, out |-> <<>>, units |-> 0, done |-> FALSE])
    \/ \E n \in 1 .. 4 : Start("shuffle", [n |-> n, s |-> [p \in 0 .. n - 1 |-> p], ind |-> <<>>, i |-> n - 1])

PrgNext ==
    \/ part = "prg" /\ st.calls < PrgCalls /\
         \/ PrgDraw
         \/ \E len \in {1, CipherBytes, CipherBytes + 1} : PrgFill(len)
         \/ \E s \in PrgSeeds, c \in {0, PrgCounts + 1} : PrgReseed(s, c)
    \/ part = "fillprand" /\ st.calls < 4 /\ \E len \in {0, 1, CipherBytes, CipherBytes + 1, 2 * CipherBytes} : PrgChain(len)
    \/ part = "mersenne" /\ ~st.done /\ \E all \in 0 .. 2^(st.w[2] + PrgStat) - 1 : PrgMersenne(all, st.w)
    \/ part = "ltn" /\ st.counts = <<>> /\ \E n \in 1 .. 9 : PrgLtN(n)
    \/ part = "randbits" /\ ~st.done /\ \E len \in 0 .. 8 : PrgRandBits(len)
    \/ PrgSwap

-----------------------------------------------------------------------------
NoRepeats(s) == Cardinality(ToSet(s)) = Len(s)

(* Between two reseedings a Prg hands out no element of its stream twice,   *)
(* whichever way draws and Fills alternate, as long as fewer blocks were    *)
(* used than the counter has values.  What a draw still takes from a batch  *)
(* made before the reseeding comes first: SetSeed leaves it (Prg).          *)
PrgNeverRepeats ==
    part = "prg" /\ st.drawn < PrgCounts =>
        /\ st.g.kind = "word" => NoRepeats(st.fresh)
        /\ \A n \in DOMAIN st.fresh : st.fresh[n] # Filler => st.fresh[n][1][1][1] = st.g.seed

(* A Prg only hands out elements of its stream, never what its budget was   *)
(* initialised with.  A Prg of bool is left out: its budget has eight times *)
(* the elements num_consumed_ starts at.                                    *)
PrgOnlyStream ==
    part = "prg" /\ st.g.kind = "word" => \A n \in DOMAIN st.got : st.got[n] # Filler

(* Chained calls never encrypt a block twice in ECB and CTR mode, and in    *)
(* ECB mode calls of whole blocks give the stream one call would (the last  *)
(* may end in a part of a block) until the counter wraps.                   *)
FillPRandChains ==
    part = "fillprand" =>
        /\ st.mode # "cbc" => NoRepeats(st.out)
        /\ /\ st.mode = "ecb" /\ st.first + Len(st.out) \div CipherBytes < PrgCounts
           /\ \A c \in 1 .. st.calls - 1 : st.lens[c] % CipherBytes = 0
           =>
             \A n \in DOMAIN st.out :
                 st.out[n] = <<<<st.seed, <<st.first + (n - 1) \div CipherBytes, 0>>>>, (n - 1) % CipherBytes>>

(* FillPRandWithMersennePrime gives residues of p, for the narrow types the *)
(* residue of the whole number; MersennePrimeMod of a wide type gives the   *)
(* residue of the sum of its two parts, the second of which is below p as   *)
(* in the code.  A sum of just p is left out: prg.h:160 means to subtract   *)
(* p from it, line 172 does not.                                            *)
MersenneRight ==
    part = "mersenne" /\ st.done =>
        LET p == 2^st.w[3] - 1
        IN  /\ st.fill \in 0 .. p - 1
            /\ st.w[1] = "narrow" => st.mod = st.all % p
            /\ st.w[1] = "wide" => LET low == (st.all % 2^st.w[2]) % 2^st.w[3]
                                       aux == st.all \div 2^st.w[2]
                                   IN  /\ st.fill = low % p
                                       /\ aux < p /\ low + aux # p => st.mod = (low + aux) % p

(* FillPRandWithLtN takes enough bytes that no residue is likelier than     *)
(* another by more than 2^-PrgStat of its share.                            *)
LtNClose ==
    part = "ltn" /\ st.counts # <<>> =>
        \A a, b \in DOMAIN st.counts : (st.counts[a] - st.counts[b]) * 2^PrgStat <= st.counts[b]

(* RandBits uses no random bit for two bits of its output and reads no unit *)
(* past the ones it drew.                                                   *)
RandBitsIndependent ==
    part = "randbits" /\ st.done =>
        /\ Cardinality({st.out[n] : n \in DOMAIN st.out}) = Cardinality(DOMAIN st.out)
        /\ \A n \in DOMAIN st.out : st.out[n][1] < st.units

(* ReplayShuffle permutes, and from the permutation its random numbers can  *)
(* be told, so that the n! choices give the n! permutations, each once.     *)
ShuffleFair ==
    part = "shuffle" =>
        /\ {st.s[p] : p \in DOMAIN st.s} = 0 .. st.n - 1
        /\ st.i = 0 => \A p \in 1 .. st.n - 1 : st.ind[p] \in 0 .. p
        /\ st.i > 0 => Cardinality({SwapAt(st.s, st.i, f[st.i - 1])[st.i] : f \in Indexes(st.n)}) = st.i + 1
=============================================================================
