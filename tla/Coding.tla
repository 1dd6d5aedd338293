------------------------------- MODULE Coding -------------------------------
(* Batched cuckoo hashing (coding/batch/cuckoo_index): inputs come in       *)
(* batches, each goes to the bin of one of its hashes, the one it displaces *)
(* tries its next hash in the next round; what is left after max_try_count  *)
(* rounds goes to the stash.                                                *)
EXTENDS Integers, Sequences, FiniteSets, SequencesExt, FiniteSetsExt, Functions, Scenario

CONSTANTS CkBins,        \* NumBins()
          CkInputs,      \* num_input
          CkHashes,      \* num_hash
          CkStash,       \* num_stash
          max_try_count

Empty == [input |-> -1, hash |-> 0]

(* An input, and each of its hashes modulo the bins.                        *)
HashRooms == [0 .. CkHashes - 1 -> 0 .. CkBins - 1]

CkInit ==
    Start("cuckoo", [rooms |-> <<>>, bins |-> [b \in 0 .. CkBins - 1 |-> Empty],
                     stash |-> <<>>, lost |-> {}, throws |-> FALSE])

(* The displaced one tries its next hash (and one that forgets which of the *)
(* two it was).                                                             *)
NextCandidateSelf(candid, evicted) == [input |-> candid.input, hash |-> (evicted.hash + 1) % CkHashes]
NextCandidate(candid, evicted) == [input |-> evicted.input, hash |-> (evicted.hash + 1) % CkHashes]

(* One round over the candidates: each takes its bin.                       *)
Round(rooms, t) ==
    FoldLeft(LAMBDA x, candid :
               LET b == rooms[candid.input + 1][candid.hash]
                   evicted == x.bins[b]
               IN  [bins |-> [x.bins EXCEPT ![b] = candid],
                    left |-> IF evicted = Empty THEN x.left
                             ELSE Append(x.left, NextCandidate(candid, evicted))],
             [bins |-> t.bins, left |-> <<>>], t.left)
Rounds(rooms, bins, candidates) ==
    FoldLeft(LAMBDA t, n : IF t.left = <<>> THEN t ELSE Round(rooms, t),
             [bins |-> bins, left |-> candidates], [n \in 1 .. max_try_count |-> n])

(* Insert: too many inputs throw after their codes were taken; PutToStash   *)
(* throws at the first one it has no room for, and it and the rest are in   *)
(* no place.  (Unchecked: the number of inputs is looked at afterwards.)    *)
CkInsertUnchecked ==
    \E codes \in {<<a>> : a \in HashRooms} :
        /\ ~st.throws
        /\ LET rooms == st.rooms \o codes
               t == Rounds(rooms, st.bins, <<[input |-> Len(st.rooms), hash |-> 0]>>)
               left == [i \in DOMAIN t.left |-> t.left[i].input]
               room == Min({CkStash - Len(st.stash), Len(left)})
           IN  Step("cuckoo", [st EXCEPT !.rooms = rooms, !.bins = t.bins, !.stash = @ \o SubSeq(left, 1, room),
                                         !.throws = Len(rooms) > CkInputs \/ room < Len(left),
                                         !.lost = ToSet(SubSeq(left, room + 1, Len(left)))])
CkInsert ==
    \E codes \in {<<a>> : a \in HashRooms} \cup {<<a, b>> : a, b \in HashRooms} :
        /\ ~st.throws
        /\ LET rooms == st.rooms \o codes
               n == Len(st.rooms)
               t == Rounds(rooms, st.bins, [i \in 1 .. Len(codes) |-> [input |-> n + i - 1, hash |-> 0]])
               left == [i \in DOMAIN t.left |-> t.left[i].input]
               room == Min({CkStash - Len(st.stash), Len(left)})
           IN  Step("cuckoo",
                 IF Len(rooms) > CkInputs
                 THEN [st EXCEPT !.throws = TRUE, !.lost = n .. Len(rooms) - 1, !.rooms = rooms]
                 ELSE [st EXCEPT !.rooms = rooms, !.bins = t.bins,
                                 !.stash = @ \o SubSeq(left, 1, room),
                                 !.throws = room < Len(left),
                                 !.lost = ToSet(SubSeq(left, room + 1, Len(left)))])

CkNext == part = "cuckoo" /\ CkInsert

(* SanityCheck, and MinCollidingHashIdx of a bin in use.                    *)
InBins(i) == {b \in DOMAIN st.bins : st.bins[b].input = i}
SanityCheck ==
    LET held == {st.bins[b].input : b \in {c \in DOMAIN st.bins : st.bins[c] # Empty}}
    IN  /\ \A i \in held : Cardinality(InBins(i)) = 1 /\ i \notin ToSet(st.stash)
        /\ Cardinality(ToSet(st.stash)) = Len(st.stash)
        /\ held \cup ToSet(st.stash) = 0 .. CkInputs - 1
MinCollidingHashIdx(b) ==
    LET room == st.rooms[st.bins[b].input + 1]
    IN  CHOOSE h \in DOMAIN room : room[h] = b /\ \A g \in 0 .. h - 1 : room[g] # b

-----------------------------------------------------------------------------
(* Every input is in exactly one place, a bin that one of its hashes names  *)
(* (so that a lookup of num_hash bins and the stash finds it) or the stash, *)
(* however often it was displaced and by which batch; only an Insert that   *)
(* throws loses inputs, and then just the ones it found no room for.        *)
CuckooFindable ==
    part = "cuckoo" =>
        \A i \in 0 .. Len(st.rooms) - 1 :
            LET bins == InBins(i)
                stashed == {k \in DOMAIN st.stash : st.stash[k] = i}
            IN  /\ Cardinality(bins) + Cardinality(stashed) = IF i \in st.lost THEN 0 ELSE 1
                /\ \A b \in bins :
                     /\ st.rooms[i + 1][st.bins[b].hash] = b
                     /\ MinCollidingHashIdx(b) <= st.bins[b].hash

(* SanityCheck accepts a table when it took all num_input inputs and lost   *)
(* none of them, and refuses one that is not full or whose stash ran over;  *)
(* inputs past num_input were never put into it.                            *)
CuckooSanity ==
    part = "cuckoo" =>
        (SanityCheck <=> Len(st.rooms) >= CkInputs /\ st.lost \cap 0 .. CkInputs - 1 = {})

-----------------------------------------------------------------------------
(* The linear codes of coding/linear: Silver, a local code, and an expand-  *)
(* accumulate code.  They are maps over GF(2), so they are checked on       *)
(* formal vectors: an entry is the XOR of a set of input positions, and a   *)
(* vector the set of the pairs <<place, input position>>, from 0.           *)

CONSTANTS kLcBatchSize,      \* outputs per batch of indexes (1024 in the code)
          LcLanes            \* indexes per block of the permutation (4 in the code)

XorSeq(s) == FoldLeft(Xor, {}, s)
Basis(n) == {<<i, i>> : i \in 0 .. n - 1}
EntryOf(v, i) == {q[2] : q \in {r \in v : r[1] = i}}
Vector(n, entry(_)) == UNION {{i} \X entry(i) : i \in 0 .. n - 1}
Shifted(v, from, to, by) == {<<q[1] + by, q[2]>> : q \in {r \in v : r[1] \in from .. to}}
Down(n) == [k \in 1 .. n |-> n - k]

-----------------------------------------------------------------------------
(* Silver's tables, by weight: R as fractions, the diagonal block of R.     *)
LeftR(w) ==
    IF w = 5 THEN [i \in 1 .. 5 |-> <<(<<0, 372071, 576568, 608917, 854475>>)[i], 10^6>>]
    ELSE <<<<0, 1>>, <<278835, 10^8>>, <<883852, 10^7>>>>
         \o [i \in 1 .. 8 |-> <<(<<238023, 240532, 274624, 390639, 531551, 637619, 945265, 965874>>)[i], 10^6>>]
Diag5 ==
    <<<<0, 4, 11, 15>>, <<0, 8, 9, 10>>, <<1, 2, 10, 14>>, <<0, 5, 8, 15>>, <<3, 13, 14, 15>>, <<2, 4, 7, 8>>,
      <<0, 9, 12, 15>>, <<1, 6, 8, 14>>, <<4, 5, 6, 14>>, <<1, 3, 8, 13>>, <<3, 4, 7, 8>>, <<3, 5, 9, 13>>,
      <<8, 11, 12, 14>>, <<6, 10, 12, 13>>, <<2, 7, 8, 13>>, <<0, 6, 10, 15>>>>
Diag11 ==
    <<<<6, 7, 8, 12, 16, 17, 20, 22, 24, 25>>, <<0, 1, 6, 10, 12, 13, 17, 19, 30, 31>>, <<1, 4, 7, 10, 12, 16, 21, 22, 30, 31>>,
      <<3, 5, 9, 13, 15, 21, 23, 25, 26, 27>>, <<3, 8, 9, 14, 17, 19, 24, 25, 26, 28>>, <<3, 11, 12, 13, 14, 16, 17, 21, 22, 30>>,
      <<2, 4, 5, 11, 12, 17, 22, 24, 30, 31>>, <<5, 8, 11, 12, 13, 17, 18, 20, 27, 29>>, <<13, 16, 17, 18, 19, 20, 21, 22, 26, 30>>,
      <<3, 8, 13, 15, 16, 17, 19, 20, 21, 27>>, <<0, 2, 4, 5, 6, 21, 23, 26, 28, 30>>, <<2, 4, 6, 8, 10, 11, 22, 26, 28, 30>>,
      <<7, 9, 11, 14, 15, 16, 17, 18, 24, 30>>, <<0, 3, 7, 12, 13, 18, 20, 24, 25, 28>>, <<1, 5, 7, 8, 12, 13, 21, 24, 26, 27>>,
      <<0, 16, 17, 19, 22, 24, 25, 27, 28, 31>>, <<0, 6, 7, 15, 16, 18, 22, 24, 29, 30>>, <<2, 3, 4, 7, 15, 17, 18, 20, 22, 26>>,
      <<2, 3, 9, 16, 17, 19, 24, 27, 29, 31>>, <<1, 3, 5, 7, 13, 14, 20, 23, 24, 27>>, <<0, 2, 3, 9, 10, 14, 19, 20, 21, 25>>,
      <<4, 13, 16, 20, 21, 23, 25, 27, 28, 31>>, <<1, 2, 5, 6, 9, 13, 15, 17, 20, 24>>, <<0, 4, 7, 8, 12, 13, 20, 23, 28, 30>>,
      <<0, 3, 4, 5, 8, 9, 23, 25, 26, 28>>, <<0, 3, 4, 7, 8, 10, 11, 15, 21, 26>>, <<5, 6, 7, 8, 10, 11, 15, 21, 22, 25>>,
      <<0, 1, 2, 3, 8, 9, 22, 24, 27, 28>>, <<1, 2, 13, 14, 15, 16, 19, 22, 29, 30>>, <<2, 14, 15, 16, 19, 20, 25, 26, 28, 29>>,
      <<8, 9, 11, 12, 13, 15, 17, 18, 23, 27>>, <<0, 2, 4, 5, 6, 7, 10, 12, 14, 19>>>>
R_offset == <<5, 31>>
Gap(w) == IF w = 5 THEN 16 ELSE 32
DiagRow(w, i) == IF w = 5 THEN Diag5[(i % 16) + 1] ELSE Diag11[(i % 32) + 1]

(* InitLeftMatrix: a position taken already goes to the next free one.      *)
InitLeftMatrix(n, w) ==
    LET place(s, r) ==
            LET t == ((n * r[1]) \div r[2]) % n
                k == Min({j \in 0 .. n - 1 : (t + j) % n \notin s})
            IN  s \cup {(t + k) % n}
        ones == FoldLeft(place, {}, LeftR(w))
    IN  [k \in 1 .. w |-> CHOOSE e \in ones : Cardinality({f \in ones : f < e}) = k - 1]

(* RightEncode: x with x * R = y, from the last row up.  Above lower_bound  *)
(* every index is in range; below it an unsigned index below 0 is larger    *)
(* than n, skipped, and stays.  (And a loop whose second offset goes on     *)
(* from one row too low.)                                                   *)
AddAt(x, at, i) == Xor(x, at \X EntryOf(x, i))
RightRowLate(w, y, i, o) ==
    LET cols == {i - Gap(w) + d : d \in Range(DiagRow(w, i))}
    IN  AddAt(y, {c \in cols \cup {o[1], o[2] - 1} : c >= 0}, i)
RightRow(w, y, i, o) ==
    LET cols == {i - Gap(w) + d : d \in Range(DiagRow(w, i))} \cup {o[1], o[2]}
    IN  AddAt(y, IF i > R_offset[2] + Gap(w) THEN cols ELSE {c \in cols : c >= 0}, i)
NextOffset(o) == <<Max({o[1] - 1, -1}), Max({o[2] - 1, -1})>>

(* LeftEncode: out += in * L, in runs that end where the largest index      *)
(* leaves the vector; that index starts again at 0.  (And one that reads    *)
(* from where the next run starts.)                                         *)
LeftRunAhead(in, out, entry, i, step) ==
    XorSeq(<<out>> \o [k \in DOMAIN entry |-> Shifted(in, entry[k] + step, entry[k] + 2 * step - 1, i - entry[k] - step)])
LeftRun(in, out, entry, i, step) ==
    XorSeq(<<out>> \o [k \in DOMAIN entry |-> Shifted(in, entry[k], entry[k] + step - 1, i - entry[k])])

-----------------------------------------------------------------------------
(* LocalLinearCode with d indexes an output.  The permutation (external)    *)
(* gives LcLanes numbers for block j of the batch that starts at i.         *)
RpNumber(i, j, lane) == (7 * i * i + 31 * j + 13 * lane * lane + 5 * i * lane + 3 * j * j + 17) % 257

(* The mask of ones that is at least k, and the index a number becomes.     *)
LcMask(k) == 2^(Max({1, Log2Floor(k) + 1})) - 1
GenIndexAll(k, v) == v % (LcMask(k) + 1)
GenIndex(k, v) == LET a == v % (LcMask(k) + 1) IN IF a > k - 1 THEN a - k ELSE a
GenIndexes(k, i, block_num) ==
    [p \in 0 .. LcLanes * block_num - 1 |-> GenIndex(k, RpNumber(i, p \div LcLanes, p % LcLanes))]

(* Encode adds d entries of in to every entry of out, batch by batch, for   *)
(* as many entries as out has.  (And a batch that numbers its blocks by     *)
(* what is left.)                                                           *)
EncodeBatchLeft(k, d, in, n, out, i) ==
    LET limit == Min({kLcBatchSize, n - i})
        idx == GenIndexes(k, n - i, DivCeil(limit * d, LcLanes))
        entry(p) == XorSeq(<<EntryOf(out, p)>> \o
                           IF p \in i .. i + limit - 1 THEN [c \in 1 .. d |-> EntryOf(in, idx[(p - i) * d + c - 1])] ELSE <<>>)
    IN  Vector(n, entry)
EncodeBatch(k, d, in, n, out, i) ==
    LET limit == Min({kLcBatchSize, n - i})
        idx == GenIndexes(k, i, DivCeil(limit * d, LcLanes))
        entry(p) == XorSeq(<<EntryOf(out, p)>> \o
                           IF p \in i .. i + limit - 1 THEN [c \in 1 .. d |-> EntryOf(in, idx[(p - i) * d + c - 1])] ELSE <<>>)
    IN  Vector(n, entry)
LcEncode(k, d, in, n, out) ==
    FoldLeft(LAMBDA o, b : EncodeBatch(k, d, in, n, o, b * kLcBatchSize), out,
             [b \in 1 .. DivCeil(n, kLcBatchSize) |-> b - 1])

(* ExAccCode: running sums of in, in place, then the local code.            *)
Accumulate(k, v) == LET entry(i) == XorSeq([j \in 1 .. i + 1 |-> EntryOf(v, j - 1)]) IN Vector(k, entry)

-----------------------------------------------------------------------------
(* A client encodes one vector x, of k entries, into n entries of out.     *)
(* Silver, of two halves: x is where the second half is worked on (the      *)
(* caller's vector or a copy), out the first half or a copy of it.  Silver  *)
(* goes on with row i, then from entry i; ones is what the constructor made *)
(* of L.                                                                    *)
LcInit ==
    \/ \E c \in ({5} \X {5, 22, 48, 50}) \cup ({11} \X {11, 38, 66}) :
         LET w == c[1]  n == c[2]
         IN  Start("code", [code |-> "silver", w |-> w, n |-> n, k |-> n, done |-> FALSE, ones |-> InitLeftMatrix(n, w),
                            x |-> {<<i, n + i>> : i \in 0 .. n - 1}, out |-> Basis(n), entry |-> <<>>, i |-> n - 1,
                            o |-> <<Max({n - Gap(w) - 1 - R_offset[1], -1}), Max({n - Gap(w) - 1 - R_offset[2], -1})>>])
    \/ \E k \in 1 .. 9, n \in 0 .. 2 * kLcBatchSize + 1, d \in {1, 3}, code \in {"local", "exacc"} :
         /\ code = "exacc" => k >= n /\ n > d
         /\ Start("code", [code |-> code, w |-> d, n |-> n, k |-> k, done |-> FALSE, x |-> Basis(k), out |-> Basis(n)])

SilverRow ==
    /\ st.code = "silver" /\ st.entry = <<>> /\ st.i >= 0
    /\ Step("code", [st EXCEPT !.x = RightRow(st.w, st.x, st.i, st.o), !.o = NextOffset(st.o), !.i = @ - 1])
SilverRun ==
    /\ st.code = "silver" /\ ~st.done
    /\ \/ st.entry = <<>> /\ st.i < 0 /\ Step("code", [st EXCEPT !.entry = st.ones, !.i = 0])
       \/ /\ st.entry # <<>>
          /\ LET step == Min({st.n - Last(st.entry), st.n - st.i})
             IN  Step("code", [st EXCEPT !.out = LeftRun(st.x, st.out, st.entry, st.i, step),
                                         !.entry = <<0>> \o [j \in 1 .. Len(@) - 1 |-> @[j] + step],
                                         !.i = @ + step, !.done = st.i + step = st.n])
LocalEncode ==
    /\ st.code = "local" /\ ~st.done
    /\ Step("code", [st EXCEPT !.out = LcEncode(st.k, st.w, st.x, st.n, st.out), !.done = TRUE])
ExAccEncode ==
    /\ st.code = "exacc" /\ ~st.done
    /\ LET y == Accumulate(st.k, st.x)
       IN  Step("code", [st EXCEPT !.x = y, !.out = LcEncode(st.k, st.w, y, st.n, st.out), !.done = TRUE])
LcNext == part = "code" /\ (SilverRow \/ SilverRun \/ LocalEncode \/ ExAccEncode)

-----------------------------------------------------------------------------
(* R as the code's comment gives it: row i has ones at i, in its diagonal   *)
(* block and at the two offsets.                                            *)
RowOf(w, i) ==
    {i} \cup {i - Gap(w) + d : d \in Range(DiagRow(w, i))} \cup {i - Gap(w) - R_offset[1], i - Gap(w) - R_offset[2]}

(* Silver's right encoding ends with x such that x * R is the second half   *)
(* of the input, though it overwrites entries it has still to read and its  *)
(* indexes wrap below 0.                                                    *)
SilverSolves ==
    part = "code" /\ st.code = "silver" /\ st.i < 0 =>
        \A c \in 0 .. st.n - 1 :
            LET rows == {i \in c .. st.n - 1 : c \in RowOf(st.w, i)}
            IN  \A b \in 0 .. st.n - 1 :
                    Cardinality({i \in rows : <<i, st.n + b>> \in st.x}) % 2 = IF b = c THEN 1 ELSE 0

(* Its left encoding adds x * L to the first half, for the L with weight    *)
(* ones a column that turns by one place from column to column; each run    *)
(* stays inside x, with the largest index last.                             *)
SilverCyclic ==
    part = "code" /\ st.code = "silver" =>
        /\ st.done => st.out = XorSeq(<<Basis(st.n)>> \o
              [k \in 1 .. st.w |-> {<<(q[1] + st.n - st.ones[k]) % st.n, q[2]>> : q \in st.x}])
        /\ st.entry # <<>> /\ ~st.done => \A k \in 1 .. st.w : st.entry[k] <= Last(st.entry) /\ Last(st.entry) < st.n

(* Every index the local code makes of the permutation's numbers is in      *)
(* range for every dimension, which one conditional subtraction achieves    *)
(* only because the mask is below 2k.                                       *)
LocalIndexInRange ==
    part = "code" /\ st.code # "silver" => \A v \in 0 .. 256 : GenIndex(st.k, v) \in 0 .. st.k - 1

(* An output of the local codes depends on its position alone: a party that *)
(* asks for fewer outputs gets the same first ones, across batches.         *)
LocalPrefix ==
    part = "code" /\ st.code # "silver" /\ st.done =>
        \A m \in 0 .. st.n - 1 :
            LcEncode(st.k, st.w, st.x, m, Basis(m)) = {q \in st.out : q[1] < m}
=============================================================================
