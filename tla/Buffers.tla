------------------------------ MODULE Buffers ------------------------------
(* utils/buffer, the msgpack streams over it (io/msgpack), the serializers  *)
(* built on them and int128.  A Buffer owns a block of memory that it frees *)
(* itself, with delete[] or with the deleter it was given.                  *)
EXTENDS Integers, Sequences, FiniteSets, SequencesExt, FiniteSetsExt, Scenario

CONSTANTS BufferCalls,    \* calls on the two Buffers
          HalfBits        \* width of uint64_t, half of an int128_t

-----------------------------------------------------------------------------
(* Buffer.  A block: its bytes (9 for one never written), how it was        *)
(* allocated and how it was freed.  ptr is 0 for nullptr.                   *)
NewBlock(cap, how) == [cells |-> [k \in 1 .. cap |-> 9], by |-> how, freed |-> <<>>]
NullBuffer == [ptr |-> 0, size |-> 0, cap |-> 0, deleter |-> FALSE]

BufResetLeaks(m, b) == [mem |-> m, buf |-> NullBuffer]
BufReset(m, b) ==
    [mem |-> IF b.ptr = 0 THEN m
             ELSE [m EXCEPT ![b.ptr].freed = Append(@, IF b.deleter THEN "deleter" ELSE "delete")],
     buf |-> NullBuffer]
CopiedShort(m, b, n, cap) ==
    [NewBlock(cap, "new") EXCEPT !.cells = [k \in 1 .. cap |-> IF b.ptr # 0 /\ k < Min({n, b.size}) THEN m[b.ptr].cells[k] ELSE 9]]
CopiedInto(m, b, n, cap) ==
    [NewBlock(cap, "new") EXCEPT !.cells = [k \in 1 .. cap |-> IF b.ptr # 0 /\ k <= Min({n, b.size}) THEN m[b.ptr].cells[k] ELSE 9]]

(* The new block is filled before the old one is freed.                     *)
Refilled(b, ptr, size, cap) == [b EXCEPT !.ptr = ptr, !.size = size, !.cap = cap]
BufResize(m, b, n) ==
    IF n <= b.cap THEN [mem |-> m, buf |-> [b EXCEPT !.size = n]]
    ELSE LET r == BufReset(Append(m, CopiedInto(m, b, n, n)), b)
         IN  [mem |-> r.mem, buf |-> Refilled(r.buf, Len(m) + 1, n, n)]
BufReserve(m, b, n) ==
    IF n <= b.cap THEN [mem |-> m, buf |-> b]
    ELSE LET r == BufReset(Append(m, CopiedInto(m, b, b.size, n)), b)
         IN  [mem |-> r.mem, buf |-> Refilled(r.buf, Len(m) + 1, b.size, n)]

(* Two Buffers, the bytes each should show (text, 9 where any will do), and *)
(* the blocks release() gave away.                                          *)
BufInit0 == [kind |-> "buffer", mem |-> <<>>, buf |-> <<NullBuffer, NullBuffer>>, text |-> <<<<>>, <<>>>>,
             given |-> {}, calls |-> 0]
BufCall(s, r, text) ==
    Step("buffers", [st EXCEPT !.mem = r.mem, !.buf[s] = r.buf, !.text[s] = text, !.calls = @ + 1])
PaddedText(text, n) == [k \in 1 .. n |-> IF k <= Len(text) THEN text[k] ELSE 9]

(* buf = Buffer(1, 3) and buf = Buffer(ptr, 2, deleter): the assignment     *)
(* swaps, and the temporary frees what buf had.                             *)
Replaced(s, how, size, cap) ==
    LET m == Append(st.mem, NewBlock(cap, how))
    IN  [mem |-> BufReset(m, st.buf[s]).mem,
         buf |-> [ptr |-> Len(m), size |-> size, cap |-> cap, deleter |-> how = "client"]]
BufMake(s) == BufCall(s, Replaced(s, "new", 1, 3), <<9>>)
BufAdopt(s) == BufCall(s, Replaced(s, "client", 2, 2), <<9, 9>>)
BufSetSize(s) == \E n \in {0, 1, 4} : BufCall(s, BufResize(st.mem, st.buf[s], n), PaddedText(st.text[s], n))
BufSetCap(s) == \E n \in {2, 4} :
    n >= st.buf[s].size /\ BufCall(s, BufReserve(st.mem, st.buf[s], n), st.text[s])
BufClear(s) == BufCall(s, BufReset(st.mem, st.buf[s]), <<>>)
BufCopy(s) ==
    LET o == st.buf[3 - s]
        r == BufResize(st.mem, st.buf[s], o.size)
        m == IF o.size = 0 THEN r.mem
             ELSE [r.mem EXCEPT ![r.buf.ptr].cells = [k \in DOMAIN @ |-> IF k <= o.size THEN st.mem[o.ptr].cells[k] ELSE @[k]]]
    IN  BufCall(s, [r EXCEPT !.mem = m], st.text[3 - s])
BufMove ==
    Step("buffers", [st EXCEPT !.buf = Reverse(@), !.text = Reverse(@), !.calls = @ + 1])
BufRelease(s) ==
    /\ ~st.buf[s].deleter
    /\ Step("buffers", [st EXCEPT !.given = @ \cup ({st.buf[s].ptr} \ {0}), !.buf[s] = NullBuffer, !.text[s] = <<>>,
                                  !.calls = @ + 1])

(* StreamBuffer(&buf).write of a byte: resize, then memcpy to the end.      *)
BufStream(s) == \E v \in {1, 2} :
    LET n == st.buf[s].size
        r == BufResize(st.mem, st.buf[s], n + 1)
    IN  /\ n < 4
        /\ BufCall(s, [r EXCEPT !.mem = [@ EXCEPT ![r.buf.ptr].cells[n + 1] = v]], Append(st.text[s], v))

-----------------------------------------------------------------------------
(* ScalarSketchTools::Serialize of an Item of elements with the sizes given *)
(* in bytes; the stream is a sequence of what msgpack packs, each with the  *)
(* bytes it takes.                                                          *)
HeadSizeOfStr(n) == IF n < 32 THEN 1 ELSE IF n < 256 THEN 2 ELSE IF n < 65536 THEN 3 ELSE 5
HeadSizeOfArray(n) == IF n < 16 THEN 1 ELSE IF n < 65536 THEN 3 ELSE 5
ElementSizes == {0, 31, 32, 300, 70000}
ItemShapes == [array : {TRUE}, sizes : UNION {[1 .. n -> ElementSizes] : n \in 0 .. 3}]
              \cup [array : {FALSE}, sizes : [1 .. 1 -> ElementSizes]]
              \cup [array : {TRUE}, sizes : {[k \in 1 .. 15 |-> 1], [k \in 1 .. 16 |-> 1]}]

PackWritten(s, token, n) == [s EXCEPT !.out = Append(@, token), !.size = @ + n, !.cap = Max({@, s.size + n})]
Expanded(s, extra) == [s EXCEPT !.cap = Max({@, s.size + extra})]
WithHeader(s) == IF s.header THEN PackWritten(s, <<"int", 7>>, 1) ELSE s

(* The size asked for with a null buffer, and the call that packs.          *)
SerializedSize(x, header) ==
    (IF x.array THEN HeadSizeOfArray(Len(x.sizes)) ELSE 0) + (IF header THEN 1 ELSE 0)
    + MapThenSumSet(LAMBDA k : x.sizes[k] + HeadSizeOfStr(x.sizes[k]), DOMAIN x.sizes)
PackStart ==
    /\ st.kind = "pack" /\ st.at = 0
    /\ LET x == st.x
           n == Len(x.sizes)
           wide == IF ~x.array THEN Expanded(st, x.sizes[1] + HeadSizeOfStr(x.sizes[1]) + 1)
                   ELSE IF n = 0 THEN st ELSE Expanded(st, ((x.sizes[1] + 5) * n * 11) \div 10)
           head == WithHeader(wide)
       IN  Step("buffers", [(IF x.array THEN PackWritten(head, <<"array", n>>, HeadSizeOfArray(n)) ELSE head) EXCEPT !.at = 1])

(* Room for the next element: the mean of what came before for all that are *)
(* left, but at least the element.                                          *)
RoomMean(sizes, k) == LET sum == MapThenSumSet(LAMBDA j : sizes[j], 1 .. k) IN ((sum \div k) + 5) * (Len(sizes) - (k - 1))
Room(sizes, k) == LET sum == MapThenSumSet(LAMBDA j : sizes[j], 1 .. k)
                  IN  Max({((sum \div k) + 5) * (Len(sizes) - (k - 1)), sizes[k]})
PackElement ==
    /\ st.kind = "pack" /\ st.at \in DOMAIN st.x.sizes
    /\ LET body == st.x.sizes[st.at]
           head == PackWritten(st, <<"str", body>>, HeadSizeOfStr(body))
           wide == IF head.x.array /\ head.cap - head.size < body THEN Expanded(head, Room(st.x.sizes, st.at)) ELSE head
       IN  Step("buffers", [PackWritten(wide, <<"body", st.at>>, body) EXCEPT
                                !.at = @ + 1, !.spill = @ \/ body > wide.cap - wide.size])

(* Deserialize reads one object; <<>> for an exception.                     *)
DeserializeItem(out) ==
    IF out[1][1] = "str" THEN <<[array |-> FALSE, sizes |-> <<out[1][2]>>]>>
    ELSE IF out[1][1] = "array" THEN <<[array |-> TRUE, sizes |-> [k \in 1 .. out[1][2] |-> out[2 * k][2]]]>>
    ELSE <<>>

-----------------------------------------------------------------------------
(* SerializeVarsTo: the variables packed one after another into a           *)
(* FixedBuffer of len bytes, whose write refuses to go past the end; a      *)
(* ShadowBuffer only counts.  A variable is the list of the writes msgpack  *)
(* makes for it.                                                            *)
VarWrites == {<<1>>, <<2, 3>>, <<1, 1, 2>>}
VarsSize(vars) == FoldLeft(LAMBDA a, v : a + FoldLeft(+, 0, v), 0, vars)
OverflowsAt(pos, n, len) == pos + n >= len
Overflows(pos, n, len) == pos + n > len
WriteVar ==
    /\ st.kind = "vars" /\ st.todo # <<>> /\ ~st.threw
    /\ LET w == Head(Head(st.todo))
           rest == Tail(Head(st.todo))
       IN  IF Overflows(st.pos, w, st.len) THEN Step("buffers", [st EXCEPT !.threw = TRUE])
           ELSE Step("buffers", [st EXCEPT !.pos = @ + w, !.todo = IF rest = <<>> THEN Tail(@) ELSE <<rest>> \o Tail(@)])

-----------------------------------------------------------------------------
(* int128: the halves of a number, and its digits.                          *)
HalfMod == 2 ^ HalfBits
BitCastToSigned(v) == IF v >= (HalfMod * HalfMod) \div 2 THEN v - HalfMod * HalfMod ELSE v
Unsigned(v) == v % (HalfMod * HalfMod)
MakeInt128Wide(hi, lo) == BitCastToSigned(Unsigned(hi * HalfMod)) + (IF lo >= HalfMod \div 2 THEN lo - HalfMod ELSE lo)
MakeInt128(hi, lo) == BitCastToSigned(Unsigned(hi * HalfMod)) + lo
MakeUint128(hi, lo) == hi * HalfMod + lo
Signed64(v) == IF v >= HalfMod \div 2 THEN v - HalfMod ELSE v
DecomposeInt128(v) == <<Signed64(Unsigned(v) \div HalfMod), Unsigned(v) % HalfMod>>
DecomposeUInt128(v) == <<v \div HalfMod, v % HalfMod>>
(* The msgpack adapters: a pair of the halves.                              *)
PackInt128(v) == DecomposeInt128(v)
ConvertInt128(o) == MakeInt128(o[1], o[2])
PackUint128(v) == DecomposeUInt128(v)
ConvertUint128(o) == MakeUint128(o[1], o[2])
CountlZero(v) == HalfBits - Cardinality({k \in 0 .. HalfBits - 1 : 2 ^ k <= v})
CountLZ(v) == LET d == DecomposeUInt128(v) IN IF d[1] = 0 THEN CountlZero(d[2]) + HalfBits ELSE CountlZero(d[1])
CountBitWidth(v) == 2 * HalfBits - CountLZ(v)
Int128s == MakeInt128(-(HalfMod \div 2), 0) .. MakeInt128((HalfMod \div 2) - 1, HalfMod - 1)

(* operator<<: the sign, then the digits of the magnitude, last one first.  *)
Magnitude(v) == IF v < 0 THEN Unsigned(-(v + 1)) + 1 ELSE v
PrintUInt128 ==
    /\ st.kind = "int128" /\ (st.x > 0 \/ st.digits = <<>>)
    /\ Step("buffers", [st EXCEPT !.digits = <<st.x % 10>> \o @, !.x = @ \div 10])

-----------------------------------------------------------------------------
BufInit ==
    \/ Start("buffers", BufInit0)
    \/ \E x \in ItemShapes, h \in BOOLEAN :
           Start("buffers", [kind |-> "pack", x |-> x, header |-> h, out |-> <<>>, size |-> 0, cap |-> 0, at |-> 0, spill |-> FALSE])
    \/ \E n \in 1 .. 2 : \E vars \in [1 .. n -> VarWrites] : \E len \in 0 .. VarsSize(vars) + 1 :
           Start("buffers", [kind |-> "vars", vars |-> vars, todo |-> vars, len |-> len, pos |-> 0, threw |-> FALSE])
    \/ \E v \in Int128s : Start("buffers", [kind |-> "int128", v |-> v, x |-> Magnitude(v), digits |-> <<>>])
BufNext ==
    /\ part = "buffers"
    /\ \/ /\ st.kind = "buffer" /\ st.calls < BufferCalls
          /\ \/ BufMove
             \/ \E s \in {1, 2} : \/ BufMake(s) \/ BufAdopt(s) \/ BufSetSize(s) \/ BufSetCap(s) \/ BufClear(s) \/ BufCopy(s)
                                  \/ BufRelease(s) \/ BufStream(s)
       \/ PackStart \/ PackElement \/ WriteVar \/ PrintUInt128

-----------------------------------------------------------------------------
(* Every block is in the hands of one Buffer or of who called release(), or *)
(* was freed, once, the way it was allocated; no Buffer shows freed memory  *)
(* or more than its block has (Buffer's resize, reserve, reset, release,    *)
(* copies and moves).                                                       *)
BufferOwned ==
    part = "buffers" /\ st.kind = "buffer" =>
        /\ \A p \in DOMAIN st.mem :
             LET holders == {s \in {1, 2} : st.buf[s].ptr = p}
             IN  IF st.mem[p].freed = <<>> THEN Cardinality(holders) + (IF p \in st.given THEN 1 ELSE 0) = 1
                 ELSE /\ holders = {} /\ p \notin st.given
                      /\ st.mem[p].freed = IF st.mem[p].by = "client" THEN <<"deleter">> ELSE <<"delete">>
        /\ \A s \in {1, 2} : LET b == st.buf[s]
             IN  /\ b.size <= b.cap /\ (b.ptr = 0 => b.cap = 0)
                 /\ b.ptr # 0 => (b.cap = Len(st.mem[b.ptr].cells) /\ b.deleter = (st.mem[b.ptr].by = "client"))

(* A Buffer shows the bytes last put there, however often it grew, shrank,  *)
(* was copied or moved in between.                                          *)
BufferKeeps ==
    part = "buffers" /\ st.kind = "buffer" => \A s \in {1, 2} :
        /\ st.buf[s].size = Len(st.text[s])
        /\ \A k \in DOMAIN st.text[s] : st.text[s][k] # 9 => st.mem[st.buf[s].ptr].cells[k] = st.text[s][k]

(* A serialized Item takes exactly the bytes the size query announced, no   *)
(* element is written past the capacity there was, and reading it back      *)
(* gives the Item (ScalarSketchTools::Serialize, GFScalarSketch::           *)
(* Deserialize), after the header where there is one.                       *)
PackedItemFits ==
    part = "buffers" /\ st.kind = "pack" =>
        /\ ~st.spill
        /\ st.at > Len(st.x.sizes) =>
             /\ st.size = SerializedSize(st.x, st.header) /\ st.size <= st.cap
             /\ DeserializeItem(IF st.header THEN Tail(st.out) ELSE st.out) = <<st.x>>

(* SerializeVarsTo with a null pointer gives the smallest length with which *)
(* it does not throw; it never passes the end of the buffer.                *)
VarsSizeExact ==
    part = "buffers" /\ st.kind = "vars" =>
        /\ st.pos <= st.len
        /\ st.threw => st.len < VarsSize(st.vars)
        /\ st.todo = <<>> => st.pos = VarsSize(st.vars) /\ st.len >= st.pos

(* An int128 survives being split in halves for msgpack and put together    *)
(* again, its bit width is the one of its value, and it prints as itself,   *)
(* the smallest one too.                                                    *)
Int128Whole ==
    part = "buffers" /\ st.kind = "int128" =>
        /\ ConvertInt128(PackInt128(st.v)) = st.v
        /\ LET u == Unsigned(st.v) IN
             /\ ConvertUint128(PackUint128(u)) = u
             /\ u < 2 ^ CountBitWidth(u) /\ (u > 0 => u >= 2 ^ (CountBitWidth(u) - 1))
        /\ st.digits # <<>> /\ st.x = 0 =>
             FoldLeft(LAMBDA a, d : a * 10 + d, 0, st.digits) = IF st.v < 0 THEN -st.v ELSE st.v
=============================================================================
