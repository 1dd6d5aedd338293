-------------------------------- MODULE Spi ---------------------------------
(* utils/spi: the registry of libraries behind an interface, the choice of  *)
(* one, and the arguments given with it.  EcGroupFactory is the registry of *)
(* curve libraries; the other one takes any registrations.                  *)
EXTENDS Integers, Sequences, FiniteSets, SequencesExt, FiniteSetsExt, Curves, Scenario

CONSTANT SpiCalls      \* registrations with a registry

(* SpiArgs: the first argument with a key is kept; Value<T> throws for      *)
(* another type.  An argument is <<key, type, value>>; a string value is in *)
(* lower case from the start (SpiArg::operator=).                           *)
SpiArg(key, type, value) == <<key, type, IF type = "string" THEN AsciiStrToLower(value) ELSE value>>
SpiArgsLast(list) == {list[i] : i \in {j \in DOMAIN list : \A k \in j + 1 .. Len(list) : list[k][1] # list[j][1]}}
SpiArgs(list) == {list[i] : i \in {j \in DOMAIN list : \A k \in 1 .. j - 1 : list[k][1] # list[j][1]}}
GetOptional(args, key, type) ==      \* <<>> if there is none, <<value>>, or a pair when it throws
    LET hits == {a \in args : a[1] = key}
    IN  IF hits = {} THEN <<>> ELSE LET a == CHOOSE h \in hits : TRUE IN IF a[2] = type THEN <<a[3]>> ELSE <<"", "throws">>

(* libs_map_ and performance_map_: unsigned performances, highest first, a  *)
(* new one after the ones equal to it.  A signed one that is negative is    *)
(* larger than all others.                                                  *)
EmptyFactory == [libs |-> <<>>, perf |-> <<>>]
AsUnsigned64(p) == IF p < 0 THEN 2 ^ 30 + p ELSE p
PerfPlaceFirst(perf, p) == Cardinality({i \in DOMAIN perf : perf[i][1] > p}) + 1
PerfPlace(perf, p) == Cardinality({i \in DOMAIN perf : perf[i][1] >= p}) + 1
Register(f, name, performance, checker) ==
    LET key == AsciiStrToLower(name)
    IN  IF \E i \in DOMAIN f.libs : f.libs[i].key = key THEN f
        ELSE [libs |-> Append(f.libs, [key |-> key, check |-> checker]),
              perf |-> InsertAt(f.perf, PerfPlace(f.perf, AsUnsigned64(performance)), <<AsUnsigned64(performance), key>>)]

(* What a library's Check says of a feature: "yes", "no" or, when it asks   *)
(* for an argument that is missing, "throws".                               *)
KeysOf(f) == {f.libs[i].key : i \in DOMAIN f.libs}
Check(f, key, feature) == LET lib == CHOOSE i \in DOMAIN f.libs : f.libs[i].key = key
                          IN  IF feature \in f.libs[lib].check.yes THEN "yes"
                              ELSE IF feature \in f.libs[lib].check.throws THEN "throws" ELSE "no"

(* CreateFromArgPkg: the name of the library, <<>> when it throws.          *)
BestLib(f, feature) ==
    LET stop == {i \in DOMAIN f.perf : Check(f, f.perf[i][2], feature) # "no"}
    IN  IF stop = {} \/ Check(f, f.perf[Min(stop)][2], feature) = "throws" THEN <<>> ELSE <<f.perf[Min(stop)][2]>>
CreateFromArgPkg(f, feature, args) ==
    LET lib == GetOptional(args, "lib", "string")
    IN  IF lib = <<>> THEN BestLib(f, feature)
        ELSE IF Len(lib) = 2 \/ lib[1] \notin KeysOf(f) THEN <<>>
        ELSE IF Check(f, lib[1], feature) = "yes" THEN <<lib[1]>> ELSE <<>>

(* ListLibrariesFromArgPkg: <<>> when it throws, else a set in a tuple.     *)
ListLibrariesFromArgPkg(f, feature, args) ==
    LET lib == GetOptional(args, "lib", "string")
        asked == {k \in KeysOf(f) : lib = <<>> \/ lib[1] = k}
    IN  IF Len(lib) = 2 \/ \E k \in asked : Check(f, k, feature) = "throws" THEN <<>>
        ELSE <<{k \in asked : Check(f, k, feature) = "yes"}>>

-----------------------------------------------------------------------------
LibNames == {"Toy", "OpenSSL", "toy"}
Checkers == {[yes |-> {"F"}, throws |-> {}], [yes |-> {"F", "G"}, throws |-> {}], [yes |-> {"F"}, throws |-> {"G"}]}
ArgLists == {<<>>, <<SpiArg("lib", "int", 1)>>}
            \cup {<<SpiArg("lib", "string", n)>> : n \in LibNames}
            \cup {<<SpiArg("lib", "string", "Toy"), SpiArg("lib", "string", "OpenSSL")>>, <<SpiArg("mod", "int", 7), SpiArg("lib", "string", "toy")>>}

SpiInit == Start("spi", [kind |-> "libs", f |-> EmptyFactory, calls |-> <<>>])
SpiRegister == \E name \in LibNames, performance \in {-1, 0, 5}, checker \in Checkers :
    /\ Len(st.calls) < SpiCalls
    /\ Step("spi", [st EXCEPT !.f = Register(@, name, performance, checker), !.calls = Append(@, <<name, performance, checker>>)])
SpiNext == part = "spi" /\ SpiRegister

(* EcGroupFactory: the checker finds the curve by its name first.           *)
EcGroupFactory ==
    LET register(f, lib) == Register(f, lib[1], lib[2], [yes |-> {k \in DOMAIN kPredefinedCurves : IsSupported(lib, kPredefinedCurves[k])}, throws |-> {}])
    IN  register(register(register(register(EmptyFactory, <<"FourQlib", 1500, FourQCurves>>), <<"libmcl", 400, Name2MclCurveEnum>>),
                          <<"OpenSSL", 100, kName2Nid>>), <<"Toy", 10, ToyCurves>>)
EcCreateAsIs(m, name, args) ==
    LET hits == {e \in m : e[1] = name}
    IN  IF hits = {} THEN <<>> ELSE CreateFromArgPkg(EcGroupFactory, (CHOOSE e \in hits : TRUE)[2], args)
EcCreate(m, name, args) ==
    LET hits == {e \in m : e[1] = AsciiStrToLower(name)}
    IN  IF hits = {} THEN <<>> ELSE CreateFromArgPkg(EcGroupFactory, (CHOOSE e \in hits : TRUE)[2], args)

-----------------------------------------------------------------------------
(* The registration a library goes by is the first under its name.          *)
Counted(calls) == {i \in DOMAIN calls : \A j \in 1 .. i - 1 : AsciiStrToLower(calls[j][1]) # AsciiStrToLower(calls[i][1])}
Prior(calls, i, j) == calls[i][2] > calls[j][2] \/ (calls[i][2] = calls[j][2] /\ i < j)

(* Create without a library takes, of the registered ones that support the  *)
(* feature, the one of highest performance and of equal ones the one        *)
(* registered first, whatever the order of registrations; it throws when    *)
(* none supports it.  Left out are features for which a better library      *)
(* throws when it is asked, and registries with performances on both sides  *)
(* of zero: Register orders them as unsigned numbers.                       *)
BestLibraryChosen ==
    part = "spi" => \A feature \in {"F", "G", "H"} :
        LET can == {i \in Counted(st.calls) : feature \in st.calls[i][3].yes}
            bad == {i \in Counted(st.calls) : feature \in st.calls[i][3].throws}
            best == CHOOSE i \in can : \A j \in can \ {i} : Prior(st.calls, i, j)
            oneSign == \A i, j \in Counted(st.calls) : st.calls[i][2] < 0 <=> st.calls[j][2] < 0
            made == CreateFromArgPkg(st.f, feature, {})
        IN  /\ can = {} => made = <<>>
            /\ can # {} /\ oneSign /\ (\A j \in bad : Prior(st.calls, best, j)) => made = <<AsciiStrToLower(st.calls[best][1])>>

(* Create and ListLibraries agree: Create gives a library of the list, and  *)
(* one whenever there is one; a library that is named, in any spelling, is  *)
(* the one that is used or none is.                                         *)
CreateAgreesWithList ==
    part = "spi" => \A feature \in {"F", "G", "H"}, list \in ArgLists :
        LET args == SpiArgs(list)
            made == CreateFromArgPkg(st.f, feature, args)
            libs == ListLibrariesFromArgPkg(st.f, feature, args)
            named == {list[i][3] : i \in {j \in DOMAIN list : list[j][1] = "lib" /\ list[j][2] = "string"}}
        IN  /\ libs # <<>> => IF libs[1] = {} THEN made = <<>> ELSE made # <<>> /\ made[1] \in libs[1]
            /\ made # <<>> /\ named # {} => made[1] = list[Min({j \in DOMAIN list : list[j][1] = "lib"})][3]
            /\ \A i \in Counted(st.calls) :
                  list = <<SpiArg("lib", "string", st.calls[i][1])>> /\ feature \in st.calls[i][3].yes => made # <<>>

(* A curve is created under all of its names by the same library, or under  *)
(* none; the reference library Toy is taken when asked for, and by itself   *)
(* only for the curve no other library knows.                               *)
EcGroupByAnyName ==
    part = "curves" /\ st.at = Len(kPredefinedCurves) =>
        /\ \A k \in DOMAIN kPredefinedCurves : \A i \in DOMAIN NamesOf(kPredefinedCurves[k]) :
              EcCreate(st.map, NamesOf(kPredefinedCurves[k])[i], {}) = EcCreate(st.map, kPredefinedCurves[k].name, {})
        /\ \A name \in ToyCurves : /\ EcCreate(st.map, name, {SpiArg("lib", "string", "Toy")}) = <<"toy">>
                                   /\ EcCreate(st.map, name, {}) = IF name = "curve25519" THEN <<"toy">>
                                                                   ELSE IF name = "sm2" THEN <<"openssl">> ELSE <<"libmcl">>

-----------------------------------------------------------------------------
(* utils/spi/item and the scalar sketches over it.  An Item holds a scalar, *)
(* a vector of its own or a span of somebody's array, and three meta bits   *)
(* that say which.  Memory is a sequence of blocks, so that a span can be   *)
(* seen to outlive the array it shows.                                      *)

CONSTANT ItemCalls        \* calls a client makes

ElemType == {"t", "u"}
Slots == {1, 2}

(* A block: the type, the elements and whether it was freed.  Blocks 1 and  *)
(* 2 are the client's own arrays, the second a const one.                   *)
Block(t, cells) == [type |-> t, cells |-> cells, live |-> TRUE]
Outside == <<Block("t", <<1, 2, 3>>), Block("t", <<3, 1>>)>>

(* What v_ holds: its raw type is held, type and const together.            *)
Nothing == [held |-> "none", type |-> "t", const |-> FALSE, buf |-> 0, off |-> 0, len |-> 0, meta |-> {}]
SetupMetaAnew(it, array, view, readonly) == [it EXCEPT !.meta = IF array THEN {"array"} ELSE {}]
SetupMeta(it, array, view, readonly) ==
    [it EXCEPT !.meta = @ \cup (IF array THEN {"array"} ELSE {}) \cup (IF view THEN {"view"} ELSE {})
                           \cup (IF readonly THEN {"readonly"} ELSE {})]
Holding(it, held, type, const, buf, off, len) ==
    [it EXCEPT !.held = held, !.type = type, !.const = const, !.buf = buf, !.off = off, !.len = len]
IsArray(it) == "array" \in it.meta
IsView(it) == "view" \in it.meta
IsReadOnly(it) == "readonly" \in it.meta
RawTypeIs(it, held, type, const) == it.held = held /\ it.type = type /\ it.const = const
DataTypeIs(it, t) ==
    IF IsArray(it) THEN RawTypeIs(it, "vector", t, FALSE) \/ \E c \in BOOLEAN : RawTypeIs(it, "span", t, c)
    ELSE RawTypeIs(it, "scalar", t, FALSE)

(* As<...>: the span over what is held if the raw type is the one asked     *)
(* for, and <<>> for the exception.                                         *)
Shown(it, const) == <<[buf |-> it.buf, off |-> it.off, len |-> it.len, const |-> const]>>
AsHeld(it, held, t, rawconst, const) == IF RawTypeIs(it, held, t, rawconst) THEN Shown(it, const) ELSE <<>>

(* AsSpan<T> and AsSpan<const T> of an Item, and of a const one.            *)
AsSpanData(it, t, const) == IF DataTypeIs(it, t) THEN Shown(it, const) ELSE <<>>
AsSpan(it, t, const) ==
    IF ~IsArray(it) THEN IF IsReadOnly(it) THEN <<>> ELSE AsHeld(it, "scalar", t, FALSE, const)
    ELSE IF IsReadOnly(it)
         THEN IF ~const THEN <<>> ELSE AsHeld(it, IF IsView(it) THEN "span" ELSE "vector", t, IsView(it), TRUE)
         ELSE AsHeld(it, IF IsView(it) THEN "span" ELSE "vector", t, FALSE, const)
AsSpanConst(it, t) ==
    IF ~IsArray(it) THEN AsHeld(it, "scalar", t, FALSE, TRUE)
    ELSE IF IsView(it) THEN AsHeld(it, "span", t, IsReadOnly(it), TRUE)
    ELSE AsHeld(it, "vector", t, FALSE, TRUE)
ItemSize(it, t) == IF ~IsArray(it) THEN <<1>> ELSE IF AsSpanConst(it, t) = <<>> THEN <<>> ELSE <<AsSpanConst(it, t)[1].len>>

(* SubItem: SubConstItemImpl for a const Item, for const T and for a        *)
(* read-only span, else SubItemImpl.                                         *)
SubConst(it, const, constitem) == constitem \/ IsReadOnly(it) \/ const
SubItem(it, t, pos, len, ro) ==
    LET sp == IF ro THEN AsSpanConst(it, t) ELSE AsSpan(it, t, FALSE)
    IN  IF ~IsArray(it) \/ sp = <<>> \/ (sp # <<>> /\ pos > sp[1].len) THEN <<>>
        ELSE <<SetupMeta(Holding(Nothing, "span", t, ro, it.buf, sp[1].off + pos, Min({len, sp[1].len - pos})), TRUE, TRUE, ro)>>

-----------------------------------------------------------------------------
(* A client has two Items and the span it was last given.  kept are the     *)
(* elements of the right type that a ResizeAndSpan found.                   *)
Elements(m, sp) == [k \in 1 .. sp.len |-> m[sp.buf].cells[sp.off + k]]
ItInit ==
    Start("item", [mem |-> Outside, it |-> [s \in Slots |-> Nothing], last |-> <<>>, call |-> "none", asked |-> 0, array |-> FALSE,
                   kept |-> <<>>, sum |-> <<>>, calls |-> 0])

Owns(it) == it.held \in {"scalar", "vector"}
Free(m, it) == IF Owns(it) THEN [m EXCEPT ![it.buf].live = FALSE] ELSE m
New(m, b) == Append(m, b)
Calls(s) == Step("item", [s EXCEPT !.calls = @ + 1])
SetItem(s, m, it) == [st EXCEPT !.mem = Free(m, st.it[s]), !.it[s] = it, !.last = <<>>, !.call = "set"]

(* Item(value), Take(vector), Ref(array).                                   *)
ItScalar(s) == \E t \in ElemType :
    LET m == New(st.mem, Block(t, <<2>>))
    IN  Calls(SetItem(s, m, SetupMeta(Holding(Nothing, "scalar", t, FALSE, Len(m), 0, 1), FALSE, FALSE, FALSE)))
ItTake(s) ==
    LET m == New(st.mem, Block("u", <<1, 2>>))
    IN  Calls(SetItem(s, m, SetupMeta(Holding(Nothing, "vector", "u", FALSE, Len(m), 0, 2), TRUE, FALSE, FALSE)))
ItRef(s) == \E b \in DOMAIN Outside :
    LET n == Len(Outside[b].cells)
    IN  Calls(SetItem(s, st.mem, SetupMeta(Holding(Nothing, "span", "t", b = 2, b, 0, n), TRUE, TRUE, b = 2)))

(* The copy of an Item has a vector of its own, but shows the same span.    *)
ItCopy(s) ==
    LET o == st.it[3 - s]
        m == New(st.mem, [st.mem[o.buf] EXCEPT !.live = TRUE])
    IN  /\ o # Nothing /\ st.mem[o.buf].live
        /\ Calls(IF Owns(o) THEN SetItem(s, m, [o EXCEPT !.buf = Len(m)]) ELSE SetItem(s, st.mem, o))
ItSub(s) == \E const \in BOOLEAN, constitem \in BOOLEAN, pos \in {0, 1} :
    LET o == st.it[3 - s]
        r == SubItem(o, "t", pos, 2, SubConst(o, const, constitem))
    IN  /\ o # Nothing /\ st.mem[o.buf].live
        /\ IF r = <<>> THEN Calls([st EXCEPT !.last = <<>>, !.call = "throws"]) ELSE Calls(SetItem(s, st.mem, r[1]))

(* ResizeAndSpan<t>(n).  A vector only ever grows; it grows in a new block. *)
GrownFresh(it, m, t, n) == [k \in 1 .. n |-> 0]
Grown(it, m, t, n) == [k \in 1 .. n |-> IF RawTypeIs(it, "vector", t, FALSE) /\ k <= it.len THEN m[it.buf].cells[k] ELSE 0]
Resized(it, m, t, n) ==
    IF ~IsArray(it)
    THEN LET c == [k \in 1 .. n |-> IF k = 1 /\ RawTypeIs(it, "scalar", t, FALSE) THEN m[it.buf].cells[1] ELSE 0]
         IN  [mem |-> New(Free(m, it), Block(t, c)),
              it |-> SetupMeta(Holding(it, "vector", t, FALSE, Len(m) + 1, 0, n), TRUE, FALSE, FALSE), ok |-> TRUE]
    ELSE IF ~IsView(it)
    THEN IF RawTypeIs(it, "vector", t, FALSE) /\ it.len >= n THEN [mem |-> m, it |-> it, ok |-> TRUE]
         ELSE [mem |-> New(Free(m, it), Block(t, Grown(it, m, t, n))),
               it |-> Holding(it, "vector", t, FALSE, Len(m) + 1, 0, n), ok |-> TRUE]
    ELSE [mem |-> m, it |-> it, ok |-> ~IsReadOnly(it) /\ RawTypeIs(it, "span", t, FALSE) /\ it.len >= n]
ItResize(s) == \E t \in ElemType, n \in {0, 1, 3} :
    LET it == st.it[s]
        r == Resized(it, st.mem, t, n)
    IN  /\ it # Nothing /\ st.mem[it.buf].live
        /\ Calls([st EXCEPT !.mem = r.mem, !.it[s] = r.it, !.asked = n, !.array = IsArray(it), !.call = IF r.ok THEN "resize" ELSE "throws",
                            !.kept = IF it.type = t THEN Elements(st.mem, Shown(it, FALSE)[1]) ELSE <<>>,
                            !.last = IF r.ok THEN <<[Shown(r.it, FALSE)[1] EXCEPT !.len = n]>> ELSE <<>>])

ItSpan(s) == \E t \in ElemType, const \in BOOLEAN :
    LET it == st.it[s]
        sp == AsSpan(it, t, const)
    IN  /\ it # Nothing /\ st.mem[it.buf].live
        /\ Calls([st EXCEPT !.last = sp, !.call = IF sp = <<>> THEN "throws" ELSE "span"])

(* The client writes through the span it has, as long as it is good.        *)
ItWrite ==
    /\ st.last # <<>> /\ ~st.last[1].const /\ st.last[1].len > 0 /\ st.mem[st.last[1].buf].live
    /\ Calls([st EXCEPT !.mem[st.last[1].buf].cells[st.last[1].off + 1] = 5, !.last = <<>>, !.call = "write"])

(* CallBinaryInplaceFunc of a sketch: x[i] += y[i] from the first i to the  *)
(* last (one range of the parallel loop).  sum is what the elements were to *)
(* be.                                                                      *)
AddInplaceOdd(m, x, y) == [m EXCEPT ![x.buf].cells[x.off + 1] = @ + m[y.buf].cells[y.off + 1]]
AddInplace(m, x, y) ==
    FoldLeft(LAMBDA a, k : [a EXCEPT ![x.buf].cells[x.off + k] = @ + a[y.buf].cells[y.off + k]],
             m, [k \in 1 .. x.len |-> k])
SizesFit(x, y) == x # <<>> /\ y # <<>> /\ (x # <<>> /\ y # <<>> => x[1].len = y[1].len)
Operands(a, b) == <<IsArray(a), IsArray(b)>>
ItAdd == \E s \in Slots :
    LET a == st.it[s]
        b == st.it[3 - s]
        x == AsSpan(a, "t", FALSE)
        y == AsSpanConst(b, "t")
        ok == /\ Operands(a, b) \in {<<TRUE, TRUE>>, <<FALSE, FALSE>>}
              /\ SizesFit(x, y)
    IN  /\ a # Nothing /\ b # Nothing /\ st.mem[a.buf].live /\ st.mem[b.buf].live
        /\ Calls(IF ok THEN [st EXCEPT !.mem = AddInplace(@, x[1], y[1]), !.last = <<>>, !.call = "add",
                                !.sum = <<[sp |-> x[1], other |-> y[1],
                                           is |-> [k \in 1 .. x[1].len |-> Elements(st.mem, x[1])[k] + Elements(st.mem, y[1])[k]]]>>]
                 ELSE [st EXCEPT !.call = "throws"])

ItNext ==
    /\ part = "item" /\ st.calls < ItemCalls
    /\ \/ \E s \in Slots : ItScalar(s) \/ ItTake(s) \/ ItRef(s) \/ ItCopy(s) \/ ItSub(s) \/ ItResize(s) \/ ItSpan(s)
       \/ ItWrite \/ ItAdd

-----------------------------------------------------------------------------
(* The meta bits, which SetupMeta only ever sets, say what v_ holds, whatever   *)
(* replaced what; so every conversion looks for the type that is there, and *)
(* the queries agree (IsArray, IsView, IsReadOnly, DataTypeIs, Size).       *)
ItemMetaTrue ==
    part = "item" => \A s \in Slots : LET it == st.it[s] IN it # Nothing =>
        /\ IsArray(it) <=> it.held \in {"vector", "span"}
        /\ IsView(it) <=> it.held = "span"
        /\ IsReadOnly(it) <=> it.const
        /\ \A t \in ElemType : DataTypeIs(it, t) <=> AsSpanConst(it, t) # <<>>
        /\ ItemSize(it, it.type) = <<it.len>>

(* An array that was given as const is never written and no writable span   *)
(* of it can be had, through whatever copies and sub-items (SubItem,        *)
(* ResizeAndSpan, AsSpan).                                                  *)
ItemConstKept ==
    part = "item" =>
        /\ st.mem[2] = Outside[2]
        /\ st.last # <<>> /\ (st.last # <<>> => st.last[1].buf = 2) => st.last[1].const

(* ResizeAndSpan gives a writable span of the size asked for, inside live   *)
(* memory of the Item, with the elements of that type that were there       *)
(* before; the Item has at least that many, and an array still all it had.  *)
ItemResized ==
    part = "item" /\ st.call = "resize" =>
        LET sp == st.last[1]
        IN  /\ sp.len = st.asked /\ ~sp.const /\ st.mem[sp.buf].live
            /\ sp.off + sp.len <= Len(st.mem[sp.buf].cells)
            /\ \A k \in DOMAIN st.kept : k <= sp.len => Elements(st.mem, sp)[k] = st.kept[k]
            /\ \E s \in Slots : st.it[s].buf = sp.buf /\ st.it[s].len >= Max({st.asked, IF st.array THEN Len(st.kept) ELSE 0})

(* An in-place operation of a sketch gives each element of its first        *)
(* operand the sum of the two, unless the operands are views that overlap   *)
(* without being the same (CallBinaryInplaceFunc).                          *)
SketchAddsRight ==
    part = "item" /\ st.call = "add" =>
        LET a == st.sum[1]
        IN  \/ a.sp.buf = a.other.buf /\ a.sp.off # a.other.off
            \/ Elements(st.mem, a.sp) = a.is
=============================================================================
