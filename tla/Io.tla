--------------------------------- MODULE Io ---------------------------------
(* io/stream and io/kv: the streams on a file and on a string, reading and  *)
(* writing, and the key-value store on disk.  The state bits of std::ios    *)
(* and which of them throw are part of the model: the classes are little    *)
(* else.                                                                    *)
EXTENDS Integers, Sequences, FiniteSets, SequencesExt, FiniteSetsExt, TLC, Scenario

CONSTANTS IoCalls,     \* calls on the streams of one scenario
          IoTexts,     \* lengths of the file
          IoKvCalls    \* calls on the stores

-----------------------------------------------------------------------------
(* Reading.  A file is a sequence of characters, DELIM ends a line.  An     *)
(* open stream has a position and the bits eof and fail; thrown says that   *)
(* the last call threw.                                                     *)
DELIM == "n"
IoFiles == UNION {[1 .. n -> {"a", DELIM}] : n \in IoTexts}
Reading(text) == [text |-> text, open |-> TRUE, pos |-> 0, eof |-> FALSE, fail |-> FALSE, len |-> Len(text), line |-> <<>>, thrown |-> FALSE]
Good(s) == ~s.eof /\ ~s.fail
Ends(s) == {i \in s.pos + 1 .. Len(s.text) : s.text[i] = DELIM}
(* std::getline, extern: a sentry that fails only sets the fail bit.        *)
StdGetline(s) ==
    LET to == IF Ends(s) = {} THEN Len(s.text) ELSE Min(Ends(s)) IN
    IF ~Good(s) THEN [s EXCEPT !.fail = TRUE, !.thrown = FALSE]
    ELSE IF ~s.open \/ s.pos >= Len(s.text) THEN [s EXCEPT !.eof = TRUE, !.fail = TRUE, !.line = <<>>, !.thrown = FALSE]
    ELSE [s EXCEPT !.line = SubSeq(s.text, s.pos + 1, IF Ends(s) = {} THEN to ELSE to - 1), !.pos = to, !.eof = Ends(s) = {}, !.thrown = FALSE]

(* A file's fail bit throws; GetLine takes it back at the end of the file.  *)
FileGetLine(s) == LET g == StdGetline(s) IN [g EXCEPT !.thrown = g.fail /\ ~g.eof]
MemGetLine(s) == StdGetline(s)
(* Reading past the end throws for a file; readsome on a string takes what  *)
(* there is and sets nothing.                                               *)
FileRead(s, n) ==
    IF ~Good(s) THEN [s EXCEPT !.fail = TRUE, !.thrown = TRUE]
    ELSE IF ~s.open \/ s.pos + n > Len(s.text) THEN [s EXCEPT !.eof = TRUE, !.fail = TRUE, !.pos = IF @ > Len(s.text) THEN @ ELSE Len(s.text), !.thrown = TRUE]
    ELSE [s EXCEPT !.pos = @ + n, !.thrown = FALSE]
MemRead(s, n) ==
    IF ~Good(s) THEN [s EXCEPT !.fail = TRUE, !.thrown = FALSE]
    ELSE [s EXCEPT !.pos = IF @ + n > Len(s.text) THEN Len(s.text) ELSE @ + n, !.thrown = FALSE]
FileSeekgKeepsBits(s, p) == IF s.open THEN [s EXCEPT !.pos = p, !.thrown = FALSE] ELSE [s EXCEPT !.fail = TRUE, !.thrown = TRUE]
FileSeekg(s, p) ==
    IF s.open THEN [s EXCEPT !.pos = p, !.eof = FALSE, !.fail = FALSE, !.thrown = FALSE]
    ELSE [s EXCEPT !.eof = FALSE, !.fail = TRUE, !.thrown = TRUE]
MemSeekg(s, p) ==
    IF p <= Len(s.text) THEN [s EXCEPT !.pos = p, !.eof = FALSE, !.fail = FALSE, !.thrown = FALSE]
    ELSE [s EXCEPT !.eof = FALSE, !.fail = TRUE, !.thrown = FALSE]
(* The bits are cleared, the position asked for and the bits put back; the  *)
(* exception a file's fail bit then raises is swallowed.  -1 when closed.   *)
FileTellg(s) == IF s.open THEN s.pos ELSE -1
MemTellg(s) == s.pos
FileClose(s) == IF s.open THEN [s EXCEPT !.open = FALSE, !.len = 0, !.thrown = FALSE] ELSE [s EXCEPT !.fail = TRUE, !.thrown = TRUE]
MemClosing(s) == [s EXCEPT !.text = <<>>, !.pos = 0, !.len = 0, !.thrown = FALSE]
(* Spawn opens the same file, or copies the string, and seeks to Tellg().   *)
FileSpawnAtStart(s) == <<Reading(s.text)>>
FileSpawn(s) == IF FileTellg(s) = -1 THEN <<>> ELSE <<FileSeekg(Reading(s.text), FileTellg(s))>>
MemSpawn(s) == <<MemSeekg(Reading(s.text), MemTellg(s))>>

(* The same calls on a file and on a string with the same characters.       *)
(* strayed: a Read or a Seekg went past the end, where the two differ.      *)
IoReadStart == \E text \in IoFiles :
    Start("streams", [kind |-> "read", file |-> Reading(text), mem |-> Reading(text), strayed |-> FALSE,
                      spawned |-> <<>>, rest |-> <<>>, calls |-> 0])
IoReadDid(f, m, strayed) ==
    Step("streams", [st EXCEPT !.file = f, !.mem = m, !.strayed = @ \/ strayed, !.calls = @ + 1, !.spawned = <<>>])
IoReading == st.kind = "read" /\ st.calls < IoCalls
IoGetLine == IoReading /\ IoReadDid(FileGetLine(st.file), MemGetLine(st.mem), FALSE)
IoRead ==
    IoReading /\ \E n \in 1 .. 2 : IoReadDid(FileRead(st.file, n), MemRead(st.mem, n), ~Good(st.file) \/ st.file.pos + n > Len(st.file.text))
IoSeekg == IoReading /\ \E p \in 0 .. Max(IoTexts) + 1 : IoReadDid(FileSeekg(st.file, p), MemSeekg(st.mem, p), p > Len(st.file.text))
IoClose == IoReading /\ IoReadDid(FileClose(st.file), MemClosing(st.mem), TRUE)
IoSpawn == IoReading /\ Step("streams", [st EXCEPT !.spawned = FileSpawn(st.file) \o MemSpawn(st.mem), !.calls = @ + 1])

-----------------------------------------------------------------------------
(* Writing.  out_ has characters the disk does not have yet; the file       *)
(* system may take them at any time and may refuse them, which sets the bad *)
(* bit.  told: an exception reached the caller, dead: _exit was called.     *)
Opened(old, trunc) == [disk |-> IF trunc THEN <<>> ELSE old, buf |-> <<>>, open |-> TRUE, bad |-> FALSE]
OpenedApp(old, trunc) == [disk |-> old, buf |-> <<>>, open |-> TRUE, bad |-> FALSE]
Drained(o) == [o EXCEPT !.disk = @ \o o.buf, !.buf = <<>>]
OutCan(o) == o.open /\ ~o.bad
IoWriteStart == \E trunc \in BOOLEAN, exits \in BOOLEAN :
    Start("streams", [kind |-> "write", out |-> Opened(<<"old">>, trunc), base |-> IF trunc THEN <<>> ELSE <<"old">>, exits |-> exits,
                      written |-> <<>>, closed |-> FALSE, told |-> FALSE, gone |-> FALSE, dead |-> FALSE])
IoWriting == st.kind = "write" /\ ~st.gone
IoFails(o) == [o EXCEPT !.bad = TRUE]
IoWrite ==
    /\ IoWriting /\ Len(st.written) < IoCalls
    /\ LET ch == Len(st.written) + 1 o == [st.out EXCEPT !.buf = Append(@, ch)] IN
       IF OutCan(st.out)
       THEN \/ Step("streams", [st EXCEPT !.out = o, !.written = Append(@, ch)])
            \/ Step("streams", [st EXCEPT !.out = IoFails(st.out), !.written = Append(@, ch), !.told = TRUE])
       ELSE Step("streams", [st EXCEPT !.out.bad = TRUE, !.written = Append(@, ch), !.told = TRUE])
IoDrain == IoWriting /\ OutCan(st.out) /\ st.out.buf # <<>> /\ Step("streams", [st EXCEPT !.out = Drained(st.out)])
IoFlush ==
    /\ IoWriting /\ OutCan(st.out)
    /\ \/ Step("streams", [st EXCEPT !.out = Drained(st.out)])
       \/ st.out.buf # <<>> /\ Step("streams", [st EXCEPT !.out = IoFails(st.out), !.told = TRUE])
(* Close, and the destructor that calls it and keeps what it throws.        *)
CloseOutForgets(o) == [o EXCEPT !.open = FALSE]
CloseOut(o) == [Drained(o) EXCEPT !.open = FALSE]
IoCloseOut ==
    /\ IoWriting
    /\ IF ~OutCan(st.out) THEN Step("streams", [st EXCEPT !.closed = TRUE])
       ELSE \/ Step("streams", [st EXCEPT !.out = CloseOut(st.out), !.closed = TRUE])
            \/ st.out.buf # <<>> /\ Step("streams", [st EXCEPT !.out = IoFails(st.out), !.told = TRUE])
IoDestroy ==
    /\ IoWriting
    /\ IF ~OutCan(st.out) THEN Step("streams", [st EXCEPT !.gone = TRUE])
       ELSE \/ Step("streams", [st EXCEPT !.out = CloseOut(st.out), !.gone = TRUE])
            \/ st.out.buf # <<>> /\ Step("streams", [st EXCEPT !.out = IoFails(st.out), !.gone = TRUE, !.dead = st.exits])

-----------------------------------------------------------------------------
(* The stores.  disk is the databases there are, by name; a client is one   *)
(* process with a store: not open, looking for a name, or open.             *)
KvKeys == {"k", "l"}
KvClients == {"p", "q"}
TempNames == 1 .. 2
LeveldbPut(kv, k, v) == [x \in DOMAIN kv \union {k} |-> IF x = k THEN v ELSE kv[x]]
EmptyKv == [x \in {} |-> 0]
IoKvStart ==
    Start("streams", [kind |-> "kv", disk |-> [n \in {} |-> EmptyKv], calls |-> 0,
                      c |-> [p \in KvClients |-> [at |-> "none", name |-> 0, mine |-> EmptyKv, raced |-> FALSE]]])
IoKv == st.kind = "kv" /\ st.calls < IoKvCalls
KvDid(s) == Step("streams", [s EXCEPT !.calls = @ + 1])
(* FindAvaliableTempFileName makes the file and removes it again.           *)
TempFreeAny(n) == TRUE
TempFree(n) == n \notin DOMAIN st.disk
IoFind(p) ==
    IoKv /\ st.c[p].at = "none" /\ \E n \in TempNames : TempFree(n) /\ KvDid([st EXCEPT !.c[p] = [@ EXCEPT !.at = "found", !.name = n, !.raced = FALSE]])
(* DB::Open takes the database's lock, and makes it when it is missing.     *)
DbLocked(n) == \E q \in KvClients : st.c[q].at = "open" /\ st.c[q].name = n
IoOpen(p) ==
    /\ IoKv /\ st.c[p].at = "found"
    /\ LET n == st.c[p].name IN
       IF DbLocked(n) THEN KvDid([st EXCEPT !.c[p].at = "none"])
       ELSE KvDid([st EXCEPT !.c = [q \in KvClients |-> IF q = p THEN [@[p] EXCEPT !.at = "open", !.mine = EmptyKv]
                                                        ELSE IF @[q].at = "found" /\ @[q].name = n THEN [@[q] EXCEPT !.raced = TRUE] ELSE @[q]],
                             !.disk = [m \in DOMAIN @ \union {n} |-> IF m \in DOMAIN @ THEN @[m] ELSE EmptyKv]])
IoLeveldbPut(p) ==
    /\ IoKv /\ st.c[p].at = "open"
    /\ \E k \in KvKeys : KvDid([st EXCEPT !.disk[st.c[p].name] = LeveldbPut(@, k, st.calls), !.c[p].mine = LeveldbPut(@, k, st.calls)])
(* The destructor: std::remove does not remove a directory that has files,  *)
(* so the database of a temporary store stays.                              *)
IoKvDestroy(p) == IoKv /\ st.c[p].at = "open" /\ KvDid([st EXCEPT !.c[p].at = "none"])

IoInit == IoReadStart \/ IoWriteStart \/ IoKvStart
IoNext ==
    /\ part = "streams"
    /\ \/ IoGetLine \/ IoRead \/ IoSeekg \/ IoClose \/ IoSpawn
       \/ IoWrite \/ IoDrain \/ IoFlush \/ IoCloseOut \/ IoDestroy
       \/ \E p \in KvClients : IoFind(p) \/ IoOpen(p) \/ IoLeveldbPut(p) \/ IoKvDestroy(p)

-----------------------------------------------------------------------------
(* A string stands in for a file: until a Read or a Seekg goes past the     *)
(* end, the two streams are at the same place, in the same state, hand out  *)
(* the same lines, and neither throws.                                      *)
MemStandsInForFile ==
    part = "streams" /\ st.kind = "read" /\ ~st.strayed =>
        /\ \A f \in {"pos", "eof", "fail", "line", "len"} : st.file[f] = st.mem[f]
        /\ ~st.file.thrown

(* A stream spawned from one that is in order is in order too, at the same  *)
(* place, and reads the lines its parent would.  A parent with the eof or   *)
(* fail bit set is left out: Spawn opens the file anew and copies the       *)
(* position only.                                                           *)
SpawnReadsOn ==
    part = "streams" /\ st.kind = "read" /\ ~st.strayed /\ Good(st.file) =>
        \A i \in DOMAIN st.spawned :
            LET s == st.spawned[i]
            IN  /\ Good(s) /\ s.pos = st.file.pos
                /\ FileGetLine(s).line = FileGetLine(st.file).line /\ FileGetLine(s).pos = FileGetLine(st.file).pos

(* When Close returns and no call threw, what was written is on the disk,   *)
(* after what was there exactly when the file was opened to append.  A      *)
(* destructor that loses characters no exception told of ends the process   *)
(* if it was asked to.                                                      *)
ClosedMeansWritten ==
    part = "streams" /\ st.kind = "write" /\ ~st.told =>
        /\ st.closed => st.out.disk = st.base \o st.written
        /\ st.gone /\ st.exits /\ st.out.disk # st.base \o st.written => st.dead

(* A temporary store holds what its owner put and nothing else, although    *)
(* the databases of earlier ones stay on the disk; the one exception is a   *)
(* process that made a database of that name between the search and Open.   *)
TempStoreIsOwn ==
    part = "streams" /\ st.kind = "kv" =>
        \A p \in KvClients : st.c[p].at = "open" /\ ~st.c[p].raced => st.disk[st.c[p].name] = st.c[p].mine

-----------------------------------------------------------------------------
(* Input and output of tables: the streams of io/stream, CsvWriter and      *)
(* CsvReader.  A text is a sequence of tokens (the two delimiters, a blank, *)
(* and words); an offset counts the tokens before it.                       *)

CONSTANTS CsvMaxRows         \* rows of a file (a bound of the model)

COMMA == ","
NL == "\n"
BLANK == " "
Lines(rows, trail) ==
    LET text == FlattenSeq([r \in DOMAIN rows |-> FlattenSeq([c \in DOMAIN rows[r] |->
                    (IF c = 1 THEN <<>> ELSE <<COMMA>>) \o rows[r][c]]) \o <<NL>>])
    IN  IF trail \/ text = <<>> THEN text ELSE Front(text)

StrSplit(line) ==
    FoldLeft(LAMBDA f, t : IF t = COMMA THEN Append(f, <<>>) ELSE [f EXCEPT ![Len(f)] = Append(@, t)], <<<<>>>>, line)
StripAsciiWhitespace(f) ==
    LET ink == {i \in DOMAIN f : f[i] # BLANK} IN IF ink = {} THEN <<>> ELSE SubSeq(f, Min(ink), Max(ink))

(* The numbers among the words; "tiny" is below the epsilon, taken as 0.    *)
NumberOf == "1" :> 1 @@ "2" :> 2 @@ "tiny" :> 0
IsFloat(f) == LET w == StripAsciiWhitespace(f) IN Len(w) = 1 /\ w[1] \in DOMAIN NumberOf
FloatFromString(f) == NumberOf[StripAsciiWhitespace(f)[1]]
Cell(f, type) == IF type = "STRING" THEN f ELSE <<FloatFromString(f)>>

-----------------------------------------------------------------------------
(* InputStream: where it is, eofbit and failbit.  A last line without a     *)
(* delimiter sets eofbit only.                                              *)
AtStart == [pos |-> 0, eof |-> FALSE, fail |-> FALSE]
GetLine(text, s) ==
    LET ends == {i \in s.pos + 1 .. Len(text) : text[i] = NL}
        to == IF ends = {} THEN Len(text) ELSE Min(ends)
    IN  IF s.eof \/ s.pos = Len(text) THEN [s |-> [s EXCEPT !.eof = TRUE, !.fail = TRUE], line |-> <<>>]
        ELSE [s |-> [pos |-> to, eof |-> ends = {}, fail |-> FALSE],
              line |-> SubSeq(text, s.pos + 1, IF ends = {} THEN to ELSE to - 1)]
Seekg(s, p) == [pos |-> p, eof |-> FALSE, fail |-> FALSE]

(* The reader.  rows_map_ has offsets of rows, added in growing order only. *)
UpdateRowMap(r) ==
    IF \E e \in r.map : e[1] >= r.idx THEN r ELSE [r EXCEPT !.map = @ \cup {<<r.idx, r.s.pos>>}]

(* ParseHeader and the choice of features: <<>> when they throw.            *)
ParseHeader(text) ==
    LET g == GetLine(text, AtStart)
        hs == LET f == StrSplit(g.line) IN [i \in DOMAIN f |-> StripAsciiWhitespace(f[i])]
    IN  IF g.s.fail \/ <<>> \in Range(hs) \/ Cardinality(Range(hs)) < Len(hs) THEN <<>> ELSE <<hs, g.s>>
Selected(hs, o) ==
    IF \E f \in Range(o.schema) : <<f[1]>> \notin Range(hs) THEN <<>>
    ELSE LET sel == [i \in DOMAIN o.schema |-> <<CHOOSE c \in DOMAIN hs : hs[c] = <<o.schema[i][1]>>, o.schema[i][2]>>]
         IN  <<IF o.use_header_order THEN SortSeq(sel, LAMBDA a, b : a[1] < b[1]) ELSE sel>>

(* One round of NextRow's loop: why it stops, if it does.  (And one that    *)
(* counts the row once it is converted.)                                    *)
ReadRowLate(text, r) ==
    LET g == GetLine(text, r.s)
        f == StrSplit(g.line)
        q == [r EXCEPT !.s = g.s]
    IN  IF r.why # "" THEN r
        ELSE IF g.s.fail THEN [q EXCEPT !.why = "end"]
        ELSE IF Len(f) # Len(r.headers) THEN [q EXCEPT !.why = "fields"]
        ELSE IF \E c \in Range(r.sel) : c[2] # "STRING" /\ ~IsFloat(f[c[1]]) THEN [q EXCEPT !.why = "float"]
        ELSE [q EXCEPT !.idx = @ + 1, !.rows = Append(@, [c \in DOMAIN r.sel |-> Cell(f[r.sel[c][1]], r.sel[c][2])])]
ReadRow(text, r) ==
    LET g == GetLine(text, r.s)
        f == StrSplit(g.line)
        q == [r EXCEPT !.s = g.s]
    IN  IF r.why # "" THEN r
        ELSE IF g.s.fail THEN [q EXCEPT !.why = "end"]
        ELSE IF Len(f) # Len(r.headers) THEN [q EXCEPT !.why = "fields"]
        ELSE IF \E c \in Range(r.sel) : c[2] # "STRING" /\ ~IsFloat(f[c[1]]) THEN [q EXCEPT !.idx = @ + 1, !.why = "float"]
        ELSE [q EXCEPT !.idx = @ + 1, !.rows = Append(@, [c \in DOMAIN r.sel |-> Cell(f[r.sel[c][1]], r.sel[c][2])])]
ReadRows(text, r, size) ==
    FoldLeft(LAMBDA q, k : ReadRow(text, q), [r EXCEPT !.rows = <<>>, !.why = ""], [k \in 1 .. size |-> k])

NextRow(text, r, size) ==
    LET q == ReadRows(text, r, size)
        m == IF Len(q.rows) = size THEN UpdateRowMap(q) ELSE q
    IN  IF r.s.eof THEN [r EXCEPT !.rows = <<>>, !.why = "end"]
        ELSE IF q.why \in {"fields", "float"} THEN q
        ELSE [m EXCEPT !.total = IF m.s.eof THEN m.idx ELSE @]

(* Seek to row i: from the last known row before it, line by line.  (And    *)
(* one that goes to the known row and takes itself to be where it was.)     *)
LastKnown(r, i) == CHOOSE f \in r.map : f[1] <= i /\ \A h \in r.map : h[1] <= i => h[1] <= f[1]
ToKnownOnly(r, e) == [r EXCEPT !.s = Seekg(@, e[2])]
ToKnown(r, e) == [r EXCEPT !.s = Seekg(@, e[2]), !.idx = e[1]]
SeekRow(text, r, i) ==
    LET e == LastKnown(r, i)
        skip(q, k) == LET g == GetLine(text, q.s) IN IF q.s.fail THEN q ELSE
                      [q EXCEPT !.s = g.s, !.idx = IF g.s.fail THEN @ ELSE @ + 1]
        to == FoldLeft(skip, ToKnown(r, e), [k \in 1 .. i - e[1] |-> k])
    IN  IF r.total >= 0 /\ i >= r.total THEN [r EXCEPT !.why = "range"]
        ELSE [to EXCEPT !.why = IF to.idx = i THEN "" ELSE "range"]

(* CountLines, with a known row after every batch.                          *)
CountLines(text, r, batch) ==
    LET count(q, k) == LET g == GetLine(text, q.s)
                           m == [q EXCEPT !.s = g.s, !.idx = @ + 1]
                       IN  IF q.s.fail THEN q ELSE IF g.s.fail THEN [q EXCEPT !.s = g.s]
                           ELSE IF m.idx % batch = 0 THEN UpdateRowMap(m) ELSE m
        to == FoldLeft(count, r, [k \in 1 .. CsvMaxRows + 2 |-> k])
    IN  [to EXCEPT !.total = to.idx]

(* BuildMmapFiles: a file for each selected column; all rows are read.      *)
BuildMmapFiles(text, r) ==
    LET q == ReadRows(text, r, CsvMaxRows + 2)
    IN  [q EXCEPT !.idx = 0, !.total = Len(q.rows),
                  !.cols = [c \in DOMAIN r.sel |-> [k \in DOMAIN q.rows |-> q.rows[k][c]]]]

-----------------------------------------------------------------------------
(* CsvWriter on a MemOutputStream: out_ is the caller's string, while it is *)
(* attached.                                                                *)
Write(w, tokens) == [w EXCEPT !.buf = @ \o tokens]
MemFlush(w) == IF w.attached THEN [w EXCEPT !.out = w.buf] ELSE w
MemClose(w) == IF w.attached THEN [w EXCEPT !.out = w.buf, !.buf = <<>>, !.attached = FALSE] ELSE w
AddRowTrail(w, row) == Write(w, FlattenSeq([c \in DOMAIN row |-> row[c] \o <<COMMA>>]) \o <<NL>>)
AddRow(w, row) ==
    Write(w, FlattenSeq([c \in DOMAIN row |-> row[c] \o IF c # Len(row) THEN <<COMMA>> ELSE <<>>]) \o <<NL>>)

-----------------------------------------------------------------------------
(* A client that writes a file or has one, of columns a and b, reads it.    *)
(* rows are its rows as they were meant, trail whether its last line is     *)
(* ended.  lag: a row with a wrong number of fields was met since the last  *)
(* Seek.  That error leaves Tell one row behind the stream, and a batch     *)
(* read from there puts a wrong row into rows_map_: the client seeks first. *)
NoReader == [s |-> AtStart, idx |-> 0, total |-> -1, map |-> {}, sel |-> <<>>, headers |-> <<>>,
             cols |-> <<>>, rows |-> <<>>, why |-> ""]
NoCall == [op |-> "none", at |-> 0, size |-> 0]
GoodRow(k) == <<<<(<<"x", "y", "z">>)[k]>>, <<BLANK, (<<"1", "2", "tiny">>)[k]>>>>
OddRow(k) == {<<<<"x">>>>, <<<<"x">>, <<"w">>>>}
FileRows == UNION {{[k \in 1 .. n |-> GoodRow(k)]} \cup
                   {[j \in 1 .. n |-> IF j = k THEN o ELSE GoodRow(j)] : k \in 1 .. n, o \in OddRow(1)} : n \in 0 .. CsvMaxRows}
CsvSchemas == {<<<<"a", "STRING">>, <<"b", "FLOAT">>>>, <<<<"b", "DOUBLE">>, <<"a", "STRING">>>>, <<>>}
CsvOptions == {o \in [schema : CsvSchemas, use_header_order : BOOLEAN, column : BOOLEAN, count : BOOLEAN, batch : {1, 2}] :
                  /\ o.use_header_order => o.schema # <<>> /\ o.schema[1][1] = "b" /\ o.batch = 2
                  /\ o.schema = <<>> => o.batch = 2 /\ ~o.count
                  /\ o.count \/ (o.schema # <<>> /\ o.schema[1][1] = "b") => o.batch = 2
                  /\ o.column => o.schema # <<>> /\ ~o.count}

CsvStart(head, rows, trail, o, mode) ==
    Start("csv", [mode |-> mode, rows |-> rows, opt |-> o, lag |-> FALSE, call |-> NoCall,
                  text |-> Lines(<<head>> \o rows, trail), r |-> NoReader, refs |-> 0, dir |-> FALSE,
                  w |-> [buf |-> <<>>, out |-> <<>>, attached |-> TRUE, inited |-> FALSE]])
Heads == <<<<<<"a">>, <<BLANK, "b">>>>, <<<<"a">>, <<"a", BLANK>>>>, <<<<"a">>, <<BLANK>>>>, <<<<"a">>>>>>
CsvInit ==
    \/ \E rows \in FileRows, trail \in BOOLEAN, o \in CsvOptions : CsvStart(Heads[1], rows, trail, o, "file")
    \/ \E h \in 2 .. 4, o \in CsvOptions : o.batch = 2 /\ CsvStart(Heads[h], <<>>, TRUE, o, "file")
    \/ \E o \in CsvOptions : o.batch = 2 /\ o.schema # <<>> /\ o.schema[1][1] = "a" /\ CsvStart(Heads[1], <<>>, TRUE, o, "write")

Writes(w, rows) == Step("csv", [st EXCEPT !.w = w, !.rows = rows])
CsvWriterInit ==
    /\ st.mode = "write" /\ ~st.w.inited
    /\ Writes([Write(st.w, <<"a", COMMA, "b", NL>>) EXCEPT !.inited = TRUE], st.rows)
CsvAdd ==
    /\ st.mode = "write" /\ st.w.inited /\ st.w.attached /\ Len(st.rows) < 2
    /\ \E row \in {<<<<"x">>, <<"1">>>>, <<<<"y", COMMA, "y">>, <<"2">>>>, <<<<"z">>, <<"tiny">>>>} :
         Writes(AddRow(st.w, row), Append(st.rows, row))
CsvFlush == st.mode = "write" /\ st.w.inited /\ st.w.out # st.w.buf /\ Writes(MemFlush(st.w), st.rows)
CsvClose ==
    /\ st.mode = "write" /\ st.w.inited /\ st.w.attached
    /\ LET w == MemClose(st.w) IN Step("csv", [st EXCEPT !.w = w, !.text = w.out, !.mode = "file"])

(* Init of the reader.                                                      *)
Indexed(o, new) ==
    IF o.opt.column THEN BuildMmapFiles(o.text, new)
    ELSE SeekRow(o.text, IF o.opt.count THEN CountLines(o.text, UpdateRowMap(new), o.opt.batch)
                         ELSE UpdateRowMap(new), 0)
CsvOpened(o, r) ==
    IF r.why \in {"", "end"} THEN [o EXCEPT !.mode = "read", !.r = r, !.refs = 1, !.dir = o.opt.column]
    ELSE [o EXCEPT !.mode = "refused", !.r = r]
OpenWith(o, p, sel) ==
    IF sel = <<>> THEN [o EXCEPT !.mode = "refused"]
    ELSE CsvOpened(o, Indexed(o, [NoReader EXCEPT !.headers = p[1], !.sel = sel[1], !.s = p[2]]))
OpenAt(o, p) == OpenWith(o, p, IF p = <<>> THEN <<>> ELSE Selected(p[1], o.opt))
CsvOpen == st.mode = "file" /\ Step("csv", OpenAt(st, ParseHeader(st.text)))

Reads(op, size, r) ==
    Step("csv", [st EXCEPT !.r = r, !.call = [op |-> op, at |-> st.r.idx, size |-> size],
                           !.lag = IF op = "seek" THEN @ /\ r.why # "" ELSE r.why = "fields"])
CsvNextRow ==
    /\ st.mode = "read" /\ ~st.opt.column /\ ~st.lag
    /\ \E size \in {st.opt.batch} \cup {1, 3} : Reads("next", size, NextRow(st.text, st.r, size))

(* Columns come from the files while their directory is there; an empty     *)
(* file cannot be mapped.                                                   *)
NextCol(r, size) ==
    LET hi == Min({r.idx + size, Len(r.sel)})
    IN  IF hi = r.idx THEN [r EXCEPT !.rows = <<>>, !.why = "end"]
        ELSE IF ~st.dir \/ r.total = 0 THEN [r EXCEPT !.idx = @ + 1, !.rows = <<>>, !.why = "mmap"]
        ELSE [r EXCEPT !.idx = hi, !.rows = [c \in 1 .. hi - r.idx |-> r.cols[r.idx + c]],
                       !.why = IF hi = r.idx + size THEN "" ELSE "end"]
CsvNextCol == st.mode = "read" /\ st.opt.column /\ \E size \in {1, 3} : Reads("next", size, NextCol(st.r, size))
CsvSeek ==
    /\ st.mode = "read"
    /\ \E i \in 0 .. Len(st.rows) + 1 :
         Reads("seek", i, IF ~st.opt.column THEN SeekRow(st.text, st.r, i)
                          ELSE IF i < Len(st.r.sel) THEN [st.r EXCEPT !.idx = i, !.why = ""] ELSE [st.r EXCEPT !.why = "range"])

(* Spawn: the client goes on with the new reader, whose stream is a new one *)
(* at the same offset; the old one may be destroyed, and the last reader to *)
(* go removes the directory.                                                *)
CsvSpawn ==
    /\ st.mode = "read" /\ st.refs = 1 /\ (st.opt.column \/ st.opt.batch = 1)
    /\ Step("csv", [st EXCEPT !.r.s = Seekg(@, @.pos), !.refs = 2, !.call = [NoCall EXCEPT !.op = "spawn"]])
GoneAlways(refs) == TRUE
Gone(refs) == refs = 0
CsvDestroy ==
    /\ st.mode = "read" /\ st.refs = 2
    /\ Step("csv", [st EXCEPT !.refs = 1, !.dir = @ /\ ~Gone(1)])
CsvNext ==
    /\ part = "csv"
    /\ \/ CsvWriterInit \/ CsvAdd \/ CsvFlush \/ CsvClose
       \/ CsvOpen \/ CsvNextRow \/ CsvNextCol \/ CsvSeek \/ CsvSpawn \/ CsvDestroy

-----------------------------------------------------------------------------
(* What the client knows of row k: whether it can be read.                  *)
FieldsOff(k) == Len(st.rows[k]) # 2 \/ \E f \in Range(st.rows[k]) : COMMA \in Range(f)
Unread(k) == FieldsOff(k) \/ \E c \in Range(st.r.sel) : c[2] # "STRING" /\ ~IsFloat(st.rows[k][c[1]])
RowAs(k) == [c \in DOMAIN st.r.sel |-> Cell(st.rows[k][st.r.sel[c][1]], st.r.sel[c][2])]

(* Next gives exactly the rows from where Tell says the reader is, as many  *)
(* as were asked for or are left, and throws exactly when one of them       *)
(* cannot be read, whatever reads, seeks, errors and spawns came before     *)
(* (CsvReader::NextRow).                                                    *)
CsvRowsRight ==
    part = "csv" /\ st.call.op = "next" /\ ~st.opt.column =>
        LET hi == Min({st.call.at + st.call.size, Len(st.rows)})
            bad == {k \in st.call.at + 1 .. hi : Unread(k)}
        IN  IF bad = {} THEN /\ st.r.rows = [k \in 1 .. hi - st.call.at |-> RowAs(st.call.at + k)]
                             /\ st.r.idx = Max({hi, st.call.at}) /\ st.r.why \in {"", "end"}
            ELSE st.r.why = IF FieldsOff(Min(bad)) THEN "fields" ELSE "float"

(* The column reader gives the columns in the order selected, each with the *)
(* file's rows, also after Spawn and after the first reader is gone, and    *)
(* does not throw.  A file of no rows, which cannot be mapped, is left out  *)
(* (CsvReader::NextCol).                                                    *)
CsvColumnsRight ==
    part = "csv" /\ st.call.op = "next" /\ st.opt.column /\ st.rows # <<>> =>
        /\ st.r.why \in {"", "end"}
        /\ st.r.rows = [c \in 1 .. Min({st.call.size, Len(st.r.sel) - st.call.at}) |->
                          [k \in DOMAIN st.rows |-> RowAs(k)[st.call.at + c]]]

(* A row reader finds every row of the file by Seek, and no row past the    *)
(* end, also after an error or the end of the file was met; the count of    *)
(* rows and the known offsets are right (CsvReader::Seek, UpdateRowMap).    *)
CsvSeekRight ==
    part = "csv" /\ st.mode = "read" /\ ~st.opt.column =>
        /\ st.r.total \in {-1, Len(st.rows)}
        /\ \A e \in st.r.map : Cardinality({i \in 1 .. e[2] : st.text[i] = NL}) = e[1] + 1
                               \/ (e[2] = Len(st.text) /\ e[1] = Len(st.rows))
        /\ st.call.op = "seek" =>
              /\ st.call.size < Len(st.rows) => st.r.why = "" /\ st.r.idx = st.call.size
              /\ st.call.size > Len(st.rows) => st.r.why = "range"
=============================================================================
