------------------------------ MODULE Circuit ------------------------------
(* Bristol-fashion circuits: CircuitReader reads a file, PlainExecutor      *)
(* evaluates it, PrepareSha256Input lays out the input of the SHA-256 one.  *)
(* A line is a sequence of tokens: <<"n", number>> or <<"w", word>>.        *)
EXTENDS Scenario, Sequences, SequencesExt, Functions

CONSTANTS CcWord,            \* bits of the input type T
          ShaBlock,          \* bytes of a message block (64 in the code)
          ShaLen             \* bytes of the message length (8 in the code)

Num(n) == <<"n", n>>
Nums(s) == [i \in DOMAIN s |-> Num(s[i])]
SumTo(s, k) == MapThenSumSet(LAMBDA i : s[i], 1 .. k)
AllNumbers(line, a, b) == b <= Len(line) /\ \A i \in a .. b : line[i][1] = "n"

(* GetLine past the end: nothing is read, so the string is empty, or as it  *)
(* was when the last line had set eofbit already.                           *)
LineAt(file, k) == IF k <= Len(file.lines) THEN file.lines[k] ELSE IF file.trail THEN <<<<"w", "">>>> ELSE Last(file.lines)

(* ReadMeta: <<>> when it throws.  More columns than named are ignored.     *)
ReadCounts(line) ==
    IF ~AllNumbers(line, 1, 1) \/ ~AllNumbers(line, 2, line[1][2] + 1) THEN <<>>
    ELSE <<[i \in 1 .. line[1][2] |-> line[i + 1][2]]>>
ReadMeta(file) ==
    LET first == LineAt(file, 1)
        iv == ReadCounts(LineAt(file, 2))
        ov == ReadCounts(LineAt(file, 3))
    IN  IF Len(first) # 2 \/ ~AllNumbers(first, 1, 2) \/ iv = <<>> \/ ov = <<>> THEN <<>>
        ELSE <<[ng |-> first[1][2], nw |-> first[2][2], niw |-> iv[1], now |-> ov[1], gates |-> <<>>]>>

(* A gate line, and the numbers of wires each operation takes.  (And one    *)
(* that is read unchecked.)                                                 *)
Arity(op, niw, now) ==
    CASE op \in {"XOR", "AND"} -> niw = 2 /\ now = 1
      [] op \in {"INV", "EQ", "EQW"} -> niw = 1 /\ now = 1
      [] op = "MAND" -> niw = now * 2
      [] OTHER -> FALSE
ReadGateAny(line) ==
    LET niw == line[1][2]
        now == line[2][2]
    IN  IF ~AllNumbers(line, 1, 2) \/ Len(line) <= niw + now + 2 THEN <<>>
        ELSE <<[op |-> line[niw + now + 3][2], iw |-> [j \in 1 .. niw |-> line[2 + j][2]],
                ow |-> [j \in 1 .. now |-> line[2 + niw + j][2]]]>>
ReadGate(line) ==
    LET niw == line[1][2]
        now == line[2][2]
        op == line[niw + now + 3][2]
    IN  IF ~AllNumbers(line, 1, 2) \/ Len(line) <= niw + now + 2 \/ ~AllNumbers(line, 3, niw + now + 2) THEN <<>>
        ELSE IF ~Arity(op, niw, now) THEN <<>>
        ELSE <<[op |-> op, iw |-> [j \in 1 .. niw |-> line[2 + j][2]], ow |-> [j \in 1 .. now |-> line[2 + niw + j][2]]]>>
ReadAllGates(file, c) ==
    LET gates == [i \in 1 .. c.ng |-> ReadGate(LineAt(file, 4 + i))]
    IN  IF <<>> \in Range(gates) THEN <<>> ELSE <<[c EXCEPT !.gates = [i \in 1 .. c.ng |-> gates[i][1]]]>>

-----------------------------------------------------------------------------
(* PlainExecutor: wires_ is the set of the wires that are one, of nw.  (And *)
(* one whose INV keeps the wire.)                                           *)
SetupInputs(c, inputs) ==
    UNION {{(k - 1) * CcWord + b : b \in inputs[k]} : k \in DOMAIN inputs} \cap (0 .. c.nw - 1)
SetWire(w, i, on) == IF on THEN w \cup {i} ELSE w \ {i}
ExecGateInvKept(w, g) ==
    SetWire(w, g.ow[1],
            CASE g.op = "XOR" -> (g.iw[1] \in w) # (g.iw[2] \in w)
              [] g.op = "AND" -> g.iw[1] \in w /\ g.iw[2] \in w
              [] g.op \in {"INV", "EQW"} -> g.iw[1] \in w
              [] g.op = "EQ" -> g.iw[1] # 0)
ExecGate(w, g) ==
    SetWire(w, g.ow[1],
            CASE g.op = "XOR" -> (g.iw[1] \in w) # (g.iw[2] \in w)
              [] g.op = "AND" -> g.iw[1] \in w /\ g.iw[2] \in w
              [] g.op = "INV" -> g.iw[1] \notin w
              [] g.op = "EQ" -> g.iw[1] # 0
              [] g.op = "EQW" -> g.iw[1] \in w)

(* Finalize: from the last wire down, output nov first; output i takes the  *)
(* width of output nov - i + 1, so the widths have to be the same.          *)
FinalizeOutputs(c, w) ==
    LET nov == Len(c.now)
        from(i) == c.nw - SumTo(c.now, i)
    IN  [k \in 1 .. nov |-> LET i == nov - k + 1 IN {b \in 0 .. c.now[i] - 1 : from(i) + b \in w}]

(* PrepareSha256Input.  Bytes are numbers, or names for the bytes of the    *)
(* message (m) and of the initial hash value (h).  (And one that adds a     *)
(* block of zeros to a message that fits.)                                  *)
ShaH0 == [i \in 1 .. 2 |-> <<"h", i>>]
Byte(v) == <<"v", v>>
ZeroPadFull(size) == ShaBlock - ((size + 1 + ShaLen) % ShaBlock)
ZeroPad(size) == IF (size + 1 + ShaLen) % ShaBlock = 0 THEN 0 ELSE ShaBlock - ((size + 1 + ShaLen) % ShaBlock)
PrepareSha256Input(msg) ==
    [i \in 1 .. ShaLen |-> Byte(((8 * Len(msg)) \div 256^(i - 1)) % 256)]
    \o [i \in 1 .. ZeroPad(Len(msg)) |-> Byte(0)] \o <<Byte(128)>> \o Reverse(msg) \o Reverse(ShaH0)

-----------------------------------------------------------------------------
(* A client reads one of two files: file 1 is the circuit it wants.  meta   *)
(* is the file metadata_length_ was taken from (0: none).                   *)
GateLine(g) == Nums(<<Len(g.iw), Len(g.ow)>> \o g.iw \o g.ow) \o <<<<"w", g.op>>>>
FileOf(c, trail) ==
    [lines |-> <<Nums(<<c.ng, c.nw>>), Nums(<<Len(c.niw)>> \o c.niw), Nums(<<Len(c.now)>> \o c.now), <<>>>>
               \o [i \in DOMAIN c.gates |-> GateLine(c.gates[i])], trail |-> trail]
GatesTo(n) ==
    {[op |-> o, iw |-> <<a, b>>, ow |-> <<n>>] : o \in {"XOR", "AND"}, a \in 0 .. n - 1, b \in 0 .. n - 1}
    \cup {[op |-> o, iw |-> <<a>>, ow |-> <<n>>] : o \in {"INV", "EQW"}, a \in 0 .. n - 1}
    \cup {[op |-> "EQ", iw |-> <<a>>, ow |-> <<n>>] : a \in {0, 1}}
MkCircuit(niw, now, gates) ==
    [ng |-> Len(gates), nw |-> SumTo(niw, Len(niw)) + Len(gates), niw |-> niw, now |-> now, gates |-> gates]
ChosenCircuits ==
    {MkCircuit(<<CcWord>>, <<1>>, <<g, h>>) : g \in GatesTo(CcWord), h \in GatesTo(CcWord + 1)}
    \cup {MkCircuit(<<CcWord, CcWord>>, <<1, 1>>, <<g, [op |-> "AND", iw |-> <<1, 2>>, ow |-> <<2 * CcWord + 1>>]>>) :
             g \in GatesTo(2 * CcWord)}
    \cup {MkCircuit(<<CcWord>>, <<2>>, <<>>)}
OddCircuits ==
    {[MkCircuit(<<CcWord>>, <<1>>, <<[op |-> o, iw |-> iw, ow |-> <<CcWord>>]>>) EXCEPT !.ng = n] :
        o \in {"XOR", "INV", "MAND", "NOT"}, iw \in {<<0>>, <<0, 1>>}, n \in {1, 2}}

CcInit ==
    \/ \E c \in ChosenCircuits, trail \in BOOLEAN, ins \in BOOLEAN :
         /\ trail \/ ins
         /\ Start("circuit", [files |-> <<FileOf(c, trail), FileOf(MkCircuit(<<CcWord>>, <<1>>, <<>>), TRUE)>>, want |-> c,
                              at |-> IF ins THEN 1 ELSE 2, meta |-> 0, circ |-> <<>>, read |-> FALSE, threw |-> FALSE,
                              wires |-> <<>>, in |-> <<>>, pc |-> 0])
    \/ \E c \in OddCircuits, trail \in BOOLEAN :
         Start("circuit", [files |-> <<FileOf(c, trail), FileOf(c, trail)>>, want |-> c, at |-> 1, meta |-> 0, circ |-> <<>>,
                           read |-> FALSE, threw |-> FALSE, wires |-> <<>>, in |-> <<>>, pc |-> 0])
    \/ \E n \in 0 .. 2 * ShaBlock + 1 : Start("sha", [msg |-> [i \in 1 .. n |-> <<"m", i>>], out |-> <<>>])

CcMeta ==
    /\ ~st.threw /\ st.wires = <<>> /\ st.meta # st.at
    /\ LET m == ReadMeta(st.files[st.at])
       IN  Step("circuit", [st EXCEPT !.circ = m, !.threw = m = <<>>, !.meta = st.at, !.read = FALSE])
(* Reset and Init with another path: a new circuit, the old metadata_length_*)
CcReinit ==
    /\ ~st.threw /\ st.wires = <<>> /\ st.at = 2
    /\ Step("circuit", [st EXCEPT !.at = 1, !.circ = <<[ng |-> 0, nw |-> 0, niw |-> <<>>, now |-> <<>>, gates |-> <<>>]>>,
                                  !.read = FALSE])
CcReadAll ==
    /\ ~st.threw /\ st.wires = <<>> /\ ~st.read
    /\ LET m == IF st.meta = 0 THEN ReadMeta(st.files[st.at]) ELSE st.circ
           c == IF m = <<>> THEN <<>> ELSE ReadAllGates(st.files[st.at], m[1])
       IN  Step("circuit", [st EXCEPT !.circ = c, !.threw = c = <<>>, !.meta = IF @ = 0 THEN st.at ELSE @, !.read = TRUE])
CcSetup ==
    /\ st.read /\ ~st.threw /\ st.wires = <<>> /\ st.at = 1 /\ st.meta = 1
    /\ \E in \in [1 .. Len(st.circ[1].niw) -> SUBSET (0 .. CcWord - 1)] :
         Step("circuit", [st EXCEPT !.in = in, !.wires = <<SetupInputs(st.circ[1], in)>>])
CcExec ==
    /\ st.wires # <<>> /\ ~st.threw /\ st.pc < Len(st.circ[1].gates)
    /\ LET g == st.circ[1].gates[st.pc + 1]
       IN  IF g.op = "MAND" THEN Step("circuit", [st EXCEPT !.threw = TRUE])
           ELSE Step("circuit", [st EXCEPT !.wires = <<ExecGate(@[1], g)>>, !.pc = @ + 1])
CcSha == st.out = <<>> /\ Step("sha", [st EXCEPT !.out = PrepareSha256Input(st.msg)])
CcNext ==
    \/ part = "circuit" /\ (CcMeta \/ CcReinit \/ CcReadAll \/ CcSetup \/ CcExec)
    \/ part = "sha" /\ CcSha

-----------------------------------------------------------------------------
(* What a circuit computes: the value of a wire, from the gate that drives  *)
(* it down to the inputs.                                                   *)
WireOf(c, in) ==
    LET bits == SumTo(c.niw, Len(c.niw))
        v[i \in 0 .. c.nw - 1] ==
            IF i < bits THEN i % CcWord \in in[(i \div CcWord) + 1]
            ELSE LET g == c.gates[i - bits + 1]
                 IN  CASE g.op = "XOR" -> v[g.iw[1]] # v[g.iw[2]]
                       [] g.op = "AND" -> v[g.iw[1]] /\ v[g.iw[2]]
                       [] g.op = "INV" -> ~v[g.iw[1]]
                       [] g.op = "EQ" -> g.iw[1] = 1
                       [] g.op = "EQW" -> v[g.iw[1]]
    IN  v

(* The outputs the executor returns are what the circuit computes on the    *)
(* inputs set up last, for circuits whose inputs are words of T             *)
(* (PlainExecutor::Exec, Finalize).                                         *)
CircuitEvaluates ==
    part = "circuit" /\ st.wires # <<>> /\ ~st.threw /\ st.pc = Len(st.circ[1].gates) =>
        LET v == WireOf(st.want, st.in)
            low(k) == st.want.nw - SumTo(st.want.now, Len(st.want.now)) + SumTo(st.want.now, k - 1)
        IN  FinalizeOutputs(st.circ[1], st.wires[1]) =
                [k \in DOMAIN st.want.now |-> {b \in 0 .. st.want.now[k] - 1 : v[low(k) + b]}]

(* A read that does not throw gives the circuit of the file with a checked  *)
(* arity for every gate, and a file cut short throws when its last line is  *)
(* ended; a reader used again for another file reads it right once          *)
(* ReadMeta is called for it (CircuitReader::ReadMeta, ReadAllGates).       *)
CircuitReadRight ==
    part = "circuit" /\ st.read /\ ~st.threw /\ st.at = 1 /\ st.meta = 1 =>
        /\ \A i \in DOMAIN st.circ[1].gates : LET g == st.circ[1].gates[i] IN Arity(g.op, Len(g.iw), Len(g.ow))
        /\ Len(st.want.gates) = st.want.ng \/ ~st.files[1].trail
        /\ Len(st.want.gates) = st.want.ng => st.circ = <<st.want>>

(* The message padded as FIPS 180-4 has it, after the initial hash value,   *)
(* in reverse: whole blocks, and no block more than needed                  *)
(* (BuiltinBFCircuit::PrepareSha256Input).                                  *)
ShaInputPadded ==
    part = "sha" /\ st.out # <<>> =>
        LET r == Reverse(st.out)
            n == Len(st.msg)
            size == Len(r) - Len(ShaH0)
            zeros == size - n - 1 - ShaLen
        IN  /\ size % ShaBlock = 0 /\ zeros \in 0 .. ShaBlock - 1
            /\ r = ShaH0 \o st.msg \o <<Byte(128)>> \o [i \in 1 .. zeros |-> Byte(0)]
                   \o [i \in 1 .. ShaLen |-> Byte(IF i = ShaLen THEN (8 * n) % 256 ELSE IF i = ShaLen - 1 THEN (8 * n) \div 256 ELSE 0)]
=============================================================================
