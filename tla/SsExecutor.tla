----------------------------- MODULE SsExecutor -----------------------------
(* Two-party computation on additive and xor shares (mpc/ss_executor.cc) on *)
(* top of random OTs (mpc/ot_kernel.cc).  Each party runs the same program  *)
(* at its own pace: a call may send, wait for the peer's message and send   *)
(* again.  An arithmetic share is a number, a boolean share a word.         *)
EXTENDS Scenario, Sequences, SequencesExt

CONSTANTS kBits,        \* bits of a share (64 in the code)
          MpcMinOts,    \* kMinOts: OTs of the smallest batch
          MpcWord       \* bits of a word of packed flips (64 in the code)

M == 2^kBits
Mod(x) == x % M
Sh(w, k) == IF k \in w THEN 1 ELSE 0

(* The randomness of a party and the random OTs of a call (external).       *)
MpcRand(rank, i) == (5 * i * i + 3 * i + 7 * rank + 1) % M
RotBlock(call, i, b) == WordOf(kBits, (3 * call + 5 * i * (b + 1) + b) % M)
RotChoice(call, i) == (call + i * i) % 2

-----------------------------------------------------------------------------
(* RunChosenOT: flips from the receiver, packed into words, padded to the   *)
(* smallest batch; then the corrections of the real OTs.                    *)
Padded(n) == Max({n, MpcMinOts})
FlipWords(n) == DivCeil(Padded(n), MpcWord)
PackFlips(call, choices) ==
    [w \in 1 .. FlipWords(Len(choices)) |->
       {k \in 0 .. MpcWord - 1 :
          LET i == (w - 1) * MpcWord + k
          IN  i < Len(choices) /\ RotChoice(call, i) # choices[i + 1]}]
FlipOf(flips, i) == Sh(flips[i \div MpcWord + 1], i % MpcWord)

(* A sender that gives the pads in the order of the OT whatever the flip.   *)
CorrectionsPlain(call, msgs, flips) ==
    [i \in DOMAIN msgs |-> [b \in 0 .. 1 |-> Xor(WordOf(kBits, msgs[i][b]), RotBlock(call, i - 1, b))]]
Corrections(call, msgs, flips) ==
    [i \in DOMAIN msgs |->
       [b \in 0 .. 1 |-> LET d == FlipOf(flips, i - 1)
                         IN  Xor(WordOf(kBits, msgs[i][b]), RotBlock(call, i - 1, (b + d) % 2))]]
ChosenResults(call, choices, corr) ==
    [i \in DOMAIN choices |-> Val(Xor(corr[i][choices[i]], RotBlock(call, i - 1, RotChoice(call, i - 1))))]

-----------------------------------------------------------------------------
(* What the OTs of a call carry.  b is the local operand: the choices are   *)
(* its bits, kBits for each of the triples.                                 *)
Sum(s) == FoldLeft(LAMBDA x, y : x + y, 0, s)
At(s, i, k) == s[i * kBits + k + 1]
R(o, i, k) == MpcRand(o.rank, o.rand + i * kBits + k)
OtChoices(b) == [j \in 1 .. Len(b) * kBits |-> (b[(j - 1) \div kBits + 1] \div 2^((j - 1) % kBits)) % 2]

(* RunArithOtDirection: r and r + a * 2^k, of which the sender keeps -r.    *)
ArithMsgs(o, a) ==
    [j \in 1 .. Len(a) * kBits |->
       LET i == (j - 1) \div kBits
           k == (j - 1) % kBits
       IN  [b \in 0 .. 1 |-> Mod(R(o, i, k) + b * a[i + 1] * 2^k)]]
ArithKept(o, n) == [i \in 1 .. n |-> Mod(n * kBits * M - Sum([k \in 1 .. kBits |-> R(o, i - 1, k - 1)]))]
ArithGot(n, res) == [i \in 1 .. n |-> Mod(Sum([k \in 1 .. kBits |-> At(res, i - 1, k - 1)]))]

(* RunBoolOtDirection: one bit per OT.                                      *)
BoolMsgs(o, a) ==
    [j \in 1 .. Len(a) * kBits |->
       LET i == (j - 1) \div kBits
           k == (j - 1) % kBits
       IN  [b \in 0 .. 1 |-> (R(o, i, k) + b * ((a[i + 1] \div 2^k) % 2)) % 2]]
BoolKept(o, n) == [i \in 1 .. n |-> Val({k \in 0 .. kBits - 1 : R(o, i - 1, k) % 2 = 1})]
BoolGot(n, res) == [i \in 1 .. n |-> Val({k \in 0 .. kBits - 1 : At(res, i - 1, k) % 2 = 1})]

(* B2A: the weight of bit k is taken back when the sender's bit is one.     *)
B2AMsgs(o, x) ==
    [k \in 1 .. kBits |-> LET w == 2^(k - 1)
                              c == IF k - 1 \in x THEN M - w ELSE w
                          IN  [b \in 0 .. 1 |-> Mod(R(o, 0, k - 1) + b * c)]]
B2AKept(o, x) == Mod(kBits * M + Val(x) - Sum([k \in 1 .. kBits |-> R(o, 0, k - 1)]))

-----------------------------------------------------------------------------
(* A party.  regs are the shares the program has made, phase counts the     *)
(* messages of the running call, box the messages on their way to it by     *)
(* context: 0 is the main one, n the n-th one that was spawned.             *)
Programs == {
    <<<<"shareA", 0>>, <<"prepA", 1>>, <<"shareA", 1>>, <<"mulA", 1, 2>>, <<"revealA", 3>>>>,
    <<<<"prepA", 2>>, <<"shareA", 0>>, <<"mulA", 1, 1>>, <<"negA", 2>>, <<"subA", 3, 1>>, <<"mulA", 4, 2>>,
      <<"mulConstA", 5, 3>>, <<"addA", 6, 1>>, <<"mulA", 7, 7>>>>,
    <<<<"shareB", 0>>, <<"prepB", 1>>, <<"shareB", 1>>, <<"notB", 1>>, <<"andB", 3, 2>>, <<"xorB", 4, 1>>, <<"revealB", 5>>, <<"andB", 1, 2>>>>,
    <<<<"prepB", kBits>>, <<"shareA", 0>>, <<"shareA", 1>>, <<"addA", 1, 2>>, <<"a2b", 3>>, <<"revealB", 4>>>>,
    <<<<"shareB", 0>>, <<"b2a", 1>>, <<"revealA", 2>>, <<"prepB", kBits - 1>>, <<"a2b", 2>>>>}

NewParty(rank) ==
    [rank |-> rank, pc |-> 1, phase |-> 0, regs |-> <<>>, atr |-> <<>>, btr |-> <<>>, rand |-> 0, spawned |-> 0,
     tmp |-> <<>>, out |-> <<>>, throws |-> FALSE, box |-> [c \in 0 .. 4 |-> <<>>]]
MpcInit ==
    \E prog \in Programs, x, y \in 0 .. M - 1 :
        /\ y \in {1, M - 2}
        /\ Start("mpc", [prog |-> prog, in |-> <<x, y>>, p |-> [r \in 0 .. 1 |-> NewParty(r)]])

Over(o) == o.throws \/ o.pc > Len(st.prog)
Op(o) == st.prog[o.pc]
Reg(o, k) == o.regs[Op(o)[k + 1]]

(* The ends of a call, with a share or without one.                         *)
Done(o) == [o EXCEPT !.pc = @ + 1, !.phase = 0, !.tmp = <<>>]
Give(o, v) == Done([o EXCEPT !.regs = Append(@, v)])
Show(o, v) == Done([o EXCEPT !.out = Append(@, v)])

(* One step of party r: it becomes o and the peer is sent msgs (in context  *)
(* c); or it takes the next message of its own box.                         *)
MpcStep(r, o, c, msgs) ==
    Step("mpc", [st EXCEPT !.p[r] = o, !.p[1 - r].box[c] = @ \o msgs])
Taken(o, c) == [o EXCEPT !.box[c] = Tail(@)]

Local(r, o) ==
    LET op == Op(o)[1]
        a == Reg(o, 1)
        b == Reg(o, 2)
    IN  /\ op \in {"addA", "subA", "negA", "mulConstA", "xorB", "notB"}
        /\ MpcStep(r, Give(o, CASE op = "addA" -> Mod(a + b)
                                [] op = "subA" -> Mod(a + M - b)
                                [] op = "negA" -> Mod(M - a)
                                [] op = "mulConstA" -> Mod(a * Op(o)[3])
                                [] op = "xorB" -> Xor(a, b)
                                [] op = "notB" -> IF o.rank = 0 THEN Not(kBits, a) ELSE a), 0, <<>>)

(* ShareA and ShareB: only rank 0 has a secret.                             *)
Share(r, o) ==
    LET bool == Op(o)[1] = "shareB"
        secret == st.in[Op(o)[2] + 1]
        rand == MpcRand(0, o.rand)
        next == [o EXCEPT !.rand = @ + 1]
    IN  /\ Op(o)[1] \in {"shareA", "shareB"}
        /\ \/ /\ r = 0 /\ bool
              /\ MpcStep(r, Give(next, Xor(WordOf(kBits, secret), WordOf(kBits, rand))), 0, <<WordOf(kBits, rand)>>)
           \/ r = 0 /\ ~bool /\ MpcStep(r, Give(next, Mod(secret + M - rand)), 0, <<rand>>)
           \/ r = 1 /\ o.box[0] # <<>> /\ MpcStep(r, Give(Taken(o, 0), Head(o.box[0])), 0, <<>>)

Reveal(r, o) ==
    LET v == Reg(o, 1)
    IN  /\ Op(o)[1] \in {"revealA", "revealB"}
        /\ \/ o.phase = 0 /\ MpcStep(r, [o EXCEPT !.phase = 1], 0, <<v>>)
           \/ /\ o.phase = 1 /\ o.box[0] # <<>>
              /\ MpcStep(r, Show(Taken(o, 0), IF Op(o)[1] = "revealA" THEN Mod(v + Head(o.box[0]))
                                              ELSE Xor(v, Head(o.box[0]))), 0, <<>>)

(* MulA and AndB on Beaver triples: send what masks the operands, then      *)
(* combine.  t is the triple taken, kept over the wait.                     *)
MulOpen(t, x, y) == <<Mod(x + M - t.a), Mod(y + M - t.b)>>
MulClose(rank, t, mine, peer) ==
    LET e == Mod(mine[1] + peer[1])
        f == Mod(mine[2] + peer[2])
    IN  Mod(t.c + e * t.b + f * t.a + (IF rank = 0 THEN e * f ELSE 0))
AndOpen(t, x, y) == <<Xor(x, t.a), Xor(y, t.b)>>
AndCloseBoth(rank, t, mine, peer) ==
    LET e == Xor(mine[1], peer[1])
        f == Xor(mine[2], peer[2])
    IN  Xor(Xor(t.c, e \cap t.b), Xor(f \cap t.a, e \cap f))
AndClose(rank, t, mine, peer) ==
    LET e == Xor(mine[1], peer[1])
        f == Xor(mine[2], peer[2])
    IN  Xor(Xor(t.c, e \cap t.b), Xor(f \cap t.a, IF rank = 0 THEN e \cap f ELSE {}))

Beaver(r, o) ==
    LET mul == Op(o)[1] = "mulA"
        tr == IF mul THEN o.atr ELSE o.btr
    IN  /\ Op(o)[1] \in {"mulA", "andB"}
        /\ \/ /\ o.phase = 0 /\ tr = <<>>                                       \* Consume throws
              /\ MpcStep(r, [o EXCEPT !.throws = TRUE], 0, <<>>)
           \/ /\ o.phase = 0 /\ tr # <<>>
              /\ LET t == Head(tr)
                     ef == IF mul THEN MulOpen(t, Reg(o, 1), Reg(o, 2)) ELSE AndOpen(t, Reg(o, 1), Reg(o, 2))
                     next == IF mul THEN [o EXCEPT !.atr = Tail(@)] ELSE [o EXCEPT !.btr = Tail(@)]
                 IN  MpcStep(r, [next EXCEPT !.phase = 1, !.tmp = <<t, ef>>], 0, <<ef>>)
           \/ /\ o.phase = 1 /\ o.box[0] # <<>>
              /\ LET v == IF mul THEN MulClose(r, o.tmp[1], o.tmp[2], Head(o.box[0]))
                          ELSE AndClose(r, o.tmp[1], o.tmp[2], Head(o.box[0]))
                 IN  MpcStep(r, Give(Taken(o, 0), v), 0, <<>>)

(* A2B, a ripple-carry adder of the two parties' shares: one AndB makes the *)
(* carries of all bits, then one for each bit but the first.  In round k,   *)
(* tmp is the triple, what was sent, the carries made and the carry, all    *)
(* shares, and the sum so far.                                              *)
A2BProp(o) == WordOf(kBits, Reg(o, 1))
A2B(r, o) ==
    LET prop == A2BProp(o)
        low(w, k) == IF k \in w THEN {0} ELSE {}
        open(x, y) == AndOpen(Head(o.btr), x, y)
    IN  /\ Op(o)[1] = "a2b"
        /\ \/ /\ o.phase = 0 /\ Len(o.btr) < kBits
              /\ MpcStep(r, [o EXCEPT !.throws = TRUE], 0, <<>>)
           \/ /\ o.phase = 0 /\ Len(o.btr) >= kBits
              /\ LET ef == open(IF r = 0 THEN prop ELSE {}, IF r = 1 THEN prop ELSE {})
                 IN  MpcStep(r, [o EXCEPT !.phase = 1, !.btr = Tail(@), !.tmp = <<Head(o.btr), ef, {}, {}, {}>>],
                             0, <<ef>>)
           \/ /\ o.phase > 0 /\ o.box[0] # <<>>
              /\ LET k == o.phase
                     z == AndClose(r, o.tmp[1], o.tmp[2], Head(o.box[0]))
                     gen == IF k = 1 THEN z ELSE o.tmp[3]
                     carry == IF k = 1 THEN low(z, 0) ELSE Xor(low(gen, k - 1), z)
                     sum == IF k = 1 THEN {0} \cap prop ELSE o.tmp[5]
                     full == sum \cup (IF 0 \in Xor(low(prop, k), carry) THEN {k} ELSE {})
                     ef == open(low(prop, k), carry)
                 IN  IF k = kBits THEN MpcStep(r, Give(Taken(o, 0), o.tmp[5]), 0, <<>>)
                     ELSE MpcStep(r, [Taken(o, 0) EXCEPT !.phase = k + 1, !.btr = Tail(@),
                                        !.tmp = <<Head(o.btr), ef, gen, carry, full>>], 0, <<ef>>)

(* The calls that run OTs: one direction for B2A, two for the triples.  In  *)
(* phase 0 the call starts; the receiver then waits for the corrections in  *)
(* phase 1 and the sender for the flips in phase 2.  (Twice: both are the   *)
(* sender in the second direction.)                                         *)
OtOp(o) == Op(o)[1] \in {"prepA", "prepB", "b2a"}
OtSenderTwice(o, dir) == IF Op(o)[1] = "b2a" THEN o.rank = 1 ELSE o.rank = dir \/ dir = 1
OtSender(o, dir) == IF Op(o)[1] = "b2a" THEN o.rank = 1 ELSE o.rank = dir
OtDirections(o) == IF Op(o)[1] = "b2a" THEN 1 ELSE 2
LocalA(o) == [i \in 1 .. Op(o)[2] |-> MpcRand(o.rank, 11 + o.rand + 2 * i)]
LocalB(o) == [i \in 1 .. Op(o)[2] |-> MpcRand(o.rank, 12 + o.rand + 2 * i)]
MyChoices(o) == OtChoices(IF Op(o)[1] = "b2a" THEN <<Val(Reg(o, 1))>> ELSE LocalB(o))
MyMsgs(o) == CASE Op(o)[1] = "b2a" -> B2AMsgs(o, Reg(o, 1))
               [] Op(o)[1] = "prepA" -> ArithMsgs(o, LocalA(o))
               [] Op(o)[1] = "prepB" -> BoolMsgs(o, LocalA(o))
Kept(o) == CASE Op(o)[1] = "b2a" -> <<B2AKept(o, Reg(o, 1))>>
             [] Op(o)[1] = "prepA" -> ArithKept(o, Op(o)[2])
             [] Op(o)[1] = "prepB" -> BoolKept(o, Op(o)[2])
Got(o, res) == CASE Op(o)[1] = "b2a" -> ArithGot(1, res)
                 [] Op(o)[1] = "prepA" -> ArithGot(Op(o)[2], res)
                 [] Op(o)[1] = "prepB" -> BoolGot(Op(o)[2], res)

(* After a direction: the next one, or the end of the call.                 *)
Triples(o, crossA, crossB) ==
    [i \in 1 .. Op(o)[2] |->
       LET a == LocalA(o)[i]
           b == LocalB(o)[i]
       IN  IF Op(o)[1] = "prepA" THEN [a |-> a, b |-> b, c |-> Mod(a * b + crossA[i] + crossB[i])]
           ELSE LET w(x) == WordOf(kBits, x)
                IN  [a |-> w(a), b |-> w(b), c |-> Xor(w(a) \cap w(b), Xor(w(crossA[i]), w(crossB[i])))]]
AfterOt(o, cross) ==
    LET all == Append(o.tmp, cross)
        fresh == [o EXCEPT !.rand = @ + 31]
    IN  IF Len(all) < OtDirections(o) THEN [o EXCEPT !.tmp = all, !.phase = 0]
        ELSE CASE Op(o)[1] = "b2a" -> Give(fresh, all[1][1])
               [] Op(o)[1] = "prepA" -> Done([fresh EXCEPT !.atr = @ \o Triples(o, all[1], all[2])])
               [] Op(o)[1] = "prepB" -> Done([fresh EXCEPT !.btr = @ \o Triples(o, all[1], all[2])])

RunOt(r, o) ==
    LET n == o.spawned
    IN  /\ OtOp(o)
        /\ \/ /\ o.phase = 0
              /\ LET next == [o EXCEPT !.spawned = n + 1]
                 IN  IF OtSender(o, Len(o.tmp)) THEN MpcStep(r, [next EXCEPT !.phase = 2], 0, <<>>)
                     ELSE MpcStep(r, [next EXCEPT !.phase = 1], n + 1, <<PackFlips(n + 1, MyChoices(o))>>)
           \/ /\ o.phase = 2 /\ o.box[n] # <<>>
              /\ MpcStep(r, AfterOt(Taken(o, n), Kept(o)), n, <<Corrections(n, MyMsgs(o), Head(o.box[n]))>>)
           \/ /\ o.phase = 1 /\ o.box[n] # <<>>
              /\ MpcStep(r, AfterOt(Taken(o, n), Got(o, ChosenResults(n, MyChoices(o), Head(o.box[n])))), 0, <<>>)

MpcNext ==
    /\ part = "mpc"
    /\ \E r \in 0 .. 1 :
         LET o == st.p[r]
         IN  /\ ~Over(o)
             /\ Local(r, o) \/ Share(r, o) \/ Reveal(r, o) \/ Beaver(r, o) \/ A2B(r, o) \/ RunOt(r, o)

-----------------------------------------------------------------------------
(* The values in the clear: what the registers stand for after a program.   *)
IsBool(op) == op[1] \in {"shareB", "xorB", "notB", "andB", "a2b"}
HasResult(op) == op[1] \notin {"prepA", "prepB", "revealA", "revealB"}
PlainOp(regs, op) ==
    CASE op[1] \in {"shareA", "shareB"} -> st.in[op[2] + 1]
      [] op[1] = "addA" -> Mod(regs[op[2]] + regs[op[3]])
      [] op[1] = "subA" -> Mod(regs[op[2]] + M - regs[op[3]])
      [] op[1] = "negA" -> Mod(M - regs[op[2]])
      [] op[1] = "mulConstA" -> Mod(regs[op[2]] * op[3])
      [] op[1] = "mulA" -> Mod(regs[op[2]] * regs[op[3]])
      [] op[1] = "xorB" -> Val(Xor(WordOf(kBits, regs[op[2]]), WordOf(kBits, regs[op[3]])))
      [] op[1] = "andB" -> Val(WordOf(kBits, regs[op[2]]) \cap WordOf(kBits, regs[op[3]]))
      [] op[1] = "notB" -> M - 1 - regs[op[2]]
      [] op[1] \in {"a2b", "b2a"} -> regs[op[2]]
PlainRegs(prog) == FoldLeft(LAMBDA regs, op : IF HasResult(op) THEN Append(regs, PlainOp(regs, op)) ELSE regs,
                            <<>>, prog)

(* The two parties' shares of every register stand for the value in the     *)
(* clear whatever their relative pace, and what they reveal is that value.  *)
MpcSharesRight ==
    part = "mpc" =>
        LET p == st.p[0]
            q == st.p[1]
            plain == PlainRegs(st.prog)
            ops == SelectSeq(st.prog, HasResult)
            n == Min({Len(p.regs), Len(q.regs)})
            shown == SelectSeq(st.prog, LAMBDA op : op[1] \in {"revealA", "revealB"})
        IN  /\ \A i \in 1 .. n :
                 IF IsBool(ops[i]) THEN Val(Xor(p.regs[i], q.regs[i])) = plain[i]
                 ELSE Mod(p.regs[i] + q.regs[i]) = plain[i]
            /\ \A r \in 0 .. 1 : \A i \in DOMAIN st.p[r].out :
                 LET v == st.p[r].out[i]
                 IN  IF shown[i][1] = "revealA" THEN v = plain[shown[i][2]] ELSE Val(v) = plain[shown[i][2]]

(* Neither party is left waiting: when nothing can move both have finished  *)
(* or both have thrown at the same call, for want of a triple, and no       *)
(* message is left.                                                         *)
MpcNoOneWaits ==
    part = "mpc" /\ ~ENABLED MpcNext =>
        LET p == st.p[0]
            q == st.p[1]
        IN  /\ Over(p) /\ Over(q) /\ p.throws = q.throws /\ p.pc = q.pc
            /\ \A c \in DOMAIN p.box : p.box[c] = <<>> /\ q.box[c] = <<>>
            /\ Len(p.atr) = Len(q.atr) /\ Len(p.btr) = Len(q.btr)
=============================================================================
