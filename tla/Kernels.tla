------------------------------ MODULE Kernels -------------------------------
(* mpc/ot_kernel: the application's view of oblivious transfer.  A kernel   *)
(* is set up once and then makes correlated or random OTs into the caller's *)
(* stores; naive_rot2ot turns random OTs into OTs of chosen messages.  The  *)
(* extensions themselves are the modules Softspoken and Ferret: here they   *)
(* are one joint step of the two parties.                                   *)
EXTENDS Integers, Sequences, FiniteSets, SequencesExt, FiniteSetsExt, Scenario

CONSTANTS OtkBatch,    \* kBatchSize
          OtkNums,     \* the numbers of OTs a caller asks for
          OtkT,        \* LpnParam::GetDefault().t
          OtkCalls     \* calls one party makes

(* A block is the set of the terms it is the xor of.                        *)
OtkXor(x, y) == (x \ y) \union (y \ x)
CrHashOf(x) == {<<"hash", x>>}
OtkParties == {"sender", "receiver"}
OtkPeer(p) == IF p = "sender" THEN "receiver" ELSE "sender"
Bit01 == {0, 1}

(* A kernel: core and cache hold <<>> (monostate) or the side they were     *)
(* made for and the set-up they come from.                                  *)
NewKernel(role, alg) == [role |-> role, alg |-> alg, inited |-> FALSE, core |-> <<>>, cache |-> <<>>]
InitKernelOnce(k, setup) ==
    [k EXCEPT !.inited = TRUE, !.core = IF (k.role = "sender" \/ @ = <<>>) /\ k.alg = "SoftSpoken" THEN <<k.role, setup>> ELSE @,
              !.cache = IF k.alg = "Ferret" THEN <<k.role, setup>> ELSE @]
InitKernel(k, setup) ==
    [k EXCEPT !.inited = TRUE, !.core = IF k.alg = "SoftSpoken" THEN <<k.role, setup>> ELSE @,
              !.cache = IF k.alg = "Ferret" THEN <<k.role, setup>> ELSE @]

(* What the caller passes: ot_num and a store for side (the overload).      *)
KernelStores == [side : OtkParties, size : OtkNums, type : {"Compact", "Normal"}, sliced : BOOLEAN]
GoodStore(n, out, type) == n = out.size /\ ~out.sliced /\ out.type = type
(* The side the extension's state was made for; SoftSpoken's is ss_core_,   *)
(* Ferret's init_ot_cache_.                                                 *)
Alternative(k) == IF k.alg = "Ferret" THEN k.cache ELSE k.core
CotRunsAnySide(k, n, out) ==
    /\ GoodStore(n, out, "Compact") /\ k.inited
    /\ Alternative(k) # <<>>
    /\ k.alg = "Ferret" => n >= 2 * OtkT
CotRuns(k, n, out) ==
    /\ GoodStore(n, out, "Compact") /\ k.inited
    /\ Alternative(k) # <<>> /\ Alternative(k)[1] = out.side
    /\ k.alg = "Ferret" => n >= 2 * OtkT
(* eval_rot makes its own Compact store of the caller's size.               *)
RotRuns(k, n, out) ==
    GoodStore(n, out, "Normal") /\ CotRuns(k, n, [side |-> out.side, size |-> n, type |-> "Compact", sliced |-> FALSE])

(* The correlated OTs of one evaluation: the sender has q and q ^ delta,    *)
(* the receiver the one of its random choice.  Each side computes with the  *)
(* set-up its own kernel holds.                                             *)
DeltaOf(setup) == {<<"delta", setup>>}
CotBlock(k, eval, i, b) == OtkXor({<<"q", Alternative(k)[2], eval, i>>}, IF b = 1 THEN DeltaOf(Alternative(k)[2]) ELSE {})
CotSend(k, eval, n) == [i \in 1 .. n |-> [b \in Bit01 |-> CotBlock(k, eval, i, b)]]
CotRecv(k, eval, c) == [i \in DOMAIN c |-> CotBlock(k, eval, i, c[i])]
NaiveCot2RotSend(s) == [i \in DOMAIN s |-> [b \in Bit01 |-> CrHashOf(s[i][b])]]
NaiveCot2RotRecv(r) == [i \in DOMAIN r |-> CrHashOf(r[i])]

-----------------------------------------------------------------------------
(* Two parties, each with a kernel.  A call that passes its checks waits    *)
(* for the peer's; got is what the last evaluation left in the store.       *)
OtkStart ==
    \E alg \in {"Ferret", "SoftSpoken"} :
        Start("otkernel", [kind |-> "kernel", k |-> [p \in OtkParties |-> NewKernel(p, alg)], doing |-> [p \in OtkParties |-> <<>>],
                           got |-> [p \in OtkParties |-> <<>>], setups |-> 0, evals |-> 0, calls |-> [p \in OtkParties |-> 0],
                           wrong |-> {}, what |-> "none"])
OtkIdle(p) == st.kind = "kernel" /\ st.doing[p] = <<>> /\ st.calls[p] < OtkCalls
OtkCallInit(p) == OtkIdle(p) /\ Step("otkernel", [st EXCEPT !.doing[p] = <<"init", 0>>, !.calls[p] = @ + 1])
(* wrong collects the evaluations that ran although the kernel was never    *)
(* set up or was set up for the other side.                                 *)
OtkEval(p, op, n, out, runs) ==
    Step("otkernel", [st EXCEPT !.calls[p] = @ + 1, !.doing[p] = IF runs THEN <<op, n>> ELSE <<>>,
                      !.wrong = IF runs /\ (~st.k[p].inited \/ out.side # st.k[p].role) THEN @ \union {p} ELSE @])
OtkCallCot(p) == OtkIdle(p) /\ \E n \in OtkNums, out \in KernelStores : OtkEval(p, "cot", n, out, CotRuns(st.k[p], n, out))
OtkCallRot(p) == OtkIdle(p) /\ \E n \in OtkNums, out \in KernelStores : OtkEval(p, "rot", n, out, RotRuns(st.k[p], n, out))
OtkTogether(op) == st.kind = "kernel" /\ st.doing.sender = st.doing.receiver /\ st.doing.sender # <<>> /\ st.doing.sender[1] = op
OtkOver(s) == [s EXCEPT !.doing = [p \in OtkParties |-> <<>>]]
OtkInitTogether ==
    /\ OtkTogether("init")
    /\ Step("otkernel", OtkOver([st EXCEPT !.k = [p \in OtkParties |-> InitKernel(st.k[p], st.setups)], !.setups = @ + 1]))
OtkEvalTogether(op) ==
    /\ OtkTogether(op)
    /\ LET n == st.doing.sender[2] IN
       \E c \in [1 .. n -> Bit01] :
           LET s == CotSend(st.k.sender, st.evals, n) r == CotRecv(st.k.receiver, st.evals, c) IN
           Step("otkernel", OtkOver([st EXCEPT !.evals = @ + 1, !.what = op,
                !.got = [sender |-> IF op = "cot" THEN s ELSE NaiveCot2RotSend(s),
                         receiver |-> [blk |-> IF op = "cot" THEN r ELSE NaiveCot2RotRecv(r), bit |-> c]]]))

-----------------------------------------------------------------------------
(* naive_rot2ot on the random OTs just made: the receiver sends its masked  *)
(* choices, the sender the messages in batches.                             *)
Msg(i, b) == {<<"m", i, b>>}
OtkBatchNum(n) == (n + OtkBatch - 1) \div OtkBatch
Limit(n, i) == IF OtkBatch < n - (i * OtkBatch) THEN OtkBatch ELSE n - (i * OtkBatch)
MaskedPairStraight(s, masked, i) == [b \in Bit01 |-> OtkXor(s[i][b], Msg(i, b))]
MaskedPair(s, masked, i) == [b \in Bit01 |-> OtkXor(s[i][IF masked[i] = 0 THEN b ELSE 1 - b], Msg(i, b))]
BatchSend(s, masked, i) == [j \in 1 .. Limit(Len(s), i) |-> MaskedPair(s, masked, (i * OtkBatch) + j)]
BatchRecv(r, choices, buf, i) ==
    [j \in 1 .. Limit(Len(choices), i) |-> LET x == (i * OtkBatch) + j IN OtkXor(buf[j][choices[x]], r.blk[x])]
OtkChoose ==
    /\ st.kind = "kernel" /\ st.what = "rot" /\ \A p \in OtkParties : st.doing[p] = <<>>
    /\ \E choices \in [DOMAIN st.got.sender -> Bit01] :
        Step("otkernel", [kind |-> "ot", s |-> st.got.sender, r |-> st.got.receiver, choices |-> choices, out |-> <<>>,
                          masked |-> <<[i \in DOMAIN choices |-> (st.got.receiver.bit[i] + choices[i]) % 2]>>,
                          known |-> <<>>, sent |-> 0, wire |-> <<>>, taken |-> 0])
OtkRecvMasked ==
    st.kind = "ot" /\ st.masked # <<>> /\ Step("otkernel", [st EXCEPT !.known = Head(st.masked), !.masked = <<>>])
OtkSendBatch ==
    /\ st.kind = "ot" /\ st.known # <<>> /\ st.sent < OtkBatchNum(Len(st.s))
    /\ Step("otkernel", [st EXCEPT !.wire = Append(@, BatchSend(st.s, st.known, st.sent)), !.sent = @ + 1])
OtkTakeBatch ==
    /\ st.kind = "ot" /\ st.wire # <<>>
    /\ Step("otkernel", [st EXCEPT !.out = @ \o BatchRecv(st.r, st.choices, Head(st.wire), st.taken), !.wire = Tail(@), !.taken = @ + 1])

OtkInit == OtkStart
OtkNext ==
    /\ part = "otkernel"
    /\ \/ \E p \in OtkParties : OtkCallInit(p) \/ OtkCallCot(p) \/ OtkCallRot(p)
       \/ OtkInitTogether \/ OtkEvalTogether("cot") \/ OtkEvalTogether("rot")
       \/ OtkChoose \/ OtkRecvMasked \/ OtkSendBatch \/ OtkTakeBatch

-----------------------------------------------------------------------------
(* Whatever set-ups came before, the receiver ends an evaluation with the   *)
(* sender's block of its choice, and not with the other one.                *)
KernelOutputsAgree ==
    part = "otkernel" /\ st.kind = "kernel" /\ st.what # "none" =>
        \A i \in DOMAIN st.got.sender : LET c == st.got.receiver.bit[i] IN
            st.got.receiver.blk[i] = st.got.sender[i][c] /\ st.got.receiver.blk[i] # st.got.sender[i][1 - c]

(* No store is filled by a kernel that was not set up, or that was set up   *)
(* for the other side.                                                      *)
NoEvalWithoutSetup == part = "otkernel" /\ st.kind = "kernel" => st.wrong = {}

(* When every batch has been taken, the receiver has the message of its     *)
(* choice at every index, the last short batch included.                    *)
ChosenMessageArrives ==
    part = "otkernel" /\ st.kind = "ot" /\ st.taken = OtkBatchNum(Len(st.s)) =>
        st.out = [i \in DOMAIN st.choices |-> Msg(i, st.choices[i])]

-----------------------------------------------------------------------------
(* Subfield VOLE on several threads (mpc/svole_kernel.cc).  Each call cuts  *)
(* its output into one piece per thread, spawns one context per piece and   *)
(* gives the pieces to a pool whose destructor waits for them; streaming    *)
(* makes one such call per step.  A position holds the piece it came from:  *)
(* <<step, thread, offset>>, and two ends fit where they hold the same.     *)

CONSTANTS SvMaxSize,       \* bound on the length of the output
          SvMaxThreads     \* bound on threads

SvSides == {"s", "r"}
None == <<>>

(* The span of piece i of a call on size positions; the last one has what   *)
(* the division leaves (and one that does not).                             *)
PieceEven(size, threads, i) == [off |-> i * (size \div threads), len |-> size \div threads]
Piece(size, threads, i) ==
    LET iter == size \div threads
    IN  [off |-> i * iter, len |-> IF i = threads - 1 THEN size - iter * (threads - 1) ELSE iter]

(* The steps of a streamed call (and one more when they divide the output). *)
StepNumMore(o) == (o.size + o.step) \div o.step
StepNum(o) == (o.size + o.step - 1) \div o.step
StepSize(o, k) == IF k = StepNum(o) - 1 THEN o.size - o.step * (StepNum(o) - 1) ELSE o.step

(* Where a step's output starts: the sender takes the place of the last     *)
(* step for each of them, the receiver the place of the step.               *)
StepOffset(o, side, k) == IF side = "s" THEN o.step * (StepNum(o) - 1) ELSE o.step * k

(* A call by both ends; mem is the output of each and, past its end, the    *)
(* memory behind it.                                                        *)
SvInit ==
    \E size \in 1 .. SvMaxSize, threads \in 1 .. SvMaxThreads, step \in 1 .. SvMaxSize :
        Start("svole", [size |-> size, threads |-> threads, step |-> step,
                        at |-> [p \in SvSides |-> 0], seeded |-> [p \in SvSides |-> 0],
                        task |-> [p \in SvSides |-> [i \in 0 .. threads - 1 |-> "idle"]],
                        failed |-> {},
                        mem |-> [p \in SvSides |-> [j \in 0 .. 2 * SvMaxSize |-> None]]])

(* Both ends take the seed from the other.                                  *)
SvCallBothWait(p) ==
    /\ st.at[p] < StepNum(st) /\ \A i \in DOMAIN st.task[p] : st.task[p][i] = "idle"
    /\ \A q \in SvSides \ {p} : st.seeded[q] > st.at[p]
    /\ Step("svole", [st EXCEPT !.seeded[p] = @ + 1, !.task[p] = [i \in DOMAIN @ |-> "queued"]])

(* eval_multithread up to the pool: SyncSeed, where the receiver waits for  *)
(* the sender, then all pieces are submitted.                               *)
SvCall(p) ==
    /\ st.at[p] < StepNum(st) /\ \A i \in DOMAIN st.task[p] : st.task[p][i] = "idle"
    /\ p = "r" => st.seeded["s"] > st.at["r"]
    /\ Step("svole", [st EXCEPT !.seeded[p] = @ + 1, !.task[p] = [i \in DOMAIN @ |-> "queued"]])

(* A worker starts a piece, with its own copy of the core and its context.  *)
SvTaskStart(p) ==
    \E i \in DOMAIN st.task[p] :
        /\ st.task[p][i] = "queued"
        /\ Step("svole", [st EXCEPT !.task[p][i] = "runs"])

(* A piece is done: the sender needs the receiver's corrections of the same *)
(* piece, the receiver the sender's messages.                               *)
PeerStatus(p, i) ==
    LET q == IF p = "s" THEN "r" ELSE "s"
    IN  CASE st.at[q] > st.at[p] -> IF <<q, st.at[p], i>> \in st.failed THEN "failed" ELSE "done"
          [] st.at[q] = st.at[p] -> st.task[q][i]
          [] OTHER -> "idle"
SvTaskDone(p) ==
    \E i \in DOMAIN st.task[p] :
        /\ st.task[p][i] = "runs"
        /\ PeerStatus(p, i) \in (IF p = "s" THEN {"runs", "done"} ELSE {"done"})
        /\ LET s == Piece(StepSize(st, st.at[p]), st.threads, i)
               first == StepOffset(st, p, st.at[p]) + s.off
           IN  Step("svole", [st EXCEPT !.task[p][i] = "done",
                 !.mem[p] = [j \in DOMAIN @ |-> IF j \in first .. first + s.len - 1
                                                THEN <<st.at[p], i, j - first>> ELSE @[j]]])

(* The link of one piece fails or times out: the error is kept in a future  *)
(* nobody asks.                                                             *)
SvTaskFail(p) ==
    \E i \in DOMAIN st.task[p] :
        /\ st.task[p][i] = "runs"
        /\ st.failed = {} \/ PeerStatus(p, i) = "failed"
        /\ Step("svole", [st EXCEPT !.task[p][i] = "failed", !.failed = @ \cup {<<p, st.at[p], i>>}])

(* The pool's destructor has joined its threads; the call returns.          *)
SvReturn(p) ==
    /\ \A i \in DOMAIN st.task[p] : st.task[p][i] \in {"done", "failed"}
    /\ Step("svole", [st EXCEPT !.at[p] = @ + 1, !.task[p] = [i \in DOMAIN @ |-> "idle"]])

SvNext ==
    /\ part = "svole"
    /\ \E p \in SvSides : SvCall(p) \/ SvTaskStart(p) \/ SvTaskDone(p) \/ SvTaskFail(p) \/ SvReturn(p)

-----------------------------------------------------------------------------
(* When both have returned from the last step, every position of the        *)
(* receiver holds what the step it belongs to made, and the sender holds    *)
(* the same.  Left out are the positions of a piece that failed, and of the *)
(* sender those of a step before the last: it puts every step where the     *)
(* last one goes (svole_kernel.cc:158).                                     *)
SvolePiecesFit ==
    part = "svole" /\ (\A p \in SvSides : st.at[p] = StepNum(st)) =>
        \A j \in 0 .. st.size - 1 :
            LET k == j \div st.step
                lost == \E f \in st.failed :
                           /\ f[2] = k
                           /\ LET s == Piece(StepSize(st, k), st.threads, f[3])
                              IN  j - st.step * k \in s.off .. s.off + s.len - 1
            IN  ~lost => /\ st.mem["r"][j] # None /\ st.mem["r"][j][1] = k
                         /\ k = StepNum(st) - 1 => st.mem["s"][j] = st.mem["r"][j]

(* A call leaves the memory behind the output alone; the sender of a        *)
(* streamed call is left out when its steps do not divide the output, as    *)
(* its full steps start where the short one goes (svole_kernel.cc:158).     *)
SvoleInBounds ==
    part = "svole" =>
        \A p \in SvSides : p = "r" \/ StepNum(st) = 1 \/ st.size % st.step = 0 =>
            \A j \in DOMAIN st.mem[p] : j >= st.size => st.mem[p][j] = None

(* One end never waits for the other for good: when nothing moves, both     *)
(* have returned.                                                           *)
SvoleReturns ==
    part = "svole" /\ ~ENABLED SvNext => \A p \in SvSides : st.at[p] = StepNum(st)
=============================================================================
