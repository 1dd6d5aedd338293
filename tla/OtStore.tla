------------------------------ MODULE OtStore ------------------------------
(* The stores in which two parties keep their oblivious transfers           *)
(* (ot/slice_base, ot/ot_store, ot/ot_store_utils).  A store is a window,   *)
(* four counters, on a block buffer that it shares with its slices.  The    *)
(* sender and the receiver of the same OTs call their stores alike.         *)
EXTENDS Scenario, Sequences, SequencesExt

CONSTANTS OtBits,     \* width of a block (128 in the code)
          MaxOts      \* bound on the number of OTs of a store

OtBlocks == SUBSET (0 .. OtBits - 1)
XorIf(x, b, d) == IF b = 1 THEN Xor(x, d) ELSE x      \* x ^ (d * b)
Lsb(x) == IF 0 \in x THEN 1 ELSE 0                     \* x & 0x1

Window(use_ctr, use_size, buf_ctr, buf_size) ==
    [use_ctr |-> use_ctr, use_size |-> use_size, buf_ctr |-> buf_ctr, buf_size |-> buf_size]

(* SliceBase::ConsistencyCheck and the check of the stores that the buffer  *)
(* holds the window.                                                        *)
ConsistencyCheck(w, size) ==
    /\ w.use_size > 0
    /\ w.buf_size > 0
    /\ w.buf_size >= w.use_size
    /\ w.buf_size >= w.buf_ctr
    /\ size >= w.buf_size

CanIndex(w, i) == w.use_size > i
GetBufIdx(w, i) == w.use_ctr + i + 1
CanIncrease(w, size) == w.buf_size - w.buf_ctr >= size

ResetSlice(w) == [w EXCEPT !.use_ctr = 0, !.use_size = w.buf_size, !.buf_ctr = 0]

(* Slice takes positions in the buffer, not in the window it is called on.  *)
RecvSlice(begin, end) == Window(begin, end - begin, begin, end)
SendSlice(blkNum, begin, end) ==
    Window(begin * blkNum, (end - begin) * blkNum, begin * blkNum, end * blkNum)

NextRecvSlice(w, num) == RecvSlice(w.buf_ctr, w.buf_ctr + num)
(* The counter of blocks taken for a counter of OTs.                        *)
NextSendSliceBlocks(w, blkNum, num) == SendSlice(blkNum, w.buf_ctr, w.buf_ctr + num)

NextSendSlice(w, blkNum, num) ==
    SendSlice(blkNum, w.buf_ctr \div blkNum, w.buf_ctr \div blkNum + num)

-----------------------------------------------------------------------------
(* Stores.  s and r are windows of the sender and of the receiver; the      *)
(* buffers, the delta and the mode are those of the whole state o.          *)

BlkNum(o) == IF o.stype = "Compact" THEN 1 ELSE 2

SendGetBlock(o, w, i, msg) ==
    IF o.delta = {} THEN o.sblk[GetBufIdx(w, 2 * i) + msg]
    ELSE XorIf(o.sblk[GetBufIdx(w, BlkNum(o) * i)], msg, o.delta)
RecvGetBlock(o, w, i) == o.rblk[GetBufIdx(w, i)]
GetChoice(o, w, i) ==
    IF o.rtype = "Compact" THEN Lsb(o.rblk[GetBufIdx(w, i)]) ELSE o.rbit[GetBufIdx(w, i)]

SendSize(o, w) == IF o.stype = "Compact" THEN w.use_size ELSE w.use_size \div 2

CopyBlkBuf(o, w) == SubSeq(o.rblk, w.use_ctr + 1, w.use_ctr + w.use_size)
CopyCotBlkBuf(o, w) == SubSeq(o.sblk, w.buf_ctr + 1, w.buf_ctr + w.use_size)
(* The choice bits are cut to the window but not moved to its start.        *)
CopyBitBufUnmoved(o, w) ==
    IF o.rtype = "Compact" THEN [i \in 1 .. w.use_size |-> Lsb(RecvGetBlock(o, w, i - 1))]
    ELSE SubSeq(o.rbit, 1, w.use_size)

CopyBitBuf(o, w) ==
    IF o.rtype = "Compact" THEN [i \in 1 .. w.use_size |-> Lsb(RecvGetBlock(o, w, i - 1))]
    ELSE LET shifted == [i \in DOMAIN o.rbit |->
                           IF i + w.use_ctr <= Len(o.rbit) THEN o.rbit[i + w.use_ctr] ELSE 0]
         IN  SubSeq(shifted, 1, w.use_size)

(* MakeOtSendStore, MakeOtRecvStore and their compact forms.                *)
MakeSend(o, blocks, delta, type) ==
    [o EXCEPT !.sblk = blocks, !.delta = delta, !.stype = type,
              !.send = Window(0, Len(blocks), 0, Len(blocks))]
MakeRecv(o, choices, blocks) ==
    [o EXCEPT !.rblk = blocks, !.rbit = choices, !.rtype = "Normal",
              !.recv = Window(0, Len(choices), 0, Len(choices))]
MakeCompactRecv(o, blocks) ==
    [o EXCEPT !.rblk = blocks, !.rbit = <<>>, !.rtype = "Compact",
              !.recv = Window(0, Len(blocks), 0, Len(blocks))]

NoStores == [stype |-> "Normal", rtype |-> "Normal", delta |-> {}, sblk |-> <<>>,
             rblk |-> <<>>, rbit |-> <<>>, send |-> Window(0, 0, 0, 0),
             recv |-> Window(0, 0, 0, 0), taken |-> <<>>, alike |-> TRUE]

MockRots(num, choices, msgs) ==
    MakeSend(MakeRecv(NoStores, choices, [i \in 1 .. num |-> msgs[2 * i - 1 + choices[i]]]),
             msgs, {}, "Normal")
MockCots(num, delta, choices, msgs) ==
    MakeSend(MakeRecv(NoStores, choices, [i \in 1 .. num |-> XorIf(msgs[i], choices[i], delta)]),
             msgs, delta, "Compact")
MockCompactOts(num, rand, recvMsgs) ==
    LET delta == rand \cup {0}
    IN  MakeSend(MakeCompactRecv(NoStores, recvMsgs),
                 [i \in 1 .. num |-> XorIf(recvMsgs[i], Lsb(recvMsgs[i]), delta)], delta, "Compact")

-----------------------------------------------------------------------------
(* The calls of the two parties.  Message values are fixed by their place,  *)
(* so that no two OTs are alike.                                            *)

Mark(i) == WordOf(OtBits, (3 * i + 1) % 2^OtBits)

OtInit ==
    \E num \in 1 .. MaxOts, delta \in OtBlocks \ {{}} : \E choices \in [1 .. num -> {0, 1}] :
        \/ Start("store", MockRots(num, choices, [i \in 1 .. 2 * num |-> Mark(i)]))
        \/ Start("store", MockCots(num, delta, choices, [i \in 1 .. num |-> Mark(i)]))
        \/ Start("store", MockCompactOts(num, delta, [i \in 1 .. num |-> XorIf(Mark(i), choices[i], {0})]))

(* The counters of the buffers are not moved.                               *)
OtNextSliceStays ==
    \E num \in 0 .. MaxOts :
        LET s == NextSendSlice(st.send, BlkNum(st), num)
            r == NextRecvSlice(st.recv, num)
        IN  /\ ConsistencyCheck(s, Len(st.sblk)) /\ ConsistencyCheck(r, Len(st.rblk))
            /\ Len(st.taken) < 2
            /\ Step("store", [st EXCEPT !.taken = Append(@, [send |-> s, recv |-> r, next |-> TRUE])])

(* NextSlice makes the slice first and then moves the counter: a call that  *)
(* asks too much throws and leaves the store as it was.                     *)
OtNextSlice ==
    \E num \in 0 .. MaxOts :
        LET s == NextSendSlice(st.send, BlkNum(st), num)
            r == NextRecvSlice(st.recv, num)
            sOk == ConsistencyCheck(s, Len(st.sblk)) /\ CanIncrease(st.send, num * BlkNum(st))
            rOk == ConsistencyCheck(r, Len(st.rblk)) /\ CanIncrease(st.recv, num)
        IN  Step("store",
              [st EXCEPT !.alike = @ /\ sOk = rOk,
                         !.send.buf_ctr = IF sOk THEN @ + num * BlkNum(st) ELSE @,
                         !.recv.buf_ctr = IF rOk THEN @ + num ELSE @,
                         !.taken = IF sOk /\ rOk
                                   THEN Append(@, [send |-> s, recv |-> r, next |-> TRUE]) ELSE @])

OtSlice ==
    \E begin, end \in 0 .. MaxOts :
        LET s == SendSlice(BlkNum(st), begin, end)
            r == RecvSlice(begin, end)
            sOk == ConsistencyCheck(s, Len(st.sblk))
            rOk == ConsistencyCheck(r, Len(st.rblk))
        IN  /\ begin <= end
            /\ \A i \in DOMAIN st.taken : st.taken[i].next
            /\ Step("store",
                 [st EXCEPT !.alike = @ /\ sOk = rOk,
                            !.taken = IF sOk /\ rOk
                                      THEN Append(@, [send |-> s, recv |-> r, next |-> FALSE])
                                      ELSE @])

(* The parties give the store back whole; its slices are no longer used.    *)
OtResetSlice ==
    Step("store", [st EXCEPT !.send = ResetSlice(@), !.recv = ResetSlice(@), !.taken = <<>>])

(* Both parties write one OT of a slice: the sender its messages            *)
(* (SetNormalBlock, SetCompactBlock), the receiver the choice and the       *)
(* chosen message (SetChoice, SetBlock).                                    *)
OtFill ==
    \E t \in DOMAIN st.taken, i \in 0 .. MaxOts - 1, c \in {0, 1} :
        LET s == st.taken[t].send
            r == st.taken[t].recv
            new == WordOf(OtBits, 2)
            other == WordOf(OtBits, 1)
            rot == st.stype = "Normal"
            low == IF st.rtype = "Compact" THEN XorIf(new, c, {0}) ELSE new
        IN  /\ CanIndex(r, i)
            /\ Step("store",
                 IF rot
                 THEN [st EXCEPT !.sblk[GetBufIdx(s, 2 * i)] = new,
                                 !.sblk[GetBufIdx(s, 2 * i + 1)] = other,
                                 !.rbit[GetBufIdx(r, i)] = c,
                                 !.rblk[GetBufIdx(r, i)] = IF c = 0 THEN new ELSE other]
                 ELSE IF st.rtype = "Normal"
                 THEN [st EXCEPT !.sblk[GetBufIdx(s, i)] = new,
                                 !.rbit[GetBufIdx(r, i)] = c,
                                 !.rblk[GetBufIdx(r, i)] = XorIf(new, c, st.delta)]
                 ELSE [st EXCEPT !.rblk[GetBufIdx(r, i)] = low,
                                 !.sblk[GetBufIdx(s, i)] = XorIf(low, Lsb(low), st.delta)])

OtNext == part = "store" /\ (OtNextSlice \/ OtSlice \/ OtResetSlice \/ OtFill)

-----------------------------------------------------------------------------
(* However the two stores are cut, the slices the parties take by the same  *)
(* calls hold the same OTs: the receiver's block is the sender's message    *)
(* for its choice, although the sender of random OTs counts two blocks per  *)
(* OT.  The same calls are refused on both sides.                           *)
OtSlicesCorrelated ==
    part = "store" =>
        /\ st.alike
        /\ \A t \in DOMAIN st.taken :
             LET s == st.taken[t].send
                 r == st.taken[t].recv
             IN  /\ SendSize(st, s) = r.use_size
                 /\ \A i \in 0 .. r.use_size - 1 :
                      RecvGetBlock(st, r, i) = SendGetBlock(st, s, i, GetChoice(st, r, i))

(* NextSlice never hands out an OT twice.                                   *)
OtSlicesDisjoint ==
    part = "store" =>
        \A t, u \in DOMAIN st.taken :
            t < u /\ st.taken[t].next /\ st.taken[u].next =>
                st.taken[t].recv.use_ctr + st.taken[t].recv.use_size <= st.taken[u].recv.use_ctr

(* The copies made of a slice, through the shift and the cut of the choice  *)
(* bits, agree with reading it element by element.                          *)
OtCopiesAgree ==
    part = "store" =>
        \A t \in DOMAIN st.taken :
            LET s == st.taken[t].send
                r == st.taken[t].recv
            IN  /\ Len(CopyBitBuf(st, r)) = r.use_size
                /\ \A i \in 0 .. r.use_size - 1 :
                     /\ CopyBitBuf(st, r)[i + 1] = GetChoice(st, r, i)
                     /\ CopyBlkBuf(st, r)[i + 1] = RecvGetBlock(st, r, i)
                     /\ st.stype = "Compact" =>
                          CopyCotBlkBuf(st, s)[i + 1] = SendGetBlock(st, s, i, 0)
=============================================================================
