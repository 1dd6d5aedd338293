-------------------------- MODULE ChannelIdProofs --------------------------
(***************************************************************************)
(* Where the sequence ids of a channel are: each id that was given out is  *)
(* with the thread that fetched it, in the queue, or handed to a task, and *)
(* in one of these places only.  From this follow the bound of the throttle*)
(* window and that a pair of channels implements a pair of mailboxes.      *)
(***************************************************************************)
EXTENDS ChannelProofs

\* The ids in the queue and with the threads that are about to queue them.
QueueOK ==
  \A p \in Peers :
    /\ \A n \in 1 .. Len(send_msgs[p]) : send_msgs[p][n].id <= msg_seq_id[p]
    /\ \A m, n \in 1 .. Len(send_msgs[p]) : send_msgs[p][m].id = send_msgs[p][n].id => m = n
    /\ \A t \in Threads : thread[p][t].pc = "push" =>
         /\ thread[p][t].id <= msg_seq_id[p]
         /\ \A u \in Threads : thread[p][u].pc = "push" /\ thread[p][u].id = thread[p][t].id
                                 => u = t
         /\ \A n \in 1 .. Len(send_msgs[p]) : send_msgs[p][n].id # thread[p][t].id

\* Only ids that were handed to a task are sent or received, each by one task.
HandedOK ==
  \A p \in Peers :
    /\ \A x \in tasks[p] : x.key \in Keys => x.id \in Handed(p)
    /\ \A x, y \in tasks[p] : x.key \in Keys /\ y.key \in Keys /\ x.id = y.id => x = y
    /\ received_msg_ids[Peer(p)] \subseteq Handed(p)

\* A throttled send thread has handed out no id beyond the window, but for the
\* message it waits on.
WindowInv ==
  \A p \in Peers : Window > 0 /\ send_thread[p].pc \in {"check", "pop", "window"} =>
    \A i \in Handed(p) : \/ i < Cardinality(received_ack_ids[p]) + Window
                         \/ send_thread[p].pc = "window" /\ i = send_thread[p].id

IdsInv == PromiseInv /\ QueueOK /\ HandedOK /\ WindowInv

-----------------------------------------------------------------------------
(* Steps that give out, queue and hand out ids. *)

\* No thread comes to or leaves the step before the queue.
SamePushers ==
  \A p \in Peers, t \in Threads :
    thread[p][t].pc = "push" \/ thread'[p][t].pc = "push" => thread'[p][t] = thread[p][t]

Still == UNCHANGED <<msg_seq_id, send_msgs>> /\ SamePushers

LEMMA ThreadSet ==
  ASSUME ThreadTypeOK, NEW p \in Peers, NEW t \in Threads, NEW r,
         thread' = [thread EXCEPT ![p][t] = r]
  PROVE  /\ thread'[p][t] = r
         /\ \A s \in Peers, u \in Threads : s # p \/ u # t => thread'[s][u] = thread[s][u]
  BY DEF ThreadTypeOK

\* What Goto and Return do, seen from the threads.
LEMMA ThreadMoved ==
  ASSUME TypeInv, NEW p \in Peers, NEW t \in Threads, NEW pc \in ThreadPc,
         Goto(p, t, pc) \/ Return(p, t)
  PROVE  /\ thread'[p][t].pc \in {pc, "idle"}
         /\ \A s \in Peers, u \in Threads : s # p \/ u # t => thread'[s][u] = thread[s][u]
<1>0. ThreadTypeOK /\ thread[p][t] \in ThreadState
  BY DEF TypeInv, TypeOK, ThreadTypeOK
<1>1. CASE Goto(p, t, pc)
  <2>1. [thread[p][t] EXCEPT !.pc = pc].pc = pc
    BY <1>0 DEF ThreadState
  <2>2. thread' = [thread EXCEPT ![p][t] = [thread[p][t] EXCEPT !.pc = pc]]
    BY <1>0, <1>1, GotoSet
  <2>. QED
    BY <1>0, <2>1, <2>2 DEF ThreadTypeOK
<1>2. CASE Return(p, t)
  BY <1>0, <1>2 DEF Return, Idle, ThreadTypeOK
<1>. QED
  BY <1>1, <1>2

LEMMA MovedPushers ==
  ASSUME TypeInv, NEW p \in Peers, NEW t \in Threads, NEW pc \in ThreadPc \ {"push"},
         Goto(p, t, pc) \/ Return(p, t), thread[p][t].pc # "push"
  PROVE  SamePushers
<1>1. /\ thread'[p][t].pc # "push"
      /\ \A s \in Peers, u \in Threads : s # p \/ u # t => thread'[s][u] = thread[s][u]
  BY ThreadMoved
<1>. QED
  BY <1>1 DEF SamePushers

\* Every step is one of these.
LEMMA ThreadKinds ==
  ASSUME TypeInv, NEW p \in Peers, NEW t \in Threads,
         UserNext(p, t) \/ CallNext(p, t) \/ CloseNext(p, t)
  PROVE  Still \/ FetchSeqId(p, t) \/ Push(p, t)
<1>0. ThreadTypeOK /\ thread[p][t] \in ThreadState
  BY DEF TypeInv, TypeOK, ThreadTypeOK
<1>1. ASSUME NEW call \in Calls, NEW key \in Keys, CallSend(p, t, call, key) PROVE Still
  <2>. DEFINE r == [pc |-> "number", call |-> call, key |-> key, id |-> 0]
  <2>1. thread' = [thread EXCEPT ![p][t] = r] /\ thread[p][t].pc = "idle" /\ r.pc # "push"
    BY <1>1 DEF CallSend, At
  <2>. HIDE DEF r
  <2>. QED
    BY <1>0, <1>1, <2>1, ThreadSet DEF Still, SamePushers, CallSend, sendVars
<1>2. ASSUME NEW key \in Keys, CallRecv(p, t, key) PROVE Still
  <2>. DEFINE r == [pc |-> "recv", call |-> "Recv", key |-> key, id |-> 0]
  <2>1. thread' = [thread EXCEPT ![p][t] = r] /\ thread[p][t].pc = "idle" /\ r.pc # "push"
    BY <1>2 DEF CallRecv, At
  <2>. HIDE DEF r
  <2>. QED
    BY <1>0, <1>2, <2>1, ThreadSet DEF Still, SamePushers, CallRecv, sendVars
<1>3. CASE RecvTake(p, t)
  <2>1. PICK m \in recv_msgs[p] :
           thread' = [thread EXCEPT ![p][t].pc = "ack", ![p][t].id = m.id]
    BY <1>3 DEF RecvTake
  <2>. DEFINE r == [thread[p][t] EXCEPT !.pc = "ack", !.id = m.id]
  <2>2. r.pc = "ack" /\ thread[p][t].pc = "recv"
    BY <1>0, <1>3 DEF RecvTake, At, ThreadState
  <2>3. thread' = [thread EXCEPT ![p][t] = r]
    BY <1>0, <2>1 DEF ThreadTypeOK
  <2>4. UNCHANGED <<msg_seq_id, send_msgs>>
    BY <1>3 DEF RecvTake, sendVars
  <2>. HIDE DEF r
  <2>5. /\ thread'[p][t] = r
        /\ \A s \in Peers, u \in Threads : s # p \/ u # t => thread'[s][u] = thread[s][u]
    BY <1>0, <2>3 DEF ThreadTypeOK
  <2>. QED
    BY <2>2, <2>4, <2>5 DEF Still, SamePushers
<1>4. CASE StopServer(p, t)
  BY <1>4 DEF Still, SamePushers, StopServer, sendVars
<1>5. CASE \/ SendReturns(p, t) \/ ThrottledReturns(p, t) \/ RecvThrows(p, t) \/ RecvAck(p, t)
           \/ SendFin(p, t) \/ StopReceivingAndAckUnreadMsgs(p, t)
           \/ WaitForFin(p, t) \/ WaitForFlyingMsg(p, t) \/ JoinSendThread(p, t)
           \/ WaitAllSendFinished(p, t) \/ WaitForFlyingAck(p, t) \/ AbortJoin(p, t)
           \/ StopSendThread(p, t) \/ AbortStop(p, t) \/ AbortFlag(p, t)
  <2>1. /\ \E pc \in ThreadPc \ {"push"} : Goto(p, t, pc) \/ Return(p, t)
        /\ thread[p][t].pc # "push" /\ UNCHANGED <<msg_seq_id, send_msgs>>
    BY <1>5 DEF SendReturns, ThrottledReturns, RecvThrows, RecvAck, SendFin,
                StopReceivingAndAckUnreadMsgs, WaitForFin, WaitForFlyingMsg, JoinSendThread,
                WaitAllSendFinished, WaitForFlyingAck, AbortJoin, StopSendThread, AbortStop,
                AbortFlag, WaitStep, ThreadPc, At, sendVars
  <2>. QED
    BY <2>1, MovedPushers DEF Still
<1>. QED
  BY <1>1, <1>2, <1>3, <1>4, <1>5 DEF UserNext, CallNext, CloseNext

LEMMA TaskKinds ==
  ASSUME NEW p \in Peers, NEW x \in tasks[p],
         RequestNext(p, x) \/ TaskNext(p, x) \/ LinkFault(p, x)
  PROVE  Still
  BY DEF RequestNext, OnRequestAborting, OnAck, OnFin, OnDuplicate, OnNormalMessage,
         OnKeyClash, OnAutoAck, TaskNext, TaskDone, TaskAborted, AsyncError, LinkFault,
         sendVars, Still, SamePushers

-----------------------------------------------------------------------------
(* How the ids move. *)

\* No id changes its place.
LEMMA StillIds ==
  ASSUME QueueOK, Still
  PROVE  QueueOK' /\ \A p \in Peers : Handed(p)' = Handed(p)
<1>1. \A p \in Peers, t \in Threads :
        /\ thread'[p][t].pc = "push" <=> thread[p][t].pc = "push"
        /\ thread[p][t].pc = "push" => thread'[p][t].id = thread[p][t].id
  BY DEF Still, SamePushers
<1>2. QueueOK'
  BY <1>1 DEF QueueOK, Still
<1>3. \A p \in Peers : Handed(p)' = Handed(p)
  BY <1>1 DEF Handed, Still
<1>. QED
  BY <1>2, <1>3

\* An id is given out: it is with the thread that fetched it.
LEMMA FetchIds ==
  ASSUME TypeInv, QueueOK, NEW p \in Peers, NEW t \in Threads, FetchSeqId(p, t)
  PROVE  /\ QueueOK'
         /\ \A s \in Peers : Handed(s)' = Handed(s)
<1>. DEFINE r == [thread[p][t] EXCEPT !.pc = "push", !.id = msg_seq_id[p] + 1]
<1>0. ThreadTypeOK /\ thread[p][t] \in ThreadState /\ msg_seq_id \in [Peers -> 0 .. MaxMsgs]
      /\ send_msgs \in [Peers -> Seq(Message)]
  BY DEF TypeInv, TypeOK, ThreadTypeOK, SendTypeOK
<1>1. r.pc = "push" /\ r.id = msg_seq_id[p] + 1
  BY <1>0 DEF ThreadState
<1>2. thread' = [thread EXCEPT ![p][t] = r]
  BY <1>0 DEF ThreadTypeOK, FetchSeqId
<1>3. /\ send_msgs' = send_msgs /\ thread[p][t].pc = "number"
      /\ msg_seq_id'[p] = msg_seq_id[p] + 1
      /\ \A s \in Peers \ {p} : msg_seq_id'[s] = msg_seq_id[s]
  BY <1>0 DEF FetchSeqId, At
<1>. HIDE DEF r
<1>4. /\ thread'[p][t] = r
      /\ \A s \in Peers, u \in Threads : s # p \/ u # t => thread'[s][u] = thread[s][u]
  BY <1>0, <1>2 DEF ThreadTypeOK
<1>5. \A s \in Peers : \A n \in 1 .. Len(send_msgs[s]) : send_msgs[s][n].id \in Nat
  <2>1. \A s \in Peers : \A n \in 1 .. Len(send_msgs[s]) : send_msgs[s][n] \in Message
    BY <1>0
  <2>2. \A m \in Message : m.id \in Nat
    BY BoundsAssumption DEF Message
  <2>. QED
    BY <2>1, <2>2
<1>6. \A s \in Peers, u \in Threads : thread[s][u].id \in Nat
  BY <1>0, BoundsAssumption DEF ThreadTypeOK, ThreadState
<1>7. \A s \in Peers : msg_seq_id[s] \in Nat
  BY <1>0, BoundsAssumption
<1>8. QueueOK'
  <2>. SUFFICES ASSUME NEW s \in Peers
                PROVE  (/\ \A n \in 1 .. Len(send_msgs[s]) : send_msgs[s][n].id <= msg_seq_id[s]
                        /\ \A m, n \in 1 .. Len(send_msgs[s]) :
                             send_msgs[s][m].id = send_msgs[s][n].id => m = n
                        /\ \A u \in Threads : thread[s][u].pc = "push" =>
                             /\ thread[s][u].id <= msg_seq_id[s]
                             /\ \A v \in Threads :
                                  thread[s][v].pc = "push" /\ thread[s][v].id = thread[s][u].id
                                    => v = u
                             /\ \A n \in 1 .. Len(send_msgs[s]) :
                                  send_msgs[s][n].id # thread[s][u].id)'
    BY DEF QueueOK
  <2>1. CASE s # p
    BY <2>1, <1>3, <1>4 DEF QueueOK
  <2>2. CASE s = p
    <3>1. /\ \A n \in 1 .. Len(send_msgs[p]) : /\ send_msgs[p][n].id <= msg_seq_id[p] + 1
                                               /\ send_msgs[p][n].id # msg_seq_id[p] + 1
          /\ \A m, n \in 1 .. Len(send_msgs[p]) :
               send_msgs[p][m].id = send_msgs[p][n].id => m = n
      BY <1>5, <1>7 DEF QueueOK
    <3>2. ASSUME NEW u \in Threads, u # t, thread[p][u].pc = "push"
          PROVE  thread[p][u].id <= msg_seq_id[p] + 1 /\ thread[p][u].id # msg_seq_id[p] + 1
      BY <3>2, <1>6, <1>7 DEF QueueOK
    <3>3. ASSUME NEW u \in Threads, NEW v \in Threads, thread'[p][u].pc = "push",
                 thread'[p][v].pc = "push", thread'[p][v].id = thread'[p][u].id
          PROVE  v = u
      BY <3>2, <3>3, <1>1, <1>4 DEF QueueOK
    <3>4. ASSUME NEW u \in Threads, thread'[p][u].pc = "push"
          PROVE  /\ thread'[p][u].id <= msg_seq_id[p] + 1
                 /\ \A n \in 1 .. Len(send_msgs[p]) : send_msgs[p][n].id # thread'[p][u].id
      <4>1. CASE u = t
        BY <4>1, <3>1, <1>1, <1>4, <1>7
      <4>2. CASE u # t
        BY <4>2, <3>2, <3>4, <1>4 DEF QueueOK
      <4>. QED
        BY <4>1, <4>2
    <3>. QED
      BY <2>2, <1>3, <3>1, <3>3, <3>4
  <2>. QED
    BY <2>1, <2>2
<1>9. ASSUME NEW s \in Peers PROVE Handed(s)' = Handed(s)
  <2>1. CASE s # p
    BY <2>1, <1>3, <1>4 DEF Handed
  <2>2. CASE s = p
    <3>1. Handed(p) \subseteq Handed(p)'
      BY <1>1, <1>3, <1>4, <1>7 DEF Handed
    <3>2. Handed(p)' \subseteq Handed(p)
      BY <1>1, <1>3, <1>4, <1>7 DEF Handed
    <3>. QED
      BY <2>2, <3>1, <3>2
  <2>. QED
    BY <2>1, <2>2
<1>. QED
  BY <1>8, <1>9

\* An id is queued.
LEMMA PushIds ==
  ASSUME TypeInv, QueueOK, NEW p \in Peers, NEW t \in Threads, Push(p, t)
  PROVE  /\ QueueOK'
         /\ \A s \in Peers : Handed(s)' = Handed(s)
<1>. DEFINE m == [key |-> thread[p][t].key, id |-> thread[p][t].id]
            L == Len(send_msgs[p])
<1>0. ThreadTypeOK /\ thread[p][t] \in ThreadState /\ msg_seq_id \in [Peers -> 0 .. MaxMsgs]
      /\ send_msgs \in [Peers -> Seq(Message)]
  BY DEF TypeInv, TypeOK, ThreadTypeOK, SendTypeOK
<1>1. /\ thread[p][t].pc = "push" /\ msg_seq_id' = msg_seq_id
      /\ thread[p][t].call \in {"Send", "SendAsync", "SendAsyncThrottled"}
      /\ m \in Message
      /\ send_msgs' = [send_msgs EXCEPT ![p] = Append(@, m)]
  BY UserAssumption DEF Push, At, TypeInv, CallOK, Message
<1>2. \E pc \in {"sync", "throttle"} : Goto(p, t, pc) \/ Return(p, t)
  BY <1>1 DEF Push
<1>3. /\ thread'[p][t].pc # "push"
      /\ \A s \in Peers, u \in Threads : s # p \/ u # t => thread'[s][u] = thread[s][u]
  BY <1>2, ThreadMoved DEF ThreadPc
<1>4. /\ send_msgs'[p] = Append(send_msgs[p], m)
      /\ \A s \in Peers \ {p} : send_msgs'[s] = send_msgs[s]
  BY <1>0, <1>1
<1>5. m.id = thread[p][t].id
  OBVIOUS
<1>. HIDE DEF m
<1>6. /\ L \in Nat /\ Len(send_msgs'[p]) = L + 1
      /\ \A n \in 1 .. L : send_msgs'[p][n] = send_msgs[p][n]
      /\ send_msgs'[p][L + 1] = m
  BY <1>0, <1>1, <1>4
<1>7. QueueOK'
  <2>. SUFFICES ASSUME NEW s \in Peers
                PROVE  (/\ \A n \in 1 .. Len(send_msgs[s]) : send_msgs[s][n].id <= msg_seq_id[s]
                        /\ \A k, n \in 1 .. Len(send_msgs[s]) :
                             send_msgs[s][k].id = send_msgs[s][n].id => k = n
                        /\ \A u \in Threads : thread[s][u].pc = "push" =>
                             /\ thread[s][u].id <= msg_seq_id[s]
                             /\ \A v \in Threads :
                                  thread[s][v].pc = "push" /\ thread[s][v].id = thread[s][u].id
                                    => v = u
                             /\ \A n \in 1 .. Len(send_msgs[s]) :
                                  send_msgs[s][n].id # thread[s][u].id)'
    BY DEF QueueOK
  <2>1. CASE s # p
    BY <2>1, <1>1, <1>3, <1>4 DEF QueueOK
  <2>2. CASE s = p
    <3>1. \A n \in 1 .. (L + 1) : n \in 1 .. L \/ n = L + 1
      BY <1>6
    <3>. HIDE DEF L
    <3>2. \A n \in 1 .. (L + 1) :
            \/ n \in 1 .. L /\ send_msgs'[p][n] = send_msgs[p][n]
            \/ n = L + 1 /\ send_msgs'[p][n] = m
      BY <1>6, <3>1
    <3>3. /\ \A n \in 1 .. L : /\ send_msgs[p][n].id <= msg_seq_id[p]
                               /\ send_msgs[p][n].id # m.id
          /\ \A k, n \in 1 .. L : send_msgs[p][k].id = send_msgs[p][n].id => k = n
          /\ m.id <= msg_seq_id[p]
      BY <1>1, <1>5 DEF QueueOK, L
    <3>4. \A n \in 1 .. (L + 1) : send_msgs'[p][n].id <= msg_seq_id'[p]
      BY <1>1, <3>2, <3>3
    <3>5. \A k, n \in 1 .. (L + 1) : send_msgs'[p][k].id = send_msgs'[p][n].id => k = n
      BY <3>2, <3>3
    <3>6. ASSUME NEW u \in Threads, thread'[p][u].pc = "push"
          PROVE  /\ thread'[p][u].id <= msg_seq_id'[p]
                 /\ \A v \in Threads :
                      thread'[p][v].pc = "push" /\ thread'[p][v].id = thread'[p][u].id => v = u
                 /\ \A n \in 1 .. (L + 1) : send_msgs'[p][n].id # thread'[p][u].id
      <4>1. u # t /\ thread'[p][u] = thread[p][u]
        BY <1>3, <3>6
      <4>2. m.id # thread[p][u].id /\ \A n \in 1 .. L : send_msgs[p][n].id # thread[p][u].id
        BY <1>1, <1>5, <3>6, <4>1 DEF QueueOK, L
      <4>3. \A n \in 1 .. (L + 1) : send_msgs'[p][n].id # thread'[p][u].id
        BY <3>2, <4>1, <4>2
      <4>4. \A v \in Threads : thread'[p][v].pc = "push" => v # t /\ thread'[p][v] = thread[p][v]
        BY <1>3
      <4>5. thread'[p][u].id <= msg_seq_id'[p]
        BY <1>1, <3>6, <4>1 DEF QueueOK
      <4>6. \A v \in Threads :
              thread'[p][v].pc = "push" /\ thread'[p][v].id = thread'[p][u].id => v = u
        BY <3>6, <4>1, <4>4 DEF QueueOK
      <4>. QED
        BY <4>3, <4>5, <4>6
    <3>. QED
      BY <1>6, <2>2, <3>4, <3>5, <3>6
  <2>. QED
    BY <2>1, <2>2
<1>8. ASSUME NEW s \in Peers PROVE Handed(s)' = Handed(s)
  <2>1. CASE s # p
    BY <2>1, <1>1, <1>3, <1>4 DEF Handed
  <2>2. CASE s = p
    <3>. HIDE DEF L
    <3>0. L + 1 \in 1 .. (L + 1) /\ \A n \in 1 .. L : n \in 1 .. (L + 1)
      BY <1>6
    <3>1. \A i \in 1 .. msg_seq_id[p] :
            /\ \A n \in 1 .. (L + 1) : send_msgs'[p][n].id # i
            /\ \A u \in Threads : thread'[p][u].pc = "push" => thread'[p][u].id # i
            <=>
            /\ \A n \in 1 .. L : send_msgs[p][n].id # i
            /\ \A u \in Threads : thread[p][u].pc = "push" => thread[p][u].id # i
      <4>. TAKE i \in 1 .. msg_seq_id[p]
      <4>1. (\A n \in 1 .. (L + 1) : send_msgs'[p][n].id # i)
              <=> m.id # i /\ \A n \in 1 .. L : send_msgs[p][n].id # i
        <5>1. \A n \in 1 .. (L + 1) : n \in 1 .. L \/ n = L + 1
          BY <1>6
        <5>. QED
          BY <1>6, <3>0, <5>1
      <4>2. (\A u \in Threads : thread[p][u].pc = "push" => thread[p][u].id # i)
              <=> m.id # i /\ \A u \in Threads : thread'[p][u].pc = "push" => thread'[p][u].id # i
        BY <1>1, <1>3, <1>5
      <4>. QED
        BY <4>1, <4>2
    <3>2. Handed(p)' = {i \in 1 .. msg_seq_id[p] :
                          /\ \A n \in 1 .. (L + 1) : send_msgs'[p][n].id # i
                          /\ \A u \in Threads : thread'[p][u].pc = "push" => thread'[p][u].id # i}
      BY <1>1, <1>6 DEF Handed
    <3>3. Handed(p) = {i \in 1 .. msg_seq_id[p] :
                          /\ \A n \in 1 .. L : send_msgs[p][n].id # i
                          /\ \A u \in Threads : thread[p][u].pc = "push" => thread[p][u].id # i}
      BY DEF Handed, L
    <3>. QED
      BY <2>2, <3>1, <3>2, <3>3
  <2>. QED
    BY <2>1, <2>2
<1>. QED
  BY <1>7, <1>8

\* An id leaves the queue for a task.
LEMMA SubmitIds ==
  ASSUME TypeInv, QueueOK, NEW p \in Peers, NEW pc, Submit(p, pc)
  PROVE  LET m == Head(send_msgs[p])
         IN  /\ QueueOK'
             /\ m \in Message /\ m.id \in 1 .. msg_seq_id[p]
             /\ m.id \notin Handed(p)
             /\ Handed(p)' = Handed(p) \cup {m.id}
             /\ \A s \in Peers \ {p} : Handed(s)' = Handed(s)
<1>. DEFINE m == Head(send_msgs[p])
            L == Len(send_msgs[p])
<1>0. ThreadTypeOK /\ msg_seq_id \in [Peers -> 0 .. MaxMsgs]
      /\ send_msgs \in [Peers -> Seq(Message)]
  BY DEF TypeInv, TypeOK, SendTypeOK
<1>1. /\ msg_seq_id' = msg_seq_id /\ thread' = thread /\ send_msgs[p] # <<>>
      /\ send_msgs' = [send_msgs EXCEPT ![p] = Tail(@)]
  BY DEF Submit
<1>2. /\ send_msgs'[p] = Tail(send_msgs[p])
      /\ \A s \in Peers \ {p} : send_msgs'[s] = send_msgs[s]
  BY <1>0, <1>1
<1>3. /\ L \in Nat \ {0} /\ m = send_msgs[p][1] /\ m \in Message
      /\ Len(send_msgs'[p]) = L - 1
      /\ \A n \in 1 .. (L - 1) : send_msgs'[p][n] = send_msgs[p][n + 1]
  BY <1>0, <1>1, <1>2
<1>4. m.id \in 1 .. MaxMsgs
  BY <1>3 DEF Message
<1>5. 1 \in 1 .. L
  BY <1>3
<1>. HIDE DEF m, L
<1>6. m.id <= msg_seq_id[p]
  BY <1>3, <1>5 DEF QueueOK, L
<1>7. m.id \in 1 .. msg_seq_id[p]
  <2>1. msg_seq_id[p] \in Nat
    BY <1>0, BoundsAssumption
  <2>. QED
    BY <1>4, <1>6, <2>1
<1>8. m.id \notin Handed(p)
  BY <1>3, <1>5 DEF Handed, L
<1>9. \A n \in 1 .. (L - 1) : n + 1 \in 1 .. L /\ n + 1 # 1
  BY <1>3
<1>10. \A k, n \in 1 .. (L - 1) : k + 1 = n + 1 => k = n
  BY <1>3
<1>11. QueueOK'
  <2>. SUFFICES ASSUME NEW s \in Peers
                PROVE  (/\ \A n \in 1 .. Len(send_msgs[s]) : send_msgs[s][n].id <= msg_seq_id[s]
                        /\ \A k, n \in 1 .. Len(send_msgs[s]) :
                             send_msgs[s][k].id = send_msgs[s][n].id => k = n
                        /\ \A u \in Threads : thread[s][u].pc = "push" =>
                             /\ thread[s][u].id <= msg_seq_id[s]
                             /\ \A v \in Threads :
                                  thread[s][v].pc = "push" /\ thread[s][v].id = thread[s][u].id
                                    => v = u
                             /\ \A n \in 1 .. Len(send_msgs[s]) :
                                  send_msgs[s][n].id # thread[s][u].id)'
    BY DEF QueueOK
  <2>1. CASE s # p
    BY <2>1, <1>1, <1>2 DEF QueueOK
  <2>2. CASE s = p
    <3>1. \A n \in 1 .. (L - 1) : send_msgs'[p][n].id <= msg_seq_id[p]
      BY <1>3, <1>9 DEF QueueOK, L
    <3>2. \A k, n \in 1 .. (L - 1) : send_msgs'[p][k].id = send_msgs'[p][n].id => k = n
      <4>1. \A k, n \in 1 .. L : send_msgs[p][k].id = send_msgs[p][n].id => k = n
        BY DEF QueueOK, L
      <4>2. \A n \in 1 .. (L - 1) : send_msgs'[p][n] = send_msgs[p][n + 1]
        BY <1>3 DEF L
      <4>. QED
        BY <1>9, <1>10, <4>1, <4>2
    <3>3. \A u \in Threads : thread[p][u].pc = "push" =>
             \A n \in 1 .. (L - 1) : send_msgs'[p][n].id # thread[p][u].id
      BY <1>3, <1>9 DEF QueueOK, L
    <3>4. \A u \in Threads : thread[p][u].pc = "push" =>
             /\ thread[p][u].id <= msg_seq_id[p]
             /\ \A v \in Threads :
                  thread[p][v].pc = "push" /\ thread[p][v].id = thread[p][u].id => v = u
      BY DEF QueueOK
    <3>5. msg_seq_id'[p] = msg_seq_id[p] /\ \A u \in Threads : thread'[p][u] = thread[p][u]
      BY <1>1
    <3>6. Len(send_msgs'[p]) = L - 1
      BY <1>3
    <3>. QED
      BY <2>2, <3>1, <3>2, <3>3, <3>4, <3>5, <3>6
  <2>. QED
    BY <2>1, <2>2
<1>12. \A s \in Peers \ {p} : Handed(s)' = Handed(s)
  BY <1>1, <1>2 DEF Handed
<1>13. Handed(p)' = Handed(p) \cup {m.id}
  <2>1. \A i \in 1 .. msg_seq_id[p] :
          (\A n \in 1 .. L : send_msgs[p][n].id # i)
            <=> m.id # i /\ \A n \in 1 .. (L - 1) : send_msgs'[p][n].id # i
    <3>1. \A n \in 1 .. L : n = 1 \/ (n - 1 \in 1 .. (L - 1) /\ n = (n - 1) + 1)
      BY <1>3
    <3>2. \A n \in 1 .. L : n = 1 \/ send_msgs'[p][n - 1] = send_msgs[p][n]
      BY <1>3, <3>1
    <3>. QED
      BY <1>3, <1>5, <1>9, <3>1, <3>2
  <2>2. \A n \in 1 .. (L - 1) : send_msgs'[p][n].id # m.id
    BY <1>3, <1>5, <1>9 DEF QueueOK, L
  <2>3. \A u \in Threads : thread[p][u].pc = "push" => thread[p][u].id # m.id
    BY <1>3, <1>5 DEF QueueOK, L
  <2>4. msg_seq_id'[p] = msg_seq_id[p] /\ \A u \in Threads : thread'[p][u] = thread[p][u]
    BY <1>1
  <2>5. Len(send_msgs'[p]) = L - 1
    BY <1>3
  <2>6. \A i \in 1 .. msg_seq_id[p] :
          i \in Handed(p)' <=> i \in Handed(p) \/ i = m.id
    BY <1>7, <2>1, <2>2, <2>3, <2>4, <2>5 DEF Handed, L
  <2>7. Handed(p) \subseteq 1 .. msg_seq_id[p] /\ Handed(p)' \subseteq 1 .. msg_seq_id[p]
    BY <2>4 DEF Handed
  <2>. QED
    BY <1>7, <2>6, <2>7
<1>. QED
  BY <1>3, <1>7, <1>8, <1>11, <1>12, <1>13 DEF m

-----------------------------------------------------------------------------
(* What was handed out. *)

\* The tasks of normal messages only lose members, or one is replaced by
\* another for the same message.
TasksPass ==
  \E p \in Peers : \E x, y \in Task :
    /\ y.key = x.key /\ y.id = x.id
    /\ x.key \in Keys => x \in tasks[p]
    /\ \A s \in Peers : \A z \in tasks'[s] :
         \/ z \in tasks[s] /\ (s = p => z # x)
         \/ s = p /\ z = y
         \/ z.key \notin Keys
    /\ \A s \in Peers : \A i \in received_msg_ids'[s] :
         i \in received_msg_ids[s] \/ (s = Peer(p) /\ i = x.id /\ x.key \in Keys)

LEMMA HandedPass ==
  ASSUME HandedOK, \A p \in Peers : Handed(p)' = Handed(p), TasksPass
  PROVE  HandedOK'
<1>1. PICK p \in Peers, x \in Task, y \in Task :
        /\ y.key = x.key /\ y.id = x.id
        /\ x.key \in Keys => x \in tasks[p]
        /\ \A s \in Peers : \A z \in tasks'[s] :
             \/ z \in tasks[s] /\ (s = p => z # x)
             \/ s = p /\ z = y
             \/ z.key \notin Keys
        /\ \A s \in Peers : \A i \in received_msg_ids'[s] :
             i \in received_msg_ids[s] \/ (s = Peer(p) /\ i = x.id /\ x.key \in Keys)
  BY DEF TasksPass
<1>2. ASSUME NEW s \in Peers, NEW z \in tasks'[s], z.key \in Keys
      PROVE  z.id \in Handed(s)'
  BY <1>1, <1>2 DEF HandedOK
<1>3. ASSUME NEW s \in Peers, NEW z \in tasks'[s], NEW w \in tasks'[s],
             z.key \in Keys, w.key \in Keys, z.id = w.id
      PROVE  z = w
  BY <1>1, <1>3 DEF HandedOK
<1>4. ASSUME NEW s \in Peers, NEW i \in received_msg_ids'[Peer(s)]
      PROVE  i \in Handed(s)'
  <2>1. Peer(s) \in Peers /\ (Peer(s) = Peer(p) => s = p)
    BY PeerOther
  <2>. QED
    BY <1>1, <1>4, <2>1 DEF HandedOK
<1>. QED
  BY <1>2, <1>3, <1>4 DEF HandedOK

AcksGrow == \A s \in Peers : received_ack_ids[s] \subseteq received_ack_ids'[s]

\* A step that leaves the send thread alone.
Passes == TasksPass /\ AcksGrow /\ send_thread' = send_thread

\* Tasks of acknowledgements and FINs come, no message arrives.
LEMMA PassQuiet ==
  ASSUME \A s \in Peers : \A z \in tasks'[s] : z \in tasks[s] \/ z.key \notin Keys,
         received_msg_ids' = received_msg_ids
  PROVE  TasksPass
<1>. DEFINE x == [key |-> kAckKey, id |-> 0, state |-> "failed", tries |-> 0]
<1>1. x \in Task /\ x.key \notin Keys
  BY BoundsAssumption, KeysAssumption DEF Task
<1>2. \E p \in Peers : TRUE
  BY PeersAssumption
<1>. HIDE DEF x
<1>. QED
  BY <1>1, <1>2 DEF TasksPass

LEMMA ThreadAdds ==
  ASSUME TypeInv, NEW p \in Peers, NEW t \in Threads,
         UserNext(p, t) \/ CallNext(p, t) \/ CloseNext(p, t)
  PROVE  \A s \in Peers : /\ tasks[s] \subseteq tasks'[s]
                          /\ \A z \in tasks'[s] : z \in tasks[s] \/ z.key \notin Keys
<1>1. \A key, id : NewTask(p, key, id).key = key
  BY NewTaskFresh
<1>2. kAckKey \notin Keys /\ kFinKey \notin Keys
  BY KeysAssumption
<1>3. CASE \/ RecvAck(p, t) \/ SendFin(p, t) \/ StopReceivingAndAckUnreadMsgs(p, t)
  <2>1. \E S : /\ \A z \in S : z.key \in {kAckKey, kFinKey}
               /\ tasks' = [tasks EXCEPT ![p] = @ \cup S]
    <3>1. CASE RecvAck(p, t)
      <4>. WITNESS {NewTask(p, kAckKey, thread[p][t].id)}
      <4>. QED
        BY <1>1, <3>1 DEF RecvAck
    <3>2. CASE SendFin(p, t)
      <4>. WITNESS {NewTask(p, kFinKey, msg_seq_id[p])}
      <4>. QED
        BY <1>1, <3>2 DEF SendFin
    <3>3. CASE StopReceivingAndAckUnreadMsgs(p, t)
      <4>. WITNESS {NewTask(p, kAckKey, m.id) : m \in recv_msgs[p]}
      <4>. QED
        BY <1>1, <3>3 DEF StopReceivingAndAckUnreadMsgs
    <3>. QED
      BY <1>3, <3>1, <3>2, <3>3
  <2>. QED
    BY <1>2, <2>1 DEF TypeInv, TypeOK, TaskTypeOK
<1>4. CASE tasks' = tasks
  BY <1>4
<1>. QED
  BY <1>3, <1>4
     DEF UserNext, CallNext, CloseNext, CallSend, CallRecv, AbortFlag, StopServer,
         FetchSeqId, Push, SendReturns, ThrottledReturns, RecvTake, RecvThrows, AbortStop,
         AbortJoin, WaitForFin, WaitForFlyingMsg, StopSendThread, JoinSendThread,
         WaitAllSendFinished, WaitForFlyingAck, WaitStep, taskVars

LEMMA ThreadPass ==
  ASSUME TypeInv, NEW p \in Peers, NEW t \in Threads,
         UserNext(p, t) \/ CallNext(p, t) \/ CloseNext(p, t)
  PROVE  Passes /\ received_msg_ids' = received_msg_ids
<1>1. /\ received_msg_ids' = received_msg_ids /\ received_ack_ids' = received_ack_ids
      /\ send_thread' = send_thread
  BY DEF UserNext, CallNext, CloseNext, CallSend, CallRecv, StopReceivingAndAckUnreadMsgs,
         AbortFlag, StopServer, FetchSeqId, Push, SendReturns, ThrottledReturns, RecvTake,
         RecvAck, RecvThrows, AbortStop, AbortJoin, SendFin, WaitForFin, WaitForFlyingMsg,
         StopSendThread, JoinSendThread, WaitAllSendFinished, WaitForFlyingAck, WaitStep,
         sendVars, recvVars
<1>. QED
  BY <1>1, ThreadAdds, PassQuiet DEF Passes, AcksGrow

\* A task goes to another state, and may be received.
LEMMA PassReplace ==
  ASSUME TypeInv, NEW p \in Peers, NEW x \in tasks[p], NEW y \in Task,
         y.key = x.key, y.id = x.id,
         \A s \in Peers : \A z \in tasks'[s] :
           (z \in tasks[s] /\ (s = p => z # x)) \/ (s = p /\ z = y) \/ z.key \notin Keys,
         \/ received_msg_ids' = received_msg_ids
         \/ /\ x.key \in Keys
            /\ received_msg_ids' = [received_msg_ids EXCEPT ![Peer(p)] = @ \cup {x.id}]
  PROVE  TasksPass
<1>1. x \in Task /\ Peer(p) \in Peers
  BY PeerOther DEF TypeInv, TypeOK, TaskTypeOK
<1>2. \A s \in Peers : \A i \in received_msg_ids'[s] :
        i \in received_msg_ids[s] \/ (s = Peer(p) /\ i = x.id /\ x.key \in Keys)
  BY <1>1 DEF TypeInv, TypeOK, RecvTypeOK
<1>. QED
  BY <1>1, <1>2 DEF TasksPass

LEMMA RequestPass ==
  ASSUME TypeInv, NEW p \in Peers, NEW x \in tasks[p], RequestNext(p, x)
  PROVE  Passes
<1>. DEFINE q == Peer(p)
            a == NewTask(q, kAckKey, x.id)
<1>0. x \in Task /\ q \in Peers /\ q # p /\ tasks \in [Peers -> SUBSET Task]
  BY PeerOther DEF TypeInv, TypeOK, TaskTypeOK
<1>1. /\ Served(x) \in Task /\ Served(x).key = x.key /\ Served(x).id = x.id
      /\ Refused(x) \in Task /\ Refused(x).key = x.key /\ Refused(x).id = x.id
  BY <1>0, TaskStates
<1>2. a.key \notin Keys
  BY <1>0, NewTaskFresh, KeysAssumption
<1>3. send_thread' = send_thread /\ AcksGrow
  BY <1>0 DEF RequestNext, OnRequestAborting, OnAck, OnFin, OnDuplicate, OnNormalMessage,
              OnKeyClash, OnAutoAck, sendVars, recvVars, AcksGrow, TypeInv, TypeOK, RecvTypeOK
<1>4. \/ tasks' = Replaced(p, x, Served(x)) \/ tasks' = Replaced(p, x, Refused(x))
      \/ tasks' = [tasks EXCEPT ![p] = (@ \ {x}) \cup {Served(x)}, ![q] = @ \cup {a}]
  BY DEF RequestNext, OnRequestAborting, OnAck, OnFin, OnDuplicate, OnNormalMessage,
         OnKeyClash, OnAutoAck
<1>5. \/ received_msg_ids' = received_msg_ids
      \/ /\ x.key \in Keys
         /\ received_msg_ids' = [received_msg_ids EXCEPT ![q] = @ \cup {x.id}]
  BY DEF RequestNext, OnRequestAborting, OnAck, OnFin, OnDuplicate, OnNormalMessage,
         OnKeyClash, OnAutoAck, recvVars
<1>. HIDE DEF a
<1>6. \E y \in {Served(x), Refused(x)} : \A s \in Peers : \A z \in tasks'[s] :
        (z \in tasks[s] /\ (s = p => z # x)) \/ (s = p /\ z = y) \/ z.key \notin Keys
  <2>1. \E y \in {Served(x), Refused(x)} :
          \/ tasks' = [tasks EXCEPT ![p] = (@ \ {x}) \cup {y}]
          \/ tasks' = [tasks EXCEPT ![p] = (@ \ {x}) \cup {y}, ![q] = @ \cup {a}]
    BY <1>4 DEF Replaced
  <2>. HIDE DEF q
  <2>. QED
    BY <1>0, <1>2, <2>1
<1>7. TasksPass
  BY <1>1, <1>5, <1>6, PassReplace
<1>. QED
  BY <1>3, <1>7 DEF Passes

LEMMA TaskPass ==
  ASSUME TypeInv, NEW p \in Peers, NEW x \in tasks[p], TaskNext(p, x) \/ LinkFault(p, x)
  PROVE  Passes
<1>0. x \in Task /\ tasks \in [Peers -> SUBSET Task]
  BY DEF TypeInv, TypeOK, TaskTypeOK
<1>1. /\ received_msg_ids' = received_msg_ids /\ received_ack_ids' = received_ack_ids
      /\ send_thread' = send_thread
  BY DEF TaskNext, TaskDone, TaskAborted, AsyncError, LinkFault, recvVars, sendVars
<1>2. TasksPass
  <2>1. CASE TaskAborted(p, x) \/ LinkFault(p, x)
    <3>1. \E y \in Task : y.key = x.key /\ y.id = x.id /\ tasks' = Replaced(p, x, y)
      <4>1. Failed(x) \in Task /\ Failed(x).key = x.key /\ Failed(x).id = x.id
        BY <1>0, TaskStates
      <4>2. CASE tasks' = Replaced(p, x, Failed(x))
        BY <4>1, <4>2
      <4>3. CASE LinkFault(p, x) /\ x.tries < MaxRetry /\ tasks' = Replaced(p, x, [x EXCEPT !.state = "flying", !.tries = @ + 1])
        <5>. DEFINE y == [x EXCEPT !.state = "flying", !.tries = @ + 1]
        <5>1. x.tries \in 0 .. MaxRetry
          BY <1>0 DEF Task
        <5>2. x.tries + 1 \in 0 .. MaxRetry
          BY <5>1, <4>3, BoundsAssumption
        <5>3. y \in Task /\ y.key = x.key /\ y.id = x.id
          BY <1>0, <5>2 DEF Task
        <5>4. tasks' = Replaced(p, x, y)
          BY <4>3 DEF LinkFault
        <5>. QED
          BY <5>3, <5>4
      <4>. QED
        BY <2>1, <4>2, <4>3 DEF TaskAborted, LinkFault
    <3>2. PICK y \in Task : y.key = x.key /\ y.id = x.id /\ tasks' = Replaced(p, x, y)
      BY <3>1
    <3>3. \A s \in Peers : \A z \in tasks'[s] :
            (z \in tasks[s] /\ (s = p => z # x)) \/ (s = p /\ z = y) \/ z.key \notin Keys
      BY <1>0, <3>2 DEF Replaced
    <3>. QED
      BY <1>1, <3>2, <3>3, PassReplace
  <2>2. CASE TaskDone(p, x) \/ AsyncError(p, x)
    <3>1. \A s \in Peers : tasks'[s] \subseteq tasks[s]
      BY <1>0, <2>2 DEF TaskDone, AsyncError, EndTask
    <3>. QED
      BY <1>1, <3>1, PassQuiet
  <2>. QED
    BY <2>1, <2>2 DEF TaskNext
<1>. QED
  BY <1>1, <1>2 DEF Passes, AcksGrow

-----------------------------------------------------------------------------
(* The throttle window. *)

LEMMA FiniteIds ==
  ASSUME NEW S \in SUBSET (1 .. MaxMsgs)
  PROVE  IsFiniteSet(S) /\ Cardinality(S) \in Nat
<1>1. IsFiniteSet(1 .. MaxMsgs)
  BY FS_Interval, BoundsAssumption
<1>. QED
  BY <1>1, FS_Subset, FS_CardinalityType

LEMMA AcksFinite ==
  ASSUME TypeInv, NEW p \in Peers
  PROVE  IsFiniteSet(received_ack_ids[p]) /\ Cardinality(received_ack_ids[p]) \in Nat
  BY FiniteIds DEF TypeInv, TypeOK, RecvTypeOK

LEMMA HandedType ==
  ASSUME TypeInv, NEW p \in Peers
  PROVE  IsFiniteSet(Handed(p)) /\ Handed(p) \subseteq Nat /\ Handed(p) \subseteq 1 .. msg_seq_id[p]
<1>0. msg_seq_id[p] \in Nat
  BY BoundsAssumption DEF TypeInv, TypeOK, SendTypeOK
<1>1. IsFiniteSet(1 .. msg_seq_id[p])
  BY <1>0, FS_Interval
<1>2. Handed(p) \subseteq 1 .. msg_seq_id[p]
  BY DEF Handed
<1>. QED
  BY <1>0, <1>1, <1>2, FS_Subset

LEMMA WindowPass ==
  ASSUME TypeInv, TypeInv', WindowInv, AcksGrow, send_thread' = send_thread,
         \A p \in Peers : Handed(p)' = Handed(p)
  PROVE  WindowInv'
<1>. SUFFICES ASSUME NEW p \in Peers, Window > 0, send_thread[p].pc \in {"check", "pop", "window"},
                     NEW i \in Handed(p)
              PROVE  \/ i < Cardinality(received_ack_ids[p]')  + Window
                     \/ send_thread[p].pc = "window" /\ i = send_thread[p].id
  BY DEF WindowInv
<1>0. received_ack_ids'[p] \in SUBSET (1 .. MaxMsgs)
  BY DEF TypeInv, TypeOK, RecvTypeOK
<1>2. /\ Cardinality(received_ack_ids[p]) \in Nat /\ Cardinality(received_ack_ids'[p]) \in Nat
      /\ IsFiniteSet(received_ack_ids'[p]) /\ i \in Nat
  BY <1>0, AcksFinite, FiniteIds, HandedType
<1>1. Cardinality(received_ack_ids[p]) <= Cardinality(received_ack_ids'[p])
  BY <1>2, FS_Subset DEF AcksGrow
<1>3. \/ i < Cardinality(received_ack_ids[p]) + Window
      \/ send_thread[p].pc = "window" /\ i = send_thread[p].id
  BY DEF WindowInv
<1>. QED
  BY <1>1, <1>2, <1>3, BoundsAssumption

LEMMA IdsInit == Init => IdsInv
<1>. SUFFICES ASSUME Init PROVE IdsInv
  OBVIOUS
<1>1. QueueOK
  BY DEF Init, QueueOK, Idle
<1>2. \A p \in Peers : Handed(p) = {}
  BY DEF Init, Handed
<1>3. HandedOK
  BY PeerOther DEF Init, HandedOK
<1>4. WindowInv
  BY <1>2 DEF WindowInv
<1>. QED
  BY <1>1, <1>3, <1>4, PromiseInit DEF IdsInv

LEMMA SubmitWindow ==
  ASSUME IdsInv, NEW p \in Peers, SendThreadSubmit(p) \/ SendThreadDrain(p)
  PROVE  QueueOK' /\ HandedOK' /\ WindowInv'
<1>. DEFINE m == Head(send_msgs[p])
            y == NewTask(p, m.key, m.id)
<1>0. TypeInv /\ QueueOK /\ HandedOK /\ WindowInv
  BY DEF IdsInv, PromiseInv
<1>1. PICK pc \in {"window", "drain"} :
        Submit(p, pc) /\ (pc = "window" => send_thread[p].pc = "pop")
  BY DEF SendThreadSubmit, SendThreadDrain
<1>2. /\ QueueOK' /\ m \in Message /\ m.id \in 1 .. msg_seq_id[p] /\ m.id \notin Handed(p)
      /\ Handed(p)' = Handed(p) \cup {m.id}
      /\ \A s \in Peers \ {p} : Handed(s)' = Handed(s)
  BY <1>0, <1>1, SubmitIds
<1>3. m.key \in Keys /\ y.key = m.key /\ y.id = m.id
  BY <1>2, NewTaskFresh DEF Message
<1>4. /\ tasks' = [tasks EXCEPT ![p] = @ \cup {y}]
      /\ send_thread' = [send_thread EXCEPT ![p] = [pc |-> pc, id |-> m.id]]
      /\ UNCHANGED <<received_msg_ids, received_ack_ids>>
  BY <1>1 DEF Submit, recvVars
<1>. HIDE DEF y, m
<1>5. \A s \in Peers : tasks'[s] = IF s = p THEN tasks[s] \cup {y} ELSE tasks[s]
  BY <1>0, <1>4 DEF TypeInv, TypeOK, TaskTypeOK
<1>6. HandedOK'
  <2>1. ASSUME NEW s \in Peers, NEW z \in tasks'[s], z.key \in Keys
        PROVE  z.id \in Handed(s)'
    <3>1. z \in tasks[s] \/ (s = p /\ z = y)
      BY <1>5, <2>1
    <3>2. Handed(s) \subseteq Handed(s)'
      BY <1>2
    <3>3. CASE z \in tasks[s]
      BY <1>0, <2>1, <3>2, <3>3 DEF HandedOK
    <3>. QED
      BY <1>2, <1>3, <3>1, <3>3
  <2>2. ASSUME NEW s \in Peers, NEW z \in tasks'[s], NEW w \in tasks'[s],
               z.key \in Keys, w.key \in Keys, z.id = w.id
        PROVE  z = w
    BY <1>0, <1>2, <1>3, <1>5, <2>2 DEF HandedOK
  <2>3. ASSUME NEW s \in Peers, NEW i \in received_msg_ids'[Peer(s)]
        PROVE  i \in Handed(s)'
    BY <1>0, <1>2, <1>4, <2>3 DEF HandedOK
  <2>. QED
    BY <2>1, <2>2, <2>3 DEF HandedOK
<1>7. WindowInv'
  <2>. SUFFICES ASSUME NEW s \in Peers, Window > 0,
                       send_thread'[s].pc \in {"check", "pop", "window"},
                       NEW i \in Handed(s)'
                PROVE  \/ i < Cardinality(received_ack_ids[s])  + Window
                       \/ send_thread'[s].pc = "window" /\ i = send_thread'[s].id
    BY <1>4 DEF WindowInv
  <2>1. CASE s # p
    <3>1. send_thread'[s] = send_thread[s] /\ i \in Handed(s)
      BY <1>0, <1>2, <1>4, <2>1 DEF TypeInv, TypeOK, SendTypeOK
    <3>. QED
      BY <1>0, <3>1 DEF WindowInv
  <2>2. CASE s = p
    <3>1. send_thread'[p] = [pc |-> pc, id |-> m.id]
      BY <1>0, <1>4 DEF TypeInv, TypeOK, SendTypeOK
    <3>2. send_thread'[p].pc = "window" /\ send_thread'[p].id = m.id /\ send_thread[p].pc = "pop"
      BY <1>1, <2>2, <3>1
    <3>3. i = m.id \/ i < Cardinality(received_ack_ids[p]) + Window
      BY <1>0, <1>2, <2>2, <3>2 DEF WindowInv
    <3>. QED
      BY <2>2, <3>2, <3>3
  <2>. QED
    BY <2>1, <2>2
<1>. QED
  BY <1>2, <1>6, <1>7

LEMMA SendThreadWindowInv ==
  ASSUME IdsInv, NEW p \in Peers,
         \/ SendThreadCheck(p) \/ SendThreadWoken(p) \/ SendThreadWindow(p)
         \/ SendThreadThrows(p) \/ SendThreadDone(p)
  PROVE  QueueOK' /\ HandedOK' /\ WindowInv'
<1>0. TypeInv /\ QueueOK /\ HandedOK /\ WindowInv
  BY DEF IdsInv, PromiseInv
<1>1. UNCHANGED <<msg_seq_id, send_msgs, thread, tasks, received_msg_ids, received_ack_ids>>
  BY DEF SendThreadCheck, SendThreadWoken, SendThreadWindow, SendThreadThrows, SendThreadDone,
         taskVars, recvVars
<1>2. QueueOK' /\ \A s \in Peers : Handed(s)' = Handed(s)
  BY <1>0, <1>1, StillIds DEF Still, SamePushers
<1>3. HandedOK'
  BY <1>0, <1>1, <1>2, PassQuiet, HandedPass
<1>4. /\ \A s \in Peers \ {p} : send_thread'[s] = send_thread[s]
      /\ send_thread'[p].id = send_thread[p].id
      /\ \/ send_thread'[p].pc \in {"gone", "drain"}
         \/ send_thread'[p].pc \in {"check", "pop"} /\ send_thread[p].pc \in {"check", "pop"}
         \/ /\ send_thread'[p].pc = "check" /\ send_thread[p].pc = "window"
            /\ WindowOpen(p, send_thread[p].id)
  <2>0. send_thread \in [Peers -> [pc : {"check", "pop", "window", "drain", "gone"},
                                   id : 0 .. MaxMsgs]]
    BY <1>0 DEF TypeInv, TypeOK, SendTypeOK
  <2>1. CASE SendThreadCheck(p)
    BY <2>0, <2>1 DEF SendThreadCheck
  <2>2. CASE SendThreadWoken(p)
    BY <2>0, <2>2 DEF SendThreadWoken
  <2>3. CASE SendThreadWindow(p)
    BY <2>0, <2>3 DEF SendThreadWindow
  <2>4. CASE SendThreadThrows(p) \/ SendThreadDone(p)
    BY <2>0, <2>4 DEF SendThreadThrows, SendThreadDone
  <2>. QED
    BY <2>1, <2>2, <2>3, <2>4
<1>5. WindowInv'
  <2>. SUFFICES ASSUME NEW s \in Peers, Window > 0,
                       send_thread'[s].pc \in {"check", "pop", "window"},
                       NEW i \in Handed(s)
                PROVE  \/ i < Cardinality(received_ack_ids[s])  + Window
                       \/ send_thread'[s].pc = "window" /\ i = send_thread'[s].id
    BY <1>1, <1>2 DEF WindowInv
  <2>1. CASE s # p
    BY <1>0, <1>4, <2>1 DEF WindowInv
  <2>2. CASE s = p
    <3>1. CASE send_thread[p].pc \in {"check", "pop"}
      BY <1>0, <2>2, <3>1 DEF WindowInv
    <3>2. CASE send_thread[p].pc = "window" /\ WindowOpen(p, send_thread[p].id)
      BY <1>0, <2>2, <3>2, BoundsAssumption DEF WindowInv, WindowOpen
    <3>. QED
      BY <1>4, <2>2, <3>1, <3>2
  <2>. QED
    BY <2>1, <2>2
<1>. QED
  BY <1>2, <1>3, <1>5

LEMMA IdsStep == IdsInv /\ [Next]_vars => IdsInv'
<1>. SUFFICES ASSUME IdsInv, [Next]_vars PROVE IdsInv'
  OBVIOUS
<1>0. TypeInv /\ QueueOK /\ HandedOK /\ WindowInv
  BY DEF IdsInv, PromiseInv
<1>1. PromiseInv' /\ TypeInv'
  BY PromiseStep DEF IdsInv, PromiseInv
<1>2. ASSUME Passes, QueueOK', \A s \in Peers : Handed(s)' = Handed(s)
      PROVE  QueueOK' /\ HandedOK' /\ WindowInv'
  BY <1>0, <1>1, <1>2, HandedPass, WindowPass DEF Passes
<1>3. ASSUME Passes, Still
      PROVE  QueueOK' /\ HandedOK' /\ WindowInv'
  BY <1>0, <1>2, <1>3, StillIds
<1>4. ASSUME NEW p \in Peers, NEW t \in Threads,
             UserNext(p, t) \/ CallNext(p, t) \/ CloseNext(p, t)
      PROVE  QueueOK' /\ HandedOK' /\ WindowInv'
  <2>1. Passes
    BY <1>0, <1>4, ThreadPass
  <2>2. Still \/ FetchSeqId(p, t) \/ Push(p, t)
    BY <1>0, <1>4, ThreadKinds
  <2>. QED
    BY <1>0, <1>2, <1>3, <2>1, <2>2, FetchIds, PushIds
<1>5. ASSUME NEW p \in Peers, NEW x \in tasks[p],
             RequestNext(p, x) \/ TaskNext(p, x) \/ LinkFault(p, x)
      PROVE  QueueOK' /\ HandedOK' /\ WindowInv'
  <2>1. Passes
    BY <1>0, <1>5, RequestPass, TaskPass
  <2>2. Still
    BY <1>5, TaskKinds
  <2>. QED
    BY <1>3, <2>1, <2>2
<1>6. ASSUME NEW p \in Peers, SendThreadNext(p)
      PROVE  QueueOK' /\ HandedOK' /\ WindowInv'
  BY <1>6, SubmitWindow, SendThreadWindowInv DEF SendThreadNext
<1>7. CASE UNCHANGED vars
  <2>1. Passes
    BY <1>7, PassQuiet DEF vars, sendVars, taskVars, recvVars, Passes, AcksGrow
  <2>2. Still
    BY <1>7 DEF vars, sendVars, Still, SamePushers
  <2>. QED
    BY <1>1, <1>3, <2>1, <2>2 DEF IdsInv
<1>. QED
  BY <1>1, <1>4, <1>5, <1>6, <1>7 DEF Next, IdsInv

LEMMA IdsAlways == Spec => []IdsInv
  BY IdsInit, IdsStep, PTL DEF Spec

\* The messages handed to tasks and not acknowledged never exceed the window
\* while the send thread is throttled, whatever the threads, the faults, the
\* aborts and the order in which numbered messages were queued: ThrottleWindowWait
\* counts acknowledgements against a message's own id, and that is enough.
THEOREM ChannelWindowBound == Spec => []WindowBound
<1>1. ASSUME IdsInv, NEW p \in Peers, Window > 0,
             send_thread[p].pc \in {"check", "pop", "window"}
      PROVE  Cardinality(Handed(p) \ received_ack_ids[p]) <= Window
  <2>. DEFINE A == received_ack_ids[p]
              H == Handed(p)
              c == Cardinality(A)
  <2>0. TypeInv /\ HandedOK /\ WindowInv /\ AckMeansConsumed
    BY <1>1 DEF IdsInv, PromiseInv
  <2>1. IsFiniteSet(A) /\ c \in Nat /\ IsFiniteSet(H) /\ H \subseteq Nat /\ \A i \in H : i >= 1
    BY <2>0, AcksFinite, HandedType
  <2>2. A \subseteq H
    BY <2>0 DEF HandedOK, AckMeansConsumed
  <2>3. \E j \in Nat : H \subseteq (1 .. (c + Window - 1)) \cup {j}
    <3>1. send_thread[p].id \in Nat
      BY <2>0, BoundsAssumption DEF TypeInv, TypeOK, SendTypeOK
    <3>2. \A i \in H : i < c + Window \/ i = send_thread[p].id
      BY <1>1, <2>0 DEF WindowInv
    <3>. HIDE DEF H, c
    <3>3. \A i \in H : i \in 1 .. (c + Window - 1) \/ i = send_thread[p].id
      BY <2>1, <3>2, BoundsAssumption
    <3>. QED
      BY <3>1, <3>3
  <2>4. PICK j \in Nat : H \subseteq (1 .. (c + Window - 1)) \cup {j}
    BY <2>3
  <2>. HIDE DEF A, H, c
  <2>5. Cardinality(H) <= c + Window
    <3>. DEFINE I == 1 .. (c + Window - 1)
    <3>1. IsFiniteSet(I) /\ Cardinality(I) = c + Window - 1
      <4>1. 1 \in Int /\ c + Window - 1 \in Int /\ c + Window - 1 >= 1 - 1
        BY <1>1, <2>1, BoundsAssumption
      <4>. QED
        BY <4>1, <2>1, BoundsAssumption, FS_Interval
    <3>. HIDE DEF I
    <3>2. /\ IsFiniteSet(I \cup {j})
          /\ Cardinality(I \cup {j}) = Cardinality(I) \/ Cardinality(I \cup {j}) = Cardinality(I) + 1
      BY <3>1, FS_AddElement
    <3>3. Cardinality(H) <= Cardinality(I \cup {j})
      BY <2>4, <3>2, FS_Subset DEF I
    <3>4. Cardinality(H) \in Nat /\ Cardinality(I \cup {j}) \in Nat
      BY <2>1, <3>2, FS_CardinalityType
    <3>. QED
      BY <2>1, <3>1, <3>2, <3>3, <3>4, BoundsAssumption
  <2>6. Cardinality(H \ A) = Cardinality(H) - c
    <3>1. H \cap A = A
      BY <2>2
    <3>2. IsFiniteSet(H)
      BY <2>1
    <3>3. Cardinality(H \ A) = Cardinality(H) - Cardinality(H \cap A)
      BY ONLY <3>2, FS_Difference
    <3>. QED
      BY <3>1, <3>3 DEF c
  <2>7. Cardinality(H) \in Nat
    BY <2>1, FS_CardinalityType
  <2>8. Cardinality(H \ A) <= Window
    BY <2>1, <2>5, <2>6, <2>7, BoundsAssumption
  <2>. QED
    BY <2>8 DEF H, A
<1>2. IdsInv => WindowBound
  BY <1>1 DEF WindowBound
<1>. QED
  BY <1>2, IdsAlways, PTL

-----------------------------------------------------------------------------
(* The window when one thread sends. *)

\* Messages of one thread are queued, and handed out, in the order of their ids.
InOrder ==
  \A p \in Peers :
    /\ \A m, n \in 1 .. Len(send_msgs[p]) : m < n => send_msgs[p][m].id < send_msgs[p][n].id
    /\ \A t \in Threads : thread[p][t].pc = "push" =>
         \A n \in 1 .. Len(send_msgs[p]) : send_msgs[p][n].id < thread[p][t].id
    /\ 1 .. send_thread[p].id \subseteq Handed(p)

OrderInv == IdsInv /\ InOrder

LEMMA OrderKeep ==
  ASSUME InOrder, Still, send_thread' = send_thread, \A p \in Peers : Handed(p)' = Handed(p)
  PROVE  InOrder'
  BY DEF InOrder, Still, SamePushers

LEMMA OrderFetch ==
  ASSUME TypeInv, QueueOK, InOrder, NEW p \in Peers, NEW t \in Threads, FetchSeqId(p, t),
         \A s \in Peers : Handed(s)' = Handed(s)
  PROVE  InOrder'
<1>. DEFINE r == [thread[p][t] EXCEPT !.pc = "push", !.id = msg_seq_id[p] + 1]
<1>0. ThreadTypeOK /\ thread[p][t] \in ThreadState /\ msg_seq_id \in [Peers -> 0 .. MaxMsgs]
      /\ send_msgs \in [Peers -> Seq(Message)]
  BY DEF TypeInv, TypeOK, ThreadTypeOK, SendTypeOK
<1>1. r.id = msg_seq_id[p] + 1
  BY <1>0 DEF ThreadState
<1>2. thread' = [thread EXCEPT ![p][t] = r]
  BY <1>0 DEF ThreadTypeOK, FetchSeqId
<1>3. send_msgs' = send_msgs /\ send_thread' = send_thread
  BY DEF FetchSeqId
<1>. HIDE DEF r
<1>4. /\ thread'[p][t] = r
      /\ \A s \in Peers, u \in Threads : s # p \/ u # t => thread'[s][u] = thread[s][u]
  BY <1>0, <1>2 DEF ThreadTypeOK
<1>5. \A n \in 1 .. Len(send_msgs[p]) : send_msgs[p][n].id < msg_seq_id[p] + 1
  <2>1. \A n \in 1 .. Len(send_msgs[p]) : send_msgs[p][n] \in Message
    BY <1>0
  <2>2. \A m \in Message : m.id \in Nat
    BY BoundsAssumption DEF Message
  <2>3. msg_seq_id[p] \in Nat
    BY <1>0, BoundsAssumption
  <2>. QED
    BY <2>1, <2>2, <2>3 DEF QueueOK
<1>6. \A s \in Peers, u \in Threads : thread'[s][u].pc = "push" =>
         \A n \in 1 .. Len(send_msgs[s]) : send_msgs[s][n].id < thread'[s][u].id
  BY <1>1, <1>4, <1>5 DEF InOrder
<1>. QED
  BY <1>3, <1>6 DEF InOrder

LEMMA OrderPush ==
  ASSUME TypeInv, InOrder, \A t, u \in Threads : t = u,
         NEW p \in Peers, NEW t \in Threads, Push(p, t),
         \A s \in Peers : Handed(s)' = Handed(s)
  PROVE  InOrder'
<1>. DEFINE m == [key |-> thread[p][t].key, id |-> thread[p][t].id]
            L == Len(send_msgs[p])
<1>0. send_msgs \in [Peers -> Seq(Message)]
  BY DEF TypeInv, TypeOK, SendTypeOK
<1>1. /\ thread[p][t].pc = "push" /\ send_thread' = send_thread
      /\ thread[p][t].call \in {"Send", "SendAsync", "SendAsyncThrottled"}
      /\ m \in Message
      /\ send_msgs' = [send_msgs EXCEPT ![p] = Append(@, m)]
  BY UserAssumption DEF Push, At, TypeInv, CallOK, Message
<1>2. \E pc \in {"sync", "throttle"} : Goto(p, t, pc) \/ Return(p, t)
  BY <1>1 DEF Push
<1>3. /\ thread'[p][t].pc # "push"
      /\ \A s \in Peers, u \in Threads : s # p \/ u # t => thread'[s][u] = thread[s][u]
  BY <1>2, ThreadMoved DEF ThreadPc
<1>4. /\ send_msgs'[p] = Append(send_msgs[p], m)
      /\ \A s \in Peers \ {p} : send_msgs'[s] = send_msgs[s]
  BY <1>0, <1>1
<1>5. m.id = thread[p][t].id
  OBVIOUS
<1>. HIDE DEF m
<1>6. /\ L \in Nat /\ Len(send_msgs'[p]) = L + 1
      /\ \A n \in 1 .. L : send_msgs'[p][n] = send_msgs[p][n]
      /\ send_msgs'[p][L + 1] = m
  BY <1>0, <1>1, <1>4
<1>7. /\ \A k, n \in 1 .. L : k < n => send_msgs[p][k].id < send_msgs[p][n].id
      /\ \A n \in 1 .. L : send_msgs[p][n].id < m.id
  BY <1>1, <1>5 DEF InOrder
<1>. HIDE DEF L
<1>8. \A k, n \in 1 .. (L + 1) : k < n => send_msgs'[p][k].id < send_msgs'[p][n].id
  <2>1. \A k, n \in 1 .. (L + 1) : k < n => k \in 1 .. L /\ (n \in 1 .. L \/ n = L + 1)
    BY <1>6
  <2>. QED
    BY <1>6, <1>7, <2>1
<1>9. \A u \in Threads : thread'[p][u].pc # "push"
  BY <1>3
<1>10. \A s \in Peers : send_thread'[s] = send_thread[s] /\ Handed(s)' = Handed(s)
  BY <1>1
<1>. SUFFICES ASSUME NEW s \in Peers
              PROVE  /\ \A k, n \in 1 .. Len(send_msgs'[s]) :
                          k < n => send_msgs'[s][k].id < send_msgs'[s][n].id
                     /\ \A u \in Threads : thread'[s][u].pc = "push" =>
                          \A n \in 1 .. Len(send_msgs'[s]) :
                            send_msgs'[s][n].id < thread'[s][u].id
  BY <1>10 DEF InOrder
<1>11. CASE s # p
  BY <1>3, <1>4, <1>11 DEF InOrder
<1>12. CASE s = p
  BY <1>6, <1>8, <1>9, <1>12
<1>. QED
  BY <1>11, <1>12

LEMMA OrderSubmit ==
  ASSUME TypeInv, QueueOK, InOrder, NEW p \in Peers, NEW pc, Submit(p, pc)
  PROVE  InOrder'
<1>. DEFINE m == Head(send_msgs[p])
            L == Len(send_msgs[p])
<1>0. /\ ThreadTypeOK /\ msg_seq_id \in [Peers -> 0 .. MaxMsgs]
      /\ send_msgs \in [Peers -> Seq(Message)]
      /\ send_thread \in [Peers -> [pc : {"check", "pop", "window", "drain", "gone"},
                                    id : 0 .. MaxMsgs]]
  BY DEF TypeInv, TypeOK, SendTypeOK
<1>1. /\ thread' = thread /\ send_msgs[p] # <<>>
      /\ send_msgs' = [send_msgs EXCEPT ![p] = Tail(@)]
      /\ send_thread' = [send_thread EXCEPT ![p] = [pc |-> pc, id |-> m.id]]
  BY DEF Submit
<1>2. /\ send_msgs'[p] = Tail(send_msgs[p])
      /\ \A s \in Peers \ {p} : send_msgs'[s] = send_msgs[s]
  BY <1>0, <1>1
<1>3. /\ L \in Nat \ {0} /\ m = send_msgs[p][1]
      /\ Len(send_msgs'[p]) = L - 1
      /\ \A n \in 1 .. (L - 1) : send_msgs'[p][n] = send_msgs[p][n + 1]
  BY <1>0, <1>1, <1>2
<1>4. /\ m \in Message /\ m.id \in 1 .. msg_seq_id[p]
      /\ Handed(p)' = Handed(p) \cup {m.id}
      /\ \A s \in Peers \ {p} : Handed(s)' = Handed(s)
  BY SubmitIds
<1>5. /\ send_thread'[p].id = m.id
      /\ \A s \in Peers \ {p} : send_thread'[s] = send_thread[s]
  BY <1>0, <1>1
<1>. HIDE DEF m
<1>6. /\ \A k, n \in 1 .. L : k < n => send_msgs[p][k].id < send_msgs[p][n].id
      /\ \A u \in Threads : thread[p][u].pc = "push" =>
           \A n \in 1 .. L : send_msgs[p][n].id < thread[p][u].id
  BY DEF InOrder
<1>7. \A n \in 1 .. L : send_msgs[p][n].id \in Nat
  <2>1. \A n \in 1 .. L : send_msgs[p][n] \in Message
    BY <1>0
  <2>2. \A k \in Message : k.id \in Nat
    BY BoundsAssumption DEF Message
  <2>. QED
    BY <2>1, <2>2
<1>8. \A u \in Threads : thread[p][u].id \in Nat
  BY <1>0, BoundsAssumption DEF ThreadTypeOK, ThreadState
<1>9. msg_seq_id[p] \in Nat
  BY <1>0, BoundsAssumption
<1>10. \A i \in 1 .. (m.id - 1) : i \in Handed(p)
  <2>. TAKE i \in 1 .. (m.id - 1)
  <2>1. i \in 1 .. msg_seq_id[p] /\ i < m.id
    BY <1>4, <1>9
  <2>2. \A n \in 1 .. L : send_msgs[p][n].id # i
    <3>. TAKE n \in 1 .. L
    <3>1. 1 \in 1 .. L /\ (n = 1 \/ 1 < n)
      BY <1>3
    <3>2. send_msgs[p][1].id <= send_msgs[p][n].id
      BY <1>6, <1>7, <3>1
    <3>. QED
      BY <1>3, <1>7, <2>1, <3>1, <3>2
  <2>3. \A u \in Threads : thread[p][u].pc = "push" => thread[p][u].id # i
    BY <1>3, <1>6, <1>7, <1>8, <2>1
  <2>. QED
    BY <2>1, <2>2, <2>3 DEF Handed, L
<1>11. 1 .. m.id \subseteq Handed(p)'
  <2>1. \A i \in 1 .. m.id : i \in 1 .. (m.id - 1) \/ i = m.id
    BY <1>4, <1>9
  <2>. QED
    BY <1>4, <1>10, <2>1
<1>12. \A n \in 1 .. (L - 1) : n + 1 \in 1 .. L
  BY <1>3
<1>. SUFFICES ASSUME NEW s \in Peers
              PROVE  /\ \A k, n \in 1 .. Len(send_msgs'[s]) :
                          k < n => send_msgs'[s][k].id < send_msgs'[s][n].id
                     /\ \A u \in Threads : thread'[s][u].pc = "push" =>
                          \A n \in 1 .. Len(send_msgs'[s]) :
                            send_msgs'[s][n].id < thread'[s][u].id
                     /\ 1 .. send_thread'[s].id \subseteq Handed(s)'
  BY DEF InOrder
<1>13. CASE s # p
  BY <1>1, <1>2, <1>4, <1>5, <1>13 DEF InOrder
<1>14. CASE s = p
  <2>1. \A k, n \in 1 .. (L - 1) : k < n => k + 1 < n + 1
    BY <1>3
  <2>2. \A k, n \in 1 .. (L - 1) : k < n => send_msgs'[p][k].id < send_msgs'[p][n].id
    BY <1>3, <1>6, <1>12, <2>1
  <2>3. \A u \in Threads : thread'[p][u].pc = "push" =>
          \A n \in 1 .. (L - 1) : send_msgs'[p][n].id < thread'[p][u].id
    BY <1>1, <1>3, <1>6, <1>12
  <2>4. Len(send_msgs'[p]) = L - 1
    BY <1>3
  <2>. HIDE DEF L
  <2>. QED
    BY <1>5, <1>11, <1>14, <2>2, <2>3, <2>4
<1>. QED
  BY <1>13, <1>14

LEMMA OrderStep ==
  ASSUME \A t, u \in Threads : t = u
  PROVE  OrderInv /\ [Next]_vars => OrderInv'
<1>. SUFFICES ASSUME OrderInv, [Next]_vars PROVE OrderInv'
  OBVIOUS
<1>0. TypeInv /\ QueueOK /\ InOrder /\ IdsInv'
  BY IdsStep DEF OrderInv, IdsInv, PromiseInv
<1>1. ASSUME NEW p \in Peers, NEW t \in Threads,
             UserNext(p, t) \/ CallNext(p, t) \/ CloseNext(p, t)
      PROVE  InOrder'
  <2>1. send_thread' = send_thread
    BY <1>0, <1>1, ThreadPass DEF Passes
  <2>2. Still \/ FetchSeqId(p, t) \/ Push(p, t)
    BY <1>0, <1>1, ThreadKinds
  <2>3. CASE Still
    BY <1>0, <2>1, <2>3, StillIds, OrderKeep
  <2>4. CASE FetchSeqId(p, t)
    BY <1>0, <2>4, FetchIds, OrderFetch
  <2>5. CASE Push(p, t)
    BY <1>0, <2>5, PushIds, OrderPush
  <2>. QED
    BY <2>2, <2>3, <2>4, <2>5
<1>2. ASSUME NEW p \in Peers, NEW x \in tasks[p],
             RequestNext(p, x) \/ TaskNext(p, x) \/ LinkFault(p, x)
      PROVE  InOrder'
  <2>1. send_thread' = send_thread
    BY <1>0, <1>2, RequestPass, TaskPass DEF Passes
  <2>2. Still
    BY <1>2, TaskKinds
  <2>. QED
    BY <1>0, <2>1, <2>2, StillIds, OrderKeep
<1>3. ASSUME NEW p \in Peers, SendThreadNext(p)
      PROVE  InOrder'
  <2>1. CASE SendThreadSubmit(p) \/ SendThreadDrain(p)
    BY <1>0, <2>1, OrderSubmit DEF SendThreadSubmit, SendThreadDrain
  <2>2. CASE \/ SendThreadCheck(p) \/ SendThreadWoken(p) \/ SendThreadWindow(p)
             \/ SendThreadThrows(p) \/ SendThreadDone(p)
    <3>1. UNCHANGED <<msg_seq_id, send_msgs, thread>>
      BY <2>2 DEF SendThreadCheck, SendThreadWoken, SendThreadWindow, SendThreadThrows,
                  SendThreadDone
    <3>2. \A s \in Peers : Handed(s)' = Handed(s)
      BY <3>1 DEF Handed
    <3>3. \A s \in Peers : send_thread'[s].id = send_thread[s].id
      <4>1. \E pc : send_thread' = [send_thread EXCEPT ![p].pc = pc]
        BY <2>2 DEF SendThreadCheck, SendThreadWoken, SendThreadWindow, SendThreadThrows,
                    SendThreadDone
      <4>. QED
        BY <1>0, <4>1 DEF TypeInv, TypeOK, SendTypeOK
    <3>. QED
      BY <1>0, <3>1, <3>2, <3>3 DEF InOrder
  <2>. QED
    BY <1>3, <2>1, <2>2 DEF SendThreadNext
<1>4. CASE UNCHANGED vars
  <2>1. UNCHANGED <<msg_seq_id, send_msgs, thread, send_thread>>
    BY <1>4 DEF vars, sendVars
  <2>2. \A s \in Peers : Handed(s)' = Handed(s)
    BY <2>1 DEF Handed
  <2>3. InOrder'
    BY <1>0, <2>1, <2>2 DEF InOrder
  <2>. QED
    BY <1>0, <2>3 DEF OrderInv
<1>. QED
  BY <1>0, <1>1, <1>2, <1>3, <1>4 DEF Next, OrderInv

LEMMA OrderInit == Init => OrderInv
<1>. SUFFICES ASSUME Init PROVE InOrder
  BY IdsInit DEF OrderInv
<1>. QED
  BY DEF Init, InOrder, Idle

\* A user that sends from one thread is held back only by a full window: the send
\* thread waits on a message only while Window messages are unconsumed.  (Two
\* threads can queue their messages out of order, and the window then closes early.)
THEOREM ChannelWaitsOnlyWhenFull ==
  ASSUME \A t, u \in Threads : t = u
  PROVE  Spec => []WaitsOnlyWhenFull
<1>1. ASSUME OrderInv, NEW p \in Peers, send_thread[p].pc = "window",
             ~ WindowOpen(p, send_thread[p].id)
      PROVE  Cardinality(Handed(p) \ received_ack_ids[p]) >= Window
  <2>. DEFINE A == received_ack_ids[p]
              H == Handed(p)
              c == Cardinality(A)
              i == send_thread[p].id
  <2>0. TypeInv /\ HandedOK /\ InOrder /\ AckMeansConsumed
    BY <1>1 DEF OrderInv, IdsInv, PromiseInv
  <2>1. IsFiniteSet(A) /\ c \in Nat /\ IsFiniteSet(H) /\ i \in Nat
    BY <2>0, AcksFinite, HandedType, BoundsAssumption DEF TypeInv, TypeOK, SendTypeOK
  <2>2. A \subseteq H
    BY <2>0 DEF HandedOK, AckMeansConsumed
  <2>3. 1 .. i \subseteq H
    BY <2>0 DEF InOrder
  <2>4. c + Window <= i
    BY <1>1, <2>1, BoundsAssumption DEF WindowOpen
  <2>. HIDE DEF A, H, c, i
  <2>5. Cardinality(H \ A) = Cardinality(H) - c
    <3>1. H \cap A = A
      BY <2>2
    <3>2. IsFiniteSet(H)
      BY <2>1
    <3>3. Cardinality(H \ A) = Cardinality(H) - Cardinality(H \cap A)
      BY ONLY <3>2, FS_Difference
    <3>. QED
      BY <3>1, <3>3 DEF c
  <2>6. Cardinality(1 .. i) = i
    <3>1. 1 \in Int /\ i \in Int /\ 1 <= i + 1
      BY <2>1
    <3>. QED
      BY <2>1, <3>1, FS_Interval
  <2>7. i <= Cardinality(H)
    BY <2>1, <2>3, <2>6, FS_Subset
  <2>8. Cardinality(H) \in Nat
    BY <2>1, FS_CardinalityType
  <2>9. Cardinality(H \ A) >= Window
    BY <2>1, <2>4, <2>5, <2>7, <2>8, BoundsAssumption
  <2>. QED
    BY <2>9 DEF H, A
<1>2. OrderInv => WaitsOnlyWhenFull
  BY <1>1 DEF WaitsOnlyWhenFull
<1>. QED
  BY <1>2, OrderInit, OrderStep, PTL DEF Spec

-----------------------------------------------------------------------------
(* A pair of channels implements a pair of mailboxes (Mailbox), for every    *)
(* set of threads and keys and every value of the bounds and options.        *)

\* What p has sent or is sending that its peer has not received yet.
Outbox(p) == Numbered(p) \cup Queued(p) \cup UnderWay(p)

\* The messages of p that are anywhere on their way to the peer's user.
Tasked(p) == {[key |-> x.key, id |-> x.id] : x \in {y \in tasks[p] : y.key \in Keys}}
Known(p) == Numbered(p) \cup Queued(p) \cup Tasked(p) \cup recv_msgs[Peer(p)]

\* A user that does not reuse keys has one message of each key on its way.
KeysOnce ==
  ~ ReuseKeys => \A p \in Peers :
    /\ \A m, n \in Known(p) : m.key = n.key => m = n
    /\ \A m \in Known(p) : m.key \in used[p]
    /\ \A t \in Threads : thread[p][t].pc = "number" =>
         /\ thread[p][t].key \in used[p]
         /\ \A m \in Known(p) : m.key # thread[p][t].key
         /\ \A u \in Threads : thread[p][u].pc = "number" /\ thread[p][u].key = thread[p][t].key
                                 => u = t

MailInv == IdsInv /\ KeysOnce

\* Nothing the mailboxes show changes.
MailSame == /\ \A s \in Peers : Inbox(s)' = Inbox(s)
            /\ UNCHANGED <<msg_seq_id, delivered, waiting_finish>>

LEMMA MailStutter == MailSame => UNCHANGED Mail!mailVars
  BY DEF MailSame, Mail!mailVars

\* One message leaves one mailbox.
LEMMA MailDiscard ==
  ASSUME NEW q \in Peers, NEW m \in Inbox(q), waiting_finish[q] \/ ReuseKeys \/ ~ ExitIfAsyncError,
         Inbox(q)' = Inbox(q) \ {m}, \A s \in Peers \ {q} : Inbox(s)' = Inbox(s),
         UNCHANGED <<msg_seq_id, delivered, waiting_finish>>
  PROVE  Mail!MailNext
<1>. DEFINE box == [s \in Peers |-> Inbox(s)]
<1>1. box' = [box EXCEPT ![q] = @ \ {m}]
  OBVIOUS
<1>2. m \in box[q]
  OBVIOUS
<1>3. Mail!Discard(q, m)
  BY <1>1 DEF Mail!Discard
<1>. QED
  BY <1>2, <1>3 DEF Mail!MailNext

LEMMA MailPost ==
  ASSUME NEW p \in Peers, NEW q \in Peers, p # q, NEW k \in Keys,
         msg_seq_id' = [msg_seq_id EXCEPT ![p] = @ + 1],
         Inbox(q)' = Inbox(q) \cup {[key |-> k, id |-> msg_seq_id[p] + 1]},
         \A s \in Peers \ {q} : Inbox(s)' = Inbox(s),
         UNCHANGED <<delivered, waiting_finish>>
  PROVE  Mail!MailNext
<1>. DEFINE box == [s \in Peers |-> Inbox(s)]
<1>1. box' = [box EXCEPT ![q] = @ \cup {[key |-> k, id |-> msg_seq_id[p] + 1]}]
  OBVIOUS
<1>2. Mail!Post(p, q, k)
  BY <1>1 DEF Mail!Post
<1>. QED
  BY <1>2 DEF Mail!MailNext

LEMMA MailTake ==
  ASSUME NEW p \in Peers, NEW m \in Inbox(p),
         delivered' = [delivered EXCEPT ![p] = @ \cup {m.id}],
         Inbox(p)' = Inbox(p) \ {m}, \A s \in Peers \ {p} : Inbox(s)' = Inbox(s),
         UNCHANGED <<msg_seq_id, waiting_finish>>
  PROVE  Mail!MailNext
<1>. DEFINE box == [s \in Peers |-> Inbox(s)]
<1>1. box' = [box EXCEPT ![p] = @ \ {m}] /\ m \in box[p]
  OBVIOUS
<1>2. Mail!Take(p, m)
  BY <1>1 DEF Mail!Take
<1>. QED
  BY <1>1, <1>2 DEF Mail!MailNext

LEMMA MailShut ==
  ASSUME NEW p \in Peers,
         waiting_finish' = [waiting_finish EXCEPT ![p] = TRUE],
         Inbox(p)' \subseteq Inbox(p), \A s \in Peers \ {p} : Inbox(s)' = Inbox(s),
         UNCHANGED <<msg_seq_id, delivered>>
  PROVE  Mail!MailNext
<1>. DEFINE box == [s \in Peers |-> Inbox(s)]
<1>1. box' = [box EXCEPT ![p] = box'[p]] /\ box'[p] \subseteq box[p]
  OBVIOUS
<1>2. Mail!Shut(p)
  BY <1>1 DEF Mail!Shut
<1>. QED
  BY <1>2 DEF Mail!MailNext

-----------------------------------------------------------------------------
(* The messages on their way, step by step. *)

LEMMA UnderWayTasked ==
  ASSUME NEW p \in Peers
  PROVE  /\ UnderWay(p) = {m \in Tasked(p) : m.id \notin received_msg_ids[Peer(p)]}
         /\ UnderWay(p)' = {m \in Tasked(p)' : m.id \notin received_msg_ids'[Peer(p)]}
  BY DEF UnderWay, Tasked

LEMMA StillMail ==
  ASSUME Still
  PROVE  \A s \in Peers : Numbered(s)' = Numbered(s) /\ Queued(s)' = Queued(s)
  BY DEF Still, SamePushers, Numbered, Queued

LEMMA FetchMail ==
  ASSUME TypeInv, NEW p \in Peers, NEW t \in Threads, FetchSeqId(p, t)
  PROVE  LET m == [key |-> thread[p][t].key, id |-> msg_seq_id[p] + 1]
         IN  /\ Numbered(p)' = Numbered(p) \cup {m}
             /\ \A s \in Peers \ {p} : Numbered(s)' = Numbered(s)
             /\ \A s \in Peers : Queued(s)' = Queued(s)
             /\ thread[p][t].pc = "number" /\ thread'[p][t].pc = "push"
             /\ \A s \in Peers, u \in Threads : s # p \/ u # t => thread'[s][u] = thread[s][u]
<1>. DEFINE r == [thread[p][t] EXCEPT !.pc = "push", !.id = msg_seq_id[p] + 1]
<1>0. ThreadTypeOK /\ thread[p][t] \in ThreadState
  BY DEF TypeInv, TypeOK, ThreadTypeOK
<1>1. r.pc = "push" /\ r.id = msg_seq_id[p] + 1 /\ r.key = thread[p][t].key
  BY <1>0 DEF ThreadState
<1>2. thread' = [thread EXCEPT ![p][t] = r]
  BY <1>0 DEF ThreadTypeOK, FetchSeqId
<1>3. send_msgs' = send_msgs /\ thread[p][t].pc = "number"
  BY DEF FetchSeqId, At
<1>. HIDE DEF r
<1>4. /\ thread'[p][t] = r
      /\ \A s \in Peers, u \in Threads : s # p \/ u # t => thread'[s][u] = thread[s][u]
  BY <1>0, <1>2 DEF ThreadTypeOK
<1>5. \A s \in Peers \ {p} : Numbered(s)' = Numbered(s)
  BY <1>4 DEF Numbered
<1>6. Numbered(p)' = Numbered(p) \cup {[key |-> thread[p][t].key, id |-> msg_seq_id[p] + 1]}
  BY <1>1, <1>3, <1>4 DEF Numbered
<1>. QED
  BY <1>1, <1>3, <1>4, <1>5, <1>6 DEF Queued

LEMMA PushMail ==
  ASSUME TypeInv, NEW p \in Peers, NEW t \in Threads, Push(p, t)
  PROVE  /\ \A s \in Peers : Numbered(s)' \cup Queued(s)' = Numbered(s) \cup Queued(s)
         /\ thread'[p][t].pc \in {"sync", "throttle", "idle"}
         /\ \A s \in Peers, u \in Threads : s # p \/ u # t => thread'[s][u] = thread[s][u]
<1>. DEFINE m == [key |-> thread[p][t].key, id |-> thread[p][t].id]
            L == Len(send_msgs[p])
<1>0. send_msgs \in [Peers -> Seq(Message)]
  BY DEF TypeInv, TypeOK, SendTypeOK
<1>1. /\ thread[p][t].pc = "push"
      /\ thread[p][t].call \in {"Send", "SendAsync", "SendAsyncThrottled"}
      /\ m \in Message
      /\ send_msgs' = [send_msgs EXCEPT ![p] = Append(@, m)]
  BY UserAssumption DEF Push, At, TypeInv, CallOK, Message
<1>2. \E pc \in {"sync", "throttle"} : Goto(p, t, pc) \/ Return(p, t)
  BY <1>1 DEF Push
<1>3. /\ thread'[p][t].pc \in {"sync", "throttle", "idle"}
      /\ \A s \in Peers, u \in Threads : s # p \/ u # t => thread'[s][u] = thread[s][u]
  BY <1>2, ThreadMoved DEF ThreadPc
<1>4. /\ send_msgs'[p] = Append(send_msgs[p], m)
      /\ \A s \in Peers \ {p} : send_msgs'[s] = send_msgs[s]
  BY <1>0, <1>1
<1>5. Numbered(p) = Numbered(p)' \cup {m}
  BY <1>1, <1>3 DEF Numbered
<1>6. Queued(p)' = Queued(p) \cup {m}
  <2>. HIDE DEF m
  <2>1. /\ L \in Nat /\ Len(send_msgs'[p]) = L + 1
        /\ \A n \in 1 .. L : send_msgs'[p][n] = send_msgs[p][n]
        /\ send_msgs'[p][L + 1] = m
    BY <1>0, <1>1, <1>4
  <2>2. 1 .. (L + 1) = (1 .. L) \cup {L + 1}
    BY <2>1
  <2>. HIDE DEF L
  <2>3. Queued(p)' = {send_msgs'[p][n] : n \in 1 .. (L + 1)}
    BY <2>1 DEF Queued
  <2>4. Queued(p) = {send_msgs'[p][n] : n \in 1 .. L}
    BY <2>1 DEF Queued, L
  <2>. QED
    BY <2>1, <2>2, <2>3, <2>4
<1>7. \A s \in Peers \ {p} : Numbered(s)' = Numbered(s) /\ Queued(s)' = Queued(s)
  BY <1>3, <1>4 DEF Numbered, Queued
<1>. QED
  BY <1>3, <1>5, <1>6, <1>7

LEMMA SubmitMail ==
  ASSUME IdsInv, NEW p \in Peers, NEW pc, Submit(p, pc)
  PROVE  LET m == Head(send_msgs[p])
         IN  /\ m.id \notin received_msg_ids[Peer(p)]
             /\ Queued(p) = Queued(p)' \cup {m}
             /\ \A s \in Peers \ {p} : Queued(s)' = Queued(s)
             /\ \A s \in Peers : Numbered(s)' = Numbered(s)
             /\ Tasked(p)' = Tasked(p) \cup {m}
             /\ \A s \in Peers \ {p} : Tasked(s)' = Tasked(s)
<1>. DEFINE m == Head(send_msgs[p])
            L == Len(send_msgs[p])
            y == NewTask(p, m.key, m.id)
<1>0. TypeInv /\ QueueOK /\ HandedOK /\ send_msgs \in [Peers -> Seq(Message)]
      /\ tasks \in [Peers -> SUBSET Task]
  BY DEF IdsInv, PromiseInv, TypeInv, TypeOK, SendTypeOK, TaskTypeOK
<1>1. /\ thread' = thread /\ send_msgs[p] # <<>>
      /\ send_msgs' = [send_msgs EXCEPT ![p] = Tail(@)]
      /\ tasks' = [tasks EXCEPT ![p] = @ \cup {y}]
  BY DEF Submit
<1>2. /\ send_msgs'[p] = Tail(send_msgs[p])
      /\ \A s \in Peers \ {p} : send_msgs'[s] = send_msgs[s]
  BY <1>0, <1>1
<1>3. m \in Message /\ m.id \notin Handed(p)
  BY <1>0, SubmitIds
<1>4. m.id \notin received_msg_ids[Peer(p)]
  BY <1>0, <1>3 DEF HandedOK
<1>5. m.key \in Keys /\ y.key = m.key /\ y.id = m.id /\ m = [key |-> m.key, id |-> m.id]
  BY <1>3, NewTaskFresh DEF Message
<1>6. Queued(p) = Queued(p)' \cup {m}
  <2>1. /\ L \in Nat \ {0} /\ m = send_msgs[p][1]
        /\ Len(send_msgs'[p]) = L - 1
        /\ \A n \in 1 .. (L - 1) : send_msgs'[p][n] = send_msgs[p][n + 1]
    BY <1>0, <1>1, <1>2
  <2>. HIDE DEF m, y
  <2>2. /\ 1 \in 1 .. L /\ \A n \in 1 .. (L - 1) : n + 1 \in 1 .. L
        /\ \A n \in 1 .. L : n = 1 \/ (n - 1 \in 1 .. (L - 1) /\ n = (n - 1) + 1)
    BY <2>1
  <2>. HIDE DEF L
  <2>3. Queued(p)' = {send_msgs'[p][n] : n \in 1 .. (L - 1)}
    BY <2>1 DEF Queued
  <2>4. \A n \in 1 .. L : n = 1 \/ send_msgs'[p][n - 1] = send_msgs[p][n]
    BY <2>1, <2>2
  <2>5. Queued(p) = {send_msgs[p][n] : n \in 1 .. L}
    BY DEF Queued, L
  <2>6. ASSUME NEW z \in Queued(p) PROVE z \in Queued(p)' \cup {m}
    <3>1. PICK n \in 1 .. L : z = send_msgs[p][n]
      BY <2>5, <2>6
    <3>. QED
      BY <2>1, <2>2, <2>3, <2>4, <3>1
  <2>7. Queued(p)' \cup {m} \subseteq Queued(p)
    BY <2>1, <2>2, <2>3, <2>5
  <2>. QED
    BY <2>6, <2>7
<1>7. \A s \in Peers \ {p} : Queued(s)' = Queued(s)
  BY <1>2 DEF Queued
<1>8. \A s \in Peers : Numbered(s)' = Numbered(s)
  BY <1>1 DEF Numbered
<1>. HIDE DEF m, y
<1>9. Tasked(p)' = Tasked(p) \cup {m}
  <2>1. tasks'[p] = tasks[p] \cup {y}
    BY <1>0, <1>1
  <2>. QED
    BY <1>5, <2>1 DEF Tasked
<1>10. \A s \in Peers \ {p} : Tasked(s)' = Tasked(s)
  BY <1>0, <1>1 DEF Tasked
<1>. QED
  BY <1>4, <1>6, <1>7, <1>8, <1>9, <1>10 DEF m

\* The tasks of normal messages stay, or one goes to another state.
LEMMA TaskedSame ==
  ASSUME NEW p \in Peers, NEW x, NEW y, y.key = x.key, y.id = x.id,
         x.key \in Keys => x \in tasks[p] /\ y \in tasks'[p],
         \A s \in Peers : \A z \in tasks'[s] :
           z \in tasks[s] \/ (s = p /\ z = y) \/ z.key \notin Keys,
         \A s \in Peers : \A z \in tasks[s] : z \in tasks'[s] \/ (s = p /\ z = x)
  PROVE  \A s \in Peers : Tasked(s)' = Tasked(s)
<1>. TAKE s \in Peers
<1>1. \A z \in tasks'[s] : z.key \in Keys =>
        \E w \in tasks[s] : w.key = z.key /\ w.id = z.id
  OBVIOUS
<1>2. \A z \in tasks[s] : z.key \in Keys =>
        \E w \in tasks'[s] : w.key = z.key /\ w.id = z.id
  OBVIOUS
<1>. QED
  BY <1>1, <1>2 DEF Tasked

-----------------------------------------------------------------------------
(* No key is on its way twice. *)

LEMMA KeysInit == Init => KeysOnce
<1>. SUFFICES ASSUME Init, NEW p \in Peers
              PROVE  Known(p) = {} /\ \A t \in Threads : thread[p][t].pc # "number"
  BY DEF KeysOnce
<1>. QED
  BY PeerOther DEF Init, Known, Numbered, Queued, Tasked, Idle

\* Messages only leave, and no thread starts to send.
LEMMA KeysKeep ==
  ASSUME KeysOnce, used' = used, \A s \in Peers : Known(s)' \subseteq Known(s),
         \A s \in Peers, u \in Threads :
           thread'[s][u].pc = "number" => thread'[s][u] = thread[s][u]
  PROVE  KeysOnce'
  BY DEF KeysOnce

LEMMA KeysCall ==
  ASSUME TypeInv, KeysOnce, NEW p \in Peers, NEW t \in Threads, NEW call \in Calls,
         NEW key \in Keys, CallSend(p, t, call, key), \A s \in Peers : Known(s)' = Known(s)
  PROVE  KeysOnce'
<1>. DEFINE r == [pc |-> "number", call |-> call, key |-> key, id |-> 0]
<1>0. /\ thread \in [Peers -> [Threads -> ThreadState]] /\ used \in [Peers -> SUBSET Keys]
      /\ thread' = [thread EXCEPT ![p][t] = r]
      /\ used' = [used EXCEPT ![p] = @ \cup {key}] /\ (key \in used[p] => ReuseKeys)
  BY DEF TypeInv, TypeOK, ThreadTypeOK, UserTypeOK, CallSend
<1>1. r.key = key
  OBVIOUS
<1>. HIDE DEF r
<1>2. /\ thread'[p][t] = r
      /\ \A s \in Peers, u \in Threads : s # p \/ u # t => thread'[s][u] = thread[s][u]
  BY <1>0
<1>3. used'[p] = used[p] \cup {key} /\ \A s \in Peers \ {p} : used'[s] = used[s]
  BY <1>0
<1>. SUFFICES ASSUME ~ ReuseKeys, NEW s \in Peers
              PROVE  /\ \A m, n \in Known(s)' : m.key = n.key => m = n
                     /\ \A m \in Known(s)' : m.key \in used'[s]
                     /\ \A u \in Threads : thread'[s][u].pc = "number" =>
                          /\ thread'[s][u].key \in used'[s]
                          /\ \A m \in Known(s)' : m.key # thread'[s][u].key
                          /\ \A v \in Threads :
                               /\ thread'[s][v].pc = "number"
                               /\ thread'[s][v].key = thread'[s][u].key
                               => v = u
  BY DEF KeysOnce
<1>4. key \notin used[p]
  BY <1>0
<1>5. /\ \A m, n \in Known(s)' : m.key = n.key => m = n
      /\ \A m \in Known(s)' : m.key \in used'[s] /\ (s = p => m.key # key)
  BY <1>3, <1>4 DEF KeysOnce
<1>6. ASSUME NEW u \in Threads, thread'[s][u].pc = "number", s # p \/ u # t
      PROVE  /\ thread'[s][u].key \in used[s]
             /\ \A m \in Known(s)' : m.key # thread'[s][u].key
             /\ \A v \in Threads : /\ (s # p \/ v # t) /\ thread'[s][v].pc = "number"
                                   /\ thread'[s][v].key = thread'[s][u].key
                                   => v = u
  BY <1>2, <1>6 DEF KeysOnce
<1>7. ASSUME NEW u \in Threads, thread'[s][u].pc = "number"
      PROVE  /\ thread'[s][u].key \in used'[s]
             /\ \A m \in Known(s)' : m.key # thread'[s][u].key
  BY <1>1, <1>2, <1>3, <1>5, <1>6, <1>7
<1>8. ASSUME NEW u \in Threads, NEW v \in Threads, thread'[s][u].pc = "number",
             thread'[s][v].pc = "number", thread'[s][v].key = thread'[s][u].key
      PROVE  v = u
  BY <1>1, <1>2, <1>4, <1>6, <1>8
<1>. QED
  BY <1>5, <1>7, <1>8

LEMMA KeysFetch ==
  ASSUME TypeInv, KeysOnce, NEW p \in Peers, NEW t \in Threads, FetchSeqId(p, t),
         Known(p)' = Known(p) \cup {[key |-> thread[p][t].key, id |-> msg_seq_id[p] + 1]},
         \A s \in Peers \ {p} : Known(s)' = Known(s)
  PROVE  KeysOnce'
<1>. DEFINE m0 == [key |-> thread[p][t].key, id |-> msg_seq_id[p] + 1]
<1>0. used' = used
  BY DEF FetchSeqId, userVars
<1>1. /\ thread[p][t].pc = "number" /\ thread'[p][t].pc = "push"
      /\ \A s \in Peers, u \in Threads : s # p \/ u # t => thread'[s][u] = thread[s][u]
  BY FetchMail
<1>2. m0.key = thread[p][t].key /\ Known(p)' = Known(p) \cup {m0}
  OBVIOUS
<1>. HIDE DEF m0
<1>. SUFFICES ASSUME ~ ReuseKeys, NEW s \in Peers
              PROVE  /\ \A m, n \in Known(s)' : m.key = n.key => m = n
                     /\ \A m \in Known(s)' : m.key \in used'[s]
                     /\ \A u \in Threads : thread'[s][u].pc = "number" =>
                          /\ thread'[s][u].key \in used'[s]
                          /\ \A m \in Known(s)' : m.key # thread'[s][u].key
                          /\ \A v \in Threads :
                               /\ thread'[s][v].pc = "number"
                               /\ thread'[s][v].key = thread'[s][u].key
                               => v = u
  BY DEF KeysOnce
<1>3. CASE s # p
  BY <1>0, <1>1, <1>3 DEF KeysOnce
<1>4. CASE s = p
  <2>1. /\ \A m \in Known(p) : m.key # m0.key /\ m0.key \in used[p]
        /\ m0.key \in used[p]
        /\ \A u \in Threads : u # t /\ thread[p][u].pc = "number" => thread[p][u].key # m0.key
    BY <1>1, <1>2 DEF KeysOnce
  <2>2. /\ \A m, n \in Known(p)' : m.key = n.key => m = n
        /\ \A m \in Known(p)' : m.key \in used[p]
    BY <1>2, <2>1 DEF KeysOnce
  <2>3. ASSUME NEW u \in Threads, thread'[p][u].pc = "number"
        PROVE  /\ u # t /\ thread'[p][u] = thread[p][u]
               /\ thread[p][u].key \in used[p]
               /\ \A m \in Known(p)' : m.key # thread[p][u].key
    BY <1>1, <1>2, <2>1, <2>3 DEF KeysOnce
  <2>4. ASSUME NEW u \in Threads, NEW v \in Threads, thread'[p][u].pc = "number",
               thread'[p][v].pc = "number", thread'[p][v].key = thread'[p][u].key
        PROVE  v = u
    BY <2>3, <2>4 DEF KeysOnce
  <2>. QED
    BY <1>0, <1>4, <2>2, <2>3, <2>4
<1>. QED
  BY <1>3, <1>4

-----------------------------------------------------------------------------
(* Every step is a step of the mailboxes. *)

MailMoves == KeysOnce' /\ (Mail!MailNext \/ UNCHANGED Mail!mailVars)

LEMMA ThreadNumber ==
  ASSUME TypeInv, NEW p \in Peers, NEW t \in Threads,
         \/ \E key \in Keys : CallRecv(p, t, key)
         \/ StopReceivingAndAckUnreadMsgs(p, t) \/ AbortFlag(p, t) \/ StopServer(p, t)
         \/ CallNext(p, t) \/ CloseNext(p, t)
  PROVE  \A s \in Peers, u \in Threads :
           thread'[s][u].pc = "number" => thread'[s][u] = thread[s][u]
<1>0. ThreadTypeOK /\ thread[p][t] \in ThreadState
  BY DEF TypeInv, TypeOK, ThreadTypeOK
<1>1. ASSUME NEW key \in Keys, CallRecv(p, t, key)
      PROVE  \A s \in Peers, u \in Threads :
               thread'[s][u].pc = "number" => thread'[s][u] = thread[s][u]
  BY <1>0, <1>1 DEF CallRecv, ThreadTypeOK
<1>2. CASE RecvTake(p, t)
  <2>1. PICK m \in recv_msgs[p] :
           thread' = [thread EXCEPT ![p][t].pc = "ack", ![p][t].id = m.id]
    BY <1>2 DEF RecvTake
  <2>. DEFINE r == [thread[p][t] EXCEPT !.pc = "ack", !.id = m.id]
  <2>2. r.pc = "ack"
    BY <1>0 DEF ThreadState
  <2>3. thread' = [thread EXCEPT ![p][t] = r]
    BY <1>0, <2>1 DEF ThreadTypeOK
  <2>. HIDE DEF r
  <2>. QED
    BY <1>0, <2>2, <2>3 DEF ThreadTypeOK
<1>3. CASE FetchSeqId(p, t)
  BY <1>3, FetchMail
<1>4. CASE Push(p, t)
  BY <1>4, PushMail
<1>5. CASE StopServer(p, t)
  BY <1>5 DEF StopServer
<1>6. CASE \/ SendReturns(p, t) \/ ThrottledReturns(p, t) \/ RecvThrows(p, t) \/ RecvAck(p, t)
           \/ SendFin(p, t) \/ StopReceivingAndAckUnreadMsgs(p, t)
           \/ WaitForFin(p, t) \/ WaitForFlyingMsg(p, t) \/ JoinSendThread(p, t)
           \/ WaitAllSendFinished(p, t) \/ WaitForFlyingAck(p, t) \/ AbortJoin(p, t)
           \/ StopSendThread(p, t) \/ AbortStop(p, t) \/ AbortFlag(p, t)
  <2>1. \E pc \in ThreadPc \ {"number"} : Goto(p, t, pc) \/ Return(p, t)
    BY <1>6 DEF SendReturns, ThrottledReturns, RecvThrows, RecvAck, SendFin,
                StopReceivingAndAckUnreadMsgs, WaitForFin, WaitForFlyingMsg, JoinSendThread,
                WaitAllSendFinished, WaitForFlyingAck, AbortJoin, StopSendThread, AbortStop,
                AbortFlag, WaitStep, ThreadPc
  <2>2. /\ thread'[p][t].pc # "number"
        /\ \A s \in Peers, u \in Threads : s # p \/ u # t => thread'[s][u] = thread[s][u]
    BY <2>1, ThreadMoved
  <2>. QED
    BY <2>2
<1>. QED
  BY <1>1, <1>2, <1>3, <1>4, <1>5, <1>6 DEF CallNext, CloseNext

\* Boxes when nothing is handed out, received or dropped by the tasks.
LEMMA BoxesSame ==
  ASSUME \A s \in Peers : Numbered(s)' \cup Queued(s)' = Numbered(s) \cup Queued(s),
         \A s \in Peers : Tasked(s)' = Tasked(s), received_msg_ids' = received_msg_ids
  PROVE  /\ \A s \in Peers : Inbox(s)' = Outbox(Peer(s)) \cup recv_msgs'[s]
         /\ \A s \in Peers : Inbox(s) = Outbox(Peer(s)) \cup recv_msgs[s]
         /\ recv_msgs' = recv_msgs =>
              \A s \in Peers : Inbox(s)' = Inbox(s) /\ Known(s)' = Known(s)
         /\ (\A s \in Peers : recv_msgs'[s] \subseteq recv_msgs[s]) =>
              \A s \in Peers : Known(s)' \subseteq Known(s)
<1>1. \A s \in Peers : UnderWay(s)' = UnderWay(s)
  BY UnderWayTasked
<1>2. \A s \in Peers : Outbox(s)' = Outbox(s)
  BY <1>1 DEF Outbox
<1>3. \A s \in Peers : Inbox(s)' = Outbox(Peer(s))' \cup recv_msgs'[s]
  BY DEF Inbox, Outbox
<1>4. \A s \in Peers : Inbox(s) = Outbox(Peer(s)) \cup recv_msgs[s]
  BY DEF Inbox, Outbox
<1>5. \A s \in Peers : Outbox(Peer(s))' = Outbox(Peer(s))
  BY <1>2, PeerOther
<1>6. \A s \in Peers : Inbox(s)' = Outbox(Peer(s)) \cup recv_msgs'[s]
  BY <1>3, <1>5
<1>7. (\A s \in Peers : recv_msgs'[s] \subseteq recv_msgs[s]) =>
              \A s \in Peers : Known(s)' \subseteq Known(s)
  BY PeerOther DEF Known
<1>8. recv_msgs' = recv_msgs => \A s \in Peers : Known(s)' = Known(s)
  BY DEF Known
<1>. QED
  BY <1>4, <1>6, <1>7, <1>8

\* The ids of messages that were handed out are with no thread and not queued.
LEMMA HandedElsewhere ==
  ASSUME NEW p \in Peers, NEW i \in Handed(p)
  PROVE  \A m \in Numbered(p) \cup Queued(p) : m.id # i
  BY DEF Handed, Numbered, Queued

LEMMA ThreadMail ==
  ASSUME MailInv, NEW p \in Peers, NEW t \in Threads,
         UserNext(p, t) \/ CallNext(p, t) \/ CloseNext(p, t)
  PROVE  MailMoves
<1>0. TypeInv /\ KeysOnce /\ HandedOK /\ UnreadOK
  BY DEF MailInv, IdsInv, PromiseInv
<1>1. received_msg_ids' = received_msg_ids
  BY <1>0, ThreadPass
<1>2. \A s \in Peers : Tasked(s)' = Tasked(s)
  BY <1>0, ThreadAdds DEF Tasked
<1>3. Still \/ FetchSeqId(p, t) \/ Push(p, t)
  BY <1>0, ThreadKinds
<1>4. CASE FetchSeqId(p, t)
  <2>. DEFINE m == [key |-> thread[p][t].key, id |-> msg_seq_id[p] + 1]
              q == Peer(p)
  <2>1. /\ Numbered(p)' = Numbered(p) \cup {m}
        /\ \A s \in Peers \ {p} : Numbered(s)' = Numbered(s)
        /\ \A s \in Peers : Queued(s)' = Queued(s)
    BY <1>0, <1>4, FetchMail
  <2>2. /\ UNCHANGED <<delivered, waiting_finish, recv_msgs>>
        /\ msg_seq_id' = [msg_seq_id EXCEPT ![p] = @ + 1]
        /\ thread[p][t].key \in Keys
    BY <1>0, <1>4 DEF FetchSeqId, At, userVars, ctrlVars, recvVars, TypeInv, CallOK
  <2>3. Known(p)' = Known(p) \cup {m} /\ \A s \in Peers \ {p} : Known(s)' = Known(s)
    BY <1>2, <2>1, <2>2 DEF Known
  <2>4. KeysOnce'
    BY <1>0, <1>4, <2>3, KeysFetch
  <2>5. ASSUME NEW s \in Peers PROVE UnderWay(s)' = UnderWay(s)
    <3>1. Tasked(s)' = Tasked(s)
      BY <1>2
    <3>. QED
      BY <1>1, <3>1, UnderWayTasked
  <2>6. q \in Peers /\ q # p /\ Peer(q) = p /\ \A s \in Peers \ {q} : Peer(s) \in Peers \ {p}
    BY PeerOther
  <2>. HIDE DEF m, q
  <2>7. Inbox(q)' = Inbox(q) \cup {m}
    BY <2>1, <2>2, <2>5, <2>6 DEF Inbox
  <2>8. \A s \in Peers \ {q} : Inbox(s)' = Inbox(s)
    BY <2>1, <2>2, <2>5, <2>6 DEF Inbox
  <2>9. Mail!MailNext
    BY <2>2, <2>6, <2>7, <2>8, MailPost DEF m
  <2>. QED
    BY <2>4, <2>9 DEF MailMoves
<1>5. CASE Push(p, t)
  <2>1. \A s \in Peers : Numbered(s)' \cup Queued(s)' = Numbered(s) \cup Queued(s)
    BY <1>0, <1>5, PushMail
  <2>2. UNCHANGED <<msg_seq_id, delivered, waiting_finish, recv_msgs, used>>
    BY <1>5 DEF Push, userVars, ctrlVars, recvVars
  <2>3. \A s \in Peers : Inbox(s)' = Inbox(s) /\ Known(s)' = Known(s)
    BY <1>1, <1>2, <2>1, <2>2, BoxesSame
  <2>4. KeysOnce'
    BY <1>0, <1>5, <2>2, <2>3, KeysKeep, ThreadNumber DEF CallNext
  <2>. QED
    BY <2>2, <2>3, <2>4, MailStutter DEF MailMoves, MailSame
<1>6. CASE Still
  <2>0. \A s \in Peers : Numbered(s)' \cup Queued(s)' = Numbered(s) \cup Queued(s)
    BY <1>6, StillMail
  <2>1. /\ \A s \in Peers : Inbox(s)' = Outbox(Peer(s)) \cup recv_msgs'[s]
        /\ \A s \in Peers : Inbox(s) = Outbox(Peer(s)) \cup recv_msgs[s]
        /\ recv_msgs' = recv_msgs => \A s \in Peers : Inbox(s)' = Inbox(s) /\ Known(s)' = Known(s)
        /\ (\A s \in Peers : recv_msgs'[s] \subseteq recv_msgs[s]) =>
              \A s \in Peers : Known(s)' \subseteq Known(s)
    BY <1>1, <1>2, <2>0, BoxesSame
  <2>2. msg_seq_id' = msg_seq_id
    BY <1>6 DEF Still
  <2>3. ASSUME NEW call \in Calls, NEW key \in Keys, CallSend(p, t, call, key) PROVE MailMoves
    <3>1. UNCHANGED <<delivered, waiting_finish, recv_msgs>>
      BY <2>3 DEF CallSend, ctrlVars, recvVars
    <3>2. KeysOnce'
      BY <1>0, <2>1, <2>3, <3>1, KeysCall
    <3>. QED
      BY <2>1, <2>2, <3>1, <3>2, MailStutter DEF MailMoves, MailSame
  <2>4. CASE RecvTake(p, t)
    <3>1. PICK m \in recv_msgs[p] :
            /\ recv_msgs' = [recv_msgs EXCEPT ![p] = @ \ {m}]
            /\ delivered' = [delivered EXCEPT ![p] = @ \cup {m.id}]
      BY <2>4 DEF RecvTake
    <3>2. UNCHANGED <<waiting_finish, used>>
      BY <2>4 DEF RecvTake, ctrlVars
    <3>3. recv_msgs'[p] = recv_msgs[p] \ {m} /\ \A s \in Peers \ {p} : recv_msgs'[s] = recv_msgs[s]
      BY <1>0, <3>1 DEF TypeInv, TypeOK, RecvTypeOK
    <3>4. KeysOnce'
      BY <1>0, <2>1, <2>4, <3>2, <3>3, KeysKeep, ThreadNumber DEF CallNext
    <3>5. m \notin Outbox(Peer(p))
      <4>1. Peer(p) \in Peers /\ Peer(Peer(p)) = p
        BY PeerOther
      <4>2. m.id \in received_msg_ids[p]
        BY <1>0 DEF UnreadOK
      <4>3. m.id \in Handed(Peer(p))
        BY <1>0, <4>1, <4>2 DEF HandedOK
      <4>4. m \notin Numbered(Peer(p)) \cup Queued(Peer(p))
        BY <4>1, <4>3, HandedElsewhere
      <4>5. m \notin UnderWay(Peer(p))
        BY <4>1, <4>2, UnderWayTasked
      <4>. QED
        BY <4>4, <4>5 DEF Outbox
    <3>6. /\ m \in Inbox(p) /\ Inbox(p)' = Inbox(p) \ {m}
          /\ \A s \in Peers \ {p} : Inbox(s)' = Inbox(s)
      BY <2>1, <3>3, <3>5
    <3>7. Mail!MailNext
      BY <2>2, <3>1, <3>2, <3>6, MailTake
    <3>. QED
      BY <3>4, <3>7 DEF MailMoves
  <2>5. CASE StopReceivingAndAckUnreadMsgs(p, t)
    <3>1. /\ recv_msgs' = [recv_msgs EXCEPT ![p] = {}]
          /\ waiting_finish' = [waiting_finish EXCEPT ![p] = TRUE]
          /\ UNCHANGED <<used, delivered>>
      BY <2>5 DEF StopReceivingAndAckUnreadMsgs, userVars
    <3>2. recv_msgs'[p] = {} /\ \A s \in Peers \ {p} : recv_msgs'[s] = recv_msgs[s]
      BY <1>0, <3>1 DEF TypeInv, TypeOK, RecvTypeOK
    <3>3. KeysOnce'
      BY <1>0, <2>1, <2>5, <3>1, <3>2, KeysKeep, ThreadNumber
    <3>4. Inbox(p)' \subseteq Inbox(p) /\ \A s \in Peers \ {p} : Inbox(s)' = Inbox(s)
      BY <2>1, <3>2
    <3>5. Mail!MailNext
      BY <2>2, <3>1, <3>4, MailShut
    <3>. QED
      BY <3>3, <3>5 DEF MailMoves
  <2>6. CASE \/ \E key \in Keys : CallRecv(p, t, key)
             \/ AbortFlag(p, t) \/ StopServer(p, t)
             \/ SendReturns(p, t) \/ ThrottledReturns(p, t) \/ RecvThrows(p, t) \/ RecvAck(p, t)
             \/ AbortStop(p, t) \/ AbortJoin(p, t) \/ CloseNext(p, t)
    <3>1. UNCHANGED <<delivered, waiting_finish, recv_msgs, used>>
      BY <2>6 DEF CallRecv, AbortFlag, StopServer, SendReturns, ThrottledReturns, RecvThrows,
                  RecvAck, AbortStop, AbortJoin, CloseNext, SendFin, WaitForFin,
                  WaitForFlyingMsg, StopSendThread, JoinSendThread, WaitAllSendFinished,
                  WaitForFlyingAck, WaitStep, userVars, ctrlVars, recvVars
    <3>2. \A s \in Peers, u \in Threads :
            thread'[s][u].pc = "number" => thread'[s][u] = thread[s][u]
      BY <1>0, <2>6, ThreadNumber DEF CallNext
    <3>3. KeysOnce'
      BY <1>0, <2>1, <3>1, <3>2, KeysKeep
    <3>. QED
      BY <2>1, <2>2, <3>1, <3>3, MailStutter DEF MailMoves, MailSame
  <2>. QED
    BY <1>4, <1>5, <2>3, <2>4, <2>5, <2>6 DEF UserNext, CallNext
<1>. QED
  BY <1>3, <1>4, <1>5, <1>6

LEMMA SendThreadMail ==
  ASSUME MailInv, NEW p \in Peers, SendThreadNext(p)
  PROVE  MailMoves
<1>0. IdsInv /\ KeysOnce
  BY DEF MailInv
<1>1. CASE SendThreadSubmit(p) \/ SendThreadDrain(p)
  <2>. DEFINE m == Head(send_msgs[p])
  <2>1. PICK pc \in {"window", "drain"} : Submit(p, pc)
    BY <1>1 DEF SendThreadSubmit, SendThreadDrain
  <2>2. /\ m.id \notin received_msg_ids[Peer(p)]
        /\ Queued(p) = Queued(p)' \cup {m}
        /\ \A s \in Peers \ {p} : Queued(s)' = Queued(s)
        /\ \A s \in Peers : Numbered(s)' = Numbered(s)
        /\ Tasked(p)' = Tasked(p) \cup {m}
        /\ \A s \in Peers \ {p} : Tasked(s)' = Tasked(s)
    BY <1>0, <2>1, SubmitMail
  <2>3. /\ UNCHANGED <<msg_seq_id, delivered, waiting_finish, recv_msgs, used, thread>>
        /\ received_msg_ids' = received_msg_ids
    BY <2>1 DEF Submit, userVars, ctrlVars, recvVars
  <2>. HIDE DEF m
  <2>4. UnderWay(p)' = UnderWay(p) \cup {m}
    BY <2>2, <2>3, UnderWayTasked
  <2>5. ASSUME NEW s \in Peers \ {p} PROVE UnderWay(s)' = UnderWay(s)
    <3>1. s \in Peers /\ Tasked(s)' = Tasked(s)
      BY <2>2
    <3>2. /\ UnderWay(s) = {n \in Tasked(s) : n.id \notin received_msg_ids[Peer(s)]}
          /\ UnderWay(s)' = {n \in Tasked(s)' : n.id \notin received_msg_ids'[Peer(s)]}
      BY <3>1, UnderWayTasked
    <3>. QED
      BY <2>3, <3>1, <3>2
  <2>6. \A s \in Peers : Outbox(s)' = Outbox(s)
    BY <2>2, <2>4, <2>5 DEF Outbox
  <2>7. \A s \in Peers : Inbox(s)' = Inbox(s)
    <3>1. \A s \in Peers : Inbox(s)' = Outbox(Peer(s))' \cup recv_msgs'[s]
      BY DEF Inbox, Outbox
    <3>2. \A s \in Peers : Inbox(s) = Outbox(Peer(s)) \cup recv_msgs[s]
      BY DEF Inbox, Outbox
    <3>. QED
      BY <2>3, <2>6, <3>1, <3>2, PeerOther
  <2>8. \A s \in Peers : Known(s)' = Known(s)
    BY <2>2, <2>3 DEF Known
  <2>9. KeysOnce'
    BY <1>0, <2>3, <2>8, KeysKeep
  <2>. QED
    BY <2>3, <2>7, <2>9, MailStutter DEF MailMoves, MailSame
<1>2. CASE \/ SendThreadCheck(p) \/ SendThreadWoken(p) \/ SendThreadWindow(p)
           \/ SendThreadThrows(p) \/ SendThreadDone(p)
  <2>1. /\ UNCHANGED <<msg_seq_id, send_msgs, thread, tasks, received_msg_ids, recv_msgs>>
        /\ UNCHANGED <<delivered, waiting_finish, used>>
    BY <1>2 DEF SendThreadCheck, SendThreadWoken, SendThreadWindow, SendThreadThrows,
                SendThreadDone, taskVars, recvVars, userVars, ctrlVars
  <2>2. \A s \in Peers : Inbox(s)' = Inbox(s) /\ Known(s)' = Known(s)
    BY <2>1 DEF Inbox, Known, Numbered, Queued, Tasked, UnderWay
  <2>3. KeysOnce'
    BY <1>0, <2>1, <2>2, KeysKeep
  <2>. QED
    BY <2>1, <2>2, <2>3, MailStutter DEF MailMoves, MailSame
<1>. QED
  BY <1>1, <1>2 DEF SendThreadNext

\* A message that is under way leaves the tasks' care: it is received or dropped.
LEMMA MessageLeaves ==
  ASSUME IdsInv, NEW p \in Peers, NEW x \in tasks[p], x.key \in Keys,
         x.id \notin received_msg_ids[Peer(p)],
         \A s \in Peers : Numbered(s)' = Numbered(s) /\ Queued(s)' = Queued(s),
         \A s \in Peers \ {p} : UnderWay(s)' = UnderWay(s),
         UnderWay(p)' = UnderWay(p) \ {[key |-> x.key, id |-> x.id]}
  PROVE  LET q == Peer(p)
             m == [key |-> x.key, id |-> x.id]
         IN  /\ m \in Inbox(q)
             /\ Inbox(q)' = (Outbox(p) \ {m}) \cup recv_msgs'[q]
             /\ Inbox(q) = Outbox(p) \cup recv_msgs[q]
             /\ m \notin recv_msgs[q]
             /\ \A s \in Peers \ {q} : recv_msgs'[s] = recv_msgs[s] => Inbox(s)' = Inbox(s)
<1>. DEFINE q == Peer(p)
            m == [key |-> x.key, id |-> x.id]
<1>0. TypeInv /\ HandedOK /\ UnreadOK
  BY DEF IdsInv, PromiseInv
<1>1. q \in Peers /\ q # p /\ Peer(q) = p /\ \A s \in Peers \ {q} : Peer(s) \in Peers \ {p}
  BY PeerOther
<1>2. m \in Tasked(p) /\ m.id = x.id
  BY DEF Tasked
<1>3. m \in UnderWay(p)
  BY <1>2, UnderWayTasked
<1>4. x.id \in Handed(p)
  BY <1>0 DEF HandedOK
<1>5. m \notin Numbered(p) \cup Queued(p)
  BY <1>2, <1>4, HandedElsewhere
<1>6. m \notin recv_msgs[q]
  BY <1>0, <1>1, <1>2 DEF UnreadOK
<1>. HIDE DEF m, q
<1>7. Outbox(p)' = Outbox(p) \ {m}
  BY <1>5 DEF Outbox, m
<1>8. \A s \in Peers \ {p} : Outbox(s)' = Outbox(s)
  BY DEF Outbox
<1>9. \A s \in Peers : /\ Inbox(s)' = Outbox(Peer(s))' \cup recv_msgs'[s]
                       /\ Inbox(s) = Outbox(Peer(s)) \cup recv_msgs[s]
  BY DEF Inbox, Outbox
<1>10. m \in Outbox(p)
  BY <1>3 DEF Outbox
<1>11. /\ m \in Inbox(q) /\ Inbox(q)' = (Outbox(p) \ {m}) \cup recv_msgs'[q]
       /\ Inbox(q) = Outbox(p) \cup recv_msgs[q]
  <2>1. /\ Inbox(q)' = Outbox(p)' \cup recv_msgs'[q]
        /\ Inbox(q) = Outbox(p) \cup recv_msgs[q]
    BY <1>1, <1>9
  <2>. QED
    BY <1>7, <1>10, <2>1
<1>12. \A s \in Peers \ {q} : recv_msgs'[s] = recv_msgs[s] => Inbox(s)' = Inbox(s)
  BY <1>1, <1>8, <1>9
<1>. QED
  BY <1>6, <1>11, <1>12 DEF m, q

\* Each message has one task.
LEMMA OneTask ==
  ASSUME IdsInv, NEW p \in Peers, NEW x \in tasks[p], x.key \in Keys
  PROVE  \A n \in Tasked(p) : n.id = x.id => n = [key |-> x.key, id |-> x.id]
  BY DEF IdsInv, HandedOK, Tasked

LEMMA RequestMail ==
  ASSUME MailInv, NEW p \in Peers, NEW x \in tasks[p], RequestNext(p, x)
  PROVE  MailMoves
<1>. DEFINE q == Peer(p)
            a == NewTask(q, kAckKey, x.id)
            m == [key |-> x.key, id |-> x.id]
<1>0. IdsInv /\ TypeInv /\ KeysOnce /\ UnreadOK /\ x \in Task /\ tasks \in [Peers -> SUBSET Task]
  BY DEF MailInv, IdsInv, PromiseInv, TypeInv, TypeOK, TaskTypeOK
<1>1. q \in Peers /\ q # p /\ Peer(q) = p
  BY PeerOther
<1>2. /\ Served(x).key = x.key /\ Served(x).id = x.id
      /\ Refused(x).key = x.key /\ Refused(x).id = x.id
      /\ a.key \notin Keys
  BY <1>0, <1>1, TaskStates, NewTaskFresh, KeysAssumption
<1>3. \A s \in Peers : Tasked(s)' = Tasked(s)
  <2>1. \/ tasks' = Replaced(p, x, Served(x)) \/ tasks' = Replaced(p, x, Refused(x))
        \/ tasks' = [tasks EXCEPT ![p] = (@ \ {x}) \cup {Served(x)}, ![q] = @ \cup {a}]
    BY DEF RequestNext, OnRequestAborting, OnAck, OnFin, OnDuplicate, OnNormalMessage,
           OnKeyClash, OnAutoAck
  <2>2. PICK y \in {Served(x), Refused(x)} :
          \/ tasks' = [tasks EXCEPT ![p] = (@ \ {x}) \cup {y}]
          \/ tasks' = [tasks EXCEPT ![p] = (@ \ {x}) \cup {y}, ![q] = @ \cup {a}]
    BY <2>1 DEF Replaced
  <2>3. y.key = x.key /\ y.id = x.id
    BY <1>2, <2>2
  <2>. HIDE DEF a, q
  <2>4. y \in tasks'[p]
    BY <1>0, <1>1, <2>2
  <2>5. \A s \in Peers : \A z \in tasks'[s] :
           z \in tasks[s] \/ (s = p /\ z = y) \/ z.key \notin Keys
    BY <1>0, <1>1, <1>2, <2>2
  <2>6. \A s \in Peers : \A z \in tasks[s] : z \in tasks'[s] \/ (s = p /\ z = x)
    BY <1>0, <1>1, <2>2
  <2>. QED
    BY <2>3, <2>4, <2>5, <2>6, TaskedSame
<1>4. /\ UNCHANGED <<msg_seq_id, delivered, waiting_finish, used, thread, send_msgs>>
      /\ \A s \in Peers : Numbered(s)' = Numbered(s) /\ Queued(s)' = Queued(s)
  BY DEF RequestNext, OnRequestAborting, OnAck, OnFin, OnDuplicate, OnNormalMessage,
         OnKeyClash, OnAutoAck, sendVars, userVars, ctrlVars, Numbered, Queued
<1>5. CASE \/ OnRequestAborting(p, x) \/ OnAck(p, x) \/ OnFin(p, x) \/ OnDuplicate(p, x)
  <2>1. UNCHANGED <<recv_msgs, received_msg_ids>>
    BY <1>5 DEF OnRequestAborting, OnAck, OnFin, OnDuplicate, recvVars
  <2>2. \A s \in Peers : Inbox(s)' = Inbox(s) /\ Known(s)' = Known(s)
    BY <1>3, <1>4, <2>1, BoxesSame
  <2>3. KeysOnce'
    BY <1>0, <1>4, <2>2, KeysKeep
  <2>. QED
    BY <1>4, <2>2, <2>3, MailStutter DEF MailMoves, MailSame
<1>6. CASE OnNormalMessage(p, x) \/ OnKeyClash(p, x) \/ OnAutoAck(p, x)
  <2>1. /\ x.key \in Keys /\ x.id \notin received_msg_ids[q]
        /\ received_msg_ids' = [received_msg_ids EXCEPT ![q] = @ \cup {x.id}]
    BY <1>6 DEF OnNormalMessage, OnKeyClash, OnAutoAck, IsDuplicate
  <2>2. /\ received_msg_ids'[q] = received_msg_ids[q] \cup {x.id}
        /\ received_msg_ids'[p] = received_msg_ids[p]
        /\ \A s \in Peers \ {p} : s = q
    <3>1. \A s \in Peers \ {p} : s = q
      BY <1>1, PeersAssumption
    <3>. HIDE DEF q
    <3>. QED
      BY <1>0, <1>1, <2>1, <3>1 DEF TypeInv, TypeOK, RecvTypeOK
  <2>3. m \in Tasked(p) /\ m.id = x.id /\ \A n \in Tasked(p) : n.id = x.id => n = m
    BY <1>0, <2>1, OneTask DEF Tasked
  <2>4. UnderWay(q)' = UnderWay(q)
    BY <1>1, <1>3, <2>2, UnderWayTasked
  <2>. HIDE DEF m
  <2>5. UnderWay(p)' = UnderWay(p) \ {m}
    <3>1. Tasked(p)' = Tasked(p) /\ received_msg_ids'[Peer(p)] = received_msg_ids[Peer(p)] \cup {x.id}
      BY <1>3, <2>2
    <3>. QED
      BY <2>3, <3>1, UnderWayTasked
  <2>6. /\ m \in Inbox(q)
        /\ Inbox(q)' = (Outbox(p) \ {m}) \cup recv_msgs'[q]
        /\ Inbox(q) = Outbox(p) \cup recv_msgs[q]
        /\ m \notin recv_msgs[q]
        /\ \A s \in Peers \ {q} : recv_msgs'[s] = recv_msgs[s] => Inbox(s)' = Inbox(s)
    BY <1>0, <1>4, <2>1, <2>2, <2>4, <2>5, MessageLeaves DEF m
  <2>7. CASE OnNormalMessage(p, x)
    <3>1. recv_msgs' = [recv_msgs EXCEPT ![q] = @ \cup {m}]
      BY <2>7 DEF OnNormalMessage, m
    <3>2. /\ recv_msgs'[q] = recv_msgs[q] \cup {m}
          /\ \A s \in Peers \ {q} : recv_msgs'[s] = recv_msgs[s]
      BY <1>0, <1>1, <3>1 DEF TypeInv, TypeOK, RecvTypeOK
    <3>3. \A s \in Peers : Inbox(s)' = Inbox(s)
      BY <2>6, <3>2
    <3>4. Known(p)' \subseteq Known(p)
      BY <1>3, <1>4, <2>3, <3>2 DEF Known
    <3>5. Known(q)' \subseteq Known(q)
      BY <1>1, <1>3, <1>4, <3>2 DEF Known
    <3>6. KeysOnce'
      BY <1>0, <1>4, <2>2, <3>4, <3>5, KeysKeep
    <3>. QED
      BY <1>4, <3>3, <3>6, MailStutter DEF MailMoves, MailSame
  <2>8. CASE OnKeyClash(p, x) \/ OnAutoAck(p, x)
    <3>1. recv_msgs' = recv_msgs
      BY <2>8 DEF OnKeyClash, OnAutoAck
    <3>2. Inbox(q)' = Inbox(q) \ {m} /\ \A s \in Peers \ {q} : Inbox(s)' = Inbox(s)
      BY <2>6, <3>1
    <3>3. KeysOnce'
      <4>1. \A s \in Peers : Known(s)' = Known(s)
        BY <1>3, <1>4, <3>1 DEF Known
      <4>. QED
        BY <1>0, <1>4, <4>1, KeysKeep
    <3>4. waiting_finish[q] \/ ReuseKeys
      <4>1. CASE OnAutoAck(p, x)
        BY <4>1 DEF OnAutoAck
      <4>2. CASE OnKeyClash(p, x)
        <5>1. PICK n \in recv_msgs[q] : n.key = x.key
          BY <4>2 DEF OnKeyClash
        <5>2. n \in Known(p) /\ m \in Known(p) /\ m.key = x.key
          BY <2>3 DEF Known, m
        <5>3. n # m
          BY <2>6, <5>1
        <5>. QED
          BY <1>0, <5>1, <5>2, <5>3 DEF KeysOnce
      <4>. QED
        BY <2>8, <4>1, <4>2
    <3>5. Mail!MailNext
      BY <1>1, <1>4, <2>6, <3>2, <3>4, MailDiscard
    <3>. QED
      BY <3>3, <3>5 DEF MailMoves
  <2>. QED
    BY <1>6, <2>7, <2>8
<1>. QED
  BY <1>5, <1>6 DEF RequestNext

LEMMA TaskMail ==
  ASSUME MailInv, NEW p \in Peers, NEW x \in tasks[p], TaskNext(p, x) \/ LinkFault(p, x)
  PROVE  MailMoves
<1>. DEFINE q == Peer(p)
            m == [key |-> x.key, id |-> x.id]
<1>0. IdsInv /\ TypeInv /\ KeysOnce /\ ServedReceived /\ x \in Task
      /\ tasks \in [Peers -> SUBSET Task]
  BY DEF MailInv, IdsInv, PromiseInv, TypeInv, TypeOK, TaskTypeOK
<1>1. /\ UNCHANGED <<msg_seq_id, delivered, waiting_finish, used, thread, send_msgs>>
      /\ UNCHANGED <<recv_msgs, received_msg_ids>>
      /\ \A s \in Peers : Numbered(s)' = Numbered(s) /\ Queued(s)' = Queued(s)
  BY DEF TaskNext, TaskDone, TaskAborted, AsyncError, LinkFault, recvVars, sendVars, userVars,
         ctrlVars, Numbered, Queued
<1>2. ASSUME \A s \in Peers : Tasked(s)' = Tasked(s) PROVE MailMoves
  <2>1. \A s \in Peers : Inbox(s)' = Inbox(s) /\ Known(s)' = Known(s)
    BY <1>1, <1>2, BoxesSame
  <2>2. KeysOnce'
    BY <1>0, <1>1, <2>1, KeysKeep
  <2>. QED
    BY <1>1, <2>1, <2>2, MailStutter DEF MailMoves, MailSame
<1>3. CASE TaskAborted(p, x) \/ LinkFault(p, x)
  <2>1. \E y : y.key = x.key /\ y.id = x.id /\ tasks' = Replaced(p, x, y)
    <3>1. Failed(x).key = x.key /\ Failed(x).id = x.id
      BY <1>0, TaskStates
    <3>2. CASE tasks' = Replaced(p, x, Failed(x))
      BY <3>1, <3>2
    <3>3. CASE LinkFault(p, x) /\ x.tries < MaxRetry /\ tasks' = Replaced(p, x, [x EXCEPT !.state = "flying", !.tries = @ + 1])
      <4>. DEFINE y == [x EXCEPT !.state = "flying", !.tries = @ + 1]
      <4>1. y.key = x.key /\ y.id = x.id
        BY <1>0 DEF Task
      <4>2. tasks' = Replaced(p, x, y)
        BY <3>3 DEF LinkFault
      <4>. QED
        BY <4>1, <4>2
    <3>. QED
      BY <1>3, <3>2, <3>3 DEF TaskAborted, LinkFault
  <2>2. PICK y : y.key = x.key /\ y.id = x.id /\ tasks' = Replaced(p, x, y)
    BY <2>1
  <2>3. /\ y \in tasks'[p]
        /\ \A s \in Peers : \A z \in tasks'[s] : z \in tasks[s] \/ (s = p /\ z = y)
        /\ \A s \in Peers : \A z \in tasks[s] : z \in tasks'[s] \/ (s = p /\ z = x)
    BY <1>0, <2>2 DEF Replaced
  <2>4. \A s \in Peers : Tasked(s)' = Tasked(s)
    BY <2>2, <2>3, TaskedSame
  <2>. QED
    BY <1>2, <2>4
<1>4. CASE AsyncError(p, x) /\ ExitIfAsyncError
  <2>1. tasks' = tasks
    BY <1>4 DEF AsyncError
  <2>. QED
    BY <1>2, <2>1 DEF Tasked
<1>5. CASE TaskDone(p, x) \/ (AsyncError(p, x) /\ ~ ExitIfAsyncError)
  <2>1. tasks' = [tasks EXCEPT ![p] = @ \ {x}]
    BY <1>5 DEF TaskDone, AsyncError, EndTask
  <2>2. tasks'[p] = tasks[p] \ {x} /\ \A s \in Peers \ {p} : tasks'[s] = tasks[s]
    BY <1>0, <2>1
  <2>3. \A s \in Peers \ {p} : Tasked(s)' = Tasked(s)
    BY <2>2 DEF Tasked
  <2>4. CASE x.key \notin Keys
    <3>1. Tasked(p)' = Tasked(p)
      BY <2>2, <2>4 DEF Tasked
    <3>. QED
      BY <1>2, <2>3, <3>1
  <2>5. CASE x.key \in Keys
    <3>1. Tasked(p)' = Tasked(p) \ {m}
      <4>1. \A z \in tasks[p] : z.key \in Keys /\ z.id = x.id => z = x
        BY <1>0, <2>5 DEF IdsInv, HandedOK
      <4>2. \A z \in tasks[p] : z.key \in Keys /\ z # x => [key |-> z.key, id |-> z.id] # m
        BY <4>1
      <4>. HIDE DEF m
      <4>3. Tasked(p) = Tasked(p)' \cup {m}
        BY <2>2, <2>5 DEF Tasked, m
      <4>4. m \notin Tasked(p)'
        BY <2>2, <4>2 DEF Tasked
      <4>. QED
        BY <4>3, <4>4
    <3>. HIDE DEF m
    <3>2. UnderWay(p)' = UnderWay(p) \ {m}
      BY <1>1, <3>1, UnderWayTasked
    <3>3. ASSUME NEW s \in Peers \ {p} PROVE UnderWay(s)' = UnderWay(s)
      <4>1. s \in Peers /\ Tasked(s)' = Tasked(s)
        BY <2>3
      <4>2. /\ UnderWay(s) = {n \in Tasked(s) : n.id \notin received_msg_ids[Peer(s)]}
            /\ UnderWay(s)' = {n \in Tasked(s)' : n.id \notin received_msg_ids'[Peer(s)]}
        BY <4>1, UnderWayTasked
      <4>. QED
        BY <1>1, <4>1, <4>2
    <3>4. KeysOnce'
      <4>1. \A s \in Peers : Known(s)' \subseteq Known(s)
        BY <1>1, <2>3, <3>1 DEF Known
      <4>. QED
        BY <1>0, <1>1, <4>1, KeysKeep
    <3>5. CASE x.id \in received_msg_ids[q]
      <4>1. m \notin UnderWay(p)
        BY <3>5, UnderWayTasked DEF m
      <4>2. \A s \in Peers : UnderWay(s)' = UnderWay(s)
        BY <3>2, <3>3, <4>1
      <4>3. \A s \in Peers : UnderWay(Peer(s))' = UnderWay(Peer(s))
        BY <4>2, PeerOther
      <4>4. \A s \in Peers : Numbered(Peer(s))' = Numbered(Peer(s))
                             /\ Queued(Peer(s))' = Queued(Peer(s))
        BY <1>1, PeerOther
      <4>5. \A s \in Peers : Inbox(s)' = Inbox(s)
        BY <1>1, <4>3, <4>4 DEF Inbox
      <4>. QED
        BY <1>1, <3>4, <4>5, MailStutter DEF MailMoves, MailSame
    <3>6. CASE x.id \notin received_msg_ids[q]
      <4>1. ~ ExitIfAsyncError
        BY <1>0, <1>5, <2>5, <3>6 DEF TaskDone, ServedReceived
      <4>2. /\ m \in Inbox(q)
            /\ Inbox(q)' = (Outbox(p) \ {m}) \cup recv_msgs'[q]
            /\ Inbox(q) = Outbox(p) \cup recv_msgs[q]
            /\ m \notin recv_msgs[q]
            /\ \A s \in Peers \ {q} : recv_msgs'[s] = recv_msgs[s] => Inbox(s)' = Inbox(s)
        BY <1>0, <1>1, <2>5, <3>2, <3>3, <3>6, MessageLeaves DEF m
      <4>3. q \in Peers
        BY PeerOther
      <4>4. Inbox(q)' = Inbox(q) \ {m} /\ \A s \in Peers \ {q} : Inbox(s)' = Inbox(s)
        BY <1>1, <4>2
      <4>5. Mail!MailNext
        BY <1>1, <4>1, <4>2, <4>3, <4>4, MailDiscard
      <4>. QED
        BY <3>4, <4>5 DEF MailMoves
    <3>. QED
      BY <3>5, <3>6
  <2>. QED
    BY <2>4, <2>5
<1>. QED
  BY <1>3, <1>4, <1>5 DEF TaskNext

LEMMA MailStep == MailInv /\ [Next]_vars => MailInv' /\ [Mail!MailNext]_(Mail!mailVars)
<1>. SUFFICES ASSUME MailInv, [Next]_vars
              PROVE  MailInv' /\ [Mail!MailNext]_(Mail!mailVars)
  OBVIOUS
<1>1. IdsInv'
  BY IdsStep DEF MailInv
<1>2. CASE Next
  <2>1. MailMoves
    BY <1>2, ThreadMail, SendThreadMail, RequestMail, TaskMail DEF Next
  <2>. QED
    BY <1>1, <2>1 DEF MailMoves, MailInv
<1>3. CASE UNCHANGED vars
  <2>1. MailSame /\ used' = used /\ thread' = thread /\ \A s \in Peers : Known(s)' = Known(s)
    BY <1>3 DEF vars, sendVars, taskVars, recvVars, userVars, ctrlVars, MailSame, Inbox, Known,
                Numbered, Queued, UnderWay, Tasked
  <2>2. KeysOnce'
    BY <2>1, KeysKeep DEF MailInv
  <2>. QED
    BY <1>1, <2>1, <2>2, MailStutter DEF MailInv
<1>. QED
  BY <1>2, <1>3

LEMMA MailStart == Init => MailInv /\ Mail!MailInit
<1>. SUFFICES ASSUME Init PROVE MailInv /\ Mail!MailInit
  OBVIOUS
<1>1. MailInv
  BY IdsInit, KeysInit DEF MailInv
<1>2. \A p \in Peers : Inbox(p) = {}
  BY PeerOther DEF Init, Inbox, Numbered, Queued, UnderWay, Idle
<1>. QED
  BY <1>1, <1>2 DEF Init, Mail!MailInit

\* A pair of channels implements a pair of mailboxes: a message is in the peer's
\* mailbox from the moment it is numbered until it is read, once; retries,
\* duplicates and reordering never bring it back, and it is dropped only by an end
\* that closes, or when keys are reused or errors of tasks are ignored.
THEOREM ChannelImplementsMailbox == Spec => ImplementsMailbox
<1>. QED
  BY MailStart, MailStep, PTL DEF Spec, ImplementsMailbox, Mail!MailSpec

=============================================================================
