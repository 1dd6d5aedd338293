--------------------------- MODULE ChannelProofs ---------------------------
(***************************************************************************)
(* Theorems about Channel, for every set of threads and keys and every     *)
(* value of the bounds and options.                                        *)
(***************************************************************************)
EXTENDS Channel, FiniteSetTheorems, TLAPS

\* There is exactly one other end.
LEMMA PeerOther ==
  ASSUME NEW p \in Peers
  PROVE  Peer(p) \in Peers /\ Peer(p) # p /\ Peer(Peer(p)) = p
<1>1. PICK a \in Peers, b \in Peers : a # b /\ Peers = {a, b}
  BY PeersAssumption
<1>2. \A r \in Peers : \E q \in Peers : q # r
  BY <1>1
<1>3. \A r \in Peers : Peer(r) \in Peers /\ Peer(r) # r
  BY <1>2 DEF Peer
<1>. QED
  BY <1>1, <1>3

-----------------------------------------------------------------------------
(* Type correctness. *)

\* The threads whose call has passed its checks and has no sequence id yet.
Numbering(p) == {u \in Threads : thread[p][u].pc = "number"}

\* What the fields of a thread hold at each step of a call.
CallOK ==
  \A p \in Peers, t \in Threads :
    /\ thread[p][t].pc \in {"number", "push"} =>
         thread[p][t].key \in Keys /\ thread[p][t].call \in Calls
    /\ thread[p][t].pc \in {"push", "ack"} => thread[p][t].id \in 1 .. MaxMsgs

\* Only a FIN may carry the id 0.
TaskOK == \A p \in Peers : \A x \in tasks[p] : x.key # kFinKey => x.id \in 1 .. MaxMsgs

\* Ids are left for the calls that passed their checks.
Budget == \A p \in Peers : msg_seq_id[p] + Cardinality(Numbering(p)) <= MaxMsgs

TypeInv == TypeOK /\ CallOK /\ TaskOK /\ Budget

LEMMA TypeInit == Init => TypeInv
<1>. SUFFICES ASSUME Init PROVE TypeInv
  OBVIOUS
<1>1. TypeOK
  <2>1. SendTypeOK
    BY BoundsAssumption DEF Init, SendTypeOK
  <2>2. TaskTypeOK /\ CtrlTypeOK
    BY BoundsAssumption DEF Init, TaskTypeOK, CtrlTypeOK
  <2>3. RecvTypeOK /\ UserTypeOK
    BY BoundsAssumption DEF Init, RecvTypeOK, UserTypeOK
  <2>4. ThreadTypeOK
    BY BoundsAssumption DEF Init, ThreadTypeOK, ThreadState, Idle, ThreadPc
  <2>. QED
    BY <2>1, <2>2, <2>3, <2>4 DEF TypeOK
<1>2. CallOK /\ TaskOK
  BY DEF Init, CallOK, TaskOK, Idle
<1>3. Budget
  <2>. SUFFICES ASSUME NEW p \in Peers
                PROVE  msg_seq_id[p] + Cardinality(Numbering(p)) <= MaxMsgs
    BY DEF Budget
  <2>1. Numbering(p) = {}
    BY DEF Init, Numbering, Idle
  <2>2. Cardinality(Numbering(p)) = 0
    BY <2>1, FS_EmptySet
  <2>. QED
    BY <2>2, BoundsAssumption DEF Init
<1>. QED
  BY <1>1, <1>2, <1>3 DEF TypeInv

\* One thread changes its state.
LEMMA GotoSet ==
  ASSUME ThreadTypeOK, NEW p \in Peers, NEW t \in Threads, NEW pc \in ThreadPc,
         Goto(p, t, pc)
  PROVE  LET r == [thread[p][t] EXCEPT !.pc = pc]
         IN  r \in ThreadState /\ thread' = [thread EXCEPT ![p][t] = r]
<1>1. thread[p][t] \in ThreadState
  BY DEF ThreadTypeOK
<1>2. [thread[p][t] EXCEPT !.pc = pc] \in ThreadState
  BY <1>1 DEF ThreadState
<1>. QED
  BY <1>2 DEF Goto

LEMMA ReturnSet ==
  ASSUME ThreadTypeOK, NEW p \in Peers, NEW t \in Threads, Return(p, t)
  PROVE  Idle \in ThreadState /\ thread' = [thread EXCEPT ![p][t] = Idle]
  BY BoundsAssumption DEF Return, Idle, ThreadState, ThreadPc

\* Calls that go on or end without touching the sequence counter.
LEMMA ThreadMoves ==
  ASSUME TypeInv, NEW p \in Peers, NEW t \in Threads,
         NEW pc \in ThreadPc \ {"number", "push", "ack"},
         thread[p][t].pc # "number",
         Goto(p, t, pc) \/ Return(p, t),
         msg_seq_id' = msg_seq_id
  PROVE  ThreadTypeOK' /\ CallOK' /\ Budget'
<1>0. ThreadTypeOK
  BY DEF TypeInv, TypeOK
<1>. DEFINE Quiet == {r \in ThreadState : r.pc \notin {"number", "push", "ack"}}
<1>1. PICK r \in Quiet : thread' = [thread EXCEPT ![p][t] = r]
  <2>1. CASE Goto(p, t, pc)
    <3>1. thread[p][t] \in ThreadState
      BY <1>0 DEF ThreadTypeOK
    <3>2. [thread[p][t] EXCEPT !.pc = pc].pc = pc
      BY <3>1 DEF ThreadState
    <3>3. /\ [thread[p][t] EXCEPT !.pc = pc] \in ThreadState
          /\ thread' = [thread EXCEPT ![p][t] = [thread[p][t] EXCEPT !.pc = pc]]
      BY <1>0, <2>1, GotoSet
    <3>. QED
      BY <3>2, <3>3
  <2>2. CASE Return(p, t)
    BY <1>0, <2>2, ReturnSet DEF Idle
  <2>. QED
    BY <2>1, <2>2
<1>2. /\ ThreadTypeOK'
      /\ thread'[p][t] = r
      /\ \A s \in Peers, u \in Threads : s # p \/ u # t => thread'[s][u] = thread[s][u]
  <2>1. r \in ThreadState
    OBVIOUS
  <2>. HIDE DEF Quiet
  <2>. QED
    BY <1>0, <1>1, <2>1 DEF ThreadTypeOK
<1>3. CallOK'
  BY <1>1, <1>2 DEF TypeInv, CallOK
<1>4. \A s \in Peers : Numbering(s)' = Numbering(s)
  BY <1>1, <1>2 DEF Numbering
<1>5. Budget'
  BY <1>4 DEF TypeInv, Budget
<1>. QED
  BY <1>2, <1>3, <1>5

\* The new states of a task, and the tasks that are started.
LEMMA NewTaskType ==
  ASSUME TypeInv, NEW p \in Peers, NEW key \in Keys \cup {kAckKey, kFinKey},
         NEW id \in 0 .. MaxMsgs
  PROVE  /\ NewTask(p, key, id) \in Task
         /\ NewTask(p, key, id).key = key
         /\ NewTask(p, key, id).id = id
  BY BoundsAssumption DEF TypeInv, TypeOK, CtrlTypeOK, NewTask, Task

-----------------------------------------------------------------------------
\* What an action leaves alone keeps its type.
LEMMA Frames ==
  ASSUME TypeInv
  PROVE  /\ UNCHANGED sendVars => SendTypeOK'
         /\ UNCHANGED taskVars => TaskTypeOK' /\ TaskOK'
         /\ UNCHANGED recvVars => RecvTypeOK'
         /\ UNCHANGED ctrlVars => CtrlTypeOK'
         /\ UNCHANGED userVars => UserTypeOK'
         /\ UNCHANGED <<thread, msg_seq_id>> => ThreadTypeOK' /\ CallOK' /\ Budget'
<1>1. UNCHANGED sendVars => SendTypeOK'
  BY DEF TypeInv, TypeOK, SendTypeOK, sendVars
<1>2. UNCHANGED taskVars => TaskTypeOK' /\ TaskOK'
  BY DEF TypeInv, TypeOK, TaskTypeOK, TaskOK, taskVars
<1>3. UNCHANGED recvVars => RecvTypeOK'
  BY DEF TypeInv, TypeOK, RecvTypeOK, recvVars
<1>4. UNCHANGED ctrlVars => CtrlTypeOK'
  BY DEF TypeInv, TypeOK, CtrlTypeOK, ctrlVars
<1>5. UNCHANGED userVars => UserTypeOK'
  BY DEF TypeInv, TypeOK, UserTypeOK, userVars
<1>6. UNCHANGED <<thread, msg_seq_id>> => ThreadTypeOK' /\ CallOK' /\ Budget'
  BY DEF TypeInv, TypeOK, ThreadTypeOK, CallOK, Budget, Numbering
<1>. QED
  BY <1>1, <1>2, <1>3, <1>4, <1>5, <1>6

\* The steps of the user's threads.
LEMMA CallSendType ==
  ASSUME TypeInv, NEW p \in Peers, NEW t \in Threads, NEW call \in Calls, NEW key \in Keys,
         CallSend(p, t, call, key)
  PROVE  TypeInv'
<1>1. ThreadTypeOK'
  BY BoundsAssumption DEF TypeInv, TypeOK, ThreadTypeOK, ThreadState, CallSend, ThreadPc
<1>2. CallOK'
  BY DEF TypeInv, TypeOK, ThreadTypeOK, CallOK, CallSend
<1>3. Budget'
  <2>. SUFFICES ASSUME NEW s \in Peers
                PROVE  (msg_seq_id[s] + Cardinality(Numbering(s)) <= MaxMsgs)'
    BY DEF Budget
  <2>0. msg_seq_id' = msg_seq_id
    BY DEF CallSend, sendVars
  <2>1. CASE s # p
    <3>1. Numbering(s)' = Numbering(s)
      BY <2>1 DEF TypeInv, TypeOK, ThreadTypeOK, Numbering, CallSend
    <3>. QED
      BY <3>1, <2>0 DEF TypeInv, Budget
  <2>2. CASE s = p
    <3>1. Numbering(p)' = Numbering(p) \cup {t}
      BY DEF TypeInv, TypeOK, ThreadTypeOK, Numbering, CallSend
    <3>2. IsFiniteSet(Numbering(p))
      BY FS_Subset, ThreadsAssumption DEF Numbering
    <3>3. Cardinality(Numbering(p)) \in Nat
      BY <3>2, FS_CardinalityType
    <3>4. msg_seq_id[p] + Cardinality(Numbering(p)) < MaxMsgs
      BY DEF CallSend, Numbering
    <3>5. Cardinality(Numbering(p)') <= Cardinality(Numbering(p)) + 1
      <4>1. \/ Cardinality(Numbering(p)') = Cardinality(Numbering(p))
            \/ Cardinality(Numbering(p)') = Cardinality(Numbering(p)) + 1
        BY <3>1, <3>2, FS_AddElement
      <4>. QED
        BY <4>1, <3>3
    <3>6. Cardinality(Numbering(p)') \in Nat
      BY <3>1, <3>2, FS_AddElement, FS_CardinalityType
    <3>. QED
      BY <2>0, <2>2, <3>3, <3>4, <3>5, <3>6, BoundsAssumption DEF TypeInv, TypeOK, SendTypeOK
  <2>. QED
    BY <2>1, <2>2
<1>4. UserTypeOK'
  BY DEF TypeInv, TypeOK, UserTypeOK, CallSend
<1>5. SendTypeOK' /\ TaskTypeOK' /\ RecvTypeOK' /\ CtrlTypeOK' /\ TaskOK'
  BY DEF TypeInv, TypeOK, SendTypeOK, TaskTypeOK, RecvTypeOK, CtrlTypeOK, TaskOK, CallSend,
         sendVars, taskVars, recvVars, ctrlVars
<1>. QED
  BY <1>1, <1>2, <1>3, <1>4, <1>5 DEF TypeInv, TypeOK

LEMMA FetchSeqIdType ==
  ASSUME TypeInv, NEW p \in Peers, NEW t \in Threads, FetchSeqId(p, t)
  PROVE  TypeInv'
<1>1. /\ Numbering(p)' = Numbering(p) \ {t}
      /\ t \in Numbering(p)
      /\ \A s \in Peers \ {p} : Numbering(s)' = Numbering(s)
  BY DEF TypeInv, TypeOK, ThreadTypeOK, Numbering, FetchSeqId, At
<1>2. IsFiniteSet(Numbering(p))
  BY FS_Subset, ThreadsAssumption DEF Numbering
<1>3. Cardinality(Numbering(p)') = Cardinality(Numbering(p)) - 1
  BY <1>1, <1>2, FS_RemoveElement
<1>4. Cardinality(Numbering(p)) \in Nat /\ Cardinality(Numbering(p)') \in Nat
  BY <1>1, <1>2, FS_RemoveElement, FS_CardinalityType
<1>5. msg_seq_id[p] \in 0 .. MaxMsgs /\ msg_seq_id[p] + 1 \in 1 .. MaxMsgs
  BY <1>3, <1>4, BoundsAssumption DEF TypeInv, Budget, TypeOK, SendTypeOK
<1>6. SendTypeOK'
  BY <1>5 DEF TypeInv, TypeOK, SendTypeOK, FetchSeqId
<1>7. ThreadTypeOK' /\ CallOK'
  <2>. DEFINE r == [thread[p][t] EXCEPT !.pc = "push", !.id = msg_seq_id[p] + 1]
  <2>1. ThreadTypeOK /\ thread[p][t] \in ThreadState
    BY DEF TypeInv, TypeOK, ThreadTypeOK
  <2>2. /\ r.key = thread[p][t].key /\ r.call = thread[p][t].call
        /\ r.id = msg_seq_id[p] + 1 /\ r.pc = "push"
    BY <2>1 DEF ThreadState
  <2>5. r \in ThreadState
    <3>1. msg_seq_id[p] + 1 \in 0 .. MaxMsgs /\ "push" \in ThreadPc
      BY <1>5, BoundsAssumption DEF ThreadPc
    <3>. HIDE DEF ThreadPc
    <3>. QED
      BY <2>1, <3>1 DEF ThreadState
  <2>3. thread' = [thread EXCEPT ![p][t] = r]
    BY <2>1 DEF FetchSeqId, ThreadTypeOK
  <2>4. /\ ThreadTypeOK'
        /\ thread'[p][t] = r
        /\ \A s \in Peers, u \in Threads : s # p \/ u # t => thread'[s][u] = thread[s][u]
    <3>. HIDE DEF r
    <3>. QED
      BY <2>1, <2>3, <2>5 DEF ThreadTypeOK
  <2>6. thread[p][t].key \in Keys /\ thread[p][t].call \in Calls
    BY DEF TypeInv, CallOK, FetchSeqId, At
  <2>. HIDE DEF r
  <2>. QED
    BY <2>2, <2>4, <2>6, <1>5 DEF TypeInv, CallOK
<1>8. Budget'
  <2>. SUFFICES ASSUME NEW s \in Peers
                PROVE  (msg_seq_id[s] + Cardinality(Numbering(s)) <= MaxMsgs)'
    BY DEF Budget
  <2>1. CASE s # p
    BY <1>1, <2>1 DEF TypeInv, TypeOK, SendTypeOK, Budget, FetchSeqId
  <2>2. CASE s = p
    <3>1. msg_seq_id[p]' = msg_seq_id[p] + 1
      BY DEF FetchSeqId, TypeInv, TypeOK, SendTypeOK
    <3>2. msg_seq_id[p] + Cardinality(Numbering(p)) <= MaxMsgs
      BY DEF TypeInv, Budget
    <3>. QED
      BY <2>2, <3>1, <3>2, <1>3, <1>4, <1>5, BoundsAssumption
  <2>. QED
    BY <2>1, <2>2
<1>9. TaskTypeOK' /\ RecvTypeOK' /\ CtrlTypeOK' /\ UserTypeOK' /\ TaskOK'
  BY DEF TypeInv, TypeOK, TaskTypeOK, RecvTypeOK, CtrlTypeOK, UserTypeOK, TaskOK, FetchSeqId,
         taskVars, recvVars, ctrlVars, userVars
<1>. QED
  BY <1>6, <1>7, <1>8, <1>9 DEF TypeInv, TypeOK

LEMMA PushType ==
  ASSUME TypeInv, NEW p \in Peers, NEW t \in Threads, Push(p, t)
  PROVE  TypeInv'
<1>1. /\ thread[p][t].pc = "push"
      /\ thread[p][t].key \in Keys /\ thread[p][t].id \in 1 .. MaxMsgs
      /\ thread[p][t].call \in {"Send", "SendAsync", "SendAsyncThrottled"}
  BY UserAssumption DEF Push, At, TypeInv, CallOK
<1>2. \E pc \in {"sync", "throttle"} : Goto(p, t, pc) \/ Return(p, t)
  BY <1>1 DEF Push
<1>3. ThreadTypeOK' /\ CallOK' /\ Budget'
  BY <1>1, <1>2, ThreadMoves DEF ThreadPc, Push
<1>4. [key |-> thread[p][t].key, id |-> thread[p][t].id] \in Message
  BY <1>1 DEF Message
<1>5. SendTypeOK'
  BY <1>4 DEF Push, TypeInv, TypeOK, SendTypeOK
<1>. QED
  BY <1>3, <1>5, Frames DEF Push, TypeInv, TypeOK

\* Steps of a call that touch nothing but their thread.
LEMMA ReturnType ==
  ASSUME TypeInv, NEW p \in Peers, NEW t \in Threads,
         SendReturns(p, t) \/ ThrottledReturns(p, t) \/ RecvThrows(p, t)
  PROVE  TypeInv'
<1>1. /\ thread[p][t].pc # "number" /\ Return(p, t) /\ msg_seq_id' = msg_seq_id
      /\ UNCHANGED <<sendVars, recvVars, ctrlVars, userVars, taskVars>>
  BY DEF SendReturns, ThrottledReturns, RecvThrows, At, sendVars
<1>2. ThreadTypeOK' /\ CallOK' /\ Budget'
  BY <1>1, ThreadMoves DEF ThreadPc
<1>. QED
  BY <1>1, <1>2, Frames DEF TypeInv, TypeOK

LEMMA WaitStepType ==
  ASSUME TypeInv, NEW p \in Peers, NEW t \in Threads, NEW from \in ThreadPc \ {"number"},
         NEW to \in ThreadPc \ {"number", "push", "ack"}, WaitStep(p, t, from, to)
  PROVE  TypeInv'
<1>1. /\ thread[p][t].pc # "number" /\ Goto(p, t, to) /\ msg_seq_id' = msg_seq_id
      /\ UNCHANGED <<sendVars, recvVars, ctrlVars, userVars, taskVars>>
  BY DEF WaitStep, At, sendVars
<1>2. ThreadTypeOK' /\ CallOK' /\ Budget'
  BY <1>1, ThreadMoves
<1>. QED
  BY <1>1, <1>2, Frames DEF TypeInv, TypeOK

LEMMA CallRecvType ==
  ASSUME TypeInv, NEW p \in Peers, NEW t \in Threads, NEW key \in Keys, CallRecv(p, t, key)
  PROVE  TypeInv'
<1>. DEFINE r == [pc |-> "recv", call |-> "Recv", key |-> key, id |-> 0]
<1>1. r \in ThreadState
  BY BoundsAssumption DEF ThreadState, ThreadPc
<1>2. thread' = [thread EXCEPT ![p][t] = r]
  BY DEF CallRecv
<1>3. ThreadTypeOK'
  BY <1>1, <1>2 DEF TypeInv, TypeOK, ThreadTypeOK
<1>4. CallOK'
  BY <1>2 DEF TypeInv, TypeOK, ThreadTypeOK, CallOK
<1>5. \A s \in Peers : Numbering(s)' = Numbering(s)
  BY <1>2 DEF TypeInv, TypeOK, ThreadTypeOK, Numbering, CallRecv, At
<1>6. Budget'
  BY <1>5 DEF TypeInv, Budget, CallRecv, sendVars
<1>. QED
  BY <1>3, <1>4, <1>6, Frames DEF CallRecv, TypeInv, TypeOK

LEMMA RecvTakeType ==
  ASSUME TypeInv, NEW p \in Peers, NEW t \in Threads, RecvTake(p, t)
  PROVE  TypeInv'
<1>1. PICK m \in recv_msgs[p] :
         /\ recv_msgs' = [recv_msgs EXCEPT ![p] = @ \ {m}]
         /\ delivered' = [delivered EXCEPT ![p] = @ \cup {m.id}]
         /\ thread' = [thread EXCEPT ![p][t].pc = "ack", ![p][t].id = m.id]
  BY DEF RecvTake
<1>2. m.id \in 1 .. MaxMsgs
  BY DEF TypeInv, TypeOK, RecvTypeOK, Message
<1>. DEFINE r == [thread[p][t] EXCEPT !.pc = "ack", !.id = m.id]
<1>3. thread[p][t] \in ThreadState /\ thread[p][t].pc = "recv"
  BY DEF TypeInv, TypeOK, ThreadTypeOK, RecvTake, At
<1>4. r \in ThreadState /\ r.pc = "ack" /\ r.id = m.id
  <2>1. m.id \in 0 .. MaxMsgs /\ "ack" \in ThreadPc
    BY <1>2, BoundsAssumption DEF ThreadPc
  <2>. QED
    BY <1>3, <2>1 DEF ThreadState
<1>5. /\ thread' = [thread EXCEPT ![p][t] = r]
      /\ thread \in [Peers -> [Threads -> ThreadState]]
  BY <1>1 DEF TypeInv, TypeOK, ThreadTypeOK
<1>6. /\ ThreadTypeOK'
      /\ thread'[p][t] = r
      /\ \A s \in Peers, u \in Threads : s # p \/ u # t => thread'[s][u] = thread[s][u]
  <2>. HIDE DEF r
  <2>. QED
    BY <1>4, <1>5 DEF ThreadTypeOK
<1>7. CallOK'
  <2>. HIDE DEF r
  <2>. QED
    BY <1>2, <1>4, <1>6 DEF TypeInv, CallOK
<1>8. \A s \in Peers : Numbering(s)' = Numbering(s)
  <2>. HIDE DEF r
  <2>. QED
    BY <1>3, <1>4, <1>6 DEF Numbering
<1>9. Budget'
  BY <1>8 DEF TypeInv, Budget, RecvTake, sendVars
<1>10. RecvTypeOK' /\ UserTypeOK'
  BY <1>1, <1>2 DEF TypeInv, TypeOK, RecvTypeOK, UserTypeOK, RecvTake
<1>. QED
  BY <1>6, <1>7, <1>9, <1>10, Frames DEF RecvTake, TypeInv, TypeOK

LEMMA RecvAckType ==
  ASSUME TypeInv, NEW p \in Peers, NEW t \in Threads, RecvAck(p, t)
  PROVE  TypeInv'
<1>1. /\ thread[p][t].pc = "ack" /\ Return(p, t) /\ msg_seq_id' = msg_seq_id
      /\ thread[p][t].id \in 1 .. MaxMsgs
  BY DEF RecvAck, At, sendVars, TypeInv, CallOK
<1>2. ThreadTypeOK' /\ CallOK' /\ Budget'
  BY <1>1, ThreadMoves DEF ThreadPc
<1>. DEFINE y == NewTask(p, kAckKey, thread[p][t].id)
<1>3. y \in Task /\ y.id \in 1 .. MaxMsgs
  BY <1>1, NewTaskType, BoundsAssumption
<1>4. tasks' = [tasks EXCEPT ![p] = @ \cup {y}]
  BY DEF RecvAck
<1>5. TaskTypeOK' /\ TaskOK'
  <2>. HIDE DEF y
  <2>. QED
    BY <1>3, <1>4 DEF TypeInv, TypeOK, TaskTypeOK, TaskOK, RecvAck
<1>. QED
  BY <1>2, <1>5, Frames DEF RecvAck, TypeInv, TypeOK

-----------------------------------------------------------------------------
\* The steps of a close and of an abort.
LEMMA StopReceivingType ==
  ASSUME TypeInv, NEW p \in Peers, NEW t \in Threads, StopReceivingAndAckUnreadMsgs(p, t)
  PROVE  TypeInv'
<1>1. /\ thread[p][t].pc = "idle" /\ Goto(p, t, "fin") /\ msg_seq_id' = msg_seq_id
  BY DEF StopReceivingAndAckUnreadMsgs, At, sendVars
<1>2. ThreadTypeOK' /\ CallOK' /\ Budget'
  BY <1>1, ThreadMoves DEF ThreadPc
<1>. DEFINE Acks == {NewTask(p, kAckKey, m.id) : m \in recv_msgs[p]}
<1>3. \A m \in recv_msgs[p] : m.id \in 1 .. MaxMsgs
  BY DEF TypeInv, TypeOK, RecvTypeOK, Message
<1>4. \A y \in Acks : y \in Task /\ y.id \in 1 .. MaxMsgs
  BY <1>3, NewTaskType, BoundsAssumption
<1>5. tasks' = [tasks EXCEPT ![p] = @ \cup Acks]
  BY DEF StopReceivingAndAckUnreadMsgs
<1>6. TaskTypeOK' /\ TaskOK'
  <2>. HIDE DEF Acks
  <2>. QED
    BY <1>4, <1>5 DEF TypeInv, TypeOK, TaskTypeOK, TaskOK, StopReceivingAndAckUnreadMsgs
<1>7. RecvTypeOK' /\ CtrlTypeOK'
  BY DEF TypeInv, TypeOK, RecvTypeOK, CtrlTypeOK, StopReceivingAndAckUnreadMsgs
<1>. QED
  BY <1>2, <1>6, <1>7, Frames DEF StopReceivingAndAckUnreadMsgs, TypeInv, TypeOK

LEMMA SendFinType ==
  ASSUME TypeInv, NEW p \in Peers, NEW t \in Threads, SendFin(p, t)
  PROVE  TypeInv'
<1>1. /\ thread[p][t].pc = "fin" /\ Goto(p, t, "waitfin") /\ msg_seq_id' = msg_seq_id
      /\ msg_seq_id[p] \in 0 .. MaxMsgs
  BY DEF SendFin, At, sendVars, TypeInv, TypeOK, SendTypeOK
<1>2. ThreadTypeOK' /\ CallOK' /\ Budget'
  BY <1>1, ThreadMoves DEF ThreadPc
<1>. DEFINE y == NewTask(p, kFinKey, msg_seq_id[p])
<1>3. y \in Task /\ y.key = kFinKey
  BY <1>1, NewTaskType
<1>4. tasks' = [tasks EXCEPT ![p] = @ \cup {y}]
  BY DEF SendFin
<1>5. TaskTypeOK' /\ TaskOK'
  <2>. HIDE DEF y
  <2>. QED
    BY <1>3, <1>4 DEF TypeInv, TypeOK, TaskTypeOK, TaskOK, SendFin
<1>. QED
  BY <1>2, <1>5, Frames DEF SendFin, TypeInv, TypeOK

LEMMA StopSendThreadType ==
  ASSUME TypeInv, NEW p \in Peers, NEW t \in Threads, StopSendThread(p, t) \/ AbortStop(p, t)
  PROVE  TypeInv'
<1>1. /\ thread[p][t].pc # "number" /\ msg_seq_id' = msg_seq_id
      /\ \E pc \in {"join", "abortjoin"} : Goto(p, t, pc)
      /\ send_thread_stopped' = [send_thread_stopped EXCEPT ![p] = TRUE]
      /\ UNCHANGED <<msg_seq_id, send_msgs, send_thread, recvVars, ctrlVars, userVars, taskVars>>
  BY DEF StopSendThread, AbortStop, At
<1>2. ThreadTypeOK' /\ CallOK' /\ Budget'
  BY <1>1, ThreadMoves DEF ThreadPc
<1>3. SendTypeOK'
  BY <1>1 DEF TypeInv, TypeOK, SendTypeOK
<1>. QED
  BY <1>1, <1>2, <1>3, Frames DEF TypeInv, TypeOK

LEMMA StopServerType ==
  ASSUME TypeInv, NEW p \in Peers, NEW t \in Threads, StopServer(p, t)
  PROVE  TypeInv'
<1>1. CtrlTypeOK'
  BY DEF TypeInv, TypeOK, CtrlTypeOK, StopServer
<1>. QED
  BY <1>1, Frames DEF StopServer, sendVars, TypeInv, TypeOK

LEMMA AbortFlagType ==
  ASSUME TypeInv, NEW p \in Peers, NEW t \in Threads, AbortFlag(p, t)
  PROVE  TypeInv'
<1>1. thread[p][t].pc = "idle" /\ Goto(p, t, "abortstop") /\ msg_seq_id' = msg_seq_id
  BY DEF AbortFlag, At, sendVars
<1>2. ThreadTypeOK' /\ CallOK' /\ Budget'
  BY <1>1, ThreadMoves DEF ThreadPc
<1>3. CtrlTypeOK'
  BY DEF TypeInv, TypeOK, CtrlTypeOK, AbortFlag
<1>. QED
  BY <1>2, <1>3, Frames DEF AbortFlag, TypeInv, TypeOK

LEMMA ThreadType ==
  ASSUME TypeInv, NEW p \in Peers, NEW t \in Threads,
         UserNext(p, t) \/ CallNext(p, t) \/ CloseNext(p, t)
  PROVE  TypeInv'
<1>1. CASE \E call \in Calls, key \in Keys : CallSend(p, t, call, key)
  BY <1>1, CallSendType
<1>2. CASE \E key \in Keys : CallRecv(p, t, key)
  BY <1>2, CallRecvType
<1>3. CASE StopReceivingAndAckUnreadMsgs(p, t) \/ AbortFlag(p, t) \/ StopServer(p, t)
  BY <1>3, StopReceivingType, AbortFlagType, StopServerType
<1>4. CASE FetchSeqId(p, t) \/ Push(p, t) \/ RecvTake(p, t) \/ RecvAck(p, t)
  BY <1>4, FetchSeqIdType, PushType, RecvTakeType, RecvAckType
<1>5. CASE SendReturns(p, t) \/ ThrottledReturns(p, t) \/ RecvThrows(p, t)
  BY <1>5, ReturnType
<1>6. CASE SendFin(p, t) \/ StopSendThread(p, t) \/ AbortStop(p, t)
  BY <1>6, SendFinType, StopSendThreadType
<1>7. CASE \/ WaitForFin(p, t) \/ WaitForFlyingMsg(p, t) \/ JoinSendThread(p, t)
           \/ WaitAllSendFinished(p, t) \/ WaitForFlyingAck(p, t) \/ AbortJoin(p, t)
  <2>1. \E from \in ThreadPc \ {"number"}, to \in ThreadPc \ {"number", "push", "ack"} :
          WaitStep(p, t, from, to)
    BY <1>7 DEF WaitForFin, WaitForFlyingMsg, JoinSendThread, WaitAllSendFinished,
                WaitForFlyingAck, AbortJoin, ThreadPc
  <2>. QED
    BY <2>1, WaitStepType
<1>. QED
  BY <1>1, <1>2, <1>3, <1>4, <1>5, <1>6, <1>7 DEF UserNext, CallNext, CloseNext

-----------------------------------------------------------------------------
\* The send thread.
LEMMA SubmitType ==
  ASSUME TypeInv, NEW p \in Peers, NEW pc \in {"window", "drain"}, Submit(p, pc)
  PROVE  TypeInv'
<1>. DEFINE m == Head(send_msgs[p])
            y == NewTask(p, m.key, m.id)
<1>1. send_msgs[p] \in Seq(Message) /\ send_msgs[p] # <<>>
  BY DEF Submit, TypeInv, TypeOK, SendTypeOK
<1>2. m \in Message /\ Tail(send_msgs[p]) \in Seq(Message)
  BY <1>1
<1>3. m.key \in Keys /\ m.id \in 1 .. MaxMsgs
  BY <1>2 DEF Message
<1>4. y \in Task /\ y.id \in 1 .. MaxMsgs
  BY <1>3, NewTaskType, BoundsAssumption
<1>5. /\ tasks' = [tasks EXCEPT ![p] = @ \cup {y}]
      /\ send_msgs' = [send_msgs EXCEPT ![p] = Tail(@)]
      /\ send_thread' = [send_thread EXCEPT ![p] = [pc |-> pc, id |-> m.id]]
  BY DEF Submit
<1>6. TaskTypeOK' /\ TaskOK'
  <2>. HIDE DEF y
  <2>. QED
    BY <1>4, <1>5 DEF TypeInv, TypeOK, TaskTypeOK, TaskOK, Submit
<1>7. SendTypeOK'
  <2>. HIDE DEF m
  <2>. QED
    BY <1>2, <1>3, <1>5, BoundsAssumption DEF TypeInv, TypeOK, SendTypeOK, Submit
<1>. QED
  BY <1>6, <1>7, Frames DEF Submit, TypeInv, TypeOK

LEMMA SendThreadType ==
  ASSUME TypeInv, NEW p \in Peers, SendThreadNext(p)
  PROVE  TypeInv'
<1>1. CASE SendThreadSubmit(p) \/ SendThreadDrain(p)
  BY <1>1, SubmitType DEF SendThreadSubmit, SendThreadDrain
<1>2. CASE \/ SendThreadCheck(p) \/ SendThreadWoken(p) \/ SendThreadWindow(p)
           \/ SendThreadThrows(p) \/ SendThreadDone(p)
  <2>1. /\ \E pc \in {"check", "pop", "drain", "gone"} :
             send_thread' = [send_thread EXCEPT ![p].pc = pc]
        /\ UNCHANGED <<msg_seq_id, send_msgs, send_thread_stopped, recvVars, userVars,
                       taskVars, thread>>
    <3>1. send_thread_stopped[p] \in BOOLEAN /\ aborting[p] \in BOOLEAN
      BY DEF TypeInv, TypeOK, SendTypeOK, CtrlTypeOK
    <3>2. CASE SendThreadCheck(p)
      BY <3>1, <3>2 DEF SendThreadCheck
    <3>. QED
      BY <1>2, <3>2 DEF SendThreadWoken, SendThreadWindow, SendThreadThrows, SendThreadDone
  <2>2. SendTypeOK'
    BY <2>1 DEF TypeInv, TypeOK, SendTypeOK
  <2>3. CtrlTypeOK'
    BY <1>2 DEF TypeInv, TypeOK, CtrlTypeOK, ctrlVars, SendThreadCheck, SendThreadWoken,
                SendThreadWindow, SendThreadThrows, SendThreadDone
  <2>. QED
    BY <2>1, <2>2, <2>3, Frames DEF TypeInv, TypeOK
<1>. QED
  BY <1>1, <1>2 DEF SendThreadNext

-----------------------------------------------------------------------------
\* The requests of the tasks and how they end.
LEMMA TaskStates ==
  ASSUME NEW x \in Task
  PROVE  /\ Served(x) \in Task /\ Served(x).key = x.key /\ Served(x).id = x.id
         /\ Refused(x) \in Task /\ Refused(x).key = x.key /\ Refused(x).id = x.id
         /\ Failed(x) \in Task /\ Failed(x).key = x.key /\ Failed(x).id = x.id
         /\ Served(x).state = "served" /\ Refused(x).state = "refused" /\ Failed(x).state = "failed"
  BY DEF Served, Refused, Failed, Task

LEMMA RequestType ==
  ASSUME TypeInv, NEW p \in Peers, NEW x \in tasks[p], RequestNext(p, x)
  PROVE  TypeInv'
<1>. DEFINE q == Peer(p)
            a == NewTask(q, kAckKey, x.id)
<1>1. q \in Peers /\ q # p
  BY PeerOther
<1>2. x \in Task /\ (x.key # kFinKey => x.id \in 1 .. MaxMsgs)
  BY DEF TypeInv, TypeOK, TaskTypeOK, TaskOK
<1>3. x.id \in 0 .. MaxMsgs /\ a \in Task /\ a.id = x.id /\ a.key = kAckKey
  BY <1>1, <1>2, NewTaskType DEF Task
<1>4. \A y \in {Served(x), Refused(x)} : y \in Task /\ y.key = x.key /\ y.id = x.id
  BY <1>2, TaskStates
<1>5. /\ \E y \in {Served(x), Refused(x)} :
           \/ tasks' = Replaced(p, x, y)
           \/ /\ x.key \in Keys
              /\ tasks' = [tasks EXCEPT ![p] = (@ \ {x}) \cup {y}, ![q] = @ \cup {a}]
      /\ UNCHANGED <<sendVars, ctrlVars, userVars, finished_ids, faults, thread>>
  BY DEF RequestNext, OnRequestAborting, OnAck, OnFin, OnDuplicate, OnNormalMessage,
         OnKeyClash, OnAutoAck
<1>. HIDE DEF q, a
<1>6. TaskTypeOK'
  BY <1>1, <1>3, <1>4, <1>5 DEF TypeInv, TypeOK, TaskTypeOK, Replaced
<1>7. TaskOK'
  BY <1>1, <1>2, <1>3, <1>4, <1>5, KeysAssumption
     DEF TypeInv, TypeOK, TaskTypeOK, TaskOK, Replaced, kFinKey
<1>8. RecvTypeOK'
  <2>1. CASE OnRequestAborting(p, x) \/ OnDuplicate(p, x)
    BY <2>1, Frames DEF OnRequestAborting, OnDuplicate
  <2>2. CASE OnAck(p, x)
    BY <1>1, <1>2, <2>2 DEF OnAck, q, kAckKey, kFinKey, TypeInv, TypeOK, RecvTypeOK
  <2>3. CASE OnFin(p, x)
    BY <1>1, <1>3, <2>3 DEF OnFin, q, TypeInv, TypeOK, RecvTypeOK
  <2>4. CASE OnNormalMessage(p, x)
    BY <1>1, <1>2, <2>4, KeysAssumption
       DEF OnNormalMessage, q, TypeInv, TypeOK, RecvTypeOK, Message
  <2>5. CASE OnKeyClash(p, x) \/ OnAutoAck(p, x)
    BY <1>1, <1>2, <2>5, KeysAssumption
       DEF OnKeyClash, OnAutoAck, q, TypeInv, TypeOK, RecvTypeOK
  <2>. QED
    BY <2>1, <2>2, <2>3, <2>4, <2>5 DEF RequestNext
<1>. QED
  BY <1>5, <1>6, <1>7, <1>8, Frames DEF sendVars, TypeInv, TypeOK

LEMMA EndTaskType ==
  ASSUME TypeInv, NEW p \in Peers, NEW x \in tasks[p], EndTask(p, x), faults' = faults
  PROVE  TaskTypeOK' /\ TaskOK'
<1>1. x \in Task /\ (x.key # kFinKey => x.id \in 1 .. MaxMsgs)
  BY DEF TypeInv, TypeOK, TaskTypeOK, TaskOK
<1>2. x.key \in Keys => x.id \in 1 .. MaxMsgs
  BY <1>1, KeysAssumption
<1>. QED
  BY <1>2 DEF EndTask, TypeInv, TypeOK, TaskTypeOK, TaskOK

LEMMA TaskType ==
  ASSUME TypeInv, NEW p \in Peers, NEW x \in tasks[p], TaskNext(p, x) \/ LinkFault(p, x)
  PROVE  TypeInv'
<1>1. x \in Task
  BY DEF TypeInv, TypeOK, TaskTypeOK
<1>2. CASE TaskDone(p, x)
  BY <1>2, EndTaskType, Frames DEF TaskDone, sendVars, TypeInv, TypeOK
<1>3. CASE TaskAborted(p, x)
  <2>1. TaskTypeOK' /\ TaskOK'
    BY <1>1, <1>3, TaskStates DEF TaskAborted, Replaced, TypeInv, TypeOK, TaskTypeOK, TaskOK
  <2>. QED
    BY <1>3, <2>1, Frames DEF TaskAborted, sendVars, TypeInv, TypeOK
<1>4. CASE AsyncError(p, x)
  <2>1. TaskTypeOK' /\ TaskOK'
    <3>1. CASE ExitIfAsyncError
      BY <1>4, <3>1 DEF AsyncError, TypeInv, TypeOK, TaskTypeOK, TaskOK
    <3>2. CASE ~ ExitIfAsyncError
      BY <1>4, <3>2, EndTaskType DEF AsyncError
    <3>. QED
      BY <3>1, <3>2
  <2>2. CtrlTypeOK'
    BY <1>4 DEF AsyncError, TypeInv, TypeOK, CtrlTypeOK
  <2>. QED
    BY <1>4, <2>1, <2>2, Frames DEF AsyncError, sendVars, TypeInv, TypeOK
<1>5. CASE LinkFault(p, x)
  <2>1. \E y \in Task : /\ y.key = x.key /\ y.id = x.id
                        /\ tasks' = Replaced(p, x, y)
    <3>1. CASE x.tries < MaxRetry /\ tasks' = Replaced(p, x, [x EXCEPT !.state = "flying", !.tries = @ + 1])
      <4>. DEFINE y == [x EXCEPT !.state = "flying", !.tries = @ + 1]
      <4>1. x.tries \in 0 .. MaxRetry
        BY <1>1 DEF Task
      <4>2. x.tries + 1 \in 0 .. MaxRetry
        BY <4>1, <3>1, BoundsAssumption
      <4>3. y \in Task /\ y.key = x.key /\ y.id = x.id
        BY <1>1, <4>2 DEF Task
      <4>4. tasks' = Replaced(p, x, y)
        BY <1>5, <3>1 DEF LinkFault
      <4>. QED
        BY <4>3, <4>4
    <3>2. CASE tasks' = Replaced(p, x, Failed(x))
      BY <1>1, <3>2, TaskStates
    <3>. QED
      BY <1>5, <3>1, <3>2 DEF LinkFault
  <2>2. faults' \in 0 .. MaxFaults
    BY <1>5, BoundsAssumption DEF LinkFault, TypeInv, TypeOK, TaskTypeOK
  <2>3. finished_ids' = finished_ids
    BY <1>5 DEF LinkFault
  <2>4. TaskTypeOK' /\ TaskOK'
    BY <2>1, <2>2, <2>3 DEF Replaced, TypeInv, TypeOK, TaskTypeOK, TaskOK
  <2>. QED
    BY <1>5, <2>4, Frames DEF LinkFault, sendVars, TypeInv, TypeOK
<1>. QED
  BY <1>2, <1>3, <1>4, <1>5 DEF TaskNext

LEMMA TypeStep == TypeInv /\ [Next]_vars => TypeInv'
<1>. SUFFICES ASSUME TypeInv, [Next]_vars PROVE TypeInv'
  OBVIOUS
<1>1. CASE Next
  BY <1>1, ThreadType, SendThreadType, RequestType, TaskType DEF Next
<1>2. CASE UNCHANGED vars
  BY <1>2, Frames DEF vars, sendVars, TypeInv, TypeOK
<1>. QED
  BY <1>1, <1>2

\* Both channels keep their types: the fields of a call, of a queued message and
\* of a request fit each other at every step, whatever the threads do.
THEOREM ChannelTypeOK == Spec => []TypeOK
<1>1. TypeInv => TypeOK
  BY DEF TypeInv
<1>. QED
  BY <1>1, TypeInit, TypeStep, PTL DEF Spec

-----------------------------------------------------------------------------
(* What Send and an acknowledgement promise. *)

\* A request that was answered is in the peer's received_msg_ids_.
ServedReceived ==
  \A p \in Peers : \A x \in tasks[p] :
    x.key \in Keys /\ x.state = "served" => x.id \in received_msg_ids[Peer(p)]

\* Message i has reached p and is no longer waiting to be read.
Consumed(p, i) == i \in received_msg_ids[p] /\ \A m \in recv_msgs[p] : m.id # i

\* Unread messages were received, each under its own id.
UnreadOK ==
  \A p \in Peers : \A m \in recv_msgs[p] :
    /\ m.id \in received_msg_ids[p]
    /\ \A n \in recv_msgs[p] : n.id = m.id => n = m

\* Acknowledgements that are under way, or about to be sent by Recv.
AckTasksOK ==
  \A p \in Peers : \A x \in tasks[p] : x.key = kAckKey => Consumed(p, x.id)
AckThreadsOK ==
  \A p \in Peers, t \in Threads :
    thread[p][t].pc = "ack" => Consumed(p, thread[p][t].id)

PromiseInv == /\ TypeInv
              /\ ServedReceived
              /\ ExitIfAsyncError => SendDelivers
              /\ UnreadOK /\ AckTasksOK /\ AckThreadsOK
              /\ AckMeansConsumed

LEMMA PromiseInit == Init => PromiseInv
<1>. SUFFICES ASSUME Init PROVE PromiseInv
  OBVIOUS
<1>1. ServedReceived /\ SendDelivers /\ UnreadOK /\ AckTasksOK /\ AckMeansConsumed
  <2>. DEFINE Empty(f) == \A p \in Peers : f[p] = {}
  <2>1. Empty(tasks) /\ Empty(finished_ids) /\ Empty(recv_msgs) /\ Empty(received_ack_ids)
    BY DEF Init
  <2>. QED
    BY <2>1 DEF ServedReceived, SendDelivers, UnreadOK, AckTasksOK, AckMeansConsumed
<1>2. AckThreadsOK
  BY DEF Init, AckThreadsOK, Idle
<1>. QED
  BY <1>1, <1>2, TypeInit DEF PromiseInv

\* Messages are only ever received, and only a message that is received anew
\* becomes unread: what was consumed stays consumed.
Grows == \A p \in Peers :
           /\ received_msg_ids[p] \subseteq received_msg_ids'[p]
           /\ \A m \in recv_msgs'[p] : m \in recv_msgs[p] \/ m.id \notin received_msg_ids[p]

LEMMA ConsumedStays ==
  ASSUME Grows
  PROVE  \A p \in Peers, i \in 0 .. MaxMsgs : Consumed(p, i) => Consumed(p, i)'
  BY DEF Grows, Consumed

\* A step that keeps the tasks' keys, ids and answers, or adds tasks that make
\* no new claim, keeps the invariant's parts about tasks.
LEMMA TasksKeep ==
  ASSUME PromiseInv, Grows, TypeInv',
         \A p \in Peers : \A y \in tasks'[p] :
           \/ y \in tasks[p]
           \/ /\ y.key \in Keys /\ y.state = "served" => y.id \in received_msg_ids'[Peer(p)]
              /\ y.key = kAckKey => Consumed(p, y.id)'
  PROVE  ServedReceived' /\ AckTasksOK'
<1>1. ServedReceived'
  BY PeerOther DEF PromiseInv, ServedReceived, Grows
<1>2. AckTasksOK'
  <2>. SUFFICES ASSUME NEW p \in Peers, NEW y \in tasks'[p], y.key = kAckKey, y \in tasks[p]
                PROVE  Consumed(p, y.id)'
    BY DEF AckTasksOK
  <2>1. Consumed(p, y.id) /\ y.id \in 0 .. MaxMsgs
    BY DEF PromiseInv, AckTasksOK, TypeInv, TypeOK, TaskTypeOK, Task
  <2>. QED
    BY <2>1, ConsumedStays
<1>. QED
  BY <1>1, <1>2

\* A step that neither finishes an id nor receives an acknowledgement.
LEMMA ClaimsKeep ==
  ASSUME PromiseInv, Grows, UNCHANGED <<finished_ids, received_ack_ids>>
  PROVE  (ExitIfAsyncError => SendDelivers') /\ AckMeansConsumed'
<1>1. ExitIfAsyncError => SendDelivers'
  BY PeerOther DEF PromiseInv, SendDelivers, Grows
<1>2. AckMeansConsumed'
  <2>. SUFFICES ASSUME NEW p \in Peers, NEW i \in received_ack_ids[p]
                PROVE  Consumed(Peer(p), i)'
    BY DEF AckMeansConsumed, Consumed
  <2>1. i \in 0 .. MaxMsgs
    BY BoundsAssumption DEF PromiseInv, TypeInv, TypeOK, RecvTypeOK
  <2>2. Consumed(Peer(p), i)
    BY DEF PromiseInv, AckMeansConsumed, Consumed
  <2>. QED
    BY <2>1, <2>2, PeerOther, ConsumedStays
<1>. QED
  BY <1>1, <1>2

\* Threads that are at "ack" after a step were there before it.
LEMMA AckThreadsKeep ==
  ASSUME PromiseInv, Grows,
         \A p \in Peers, t \in Threads :
           thread'[p][t].pc = "ack" => thread'[p][t] = thread[p][t]
  PROVE  AckThreadsOK'
<1>. SUFFICES ASSUME NEW p \in Peers, NEW t \in Threads, thread'[p][t].pc = "ack"
              PROVE  Consumed(p, thread[p][t].id)'
  BY DEF AckThreadsOK
<1>1. /\ thread'[p][t] = thread[p][t] /\ thread[p][t].pc = "ack"
      /\ thread[p][t].id \in 0 .. MaxMsgs
  BY DEF PromiseInv, TypeInv, TypeOK, ThreadTypeOK, ThreadState
<1>2. Consumed(p, thread[p][t].id)
  BY <1>1 DEF PromiseInv, AckThreadsOK
<1>3. \A i \in 0 .. MaxMsgs : i = thread[p][t].id => Consumed(p, i)'
  BY <1>2, ConsumedStays
<1>. QED
  BY <1>1, <1>3 DEF Consumed

\* Steps of the user's threads and of the send thread that receive nothing and
\* take nothing out of recv_msgs_.
LEMMA QuietStep ==
  ASSUME PromiseInv, TypeInv',
         UNCHANGED <<recv_msgs, received_msg_ids, received_ack_ids, finished_ids>>,
         \A p \in Peers, t \in Threads :
           thread'[p][t].pc = "ack" => thread'[p][t] = thread[p][t],
         \A p \in Peers : \A y \in tasks'[p] :
           \/ y \in tasks[p]
           \/ /\ y.state # "served"
              /\ y.key = kAckKey => Consumed(p, y.id)
  PROVE  PromiseInv'
<1>1. Grows
  BY DEF Grows
<1>2. UnreadOK'
  BY DEF PromiseInv, UnreadOK
<1>3. ServedReceived' /\ AckTasksOK'
  <2>1. \A p \in Peers : \A i : Consumed(p, i) => Consumed(p, i)'
    BY DEF Consumed
  <2>. QED
    BY <1>1, <2>1, TasksKeep
<1>4. (ExitIfAsyncError => SendDelivers') /\ AckMeansConsumed'
  BY <1>1, ClaimsKeep
<1>5. AckThreadsOK'
  BY <1>1, AckThreadsKeep
<1>. QED
  BY <1>2, <1>3, <1>4, <1>5 DEF PromiseInv

\* A new task claims nothing about its message.
LEMMA NewTaskFresh ==
  ASSUME NEW p \in Peers, NEW key, NEW id
  PROVE  NewTask(p, key, id).state # "served" /\ NewTask(p, key, id).key = key
         /\ NewTask(p, key, id).id = id
  BY DEF NewTask

\* How the other steps of a thread change the threads.
LEMMA NoNewAck ==
  ASSUME TypeInv, NEW p \in Peers, NEW t \in Threads, NEW pc \in ThreadPc \ {"ack"},
         Goto(p, t, pc) \/ Return(p, t)
  PROVE  \A s \in Peers, u \in Threads :
           thread'[s][u].pc = "ack" => thread'[s][u] = thread[s][u]
<1>0. ThreadTypeOK /\ thread[p][t] \in ThreadState
  BY DEF TypeInv, TypeOK, ThreadTypeOK
<1>1. CASE Goto(p, t, pc)
  <2>1. [thread[p][t] EXCEPT !.pc = pc].pc = pc
    BY <1>0 DEF ThreadState
  <2>2. thread' = [thread EXCEPT ![p][t] = [thread[p][t] EXCEPT !.pc = pc]]
    BY <1>0, <1>1, GotoSet
  <2>. QED
    BY <1>0, <2>1, <2>2 DEF ThreadTypeOK
<1>2. CASE Return(p, t)
  BY <1>0, <1>2 DEF Return, Idle, ThreadTypeOK
<1>. QED
  BY <1>1, <1>2

LEMMA ThreadPromise ==
  ASSUME PromiseInv, TypeInv', NEW p \in Peers, NEW t \in Threads,
         UserNext(p, t) \/ CallNext(p, t) \/ CloseNext(p, t)
  PROVE  PromiseInv'
<1>0. TypeInv /\ ThreadTypeOK /\ thread[p][t] \in ThreadState
  BY DEF PromiseInv, TypeInv, TypeOK, ThreadTypeOK
<1>1. ASSUME NEW call \in Calls, NEW key \in Keys, CallSend(p, t, call, key)
      PROVE  PromiseInv'
  BY <1>0, <1>1, QuietStep DEF CallSend, ThreadTypeOK, recvVars, taskVars
<1>2. ASSUME NEW key \in Keys, CallRecv(p, t, key)
      PROVE  PromiseInv'
  BY <1>0, <1>2, QuietStep DEF CallRecv, ThreadTypeOK, recvVars, taskVars
<1>3. CASE FetchSeqId(p, t)
  <2>1. \A s \in Peers, u \in Threads :
          thread'[s][u].pc = "ack" => thread'[s][u] = thread[s][u]
    <3>. DEFINE r == [thread[p][t] EXCEPT !.pc = "push", !.id = msg_seq_id[p] + 1]
    <3>1. r.pc = "push"
      BY <1>0 DEF ThreadState
    <3>2. thread' = [thread EXCEPT ![p][t] = r]
      BY <1>0, <1>3 DEF FetchSeqId, ThreadTypeOK
    <3>. HIDE DEF r
    <3>. QED
      BY <1>0, <3>1, <3>2 DEF ThreadTypeOK
  <2>. QED
    BY <1>3, <2>1, QuietStep DEF FetchSeqId, recvVars, taskVars
<1>4. CASE Push(p, t) \/ SendReturns(p, t) \/ ThrottledReturns(p, t) \/ RecvThrows(p, t)
  <2>1. \E pc \in {"sync", "throttle"} : Goto(p, t, pc) \/ Return(p, t)
    <3>1. thread[p][t].pc = "push" =>
            thread[p][t].call \in {"Send", "SendAsync", "SendAsyncThrottled"}
      BY <1>0, UserAssumption DEF TypeInv, CallOK
    <3>. QED
      BY <1>4, <3>1 DEF Push, SendReturns, ThrottledReturns, RecvThrows, At
  <2>2. UNCHANGED <<recvVars, taskVars>>
    BY <1>4 DEF Push, SendReturns, ThrottledReturns, RecvThrows
  <2>. QED
    BY <1>0, <2>1, <2>2, NoNewAck, QuietStep DEF recvVars, taskVars, ThreadPc
<1>5. CASE \/ WaitForFin(p, t) \/ WaitForFlyingMsg(p, t) \/ JoinSendThread(p, t)
           \/ WaitAllSendFinished(p, t) \/ WaitForFlyingAck(p, t) \/ AbortJoin(p, t)
           \/ StopSendThread(p, t) \/ AbortStop(p, t) \/ AbortFlag(p, t)
  <2>1. /\ \E pc \in ThreadPc \ {"ack"} : Goto(p, t, pc)
        /\ UNCHANGED <<recvVars, taskVars>>
    BY <1>5 DEF WaitForFin, WaitForFlyingMsg, JoinSendThread, WaitAllSendFinished,
                WaitForFlyingAck, AbortJoin, StopSendThread, AbortStop, AbortFlag, WaitStep,
                ThreadPc
  <2>. QED
    BY <1>0, <2>1, NoNewAck, QuietStep DEF recvVars, taskVars
<1>6. CASE StopServer(p, t)
  BY <1>6, QuietStep DEF StopServer, recvVars, taskVars
<1>7. CASE SendFin(p, t)
  <2>1. Goto(p, t, "waitfin") /\ UNCHANGED <<recvVars, finished_ids>>
    BY <1>7 DEF SendFin
  <2>2. \A s \in Peers : \A y \in tasks'[s] :
          y \in tasks[s] \/ (y.state # "served" /\ y.key = kFinKey)
    BY <1>0, <1>7, NewTaskFresh DEF SendFin, TypeInv, TypeOK, TaskTypeOK
  <2>. QED
    BY <1>0, <2>1, <2>2, NoNewAck, QuietStep DEF recvVars, ThreadPc, kFinKey, kAckKey
<1>8. CASE RecvAck(p, t)
  <2>1. Return(p, t) /\ UNCHANGED <<recvVars, finished_ids>> /\ thread[p][t].pc = "ack"
    BY <1>8 DEF RecvAck, At
  <2>2. Consumed(p, thread[p][t].id)
    BY <2>1 DEF PromiseInv, AckThreadsOK
  <2>3. \A s \in Peers : \A y \in tasks'[s] :
          y \in tasks[s] \/ (y.state # "served" /\ s = p /\ y.id = thread[p][t].id)
    BY <1>0, <1>8, NewTaskFresh DEF RecvAck, TypeInv, TypeOK, TaskTypeOK
  <2>4. \A s \in Peers : \A y \in tasks'[s] :
          y \in tasks[s] \/ (y.state # "served" /\ Consumed(s, y.id))
    BY <2>2, <2>3
  <2>5. "idle" \in ThreadPc \ {"ack"}
    BY DEF ThreadPc
  <2>6. \A s \in Peers, u \in Threads :
          thread'[s][u].pc = "ack" => thread'[s][u] = thread[s][u]
    BY <1>0, <2>1, <2>5, NoNewAck
  <2>. QED
    BY <2>1, <2>4, <2>6, QuietStep DEF recvVars
<1>9. CASE RecvTake(p, t)
  <2>1. PICK m \in recv_msgs[p] :
           /\ recv_msgs' = [recv_msgs EXCEPT ![p] = @ \ {m}]
           /\ thread' = [thread EXCEPT ![p][t].pc = "ack", ![p][t].id = m.id]
    BY <1>9 DEF RecvTake
  <2>2. UNCHANGED <<received_msg_ids, received_ack_ids, tasks, finished_ids>>
    BY <1>9 DEF RecvTake, taskVars
  <2>3. Grows
    BY <1>0, <2>1, <2>2 DEF Grows, TypeInv, TypeOK, RecvTypeOK
  <2>4. UnreadOK'
    BY <1>0, <2>1, <2>2 DEF PromiseInv, UnreadOK, TypeInv, TypeOK, RecvTypeOK
  <2>5. ServedReceived' /\ AckTasksOK'
    BY <2>2, <2>3, TasksKeep
  <2>6. (ExitIfAsyncError => SendDelivers') /\ AckMeansConsumed'
    BY <2>2, <2>3, ClaimsKeep
  <2>7. AckThreadsOK'
    <3>. DEFINE r == [thread[p][t] EXCEPT !.pc = "ack", !.id = m.id]
    <3>1. r.id = m.id
      BY <1>0 DEF ThreadState
    <3>2. thread' = [thread EXCEPT ![p][t] = r]
      BY <1>0, <2>1 DEF ThreadTypeOK
    <3>3. /\ thread'[p][t] = r
          /\ \A s \in Peers, u \in Threads : s # p \/ u # t => thread'[s][u] = thread[s][u]
      <4>. HIDE DEF r
      <4>. QED
        BY <1>0, <3>2 DEF ThreadTypeOK
    <3>4. Consumed(p, m.id)'
      BY <1>0, <2>1, <2>2 DEF Consumed, PromiseInv, UnreadOK, TypeInv, TypeOK, RecvTypeOK
    <3>5. ASSUME NEW s \in Peers, NEW u \in Threads, s # p \/ u # t, thread[s][u].pc = "ack"
          PROVE  Consumed(s, thread[s][u].id)'
      <4>1. thread'[s][u].id = thread[s][u].id /\ thread[s][u].id \in 0 .. MaxMsgs
        BY <1>0, <3>3, <3>5 DEF ThreadTypeOK, ThreadState
      <4>2. Consumed(s, thread[s][u].id)
        BY <3>5 DEF PromiseInv, AckThreadsOK
      <4>3. \A i \in 0 .. MaxMsgs : i = thread[s][u].id => Consumed(s, i)'
        BY <2>3, <4>2, ConsumedStays
      <4>. QED
        BY <4>1, <4>3 DEF Consumed
    <3>. HIDE DEF r
    <3>. QED
      BY <3>1, <3>3, <3>4, <3>5 DEF AckThreadsOK, Consumed
  <2>. QED
    BY <2>4, <2>5, <2>6, <2>7 DEF PromiseInv
<1>10. CASE StopReceivingAndAckUnreadMsgs(p, t)
  <2>1. /\ Goto(p, t, "fin") /\ recv_msgs' = [recv_msgs EXCEPT ![p] = {}]
        /\ UNCHANGED <<received_msg_ids, received_ack_ids, finished_ids>>
    BY <1>10 DEF StopReceivingAndAckUnreadMsgs
  <2>2. Grows
    BY <1>0, <2>1 DEF Grows, TypeInv, TypeOK, RecvTypeOK
  <2>3. UnreadOK'
    BY <1>0, <2>1 DEF PromiseInv, UnreadOK, TypeInv, TypeOK, RecvTypeOK
  <2>4. \A s \in Peers : \A y \in tasks'[s] :
          \/ y \in tasks[s]
          \/ s = p /\ y.state # "served" /\ \E m \in recv_msgs[p] : y.id = m.id
    BY <1>0, <1>10, NewTaskFresh
       DEF StopReceivingAndAckUnreadMsgs, TypeInv, TypeOK, TaskTypeOK
  <2>5. \A m \in recv_msgs[p] : Consumed(p, m.id)'
    BY <1>0, <2>1 DEF Consumed, PromiseInv, UnreadOK, TypeInv, TypeOK, RecvTypeOK
  <2>6. \A s \in Peers : \A y \in tasks'[s] :
          y \in tasks[s] \/ (y.state # "served" /\ Consumed(s, y.id)')
    BY <2>4, <2>5
  <2>7. ServedReceived' /\ AckTasksOK'
    BY <2>2, <2>6, TasksKeep
  <2>8. (ExitIfAsyncError => SendDelivers') /\ AckMeansConsumed'
    BY <2>1, <2>2, ClaimsKeep
  <2>9. AckThreadsOK'
    <3>1. "fin" \in ThreadPc \ {"ack"}
      BY DEF ThreadPc
    <3>. QED
      BY <1>0, <2>1, <2>2, <3>1, NoNewAck, AckThreadsKeep
  <2>. QED
    BY <2>3, <2>7, <2>8, <2>9 DEF PromiseInv
<1>. QED
  BY <1>1, <1>2, <1>3, <1>4, <1>5, <1>6, <1>7, <1>8, <1>9, <1>10
     DEF UserNext, CallNext, CloseNext

LEMMA SendThreadPromise ==
  ASSUME PromiseInv, TypeInv', NEW p \in Peers, SendThreadNext(p)
  PROVE  PromiseInv'
<1>0. TypeInv
  BY DEF PromiseInv
<1>1. CASE SendThreadSubmit(p) \/ SendThreadDrain(p)
  <2>1. \E pc \in {"window", "drain"} : Submit(p, pc)
    BY <1>1 DEF SendThreadSubmit, SendThreadDrain
  <2>2. Head(send_msgs[p]) \in Message
    BY <1>0, <2>1 DEF Submit, TypeInv, TypeOK, SendTypeOK
  <2>3. Head(send_msgs[p]).key \in Keys
    BY <2>2 DEF Message
  <2>4. \A s \in Peers : \A y \in tasks'[s] :
          y \in tasks[s] \/ (y.state # "served" /\ y.key \in Keys)
    BY <1>0, <2>1, <2>3, NewTaskFresh DEF Submit, TypeInv, TypeOK, TaskTypeOK
  <2>5. UNCHANGED <<recvVars, finished_ids, thread>>
    BY <2>1 DEF Submit
  <2>. QED
    BY <2>4, <2>5, KeysAssumption, QuietStep DEF recvVars
<1>2. CASE \/ SendThreadCheck(p) \/ SendThreadWoken(p) \/ SendThreadWindow(p)
           \/ SendThreadThrows(p) \/ SendThreadDone(p)
  <2>1. UNCHANGED <<recvVars, taskVars, thread>>
    BY <1>2 DEF SendThreadCheck, SendThreadWoken, SendThreadWindow, SendThreadThrows,
                SendThreadDone
  <2>. QED
    BY <2>1, QuietStep DEF recvVars, taskVars
<1>. QED
  BY <1>1, <1>2 DEF SendThreadNext

LEMMA RequestPromise ==
  ASSUME PromiseInv, TypeInv', NEW p \in Peers, NEW x \in tasks[p], RequestNext(p, x)
  PROVE  PromiseInv'
<1>. DEFINE q == Peer(p)
            a == NewTask(q, kAckKey, x.id)
<1>0. TypeInv /\ x \in Task
  BY DEF PromiseInv, TypeInv, TypeOK, TaskTypeOK
<1>1. q \in Peers /\ q # p /\ Peer(q) = p
  BY PeerOther
<1>2. /\ Served(x).key = x.key /\ Served(x).id = x.id
      /\ Refused(x).key = x.key /\ Refused(x).id = x.id /\ Refused(x).state # "served"
      /\ a.state # "served" /\ a.key = kAckKey /\ a.id = x.id
  BY <1>0, <1>1, TaskStates, NewTaskFresh
<1>3. /\ finished_ids' = finished_ids /\ thread' = thread
      /\ \A s \in Peers, u \in Threads :
           thread'[s][u].pc = "ack" => thread'[s][u] = thread[s][u]
  BY DEF RequestNext, OnRequestAborting, OnAck, OnFin, OnDuplicate, OnNormalMessage,
         OnKeyClash, OnAutoAck
<1>4. x.key = kAckKey => Consumed(p, x.id)
  BY DEF PromiseInv, AckTasksOK
<1>5. kAckKey \notin Keys /\ kFinKey \notin Keys /\ kAckKey # kFinKey
  BY KeysAssumption DEF kAckKey, kFinKey
<1>6. CASE OnRequestAborting(p, x) \/ OnFin(p, x) \/ OnDuplicate(p, x)
  <2>1. UNCHANGED <<recv_msgs, received_msg_ids, received_ack_ids>>
    BY <1>6 DEF OnRequestAborting, OnFin, OnDuplicate, recvVars
  <2>2. Grows /\ UnreadOK'
    BY <2>1 DEF Grows, PromiseInv, UnreadOK
  <2>3. \A s \in Peers : \A y \in tasks'[s] :
          \/ y \in tasks[s]
          \/ s = p /\ y = Served(x) /\ (x.key = kFinKey \/ x.id \in received_msg_ids[q])
          \/ s = p /\ y = Refused(x)
    BY <1>0, <1>6 DEF OnRequestAborting, OnFin, OnDuplicate, IsDuplicate, Replaced, TypeInv,
                      TypeOK, TaskTypeOK
  <2>4. ServedReceived' /\ AckTasksOK'
    <3>1. x.key = kAckKey => Consumed(p, x.id)'
      BY <1>4, <2>1 DEF Consumed
    <3>. HIDE DEF q, a
    <3>2. \A s \in Peers : \A y \in tasks'[s] :
            \/ y \in tasks[s]
            \/ /\ y.key \in Keys /\ y.state = "served" => y.id \in received_msg_ids'[Peer(s)]
               /\ y.key = kAckKey => Consumed(s, y.id)'
      BY <1>2, <1>5, <2>1, <2>3, <3>1 DEF q
    <3>. QED
      BY <2>2, <3>2, TasksKeep
  <2>. QED
    BY <1>3, <2>1, <2>2, <2>4, ClaimsKeep, AckThreadsKeep DEF PromiseInv
<1>7. CASE OnAck(p, x)
  <2>1. /\ UNCHANGED <<recv_msgs, received_msg_ids>>
        /\ x.key = kAckKey
        /\ received_ack_ids' = [received_ack_ids EXCEPT ![q] = @ \cup {x.id}]
        /\ tasks' = Replaced(p, x, Served(x))
    BY <1>7 DEF OnAck
  <2>2. Grows /\ UnreadOK'
    BY <2>1 DEF Grows, PromiseInv, UnreadOK
  <2>3. ServedReceived' /\ AckTasksOK'
    <3>1. Consumed(p, x.id)'
      BY <1>4, <2>1 DEF Consumed
    <3>2. \A s \in Peers : \A y \in tasks'[s] : y \in tasks[s] \/ (s = p /\ y = Served(x))
      BY <1>0, <2>1 DEF Replaced, TypeInv, TypeOK, TaskTypeOK
    <3>. HIDE DEF q, a
    <3>. QED
      BY <1>2, <1>5, <2>1, <2>2, <3>1, <3>2, TasksKeep
  <2>4. ExitIfAsyncError => SendDelivers'
    BY <1>3, <2>1 DEF PromiseInv, SendDelivers
  <2>5. AckMeansConsumed'
    <3>1. \A s \in Peers : \A i \in received_ack_ids'[s] :
            i \in received_ack_ids[s] \/ (s = q /\ i = x.id)
      BY <1>0, <1>1, <2>1 DEF TypeInv, TypeOK, RecvTypeOK
    <3>. HIDE DEF q, a
    <3>. QED
      BY <1>1, <1>4, <2>1, <3>1 DEF PromiseInv, AckMeansConsumed, Consumed
  <2>. QED
    BY <1>3, <2>2, <2>3, <2>4, <2>5, AckThreadsKeep DEF PromiseInv
<1>8. CASE OnNormalMessage(p, x) \/ OnKeyClash(p, x) \/ OnAutoAck(p, x)
  <2>1. /\ x.key \in Keys /\ x.id \notin received_msg_ids[q]
        /\ received_msg_ids' = [received_msg_ids EXCEPT ![q] = @ \cup {x.id}]
        /\ received_ack_ids' = received_ack_ids
    BY <1>8 DEF OnNormalMessage, OnKeyClash, OnAutoAck, IsDuplicate
  <2>2. \/ recv_msgs' = [recv_msgs EXCEPT ![q] = @ \cup {[key |-> x.key, id |-> x.id]}]
        \/ recv_msgs' = recv_msgs
    BY <1>8 DEF OnNormalMessage, OnKeyClash, OnAutoAck
  <2>3. \/ tasks' = Replaced(p, x, Served(x)) \/ tasks' = Replaced(p, x, Refused(x))
        \/ /\ tasks' = [tasks EXCEPT ![p] = (@ \ {x}) \cup {Served(x)}, ![q] = @ \cup {a}]
           /\ recv_msgs' = recv_msgs
    BY <1>8 DEF OnNormalMessage, OnKeyClash, OnAutoAck
  <2>4. Grows
    BY <1>0, <1>1, <2>1, <2>2 DEF Grows, TypeInv, TypeOK, RecvTypeOK
  <2>5. UnreadOK'
    <3>1. \A s \in Peers : \A m \in recv_msgs'[s] :
            m \in recv_msgs[s] \/ (s = q /\ m = [key |-> x.key, id |-> x.id])
      BY <1>0, <1>1, <2>2 DEF TypeInv, TypeOK, RecvTypeOK
    <3>2. \A s \in Peers : \A m \in recv_msgs[s] :
            m.id \in received_msg_ids[s] /\ m.id \in received_msg_ids'[s]
      BY <2>4 DEF PromiseInv, UnreadOK, Grows
    <3>3. x.id \in received_msg_ids'[q] /\ x.id \notin received_msg_ids[q]
      BY <1>0, <1>1, <2>1 DEF TypeInv, TypeOK, RecvTypeOK
    <3>. HIDE DEF q, a
    <3>. QED
      BY <3>1, <3>2, <3>3 DEF PromiseInv, UnreadOK
  <2>6. ServedReceived' /\ AckTasksOK'
    <3>1. x.id \in received_msg_ids'[q]
      BY <1>0, <1>1, <2>1 DEF TypeInv, TypeOK, RecvTypeOK
    <3>2. recv_msgs' = recv_msgs => Consumed(q, x.id)'
      BY <1>1, <2>1, <3>1 DEF Consumed, PromiseInv, UnreadOK
    <3>. HIDE DEF a
    <3>3. \A s \in Peers : \A y \in tasks'[s] :
            \/ y \in tasks[s] \/ (s = p /\ y = Served(x)) \/ (s = p /\ y = Refused(x))
            \/ (s = q /\ y = a /\ recv_msgs' = recv_msgs)
      BY <1>0, <1>1, <2>3 DEF Replaced, TypeInv, TypeOK, TaskTypeOK
    <3>. HIDE DEF q
    <3>4. \A s \in Peers : \A y \in tasks'[s] :
            \/ y \in tasks[s]
            \/ /\ y.key \in Keys /\ y.state = "served" => y.id \in received_msg_ids'[Peer(s)]
               /\ y.key = kAckKey => Consumed(s, y.id)'
      BY <1>2, <1>5, <2>1, <3>1, <3>2, <3>3 DEF q
    <3>. QED
      BY <2>4, <3>4, TasksKeep
  <2>. QED
    BY <1>3, <2>1, <2>4, <2>5, <2>6, ClaimsKeep, AckThreadsKeep DEF PromiseInv
<1>. QED
  BY <1>6, <1>7, <1>8 DEF RequestNext

LEMMA TaskPromise ==
  ASSUME PromiseInv, TypeInv', NEW p \in Peers, NEW x \in tasks[p],
         TaskNext(p, x) \/ LinkFault(p, x)
  PROVE  PromiseInv'
<1>0. TypeInv /\ x \in Task
  BY DEF PromiseInv, TypeInv, TypeOK, TaskTypeOK
<1>1. UNCHANGED <<recv_msgs, received_msg_ids, received_ack_ids, thread>>
  BY DEF TaskNext, TaskDone, TaskAborted, AsyncError, LinkFault, recvVars
<1>2. x.key = kAckKey => Consumed(p, x.id)
  BY DEF PromiseInv, AckTasksOK
<1>3. CASE TaskAborted(p, x) \/ LinkFault(p, x)
  <2>1. \E y \in Task : /\ y.key = x.key /\ y.id = x.id /\ y.state # "served"
                        /\ tasks' = Replaced(p, x, y)
    <3>1. Failed(x) \in Task /\ Failed(x).key = x.key /\ Failed(x).id = x.id
          /\ Failed(x).state # "served"
      BY <1>0, TaskStates
    <3>2. CASE tasks' = Replaced(p, x, Failed(x))
      BY <3>1, <3>2
    <3>3. CASE LinkFault(p, x) /\ x.tries < MaxRetry /\ tasks' = Replaced(p, x, [x EXCEPT !.state = "flying", !.tries = @ + 1])
      <4>. DEFINE y == [x EXCEPT !.state = "flying", !.tries = @ + 1]
      <4>1. x.tries \in 0 .. MaxRetry
        BY <1>0 DEF Task
      <4>2. x.tries + 1 \in 0 .. MaxRetry
        BY <4>1, <3>3, BoundsAssumption
      <4>3. y \in Task /\ y.key = x.key /\ y.id = x.id /\ y.state # "served"
        BY <1>0, <4>2 DEF Task
      <4>4. tasks' = Replaced(p, x, y)
        BY <3>3 DEF LinkFault
      <4>. QED
        BY <4>3, <4>4
    <3>. QED
      BY <1>3, <3>2, <3>3 DEF TaskAborted, LinkFault
  <2>2. \A s \in Peers : \A y \in tasks'[s] :
          \/ y \in tasks[s]
          \/ s = p /\ y.state # "served" /\ y.key = x.key /\ y.id = x.id
    BY <1>0, <2>1 DEF Replaced, TypeInv, TypeOK, TaskTypeOK
  <2>3. finished_ids' = finished_ids
    BY <1>3 DEF TaskAborted, LinkFault
  <2>4. \A s \in Peers : \A y \in tasks'[s] :
          \/ y \in tasks[s]
          \/ y.state # "served" /\ (y.key = kAckKey => Consumed(s, y.id))
    BY <1>2, <2>2
  <2>. QED
    BY <1>1, <2>3, <2>4, QuietStep
<1>4. CASE TaskDone(p, x) \/ AsyncError(p, x)
  <2>1. \A s \in Peers : tasks'[s] \subseteq tasks[s]
    BY <1>0, <1>4 DEF TaskDone, AsyncError, EndTask, TypeInv, TypeOK, TaskTypeOK
  <2>2. Grows /\ UnreadOK'
    BY <1>1 DEF Grows, PromiseInv, UnreadOK
  <2>3. ServedReceived' /\ AckTasksOK'
    BY <2>1, <2>2, TasksKeep
  <2>4. AckMeansConsumed'
    BY <1>1 DEF PromiseInv, AckMeansConsumed
  <2>5. ExitIfAsyncError => SendDelivers'
    <3>. SUFFICES ASSUME ExitIfAsyncError PROVE SendDelivers'
      OBVIOUS
    <3>1. CASE AsyncError(p, x)
      BY <1>1, <3>1 DEF AsyncError, PromiseInv, SendDelivers
    <3>2. CASE TaskDone(p, x)
      <4>1. x.key \in Keys => x.id \in received_msg_ids[Peer(p)]
        BY <3>2 DEF TaskDone, PromiseInv, ServedReceived
      <4>. QED
        BY <1>0, <1>1, <3>2, <4>1 DEF TaskDone, EndTask, PromiseInv, SendDelivers, TypeInv,
                                      TypeOK, TaskTypeOK
    <3>. QED
      BY <1>4, <3>1, <3>2
  <2>. QED
    BY <1>1, <2>2, <2>3, <2>4, <2>5, AckThreadsKeep DEF PromiseInv
<1>. QED
  BY <1>3, <1>4 DEF TaskNext

LEMMA PromiseStep == PromiseInv /\ [Next]_vars => PromiseInv'
<1>. SUFFICES ASSUME PromiseInv, [Next]_vars PROVE PromiseInv'
  OBVIOUS
<1>0. TypeInv'
  BY TypeStep DEF PromiseInv
<1>1. CASE Next
  BY <1>0, <1>1, ThreadPromise, SendThreadPromise, RequestPromise, TaskPromise DEF Next
<1>2. CASE UNCHANGED vars
  BY <1>0, <1>2, QuietStep DEF vars, recvVars, taskVars
<1>. QED
  BY <1>1, <1>2

LEMMA PromiseAlways == Spec => []PromiseInv
  BY PromiseInit, PromiseStep, PTL DEF Spec

\* An acknowledgement tells the truth, whatever is lost, retried, aborted or
\* closed and whatever keys are reused: a message the sender counts as consumed
\* was received and is not waiting to be read.
THEOREM ChannelAckMeansConsumed == Spec => []AckMeansConsumed
<1>1. PromiseInv => AckMeansConsumed
  BY DEF PromiseInv
<1>. QED
  BY <1>1, PromiseAlways, PTL

\* With exit_if_async_error, WaitSeqIdSendFinished lets Send return only for a
\* message the peer has received: no interleaving of retries, lost answers,
\* timeouts and aborts marks an id finished that the peer does not have.
THEOREM ChannelSendDelivers == ASSUME ExitIfAsyncError PROVE Spec => []SendDelivers
<1>1. PromiseInv => SendDelivers
  BY DEF PromiseInv
<1>. QED
  BY <1>1, PromiseAlways, PTL

=============================================================================
