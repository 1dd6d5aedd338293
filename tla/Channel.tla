------------------------------ MODULE Channel ------------------------------
(***************************************************************************)
(* yacl/link/transport/channel.{h,cc}: two Channels, one at each end of a  *)
(* TransportLink.  A channel numbers its messages, hands them through a    *)
(* queue to its send thread, which starts one task (a detached std::thread)*)
(* per message and then waits for the throttle window; a task sends one    *)
(* request, retrying on a LinkError, and marks its sequence id finished    *)
(* when it is destroyed.  The receiver drops duplicates by sequence id,    *)
(* stores messages under their key for Recv, and acknowledges a message    *)
(* when it is consumed.  WaitLinkTaskFinish closes with a FIN that carries *)
(* the number of messages sent; Abort stops everything.                    *)
(*                                                                         *)
(* A step is what the code does between two points where another thread    *)
(* can see or change what it uses.  Chunked transfer is one request here   *)
(* (see ChunkedSend), message contents are left out, and a wait on a       *)
(* condition variable is a guard.                                          *)
(***************************************************************************)
EXTENDS Naturals, Sequences, FiniteSets

CONSTANTS Peers,             \* the two ends
          Threads,           \* user threads of each end
          Keys,              \* message keys the user may send or receive
          Senders,           \* the ends whose user sends messages
          Calls,             \* which of "Send", "SendAsync", "SendAsyncThrottled"
          MaxMsgs,           \* bound: messages per end
          Window,            \* throttle_window_size_, 0 for no throttling
          MaxRetry,          \* retry_options_.max_retry
          MaxFaults,         \* bound: LinkErrors while both servers are up
          Faults,            \* LinkErrors: lose the "request" or the "answer", may be "final"
          ExitIfAsyncError,  \* exit_if_async_error_
          Serial,            \* the user closes only when no other call is running
          ReuseKeys,         \* the user may send a key twice
          Closers,           \* the ends whose user may call WaitLinkTaskFinish
          Aborts,            \* the ends whose user may call Abort
          Timeouts           \* recv_timeout_ms_ may run out

ASSUME PeersAssumption == \E p, q \in Peers : p # q /\ Peers = {p, q}

ASSUME BoundsAssumption == /\ MaxMsgs \in Nat
                           /\ Window \in Nat
                           /\ MaxRetry \in Nat
                           /\ MaxFaults \in Nat

ASSUME UserAssumption == /\ Faults \subseteq {"request", "answer", "final"}
                         /\ Senders \subseteq Peers
                         /\ Closers \subseteq Peers
                         /\ Aborts \subseteq Peers
                         /\ Calls \subseteq {"Send", "SendAsync", "SendAsyncThrottled"}

ASSUME FlagsAssumption == /\ ExitIfAsyncError \in BOOLEAN
                          /\ Serial \in BOOLEAN
                          /\ ReuseKeys \in BOOLEAN
                          /\ Timeouts \in BOOLEAN

ASSUME ThreadsAssumption == IsFiniteSet(Threads)

\* The reserved keys of acknowledgements and of the closing message; user keys
\* are checked against them by NormalMessageKeyEnforce.
kAckKey == "ACK"
kFinKey == "FIN"

ASSUME KeysAssumption == kAckKey \notin Keys /\ kFinKey \notin Keys

VARIABLES
  msg_seq_id,           \* msg_seq_id_: the last sequence id given out
  send_msgs,            \* send_msgs_: queue of [key, id]
  send_thread,          \* the send thread: [pc, id of the message it waits on]
  send_thread_stopped,  \* send_thread_stopped_ and the queue's stopped_
  tasks,                \* the running SendTasks: [key, id, state, tries]
  finished_ids,         \* send_sync_.finished_ids_
  recv_msgs,            \* recv_msgs_: unread messages [key, id]
  received_msg_ids,     \* received_msg_ids_
  received_ack_ids,     \* received_ack_ids_
  received_fin,         \* received_fin_
  peer_sent_msg_count,  \* peer_sent_msg_count_
  waiting_finish,       \* waiting_finish_
  aborting,             \* aborting_ and task_aborting_
  process,              \* "up", "stopped" (server closed) or "exited" (exit(-1))
  thread,               \* the user threads: [pc, call, key, id]
  used,                 \* keys the user has sent (what the user must remember)
  faults,               \* LinkErrors so far while both servers were up
  delivered             \* history: ids that Recv returned

sendVars == <<msg_seq_id, send_msgs, send_thread, send_thread_stopped>>
recvVars == <<recv_msgs, received_msg_ids, received_ack_ids, received_fin,
              peer_sent_msg_count>>
ctrlVars == <<waiting_finish, aborting, process>>
userVars == <<used, delivered>>
taskVars == <<tasks, finished_ids, faults>>
vars == <<sendVars, recvVars, ctrlVars, userVars, taskVars, thread>>

Peer(p) == CHOOSE q \in Peers : q # p

Idle == [pc |-> "idle", call |-> "none", key |-> "none", id |-> 0]

Init == /\ msg_seq_id = [p \in Peers |-> 0]
        /\ send_msgs = [p \in Peers |-> <<>>]
        /\ send_thread = [p \in Peers |-> [pc |-> "check", id |-> 0]]
        /\ send_thread_stopped = [p \in Peers |-> FALSE]
        /\ tasks = [p \in Peers |-> {}]
        /\ finished_ids = [p \in Peers |-> {}]
        /\ recv_msgs = [p \in Peers |-> {}]
        /\ received_msg_ids = [p \in Peers |-> {}]
        /\ received_ack_ids = [p \in Peers |-> {}]
        /\ received_fin = [p \in Peers |-> FALSE]
        /\ peer_sent_msg_count = [p \in Peers |-> 0]
        /\ waiting_finish = [p \in Peers |-> FALSE]
        /\ aborting = [p \in Peers |-> FALSE]
        /\ process = [p \in Peers |-> "up"]
        /\ thread = [p \in Peers |-> [t \in Threads |-> Idle]]
        /\ used = [p \in Peers |-> {}]
        /\ faults = 0
        /\ delivered = [p \in Peers |-> {}]

Up(p) == process[p] = "up"

\* Thread t of p is at step pc of its call.
At(p, t, pc) == Up(p) /\ thread[p][t].pc = pc

\* Thread t of p goes on to step pc; a call that ends leaves the thread idle.
Goto(p, t, pc) == thread' = [thread EXCEPT ![p][t].pc = pc]
Return(p, t) == thread' = [thread EXCEPT ![p][t] = Idle]

-----------------------------------------------------------------------------
\* SubmitSendTask: a task checks aborting_ before it sends its request.
NewTask(p, key, id) ==
    [key |-> key, id |-> id, tries |-> 0,
     state |-> IF aborting[p] THEN "failed" ELSE "flying"]

Replaced(p, x, y) == [tasks EXCEPT ![p] = (@ \ {x}) \cup {y}]

\* The wait conditions of WaitForFinAndFlyingMsg and WaitForFlyingAck: no more
\* than one run of ids, and it holds both the first and the last id.
SegmentsCount(S) == Cardinality({i \in S : i - 1 \notin S})

AllReceived(S, n) == n = 0 \/ (SegmentsCount(S) <= 1 /\ 1 \in S /\ n \in S)

\* Mutant of WindowOpen: one message more may be under way.
WindowOpenOff(p, id) == Window = 0 \/ Cardinality(received_ack_ids[p]) + Window >= id

\* Mutant of WindowOpen: the last message of a full window is waited for too.
WindowOpenLate(p, id) == Window = 0 \/ Cardinality(received_ack_ids[p]) + Window > id + 1

\* ThrottleWindowWait: received_ack_ids_.Count() against the message's own id.
WindowOpen(p, id) == Window = 0 \/ Cardinality(received_ack_ids[p]) + Window > id

-----------------------------------------------------------------------------
(* User threads: Send, SendAsync, SendAsyncThrottled, Recv. *)

\* The checks at the head of the three send calls.
CallSend(p, t, call, key) ==
    /\ At(p, t, "idle")
    /\ p \in Senders /\ call \in Calls
    /\ ~ aborting[p] /\ ~ waiting_finish[p]
    /\ msg_seq_id[p] + Cardinality({u \in Threads : thread[p][u].pc = "number"}) < MaxMsgs
    /\ key \notin used[p] \/ ReuseKeys
    /\ used' = [used EXCEPT ![p] = @ \cup {key}]
    /\ thread' = [thread EXCEPT ![p][t] =
                    [pc |-> "number", call |-> call, key |-> key, id |-> 0]]
    /\ UNCHANGED <<sendVars, recvVars, ctrlVars, taskVars, delivered>>

\* msg_seq_id_.fetch_add(1) + 1
FetchSeqId(p, t) ==
    /\ At(p, t, "number")
    /\ msg_seq_id' = [msg_seq_id EXCEPT ![p] = @ + 1]
    /\ thread' = [thread EXCEPT ![p][t].pc = "push", ![p][t].id = msg_seq_id[p] + 1]
    /\ UNCHANGED <<send_msgs, send_thread, send_thread_stopped, recvVars, ctrlVars,
                   userVars, taskVars>>

\* send_msgs_.Push, and what the call does next.
Push(p, t) ==
    LET th == thread[p][t] IN
    /\ At(p, t, "push")
    /\ send_msgs' = [send_msgs EXCEPT ![p] = Append(@, [key |-> th.key, id |-> th.id])]
    /\ CASE th.call = "Send" -> Goto(p, t, "sync")
         [] th.call = "SendAsyncThrottled" -> Goto(p, t, "throttle")
         [] th.call = "SendAsync" -> Return(p, t)
    /\ UNCHANGED <<msg_seq_id, send_thread, send_thread_stopped, recvVars, ctrlVars,
                   userVars, taskVars>>

\* WaitSeqIdSendFinished returns, or throws LinkAborted.
SendReturns(p, t) ==
    /\ At(p, t, "sync")
    /\ thread[p][t].id \in finished_ids[p] \/ aborting[p]
    /\ Return(p, t)
    /\ UNCHANGED <<sendVars, recvVars, ctrlVars, userVars, taskVars>>

\* ThrottleWindowWait returns, throws LinkAborted or times out.
ThrottledReturns(p, t) ==
    /\ At(p, t, "throttle")
    /\ WindowOpen(p, thread[p][t].id) \/ aborting[p] \/ Timeouts
    /\ Return(p, t)
    /\ UNCHANGED <<sendVars, recvVars, ctrlVars, userVars, taskVars>>

CallRecv(p, t, key) ==
    /\ At(p, t, "idle") /\ Peer(p) \in Senders
    /\ ~ aborting[p]
    /\ Serial => ~ waiting_finish[p]
    /\ thread' = [thread EXCEPT ![p][t] =
                    [pc |-> "recv", call |-> "Recv", key |-> key, id |-> 0]]
    /\ UNCHANGED <<sendVars, recvVars, ctrlVars, userVars, taskVars>>

\* Mutant of RecvTake: the message is copied and not erased.
RecvTakeCopies(p, t) ==
    /\ At(p, t, "recv")
    /\ \E m \in recv_msgs[p] :
         /\ m.key = thread[p][t].key
         /\ delivered' = [delivered EXCEPT ![p] = @ \cup {m.id}]
         /\ thread' = [thread EXCEPT ![p][t].pc = "ack", ![p][t].id = m.id]
    /\ UNCHANGED <<sendVars, recvVars, ctrlVars, used, taskVars>>

\* The message is moved out of recv_msgs_ under msg_mutex_ ...
RecvTake(p, t) ==
    /\ At(p, t, "recv")
    /\ \E m \in recv_msgs[p] :
         /\ m.key = thread[p][t].key
         /\ recv_msgs' = [recv_msgs EXCEPT ![p] = @ \ {m}]
         /\ delivered' = [delivered EXCEPT ![p] = @ \cup {m.id}]
         /\ thread' = [thread EXCEPT ![p][t].pc = "ack", ![p][t].id = m.id]
    /\ UNCHANGED <<sendVars, received_msg_ids, received_ack_ids, received_fin,
                   peer_sent_msg_count, ctrlVars, used, taskVars>>

\* ... and acknowledged after the mutex is released.
RecvAck(p, t) ==
    /\ At(p, t, "ack")
    /\ tasks' = [tasks EXCEPT ![p] = @ \cup {NewTask(p, kAckKey, thread[p][t].id)}]
    /\ Return(p, t)
    /\ UNCHANGED <<sendVars, recvVars, ctrlVars, userVars, finished_ids, faults>>

\* Recv throws: aborted, or no message of this key before the timeout.
RecvThrows(p, t) ==
    /\ At(p, t, "recv")
    /\ aborting[p] \/ Timeouts
    /\ \A m \in recv_msgs[p] : m.key # thread[p][t].key
    /\ Return(p, t)
    /\ UNCHANGED <<sendVars, recvVars, ctrlVars, userVars, taskVars>>

-----------------------------------------------------------------------------
(* The send thread. *)

\* while (!send_thread_stopped_) ... if (aborting_) return; ... drain
SendThreadCheck(p) ==
    /\ Up(p) /\ send_thread[p].pc = "check"
    /\ send_thread' = [send_thread EXCEPT ![p].pc =
                         CASE ~ send_thread_stopped[p] -> "pop"
                           [] send_thread_stopped[p] /\ aborting[p] -> "gone"
                           [] send_thread_stopped[p] /\ ~ aborting[p] -> "drain"]
    /\ UNCHANGED <<msg_seq_id, send_msgs, send_thread_stopped, recvVars, ctrlVars,
                   userVars, taskVars, thread>>

\* Pop and SubmitSendTask; pc is where the thread goes on.
Submit(p, pc) ==
    LET m == Head(send_msgs[p]) IN
    /\ send_msgs[p] # <<>>
    /\ send_msgs' = [send_msgs EXCEPT ![p] = Tail(@)]
    /\ tasks' = [tasks EXCEPT ![p] = @ \cup {NewTask(p, m.key, m.id)}]
    /\ send_thread' = [send_thread EXCEPT ![p] = [pc |-> pc, id |-> m.id]]
    /\ UNCHANGED <<msg_seq_id, send_thread_stopped, recvVars, ctrlVars, userVars,
                   finished_ids, faults, thread>>

SendThreadSubmit(p) == Up(p) /\ send_thread[p].pc = "pop" /\ Submit(p, "window")

\* Pop(true) comes back empty once EmptyNotify was called.
SendThreadWoken(p) ==
    /\ Up(p) /\ send_thread[p].pc = "pop"
    /\ send_msgs[p] = <<>> /\ send_thread_stopped[p]
    /\ send_thread' = [send_thread EXCEPT ![p].pc = "check"]
    /\ UNCHANGED <<msg_seq_id, send_msgs, send_thread_stopped, recvVars, ctrlVars,
                   userVars, taskVars, thread>>

SendThreadWindow(p) ==
    /\ Up(p) /\ send_thread[p].pc = "window"
    /\ WindowOpen(p, send_thread[p].id)
    /\ send_thread' = [send_thread EXCEPT ![p].pc = "check"]
    /\ UNCHANGED <<msg_seq_id, send_msgs, send_thread_stopped, recvVars, ctrlVars,
                   userVars, taskVars, thread>>

\* ThrottleWindowWait throws in the send thread (aborted or timed out), which
\* ends the thread: the process exits or the queue is never served again.
SendThreadThrows(p) ==
    /\ Up(p) /\ send_thread[p].pc = "window"
    /\ ~ WindowOpen(p, send_thread[p].id)
    /\ aborting[p] \/ Timeouts
    /\ send_thread' = [send_thread EXCEPT ![p].pc = "gone"]
    /\ process' = IF ExitIfAsyncError THEN [process EXCEPT ![p] = "exited"] ELSE process
    /\ UNCHANGED <<msg_seq_id, send_msgs, send_thread_stopped, recvVars,
                   waiting_finish, aborting, userVars, taskVars, thread>>

SendThreadDrain(p) == Up(p) /\ send_thread[p].pc = "drain" /\ Submit(p, "drain")

SendThreadDone(p) ==
    /\ Up(p) /\ send_thread[p].pc = "drain"
    /\ send_msgs[p] = <<>>
    /\ send_thread' = [send_thread EXCEPT ![p].pc = "gone"]
    /\ UNCHANGED <<msg_seq_id, send_msgs, send_thread_stopped, recvVars, ctrlVars,
                   userVars, taskVars, thread>>

-----------------------------------------------------------------------------
(* Requests: x is a task of p, its request is handled by q == Peer(p). *)

\* The request of task x of p reaches a server that is up.
Arrives(p, x) == x \in tasks[p] /\ x.state = "flying" /\ Up(Peer(p))

Served(x) == [x EXCEPT !.state = "served"]
Refused(x) == [x EXCEPT !.state = "refused"]
Failed(x) == [x EXCEPT !.state = "failed"]

\* OnRequest throws LinkAborted; the error answer is not retried.
OnRequestAborting(p, x) ==
    /\ Arrives(p, x) /\ aborting[Peer(p)]
    /\ tasks' = Replaced(p, x, Refused(x))
    /\ UNCHANGED <<sendVars, recvVars, ctrlVars, userVars, finished_ids, faults, thread>>

OnAck(p, x) ==
    LET q == Peer(p) IN
    /\ Arrives(p, x) /\ ~ aborting[q]
    /\ x.key = kAckKey
    /\ received_ack_ids' = [received_ack_ids EXCEPT ![q] = @ \cup {x.id}]
    /\ tasks' = Replaced(p, x, Served(x))
    /\ UNCHANGED <<sendVars, recv_msgs, received_msg_ids, received_fin,
                   peer_sent_msg_count, ctrlVars, userVars, finished_ids, faults, thread>>

OnFin(p, x) ==
    LET q == Peer(p) IN
    /\ Arrives(p, x) /\ ~ aborting[q]
    /\ x.key = kFinKey
    /\ received_fin' = [received_fin EXCEPT ![q] = TRUE]
    /\ peer_sent_msg_count' = [peer_sent_msg_count EXCEPT ![q] =
                                 IF received_fin[q] THEN @ ELSE x.id]
    /\ tasks' = Replaced(p, x, Served(x))
    /\ UNCHANGED <<sendVars, recv_msgs, received_msg_ids, received_ack_ids, ctrlVars,
                   userVars, finished_ids, faults, thread>>

\* Mutant of IsDuplicate: no duplicate test.
IsDuplicateNever(q, id) == FALSE

\* received_msg_ids_.Insert(seq_id) says the id is not new.
IsDuplicate(q, id) == id \in received_msg_ids[q]

OnDuplicate(p, x) ==
    LET q == Peer(p) IN
    /\ Arrives(p, x) /\ ~ aborting[q]
    /\ x.key \in Keys /\ IsDuplicate(q, x.id)
    /\ tasks' = Replaced(p, x, Served(x))
    /\ UNCHANGED <<sendVars, recvVars, ctrlVars, userVars, finished_ids, faults, thread>>

\* Mutant of OnNormalMessage: acknowledged on arrival instead of when read.
OnNormalMessageAcks(p, x) ==
    LET q == Peer(p) IN
    /\ Arrives(p, x) /\ ~ aborting[q]
    /\ x.key \in Keys /\ ~ IsDuplicate(q, x.id)
    /\ ~ waiting_finish[q]
    /\ \A m \in recv_msgs[q] : m.key # x.key
    /\ received_msg_ids' = [received_msg_ids EXCEPT ![q] = @ \cup {x.id}]
    /\ recv_msgs' = [recv_msgs EXCEPT ![q] = @ \cup {[key |-> x.key, id |-> x.id]}]
    /\ tasks' = [tasks EXCEPT ![p] = (@ \ {x}) \cup {Served(x)},
                              ![q] = @ \cup {NewTask(q, kAckKey, x.id)}]
    /\ UNCHANGED <<sendVars, received_ack_ids, received_fin, peer_sent_msg_count,
                   ctrlVars, userVars, finished_ids, faults, thread>>

OnNormalMessage(p, x) ==
    LET q == Peer(p) IN
    /\ Arrives(p, x) /\ ~ aborting[q]
    /\ x.key \in Keys /\ ~ IsDuplicate(q, x.id)
    /\ ~ waiting_finish[q]
    /\ \A m \in recv_msgs[q] : m.key # x.key
    /\ received_msg_ids' = [received_msg_ids EXCEPT ![q] = @ \cup {x.id}]
    /\ recv_msgs' = [recv_msgs EXCEPT ![q] = @ \cup {[key |-> x.key, id |-> x.id]}]
    /\ tasks' = Replaced(p, x, Served(x))
    /\ UNCHANGED <<sendVars, received_ack_ids, received_fin, peer_sent_msg_count,
                   ctrlVars, userVars, finished_ids, faults, thread>>

\* An unread message has the same key: the id is kept, the message is not, and
\* the sender gets an error.
OnKeyClash(p, x) ==
    LET q == Peer(p) IN
    /\ Arrives(p, x) /\ ~ aborting[q]
    /\ x.key \in Keys /\ ~ IsDuplicate(q, x.id)
    /\ ~ waiting_finish[q]
    /\ \E m \in recv_msgs[q] : m.key = x.key
    /\ received_msg_ids' = [received_msg_ids EXCEPT ![q] = @ \cup {x.id}]
    /\ tasks' = Replaced(p, x, Refused(x))
    /\ UNCHANGED <<sendVars, recv_msgs, received_ack_ids, received_fin,
                   peer_sent_msg_count, ctrlVars, userVars, finished_ids, faults, thread>>

\* q is closing: the message is acknowledged unread.
OnAutoAck(p, x) ==
    LET q == Peer(p) IN
    /\ Arrives(p, x) /\ ~ aborting[q]
    /\ x.key \in Keys /\ ~ IsDuplicate(q, x.id)
    /\ waiting_finish[q]
    /\ received_msg_ids' = [received_msg_ids EXCEPT ![q] = @ \cup {x.id}]
    /\ tasks' = [tasks EXCEPT ![p] = (@ \ {x}) \cup {Served(x)},
                              ![q] = @ \cup {NewTask(q, kAckKey, x.id)}]
    /\ UNCHANGED <<sendVars, recv_msgs, received_ack_ids, received_fin,
                   peer_sent_msg_count, ctrlVars, userVars, finished_ids, faults, thread>>

-----------------------------------------------------------------------------
(* The sender's side of a request. *)

\* Mutant of EndTask: the id 0 of acknowledgements and FINs is marked as well.
EndTaskZero(p, x) ==
    /\ tasks' = [tasks EXCEPT ![p] = @ \ {x}]
    /\ finished_ids' = [finished_ids EXCEPT ![p] =
                          @ \cup {IF x.key \in Keys THEN x.id ELSE 0}]

\* ~SendTask: running_tasks_--, and the id of a normal message is finished.
EndTask(p, x) ==
    /\ tasks' = [tasks EXCEPT ![p] = @ \ {x}]
    /\ finished_ids' = IF x.key \in Keys
                       THEN [finished_ids EXCEPT ![p] = @ \cup {x.id}]
                       ELSE finished_ids

TaskDone(p, x) ==
    /\ Up(p) /\ x \in tasks[p] /\ x.state = "served"
    /\ EndTask(p, x)
    /\ UNCHANGED <<sendVars, recvVars, ctrlVars, userVars, faults, thread>>

\* Mutant of LinkFault: the last failed attempt counts as sent.
LinkFaultSwallowed(p, x) ==
    /\ Up(p) /\ x \in tasks[p] /\ x.state = "flying"
    /\ "request" \in Faults /\ faults < MaxFaults /\ faults' = faults + 1
    /\ tasks' = Replaced(p, x, IF x.tries < MaxRetry /\ ~ aborting[p]
                               THEN [x EXCEPT !.tries = @ + 1]
                               ELSE Served(x))
    /\ UNCHANGED <<sendVars, recvVars, ctrlVars, userVars, finished_ids, thread>>

\* A LinkError, before or after the peer handled or refused the request:
\* retried up to max_retry times, unless should_retry finds its code among none
\* of the configured ones.  A peer that is not up never answers.
LinkFault(p, x) ==
    /\ Up(p) /\ x \in tasks[p]
    /\ \/ /\ \/ x.state = "flying" /\ "request" \in Faults
             \/ x.state \in {"served", "refused"} /\ "answer" \in Faults
          /\ faults < MaxFaults /\ faults' = faults + 1
       \/ x.state = "flying" /\ ~ Up(Peer(p)) /\ UNCHANGED faults
    /\ \/ /\ x.tries < MaxRetry /\ ~ aborting[p]
          /\ tasks' = Replaced(p, x, [x EXCEPT !.state = "flying", !.tries = @ + 1])
       \/ /\ x.tries >= MaxRetry \/ aborting[p] \/ "final" \in Faults
          /\ tasks' = Replaced(p, x, Failed(x))
    /\ UNCHANGED <<sendVars, recvVars, ctrlVars, userVars, finished_ids, thread>>

\* SendRequestWithRetry finds aborting_ set.
TaskAborted(p, x) ==
    /\ Up(p) /\ x \in tasks[p] /\ x.state = "flying" /\ aborting[p]
    /\ tasks' = Replaced(p, x, Failed(x))
    /\ UNCHANGED <<sendVars, recvVars, ctrlVars, userVars, finished_ids, faults, thread>>

\* SendImpl threw, for an error answer or by itself: exit(-1), or the task ends
\* as if it had been sent.
AsyncError(p, x) ==
    /\ Up(p) /\ x \in tasks[p] /\ x.state \in {"failed", "refused"}
    /\ IF ExitIfAsyncError
       THEN process' = [process EXCEPT ![p] = "exited"] /\ UNCHANGED <<tasks, finished_ids>>
       ELSE EndTask(p, x) /\ UNCHANGED process
    /\ UNCHANGED <<sendVars, recvVars, waiting_finish, aborting, userVars, faults, thread>>

-----------------------------------------------------------------------------
(* WaitLinkTaskFinish. *)

\* Mutant of StopReceivingAndAckUnreadMsgs: unread messages are dropped unacknowledged.
StopReceivingNoAck(p, t) ==
    /\ At(p, t, "idle") /\ p \in Closers /\ ~ aborting[p] /\ ~ waiting_finish[p]
    /\ Serial => \A u \in Threads : thread[p][u].pc = "idle"
    /\ waiting_finish' = [waiting_finish EXCEPT ![p] = TRUE]
    /\ recv_msgs' = [recv_msgs EXCEPT ![p] = {}]
    /\ Goto(p, t, "fin")
    /\ UNCHANGED <<sendVars, received_msg_ids, received_ack_ids, received_fin, tasks,
                   peer_sent_msg_count, aborting, process, userVars, finished_ids, faults>>

\* Called once; with Serial, after every other call of p's user has returned.
StopReceivingAndAckUnreadMsgs(p, t) ==
    /\ At(p, t, "idle") /\ p \in Closers /\ ~ aborting[p] /\ ~ waiting_finish[p]
    /\ Serial => \A u \in Threads : thread[p][u].pc = "idle"
    /\ waiting_finish' = [waiting_finish EXCEPT ![p] = TRUE]
    /\ tasks' = [tasks EXCEPT ![p] = @ \cup {NewTask(p, kAckKey, m.id) : m \in recv_msgs[p]}]
    /\ recv_msgs' = [recv_msgs EXCEPT ![p] = {}]
    /\ Goto(p, t, "fin")
    /\ UNCHANGED <<sendVars, received_msg_ids, received_ack_ids, received_fin,
                   peer_sent_msg_count, aborting, process, userVars, finished_ids, faults>>

\* WaitForFinAndFlyingMsg: send FIN, wait for the peer's, wait for its messages.
SendFin(p, t) ==
    /\ At(p, t, "fin")
    /\ tasks' = [tasks EXCEPT ![p] = @ \cup {NewTask(p, kFinKey, msg_seq_id[p])}]
    /\ Goto(p, t, "waitfin")
    /\ UNCHANGED <<sendVars, recvVars, ctrlVars, userVars, finished_ids, faults>>

\* A step of closing thread t of p that only waits for a condition.
WaitStep(p, t, from, to) ==
    /\ At(p, t, from)
    /\ Goto(p, t, to)
    /\ UNCHANGED <<sendVars, recvVars, ctrlVars, userVars, taskVars>>

\* Mutant of WaitForFin: the peer's FIN is not waited for.
WaitForFinNot(p, t) == WaitStep(p, t, "waitfin", "waitmsgs")

WaitForFin(p, t) == received_fin[p] /\ WaitStep(p, t, "waitfin", "waitmsgs")

WaitForFlyingMsg(p, t) ==
    /\ AllReceived(received_msg_ids[p], peer_sent_msg_count[p])
    /\ WaitStep(p, t, "waitmsgs", "stop")

\* WaitAsyncSendToFinish: stop the send thread, join it, wait for all tasks.
StopSendThread(p, t) ==
    /\ At(p, t, "stop")
    /\ send_thread_stopped' = [send_thread_stopped EXCEPT ![p] = TRUE]
    /\ Goto(p, t, "join")
    /\ UNCHANGED <<msg_seq_id, send_msgs, send_thread, recvVars, ctrlVars, userVars, taskVars>>

JoinSendThread(p, t) == send_thread[p].pc = "gone" /\ WaitStep(p, t, "join", "waitall")

WaitAllSendFinished(p, t) == tasks[p] = {} /\ WaitStep(p, t, "waitall", "waitack")

WaitForFlyingAck(p, t) ==
    /\ AllReceived(received_ack_ids[p], msg_seq_id[p])
    /\ WaitStep(p, t, "waitack", "closed")

\* The owner of the channel stops its server once the close returned.
StopServer(p, t) ==
    /\ At(p, t, "closed")
    /\ process' = [process EXCEPT ![p] = "stopped"]
    /\ UNCHANGED <<sendVars, recvVars, waiting_finish, aborting, userVars, taskVars, thread>>

-----------------------------------------------------------------------------
(* Abort, by a user that is not closing the channel. *)

AbortFlag(p, t) ==
    /\ At(p, t, "idle") /\ p \in Aborts
    /\ ~ aborting[p] /\ ~ waiting_finish[p]
    /\ aborting' = [aborting EXCEPT ![p] = TRUE]
    /\ Goto(p, t, "abortstop")
    /\ UNCHANGED <<sendVars, recvVars, waiting_finish, process, userVars, taskVars>>

AbortStop(p, t) ==
    /\ At(p, t, "abortstop")
    /\ send_thread_stopped' = [send_thread_stopped EXCEPT ![p] = TRUE]
    /\ Goto(p, t, "abortjoin")
    /\ UNCHANGED <<msg_seq_id, send_msgs, send_thread, recvVars, ctrlVars, userVars, taskVars>>

AbortJoin(p, t) == send_thread[p].pc = "gone" /\ WaitStep(p, t, "abortjoin", "aborted")

-----------------------------------------------------------------------------
SendThreadNext(p) == \/ SendThreadCheck(p) \/ SendThreadSubmit(p) \/ SendThreadWoken(p)
                     \/ SendThreadWindow(p) \/ SendThreadThrows(p)
                     \/ SendThreadDrain(p) \/ SendThreadDone(p)

RequestNext(p, x) == \/ OnRequestAborting(p, x) \/ OnAck(p, x) \/ OnFin(p, x)
                     \/ OnDuplicate(p, x) \/ OnNormalMessage(p, x) \/ OnKeyClash(p, x)
                     \/ OnAutoAck(p, x)

TaskNext(p, x) == TaskDone(p, x) \/ TaskAborted(p, x) \/ AsyncError(p, x)

CloseNext(p, t) == \/ SendFin(p, t) \/ WaitForFin(p, t) \/ WaitForFlyingMsg(p, t)
                   \/ StopSendThread(p, t) \/ JoinSendThread(p, t)
                   \/ WaitAllSendFinished(p, t) \/ WaitForFlyingAck(p, t)

CallNext(p, t) == \/ FetchSeqId(p, t) \/ Push(p, t)
                  \/ SendReturns(p, t) \/ ThrottledReturns(p, t)
                  \/ RecvTake(p, t) \/ RecvAck(p, t) \/ RecvThrows(p, t)
                  \/ AbortStop(p, t) \/ AbortJoin(p, t)

UserNext(p, t) == \/ \E call \in Calls, key \in Keys : CallSend(p, t, call, key)
                  \/ \E key \in Keys : CallRecv(p, t, key)
                  \/ StopReceivingAndAckUnreadMsgs(p, t)
                  \/ AbortFlag(p, t)
                  \/ StopServer(p, t)

Next == \E p \in Peers :
          \/ \E t \in Threads : UserNext(p, t) \/ CallNext(p, t) \/ CloseNext(p, t)
          \/ SendThreadNext(p)
          \/ \E x \in tasks[p] : RequestNext(p, x) \/ TaskNext(p, x) \/ LinkFault(p, x)

Spec == Init /\ [][Next]_vars

\* Threads that can run do run: the send thread, the task threads and the
\* server that handles their requests, and calls that have been started.  No
\* fairness for the user's decision to call, for faults, or for StopServer.
Fairness == \A p \in Peers :
              /\ WF_vars(SendThreadNext(p))
              /\ WF_vars(\E x \in tasks[p] : RequestNext(p, x) \/ TaskNext(p, x))
              /\ \A t \in Threads : WF_vars(CallNext(p, t)) /\ WF_vars(CloseNext(p, t))

LiveSpec == Spec /\ Fairness

-----------------------------------------------------------------------------
Message == [key : Keys, id : 1 .. MaxMsgs]

Task == [key : Keys \cup {kAckKey, kFinKey}, id : 0 .. MaxMsgs,
         state : {"flying", "served", "refused", "failed"}, tries : 0 .. MaxRetry]

ThreadPc == {"idle", "number", "push", "sync", "throttle", "recv", "ack", "fin",
             "waitfin", "waitmsgs", "stop", "join", "waitall", "waitack", "closed",
             "abortstop", "abortjoin", "aborted"}

SendTypeOK ==
  /\ msg_seq_id \in [Peers -> 0 .. MaxMsgs]
  /\ send_msgs \in [Peers -> Seq(Message)]
  /\ send_thread \in [Peers -> [pc : {"check", "pop", "window", "drain", "gone"},
                                id : 0 .. MaxMsgs]]
  /\ send_thread_stopped \in [Peers -> BOOLEAN]

TaskTypeOK ==
  /\ tasks \in [Peers -> SUBSET Task]
  /\ finished_ids \in [Peers -> SUBSET (1 .. MaxMsgs)]
  /\ faults \in 0 .. MaxFaults

RecvTypeOK ==
  /\ recv_msgs \in [Peers -> SUBSET Message]
  /\ received_msg_ids \in [Peers -> SUBSET (1 .. MaxMsgs)]
  /\ received_ack_ids \in [Peers -> SUBSET (1 .. MaxMsgs)]
  /\ received_fin \in [Peers -> BOOLEAN]
  /\ peer_sent_msg_count \in [Peers -> 0 .. MaxMsgs]

CtrlTypeOK ==
  /\ waiting_finish \in [Peers -> BOOLEAN]
  /\ aborting \in [Peers -> BOOLEAN]
  /\ process \in [Peers -> {"up", "stopped", "exited"}]

ThreadState == [pc : ThreadPc, call : {"none", "Recv"} \cup Calls,
                key : {"none"} \cup Keys, id : 0 .. MaxMsgs]

ThreadTypeOK == thread \in [Peers -> [Threads -> ThreadState]]

UserTypeOK ==
  /\ used \in [Peers -> SUBSET Keys]
  /\ delivered \in [Peers -> SUBSET (1 .. MaxMsgs)]

\* The type invariant of both channels.
TypeOK == SendTypeOK /\ TaskTypeOK /\ RecvTypeOK /\ CtrlTypeOK /\ ThreadTypeOK /\ UserTypeOK

\* An acknowledgement tells the truth: the message it names was received and
\* is no longer waiting to be read (Recv acknowledges after the unlock, the
\* close acknowledges what it clears, a closing end acknowledges on arrival).
AckMeansConsumed ==
  \A p \in Peers : \A i \in received_ack_ids[p] :
    /\ i \in received_msg_ids[Peer(p)]
    /\ \A m \in recv_msgs[Peer(p)] : m.id # i

\* The messages the send thread has handed to tasks and the peer has not
\* acknowledged never exceed the window while the send thread is throttled,
\* whatever order the user's threads were numbered and queued in.
Handed(p) == {i \in 1 .. msg_seq_id[p] :
                /\ \A n \in 1 .. Len(send_msgs[p]) : send_msgs[p][n].id # i
                /\ \A t \in Threads : thread[p][t].pc = "push" => thread[p][t].id # i}

WindowBound ==
  \A p \in Peers :
    Window > 0 /\ send_thread[p].pc \in {"check", "pop", "window"}
      => Cardinality(Handed(p) \ received_ack_ids[p]) <= Window

\* The send thread waits for the window only while the window is full: with
\* fewer than Window messages unconsumed it goes on to the next message
\* ("flying/unconsumed messages is under throttled limit", channel.h).
WaitsOnlyWhenFull ==
  \A p \in Peers :
    send_thread[p].pc = "window" /\ ~ WindowOpen(p, send_thread[p].id)
      => Cardinality(Handed(p) \ received_ack_ids[p]) >= Window

\* Send waits for finished_ids_: an id that is finished is in the peer's
\* received_msg_ids_ ("return when the message is successfully pushed into
\* peer's recv buffer", channel.h).
SendDelivers ==
  \A p \in Peers : finished_ids[p] \subseteq received_msg_ids[Peer(p)]

\* Once p stopped its server the peer has nothing left that needs it: no
\* request on its way, no message queued or being queued, no acknowledgement
\* about to be sent ("we can safely close server port and exit").
QuiescentAtClose ==
  \A p \in Peers : process[p] = "stopped" =>
    /\ \A x \in tasks[Peer(p)] : x.state # "flying"
    /\ send_msgs[Peer(p)] = <<>>
    /\ \A t \in Threads : thread[Peer(p)][t].pc \notin {"number", "push", "ack", "fin"}

\* The pair of channels is a pair of mailboxes.  A message is in the peer's
\* mailbox from the moment it is numbered until it is read or dropped:
\* retries and duplicates never bring it back, nothing is read twice, and
\* nothing is dropped before the reader closes (unless keys are reused or
\* errors of tasks are ignored).
Numbered(p) == {[key |-> thread[p][t].key, id |-> thread[p][t].id] :
                  t \in {u \in Threads : thread[p][u].pc = "push"}}
Queued(p) == {send_msgs[p][n] : n \in 1 .. Len(send_msgs[p])}
UnderWay(p) == {[key |-> x.key, id |-> x.id] :
                  x \in {y \in tasks[p] : /\ y.key \in Keys
                                         /\ y.id \notin received_msg_ids[Peer(p)]}}
Inbox(p) == Numbered(Peer(p)) \cup Queued(Peer(p)) \cup UnderWay(Peer(p)) \cup recv_msgs[p]

Mail == INSTANCE Mailbox WITH inbox <- [p \in Peers |-> Inbox(p)],
                              posted <- msg_seq_id,
                              taken <- delivered,
                              closing <- waiting_finish,
                              Lossy <- ReuseKeys \/ ~ ExitIfAsyncError

ImplementsMailbox == Mail!MailSpec

\* When both ends close, both closes return.
Closed(p) == process[p] = "stopped" \/ \E t \in Threads : thread[p][t].pc = "closed"

CloseCompletes == (\A p \in Peers : waiting_finish[p]) ~> (\A p \in Peers : Closed(p))
=============================================================================
