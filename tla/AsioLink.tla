------------------------------ MODULE AsioLink ------------------------------
(***************************************************************************)
(* yacl/link/transport/asio_link.{h,cc}: the task threads of one channel   *)
(* share one AsioLink, its socket and socket_mutex_.  SendRequest connects *)
(* on first use, writes the request under the mutex, releases it, and      *)
(* takes it again to read an answer.  The peer's ReceiverLoopAsio session  *)
(* reads one request at a time, hands it to Channel::OnRequest and writes  *)
(* one answer before it reads the next.                                    *)
(***************************************************************************)
EXTENDS Naturals, Sequences, FiniteSets

CONSTANTS Threads,       \* task threads that call SendRequest
          MaxRequests,   \* bound: requests per thread
          Refused        \* bound: how often asio::connect fails before the
                         \* peer's acceptor is open

ASSUME LinkAssumption == IsFiniteSet(Threads) /\ MaxRequests \in Nat /\ Refused \in Nat

VARIABLES
  pc,           \* per thread
  asked,        \* per thread: requests started so far
  connected,    \* connected_
  connecting,   \* connecting_
  notified,     \* threads notified on connect_cv_ since they wait
  refusals,     \* failed calls of asio::connect
  connects,     \* calls of asio::connect: the sockets this link has had
  mutex,        \* owner of socket_mutex_, or NoThread
  requests,     \* bytes on their way to the peer: sequence of request ids
  answers,      \* bytes on their way back: sequence of [id, ok]
  result        \* history: per thread, the answer of its last request

vars == <<pc, asked, connected, connecting, notified, refusals, connects, mutex,
          requests, answers, result>>

NoThread == "none"
NoAnswer == [id |-> <<NoThread, 0>>, ok |-> TRUE]

\* The request thread t is working on.
Req(t) == <<t, asked[t]>>

Init == /\ pc = [t \in Threads |-> "idle"]
        /\ asked = [t \in Threads |-> 0]
        /\ connected = FALSE /\ connecting = FALSE
        /\ notified = {} /\ refusals = 0 /\ connects = 0
        /\ mutex = NoThread
        /\ requests = <<>> /\ answers = <<>>
        /\ result = [t \in Threads |-> NoAnswer]

Goto(t, l) == pc' = [pc EXCEPT ![t] = l]

-----------------------------------------------------------------------------
(* Connect *)

\* SendRequest -> DoSend -> Connect; a link that is connected goes on to write.
StartRequest(t) ==
    /\ pc[t] \in {"idle", "threw"} /\ asked[t] < MaxRequests
    /\ asked' = [asked EXCEPT ![t] = @ + 1]
    /\ IF connected THEN Goto(t, "write") ELSE Goto(t, "cas")
    /\ UNCHANGED <<connected, connecting, notified, refusals, connects, mutex, requests, answers, result>>

\* connecting_.compare_exchange_strong
TryConnect(t) ==
    /\ pc[t] = "cas"
    /\ connecting' = TRUE
    /\ IF connecting THEN Goto(t, "cvwait") ELSE Goto(t, "resolve")
    /\ UNCHANGED <<asked, connected, notified, refusals, connects, mutex, requests, answers, result>>

\* The loser waits on connect_cv_: the predicate is tested before the first
\* sleep and after a notification.
ConnectWait(t) ==
    /\ pc[t] = "cvwait" /\ mutex = NoThread
    /\ IF connected \/ ~ connecting THEN Goto(t, "write") ELSE Goto(t, "asleep")
    /\ notified' = notified \ {t}
    /\ UNCHANGED <<asked, connected, connecting, refusals, connects, mutex, requests, answers, result>>

ConnectWoken(t) ==
    /\ pc[t] = "asleep" /\ t \in notified /\ mutex = NoThread
    /\ connected \/ ~ connecting
    /\ Goto(t, "write")
    /\ UNCHANGED <<asked, connected, connecting, notified, refusals, connects, mutex, requests,
                   answers, result>>

\* The winner of the exchange connects under socket_mutex_ and notifies
\* everybody.  A thread that found the link unconnected and exchanges after an
\* earlier connect has ended wins as well: the socket is replaced, and what was
\* under way on the old one finds no reader.
ConnectDone(t) ==
    /\ pc[t] = "resolve" /\ mutex = NoThread
    /\ connected' = TRUE /\ connecting' = FALSE
    /\ notified' = notified \cup {u \in Threads : pc[u] = "asleep"}
    /\ connects' = connects + 1
    /\ requests' = <<>> /\ answers' = <<>>
    /\ Goto(t, "write")
    /\ UNCHANGED <<asked, refusals, mutex, result>>

\* asio::connect throws on the new socket, which stays closed: neither flag is
\* reset, so that nobody connects again, and a link that was connected before
\* goes on with the closed socket.
ConnectRefused(t) ==
    /\ pc[t] = "resolve" /\ mutex = NoThread
    /\ refusals < Refused
    /\ refusals' = refusals + 1
    /\ connects' = connects + 1
    /\ requests' = <<>> /\ answers' = <<>>
    /\ Goto(t, "threw")
    /\ UNCHANGED <<asked, connected, connecting, notified, mutex, result>>

SocketClosed == refusals > 0

-----------------------------------------------------------------------------
(* SendRequest *)

\* DoSend: header and body in one locked write.
Write(t) ==
    /\ pc[t] = "write" /\ mutex = NoThread /\ ~ SocketClosed
    /\ requests' = Append(requests, Req(t))
    /\ Goto(t, "written")
    /\ UNCHANGED <<asked, connected, connecting, notified, refusals, connects, mutex, answers, result>>

\* The mutex is taken again and held until an answer is there.
LockToRead(t) ==
    /\ pc[t] = "written" /\ mutex = NoThread /\ ~ SocketClosed
    /\ mutex' = t
    /\ Goto(t, "reading")
    /\ UNCHANGED <<asked, connected, connecting, notified, refusals, connects, requests, answers, result>>

\* asio::write or asio::read throws on a closed socket.
TransferThrows(t) ==
    /\ pc[t] \in {"write", "written"} /\ mutex = NoThread /\ SocketClosed
    /\ Goto(t, "threw")
    /\ UNCHANGED <<asked, connected, connecting, notified, refusals, connects, mutex,
                   requests, answers, result>>

\* Mutant of Read: the mutex is not released.
ReadKeepsLock(t) ==
    /\ pc[t] = "reading" /\ answers # <<>>
    /\ result' = [result EXCEPT ![t] = Head(answers)]
    /\ answers' = Tail(answers)
    /\ pc' = [pc EXCEPT ![t] = IF Head(answers).ok THEN "idle" ELSE "threw"]
    /\ UNCHANGED <<asked, connected, connecting, notified, refusals, connects, mutex, requests>>

\* Mutant of Read: the answer stays in the stream.
ReadPeeks(t) ==
    /\ pc[t] = "reading" /\ answers # <<>>
    /\ result' = [result EXCEPT ![t] = Head(answers)]
    /\ mutex' = NoThread
    /\ pc' = [pc EXCEPT ![t] = IF Head(answers).ok THEN "idle" ELSE "threw"]
    /\ UNCHANGED <<asked, connected, connecting, notified, refusals, connects, requests, answers>>

\* Whatever answer comes next is taken; an error code is thrown.
Read(t) ==
    /\ pc[t] = "reading" /\ answers # <<>>
    /\ result' = [result EXCEPT ![t] = Head(answers)]
    /\ answers' = Tail(answers)
    /\ mutex' = NoThread
    /\ pc' = [pc EXCEPT ![t] = IF Head(answers).ok THEN "idle" ELSE "threw"]
    /\ UNCHANGED <<asked, connected, connecting, notified, refusals, connects, requests>>

-----------------------------------------------------------------------------
\* Mutant of ReadMessage: a request that OnRequest rejects gets no answer.
ReadMessageMute(ok) ==
    /\ requests # <<>>
    /\ requests' = Tail(requests)
    /\ answers' = IF ok THEN Append(answers, [id |-> Head(requests), ok |-> ok]) ELSE answers
    /\ UNCHANGED <<pc, asked, connected, connecting, notified, refusals, connects, mutex, result>>

\* The peer's session: OnRequest returns or throws, one answer either way.
ReadMessage(ok) ==
    /\ requests # <<>>
    /\ requests' = Tail(requests)
    /\ answers' = Append(answers, [id |-> Head(requests), ok |-> ok])
    /\ UNCHANGED <<pc, asked, connected, connecting, notified, refusals, connects, mutex, result>>

-----------------------------------------------------------------------------
ThreadNext(t) == \/ StartRequest(t) \/ TryConnect(t) \/ ConnectWait(t) \/ ConnectWoken(t)
                 \/ ConnectDone(t) \/ Write(t) \/ LockToRead(t) \/ Read(t)
                 \/ TransferThrows(t)

SessionNext == \E ok \in BOOLEAN : ReadMessage(ok)

\* Every thread has made its requests.
Over == /\ \A t \in Threads : pc[t] \in {"idle", "threw"} /\ asked[t] = MaxRequests
        /\ UNCHANGED vars

Next == \/ \E t \in Threads : ThreadNext(t) \/ ConnectRefused(t)
        \/ SessionNext
        \/ Over

\* Threads and the peer's io thread run; a mutex that is free again and again
\* is eventually obtained.
Fairness == WF_vars(SessionNext) /\ \A t \in Threads : SF_vars(ThreadNext(t))

Spec == Init /\ [][Next]_vars /\ Fairness

-----------------------------------------------------------------------------
Answer == [id : Threads \X (1 .. MaxRequests), ok : BOOLEAN]

\* The type invariant.
TypeOK ==
  /\ pc \in [Threads -> {"idle", "threw", "cas", "cvwait", "asleep", "resolve",
                         "write", "written", "reading"}]
  /\ asked \in [Threads -> 0 .. MaxRequests]
  /\ connected \in BOOLEAN /\ connecting \in BOOLEAN
  /\ notified \subseteq Threads /\ refusals \in 0 .. Refused
  /\ connects \in 0 .. (MaxRequests * Cardinality(Threads))
  /\ mutex \in Threads \cup {NoThread}
  /\ requests \in Seq(Threads \X (1 .. MaxRequests))
  /\ answers \in Seq(Answer)
  /\ result \in [Threads -> Answer \cup {NoAnswer}]

\* As long as the link keeps its first socket no answer is missing and none is
\* left over: what is under way on the socket is one request or answer for every
\* thread that has written and not yet read.
OneAnswerEach ==
    connects <= 1 =>
      Len(requests) + Len(answers) =
        Cardinality({t \in Threads : pc[t] \in {"written", "reading"}})

\* However the connecting threads race, no answer is given to two requests, and
\* no thread writes before a socket is there.
AnswersUsedOnce ==
    /\ \A t, u \in Threads : t # u /\ result[t] # NoAnswer => result[t].id # result[u].id
    /\ \A t \in Threads : pc[t] \in {"write", "written", "reading"} => connected

\* A SendRequest that never comes back (waiting for the connection, the mutex or
\* an answer) has one of two causes: a connect that was refused, which leaves
\* connecting_ set, or a second connect, which takes the socket from under a
\* thread that waits for its answer.
AllReturn ==
    [](refusals = 0 /\ connects <= 1) =>
      \A t \in Threads : (pc[t] \notin {"idle", "threw"}) ~> (pc[t] \in {"idle", "threw"})

\* A SendRequest that returns has the answer to its own request (this is how
\* Send knows that the peer has its message, and which message failed).
OwnAnswer == \A t \in Threads : result[t] # NoAnswer => result[t].id[1] = t
=============================================================================
