--------------------------- MODULE AsioLinkProofs ---------------------------
(***************************************************************************)
(* Theorems about AsioLink, for every finite set of threads, every number  *)
(* of requests and every number of refused connects.                       *)
(***************************************************************************)
EXTENDS AsioLink, FiniteSetTheorems, SequenceTheorems, TLAPS

-----------------------------------------------------------------------------
(* The inductive invariant. *)

\* A thread is inside Connect.
Connecting == {"cas", "cvwait", "asleep", "resolve"}

\* Request ids, and those whose bytes have been written to a socket.
ReqIds == Threads \X (1 .. MaxRequests)
Issued == {r \in ReqIds : \/ r[2] < asked[r[1]]
                          \/ r[2] = asked[r[1]] /\ pc[r[1]] \notin Connecting \cup {"write"}}

\* Every id under way or answered was written to a socket, and is in one place.
RequestsFresh == /\ \A i \in 1 .. Len(requests) : requests[i] \in Issued
                 /\ \A i, j \in 1 .. Len(requests) : requests[i] = requests[j] => i = j
AnswersFresh == /\ \A i \in 1 .. Len(answers) : answers[i].id \in Issued
                /\ \A i, j \in 1 .. Len(answers) : answers[i].id = answers[j].id => i = j
                /\ \A i \in 1 .. Len(answers), j \in 1 .. Len(requests) :
                      answers[i].id # requests[j]
ResultsFresh == \A t \in Threads : result[t] # NoAnswer =>
                  /\ result[t].id \in Issued
                  /\ \A u \in Threads : result[u].id = result[t].id => u = t
                  /\ \A i \in 1 .. Len(requests) : result[t].id # requests[i]
                  /\ \A i \in 1 .. Len(answers) : result[t].id # answers[i].id

\* A thread gets past Connect only when there is a socket; connecting_ is set as
\* long as somebody waits for one.  A link that was connected and has a closed
\* socket has had two.
Socket == /\ connects = 0 => ~ connected
          /\ SocketClosed => connects >= 1
          /\ SocketClosed /\ connected => connects >= 2
          /\ \A t \in Threads : pc[t] \in {"write", "written", "reading"} => connected
          /\ \A t \in Threads : pc[t] \in {"cvwait", "asleep"} => connected \/ connecting

\* The requests that are through Connect; each of them connected at most once.
Through == {r \in ReqIds : \/ r[2] < asked[r[1]]
                           \/ r[2] = asked[r[1]] /\ pc[r[1]] \notin Connecting}
ConnectsBound == connects <= Cardinality(Through)

\* TypeOK without the bound on connects.
Typed ==
  /\ pc \in [Threads -> {"idle", "threw", "cas", "cvwait", "asleep", "resolve",
                         "write", "written", "reading"}]
  /\ asked \in [Threads -> 0 .. MaxRequests]
  /\ \A t \in Threads : pc[t] # "idle" => asked[t] > 0
  /\ connected \in BOOLEAN /\ connecting \in BOOLEAN
  /\ notified \subseteq Threads /\ refusals \in 0 .. Refused
  /\ connects \in Nat
  /\ mutex \in Threads \cup {NoThread}
  /\ requests \in Seq(ReqIds) /\ answers \in Seq(Answer)
  /\ result \in [Threads -> Answer \cup {NoAnswer}]

LinkInv == /\ Typed /\ RequestsFresh /\ AnswersFresh /\ ResultsFresh
           /\ Socket /\ ConnectsBound /\ OneAnswerEach

-----------------------------------------------------------------------------
(* Type correctness of a step. *)

LEMMA TypedStep == Typed /\ [Next]_vars => Typed'
<1>. SUFFICES ASSUME Typed, [Next]_vars PROVE Typed'
  OBVIOUS
<1>. USE DEF Typed
<1>1. ASSUME NEW t \in Threads, StartRequest(t) PROVE Typed'
  BY <1>1, LinkAssumption DEF StartRequest, Goto
<1>2. ASSUME NEW t \in Threads, TryConnect(t) PROVE Typed'
  BY <1>2, LinkAssumption DEF TryConnect, Goto
<1>3. ASSUME NEW t \in Threads, ConnectWait(t) PROVE Typed'
  BY <1>3, LinkAssumption DEF ConnectWait, Goto
<1>4. ASSUME NEW t \in Threads, ConnectWoken(t) PROVE Typed'
  BY <1>4, LinkAssumption DEF ConnectWoken, Goto
<1>5. ASSUME NEW t \in Threads, ConnectDone(t) PROVE Typed'
  <2>1. requests' \in Seq(ReqIds) /\ answers' \in Seq(Answer)
    BY <1>5, EmptySeq DEF ConnectDone
  <2>2. notified' \subseteq Threads
    BY <1>5 DEF ConnectDone
  <2>3. /\ pc' \in [Threads -> {"idle", "threw", "cas", "cvwait", "asleep", "resolve",
                               "write", "written", "reading"}]
        /\ \A u \in Threads : pc'[u] # "idle" => asked'[u] > 0
    BY <1>5 DEF ConnectDone, Goto
  <2>4. connected' = TRUE /\ connecting' = FALSE /\ connects' = connects + 1
    BY <1>5 DEF ConnectDone
  <2>5. UNCHANGED <<asked, refusals, mutex, result>>
    BY <1>5 DEF ConnectDone
  <2>6. connected' \in BOOLEAN /\ connecting' \in BOOLEAN
    BY <2>4
  <2>7. connects' \in Nat /\ refusals' \in 0 .. Refused
    BY <2>4, <2>5
  <2>8. /\ asked' \in [Threads -> 0 .. MaxRequests] /\ mutex' \in Threads \cup {NoThread}
        /\ result' \in [Threads -> Answer \cup {NoAnswer}]
    BY <2>5
  <2>. QED
    BY <2>1, <2>2, <2>3, <2>6, <2>7, <2>8
<1>6. ASSUME NEW t \in Threads, ConnectRefused(t) PROVE Typed'
  <2>1. requests' \in Seq(ReqIds) /\ answers' \in Seq(Answer)
    BY <1>6, EmptySeq DEF ConnectRefused
  <2>2. /\ pc' \in [Threads -> {"idle", "threw", "cas", "cvwait", "asleep", "resolve",
                               "write", "written", "reading"}]
        /\ \A u \in Threads : pc'[u] # "idle" => asked'[u] > 0
    BY <1>6 DEF ConnectRefused, Goto
  <2>3. connects' \in Nat /\ refusals' \in 0 .. Refused
    BY <1>6, LinkAssumption DEF ConnectRefused
  <2>4. UNCHANGED <<asked, connected, connecting, notified, mutex, result>>
    BY <1>6 DEF ConnectRefused
  <2>. QED
    BY <2>1, <2>2, <2>3, <2>4
<1>7. ASSUME NEW t \in Threads, Write(t) PROVE Typed'
  BY <1>7, LinkAssumption DEF Write, Goto, Req, ReqIds
<1>11. ASSUME NEW t \in Threads, TransferThrows(t) PROVE Typed'
  BY <1>11, LinkAssumption DEF TransferThrows, Goto
<1>8. ASSUME NEW t \in Threads, LockToRead(t) PROVE Typed'
  BY <1>8, LinkAssumption DEF LockToRead, Goto
<1>9. ASSUME NEW t \in Threads, Read(t) PROVE Typed'
  BY <1>9, LinkAssumption DEF Read
<1>10. ASSUME NEW ok \in BOOLEAN, ReadMessage(ok) PROVE Typed'
  BY <1>10, LinkAssumption DEF ReadMessage, Answer, ReqIds
<1>20. CASE UNCHANGED vars
  BY <1>20 DEF vars
<1>. QED
  BY <1>1, <1>2, <1>3, <1>4, <1>5, <1>6, <1>7, <1>8, <1>9, <1>10, <1>11,
     <1>20 DEF Next, ThreadNext, SessionNext, Over

\* What was written stays written, and so does what is through Connect.
LEMMA Grows ==
  Typed /\ [Next]_vars => Issued \subseteq Issued' /\ Through \subseteq Through'
<1>. DEFINE Grown == /\ \A r \in ReqIds : r \in Issued => r \in Issued'
                   /\ \A r \in ReqIds : r \in Through => r \in Through'
<1>. SUFFICES ASSUME Typed, [Next]_vars PROVE Grown
  BY DEF Issued, Through
<1>0. \A r \in ReqIds : r[1] \in Threads /\ r[2] \in 1 .. MaxRequests
  BY DEF ReqIds
<1>. USE <1>0 DEF Typed, Issued, Through, Connecting
<1>1. ASSUME NEW t \in Threads, StartRequest(t) PROVE Grown
  BY <1>1, LinkAssumption DEF StartRequest, Goto
<1>2. ASSUME NEW t \in Threads, TryConnect(t) PROVE Grown
  BY <1>2, LinkAssumption DEF TryConnect, Goto
<1>3. ASSUME NEW t \in Threads, ConnectWait(t) PROVE Grown
  BY <1>3, LinkAssumption DEF ConnectWait, Goto
<1>4. ASSUME NEW t \in Threads, ConnectWoken(t) PROVE Grown
  BY <1>4, LinkAssumption DEF ConnectWoken, Goto
<1>5. ASSUME NEW t \in Threads, ConnectDone(t) PROVE Grown
  BY <1>5, LinkAssumption DEF ConnectDone, Goto
<1>6. ASSUME NEW t \in Threads, ConnectRefused(t) PROVE Grown
  BY <1>6, LinkAssumption DEF ConnectRefused, Goto
<1>7. ASSUME NEW t \in Threads, Write(t) PROVE Grown
  BY <1>7, LinkAssumption DEF Write, Goto
<1>11. ASSUME NEW t \in Threads, TransferThrows(t) PROVE Grown
  BY <1>11, LinkAssumption DEF TransferThrows, Goto
<1>8. ASSUME NEW t \in Threads, LockToRead(t) PROVE Grown
  BY <1>8, LinkAssumption DEF LockToRead, Goto
<1>9. ASSUME NEW t \in Threads, Read(t) PROVE Grown
  BY <1>9, LinkAssumption DEF Read
<1>10. ASSUME NEW ok \in BOOLEAN, ReadMessage(ok) PROVE Grown
  BY <1>10, LinkAssumption DEF ReadMessage
<1>20. CASE UNCHANGED vars
  BY <1>20 DEF vars
<1>. QED
  BY <1>1, <1>2, <1>3, <1>4, <1>5, <1>6, <1>7, <1>8, <1>9, <1>10, <1>11,
     <1>20 DEF Next, ThreadNext, SessionNext, Over

-----------------------------------------------------------------------------
(* Ids are in one place. *)

Fresh == RequestsFresh /\ AnswersFresh /\ ResultsFresh

LEMMA FreshStill ==
  ASSUME Typed, Fresh, Issued \subseteq Issued', UNCHANGED <<requests, answers, result>>
  PROVE  Fresh'
  BY DEF Fresh, RequestsFresh, AnswersFresh, ResultsFresh

\* The request a thread is about to write is nowhere else.
LEMMA FreshWrite ==
  ASSUME Typed, Fresh, Issued \subseteq Issued', NEW t \in Threads, Write(t)
  PROVE  Fresh'
<1>1. Req(t) \in ReqIds /\ Req(t) \notin Issued /\ Req(t) \in Issued'
  <2>1. /\ t \in Threads /\ asked[t] \in 1 .. MaxRequests /\ pc[t] = "write"
        /\ pc'[t] = "written" /\ asked' = asked
    BY LinkAssumption DEF Typed, Write, Goto
  <2>2. Req(t) \in ReqIds /\ Req(t)[1] = t /\ Req(t)[2] = asked[t]
    BY <2>1 DEF Req, ReqIds
  <2>. QED
    BY <2>1, <2>2 DEF Issued, Connecting
<1>2. /\ requests \in Seq(ReqIds) /\ requests' = Append(requests, Req(t))
      /\ answers' = answers /\ result' = result
  BY DEF Typed, Write
<1>3. /\ Len(requests') = Len(requests) + 1 /\ Len(requests) \in Nat
      /\ \A i \in 1 .. Len(requests) : requests'[i] = requests[i]
      /\ requests'[Len(requests) + 1] = Req(t)
  BY <1>1, <1>2
<1>4. RequestsFresh'
  BY <1>1, <1>3 DEF Fresh, RequestsFresh
<1>5. AnswersFresh'
  BY <1>1, <1>2, <1>3 DEF Fresh, AnswersFresh
<1>6. ResultsFresh'
  BY <1>1, <1>2, <1>3 DEF Fresh, ResultsFresh
<1>. QED
  BY <1>4, <1>5, <1>6 DEF Fresh

\* A new socket: nothing is under way any more.
LEMMA FreshConnect ==
  ASSUME Typed, Fresh, Issued \subseteq Issued', NEW t \in Threads,
         ConnectDone(t) \/ ConnectRefused(t)
  PROVE  Fresh'
<1>1. Len(requests') = 0 /\ Len(answers') = 0 /\ result' = result
  BY DEF ConnectDone, ConnectRefused
<1>. QED
  BY <1>1 DEF Fresh, RequestsFresh, AnswersFresh, ResultsFresh

LEMMA FreshRead ==
  ASSUME Typed, Fresh, Issued \subseteq Issued', NEW t \in Threads, Read(t)
  PROVE  Fresh'
<1>1. /\ answers \in Seq(Answer) /\ answers # <<>> /\ answers' = Tail(answers)
      /\ requests' = requests /\ result' = [result EXCEPT ![t] = answers[1]]
      /\ result \in [Threads -> Answer \cup {NoAnswer}]
  BY DEF Typed, Read
<1>2. /\ Len(answers) \in Nat \ {0} /\ Len(answers') = Len(answers) - 1
      /\ \A i \in 1 .. Len(answers') : answers'[i] = answers[i + 1]
  BY <1>1
<1>3. /\ result'[t] = answers[1]
      /\ \A u \in Threads : u # t => result'[u] = result[u]
  BY <1>1
<1>. HIDE DEF NoAnswer
<1>4. RequestsFresh'
  BY <1>1 DEF Fresh, RequestsFresh
<1>5. AnswersFresh'
  BY <1>1, <1>2 DEF Fresh, AnswersFresh
<1>6. ResultsFresh'
  <2>1. answers[1].id \in Issued
    BY <1>2 DEF Fresh, AnswersFresh
  <2>2. \A u \in Threads : u # t => result'[u].id # answers[1].id
    <3>. SUFFICES ASSUME NEW u \in Threads, u # t PROVE result[u].id # answers[1].id
      BY <1>3
    <3>1. CASE result[u] = NoAnswer
      <4>1. answers[1].id[2] # 0
        BY <2>1 DEF Issued, ReqIds
      <4>. QED
        BY <3>1, <4>1 DEF NoAnswer
    <3>2. CASE result[u] # NoAnswer
      BY <3>2, <1>2 DEF Fresh, ResultsFresh
    <3>. QED
      BY <3>1, <3>2
  <2>3. ASSUME NEW u \in Threads, result'[u] # NoAnswer
        PROVE  /\ result'[u].id \in Issued'
               /\ \A v \in Threads : result'[v].id = result'[u].id => v = u
               /\ \A i \in 1 .. Len(requests') : result'[u].id # requests'[i]
               /\ \A i \in 1 .. Len(answers') : result'[u].id # answers'[i].id
    <3>1. CASE u = t
      BY <3>1, <1>1, <1>2, <1>3, <2>1, <2>2 DEF Fresh, AnswersFresh
    <3>2. CASE u # t
      BY <3>2, <2>3, <1>1, <1>2, <1>3, <2>2 DEF Fresh, ResultsFresh
    <3>. QED
      BY <3>1, <3>2
  <2>. QED
    BY <2>3 DEF ResultsFresh, NoAnswer
<1>. QED
  BY <1>4, <1>5, <1>6 DEF Fresh

LEMMA FreshReadMessage ==
  ASSUME Typed, Fresh, Issued \subseteq Issued', NEW ok \in BOOLEAN, ReadMessage(ok)
  PROVE  Fresh'
<1>. DEFINE a == [id |-> requests[1], ok |-> ok]
<1>1. /\ requests \in Seq(ReqIds) /\ requests # <<>> /\ requests' = Tail(requests)
      /\ answers \in Seq(Answer) /\ answers' = Append(answers, a)
      /\ result' = result
  BY DEF Typed, ReadMessage
<1>2. /\ Len(requests) \in Nat \ {0} /\ Len(requests') = Len(requests) - 1
      /\ \A i \in 1 .. Len(requests') : requests'[i] = requests[i + 1]
  BY <1>1
<1>3. /\ Len(answers) \in Nat /\ Len(answers') = Len(answers) + 1
      /\ \A i \in 1 .. Len(answers) : answers'[i] = answers[i]
      /\ answers'[Len(answers) + 1].id = requests[1]
  BY <1>1
<1>. HIDE DEF a
<1>4. RequestsFresh'
  BY <1>2 DEF Fresh, RequestsFresh
<1>5. AnswersFresh'
  <2>1. requests[1] \in Issued /\ \A i \in 1 .. Len(answers) : answers[i].id # requests[1]
    BY <1>2 DEF Fresh, RequestsFresh, AnswersFresh
  <2>2. \A i \in 1 .. Len(answers') : answers'[i].id \in Issued'
    BY <1>3, <2>1 DEF Fresh, AnswersFresh
  <2>3. \A i, j \in 1 .. Len(answers') : answers'[i].id = answers'[j].id => i = j
    BY <1>3, <2>1 DEF Fresh, AnswersFresh
  <2>4. \A j \in 1 .. Len(requests') : /\ j + 1 \in 1 .. Len(requests)
                                       /\ requests'[j] = requests[j + 1]
                                       /\ requests'[j] # requests[1]
    BY <1>2 DEF Fresh, RequestsFresh
  <2>5. \A i \in 1 .. Len(answers') : \/ answers'[i].id = requests[1]
                                      \/ i \in 1 .. Len(answers) /\ answers'[i] = answers[i]
    BY <1>3
  <2>6. \A i \in 1 .. Len(answers'), j \in 1 .. Len(requests') : answers'[i].id # requests'[j]
    BY <2>4, <2>5 DEF Fresh, AnswersFresh
  <2>. QED
    BY <2>2, <2>3, <2>6 DEF AnswersFresh
<1>6. ResultsFresh'
  BY <1>1, <1>2, <1>3 DEF Fresh, ResultsFresh
<1>. QED
  BY <1>4, <1>5, <1>6 DEF Fresh

-----------------------------------------------------------------------------
(* Connecting. *)

LEMMA SocketStep == Typed /\ Socket /\ [Next]_vars => Socket'
<1>. SUFFICES ASSUME Typed, Socket, [Next]_vars PROVE Socket'
  OBVIOUS
<1>. USE DEF Typed, Socket, SocketClosed
<1>1. ASSUME NEW t \in Threads, StartRequest(t) PROVE Socket'
  BY <1>1 DEF StartRequest, Goto
<1>2. ASSUME NEW t \in Threads, TryConnect(t) PROVE Socket'
  BY <1>2 DEF TryConnect, Goto
<1>3. ASSUME NEW t \in Threads, ConnectWait(t) PROVE Socket'
  BY <1>3 DEF ConnectWait, Goto
<1>4. ASSUME NEW t \in Threads, ConnectWoken(t) PROVE Socket'
  BY <1>4 DEF ConnectWoken, Goto
<1>5. ASSUME NEW t \in Threads, ConnectDone(t) PROVE Socket'
  BY <1>5 DEF ConnectDone, Goto
<1>6. ASSUME NEW t \in Threads, ConnectRefused(t) PROVE Socket'
  BY <1>6 DEF ConnectRefused, Goto
<1>7. ASSUME NEW t \in Threads, Write(t) PROVE Socket'
  BY <1>7 DEF Write, Goto
<1>11. ASSUME NEW t \in Threads, TransferThrows(t) PROVE Socket'
  BY <1>11 DEF TransferThrows, Goto
<1>8. ASSUME NEW t \in Threads, LockToRead(t) PROVE Socket'
  BY <1>8 DEF LockToRead, Goto
<1>9. ASSUME NEW t \in Threads, Read(t) PROVE Socket'
  BY <1>9 DEF Read
<1>10. ASSUME NEW ok \in BOOLEAN, ReadMessage(ok) PROVE Socket'
  BY <1>10 DEF ReadMessage
<1>20. CASE UNCHANGED vars
  BY <1>20 DEF vars
<1>. QED
  BY <1>1, <1>2, <1>3, <1>4, <1>5, <1>6, <1>7, <1>8, <1>9, <1>10, <1>11,
     <1>20 DEF Next, ThreadNext, SessionNext, Over

\* A request connects once at most: a connect takes it through Connect.
LEMMA ConnectsStep ==
  Typed /\ Typed' /\ ConnectsBound /\ [Next]_vars => ConnectsBound'
<1>. SUFFICES ASSUME Typed, Typed', ConnectsBound, [Next]_vars PROVE ConnectsBound'
  OBVIOUS
<1>1. IsFiniteSet(Threads \X (1 .. MaxRequests))
  <2>1. IsFiniteSet(1 .. MaxRequests)
    BY LinkAssumption, FS_Interval
  <2>. QED
    BY <2>1, LinkAssumption, FS_Product
<1>2. /\ Through \subseteq Through' /\ IsFiniteSet(Through) /\ IsFiniteSet(Through')
      /\ connects \in Nat /\ connects' \in Nat
  BY <1>1, Grows, FS_Subset DEF Through, ReqIds, Typed
<1>3. /\ Cardinality(Through) \in Nat /\ Cardinality(Through') \in Nat
      /\ Cardinality(Through) <= Cardinality(Through')
  BY <1>2, FS_CardinalityType, FS_Subset
<1>4. CASE connects' = connects
  BY <1>3, <1>4, <1>2 DEF ConnectsBound
<1>5. ASSUME NEW t \in Threads, ConnectDone(t) \/ ConnectRefused(t) PROVE ConnectsBound'
  <2>. DEFINE r == <<t, asked[t]>>
  <2>1. /\ asked[t] \in 1 .. MaxRequests /\ pc[t] = "resolve" /\ pc'[t] \in {"write", "threw"}
        /\ asked' = asked /\ connects' = connects + 1
    BY <1>5, LinkAssumption DEF Typed, ConnectDone, ConnectRefused, Goto
  <2>2. r \in ReqIds /\ r[1] = t /\ r[2] = asked[t]
    BY <2>1 DEF ReqIds
  <2>. HIDE DEF r
  <2>3. r \in Through' /\ r \notin Through
    BY <2>1, <2>2 DEF Through, Connecting
  <2>4. Cardinality(Through \cup {r}) = Cardinality(Through) + 1
    BY <1>2, <2>3, FS_AddElement
  <2>5. Cardinality(Through \cup {r}) <= Cardinality(Through')
    BY <1>2, <2>3, FS_Subset
  <2>. QED
    BY <1>2, <1>3, <2>1, <2>4, <2>5 DEF ConnectsBound
<1>6. connects' = connects \/ \E t \in Threads : ConnectDone(t) \/ ConnectRefused(t)
  BY DEF Next, ThreadNext, SessionNext, Over, vars, StartRequest, TryConnect, ConnectWait,
         ConnectWoken, TransferThrows, Write, LockToRead, Read, ReadMessage
<1>. QED
  BY <1>4, <1>5, <1>6

-----------------------------------------------------------------------------
(* One answer for every request. *)

\* The threads that have written and not yet read.
Waiting == {t \in Threads : pc[t] \in {"written", "reading"}}

LEMMA WaitingFinite == IsFiniteSet(Waiting) /\ Cardinality(Waiting) \in Nat
  BY LinkAssumption, FS_Subset, FS_CardinalityType DEF Waiting

LEMMA CountStep ==
  Typed /\ Typed' /\ Socket /\ OneAnswerEach /\ [Next]_vars => OneAnswerEach'
<1>. SUFFICES ASSUME Typed, Typed', Socket, OneAnswerEach, [Next]_vars, connects' <= 1
              PROVE  Len(requests') + Len(answers') = Cardinality(Waiting')
  BY DEF OneAnswerEach, Waiting
<1>a. connects <= 1 => Len(requests) + Len(answers) = Cardinality(Waiting)
  BY DEF OneAnswerEach, Waiting
<1>b. Len(requests) \in Nat /\ Len(answers) \in Nat /\ connects \in Nat
  BY DEF Typed
<1>0. ASSUME UNCHANGED <<requests, answers, connects>>, Waiting' = Waiting
      PROVE  Len(requests') + Len(answers') = Cardinality(Waiting')
  BY <1>0, <1>a
<1>1. ASSUME NEW t \in Threads, StartRequest(t) PROVE Len(requests') + Len(answers') = Cardinality(Waiting')
  <2>1. Waiting' = Waiting
    BY <1>1 DEF Typed, Waiting, StartRequest, Goto
  <2>. QED
    BY <1>1, <2>1, <1>0 DEF StartRequest
<1>2. ASSUME NEW t \in Threads, TryConnect(t) PROVE Len(requests') + Len(answers') = Cardinality(Waiting')
  <2>1. Waiting' = Waiting
    BY <1>2 DEF Typed, Waiting, TryConnect, Goto
  <2>. QED
    BY <1>2, <2>1, <1>0 DEF TryConnect
<1>3. ASSUME NEW t \in Threads, ConnectWait(t) PROVE Len(requests') + Len(answers') = Cardinality(Waiting')
  <2>1. Waiting' = Waiting
    BY <1>3 DEF Typed, Waiting, ConnectWait, Goto
  <2>. QED
    BY <1>3, <2>1, <1>0 DEF ConnectWait
<1>4. ASSUME NEW t \in Threads, ConnectWoken(t) PROVE Len(requests') + Len(answers') = Cardinality(Waiting')
  <2>1. Waiting' = Waiting
    BY <1>4 DEF Typed, Waiting, ConnectWoken, Goto
  <2>. QED
    BY <1>4, <2>1, <1>0 DEF ConnectWoken
<1>6. ASSUME NEW t \in Threads, ConnectRefused(t) PROVE Len(requests') + Len(answers') = Cardinality(Waiting')
  <2>1. connects = 0
    BY <1>6, <1>b DEF ConnectRefused
  <2>2. Waiting' = {}
    BY <1>6, <2>1 DEF Waiting, Socket, ConnectRefused, Goto, Typed
  <2>. QED
    BY <1>6, <2>2, FS_EmptySet DEF ConnectRefused
<1>11. ASSUME NEW t \in Threads, TransferThrows(t) PROVE Len(requests') + Len(answers') = Cardinality(Waiting')
  <2>1. connects' = connects /\ SocketClosed /\ connected
    BY <1>11 DEF TransferThrows, Socket
  <2>. QED
    BY <2>1, <1>b DEF Socket
<1>8. ASSUME NEW t \in Threads, LockToRead(t) PROVE Len(requests') + Len(answers') = Cardinality(Waiting')
  <2>1. Waiting' = Waiting
    BY <1>8 DEF Typed, Waiting, LockToRead, Goto
  <2>. QED
    BY <1>8, <2>1, <1>0 DEF LockToRead
<1>5. ASSUME NEW t \in Threads, ConnectDone(t)
      PROVE  Len(requests') + Len(answers') = Cardinality(Waiting')
  <2>1. connects = 0
    BY <1>5, <1>b DEF ConnectDone
  <2>2. Waiting' = {}
    BY <1>5, <2>1 DEF Waiting, Socket, ConnectDone, Goto, Typed
  <2>. QED
    BY <1>5, <2>2, FS_EmptySet DEF ConnectDone
<1>7. ASSUME NEW t \in Threads, Write(t)
      PROVE  Len(requests') + Len(answers') = Cardinality(Waiting')
  <2>1. Waiting' = Waiting \cup {t} /\ t \notin Waiting
    BY <1>7 DEF Typed, Waiting, Write, Goto
  <2>2. Cardinality(Waiting') = Cardinality(Waiting) + 1
    BY <2>1, WaitingFinite, FS_AddElement
  <2>3. Len(requests') = Len(requests) + 1
    BY <1>7 DEF Write, Typed
  <2>. QED
    BY <1>7, <1>a, <1>b, <2>2, <2>3 DEF Write
<1>9. ASSUME NEW t \in Threads, Read(t)
      PROVE  Len(requests') + Len(answers') = Cardinality(Waiting')
  <2>1. Waiting' = Waiting \ {t} /\ t \in Waiting
    BY <1>9 DEF Typed, Waiting, Read
  <2>2. Cardinality(Waiting') = Cardinality(Waiting) - 1
    BY <2>1, WaitingFinite, FS_RemoveElement
  <2>3. Len(answers') = Len(answers) - 1
    BY <1>9 DEF Read, Typed
  <2>. QED
    BY <1>9, <1>a, <1>b, <2>2, <2>3, WaitingFinite DEF Read
<1>10. ASSUME NEW ok \in BOOLEAN, ReadMessage(ok)
       PROVE  Len(requests') + Len(answers') = Cardinality(Waiting')
  <2>1. Waiting' = Waiting
    BY <1>10 DEF Waiting, ReadMessage
  <2>2. Len(requests') = Len(requests) - 1 /\ Len(answers') = Len(answers) + 1
    BY <1>10 DEF ReadMessage, Typed
  <2>. QED
    BY <1>10, <1>a, <1>b, <2>1, <2>2 DEF ReadMessage
<1>20. CASE UNCHANGED vars
  BY <1>20, <1>0 DEF vars, Waiting
<1>. QED
  BY <1>1, <1>2, <1>3, <1>4, <1>5, <1>6, <1>7, <1>8, <1>9, <1>10, <1>11,
     <1>20 DEF Next, ThreadNext, SessionNext, Over

-----------------------------------------------------------------------------
LEMMA LinkInit == Init => LinkInv
<1>. SUFFICES ASSUME Init PROVE LinkInv
  OBVIOUS
<1>1. Typed
  <2>1. connected \in BOOLEAN /\ connecting \in BOOLEAN
    BY DEF Init
  <2>2. requests \in Seq(ReqIds) /\ answers \in Seq(Answer)
    BY EmptySeq DEF Init
  <2>. QED
    BY <2>1, <2>2, LinkAssumption DEF Init, Typed
<1>2. RequestsFresh /\ AnswersFresh /\ ResultsFresh
  BY DEF Init, RequestsFresh, AnswersFresh, ResultsFresh
<1>3. Socket
  BY DEF Init, Socket, SocketClosed
<1>4. ConnectsBound
  <2>1. IsFiniteSet(1 .. MaxRequests)
    BY LinkAssumption, FS_Interval
  <2>2. IsFiniteSet(ReqIds)
    BY <2>1, LinkAssumption, FS_Product DEF ReqIds
  <2>3. Cardinality(Through) \in Nat
    BY <2>2, FS_Subset, FS_CardinalityType DEF Through
  <2>. QED
    BY <2>3 DEF Init, ConnectsBound
<1>5. OneAnswerEach
  <2>1. {t \in Threads : pc[t] \in {"written", "reading"}} = {}
    BY DEF Init
  <2>. QED
    BY <2>1, FS_EmptySet DEF Init, OneAnswerEach
<1>. QED
  BY <1>1, <1>2, <1>3, <1>4, <1>5 DEF LinkInv

LEMMA LinkStep == LinkInv /\ [Next]_vars => LinkInv'
<1>. SUFFICES ASSUME LinkInv, [Next]_vars PROVE LinkInv'
  OBVIOUS
<1>0. Typed /\ Fresh /\ Socket /\ ConnectsBound /\ OneAnswerEach
  BY DEF LinkInv, Fresh
<1>1. Typed' /\ Socket' /\ Issued \subseteq Issued'
  BY <1>0, TypedStep, SocketStep, Grows
<1>2. ConnectsBound' /\ OneAnswerEach'
  BY <1>0, <1>1, ConnectsStep, CountStep
<1>3. Fresh'
  <2>1. CASE UNCHANGED <<requests, answers, result>>
    BY <1>0, <1>1, <2>1, FreshStill
  <2>2. \/ UNCHANGED <<requests, answers, result>>
        \/ \E t \in Threads : ConnectDone(t) \/ ConnectRefused(t) \/ Write(t) \/ Read(t)
        \/ \E ok \in BOOLEAN : ReadMessage(ok)
    BY DEF Next, ThreadNext, SessionNext, Over, vars, StartRequest, TryConnect, ConnectWait,
           ConnectWoken, TransferThrows, LockToRead
  <2>. QED
    BY <1>0, <1>1, <2>1, <2>2, FreshConnect, FreshWrite, FreshRead, FreshReadMessage
<1>. QED
  BY <1>1, <1>2, <1>3 DEF LinkInv, Fresh

LEMMA LinkAlways == Spec => []LinkInv
<1>. QED
  BY LinkInit, LinkStep, PTL DEF Spec

\* Every variable keeps its type, and the link never has more sockets than
\* requests, however often threads race in Connect (asio_link.cc).
THEOREM AsioLinkTypeOK == Spec => []TypeOK
<1>1. LinkInv => TypeOK
  <2>. SUFFICES ASSUME LinkInv PROVE TypeOK
    OBVIOUS
  <2>1. /\ IsFiniteSet(1 .. MaxRequests)
        /\ Cardinality(1 .. MaxRequests) = MaxRequests
    BY LinkAssumption, FS_Interval
  <2>2. /\ IsFiniteSet(ReqIds)
        /\ Cardinality(ReqIds) = Cardinality(Threads) * MaxRequests
    BY <2>1, LinkAssumption, FS_Product DEF ReqIds
  <2>3. Cardinality(Through) <= Cardinality(ReqIds) /\ Cardinality(Through) \in Nat
    BY <2>2, FS_Subset, FS_CardinalityType DEF Through
  <2>4. Cardinality(Threads) \in Nat
    BY LinkAssumption, FS_CardinalityType
  <2>5. connects <= MaxRequests * Cardinality(Threads)
    BY <2>2, <2>3, <2>4, LinkAssumption DEF LinkInv, ConnectsBound, Typed
  <2>. QED
    BY <2>5, <2>4, LinkAssumption DEF LinkInv, Typed, TypeOK, ReqIds
<1>. QED
  BY <1>1, LinkAlways, PTL

\* On the first socket every request that was written has one answer to come
\* (asio_link.cc, SendRequest against the session of ReceiverLoopAsio).
THEOREM AsioLinkOneAnswerEach == Spec => []OneAnswerEach
<1>1. LinkInv => OneAnswerEach
  BY DEF LinkInv
<1>. QED
  BY <1>1, LinkAlways, PTL

\* No answer is used by two requests, and nothing is written without a socket,
\* whichever threads lose or win the exchange of connecting_ (asio_link.cc,
\* Connect).
THEOREM AsioLinkAnswersUsedOnce == Spec => []AnswersUsedOnce
<1>1. LinkInv => AnswersUsedOnce
  BY DEF LinkInv, ResultsFresh, Socket, AnswersUsedOnce
<1>. QED
  BY <1>1, LinkAlways, PTL
=============================================================================
