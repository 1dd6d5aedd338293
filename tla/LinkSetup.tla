----------------------------- MODULE LinkSetup ------------------------------
(* link: how the parties of a mesh find each other.  Context::ConnectToMesh *)
(* over a link that reports its failures as NetworkError, which the retries *)
(* are written for, and over AsioLink; and FactoryMem's table of sessions.  *)
EXTENDS Integers, Sequences, FiniteSets, FiniteSetsExt, Scenario

CONSTANTS SetupRanks,       \* ranks are 0 .. SetupRanks - 1
          ConnectRetries,   \* connect_retry_times
          SessionCalls      \* CreateContext and close calls

Parties == 0 .. SetupRanks - 1
FirstPeer(r, i) == Min({q \in Parties \cup {SetupRanks} : q >= i /\ q # r})

(* A rank: down until its server runs, then sending to idx (the attempt-th  *)
(* time), then receiving from idx, then up, or failed with the cause.       *)
SetupStart(r) ==
    /\ st.rank[r].pc = "down"
    /\ Step("setup", [st EXCEPT !.rank[r] = [pc |-> "send", idx |-> FirstPeer(r, 0), attempt |-> 0, sent |-> {}, cause |-> ""]])

SentNext(k, r) == IF FirstPeer(r, k.idx + 1) < SetupRanks
                  THEN [k EXCEPT !.idx = FirstPeer(r, @ + 1), !.attempt = 0, !.sent = @ \cup {k.idx}]
                  ELSE [k EXCEPT !.pc = "recv", !.idx = FirstPeer(r, 0), !.attempt = 0, !.sent = @ \cup {k.idx}]
NextAttemptNone(k) == [k EXCEPT !.pc = "failed", !.cause = "budget"]
NextAttempt(k) == IF k.attempt + 1 < ConnectRetries THEN [k EXCEPT !.attempt = @ + 1]
                  ELSE [k EXCEPT !.pc = "failed", !.cause = "budget"]
Reachable(q) == st.rank[q].pc # "down"      \* its server answers, also after its ConnectToMesh failed

(* TestSend(timeout): answered; delivered, but the answer is late; or the   *)
(* server of the peer is not up.  AsioLink has no timeout and throws an     *)
(* asio::system_error for a refused connection, which is not caught.        *)
Delivered(r) == [st EXCEPT !.box[st.rank[r].idx] = @ \cup {r}]
TestSendOk(r) ==
    /\ st.rank[r].pc = "send" /\ Reachable(st.rank[r].idx)
    /\ Step("setup", [Delivered(r) EXCEPT !.rank[r] = SentNext(@, r)])
TestSendLate(r) ==
    /\ st.link = "network" /\ st.rank[r].pc = "send" /\ Reachable(st.rank[r].idx)
    /\ Step("setup", [Delivered(r) EXCEPT !.rank[r] = NextAttempt(@), !.late = TRUE])
TestSendIgnored(r) ==
    /\ st.rank[r].pc = "send" /\ ~Reachable(st.rank[r].idx)
    /\ Step("setup", [st EXCEPT !.rank[r] = SentNext(@, r)])
TestSendRefused(r) ==
    /\ st.rank[r].pc = "send" /\ ~Reachable(st.rank[r].idx)
    /\ Step("setup", [st EXCEPT !.rank[r] = IF st.link = "network" THEN NextAttempt(@)
                                            ELSE [@ EXCEPT !.pc = "failed", !.cause = "refused"]])

(* TestRecv takes the message and waits for the next peer, or times out.    *)
TestRecv(r) ==
    LET k == st.rank[r]
    IN  /\ k.pc = "recv" /\ k.idx \in st.box[r]
        /\ Step("setup", [st EXCEPT !.box[r] = @ \ {k.idx},
                                    !.rank[r] = IF FirstPeer(r, k.idx + 1) < SetupRanks THEN [k EXCEPT !.idx = FirstPeer(r, @ + 1)]
                                                ELSE [k EXCEPT !.pc = "up"]])
TestRecvTimeout(r) ==
    /\ st.rank[r].pc = "recv" /\ st.rank[r].idx \notin st.box[r]
    /\ Step("setup", [st EXCEPT !.rank[r] = [@ EXCEPT !.pc = "failed", !.cause = "recv timeout"]])

-----------------------------------------------------------------------------
(* FactoryMem: sessions by description.  ContextDescHasher takes in more of *)
(* a description than operator== compares: descriptions that differ in a    *)
(* timeout only are equal but have different hashes, so that the map keeps  *)
(* them apart.  A description is <<id, timeout>>; a session is the          *)
(* description it was made for and the ranks whose context was closed.      *)
Descs == {"job1", "job2"} \X {30, 60}
SameEntryTimeoutOnly(a, b) == a[2] = b[2]
SameEntry(a, b) == a = b
CreateContext == \E d \in Descs, r \in 0 .. 1 :
    LET found == {i \in DOMAIN st.sessions : SameEntry(st.sessions[i].desc, d)}
        sessions == IF found = {} THEN Append(st.sessions, [desc |-> d, closed |-> {}]) ELSE st.sessions
        at == IF found = {} THEN Len(sessions) ELSE Min(found)
    IN  Step("setup", [st EXCEPT !.sessions = sessions, !.calls = Append(@, [desc |-> d, rank |-> r, session |-> at,
                                                                              stale |-> r \in sessions[at].closed, shut |-> FALSE])])
CloseContext == \E i \in DOMAIN st.calls :
    /\ ~st.calls[i].shut
    /\ Step("setup", [st EXCEPT !.calls[i].shut = TRUE, !.sessions[st.calls[i].session].closed = @ \cup {st.calls[i].rank}])

-----------------------------------------------------------------------------
SetupInit ==
    \/ \E link \in {"network", "asio"} :
         Start("setup", [kind |-> "connect", link |-> link, late |-> FALSE, box |-> [r \in Parties |-> {}],
                         rank |-> [r \in Parties |-> [pc |-> "down", idx |-> 0, attempt |-> 0, sent |-> {}, cause |-> ""]]])
    \/ Start("setup", [kind |-> "mem", sessions |-> <<>>, calls |-> <<>>])
SetupNext ==
    /\ part = "setup"
    /\ \/ st.kind = "connect" /\ \E r \in Parties : \/ SetupStart(r) \/ TestSendOk(r) \/ TestSendLate(r) \/ TestSendRefused(r)
                                                    \/ TestRecv(r) \/ TestRecvTimeout(r)
       \/ st.kind = "mem" /\ Len(st.calls) < SessionCalls /\ CreateContext
       \/ st.kind = "mem" /\ CloseContext

-----------------------------------------------------------------------------
(* When ConnectToMesh returns, every party has been started and has reached *)
(* this one, and the message of this one is at every other party or has     *)
(* been taken there, so that none that is still connecting can wait for it. *)
ConnectedMeansAllUp ==
    part = "setup" /\ st.kind = "connect" =>
        \A r \in Parties : st.rank[r].pc = "up" =>
            \A q \in Parties \ {r} :
                /\ st.rank[q].pc # "down" /\ q \in st.rank[r].sent
                /\ \/ r \in st.box[q] \/ st.rank[q].pc \in {"up", "failed"}
                   \/ st.rank[q].pc = "recv" /\ st.rank[q].idx > r

(* A party that is started late does not make the others give up: a rank    *)
(* fails only after connect_retry_times attempts at one peer or when a      *)
(* peer's message does not come in time.  Stated for a link that reports    *)
(* NetworkError; a connection AsioLink is refused is left out, as nothing   *)
(* catches its exception.                                                   *)
GivesUpForACause ==
    part = "setup" /\ st.kind = "connect" =>
        \A r \in Parties : st.rank[r].pc = "failed" /\ (st.link = "asio" => st.rank[r].cause # "refused") =>
            \/ st.rank[r].cause = "budget" /\ st.rank[r].attempt = ConnectRetries - 1
            \/ st.rank[r].cause = "recv timeout" /\ st.rank[r].sent = Parties \ {r}

(* The contexts FactoryMem gives the ranks of one description belong to one *)
(* session, which no other description shares; a context has closed         *)
(* channels from the start only when the same description was used and      *)
(* closed at that rank before.                                              *)
SessionsKeptApart ==
    part = "setup" /\ st.kind = "mem" =>
        \A i, j \in DOMAIN st.calls :
            /\ (st.calls[i].desc = st.calls[j].desc) <=> (st.calls[i].session = st.calls[j].session)
            /\ st.calls[i].stale => \E k \in 1 .. i - 1 : st.calls[k].desc = st.calls[i].desc /\ st.calls[k].rank = st.calls[i].rank /\ st.calls[k].shut

-----------------------------------------------------------------------------
(* link/transport/channel: the calls that wait on a condition variable, and *)
(* Abort, which sets its flags and notifies without the mutex the waiting   *)
(* calls test them under.  One mutex and one condition variable, threads    *)
(* that wait on it with a timeout (Recv, ThrottleWindowWait) or without     *)
(* (WaitSeqIdSendFinished), one that makes what they wait for true under    *)
(* the mutex, and one that aborts.                                          *)

CONSTANTS TimedWaiters, UntimedWaiters

Waiters == TimedWaiters \cup UntimedWaiters
Unlocked == st.mutex = "free"
Here(w, pc) == st.pc[w] = pc
Goes(w, pc, mutex) == Step("wakeup", [st EXCEPT !.pc[w] = pc, !.mutex = mutex])

(* The loop: the condition, then the flag, then the wait, which lets go of  *)
(* the mutex and sleeps in one step.                                        *)
WaiterLock(w) == Here(w, "start") /\ Unlocked /\ Goes(w, "test", w)
WaiterTest(w) == Here(w, "test") /\ IF st.arrived THEN Goes(w, "returned", "free") ELSE Goes(w, "flag", w)
WaiterFlag(w) ==
    /\ Here(w, "flag")
    /\ IF st.aborting THEN Goes(w, "aborted", "free") ELSE Goes(w, "wait", w)
WaiterWait(w) == Here(w, "wait") /\ Goes(w, "asleep", "free")
WaiterWake(w) == Here(w, "woken") /\ Unlocked /\ Goes(w, "test", w)
WaiterTimeout(w) == w \in TimedWaiters /\ Here(w, "asleep") /\ Unlocked /\ Goes(w, "timed out", "free")
Woken == [w \in Waiters |-> IF st.pc[w] = "asleep" THEN "woken" ELSE st.pc[w]]

(* OnNormalMessage, OnAck and SendTaskFinishedNotify: the condition becomes *)
(* true under the mutex, then all are notified.                             *)
ArriveUnlocked == ~st.arrived /\ Step("wakeup", [st EXCEPT !.arrived = TRUE, !.telling = TRUE])
Arrive == ~st.arrived /\ Unlocked /\ Step("wakeup", [st EXCEPT !.arrived = TRUE, !.telling = TRUE])
ArriveNotify == st.telling /\ Step("wakeup", [st EXCEPT !.pc = Woken, !.telling = FALSE])

AbortStore == ~st.aborting /\ st.aborter = "store" /\ Step("wakeup", [st EXCEPT !.aborting = TRUE, !.aborter = "notify"])
InWindow == {w \in Waiters : Here(w, "wait")}
AbortNotifyFirst ==
    \/ st.aborter = "store" /\ ~st.notified /\ Step("wakeup", [st EXCEPT !.pc = Woken, !.notified = TRUE, !.missed = InWindow])
    \/ st.aborter = "notify" /\ Step("wakeup", [st EXCEPT !.aborter = "done"])
AbortNotify ==
    /\ st.aborter = "notify"
    /\ Step("wakeup", [st EXCEPT !.pc = Woken, !.notified = TRUE, !.missed = InWindow, !.aborter = "done"])

WakeupInit == Start("wakeup", [mutex |-> "free", pc |-> [w \in Waiters |-> "start"], arrived |-> FALSE, telling |-> FALSE,
                               aborting |-> FALSE, notified |-> FALSE, missed |-> {}, aborter |-> "store"])
WakeupNext ==
    /\ part = "wakeup"
    /\ \/ \E w \in Waiters : \/ WaiterLock(w) \/ WaiterTest(w) \/ WaiterFlag(w) \/ WaiterWait(w) \/ WaiterWake(w) \/ WaiterTimeout(w)
       \/ Arrive \/ ArriveNotify \/ AbortStore \/ AbortNotify

-----------------------------------------------------------------------------
(* No wake-up of an arrival is lost: it is made true under the mutex, so a  *)
(* call that sleeps although it has arrived is about to be notified.        *)
ArrivalReachesSleepers ==
    part = "wakeup" /\ st.arrived /\ ~st.telling => \A w \in Waiters : ~Here(w, "asleep") /\ ~Here(w, "wait")

(* No call sleeps once Abort is over, those that were asleep, had not yet   *)
(* tested or were woken by something else included.  A call that was        *)
(* between its test of the flag and its wait when Abort notified is left    *)
(* out: it misses the notification, as Abort does not take the mutex.       *)
AbortWakesSleepers ==
    part = "wakeup" /\ st.aborter = "done" =>
        \A w \in Waiters \ st.missed : ~Here(w, "asleep")
=============================================================================
