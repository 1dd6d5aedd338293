------------------------- MODULE ChannelCloseProofs -------------------------
(***************************************************************************)
(* The close of a channel: when WaitLinkTaskFinish has returned and the    *)
(* server is stopped, the peer has nothing left that needs it.  Proved for *)
(* users that close after their other calls have returned (Serial) and     *)
(* links that lose requests but no answers, for every other option.        *)
(***************************************************************************)
EXTENDS ChannelIdProofs, NaturalsInduction, WellFoundedInduction

\* The steps of a thread that closes.
Closing == {"fin", "waitfin", "waitmsgs", "stop", "join", "waitall", "waitack", "closed"}

\* Nothing that is under way has arrived (no answer gets lost).
FlyingNew ==
  \A p \in Peers : \A x \in tasks[p] : x.state = "flying" =>
    /\ x.key \in Keys => x.id \notin received_msg_ids[Peer(p)]
    /\ x.key = kAckKey => x.id \notin received_ack_ids[Peer(p)]
    /\ x.key = kFinKey => ~ received_fin[Peer(p)]

\* A message is acknowledged once.
AckOnce ==
  \A p \in Peers :
    /\ \A x, y \in tasks[p] : x.key = kAckKey /\ y.key = kAckKey /\ x.id = y.id => x = y
    /\ \A t \in Threads : thread[p][t].pc = "ack" =>
         /\ thread[p][t].id \notin received_ack_ids[Peer(p)]
         /\ \A u \in Threads : thread[p][u].pc = "ack" /\ thread[p][u].id = thread[p][t].id
                                 => u = t
         /\ \A x \in tasks[p] : x.key = kAckKey => x.id # thread[p][t].id

\* One thread closes, and the user makes no other call.
OneCloser ==
  \A p \in Peers :
    /\ waiting_finish[p] => \A t \in Threads : thread[p][t].pc \in Closing \cup {"idle"}
    /\ \A t \in Threads : thread[p][t].pc \in Closing =>
         /\ waiting_finish[p]
         /\ \A u \in Threads : thread[p][u].pc \in Closing => u = t

\* The FIN tells the number of messages.
FinTrue ==
  \A p \in Peers :
    /\ \A x, y \in tasks[p] : x.key = kFinKey /\ y.key = kFinKey => x = y
    /\ (\E x \in tasks[p] : x.key = kFinKey) \/ received_fin[Peer(p)] =>
         waiting_finish[p] /\ \A t \in Threads : thread[p][t].pc # "fin"
    /\ \A x \in tasks[p] : x.key = kFinKey => x.id = msg_seq_id[p]
    /\ received_fin[Peer(p)] => peer_sent_msg_count[Peer(p)] = msg_seq_id[p]

\* What the closing thread has waited for.
CloseInv ==
  \A p \in Peers :
    /\ process[p] = "stopped" => \E t \in Threads : thread[p][t].pc = "closed"
    /\ \A t \in Threads :
         /\ thread[p][t].pc \in {"waitmsgs", "stop", "join", "waitall", "waitack", "closed"}
              => received_fin[p]
         /\ thread[p][t].pc \in {"stop", "join", "waitall", "waitack", "closed"}
              => 1 .. peer_sent_msg_count[p] \subseteq received_msg_ids[p]
         /\ thread[p][t].pc = "closed" => 1 .. msg_seq_id[p] \subseteq received_ack_ids[p]

ClInv == IdsInv /\ FlyingNew /\ AckOnce /\ OneCloser /\ FinTrue /\ CloseInv

-----------------------------------------------------------------------------
(* What the waits of the close mean. *)

LEMMA LeastOf ==
  ASSUME NEW S \in SUBSET Nat, S # {}
  PROVE  \E k \in S : \A j \in S : k <= j
<1>. DEFINE R == OpToRel(<, Nat)
<1>1. IsWellFoundedOn(R, Nat)
  BY NatLessThanWellFounded
<1>2. PICK x \in S : \A y \in S : ~ (<<y, x>> \in R)
  <2>. HIDE DEF R
  <2>. QED
    BY <1>1, WFMin
<1>3. \A y \in S : ~ (y < x)
  BY <1>2 DEF OpToRel
<1>. QED
  BY <1>3

\* One run of ids from the first to the last: none is missing.
LEMMA AllOfThem ==
  ASSUME NEW S \in SUBSET (1 .. MaxMsgs), NEW n \in Nat, AllReceived(S, n)
  PROVE  1 .. n \subseteq S
<1>. SUFFICES ASSUME NEW j \in 1 .. n, j \notin S PROVE FALSE
  OBVIOUS
<1>0. S \subseteq Nat /\ \A i \in S : i >= 1
  BY BoundsAssumption
<1>1. 1 \in S /\ n \in S /\ SegmentsCount(S) <= 1
  BY DEF AllReceived
<1>. DEFINE T == {i \in S : i > j}
            B == {i \in S : i - 1 \notin S}
<1>2. PICK k \in T : \A i \in T : k <= i
  <2>1. n \in T
    BY <1>1
  <2>2. T \in SUBSET Nat /\ T # {}
    BY <1>0, <2>1
  <2>. HIDE DEF T
  <2>. QED
    BY <2>2, LeastOf
<1>3. k \in S /\ k \in Nat /\ k > j /\ k # 1
  BY <1>0, <1>2
<1>4. k - 1 \notin S
  <2>. SUFFICES ASSUME k - 1 \in S PROVE FALSE
    OBVIOUS
  <2>1. k - 1 # j /\ k - 1 >= j
    BY <1>3
  <2>2. k - 1 \in T
    BY <1>3, <2>1
  <2>3. k <= k - 1
    BY <1>2, <2>2
  <2>. QED
    BY <1>3, <2>3
<1>5. 1 \in B /\ k \in B
  BY <1>0, <1>1, <1>3, <1>4
<1>6. IsFiniteSet(B)
  BY FiniteIds
<1>7. Cardinality({1, k}) = 2
  <2>1. Cardinality({1}) = 1 /\ IsFiniteSet({1})
    BY FS_Singleton
  <2>2. Cardinality({1} \cup {k}) = Cardinality({1}) + 1
    BY <1>3, <2>1, FS_AddElement
  <2>3. {1} \cup {k} = {1, k}
    OBVIOUS
  <2>. QED
    BY <2>1, <2>2, <2>3
<1>8. Cardinality({1, k}) <= Cardinality(B)
  <2>1. {1, k} \subseteq B
    BY <1>5
  <2>. HIDE DEF B
  <2>. QED
    BY <1>6, <2>1, FS_Subset
<1>9. Cardinality(B) <= 1 /\ Cardinality(B) \in Nat
  BY <1>1, <1>6, FS_CardinalityType DEF SegmentsCount
<1>. QED
  BY <1>7, <1>8, <1>9

-----------------------------------------------------------------------------
(* How tasks come and go. *)

\* In a step a task x of p may become y, and the tasks in A[s] are new at s.
Flow(p, x, y, A) ==
  /\ y.key = x.key /\ y.id = x.id
  /\ y.state = "flying" => x.state = "flying"
  /\ \A s \in Peers : \A z \in tasks'[s] :
       \/ z \in tasks[s] /\ (s = p => z # x)
       \/ s = p /\ z = y /\ x \in tasks[p]
       \/ z \in A[s]

None == [s \in Peers |-> {}]

\* Tasks of one kind keep distinct ids.
Unique(key, T) == \A z, w \in T : z.key = key /\ w.key = key /\ z.id = w.id => z = w

LEMMA FlowUnique ==
  ASSUME NEW p \in Peers, NEW x, NEW y, NEW A, Flow(p, x, y, A), NEW key,
         NEW s \in Peers, Unique(key, tasks[s]), Unique(key, A[s]),
         \A z \in A[s], w \in tasks[s] : z.key = key /\ w.key = key => z.id # w.id
  PROVE  Unique(key, tasks'[s])
<1>. SUFFICES ASSUME NEW z \in tasks'[s], NEW w \in tasks'[s],
                     z.key = key, w.key = key, z.id = w.id
              PROVE  z = w
  BY DEF Unique
<1>1. \A v \in {z, w} : \/ v \in tasks[s] /\ (s = p => v # x)
                        \/ s = p /\ v = y /\ x \in tasks[p]
                        \/ v \in A[s]
  BY DEF Flow
<1>2. y.key = x.key /\ y.id = x.id
  BY DEF Flow
<1>. QED
  BY <1>1, <1>2 DEF Unique

\* A step may answer the request of x: what it brings is then received.
Arrivals(p, x, y) ==
  LET q == Peer(p) IN
  /\ \A s \in Peers : \A i \in received_msg_ids'[s] :
       \/ i \in received_msg_ids[s]
       \/ s = q /\ i = x.id /\ x \in tasks[p] /\ x.key \in Keys /\ y.state # "flying"
  /\ \A s \in Peers : \A i \in received_ack_ids'[s] :
       \/ i \in received_ack_ids[s]
       \/ s = q /\ i = x.id /\ x \in tasks[p] /\ x.key = kAckKey /\ y.state # "flying"
  /\ \A s \in Peers : received_fin'[s] =>
       \/ received_fin[s] /\ peer_sent_msg_count'[s] = peer_sent_msg_count[s]
       \/ /\ s = q /\ x \in tasks[p] /\ x.key = kFinKey /\ y.state # "flying"
          /\ ~ received_fin[s] /\ peer_sent_msg_count'[s] = x.id
  /\ \A s \in Peers : /\ received_msg_ids[s] \subseteq received_msg_ids'[s]
                      /\ received_ack_ids[s] \subseteq received_ack_ids'[s]
                      /\ received_fin[s] => received_fin'[s]

LEMMA FlyingStep ==
  ASSUME ClInv, NEW p \in Peers, NEW x, NEW y, NEW A, Flow(p, x, y, A), Arrivals(p, x, y),
         \A s \in Peers : \A z \in A[s] : z.state = "flying" =>
           /\ z.key \in Keys => z.id \notin received_msg_ids'[Peer(s)]
           /\ z.key = kAckKey => z.id \notin received_ack_ids'[Peer(s)]
           /\ z.key = kFinKey => ~ received_fin'[Peer(s)]
  PROVE  FlyingNew'
<1>. SUFFICES ASSUME NEW s \in Peers, NEW z \in tasks'[s], z.state = "flying"
              PROVE  /\ z.key \in Keys => z.id \notin received_msg_ids'[Peer(s)]
                     /\ z.key = kAckKey => z.id \notin received_ack_ids'[Peer(s)]
                     /\ z.key = kFinKey => ~ received_fin'[Peer(s)]
  BY DEF FlyingNew
<1>0. /\ FlyingNew /\ HandedOK /\ AckOnce /\ FinTrue /\ Peer(s) \in Peers
      /\ Peer(s) = Peer(p) => s = p
  BY PeerOther DEF ClInv, IdsInv
<1>1. CASE z \in A[s]
  BY <1>1
<1>2. CASE s = p /\ z = y /\ x \in tasks[p]
  <2>1. x.state = "flying" /\ y.state = "flying" /\ x.key = z.key /\ x.id = z.id
    BY <1>2 DEF Flow
  <2>2. /\ z.key \in Keys => z.id \notin received_msg_ids[Peer(s)]
        /\ z.key = kAckKey => z.id \notin received_ack_ids[Peer(s)]
        /\ z.key = kFinKey => ~ received_fin[Peer(s)]
    BY <1>0, <1>2, <2>1 DEF FlyingNew
  <2>. QED
    BY <1>0, <2>1, <2>2 DEF Arrivals
<1>3. CASE z \in tasks[s] /\ (s = p => z # x)
  <2>1. /\ z.key \in Keys => z.id \notin received_msg_ids[Peer(s)]
        /\ z.key = kAckKey => z.id \notin received_ack_ids[Peer(s)]
        /\ z.key = kFinKey => ~ received_fin[Peer(s)]
    BY <1>0, <1>3 DEF FlyingNew
  <2>2. z.key \in Keys => z.id \notin received_msg_ids'[Peer(s)]
    BY <1>0, <1>3, <2>1 DEF Arrivals, HandedOK
  <2>3. z.key = kAckKey => z.id \notin received_ack_ids'[Peer(s)]
    BY <1>0, <1>3, <2>1 DEF Arrivals, AckOnce
  <2>4. z.key = kFinKey => ~ received_fin'[Peer(s)]
    BY <1>0, <1>3, <2>1 DEF Arrivals, FinTrue
  <2>. QED
    BY <2>2, <2>3, <2>4
<1>. QED
  BY <1>1, <1>2, <1>3 DEF Flow

LEMMA AckStep ==
  ASSUME ClInv, NEW p \in Peers, NEW x, NEW y, NEW A, Flow(p, x, y, A), Arrivals(p, x, y),
         \A s \in Peers : Unique(kAckKey, A[s]),
         \A s \in Peers : \A z \in A[s] : z.key = kAckKey =>
           /\ \A w \in tasks[s] : w.key = kAckKey => w.id # z.id
           /\ \A u \in Threads : thread'[s][u].pc = "ack" => thread'[s][u].id # z.id,
         \A s \in Peers, u \in Threads :
           thread'[s][u].pc = "ack" => thread'[s][u] = thread[s][u]
  PROVE  AckOnce'
<1>0. AckOnce
  BY DEF ClInv
<1>1. ASSUME NEW s \in Peers PROVE Unique(kAckKey, tasks'[s])
  <2>1. Unique(kAckKey, tasks[s])
    BY <1>0 DEF AckOnce, Unique
  <2>. QED
    BY <2>1, FlowUnique
<1>2. ASSUME NEW s \in Peers, NEW t \in Threads, thread'[s][t].pc = "ack"
      PROVE  /\ thread'[s][t].id \notin received_ack_ids'[Peer(s)]
             /\ \A u \in Threads : thread'[s][u].pc = "ack" /\ thread'[s][u].id = thread'[s][t].id
                                     => u = t
             /\ \A z \in tasks'[s] : z.key = kAckKey => z.id # thread'[s][t].id
  <2>1. thread'[s][t] = thread[s][t] /\ thread[s][t].pc = "ack"
    BY <1>2
  <2>2. /\ thread[s][t].id \notin received_ack_ids[Peer(s)]
        /\ \A u \in Threads : thread[s][u].pc = "ack" /\ thread[s][u].id = thread[s][t].id => u = t
        /\ \A z \in tasks[s] : z.key = kAckKey => z.id # thread[s][t].id
    BY <1>0, <2>1 DEF AckOnce
  <2>3. Peer(s) \in Peers /\ (Peer(s) = Peer(p) => s = p)
    BY PeerOther
  <2>4. thread[s][t].id \notin received_ack_ids'[Peer(s)]
    BY <2>2, <2>3 DEF Arrivals
  <2>5. \A z \in tasks'[s] : z.key = kAckKey => z.id # thread[s][t].id
    BY <1>2, <2>1, <2>2 DEF Flow
  <2>6. \A u \in Threads : thread'[s][u].pc = "ack" /\ thread'[s][u].id = thread'[s][t].id => u = t
    BY <2>1, <2>2
  <2>. QED
    BY <2>1, <2>4, <2>5, <2>6
<1>. QED
  BY <1>1, <1>2 DEF AckOnce, Unique

\* How the steps of a close follow each other.
After == {"waitmsgs", "stop", "join", "waitall", "waitack", "closed"}
Last == {"stop", "join", "waitall", "waitack", "closed"}

Gates ==
  /\ \A s \in Peers : waiting_finish[s] => waiting_finish'[s] /\ msg_seq_id'[s] = msg_seq_id[s]
  /\ \A s \in Peers, u \in Threads :
       /\ thread'[s][u].pc = "fin" => thread[s][u].pc = "fin" \/ ~ waiting_finish[s]
       /\ thread'[s][u].pc \in After =>
            thread[s][u].pc \in After \/ (thread[s][u].pc = "waitfin" /\ received_fin[s])
       /\ thread'[s][u].pc \in Last =>
            \/ thread[s][u].pc \in Last
            \/ /\ thread[s][u].pc = "waitmsgs"
               /\ 1 .. peer_sent_msg_count[s] \subseteq received_msg_ids[s]
       /\ thread'[s][u].pc = "closed" =>
            \/ thread[s][u].pc = "closed"
            \/ thread[s][u].pc = "waitack" /\ 1 .. msg_seq_id[s] \subseteq received_ack_ids[s]
  /\ \A s \in Peers : process'[s] = "stopped" =>
       process[s] = "stopped" \/ \E t \in Threads : thread'[s][t].pc = "closed"
  /\ \A s \in Peers : process[s] = "stopped" => \A u \in Threads : thread'[s][u] = thread[s][u]

LEMMA FinStep ==
  ASSUME ClInv, NEW p \in Peers, NEW x, NEW y, NEW A, Flow(p, x, y, A), Arrivals(p, x, y), Gates,
         \A s \in Peers : Unique(kFinKey, A[s]),
         \A s \in Peers : \A z \in A[s] : z.key = kFinKey =>
           /\ z.id = msg_seq_id[s]
           /\ \E t \in Threads : thread[s][t].pc = "fin"
           /\ \A u \in Threads : thread'[s][u].pc # "fin"
  PROVE  FinTrue'
<1>0. FinTrue /\ OneCloser
  BY DEF ClInv
<1>1. ASSUME NEW s \in Peers, NEW z \in A[s], z.key = kFinKey
      PROVE  /\ waiting_finish[s] /\ ~ received_fin[Peer(s)]
             /\ \A w \in tasks[s] : w.key # kFinKey
  <2>1. PICK t \in Threads : thread[s][t].pc = "fin"
    BY <1>1
  <2>. QED
    BY <1>0, <2>1 DEF FinTrue, OneCloser, Closing
<1>2. ASSUME NEW s \in Peers PROVE Unique(kFinKey, tasks'[s])
  <2>1. Unique(kFinKey, tasks[s])
    BY <1>0 DEF FinTrue, Unique
  <2>2. \A z \in A[s], w \in tasks[s] : z.key = kFinKey /\ w.key = kFinKey => z.id # w.id
    BY <1>1
  <2>. QED
    BY <2>1, <2>2, FlowUnique
<1>3. ASSUME NEW s \in Peers, NEW z \in tasks'[s], z.key = kFinKey
      PROVE  /\ waiting_finish[s] /\ \A u \in Threads : thread'[s][u].pc # "fin"
             /\ z.id = msg_seq_id[s]
  <2>1. CASE z \in A[s]
    BY <1>1, <1>3, <2>1
  <2>2. CASE \E w \in tasks[s] : w.key = kFinKey /\ w.id = z.id
    <3>1. waiting_finish[s] /\ z.id = msg_seq_id[s] /\ \A u \in Threads : thread[s][u].pc # "fin"
      BY <1>0, <2>2 DEF FinTrue
    <3>. QED
      BY <3>1 DEF Gates
  <2>. QED
    BY <1>3, <2>1, <2>2 DEF Flow
<1>4. ASSUME NEW s \in Peers, received_fin'[Peer(s)]
      PROVE  /\ waiting_finish[s] /\ \A u \in Threads : thread'[s][u].pc # "fin"
             /\ peer_sent_msg_count'[Peer(s)] = msg_seq_id[s]
  <2>0. Peer(s) \in Peers /\ (Peer(s) = Peer(p) => s = p)
    BY PeerOther
  <2>1. CASE /\ received_fin[Peer(s)]
             /\ peer_sent_msg_count'[Peer(s)] = peer_sent_msg_count[Peer(s)]
    <3>1. /\ waiting_finish[s] /\ \A u \in Threads : thread[s][u].pc # "fin"
          /\ peer_sent_msg_count[Peer(s)] = msg_seq_id[s]
      BY <1>0, <2>1 DEF FinTrue
    <3>. QED
      BY <2>1, <3>1 DEF Gates
  <2>2. CASE /\ s = p /\ x \in tasks[p] /\ x.key = kFinKey
             /\ peer_sent_msg_count'[Peer(s)] = x.id
    <3>1. /\ waiting_finish[s] /\ \A u \in Threads : thread[s][u].pc # "fin"
          /\ x.id = msg_seq_id[s]
      BY <1>0, <2>2 DEF FinTrue
    <3>. QED
      BY <2>2, <3>1 DEF Gates
  <2>. QED
    BY <1>4, <2>0, <2>1, <2>2 DEF Arrivals
<1>5. ASSUME NEW s \in Peers, waiting_finish[s]
      PROVE  waiting_finish'[s] /\ msg_seq_id'[s] = msg_seq_id[s]
  BY <1>5 DEF Gates
<1>6. ASSUME NEW s \in Peers
      PROVE  (/\ \A z, w \in tasks[s] : z.key = kFinKey /\ w.key = kFinKey => z = w
              /\ (\E z \in tasks[s] : z.key = kFinKey) \/ received_fin[Peer(s)] =>
                   waiting_finish[s] /\ \A t \in Threads : thread[s][t].pc # "fin"
              /\ \A z \in tasks[s] : z.key = kFinKey => z.id = msg_seq_id[s]
              /\ received_fin[Peer(s)] => peer_sent_msg_count[Peer(s)] = msg_seq_id[s])'
  <2>1. ASSUME NEW z \in tasks'[s], NEW w \in tasks'[s], z.key = kFinKey, w.key = kFinKey
        PROVE  z = w
    BY <1>2, <1>3, <2>1 DEF Unique
  <2>2. ASSUME (\E z \in tasks'[s] : z.key = kFinKey) \/ received_fin'[Peer(s)]
        PROVE  waiting_finish'[s] /\ \A t \in Threads : thread'[s][t].pc # "fin"
    BY <1>3, <1>4, <1>5, <2>2
  <2>3. ASSUME NEW z \in tasks'[s], z.key = kFinKey PROVE z.id = msg_seq_id'[s]
    BY <1>3, <1>5, <2>3
  <2>4. ASSUME received_fin'[Peer(s)] PROVE peer_sent_msg_count'[Peer(s)] = msg_seq_id'[s]
    BY <1>4, <1>5, <2>4
  <2>. QED
    BY <2>1, <2>2, <2>3, <2>4
<1>. QED
  BY <1>6 DEF FinTrue

LEMMA CloseStep ==
  ASSUME ClInv, NEW p \in Peers, NEW x, NEW y, Arrivals(p, x, y), Gates
  PROVE  CloseInv'
<1>0. CloseInv /\ OneCloser
  BY DEF ClInv
<1>1. ASSUME NEW s \in Peers, process'[s] = "stopped"
      PROVE  \E t \in Threads : thread'[s][t].pc = "closed"
  BY <1>0, <1>1 DEF Gates, CloseInv
<1>2. ASSUME NEW s \in Peers, NEW t \in Threads, thread'[s][t].pc \in After
      PROVE  received_fin[s] /\ received_fin'[s]
  <2>1. received_fin[s]
    BY <1>0, <1>2 DEF Gates, CloseInv, After
  <2>. QED
    BY <2>1 DEF Arrivals
<1>3. ASSUME NEW s \in Peers, NEW t \in Threads, thread'[s][t].pc \in Last
      PROVE  1 .. peer_sent_msg_count'[s] \subseteq received_msg_ids'[s]
  <2>1. 1 .. peer_sent_msg_count[s] \subseteq received_msg_ids[s]
    BY <1>0, <1>3 DEF Gates, CloseInv, Last
  <2>2. received_fin[s] /\ received_fin'[s]
    BY <1>2, <1>3 DEF After, Last
  <2>3. peer_sent_msg_count'[s] = peer_sent_msg_count[s]
        /\ received_msg_ids[s] \subseteq received_msg_ids'[s]
    BY <2>2 DEF Arrivals
  <2>. QED
    BY <2>1, <2>3
<1>4. ASSUME NEW s \in Peers, NEW t \in Threads, thread'[s][t].pc = "closed"
      PROVE  1 .. msg_seq_id'[s] \subseteq received_ack_ids'[s]
  <2>1. 1 .. msg_seq_id[s] \subseteq received_ack_ids[s]
    BY <1>0, <1>4 DEF Gates, CloseInv
  <2>2. thread[s][t].pc \in Closing
    BY <1>4 DEF Gates, Closing
  <2>3. msg_seq_id'[s] = msg_seq_id[s]
    BY <1>0, <2>2 DEF OneCloser, Gates
  <2>4. received_ack_ids[s] \subseteq received_ack_ids'[s]
    BY DEF Arrivals
  <2>. QED
    BY <2>1, <2>3, <2>4
<1>. QED
  BY <1>1, <1>2, <1>3, <1>4 DEF CloseInv, After, Last

-----------------------------------------------------------------------------
(* The threads of an end, before and while it closes. *)

\* The pairs of steps of a close that only wait.
NextWait == {<<"fin", "waitfin">>, <<"stop", "join">>, <<"join", "waitall">>,
             <<"waitall", "waitack">>}

\* Thread t of p takes a step: only t moves.
OnlyMoves(p, t) ==
  /\ Up(p)
  /\ \A s \in Peers, u \in Threads : s # p \/ u # t => thread'[s][u] = thread[s][u]

OutsideClose(p, t) ==
  /\ ~ waiting_finish[p]
  /\ thread[p][t].pc \notin Closing /\ thread'[p][t].pc \notin Closing
  /\ waiting_finish' = waiting_finish /\ process' = process
  /\ \A s \in Peers : s # p => msg_seq_id'[s] = msg_seq_id[s]

StartsClose(p, t) ==
  /\ ~ waiting_finish[p]
  /\ thread'[p][t].pc = "fin"
  /\ \A u \in Threads : thread[p][u].pc = "idle"
  /\ waiting_finish'[p] /\ \A s \in Peers : s # p => waiting_finish'[s] = waiting_finish[s]
  /\ process' = process /\ msg_seq_id' = msg_seq_id

GoesOnClosing(p, t) ==
  LET a == thread[p][t].pc
      b == thread'[p][t].pc
  IN  /\ a \in Closing
      /\ waiting_finish' = waiting_finish /\ msg_seq_id' = msg_seq_id
      /\ \/ process' = process /\ <<a, b>> \in NextWait
         \/ process' = process /\ a = "waitfin" /\ b = "waitmsgs" /\ received_fin[p]
         \/ /\ process' = process /\ a = "waitmsgs" /\ b = "stop"
            /\ 1 .. peer_sent_msg_count[p] \subseteq received_msg_ids[p]
         \/ /\ process' = process /\ a = "waitack" /\ b = "closed"
            /\ 1 .. msg_seq_id[p] \subseteq received_ack_ids[p]
         \/ /\ a = "closed" /\ b = "closed"
            /\ \A s \in Peers : s # p => process'[s] = process[s]

ThreadRow(p, t) ==
  OnlyMoves(p, t) /\ (OutsideClose(p, t) \/ StartsClose(p, t) \/ GoesOnClosing(p, t))

LEMMA RowGates ==
  ASSUME OneCloser, NEW p \in Peers, NEW t \in Threads, ThreadRow(p, t)
  PROVE  Gates /\ OneCloser'
<1>0. /\ \A s \in Peers, u \in Threads : s # p \/ u # t => thread'[s][u] = thread[s][u]
      /\ process[p] = "up"
  BY DEF ThreadRow, OnlyMoves, Up
<1>1. CASE OutsideClose(p, t)
  <2>1. Gates
    BY <1>0, <1>1 DEF Gates, OutsideClose, Closing, After, Last
  <2>2. OneCloser'
    BY <1>0, <1>1 DEF OneCloser, OutsideClose
  <2>. QED
    BY <2>1, <2>2
<1>2. CASE StartsClose(p, t)
  <2>1. Gates
    BY <1>0, <1>2 DEF Gates, StartsClose, After, Last
  <2>2. OneCloser'
    BY <1>0, <1>2 DEF OneCloser, StartsClose, Closing
  <2>. QED
    BY <2>1, <2>2
<1>3. CASE GoesOnClosing(p, t)
  <2>0. /\ thread'[p][t].pc \in Closing
        /\ waiting_finish' = waiting_finish /\ msg_seq_id' = msg_seq_id
    BY <1>3 DEF GoesOnClosing, NextWait, Closing
  <2>1. Gates
    <3>1. ASSUME NEW s \in Peers, NEW u \in Threads
          PROVE  /\ thread'[s][u].pc = "fin" => thread[s][u].pc = "fin" \/ ~ waiting_finish[s]
                 /\ thread'[s][u].pc \in After =>
                      \/ thread[s][u].pc \in After
                      \/ thread[s][u].pc = "waitfin" /\ received_fin[s]
                 /\ thread'[s][u].pc \in Last =>
                      \/ thread[s][u].pc \in Last
                      \/ /\ thread[s][u].pc = "waitmsgs"
                         /\ 1 .. peer_sent_msg_count[s] \subseteq received_msg_ids[s]
                 /\ thread'[s][u].pc = "closed" =>
                      \/ thread[s][u].pc = "closed"
                      \/ /\ thread[s][u].pc = "waitack"
                         /\ 1 .. msg_seq_id[s] \subseteq received_ack_ids[s]
      <4>1. CASE s # p \/ u # t
        BY <1>0, <4>1
      <4>2. CASE s = p /\ u = t
        BY <1>3, <4>2 DEF GoesOnClosing, NextWait, After, Last
      <4>. QED
        BY <4>1, <4>2
    <3>2. \A s \in Peers : process'[s] = "stopped" =>
             process[s] = "stopped" \/ \E u \in Threads : thread'[s][u].pc = "closed"
      BY <1>3 DEF GoesOnClosing
    <3>. QED
      BY <1>0, <2>0, <3>1, <3>2 DEF Gates
  <2>2. OneCloser'
    BY <1>0, <1>3, <2>0 DEF OneCloser, GoesOnClosing
  <2>. QED
    BY <2>1, <2>2
<1>. QED
  BY <1>1, <1>2, <1>3 DEF ThreadRow

\* A thread goes from a to b and nothing else about it or the close changes.
LEMMA MovedRow ==
  ASSUME TypeInv, NEW p \in Peers, NEW t \in Threads, NEW pc \in ThreadPc,
         Goto(p, t, pc) \/ Return(p, t), Up(p)
  PROVE  OnlyMoves(p, t) /\ thread'[p][t].pc \in {pc, "idle"}
  BY ThreadMoved DEF OnlyMoves

LEMMA GotoRow ==
  ASSUME TypeInv, NEW p \in Peers, NEW t \in Threads, NEW pc \in ThreadPc,
         Goto(p, t, pc), Up(p)
  PROVE  OnlyMoves(p, t) /\ thread'[p][t].pc = pc
<1>0. ThreadTypeOK /\ thread[p][t] \in ThreadState
  BY DEF TypeInv, TypeOK, ThreadTypeOK
<1>1. [thread[p][t] EXCEPT !.pc = pc].pc = pc
  BY <1>0 DEF ThreadState
<1>2. thread' = [thread EXCEPT ![p][t] = [thread[p][t] EXCEPT !.pc = pc]]
  BY <1>0, GotoSet
<1>. QED
  BY <1>0, <1>1, <1>2 DEF ThreadTypeOK, OnlyMoves

LEMMA ThreadRows ==
  ASSUME TypeInv, OneCloser, Serial, NEW p \in Peers, NEW t \in Threads,
         UserNext(p, t) \/ CallNext(p, t) \/ CloseNext(p, t)
  PROVE  ThreadRow(p, t)
<1>0. ThreadTypeOK /\ thread[p][t] \in ThreadState /\ SendTypeOK /\ CtrlTypeOK /\ RecvTypeOK
  BY DEF TypeInv, TypeOK, ThreadTypeOK
<1>1. ASSUME NEW r, r.pc \notin Closing, thread' = [thread EXCEPT ![p][t] = r], Up(p),
             ~ waiting_finish[p], thread[p][t].pc \notin Closing,
             waiting_finish' = waiting_finish, process' = process,
             \A s \in Peers : s # p => msg_seq_id'[s] = msg_seq_id[s]
      PROVE  ThreadRow(p, t)
  <2>1. /\ thread'[p][t] = r
        /\ \A s \in Peers, u \in Threads : s # p \/ u # t => thread'[s][u] = thread[s][u]
    BY <1>0, <1>1 DEF ThreadTypeOK
  <2>. QED
    BY <1>1, <2>1 DEF ThreadRow, OnlyMoves, OutsideClose
<1>2. \A pc \in ThreadPc \ Closing : thread[p][t].pc = pc /\ pc # "idle" => ~ waiting_finish[p]
  BY DEF OneCloser
<1>3. ASSUME NEW call \in Calls, NEW key \in Keys, CallSend(p, t, call, key)
      PROVE  ThreadRow(p, t)
  <2>. DEFINE r == [pc |-> "number", call |-> call, key |-> key, id |-> 0]
  <2>1. /\ thread' = [thread EXCEPT ![p][t] = r] /\ r.pc \notin Closing
        /\ thread[p][t].pc \notin Closing /\ Up(p) /\ ~ waiting_finish[p]
        /\ waiting_finish' = waiting_finish /\ process' = process /\ msg_seq_id' = msg_seq_id
    BY <1>3 DEF CallSend, At, Closing, ctrlVars, sendVars
  <2>. HIDE DEF r
  <2>. QED
    BY <1>1, <2>1
<1>4. ASSUME NEW key \in Keys, CallRecv(p, t, key) PROVE ThreadRow(p, t)
  <2>. DEFINE r == [pc |-> "recv", call |-> "Recv", key |-> key, id |-> 0]
  <2>1. /\ thread' = [thread EXCEPT ![p][t] = r] /\ r.pc \notin Closing
        /\ thread[p][t].pc \notin Closing /\ Up(p) /\ ~ waiting_finish[p]
        /\ waiting_finish' = waiting_finish /\ process' = process /\ msg_seq_id' = msg_seq_id
    BY <1>4 DEF CallRecv, At, Closing, ctrlVars, sendVars
  <2>. HIDE DEF r
  <2>. QED
    BY <1>1, <2>1
<1>5. CASE FetchSeqId(p, t)
  <2>. DEFINE r == [thread[p][t] EXCEPT !.pc = "push", !.id = msg_seq_id[p] + 1]
  <2>1. r.pc = "push"
    BY <1>0 DEF ThreadState
  <2>2. thread' = [thread EXCEPT ![p][t] = r]
    BY <1>0, <1>5 DEF FetchSeqId, ThreadTypeOK
  <2>. HIDE DEF r
  <2>3. /\ thread[p][t].pc = "number" /\ Up(p)
        /\ waiting_finish' = waiting_finish /\ process' = process
        /\ \A s \in Peers : s # p => msg_seq_id'[s] = msg_seq_id[s]
    BY <1>0, <1>5 DEF FetchSeqId, At, ctrlVars, SendTypeOK
  <2>4. ~ waiting_finish[p] /\ thread[p][t].pc \notin Closing
    BY <1>2, <2>3 DEF ThreadPc, Closing
  <2>5. r.pc \notin Closing
    BY <2>1 DEF Closing
  <2>. QED
    BY <1>1, <2>2, <2>3, <2>4, <2>5
<1>6. CASE RecvTake(p, t)
  <2>1. PICK m \in recv_msgs[p] :
           thread' = [thread EXCEPT ![p][t].pc = "ack", ![p][t].id = m.id]
    BY <1>6 DEF RecvTake
  <2>. DEFINE r == [thread[p][t] EXCEPT !.pc = "ack", !.id = m.id]
  <2>2. r.pc = "ack"
    BY <1>0 DEF ThreadState
  <2>3. thread' = [thread EXCEPT ![p][t] = r]
    BY <1>0, <2>1 DEF ThreadTypeOK
  <2>. HIDE DEF r
  <2>4. /\ thread[p][t].pc = "recv" /\ Up(p)
        /\ waiting_finish' = waiting_finish /\ process' = process /\ msg_seq_id' = msg_seq_id
    BY <1>6 DEF RecvTake, At, ctrlVars, sendVars
  <2>5. ~ waiting_finish[p] /\ thread[p][t].pc \notin Closing
    BY <1>2, <2>4 DEF ThreadPc, Closing
  <2>6. r.pc \notin Closing
    BY <2>2 DEF Closing
  <2>. QED
    BY <1>1, <2>3, <2>4, <2>5, <2>6
<1>7. CASE \/ Push(p, t) \/ SendReturns(p, t) \/ ThrottledReturns(p, t) \/ RecvThrows(p, t)
           \/ RecvAck(p, t) \/ AbortStop(p, t) \/ AbortJoin(p, t)
  <2>0. thread[p][t].pc = "push" =>
          thread[p][t].call \in {"Send", "SendAsync", "SendAsyncThrottled"}
    BY UserAssumption DEF TypeInv, CallOK
  <2>1. /\ \E pc \in {"sync", "throttle", "abortjoin", "aborted"} :
             Goto(p, t, pc) \/ Return(p, t)
        /\ thread[p][t].pc \in {"push", "sync", "throttle", "recv", "ack", "abortstop",
                                "abortjoin"}
        /\ Up(p)
    BY <1>7, <2>0 DEF Push, SendReturns, ThrottledReturns, RecvThrows, RecvAck, AbortStop,
                      AbortJoin, WaitStep, At
  <2>2. /\ waiting_finish' = waiting_finish /\ process' = process /\ msg_seq_id' = msg_seq_id
    BY <1>7 DEF Push, SendReturns, ThrottledReturns, RecvThrows, RecvAck, AbortStop,
                AbortJoin, WaitStep, ctrlVars, sendVars
  <2>3. ~ waiting_finish[p] /\ thread[p][t].pc \notin Closing
    BY <1>2, <2>1 DEF ThreadPc, Closing
  <2>4. PICK pc \in {"sync", "throttle", "abortjoin", "aborted"} :
               Goto(p, t, pc) \/ Return(p, t)
    BY <2>1
  <2>5. pc \in ThreadPc
    BY DEF ThreadPc
  <2>6. OnlyMoves(p, t) /\ thread'[p][t].pc \in {pc, "idle"}
    BY <2>1, <2>4, <2>5, MovedRow
  <2>. QED
    BY <2>2, <2>3, <2>6 DEF ThreadRow, OutsideClose, Closing
<1>8. CASE AbortFlag(p, t)
  <2>1. OnlyMoves(p, t) /\ thread'[p][t].pc = "abortstop"
    BY <1>8, GotoRow DEF AbortFlag, At, ThreadPc
  <2>. QED
    BY <1>8, <2>1 DEF AbortFlag, At, ThreadRow, OutsideClose, Closing, sendVars
<1>9. CASE StopReceivingAndAckUnreadMsgs(p, t)
  <2>1. OnlyMoves(p, t) /\ thread'[p][t].pc = "fin"
    BY <1>9, GotoRow DEF StopReceivingAndAckUnreadMsgs, At, ThreadPc
  <2>2. waiting_finish'[p] /\ \A s \in Peers : s # p => waiting_finish'[s] = waiting_finish[s]
    BY <1>0, <1>9 DEF StopReceivingAndAckUnreadMsgs, CtrlTypeOK
  <2>. QED
    BY <1>9, <2>1, <2>2 DEF StopReceivingAndAckUnreadMsgs, ThreadRow, StartsClose, sendVars
<1>10. ASSUME NEW a \in Closing, NEW b \in Closing, thread[p][t].pc = a, Goto(p, t, b), Up(p),
              waiting_finish' = waiting_finish, msg_seq_id' = msg_seq_id, process' = process,
              \/ <<a, b>> \in NextWait
              \/ a = "waitfin" /\ b = "waitmsgs" /\ received_fin[p]
              \/ /\ a = "waitmsgs" /\ b = "stop"
                 /\ 1 .. peer_sent_msg_count[p] \subseteq received_msg_ids[p]
              \/ /\ a = "waitack" /\ b = "closed"
                 /\ 1 .. msg_seq_id[p] \subseteq received_ack_ids[p]
       PROVE  ThreadRow(p, t)
  <2>1. OnlyMoves(p, t) /\ thread'[p][t].pc = b
    BY <1>10, GotoRow DEF Closing, ThreadPc
  <2>. QED
    BY <1>10, <2>1 DEF ThreadRow, GoesOnClosing
<1>11. CASE SendFin(p, t)
  BY <1>10, <1>11 DEF SendFin, At, Closing, NextWait, sendVars, ctrlVars
<1>12. CASE StopSendThread(p, t)
  BY <1>10, <1>12 DEF StopSendThread, At, Closing, NextWait, sendVars, ctrlVars
<1>13. CASE JoinSendThread(p, t) \/ WaitAllSendFinished(p, t)
  BY <1>10, <1>13 DEF JoinSendThread, WaitAllSendFinished, WaitStep, At, Closing, NextWait,
                      sendVars, ctrlVars
<1>14. CASE WaitForFin(p, t)
  BY <1>10, <1>14 DEF WaitForFin, WaitStep, At, Closing, sendVars, ctrlVars
<1>15. CASE WaitForFlyingMsg(p, t)
  <2>1. 1 .. peer_sent_msg_count[p] \subseteq received_msg_ids[p]
    <3>1. received_msg_ids[p] \in SUBSET (1 .. MaxMsgs) /\ peer_sent_msg_count[p] \in Nat
      BY <1>0, BoundsAssumption DEF RecvTypeOK
    <3>2. AllReceived(received_msg_ids[p], peer_sent_msg_count[p])
      BY <1>15 DEF WaitForFlyingMsg
    <3>. QED
      BY <3>1, <3>2, AllOfThem
  <2>. QED
    BY <1>10, <1>15, <2>1 DEF WaitForFlyingMsg, WaitStep, At, Closing, sendVars, ctrlVars
<1>16. CASE WaitForFlyingAck(p, t)
  <2>1. 1 .. msg_seq_id[p] \subseteq received_ack_ids[p]
    <3>1. received_ack_ids[p] \in SUBSET (1 .. MaxMsgs) /\ msg_seq_id[p] \in Nat
      BY <1>0, BoundsAssumption DEF RecvTypeOK, SendTypeOK
    <3>2. AllReceived(received_ack_ids[p], msg_seq_id[p])
      BY <1>16 DEF WaitForFlyingAck
    <3>. QED
      BY <3>1, <3>2, AllOfThem
  <2>. QED
    BY <1>10, <1>16, <2>1 DEF WaitForFlyingAck, WaitStep, At, Closing, sendVars, ctrlVars
<1>17. CASE StopServer(p, t)
  <2>1. \A s \in Peers : s # p => process'[s] = process[s]
    BY <1>0, <1>17 DEF StopServer, CtrlTypeOK
  <2>. QED
    BY <1>17, <2>1 DEF StopServer, At, ThreadRow, OnlyMoves, GoesOnClosing, Closing, sendVars
<1>. QED
  BY <1>3, <1>4, <1>5, <1>6, <1>7, <1>8, <1>9, <1>11, <1>12, <1>13, <1>14, <1>15, <1>16, <1>17
     DEF UserNext, CallNext, CloseNext

\* The threads stay where they are.
LEMMA RestGates ==
  ASSUME OneCloser, UNCHANGED <<thread, waiting_finish, msg_seq_id>>,
         \A s \in Peers : process'[s] = "stopped" => process[s] = "stopped"
  PROVE  Gates /\ OneCloser'
<1>1. OneCloser'
  BY DEF OneCloser
<1>2. Gates
  BY DEF Gates
<1>. QED
  BY <1>1, <1>2

-----------------------------------------------------------------------------
(* Every step keeps the invariant of the close. *)

\* What the tasks in A[s], started by end s in this step, are.
Fresh(A) ==
  \A s \in Peers :
    /\ \A z, w \in A[s] : z.key = w.key /\ z.id = w.id => z = w
    /\ \A z \in A[s] :
         /\ z.key \in Keys => z.id \notin received_msg_ids'[Peer(s)]
         /\ z.key = kAckKey =>
              /\ z.id \notin received_ack_ids'[Peer(s)]
              /\ \A w \in tasks[s] : w.key = kAckKey => w.id # z.id
              /\ \A u \in Threads : thread'[s][u].pc = "ack" => thread'[s][u].id # z.id
         /\ z.key = kFinKey =>
              /\ ~ received_fin'[Peer(s)]
              /\ z.id = msg_seq_id[s]
              /\ \E t \in Threads : thread[s][t].pc = "fin"
              /\ \A u \in Threads : thread'[s][u].pc # "fin"

\* No thread comes to the step where it acknowledges a message.
SameAckers == \A s \in Peers, u \in Threads :
                thread'[s][u].pc = "ack" => thread'[s][u] = thread[s][u]

LEMMA FreshStep ==
  ASSUME ClInv, IdsInv', NEW p \in Peers, NEW x, NEW y, NEW A, Flow(p, x, y, A),
         Arrivals(p, x, y), Gates, OneCloser', Fresh(A), AckOnce'
  PROVE  ClInv'
<1>1. FlyingNew'
  BY FlyingStep DEF Fresh
<1>2. FinTrue'
  <2>1. \A s \in Peers : Unique(kFinKey, A[s])
    BY DEF Fresh, Unique
  <2>. QED
    BY <2>1, FinStep DEF Fresh
<1>3. CloseInv'
  BY CloseStep
<1>. QED
  BY <1>1, <1>2, <1>3 DEF ClInv

LEMMA AckerStep ==
  ASSUME ClInv, IdsInv', NEW p \in Peers, NEW x, NEW y, NEW A, Flow(p, x, y, A),
         Arrivals(p, x, y), Gates, OneCloser', Fresh(A), SameAckers
  PROVE  ClInv'
<1>1. \A s \in Peers : Unique(kAckKey, A[s])
  BY DEF Fresh, Unique
<1>2. AckOnce'
  BY <1>1, AckStep DEF Fresh, SameAckers
<1>. QED
  BY <1>2, FreshStep

\* Tasks may end, those in A[s] are new, and nothing arrives.
Starts(A) ==
  /\ \A s \in Peers : tasks'[s] \subseteq tasks[s] \cup A[s]
  /\ UNCHANGED <<received_msg_ids, received_ack_ids, received_fin, peer_sent_msg_count>>

LEMMA StartsFlow ==
  ASSUME NEW A, Starts(A), NEW p \in Peers, NEW x
  PROVE  Flow(p, x, x, A) /\ Arrivals(p, x, x)
<1>1. Flow(p, x, x, A)
  BY DEF Starts, Flow
<1>2. Arrivals(p, x, x)
  BY DEF Starts, Arrivals
<1>. QED
  BY <1>1, <1>2

LEMMA StartsStep ==
  ASSUME ClInv, IdsInv', NEW A, Starts(A), Gates, OneCloser', Fresh(A), SameAckers
  PROVE  ClInv'
<1>1. PICK p \in Peers : TRUE
  BY PeersAssumption
<1>2. Flow(p, 0, 0, A) /\ Arrivals(p, 0, 0)
  BY StartsFlow
<1>. QED
  BY <1>2, AckerStep

LEMMA NoneFresh == Fresh(None)
  BY DEF Fresh, None

\* No task starts and nothing arrives.
LEMMA IdleStep ==
  ASSUME ClInv, IdsInv', Gates, OneCloser', SameAckers,
         \A s \in Peers : tasks'[s] \subseteq tasks[s],
         UNCHANGED <<received_msg_ids, received_ack_ids, received_fin, peer_sent_msg_count>>
  PROVE  ClInv'
<1>1. Starts(None)
  BY DEF Starts, None
<1>. QED
  BY <1>1, NoneFresh, StartsStep

LEMMA SubmitCloses ==
  ASSUME ClInv, IdsInv', NEW p \in Peers, NEW pc, Submit(p, pc)
  PROVE  ClInv'
<1>. DEFINE m == Head(send_msgs[p])
            n == NewTask(p, m.key, m.id)
            A == [None EXCEPT ![p] = {n}]
<1>0. TypeInv /\ QueueOK /\ HandedOK /\ OneCloser
  BY DEF ClInv, IdsInv, PromiseInv
<1>1. m \in Message /\ m.id \notin Handed(p)
  BY <1>0, SubmitIds
<1>2. n.key = m.key /\ n.id = m.id /\ m.key \in Keys
  BY <1>1, NewTaskFresh DEF Message
<1>3. /\ tasks' = [tasks EXCEPT ![p] = @ \cup {n}]
      /\ UNCHANGED <<received_msg_ids, received_ack_ids, received_fin, peer_sent_msg_count,
                     thread, waiting_finish, process, msg_seq_id>>
  BY DEF Submit, recvVars, ctrlVars
<1>4. A[p] = {n} /\ \A s \in Peers : s # p => A[s] = {}
  BY DEF None
<1>. HIDE DEF A, n, m
<1>5. Starts(A)
  BY <1>0, <1>3, <1>4 DEF Starts, TypeInv, TypeOK, TaskTypeOK
<1>6. Fresh(A)
  <2>1. n.key # kAckKey /\ n.key # kFinKey
    BY <1>2, KeysAssumption
  <2>2. n.id \notin received_msg_ids'[Peer(p)]
    BY <1>0, <1>1, <1>2, <1>3 DEF HandedOK
  <2>. QED
    BY <1>4, <2>1, <2>2 DEF Fresh
<1>7. Gates /\ OneCloser'
  BY <1>0, <1>3, RestGates
<1>8. SameAckers
  BY <1>3 DEF SameAckers
<1>. QED
  BY <1>5, <1>6, <1>7, <1>8, StartsStep

LEMMA SendThreadCloses ==
  ASSUME ClInv, IdsInv', NEW p \in Peers, SendThreadNext(p)
  PROVE  ClInv'
<1>1. CASE SendThreadSubmit(p) \/ SendThreadDrain(p)
  BY <1>1, SubmitCloses DEF SendThreadSubmit, SendThreadDrain
<1>2. CASE \/ SendThreadCheck(p) \/ SendThreadWoken(p) \/ SendThreadWindow(p)
           \/ SendThreadThrows(p) \/ SendThreadDone(p)
  <2>1. UNCHANGED <<recvVars, taskVars, thread, waiting_finish, msg_seq_id>>
    BY <1>2 DEF SendThreadCheck, SendThreadWoken, SendThreadWindow, SendThreadThrows,
                SendThreadDone, ctrlVars
  <2>2. \A s \in Peers : process'[s] = "stopped" => process[s] = "stopped"
    BY <1>2 DEF SendThreadCheck, SendThreadWoken, SendThreadWindow, SendThreadThrows,
                SendThreadDone, ctrlVars, ClInv, IdsInv, PromiseInv, TypeInv, TypeOK, CtrlTypeOK
  <2>3. Gates /\ OneCloser'
    BY <2>1, <2>2, RestGates DEF ClInv
  <2>. QED
    BY <2>1, <2>3, IdleStep DEF recvVars, taskVars, SameAckers
<1>. QED
  BY <1>1, <1>2 DEF SendThreadNext

\* End p starts the tasks in S.
LEMMA AtOne ==
  ASSUME TypeInv, NEW p \in Peers, NEW S, tasks' = [tasks EXCEPT ![p] = @ \cup S],
         UNCHANGED <<received_msg_ids, received_ack_ids, received_fin, peer_sent_msg_count>>
  PROVE  \E A : Starts(A) /\ A[p] = S /\ \A s \in Peers : s # p => A[s] = {}
<1>. DEFINE A == [None EXCEPT ![p] = S]
<1>1. A[p] = S /\ \A s \in Peers : s # p => A[s] = {}
  BY DEF None
<1>. HIDE DEF A
<1>2. Starts(A)
  BY <1>1 DEF Starts, TypeInv, TypeOK, TaskTypeOK
<1>. QED
  BY <1>1, <1>2

LEMMA ThreadCloses ==
  ASSUME ClInv, IdsInv', Serial, NEW p \in Peers, NEW t \in Threads,
         UserNext(p, t) \/ CallNext(p, t) \/ CloseNext(p, t)
  PROVE  ClInv'
<1>0. /\ TypeInv /\ UnreadOK /\ AckTasksOK /\ AckThreadsOK /\ AckMeansConsumed
      /\ OneCloser /\ AckOnce /\ FinTrue
      /\ ThreadTypeOK /\ thread[p][t] \in ThreadState /\ tasks \in [Peers -> SUBSET Task]
  BY DEF ClInv, IdsInv, PromiseInv, TypeInv, TypeOK, ThreadTypeOK, TaskTypeOK
<1>1. ThreadRow(p, t)
  BY <1>0, ThreadRows
<1>2. Gates /\ OneCloser'
  BY <1>0, <1>1, RowGates
<1>3. Peer(p) \in Peers /\ Peer(p) # p /\ Peer(Peer(p)) = p
  BY PeerOther
<1>4. ASSUME NEW pc \in ThreadPc \ {"ack"}, Goto(p, t, pc) \/ Return(p, t) PROVE SameAckers
  BY <1>0, <1>4, NoNewAck DEF SameAckers
<1>5. ASSUME tasks' = tasks, SameAckers,
             UNCHANGED <<received_msg_ids, received_ack_ids, received_fin, peer_sent_msg_count>>
      PROVE  ClInv'
  BY <1>2, <1>5, IdleStep
<1>6. ASSUME NEW call \in Calls, NEW key \in Keys, CallSend(p, t, call, key)
      PROVE  ClInv'
  <2>1. SameAckers
    BY <1>0, <1>6 DEF CallSend, SameAckers, ThreadTypeOK
  <2>. QED
    BY <1>5, <1>6, <2>1 DEF CallSend, taskVars, recvVars
<1>7. ASSUME NEW key \in Keys, CallRecv(p, t, key) PROVE ClInv'
  <2>1. SameAckers
    BY <1>0, <1>7 DEF CallRecv, SameAckers, ThreadTypeOK
  <2>. QED
    BY <1>5, <1>7, <2>1 DEF CallRecv, taskVars, recvVars
<1>8. CASE FetchSeqId(p, t)
  <2>1. SameAckers
    <3>. DEFINE r == [thread[p][t] EXCEPT !.pc = "push", !.id = msg_seq_id[p] + 1]
    <3>1. r.pc = "push"
      BY <1>0 DEF ThreadState
    <3>2. thread' = [thread EXCEPT ![p][t] = r]
      BY <1>0, <1>8 DEF FetchSeqId, ThreadTypeOK
    <3>. HIDE DEF r
    <3>. QED
      BY <1>0, <3>1, <3>2 DEF ThreadTypeOK, SameAckers
  <2>. QED
    BY <1>5, <1>8, <2>1 DEF FetchSeqId, taskVars, recvVars
<1>9. CASE StopServer(p, t)
  BY <1>5, <1>9 DEF StopServer, SameAckers, taskVars, recvVars
<1>10. CASE \/ Push(p, t) \/ SendReturns(p, t) \/ ThrottledReturns(p, t) \/ RecvThrows(p, t)
            \/ WaitForFin(p, t) \/ WaitForFlyingMsg(p, t) \/ JoinSendThread(p, t)
            \/ WaitAllSendFinished(p, t) \/ WaitForFlyingAck(p, t) \/ AbortJoin(p, t)
            \/ StopSendThread(p, t) \/ AbortStop(p, t) \/ AbortFlag(p, t)
  <2>0. thread[p][t].pc = "push" =>
          thread[p][t].call \in {"Send", "SendAsync", "SendAsyncThrottled"}
    BY <1>0, UserAssumption DEF TypeInv, CallOK
  <2>1. \E pc \in ThreadPc \ {"ack"} : Goto(p, t, pc) \/ Return(p, t)
    BY <1>10, <2>0
       DEF Push, SendReturns, ThrottledReturns, RecvThrows, At, WaitForFin, WaitForFlyingMsg,
           JoinSendThread, WaitAllSendFinished, WaitForFlyingAck, AbortJoin, StopSendThread,
           AbortStop, AbortFlag, WaitStep, ThreadPc
  <2>2. UNCHANGED <<recvVars, taskVars>>
    BY <1>10 DEF Push, SendReturns, ThrottledReturns, RecvThrows, WaitForFin,
                 WaitForFlyingMsg, JoinSendThread, WaitAllSendFinished, WaitForFlyingAck,
                 AbortJoin, StopSendThread, AbortStop, AbortFlag, WaitStep
  <2>. QED
    BY <1>4, <1>5, <2>1, <2>2 DEF recvVars, taskVars
<1>11. CASE SendFin(p, t)
  <2>. DEFINE n == NewTask(p, kFinKey, msg_seq_id[p])
  <2>1. /\ tasks' = [tasks EXCEPT ![p] = @ \cup {n}] /\ Goto(p, t, "waitfin")
        /\ thread[p][t].pc = "fin" /\ UNCHANGED recvVars
    BY <1>11 DEF SendFin, At
  <2>2. n.key = kFinKey /\ n.id = msg_seq_id[p]
    BY NewTaskFresh
  <2>3. kFinKey # kAckKey /\ kFinKey \notin Keys
    BY KeysAssumption DEF kFinKey, kAckKey
  <2>. HIDE DEF n
  <2>4. ~ received_fin'[Peer(p)]
    BY <1>0, <2>1 DEF FinTrue, recvVars
  <2>5. \A u \in Threads : thread'[p][u].pc # "fin"
    <3>1. Up(p) /\ "waitfin" \in ThreadPc
      BY <1>11 DEF SendFin, At, ThreadPc
    <3>2. OnlyMoves(p, t) /\ thread'[p][t].pc = "waitfin"
      BY <1>0, <2>1, <3>1, GotoRow
    <3>3. \A u \in Threads : thread[p][u].pc = "fin" => u = t
      BY <1>0, <2>1 DEF OneCloser, Closing
    <3>. QED
      BY <3>2, <3>3 DEF OnlyMoves
  <2>6. PICK A : Starts(A) /\ A[p] = {n} /\ \A s \in Peers : s # p => A[s] = {}
    <3>. DEFINE S == {n}
    <3>1. UNCHANGED <<received_msg_ids, received_ack_ids, received_fin, peer_sent_msg_count>>
      BY <2>1 DEF recvVars
    <3>2. tasks' = [tasks EXCEPT ![p] = @ \cup S]
      BY <2>1
    <3>. HIDE DEF S
    <3>3. \E A : Starts(A) /\ A[p] = S /\ \A s \in Peers : s # p => A[s] = {}
      BY <1>0, <3>1, <3>2, AtOne
    <3>. QED
      BY <3>3 DEF S
  <2>7. Fresh(A)
    BY <2>1, <2>2, <2>3, <2>4, <2>5, <2>6 DEF Fresh
  <2>8. SameAckers
    BY <1>4, <2>1 DEF ThreadPc
  <2>. QED
    BY <1>2, <2>6, <2>7, <2>8, StartsStep
<1>12. CASE RecvAck(p, t)
  <2>. DEFINE n == NewTask(p, kAckKey, thread[p][t].id)
  <2>1. /\ tasks' = [tasks EXCEPT ![p] = @ \cup {n}] /\ Return(p, t)
        /\ thread[p][t].pc = "ack" /\ UNCHANGED recvVars
    BY <1>12 DEF RecvAck, At
  <2>2. n.key = kAckKey /\ n.id = thread[p][t].id
    BY NewTaskFresh
  <2>3. kFinKey # kAckKey /\ kAckKey \notin Keys
    BY KeysAssumption DEF kFinKey, kAckKey
  <2>. HIDE DEF n
  <2>4. /\ n.id \notin received_ack_ids'[Peer(p)]
        /\ \A w \in tasks[p] : w.key = kAckKey => w.id # n.id
    BY <1>0, <2>1, <2>2 DEF AckOnce, recvVars
  <2>5. \A u \in Threads : thread'[p][u].pc = "ack" => thread'[p][u].id # n.id
    <3>1. thread'[p][t].pc = "idle" /\ \A u \in Threads : u # t => thread'[p][u] = thread[p][u]
      BY <1>0, <2>1 DEF Return, Idle, ThreadTypeOK
    <3>. QED
      BY <1>0, <2>1, <2>2, <3>1 DEF AckOnce
  <2>6. PICK A : Starts(A) /\ A[p] = {n} /\ \A s \in Peers : s # p => A[s] = {}
    <3>. DEFINE S == {n}
    <3>1. UNCHANGED <<received_msg_ids, received_ack_ids, received_fin, peer_sent_msg_count>>
      BY <2>1 DEF recvVars
    <3>2. tasks' = [tasks EXCEPT ![p] = @ \cup S]
      BY <2>1
    <3>. HIDE DEF S
    <3>3. \E A : Starts(A) /\ A[p] = S /\ \A s \in Peers : s # p => A[s] = {}
      BY <1>0, <3>1, <3>2, AtOne
    <3>. QED
      BY <3>3 DEF S
  <2>7. Fresh(A)
    BY <2>2, <2>3, <2>4, <2>5, <2>6 DEF Fresh
  <2>8. SameAckers
    BY <1>4, <2>1 DEF ThreadPc
  <2>. QED
    BY <1>2, <2>6, <2>7, <2>8, StartsStep
<1>13. CASE StopReceivingAndAckUnreadMsgs(p, t)
  <2>. DEFINE S == {NewTask(p, kAckKey, m.id) : m \in recv_msgs[p]}
  <2>1. /\ tasks' = [tasks EXCEPT ![p] = @ \cup S] /\ Goto(p, t, "fin")
        /\ UNCHANGED <<received_msg_ids, received_ack_ids, received_fin, peer_sent_msg_count>>
    BY <1>13 DEF StopReceivingAndAckUnreadMsgs
  <2>2. \A z \in S : \E m \in recv_msgs[p] : z = NewTask(p, kAckKey, m.id)
    OBVIOUS
  <2>3. \A i : NewTask(p, kAckKey, i).key = kAckKey /\ NewTask(p, kAckKey, i).id = i
    BY NewTaskFresh
  <2>4. kFinKey # kAckKey /\ kAckKey \notin Keys
    BY KeysAssumption DEF kFinKey, kAckKey
  <2>. HIDE DEF S
  <2>5. \A z, w \in S : z.id = w.id => z = w
    BY <2>2, <2>3
  <2>6. SameAckers
    BY <1>4, <2>1 DEF ThreadPc
  <2>7. ASSUME NEW z \in S
        PROVE  /\ z.key = kAckKey /\ z.id \notin received_ack_ids'[Peer(p)]
               /\ \A w \in tasks[p] : w.key = kAckKey => w.id # z.id
               /\ \A u \in Threads : thread'[p][u].pc = "ack" => thread'[p][u].id # z.id
    <3>1. PICK m \in recv_msgs[p] : z.id = m.id /\ z.key = kAckKey
      BY <2>2, <2>3
    <3>2. z.id \notin received_ack_ids[Peer(p)]
      BY <1>0, <1>3, <3>1 DEF AckMeansConsumed
    <3>3. \A w \in tasks[p] : w.key = kAckKey => w.id # z.id
      BY <1>0, <3>1 DEF AckTasksOK, Consumed
    <3>4. \A u \in Threads : thread'[p][u].pc = "ack" => thread'[p][u].id # z.id
      BY <1>0, <2>6, <3>1 DEF AckThreadsOK, Consumed, SameAckers
    <3>. QED
      BY <2>1, <3>1, <3>2, <3>3, <3>4
  <2>8. PICK A : Starts(A) /\ A[p] = S /\ \A s \in Peers : s # p => A[s] = {}
    BY <1>0, <2>1, AtOne
  <2>9. Fresh(A)
    BY <2>4, <2>5, <2>7, <2>8 DEF Fresh
  <2>. QED
    BY <1>2, <2>6, <2>8, <2>9, StartsStep
<1>14. CASE RecvTake(p, t)
  <2>1. PICK m \in recv_msgs[p] :
           thread' = [thread EXCEPT ![p][t].pc = "ack", ![p][t].id = m.id]
    BY <1>14 DEF RecvTake
  <2>. DEFINE r == [thread[p][t] EXCEPT !.pc = "ack", !.id = m.id]
  <2>2. r.pc = "ack" /\ r.id = m.id
    BY <1>0 DEF ThreadState
  <2>3. thread' = [thread EXCEPT ![p][t] = r]
    BY <1>0, <2>1 DEF ThreadTypeOK
  <2>. HIDE DEF r
  <2>4. /\ thread'[p][t] = r
        /\ \A s \in Peers, u \in Threads : s # p \/ u # t => thread'[s][u] = thread[s][u]
    BY <1>0, <2>3 DEF ThreadTypeOK
  <2>5. UNCHANGED <<tasks, received_msg_ids, received_ack_ids, received_fin,
                    peer_sent_msg_count>>
    BY <1>14 DEF RecvTake, taskVars
  <2>6. /\ m.id \notin received_ack_ids[Peer(p)]
        /\ \A w \in tasks[p] : w.key = kAckKey => w.id # m.id
        /\ \A u \in Threads : thread[p][u].pc = "ack" => thread[p][u].id # m.id
    BY <1>0, <1>3 DEF AckMeansConsumed, AckTasksOK, AckThreadsOK, Consumed
  <2>7. AckOnce'
    <3>. SUFFICES ASSUME NEW s \in Peers
                  PROVE  (/\ \A x, y \in tasks[s] :
                               x.key = kAckKey /\ y.key = kAckKey /\ x.id = y.id => x = y
                          /\ \A u \in Threads : thread[s][u].pc = "ack" =>
                               /\ thread[s][u].id \notin received_ack_ids[Peer(s)]
                               /\ \A v \in Threads :
                                    thread[s][v].pc = "ack" /\ thread[s][v].id = thread[s][u].id
                                      => v = u
                               /\ \A x \in tasks[s] : x.key = kAckKey => x.id # thread[s][u].id)'
      BY DEF AckOnce
    <3>1. CASE s # p
      BY <1>0, <2>4, <2>5, <3>1 DEF AckOnce
    <3>2. CASE s = p
      BY <1>0, <2>2, <2>4, <2>5, <2>6, <3>2 DEF AckOnce
    <3>. QED
      BY <3>1, <3>2
  <2>8. Starts(None)
    BY <2>5 DEF Starts, None
  <2>9. Flow(p, 0, 0, None) /\ Arrivals(p, 0, 0)
    BY <2>8, StartsFlow
  <2>. QED
    BY <1>2, <2>7, <2>9, NoneFresh, FreshStep
<1>. QED
  BY <1>6, <1>7, <1>8, <1>9, <1>10, <1>11, <1>12, <1>13, <1>14
     DEF UserNext, CallNext, CloseNext

\* A task goes to another state, and starts no request anew.
LEMMA ReplacedFlow ==
  ASSUME TypeInv, NEW p \in Peers, NEW x \in tasks[p], NEW y,
         y.key = x.key, y.id = x.id, y.state = "flying" => x.state = "flying",
         tasks' = Replaced(p, x, y)
  PROVE  Flow(p, x, y, None)
<1>1. \A s \in Peers : \A z \in tasks'[s] :
        (z \in tasks[s] /\ (s = p => z # x)) \/ (s = p /\ z = y)
  BY DEF Replaced, TypeInv, TypeOK, TaskTypeOK
<1>. QED
  BY <1>1 DEF Flow

LEMMA RequestCloses ==
  ASSUME ClInv, IdsInv', NEW p \in Peers, NEW x \in tasks[p], RequestNext(p, x)
  PROVE  ClInv'
<1>. DEFINE q == Peer(p)
            a == NewTask(q, kAckKey, x.id)
<1>0. /\ TypeInv /\ AckTasksOK /\ AckThreadsOK /\ AckMeansConsumed
      /\ OneCloser /\ FlyingNew
      /\ x \in Task /\ tasks \in [Peers -> SUBSET Task] /\ RecvTypeOK
  BY DEF ClInv, IdsInv, PromiseInv, TypeInv, TypeOK, TaskTypeOK
<1>1. q \in Peers /\ q # p /\ Peer(q) = p
  BY PeerOther
<1>2. UNCHANGED <<thread, waiting_finish, process, msg_seq_id>>
  BY DEF RequestNext, OnRequestAborting, OnAck, OnFin, OnDuplicate, OnNormalMessage,
         OnKeyClash, OnAutoAck, sendVars, ctrlVars
<1>3. Gates /\ OneCloser' /\ SameAckers
  BY <1>0, <1>2, RestGates DEF SameAckers
<1>4. x.state = "flying"
  BY DEF RequestNext, OnRequestAborting, OnAck, OnFin, OnDuplicate, OnNormalMessage,
         OnKeyClash, OnAutoAck, Arrives
<1>5. \A y \in {Served(x), Refused(x)} : y.key = x.key /\ y.id = x.id /\ y.state # "flying"
  BY <1>0 DEF Served, Refused, Task
<1>6. ASSUME NEW y \in {Served(x), Refused(x)}, tasks' = Replaced(p, x, y), Arrivals(p, x, y)
      PROVE  ClInv'
  <2>1. Flow(p, x, y, None)
    BY <1>0, <1>4, <1>5, <1>6, ReplacedFlow
  <2>. QED
    BY <1>3, <1>6, <2>1, NoneFresh, AckerStep
<1>7. ASSUME NEW y \in {Served(x), Refused(x)}, UNCHANGED recvVars PROVE Arrivals(p, x, y)
  BY <1>7 DEF Arrivals, recvVars
<1>8. ASSUME NEW y \in {Served(x), Refused(x)}, x.key \in Keys,
             received_msg_ids' = [received_msg_ids EXCEPT ![q] = @ \cup {x.id}],
             UNCHANGED <<received_ack_ids, received_fin, peer_sent_msg_count>>
      PROVE  Arrivals(p, x, y)
  BY <1>0, <1>1, <1>5, <1>8 DEF Arrivals, RecvTypeOK
<1>9. CASE OnRequestAborting(p, x) \/ OnDuplicate(p, x)
  <2>1. PICK y \in {Served(x), Refused(x)} : tasks' = Replaced(p, x, y)
    BY <1>9 DEF OnRequestAborting, OnDuplicate
  <2>2. UNCHANGED recvVars
    BY <1>9 DEF OnRequestAborting, OnDuplicate
  <2>. QED
    BY <1>6, <1>7, <2>1, <2>2
<1>10. CASE OnNormalMessage(p, x) \/ OnKeyClash(p, x)
  <2>1. PICK y \in {Served(x), Refused(x)} : tasks' = Replaced(p, x, y)
    BY <1>10 DEF OnNormalMessage, OnKeyClash
  <2>2. /\ received_msg_ids' = [received_msg_ids EXCEPT ![q] = @ \cup {x.id}] /\ x.key \in Keys
        /\ UNCHANGED <<received_ack_ids, received_fin, peer_sent_msg_count>>
    BY <1>10 DEF OnNormalMessage, OnKeyClash
  <2>. QED
    BY <1>6, <1>8, <2>1, <2>2
<1>11. CASE OnAck(p, x)
  <2>1. /\ received_ack_ids' = [received_ack_ids EXCEPT ![q] = @ \cup {x.id}]
        /\ x.key = kAckKey /\ tasks' = Replaced(p, x, Served(x))
        /\ UNCHANGED <<received_msg_ids, received_fin, peer_sent_msg_count>>
    BY <1>11 DEF OnAck
  <2>2. Arrivals(p, x, Served(x))
    BY <1>0, <1>1, <1>5, <2>1 DEF Arrivals, RecvTypeOK
  <2>. QED
    BY <1>6, <2>1, <2>2
<1>12. CASE OnFin(p, x)
  <2>1. /\ received_fin' = [received_fin EXCEPT ![q] = TRUE]
        /\ peer_sent_msg_count' = [peer_sent_msg_count EXCEPT ![q] =
                                     IF received_fin[q] THEN @ ELSE x.id]
        /\ x.key = kFinKey /\ tasks' = Replaced(p, x, Served(x))
        /\ UNCHANGED <<received_msg_ids, received_ack_ids>>
    BY <1>12 DEF OnFin
  <2>2. ~ received_fin[q]
    BY <1>0, <1>4, <2>1 DEF FlyingNew
  <2>3. /\ peer_sent_msg_count'[q] = x.id /\ received_fin'[q]
        /\ \A s \in Peers : s # q => /\ received_fin'[s] = received_fin[s]
                                     /\ peer_sent_msg_count'[s] = peer_sent_msg_count[s]
    BY <1>0, <1>1, <2>1, <2>2 DEF RecvTypeOK
  <2>4. Arrivals(p, x, Served(x))
    <3>1. Served(x).state # "flying"
      BY <1>5
    <3>. QED
      BY <2>1, <2>2, <2>3, <3>1 DEF Arrivals
  <2>. QED
    BY <1>6, <2>1, <2>4
<1>13. CASE OnAutoAck(p, x)
  <2>. DEFINE A == [None EXCEPT ![q] = {a}]
  <2>1. /\ tasks' = [tasks EXCEPT ![p] = (@ \ {x}) \cup {Served(x)}, ![q] = @ \cup {a}]
        /\ received_msg_ids' = [received_msg_ids EXCEPT ![q] = @ \cup {x.id}] /\ x.key \in Keys
        /\ UNCHANGED <<received_ack_ids, received_fin, peer_sent_msg_count>>
        /\ x.id \notin received_msg_ids[q]
    BY <1>13 DEF OnAutoAck, IsDuplicate
  <2>2. a.key = kAckKey /\ a.id = x.id
    BY <1>1, NewTaskFresh
  <2>3. kFinKey # kAckKey /\ kAckKey \notin Keys
    BY KeysAssumption DEF kFinKey, kAckKey
  <2>4. A[q] = {a} /\ \A s \in Peers : s # q => A[s] = {}
    BY <1>1 DEF None
  <2>. HIDE DEF A, a, q
  <2>5. Arrivals(p, x, Served(x))
    BY <1>8, <2>1
  <2>6. Flow(p, x, Served(x), A)
    <3>1. Served(x).key = x.key /\ Served(x).id = x.id /\ Served(x).state # "flying"
      BY <1>5
    <3>2. \A s \in Peers : \A z \in tasks'[s] :
            (z \in tasks[s] /\ (s = p => z # x)) \/ (s = p /\ z = Served(x)) \/ (s = q /\ z = a)
      BY <1>0, <1>1, <2>1
    <3>. QED
      BY <2>4, <3>1, <3>2 DEF Flow
  <2>7. /\ x.id \notin received_ack_ids'[p]
        /\ \A w \in tasks[q] : w.key = kAckKey => w.id # x.id
        /\ \A u \in Threads : thread'[q][u].pc = "ack" => thread'[q][u].id # x.id
    BY <1>0, <1>1, <1>2, <2>1 DEF AckMeansConsumed, AckTasksOK, AckThreadsOK, Consumed, q
  <2>8. Fresh(A)
    BY <1>1, <2>2, <2>3, <2>4, <2>7 DEF Fresh
  <2>. QED
    BY <1>3, <2>5, <2>6, <2>8, AckerStep
<1>. QED
  BY <1>9, <1>10, <1>11, <1>12, <1>13 DEF RequestNext

LEMMA TaskCloses ==
  ASSUME ClInv, IdsInv', "answer" \notin Faults,
         NEW p \in Peers, NEW x \in tasks[p], TaskNext(p, x) \/ LinkFault(p, x)
  PROVE  ClInv'
<1>0. /\ TypeInv /\ OneCloser /\ CtrlTypeOK
      /\ x \in Task /\ tasks \in [Peers -> SUBSET Task]
  BY DEF ClInv, IdsInv, PromiseInv, TypeInv, TypeOK, TaskTypeOK
<1>1. UNCHANGED <<thread, waiting_finish, msg_seq_id, recvVars>>
  BY DEF TaskNext, TaskDone, TaskAborted, AsyncError, LinkFault, sendVars, ctrlVars
<1>2. \A s \in Peers : process'[s] = "stopped" => process[s] = "stopped"
  BY <1>0 DEF TaskNext, TaskDone, TaskAborted, AsyncError, LinkFault, ctrlVars, CtrlTypeOK
<1>3. Gates /\ OneCloser' /\ SameAckers
  BY <1>0, <1>1, <1>2, RestGates DEF SameAckers
<1>4. ASSUME NEW y, y.key = x.key, y.id = x.id, y.state = "flying" => x.state = "flying",
             tasks' = Replaced(p, x, y)
      PROVE  ClInv'
  <2>1. Flow(p, x, y, None)
    BY <1>0, <1>4, ReplacedFlow
  <2>2. Arrivals(p, x, y)
    BY <1>1 DEF Arrivals, recvVars
  <2>. QED
    BY <1>3, <2>1, <2>2, NoneFresh, AckerStep
<1>5. CASE tasks' = Replaced(p, x, Failed(x))
  <2>1. Failed(x).key = x.key /\ Failed(x).id = x.id /\ Failed(x).state # "flying"
    BY <1>0 DEF Failed, Task
  <2>. QED
    BY <1>4, <1>5, <2>1
<1>6. CASE LinkFault(p, x) /\ x.tries < MaxRetry /\ tasks' = Replaced(p, x, [x EXCEPT !.state = "flying", !.tries = @ + 1])
  <2>. DEFINE y == [x EXCEPT !.state = "flying", !.tries = @ + 1]
  <2>1. y.key = x.key /\ y.id = x.id
    BY <1>0 DEF Task
  <2>2. tasks' = Replaced(p, x, y) /\ x.state = "flying"
    BY <1>6 DEF LinkFault
  <2>. HIDE DEF y
  <2>. QED
    BY <1>4, <2>1, <2>2
<1>7. CASE TaskDone(p, x) \/ AsyncError(p, x)
  <2>1. \A s \in Peers : tasks'[s] \subseteq tasks[s]
    BY <1>0, <1>7 DEF TaskDone, AsyncError, EndTask
  <2>. QED
    BY <1>1, <1>3, <2>1, IdleStep DEF recvVars
<1>. QED
  BY <1>5, <1>6, <1>7 DEF TaskNext, TaskAborted, LinkFault

LEMMA CloseInit == Init => ClInv
<1>. SUFFICES ASSUME Init PROVE ClInv
  OBVIOUS
<1>1. IdsInv
  BY IdsInit
<1>2. \A p \in Peers : /\ tasks[p] = {} /\ ~ received_fin[p] /\ ~ waiting_finish[p]
                       /\ process[p] = "up"
                       /\ \A t \in Threads : thread[p][t].pc = "idle"
  BY DEF Init, Idle
<1>3. FlyingNew /\ AckOnce
  BY <1>2 DEF FlyingNew, AckOnce
<1>4. OneCloser /\ CloseInv
  BY <1>2 DEF OneCloser, CloseInv, Closing
<1>5. FinTrue
  BY <1>2, PeerOther DEF FinTrue
<1>. QED
  BY <1>1, <1>3, <1>4, <1>5 DEF ClInv

LEMMA ClosesStep ==
  ASSUME Serial, "answer" \notin Faults
  PROVE  ClInv /\ [Next]_vars => ClInv'
<1>. SUFFICES ASSUME ClInv, [Next]_vars PROVE ClInv'
  OBVIOUS
<1>1. IdsInv'
  BY IdsStep DEF ClInv
<1>2. CASE UNCHANGED vars
  <2>1. UNCHANGED <<thread, waiting_finish, msg_seq_id, process, tasks, received_msg_ids,
                    received_ack_ids, received_fin, peer_sent_msg_count>>
    BY <1>2 DEF vars, sendVars, recvVars, ctrlVars, taskVars
  <2>2. Gates /\ OneCloser' /\ SameAckers
    BY <2>1, RestGates DEF ClInv, SameAckers
  <2>. QED
    BY <1>1, <2>1, <2>2, IdleStep
<1>. QED
  BY <1>1, <1>2, ThreadCloses, SendThreadCloses, RequestCloses, TaskCloses DEF Next

\* Once WaitLinkTaskFinish has returned and the server is stopped, the peer needs
\* it no more: no request is on its way, no message is queued or being queued, no
\* acknowledgement or FIN is about to be sent.  For every number of threads, every
\* window and retry limit, with aborts, timeouts and ignored errors, provided each
\* user closes after its other calls returned and no answer is lost.  (When an
\* answer is lost its request is sent again, and may come too late.)
THEOREM ChannelQuiescentAtClose ==
  ASSUME Serial, "answer" \notin Faults
  PROVE  Spec => []QuiescentAtClose
<1>1. ASSUME ClInv, NEW p \in Peers, process[p] = "stopped"
      PROVE  /\ \A x \in tasks[Peer(p)] : x.state # "flying"
             /\ send_msgs[Peer(p)] = <<>>
             /\ \A t \in Threads : thread[Peer(p)][t].pc \notin {"number", "push", "ack", "fin"}
  <2>. DEFINE q == Peer(p)
  <2>0. /\ TypeInv /\ QueueOK /\ HandedOK /\ AckTasksOK
        /\ FlyingNew /\ OneCloser /\ FinTrue /\ CloseInv
        /\ q \in Peers /\ Peer(q) = p
    BY <1>1, PeerOther DEF ClInv, IdsInv, PromiseInv
  <2>1. PICK t \in Threads : thread[p][t].pc = "closed"
    BY <1>1, <2>0 DEF CloseInv
  <2>2. /\ received_fin[p]
        /\ 1 .. peer_sent_msg_count[p] \subseteq received_msg_ids[p]
        /\ 1 .. msg_seq_id[p] \subseteq received_ack_ids[p]
    BY <2>0, <2>1 DEF CloseInv
  <2>3. /\ waiting_finish[q] /\ \A u \in Threads : thread[q][u].pc # "fin"
        /\ peer_sent_msg_count[p] = msg_seq_id[q]
    BY <2>0, <2>2 DEF FinTrue
  <2>4. \A u \in Threads : thread[q][u].pc \notin {"number", "push", "ack", "fin"}
    BY <2>0, <2>3 DEF OneCloser, Closing
  <2>5. 1 .. msg_seq_id[q] \subseteq Handed(q)
    BY <2>0, <2>2, <2>3 DEF HandedOK
  <2>6. send_msgs[q] = <<>>
    <3>1. /\ send_msgs[q] \in Seq(Message) /\ msg_seq_id[q] \in Nat
          /\ \A m \in Message : m.id \in Nat /\ m.id >= 1
      <4>1. send_msgs[q] \in Seq(Message) /\ msg_seq_id[q] \in 0 .. MaxMsgs
        BY <2>0 DEF TypeInv, TypeOK, SendTypeOK
      <4>2. \A m \in Message : m.id \in 1 .. MaxMsgs
        BY DEF Message
      <4>. QED
        BY <4>1, <4>2, BoundsAssumption
    <3>2. Len(send_msgs[q]) \in Nat
      BY <3>1
    <3>3. ASSUME 1 \in 1 .. Len(send_msgs[q]) PROVE FALSE
      <4>1. send_msgs[q][1] \in Message
        BY <3>1, <3>3
      <4>2. send_msgs[q][1].id \in 1 .. msg_seq_id[q]
        BY <2>0, <3>1, <3>3, <4>1 DEF QueueOK
      <4>. QED
        BY <2>5, <3>3, <4>2 DEF Handed
    <3>4. Len(send_msgs[q]) = 0
      BY <3>2, <3>3
    <3>. QED
      BY <3>1, <3>4
  <2>7. ASSUME NEW x \in tasks[q], x.state = "flying" PROVE FALSE
    <3>0. x.key \in Keys \cup {kAckKey, kFinKey}
      BY <2>0 DEF TypeInv, TypeOK, TaskTypeOK, Task
    <3>1. CASE x.key \in Keys
      <4>1. x.id \in 1 .. msg_seq_id[q]
        BY <2>0, <3>1 DEF HandedOK, Handed
      <4>. QED
        BY <2>0, <2>2, <2>3, <2>7, <3>1, <4>1 DEF FlyingNew
    <3>2. CASE x.key = kAckKey
      <4>1. x.id \in received_msg_ids[q]
        BY <2>0, <3>2 DEF AckTasksOK, Consumed
      <4>2. x.id \in 1 .. msg_seq_id[p]
        BY <1>1, <4>1, <2>0 DEF HandedOK, Handed
      <4>. QED
        BY <2>0, <2>2, <2>7, <3>2, <4>2 DEF FlyingNew
    <3>3. CASE x.key = kFinKey
      BY <2>0, <2>2, <2>7, <3>3 DEF FlyingNew
    <3>. QED
      BY <3>0, <3>1, <3>2, <3>3
  <2>. QED
    BY <2>4, <2>6, <2>7
<1>2. ClInv => QuiescentAtClose
  BY <1>1 DEF QuiescentAtClose
<1>. QED
  BY <1>2, CloseInit, ClosesStep, PTL DEF Spec

=============================================================================
