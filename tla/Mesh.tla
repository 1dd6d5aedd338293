-------------------------------- MODULE Mesh --------------------------------
(***************************************************************************)
(* The parties of one process-wide mesh: Context (event counters, P2P      *)
(* calls, SubWorld and Spawn, WaitLinkTaskFinish), the collectives of      *)
(* link/algorithm, and the ChannelMem channels FactoryMem gives them.      *)
(*                                                                         *)
(* A world is a Context: the main one, or a SubWorld or Spawn that shares  *)
(* its channels.  Every party of a world runs the world's program in a     *)
(* thread of its own (a strand), one call after the other; nothing         *)
(* synchronises two strands but the messages they exchange.  A collective  *)
(* is given by the place of its loop after each channel call it makes.     *)
(***************************************************************************)
EXTENDS Integers, Sequences, FiniteSets

CONSTANTS Deployments,   \* the meshes to start from: see DeploymentAssumption
          MaxTimeouts    \* bound: Recvs that time out although a message is due

Kinds == {"ALLGATHER", "BARRIER", "BCAST", "GATHER", "SCATTER", "P2P"}

ASSUME DeploymentAssumption ==
  /\ MaxTimeouts \in Nat
  /\ \A d \in Deployments :
       /\ d.size \in Nat \ {0}
       /\ "main" \in DOMAIN d.parties
       /\ d.parties["main"] = [k \in 1 .. d.size |-> k - 1]
       /\ \A w \in DOMAIN d.parties :
            /\ d.parties[w] \in Seq(0 .. (d.size - 1))
            /\ \A j, k \in DOMAIN d.parties[w] : d.parties[w][j] = d.parties[w][k] => j = k
            /\ LET ranks == 0 .. (Len(d.parties[w]) - 1)
               IN  d.program[w] \in Seq([kind : Kinds, root : ranks, dst : ranks])

VARIABLES
  mesh,         \* the deployment, chosen at the start
  counter,      \* per strand: Context::counter_
  p2p_counter,  \* per strand: Context::p2p_counter_
  status,       \* per strand: "ready" between calls, "running", "gone"
  entered,      \* per strand: calls made so far
  loop,         \* per strand: where the loops of the current call are
  buf,          \* per strand: the Buffers of the current call
  results,      \* per strand: how each finished call ended
  recv_msgs,    \* per rank and peer: ChannelMem::recv_msgs_
  finished,     \* per rank and peer: ChannelMem::finished_
  closing,      \* per rank: Context::WaitLinkTaskFinish
  timeouts      \* Recvs that timed out although a message was due

strandVars == <<counter, p2p_counter, status, entered, loop, buf, results>>
closeVars == <<finished, closing>>
vars == <<mesh, strandVars, recv_msgs, closeVars, timeouts>>

-----------------------------------------------------------------------------
(* Worlds, ranks and keys. *)

Ranks == 0 .. (mesh.size - 1)
Worlds == DOMAIN mesh.parties
WorldSize(w) == Len(mesh.parties[w])
VRanks(w) == 0 .. (WorldSize(w) - 1)
Strands == UNION {{<<w, v>> : v \in VRanks(w)} : w \in Worlds}

\* channels[i] = channels_[orig_ranks[i]]: the rank behind a rank of a world.
OrigRank(w, v) == mesh.parties[w][v + 1]
Program(s) == mesh.program[s[1]]
Call(s) == Program(s)[entered[s]]

PrevRank(v, stride, n) == (v - stride + n) % n

NextRank(v, stride, n) == (v + stride) % n

\* RingOffset of broadcast.cc.
RingOffset(begin, end, n) == (end - begin + n) % n

\* The empty payload of a FIN.
Empty == [world |-> "fin", call |-> 0, by |-> 0, slot |-> 0]
kFinKey == [world |-> "fin", id |-> 0, kind |-> "fin", src |-> 0, dst |-> 0]

\* Mutant of NextId: the id of the call before.
NextIdSame(s) == counter[s]

\* The number NextId puts into the event of a collective.
NextId(s) == counter[s] + 1

\* The number NextP2PId puts into the event of a Send or Recv.
NextP2PId(s, src, dst) == p2p_counter[s][<<src, dst>>] + 1

\* The key of strand s's current call, after its counter was advanced.
Key(s) ==
  LET c == Call(s)
  IN IF c.kind = "P2P"
     THEN [world |-> s[1], id |-> p2p_counter[s][<<c.root, c.dst>>],
           kind |-> "P2P", src |-> c.root, dst |-> c.dst]
     ELSE [world |-> s[1], id |-> counter[s], kind |-> c.kind,
           src |-> 0, dst |-> 0]

-----------------------------------------------------------------------------
(* The collectives.  A place in one of them is the channel call to make next *)
(* or, with "skip", an iteration of a loop that makes none; i is the loop    *)
(* variable, or the peer where there is no loop, and received the flag of    *)
(* Broadcast.  A collective gives the place that follows l.                  *)

Place(do, i) == [do |-> do, i |-> i, received |-> FALSE]
Start == Place("start", 0)
End == Place("end", 0)

\* channels_[rank] is null: for (idx...) if (idx == Rank()) continue.
NextPeer(v, idx) == IF idx = v THEN idx + 1 ELSE idx

\* for (idx = ...; idx < WorldSize(); idx++) over the other ranks, then "after".
ForOthers(do, v, n, idx, after) ==
  IF NextPeer(v, idx) < n THEN Place(do, NextPeer(v, idx)) ELSE after

\* The first index, or the one after this.
Idx(l) == IF l.do = "start" THEN 0 ELSE l.i + 1

AllGather(v, n, l) ==
  LET receives == ForOthers("recv", v, n, IF l.do = "recv" THEN Idx(l) ELSE 0, End)
  IN  IF l.do = "recv" THEN receives ELSE ForOthers("send", v, n, Idx(l), receives)

Gather(v, n, root, l) ==
  IF v = root THEN ForOthers("recv", v, n, Idx(l), End)
  ELSE IF l.do = "start" THEN Place("send", root) ELSE End

Scatter(v, n, root, l) ==
  IF v = root THEN ForOthers("send", v, n, Idx(l), End)
  ELSE IF l.do = "start" THEN Place("recv", root) ELSE End

\* Mutant of Barrier: one round instead of ceil(log(n)).
BarrierOneRound(v, n, l) ==
  IF l.do = "start" /\ n > 1 THEN Place("send", 1)
  ELSE IF l.do = "send" THEN Place("recv", l.i) ELSE End

\* for (offset = 1; offset < n; offset <<= 1) { send; recv; }
Barrier(v, n, l) ==
  LET offset == IF l.do = "start" THEN 1 ELSE 2 * l.i
  IN  IF l.do = "send" THEN Place("recv", l.i)
      ELSE IF offset < n THEN Place("send", offset) ELSE End

\* One bit is set: every divisor but 1 is even.
HasSingleBit(p) == \A d \in 2 .. p : p % d = 0 => d % 2 = 0

\* Mutant of bit_floor: one level too low.
bit_floor_low(n) == CHOOSE p \in 1 .. n : HasSingleBit(p) /\ 2 * p <= n /\ n < 4 * p

\* std::bit_floor: the largest power of two that is at most n.
bit_floor(n) == CHOOSE p \in 1 .. n : HasSingleBit(p) /\ n < 2 * p

\* Mutant of Received: parties at an even distance do not wait for the value.
ReceivedEarly(vrank, l) == vrank % 2 = 0 \/ l.do = "recv" \/ l.received

\* received at the top of the iteration that follows l.
Received(vrank, l) ==
  IF l.do = "start" THEN vrank = 0 ELSE l.do = "recv" \/ l.received

\* for (stride = bit_floor(n); stride > 0; stride >>= 1)
Broadcast(v, n, root, l) ==
  LET vrank == RingOffset(root, v, n)
      stride == IF l.do = "start" THEN bit_floor(n) ELSE l.i \div 2
      received == Received(vrank, l)
      do == IF received THEN IF vrank + stride < n THEN "send" ELSE "skip"
            ELSE IF vrank % stride = 0 THEN "recv" ELSE "skip"
  IN  IF stride = 0 THEN End
      ELSE [do |-> do, i |-> stride, received |-> received]

\* Context::Send at src and Context::Recv at dst; others make no call.
P2P(v, src, dst, l) ==
  IF src = dst \/ l.do # "start" THEN End
  ELSE IF v = src THEN Place("send", dst)
  ELSE IF v = dst THEN Place("recv", src) ELSE End

Following(c, v, n, l) ==
  CASE c.kind = "ALLGATHER" -> AllGather(v, n, l)
    [] c.kind = "BARRIER" -> Barrier(v, n, l)
    [] c.kind = "BCAST" -> Broadcast(v, n, c.root, l)
    [] c.kind = "GATHER" -> Gather(v, n, c.root, l)
    [] c.kind = "SCATTER" -> Scatter(v, n, c.root, l)
    [] c.kind = "P2P" -> P2P(v, c.root, c.dst, l)

\* The rank of the world a channel call at l is about.
PeerOf(c, v, n, l) ==
  IF c.kind \notin {"BARRIER", "BCAST"} THEN l.i
  ELSE IF l.do = "send" THEN NextRank(v, l.i, n) ELSE PrevRank(v, l.i, n)

\* Which of its Buffers a message from one rank to another is.
Slot(c, from, to) == CASE c.kind = "SCATTER" -> to
                       [] c.kind = "BCAST" -> c.root
                       [] OTHER -> from

\* What party v passes as the input of the k-th call of world w, for a slot.
Input(w, k, v, slot) == [world |-> w, call |-> k, by |-> v, slot |-> slot]

\* The Buffers a call starts with: a broadcast starts with output = input,
\* a scatter with one input per rank, the others with their own slot.
Inputs(w, k, v) ==
  LET c == mesh.program[w][k]
  IN [slot \in VRanks(w) |-> Input(w, k, v, IF c.kind = "SCATTER" THEN slot ELSE 0)]

-----------------------------------------------------------------------------
Init == /\ mesh \in Deployments
        /\ counter = [s \in Strands |-> 0]
        /\ p2p_counter = [s \in Strands |-> [e \in VRanks(s[1]) \X VRanks(s[1]) |-> 0]]
        /\ status = [s \in Strands |-> "ready"]
        /\ entered = [s \in Strands |-> 0]
        /\ loop = [s \in Strands |-> End]
        /\ buf = [s \in Strands |-> <<>>]
        /\ results = [s \in Strands |-> <<>>]
        /\ recv_msgs = [r \in Ranks |-> [p \in Ranks |-> {}]]
        /\ finished = [r \in Ranks |-> [p \in Ranks |-> FALSE]]
        /\ closing = [r \in Ranks |-> [at |-> "open", peer |-> 0]]
        /\ timeouts = 0

Done(s) == status[s] = "ready" /\ entered[s] = Len(Program(s))

\* A strand makes its next call: the event id is taken before anything is sent.
Enter(s) ==
  /\ status[s] = "ready" /\ entered[s] < Len(Program(s))
  /\ LET k == entered[s] + 1
         c == Program(s)[k]
         isP2P == c.kind = "P2P"
     IN /\ entered' = [entered EXCEPT ![s] = k]
        /\ counter' = IF isP2P THEN counter ELSE [counter EXCEPT ![s] = NextId(s)]
        /\ p2p_counter' = IF isP2P /\ s[2] \in {c.root, c.dst}
                          THEN [p2p_counter EXCEPT ![s][<<c.root, c.dst>>] =
                                  NextP2PId(s, c.root, c.dst)]
                          ELSE p2p_counter
        /\ loop' = [loop EXCEPT ![s] = Following(c, s[2], WorldSize(s[1]), Start)]
        /\ buf' = [buf EXCEPT ![s] = Inputs(s[1], k, s[2])]
        /\ status' = [status EXCEPT ![s] = "running"]
  /\ UNCHANGED <<mesh, results, recv_msgs, closeVars, timeouts>>

\* The keys rank r's channel to p holds.
Keys(r, p) == {m.key : m \in recv_msgs[r][p]}

\* recv_msgs_.emplace: the first message of a key stays.
OnMessage(r, p, key, value) ==
  IF key \in Keys(r, p) THEN recv_msgs
  ELSE [recv_msgs EXCEPT ![r][p] = @ \union {[key |-> key, value |-> value]}]

At(s, do) == status[s] = "running" /\ loop[s].do = do

\* The peer of s's channel call, as a rank of its world; the ranks behind both.
To(s) == PeerOf(Call(s), s[2], WorldSize(s[1]), loop[s])
Self(s) == OrigRank(s[1], s[2])
Peer(s) == OrigRank(s[1], To(s))

\* s goes on to its next channel call.
Step(s) == loop' = [loop EXCEPT ![s] = Following(Call(s), s[2], WorldSize(s[1]), loop[s])]

\* What s sends: a barrier sends empty buffers.
Payload(s) == IF Call(s).kind = "BARRIER" THEN Empty
              ELSE buf[s][Slot(Call(s), s[2], To(s))]

\* ChannelMem::SendImpl runs the peer's OnMessage.
SendImpl(s) ==
  /\ At(s, "send")
  /\ recv_msgs' = OnMessage(Peer(s), Self(s), Key(s), Payload(s))
  /\ Step(s)
  /\ UNCHANGED <<mesh, counter, p2p_counter, status, entered, buf, results,
                 closeVars, timeouts>>

\* recv_msgs_.erase(itr)
Taken(r, p, key) ==
  [recv_msgs EXCEPT ![r][p] = {m \in @ : m.key # key}]

\* ChannelMem::Recv finds the key and takes the message out.
Recv(s) ==
  /\ At(s, "recv")
  /\ \E m \in recv_msgs[Self(s)][Peer(s)] :
       /\ m.key = Key(s)
       /\ buf' = IF Call(s).kind = "BARRIER" THEN buf
                 ELSE [buf EXCEPT ![s][Slot(Call(s), To(s), s[2])] = m.value]
  /\ recv_msgs' = Taken(Self(s), Peer(s), Key(s))
  /\ Step(s)
  /\ UNCHANGED <<mesh, counter, p2p_counter, status, entered, results,
                 closeVars, timeouts>>

\* An iteration of Broadcast that makes no channel call.
Skip(s) ==
  /\ At(s, "skip")
  /\ Step(s)
  /\ UNCHANGED <<mesh, counter, p2p_counter, status, entered, buf, results,
                 recv_msgs, closeVars, timeouts>>

\* Party v, at l, comes to a call that sends to rank "to" later or now.
StillSends(c, v, n, l, to) ==
  CASE c.kind \in {"ALLGATHER", "SCATTER"} -> l.do = "send" /\ l.i <= to
    [] c.kind \in {"GATHER", "P2P"} -> l.do = "send"
    [] c.kind = "BARRIER" -> \/ l.do = "send" /\ l.i <= RingOffset(v, to, n)
                             \/ l.do = "recv" /\ l.i < RingOffset(v, to, n)
    [] c.kind = "BCAST" -> \/ l.i > RingOffset(v, to, n)
                           \/ l.do = "send" /\ l.i = RingOffset(v, to, n)

\* Strand s has nothing more to send to rank "to" in its k-th call.
SentAll(s, k, to) ==
  \/ entered[s] > k
  \/ /\ entered[s] = k
     /\ \/ status[s] # "running"
        \/ ~StillSends(Call(s), s[2], WorldSize(s[1]), loop[s], to)

\* The strand at the other end of s's Recv will still send what s waits for.
Due(s) == LET t == <<s[1], To(s)>>
          IN  status[t] # "gone" /\ ~SentAll(t, entered[s], s[2])

\* Recv gives up: the call throws, and the caller goes on with its next call
\* or stops.  While a message is due this happens MaxTimeouts times at most.
RecvTimeout(s) ==
  /\ At(s, "recv")
  /\ Key(s) \notin Keys(Self(s), Peer(s))
  /\ IF Due(s) THEN timeouts < MaxTimeouts /\ timeouts' = timeouts + 1
               ELSE timeouts' = timeouts
  /\ \E next \in {"ready", "gone"} : status' = [status EXCEPT ![s] = next]
  /\ loop' = [loop EXCEPT ![s] = End]
  /\ results' = [results EXCEPT ![s] = Append(@, <<"thrown">>)]
  /\ UNCHANGED <<mesh, counter, p2p_counter, entered, buf, recv_msgs, closeVars>>

Return(s) ==
  /\ At(s, "end")
  /\ status' = [status EXCEPT ![s] = "ready"]
  /\ results' = [results EXCEPT ![s] = Append(@, <<"returned", buf[s]>>)]
  /\ UNCHANGED <<mesh, counter, p2p_counter, entered, loop, buf, recv_msgs,
                 closeVars, timeouts>>

-----------------------------------------------------------------------------
(* Context::WaitLinkTaskFinish, on the main context: one channel after the   *)
(* other.                                                                    *)

\* The next channel but the null one of the rank itself.
Goto(r, p) == IF NextPeer(r, p) < mesh.size
              THEN [at |-> "send", peer |-> NextPeer(r, p)]
              ELSE [at |-> "closed", peer |-> 0]

StartClose(r) ==
  /\ closing[r].at = "open" /\ Done(<<"main", r>>)
  /\ closing' = [closing EXCEPT ![r] = Goto(r, 0)]
  /\ UNCHANGED <<mesh, strandVars, recv_msgs, finished, timeouts>>

\* Mutant of SendFin: waits for the peer's FIN before sending its own.
SendFinLate(r) ==
  LET p == closing[r].peer
  IN /\ closing[r].at = "send" /\ ~finished[r][p]
     /\ kFinKey \in Keys(r, p)
     /\ finished' = [finished EXCEPT ![r][p] = TRUE]
     /\ recv_msgs' = OnMessage(p, r, kFinKey, Empty)
     /\ closing' = [closing EXCEPT ![r].at = "recv"]
     /\ UNCHANGED <<mesh, strandVars, timeouts>>

\* finished_.compare_exchange_strong and SendImpl(kFinKey).
SendFin(r) ==
  LET p == closing[r].peer
  IN /\ closing[r].at = "send" /\ ~finished[r][p]
     /\ finished' = [finished EXCEPT ![r][p] = TRUE]
     /\ recv_msgs' = OnMessage(p, r, kFinKey, Empty)
     /\ closing' = [closing EXCEPT ![r].at = "recv"]
     /\ UNCHANGED <<mesh, strandVars, timeouts>>

RecvFin(r) ==
  LET p == closing[r].peer
  IN /\ closing[r].at = "recv" /\ kFinKey \in Keys(r, p)
     /\ recv_msgs' = Taken(r, p, kFinKey)
     /\ closing' = [closing EXCEPT ![r] = Goto(r, p + 1)]
     /\ UNCHANGED <<mesh, strandVars, finished, timeouts>>

\* The FIN of p to r is still to come.
FinDue(r, p) == /\ status[<<"main", p>>] # "gone"
                /\ closing[p].at # "thrown"
                /\ ~finished[p][r]

\* Recv(kFinKey) gives up; the loop over the channels ends here.
FinTimeout(r) ==
  LET p == closing[r].peer
  IN /\ closing[r].at = "recv" /\ kFinKey \notin Keys(r, p)
     /\ IF FinDue(r, p) THEN timeouts < MaxTimeouts /\ timeouts' = timeouts + 1
                        ELSE timeouts' = timeouts
     /\ closing' = [closing EXCEPT ![r].at = "thrown"]
     /\ UNCHANGED <<mesh, strandVars, recv_msgs, finished>>

Next == \/ \E s \in Strands : \/ Enter(s) \/ SendImpl(s) \/ Recv(s) \/ Skip(s)
                              \/ RecvTimeout(s) \/ Return(s)
        \/ \E r \in Ranks : \/ StartClose(r) \/ SendFin(r) \/ RecvFin(r) \/ FinTimeout(r)

Fairness == WF_vars(Next)

Spec == Init /\ [][Next]_vars /\ Fairness

-----------------------------------------------------------------------------
(* Properties. *)

\* What the parties of world w pass to its calls.
InputsOf(w) == [world : {w}, call : DOMAIN mesh.program[w], by : VRanks(w), slot : VRanks(w)]

Value == {Empty} \union UNION {InputsOf(w) : w \in Worlds}

\* Every strand, channel and closing call is in one of the states the code has,
\* and no call names a rank outside its world.
TypeOK ==
  /\ mesh \in Deployments
  /\ \A s \in Strands :
       /\ counter[s] \in 0 .. entered[s]
       /\ entered[s] \in 0 .. Len(Program(s))
       /\ status[s] \in {"ready", "running", "gone"}
       /\ loop[s].do \in {"send", "recv", "skip", "end"}
       /\ loop[s].i \in 0 .. WorldSize(s[1]) /\ loop[s].received \in BOOLEAN
       /\ At(s, "send") \/ At(s, "recv") => To(s) \in VRanks(s[1]) \ {s[2]}
       /\ Len(results[s]) = IF status[s] = "running" THEN entered[s] - 1 ELSE entered[s]
  /\ \A r, p \in Ranks : \A m \in recv_msgs[r][p] : m.value \in Value
  /\ \A r \in Ranks : /\ closing[r].at \in {"open", "send", "recv", "closed", "thrown"}
                      /\ closing[r].peer \in Ranks
  /\ timeouts \in 0 .. MaxTimeouts

\* What the k-th call of world w has to give party v, slot by slot.
Expected(w, k, v) ==
  LET c == mesh.program[w][k]
  IN CASE c.kind = "ALLGATHER" -> [slot \in VRanks(w) |-> Input(w, k, slot, 0)]
       [] c.kind = "GATHER" /\ v = c.root -> [slot \in VRanks(w) |-> Input(w, k, slot, 0)]
       [] c.kind = "BCAST" -> [slot \in {c.root} |-> Input(w, k, c.root, 0)]
       [] c.kind = "SCATTER" -> [slot \in {v} |-> Input(w, k, c.root, v)]
       [] c.kind = "P2P" /\ v = c.dst -> [slot \in {c.root} |-> Input(w, k, c.root, 0)]
       [] OTHER -> <<>>

\* A call that returns has the inputs of the right parties to the same call in
\* the right places, whatever calls timed out before and however far the other
\* parties are (allgather.cc:52, gather.cc:43, scatter.cc:50, broadcast.cc:61,
\* context.cc:255).
ResultsRight ==
  \A s \in Strands : \A k \in DOMAIN results[s] :
    results[s][k][1] = "returned" =>
      LET want == Expected(s[1], k, s[2])
      IN  \A slot \in DOMAIN want : results[s][k][2][slot] = want[slot]

\* No party leaves a Barrier before every party of its world has entered it,
\* also when another party's Recv timed out half way through (barrier.cc:34).
BarrierHolds ==
  \A s \in Strands : \A k \in DOMAIN results[s] :
    Program(s)[k].kind = "BARRIER" /\ results[s][k][1] = "returned"
      => \A v \in VRanks(s[1]) : entered[<<s[1], v>>] >= k

\* A message never meets another one of the same key in the peer's channel,
\* where emplace would drop it (channel_mem.cc:64): the ids of calls that timed
\* out and of worlds that share the channel are never met again.
SendNeverClashes ==
  \A s \in Strands : At(s, "send") => Key(s) \notin Keys(Peer(s), Self(s))

\* While nothing due was late, no call ever waits for a message nobody sends
\* (the send and receive patterns of the collectives match, broadcast.cc:54),
\* no close waits for a FIN that will not come, and a mesh that has closed has
\* read every message sent, the FINs included (channel_mem.cc:69).
NoUnprovokedFailure ==
  timeouts = 0 => /\ \A s \in Strands : \A k \in DOMAIN results[s] :
                        results[s][k][1] = "returned"
                  /\ \A r \in Ranks : closing[r].at # "thrown"
                  /\ \/ \E s \in Strands : ~Done(s)
                     \/ \E r \in Ranks : closing[r].at # "closed"
                     \/ \A r, p \in Ranks : recv_msgs[r][p] = {}

\* Every strand ends its program or gives up, and every party that ended its
\* program gets out of WaitLinkTaskFinish, although everyone waits for everyone
\* in turn (context.cc:126).
EveryoneFinishes ==
  <>(/\ \A s \in Strands : Done(s) \/ status[s] = "gone"
     /\ \A r \in Ranks : Done(<<"main", r>>) => closing[r].at \in {"closed", "thrown"})

=============================================================================
