---------------------------- MODULE ChunkedSend ----------------------------
(***************************************************************************)
(* One message that is larger than the link's payload: Channel::SendChunked *)
(* cuts it into chunks and pushes them from parallel threads through a     *)
(* SendChunkedWindow; Channel::OnChunkedMessage puts them together at the  *)
(* peer and hands the whole to OnMessage.  Pushes are retried, so a chunk  *)
(* may arrive more than once and in any order.                             *)
(***************************************************************************)
EXTENDS Naturals, Sequences, FiniteSets

CONSTANTS NumBytes,        \* value.size()
          BytesPerChunk,   \* link_->GetMaxBytesPerChunk()
          ParallelLimit,   \* chunk_parallel_send_size_
          MaxRetry,        \* retry_options_.max_retry
          MaxFaults        \* bound: LinkErrors in one transfer

ASSUME ChunkAssumption == /\ NumBytes \in Nat \ {0}
                          /\ BytesPerChunk \in Nat \ {0}
                          /\ NumBytes > BytesPerChunk
                          /\ ParallelLimit \in Nat \ {0}
                          /\ MaxRetry \in Nat
                          /\ MaxFaults \in Nat

VARIABLES
  pc,               \* the sending thread: "next", "wait", "join", "finish",
                    \* "returned", or "terminated" (std::terminate)
  chunk_idx,        \* chunk_idx
  running_push,     \* running_push_
  async_exception,  \* async_exception_ is set
  notified,         \* cond_ was notified since the sending thread waits
  push,             \* per chunk: the state of its push thread
  tries,            \* per chunk: retry_count
  faults,           \* LinkErrors so far
  assembly,         \* chunked_values_: [received, bytes_written, filled] or NoEntry
  data,             \* per chunk: the whole message its handler took out
  received,         \* the sequence id is in received_msg_ids_
  stored            \* history: the bytes of the messages put into recv_msgs_

vars == <<pc, chunk_idx, running_push, async_exception, notified, push, tries,
          faults, assembly, data, received, stored>>

\* Mutant of NumChunks: rounded down.
NumChunksDown == NumBytes \div BytesPerChunk

NumChunks == (NumBytes + BytesPerChunk - 1) \div BytesPerChunk

\* Chunks that could exist under any rounding.
ChunkIds == 0 .. (NumBytes \div BytesPerChunk)

ChunkOffset(c) == c * BytesPerChunk
ChunkSize(c) == IF NumBytes - ChunkOffset(c) < BytesPerChunk
                THEN NumBytes - ChunkOffset(c) ELSE BytesPerChunk
ChunkBytes(c) == {b \in 0 .. (NumBytes - 1) :
                    ChunkOffset(c) <= b /\ b < ChunkOffset(c) + ChunkSize(c)}

NoEntry == [received |-> {}, bytes_written |-> 0, filled |-> {}]

Init == /\ pc = "next" /\ chunk_idx = 0
        /\ running_push = 0 /\ async_exception = FALSE /\ notified = FALSE
        /\ push = [c \in ChunkIds |-> "none"]
        /\ tries = [c \in ChunkIds |-> 0]
        /\ faults = 0
        /\ data = [c \in ChunkIds |-> {}]
        /\ assembly = NoEntry /\ received = FALSE /\ stored = <<>>

-----------------------------------------------------------------------------
(* SendChunked. *)

\* Mutant of WindowFull: one push too many.
WindowFullOff(n) == n > ParallelLimit + 1

WindowFull(n) == n > ParallelLimit

\* The thread of chunk chunk_idx starts; the loop goes on or the joins begin.
Launch == /\ push' = [push EXCEPT ![chunk_idx] = "flying"]
          /\ chunk_idx' = chunk_idx + 1
          /\ pc' = IF chunk_idx + 1 < NumChunks THEN "next" ELSE "join"

\* GetToken counts the push first and waits while there are too many.
GetToken == /\ pc = "next"
            /\ running_push' = running_push + 1
            /\ \/ WindowFull(running_push + 1) /\ pc' = "wait" /\ notified' = FALSE
                  /\ UNCHANGED <<push, chunk_idx>>
               \/ ~ WindowFull(running_push + 1) /\ Launch /\ UNCHANGED notified
            /\ UNCHANGED <<async_exception, tries, faults, assembly, data, received, stored>>

\* Woken in GetToken: an exception of another push is thrown, out of a scope
\* that holds joinable threads; otherwise the loop looks at the count again.
WakeThrows == /\ pc = "wait" /\ notified /\ async_exception
              /\ pc' = "terminated"
              /\ UNCHANGED <<chunk_idx, running_push, async_exception, notified, push,
                             tries, faults, assembly, data, received, stored>>

WakeLaunches == /\ pc = "wait" /\ notified /\ ~ async_exception
                /\ ~ WindowFull(running_push)
                /\ Launch
                /\ UNCHANGED <<running_push, async_exception, notified, tries, faults,
                               assembly, data, received, stored>>

JoinThreads == /\ pc = "join"
               /\ \A c \in ChunkIds : push[c] \in {"none", "ended"}
               /\ pc' = "finish"
               /\ UNCHANGED <<chunk_idx, running_push, async_exception, notified, push,
                              tries, faults, assembly, data, received, stored>>

\* window->Finished() looks at the exception only after a wait, and there is
\* nothing left to wait for.
Finished == /\ pc = "finish" /\ running_push = 0
            /\ pc' = "returned"
            /\ UNCHANGED <<chunk_idx, running_push, async_exception, notified, push,
                           tries, faults, assembly, data, received, stored>>

-----------------------------------------------------------------------------
(* A push thread. *)

\* std::terminate ends all of them.
Alive == pc # "terminated"

\* Mutant of OnPushDone: nobody is notified.
OnPushDoneSilent(c, failed) ==
    /\ push' = [push EXCEPT ![c] = "ended"]
    /\ running_push' = running_push - 1
    /\ async_exception' = (async_exception \/ failed)
    /\ UNCHANGED <<pc, chunk_idx, notified, tries, faults, assembly, data, received, stored>>

\* The push thread ends: ~Token calls OnPushDone with the exception, if any.
OnPushDone(c, failed) ==
    /\ push' = [push EXCEPT ![c] = "ended"]
    /\ running_push' = running_push - 1
    /\ async_exception' = (async_exception \/ failed)
    /\ notified' = TRUE
    /\ UNCHANGED <<pc, chunk_idx, tries, faults, assembly, data, received, stored>>

PushDone(c) == Alive /\ push[c] = "served" /\ OnPushDone(c, FALSE)

PushFails(c) == Alive /\ push[c] = "failed" /\ OnPushDone(c, TRUE)

\* A LinkError before or after the peer handled the chunk.
LinkFault(c) ==
    /\ Alive /\ push[c] \in {"flying", "served"} /\ faults < MaxFaults
    /\ faults' = faults + 1
    /\ push' = [push EXCEPT ![c] = IF tries[c] < MaxRetry THEN "flying" ELSE "failed"]
    /\ tries' = [tries EXCEPT ![c] = IF tries[c] < MaxRetry THEN @ + 1 ELSE @]
    /\ UNCHANGED <<pc, chunk_idx, running_push, async_exception, notified, assembly,
                   data, received, stored>>

-----------------------------------------------------------------------------
(* OnChunkedMessage. *)

\* Mutant of AddChunk: a chunk that is there already is counted again.
AddChunkAgain(a, c) == [received |-> a.received \cup {ChunkOffset(c)},
                        bytes_written |-> a.bytes_written + ChunkSize(c),
                        filled |-> a.filled \cup ChunkBytes(c)]

\* ChunkedMessage::AddChunk
AddChunk(a, c) == IF ChunkOffset(c) \in a.received THEN a
                  ELSE [received |-> a.received \cup {ChunkOffset(c)},
                        bytes_written |-> a.bytes_written + ChunkSize(c),
                        filled |-> a.filled \cup ChunkBytes(c)]

\* Under chunked_values_mutex_; the handler that completes the message takes
\* the entry out and goes on to reassemble it.
OnChunk(c) ==
    LET a == AddChunk(assembly, c) IN
    /\ push[c] = "flying"
    /\ \/ a.bytes_written = NumBytes
          /\ assembly' = NoEntry
          /\ data' = [data EXCEPT ![c] = a.filled]
          /\ push' = [push EXCEPT ![c] = "reassembling"]
       \/ a.bytes_written # NumBytes
          /\ assembly' = a
          /\ push' = [push EXCEPT ![c] = "served"]
          /\ UNCHANGED data
    /\ UNCHANGED <<pc, chunk_idx, running_push, async_exception, notified, tries,
                   faults, received, stored>>

\* Mutant of Reassemble: no test of the sequence id.
ReassembleTwice(c) ==
    /\ push[c] = "reassembling"
    /\ push' = [push EXCEPT ![c] = "served"]
    /\ received' = TRUE
    /\ stored' = Append(stored, data[c])
    /\ UNCHANGED <<pc, chunk_idx, running_push, async_exception, notified, tries,
                   faults, assembly, data>>

\* OnMessage with the whole message; a sequence id seen before is ignored.
Reassemble(c) ==
    /\ push[c] = "reassembling"
    /\ push' = [push EXCEPT ![c] = "served"]
    /\ received' = TRUE
    /\ stored' = IF received THEN stored ELSE Append(stored, data[c])
    /\ UNCHANGED <<pc, chunk_idx, running_push, async_exception, notified, tries,
                   faults, assembly, data>>

-----------------------------------------------------------------------------
SenderNext == GetToken \/ WakeThrows \/ WakeLaunches \/ JoinThreads \/ Finished

PushNext(c) == PushDone(c) \/ PushFails(c) \/ OnChunk(c) \/ Reassemble(c)

\* The transfer is over.
Over == /\ pc \in {"returned", "terminated"}
        /\ \A c \in ChunkIds : push[c] \notin {"flying", "reassembling"}
        /\ UNCHANGED vars

Next == \/ SenderNext
        \/ \E c \in ChunkIds : PushNext(c) \/ LinkFault(c)
        \/ Over

\* The sending thread, the push threads and the peer's handlers all run.
Fairness == WF_vars(SenderNext) /\ \A c \in ChunkIds : WF_vars(PushNext(c))

Spec == Init /\ [][Next]_vars /\ Fairness

-----------------------------------------------------------------------------
\* The type invariant; the counters stay within the number of chunks.
TypeOK ==
  /\ pc \in {"next", "wait", "join", "finish", "returned", "terminated"}
  /\ chunk_idx \in 0 .. NumChunks
  /\ running_push \in 0 .. NumChunks
  /\ async_exception \in BOOLEAN /\ notified \in BOOLEAN /\ received \in BOOLEAN
  /\ push \in [ChunkIds -> {"none", "flying", "reassembling", "served", "failed", "ended"}]
  /\ tries \in [ChunkIds -> 0 .. MaxRetry]
  /\ faults \in 0 .. MaxFaults
  /\ assembly.bytes_written \in 0 .. NumBytes
  /\ stored \in Seq(SUBSET (0 .. (NumBytes - 1)))

\* Whatever chunks are repeated or overtake each other, the peer stores the
\* message at most once, and only when every byte of it was written.
WholeMessageOnce ==
  /\ Len(stored) <= 1
  /\ \A n \in 1 .. Len(stored) : stored[n] = 0 .. (NumBytes - 1)

\* Never more than chunk_parallel_send_size_ pushes at a time (context.h: "the
\* max paralleled send size is chunk_parallel_send_size").
ParallelBound ==
  Cardinality({c \in ChunkIds : push[c] \notin {"none", "ended"}}) <= ParallelLimit

\* SendChunked comes back (a wait in GetToken is always ended by a push).
TransferEnds == <>(pc \in {"returned", "terminated"})

\* As long as no push failed for good, a return of SendChunked means the peer
\* has the message, and std::terminate is never met.
ReturnMeansStored ==
  ~ async_exception => /\ pc = "returned" => stored # <<>>
                       /\ pc # "terminated"

\* A push that failed for good is an error of SendChunked, which SendTask goes on
\* to handle (context.h: "if true, process will exit(-1) when error happened in
\* link async operate"): SendChunked does not return as if all was sent.
FailureReported == async_exception => pc # "returned"
=============================================================================
