------------------------- MODULE ChunkedSendProofs -------------------------
(***************************************************************************)
(* Theorems about ChunkedSend, for every size of message, chunk and window *)
(* and every number of retries and LinkErrors.                             *)
(***************************************************************************)
EXTENDS ChunkedSend, FiniteSetTheorems, SequenceTheorems, TLAPS

-----------------------------------------------------------------------------
(* The inductive invariant. *)

Chunks == 0 .. (NumChunks - 1)
Bytes == 0 .. (NumBytes - 1)

Assemblies == [received : SUBSET Nat, bytes_written : Nat, filled : SUBSET Bytes]

Typed ==
  /\ pc \in {"next", "wait", "join", "finish", "returned", "terminated"}
  /\ chunk_idx \in 0 .. NumChunks
  /\ running_push \in Nat
  /\ async_exception \in BOOLEAN /\ notified \in BOOLEAN /\ received \in BOOLEAN
  /\ push \in [ChunkIds -> {"none", "flying", "reassembling", "served", "failed", "ended"}]
  /\ tries \in [ChunkIds -> 0 .. MaxRetry]
  /\ faults \in 0 .. MaxFaults
  /\ assembly \in Assemblies
  /\ data \in [ChunkIds -> SUBSET Bytes]
  /\ stored \in Seq(SUBSET Bytes)

\* The chunks before chunk_idx were launched and no others; the loop ends with
\* the last one, and the joins wait for all of them.
Launched ==
  /\ \A c \in ChunkIds : push[c] # "none" <=> c < chunk_idx
  /\ pc \in {"next", "wait", "terminated"} => chunk_idx < NumChunks
  /\ pc \in {"join", "finish", "returned"} => chunk_idx = NumChunks
  /\ pc \in {"finish", "returned"} => \A c \in ChunkIds : push[c] \in {"none", "ended"}
  /\ pc = "terminated" => async_exception

\* running_push_ counts the live pushes and the one that waits for its turn.
Live == {c \in ChunkIds : push[c] \notin {"none", "ended"}}
Waiting == IF pc \in {"wait", "terminated"} THEN 1 ELSE 0
Counted == running_push = Cardinality(Live) + Waiting

\* The bytes of the chunks in a set of offsets.
BytesAt(offsets) == {b \in Bytes : \E c \in Chunks : ChunkOffset(c) \in offsets /\ b \in ChunkBytes(c)}

\* What the peer has put together so far.
AssemblyOK(a) ==
  /\ a.received \subseteq {ChunkOffset(c) : c \in Chunks}
  /\ a.filled = BytesAt(a.received)
  /\ a.bytes_written = Cardinality(a.filled)
Assembled == AssemblyOK(assembly) /\ assembly.bytes_written # NumBytes

\* Who takes the entry out has the whole message; it is stored with its id.
Whole ==
  /\ \A c \in ChunkIds : push[c] = "reassembling" => data[c] = Bytes
  /\ Len(stored) = IF received THEN 1 ELSE 0
  /\ \A n \in 1 .. Len(stored) : stored[n] = Bytes

\* Until the message is stored or about to be, no chunk that was answered is lost.
NoneLost ==
  \/ received
  \/ \E c \in ChunkIds : push[c] = "reassembling"
  \/ \A c \in ChunkIds : push[c] = "served" \/ (push[c] = "ended" /\ ~ async_exception)
                           => ChunkOffset(c) \in assembly.received

Inv == Typed /\ Launched /\ Counted /\ ParallelBound /\ Assembled /\ Whole /\ NoneLost

-----------------------------------------------------------------------------
(* The cutting of the message. *)

LEMMA DivBounds ==
  ASSUME NEW n \in Nat, NEW b \in Nat \ {0}
  PROVE  n \div b \in Nat /\ (n \div b) * b <= n /\ n < (n \div b) * b + b
  OBVIOUS

LEMMA TimesMonotone ==
  ASSUME NEW m \in Nat, NEW n \in Nat, NEW b \in Nat \ {0}, m < n
  PROVE  m * b + b <= n * b
<1>1. PICK d \in Nat : n = m + 1 + d
  <2>. WITNESS n - m - 1 \in Nat
  <2>. QED OBVIOUS
<1>2. n * b = m * b + b + d * b /\ d * b \in Nat
  BY <1>1
<1>. QED
  BY <1>2

\* The chunks reach to the end of the message, and the last one is not empty.
LEMMA ChunksCover ==
  /\ NumChunks \in Nat \ {0}
  /\ NumBytes <= NumChunks * BytesPerChunk
  /\ \A c \in Chunks : c \in ChunkIds /\ c \in Nat /\ c * BytesPerChunk < NumBytes
  /\ \A c \in ChunkIds : c < NumChunks <=> c \in Chunks
<1>. DEFINE K == NumChunks
            B == BytesPerChunk
            q == NumBytes \div BytesPerChunk
<1>0. B \in Nat \ {0} /\ NumBytes \in Nat \ {0} /\ NumBytes + B - 1 \in Nat
  BY ChunkAssumption
<1>1. K \in Nat /\ K * B <= NumBytes + B - 1 /\ NumBytes + B - 1 < K * B + B
  BY <1>0, DivBounds DEF NumChunks
<1>2. q \in Nat /\ q * B <= NumBytes /\ NumBytes < q * B + B
  BY <1>0, DivBounds
<1>. HIDE DEF K, B, q
<1>3. K # 0 /\ NumBytes <= K * B
  BY <1>0, <1>1
<1>4. ASSUME NEW c \in 0 .. (K - 1) PROVE c \in Nat /\ c * B < NumBytes /\ c <= q
  <2>1. c \in Nat /\ c < K
    BY <1>1
  <2>2. c * B + B <= K * B /\ c * B \in Nat /\ K * B \in Nat
    BY <1>0, <1>1, <2>1, TimesMonotone
  <2>3. c * B < NumBytes
    BY <1>0, <1>1, <2>2
  <2>4. CASE q < c
    <3>1. q * B + B <= c * B
      BY <1>0, <1>2, <2>1, <2>4, TimesMonotone
    <3>. QED
      BY <3>1, <2>3, <1>2, <1>0, <2>2
  <2>. QED
    BY <2>1, <2>3, <2>4, <1>2
<1>5. \A c \in 0 .. (K - 1) : c \in 0 .. q
  BY <1>4, <1>2, <1>1
<1>. QED
  BY <1>1, <1>2, <1>3, <1>4, <1>5 DEF K, B, q, Chunks, ChunkIds

\* The bytes of a chunk: an interval of ChunkSize bytes, none shared with another.
LEMMA ChunkInterval ==
  ASSUME NEW c \in Chunks
  PROVE  /\ ChunkOffset(c) \in Nat /\ ChunkSize(c) \in Nat \ {0}
         /\ IsFiniteSet(ChunkBytes(c)) /\ Cardinality(ChunkBytes(c)) = ChunkSize(c)
         /\ ChunkBytes(c) \subseteq Bytes
<1>1. c \in Nat /\ ChunkOffset(c) \in Nat /\ ChunkOffset(c) < NumBytes
  BY ChunksCover, ChunkAssumption DEF ChunkOffset
<1>2. ChunkSize(c) \in Nat \ {0} /\ ChunkOffset(c) + ChunkSize(c) <= NumBytes
  BY <1>1, ChunkAssumption DEF ChunkSize
<1>3. ChunkBytes(c) = ChunkOffset(c) .. (ChunkOffset(c) + ChunkSize(c) - 1)
  BY <1>1, <1>2, ChunkAssumption DEF ChunkBytes
<1>4. /\ IsFiniteSet(ChunkBytes(c))
      /\ Cardinality(ChunkBytes(c)) = (ChunkOffset(c) + ChunkSize(c) - 1) - ChunkOffset(c) + 1
  <2>1. ChunkOffset(c) \in Int /\ ChunkOffset(c) + ChunkSize(c) - 1 \in Int
        /\ ~(ChunkOffset(c) > ChunkOffset(c) + ChunkSize(c) - 1)
    BY <1>1, <1>2
  <2>. QED
    BY <2>1, <1>3, FS_Interval
<1>. QED
  BY <1>1, <1>2, <1>4 DEF ChunkBytes, Bytes

LEMMA ChunksDisjoint ==
  ASSUME NEW c \in Chunks, NEW d \in Chunks, c # d
  PROVE  ChunkOffset(c) # ChunkOffset(d) /\ ChunkBytes(c) \cap ChunkBytes(d) = {}
<1>1. ASSUME NEW x \in Chunks, NEW y \in Chunks, x < y
      PROVE  ChunkOffset(x) # ChunkOffset(y) /\ ChunkBytes(x) \cap ChunkBytes(y) = {}
  <2>1. x \in Nat /\ y \in Nat /\ BytesPerChunk \in Nat \ {0}
    BY ChunksCover, ChunkAssumption
  <2>2. ChunkOffset(x) + BytesPerChunk <= ChunkOffset(y)
    BY <1>1, <2>1, TimesMonotone DEF ChunkOffset
  <2>3. ChunkOffset(x) \in Nat /\ ChunkOffset(y) \in Nat /\ ChunkSize(x) \in Nat
    BY ChunkInterval
  <2>4. ChunkSize(x) <= BytesPerChunk
    BY <2>1, <2>3, ChunkAssumption DEF ChunkSize
  <2>5. ASSUME NEW b \in ChunkBytes(x), b \in ChunkBytes(y) PROVE FALSE
    <3>1. b \in Int /\ b < ChunkOffset(x) + ChunkSize(x) /\ ChunkOffset(y) <= b
      BY <2>5, ChunkAssumption DEF ChunkBytes
    <3>. QED
      BY <3>1, <2>1, <2>2, <2>3, <2>4
  <2>. QED
    BY <2>1, <2>2, <2>3, <2>5
<1>2. c < d \/ d < c
  BY ChunksCover
<1>. QED
  BY <1>1, <1>2

\* Every byte is in a chunk.
LEMMA BytesInChunks ==
  ASSUME NEW b \in Bytes
  PROVE  \E c \in Chunks : b \in ChunkBytes(c)
<1>. DEFINE c == b \div BytesPerChunk
<1>0. b \in Nat /\ b < NumBytes /\ BytesPerChunk \in Nat \ {0} /\ NumBytes \in Nat
  BY ChunkAssumption DEF Bytes
<1>1. c \in Nat /\ c * BytesPerChunk <= b /\ b < c * BytesPerChunk + BytesPerChunk
  BY <1>0, DivBounds
<1>. HIDE DEF c
<1>2. c < NumChunks
  <2>1. CASE NumChunks = c
    BY <1>0, <1>1, <2>1, ChunksCover
  <2>2. CASE NumChunks < c
    <3>1. NumChunks * BytesPerChunk + BytesPerChunk <= c * BytesPerChunk
      BY <1>0, <1>1, <2>2, TimesMonotone, ChunksCover
    <3>2. NumChunks * BytesPerChunk \in Nat /\ c * BytesPerChunk \in Nat
      BY <1>0, <1>1, ChunksCover
    <3>. QED
      BY <1>0, <1>1, <3>1, <3>2, ChunksCover
  <2>. QED
    BY <2>1, <2>2, <1>1, ChunksCover
<1>3. c \in Chunks
  BY <1>1, <1>2, ChunksCover DEF Chunks
<1>4. b \in ChunkBytes(c)
  BY <1>0, <1>1, <1>3, ChunkInterval DEF ChunkBytes, ChunkOffset, ChunkSize
<1>. QED
  BY <1>3, <1>4

-----------------------------------------------------------------------------
(* ChunkedMessage::AddChunk. *)

LEMMA BytesCount == IsFiniteSet(Bytes) /\ Cardinality(Bytes) = NumBytes
<1>1. NumBytes - 1 \in Int /\ ~(0 > NumBytes - 1) /\ (NumBytes - 1) - 0 + 1 = NumBytes
  BY ChunkAssumption
<1>. QED
  BY <1>1, FS_Interval DEF Bytes

\* The count reaches the size exactly when every byte was written.
LEMMA WrittenIsFilled ==
  ASSUME NEW a \in Assemblies, AssemblyOK(a)
  PROVE  /\ a.bytes_written <= NumBytes
         /\ a.bytes_written = NumBytes <=> a.filled = Bytes
<1>1. a.filled \subseteq Bytes /\ a.bytes_written = Cardinality(a.filled)
  BY DEF Assemblies, AssemblyOK
<1>2. /\ Cardinality(a.filled) <= Cardinality(Bytes)
      /\ Cardinality(a.filled) = Cardinality(Bytes) => a.filled = Bytes
  BY <1>1, BytesCount, FS_Subset
<1>. QED
  BY <1>1, <1>2, BytesCount

\* A chunk is added once, without losing or overlapping another.
LEMMA AddChunkAdds ==
  ASSUME NEW a \in Assemblies, AssemblyOK(a), NEW c \in Chunks
  PROVE  /\ AddChunk(a, c) \in Assemblies /\ AssemblyOK(AddChunk(a, c))
         /\ a.received \subseteq AddChunk(a, c).received
         /\ ChunkOffset(c) \in AddChunk(a, c).received
<1>1. CASE ChunkOffset(c) \in a.received
  BY <1>1 DEF AddChunk
<1>2. CASE ChunkOffset(c) \notin a.received
  <2>. DEFINE n == [received |-> a.received \cup {ChunkOffset(c)},
                    bytes_written |-> a.bytes_written + ChunkSize(c),
                    filled |-> a.filled \cup ChunkBytes(c)]
  <2>0. AddChunk(a, c) = n
    BY <1>2 DEF AddChunk
  <2>1. /\ ChunkOffset(c) \in Nat /\ ChunkSize(c) \in Nat
        /\ IsFiniteSet(ChunkBytes(c)) /\ Cardinality(ChunkBytes(c)) = ChunkSize(c)
        /\ ChunkBytes(c) \subseteq Bytes
    BY ChunkInterval
  <2>2. /\ a.received \in SUBSET Nat /\ a.bytes_written \in Nat /\ a.filled \in SUBSET Bytes
    BY DEF Assemblies
  <2>3. n \in Assemblies
    BY <2>1, <2>2 DEF Assemblies
  <2>4. n.received = a.received \cup {ChunkOffset(c)}
        /\ n.bytes_written = a.bytes_written + ChunkSize(c)
        /\ n.filled = a.filled \cup ChunkBytes(c)
    OBVIOUS
  <2>. HIDE DEF n
  <2>5. n.received \subseteq {ChunkOffset(d) : d \in Chunks}
    BY <2>4 DEF AssemblyOK
  <2>6. n.filled = BytesAt(n.received)
    <3>1. \A d \in Chunks : ChunkOffset(d) \in n.received
                             <=> ChunkOffset(d) \in a.received \/ d = c
      BY <2>4, ChunksDisjoint
    <3>2. \A b : b \in BytesAt(n.received) <=> b \in BytesAt(a.received) \/ b \in ChunkBytes(c)
      BY <3>1, <2>1 DEF BytesAt
    <3>. QED
      BY <3>2, <2>4 DEF AssemblyOK
  <2>7. n.bytes_written = Cardinality(n.filled)
    <3>1. \A b \in a.filled : b \notin ChunkBytes(c)
      <4>. SUFFICES ASSUME NEW b \in a.filled, b \in ChunkBytes(c) PROVE FALSE
        OBVIOUS
      <4>1. PICK d \in Chunks : ChunkOffset(d) \in a.received /\ b \in ChunkBytes(d)
        BY DEF AssemblyOK, BytesAt
      <4>2. d # c
        BY <1>2, <4>1
      <4>. QED
        BY <4>1, <4>2, ChunksDisjoint
    <3>2. IsFiniteSet(a.filled)
      BY <2>2, BytesCount, FS_Subset
    <3>3. Cardinality(a.filled \cap ChunkBytes(c)) = 0
      <4>1. a.filled \cap ChunkBytes(c) = {}
        BY <3>1
      <4>. QED
        BY <4>1, FS_EmptySet
    <3>4. Cardinality(a.filled \cup ChunkBytes(c))
            = Cardinality(a.filled) + Cardinality(ChunkBytes(c))
                - Cardinality(a.filled \cap ChunkBytes(c))
      BY <2>1, <3>2, FS_Union
    <3>. QED
      BY <3>3, <3>4, <2>1, <2>2, <2>4 DEF AssemblyOK
  <2>. QED
    BY <2>0, <2>3, <2>4, <2>5, <2>6, <2>7 DEF AssemblyOK
<1>. QED
  BY <1>1, <1>2

\* When every chunk is there, the count has reached the size.
LEMMA AllChunksIsWhole ==
  ASSUME NEW a \in Assemblies, AssemblyOK(a), \A c \in Chunks : ChunkOffset(c) \in a.received
  PROVE  a.bytes_written = NumBytes
<1>1. Bytes \subseteq BytesAt(a.received)
  BY BytesInChunks DEF BytesAt
<1>2. a.filled = Bytes
  BY <1>1 DEF AssemblyOK, BytesAt
<1>. QED
  BY <1>2, WrittenIsFilled

LEMMA NoEntryOK ==
  /\ NoEntry \in Assemblies /\ AssemblyOK(NoEntry) /\ NoEntry.bytes_written # NumBytes
  /\ NoEntry.received = {}
<1>1. NoEntry \in Assemblies /\ NoEntry.received = {} /\ NoEntry.bytes_written = 0
      /\ NoEntry.filled = {}
  BY DEF NoEntry, Assemblies
<1>2. BytesAt({}) = {}
  BY DEF BytesAt
<1>. QED
  BY <1>1, <1>2, FS_EmptySet, ChunkAssumption DEF AssemblyOK

-----------------------------------------------------------------------------
(* The steps of the sending thread. *)

LEMMA LiveFinite == IsFiniteSet(Live) /\ Cardinality(Live) \in Nat
<1>1. IsFiniteSet(ChunkIds)
  <2>1. NumBytes \div BytesPerChunk \in Int
    BY DivBounds, ChunkAssumption
  <2>. QED
    BY <2>1, FS_Interval DEF ChunkIds
<1>. QED
  BY <1>1, FS_Subset, FS_CardinalityType DEF Live

\* The chunk chunk_idx is launched.
LEMMA LaunchStep ==
  ASSUME Inv, pc \in {"next", "wait"}, Launch, running_push' \in Nat, notified' \in BOOLEAN,
         running_push' = Cardinality(Live) + 1, running_push' <= ParallelLimit,
         UNCHANGED <<async_exception, tries, faults, assembly, data, received, stored>>
  PROVE  Inv'
<1>0. /\ chunk_idx \in Chunks /\ chunk_idx \in ChunkIds /\ chunk_idx < NumChunks
      /\ NumChunks \in Nat /\ push[chunk_idx] = "none"
      /\ chunk_idx \in Nat
  BY ChunksCover DEF Inv, Typed, Launched, Chunks
<1>1. Typed'
  BY <1>0 DEF Inv, Typed, Launch
<1>2. Launched'
  <2>1. \A c \in ChunkIds : c \in Int
    BY DivBounds, ChunkAssumption DEF ChunkIds
  <2>2. \A c \in ChunkIds : push'[c] # "none" <=> c < chunk_idx'
    BY <1>0, <2>1 DEF Inv, Typed, Launched, Launch
  <2>. QED
    BY <1>0, <2>2 DEF Inv, Typed, Launched, Launch
<1>3. Live' = Live \cup {chunk_idx} /\ chunk_idx \notin Live
  BY <1>0 DEF Inv, Typed, Live, Launch
<1>4. Cardinality(Live') = Cardinality(Live) + 1
  BY <1>3, LiveFinite, FS_AddElement
<1>5. Counted' /\ ParallelBound'
  BY <1>4, LiveFinite, ChunkAssumption DEF Counted, ParallelBound, Live, Waiting, Launch
<1>6. Assembled' /\ Whole' /\ NoneLost'
  BY <1>0 DEF Inv, Typed, Assembled, AssemblyOK, Whole, NoneLost, Launch
<1>. QED
  BY <1>1, <1>2, <1>5, <1>6 DEF Inv

LEMMA GetTokenStep == Inv /\ GetToken => Inv'
<1>. SUFFICES ASSUME Inv, GetToken PROVE Inv'
  OBVIOUS
<1>1. /\ running_push \in Nat /\ running_push = Cardinality(Live) /\ pc = "next"
      /\ running_push' = running_push + 1
  BY LiveFinite DEF Inv, Typed, Counted, Waiting, GetToken
<1>2. CASE WindowFull(running_push + 1) /\ pc' = "wait" /\ notified' = FALSE
           /\ UNCHANGED <<push, chunk_idx>>
  <2>1. Typed'
    <3>1. notified' \in BOOLEAN
      BY <1>2
    <3>. QED
      BY <1>1, <1>2, <3>1 DEF Inv, Typed, GetToken
  <2>4. Launched'
    BY <1>1, <1>2 DEF Inv, Typed, Launched, GetToken
  <2>2. Counted' /\ ParallelBound'
    BY <1>1, <1>2 DEF Inv, Counted, ParallelBound, Live, Waiting
  <2>3. Assembled' /\ Whole' /\ NoneLost'
    BY <1>2 DEF Inv, Assembled, AssemblyOK, Whole, NoneLost, GetToken
  <2>. QED
    BY <2>1, <2>2, <2>3, <2>4 DEF Inv
<1>3. CASE ~ WindowFull(running_push + 1) /\ Launch /\ UNCHANGED notified
  <2>1. running_push' <= ParallelLimit
    BY <1>1, <1>3, ChunkAssumption DEF WindowFull
  <2>2. notified' \in BOOLEAN
    BY <1>3 DEF Inv, Typed
  <2>. QED
    BY <1>1, <1>3, <2>1, <2>2, LaunchStep DEF GetToken
<1>. QED
  BY <1>2, <1>3 DEF GetToken

LEMMA WakeLaunchesStep == Inv /\ WakeLaunches => Inv'
<1>. SUFFICES ASSUME Inv, WakeLaunches PROVE Inv'
  OBVIOUS
<1>1. /\ running_push \in Nat /\ running_push = Cardinality(Live) + 1 /\ pc = "wait"
      /\ running_push' = running_push /\ running_push <= ParallelLimit
  BY LiveFinite, ChunkAssumption DEF Inv, Typed, Counted, Waiting, WakeLaunches, WindowFull
<1>2. notified' \in BOOLEAN
  BY DEF Inv, Typed, WakeLaunches
<1>. QED
  BY <1>1, <1>2, LaunchStep DEF WakeLaunches

\* The other steps of the sending thread change its place only.
LEMMA SenderMoves ==
  ASSUME Inv, WakeThrows \/ JoinThreads \/ Finished
  PROVE  Inv'
<1>0. UNCHANGED <<chunk_idx, running_push, async_exception, notified, push, tries, faults,
                  assembly, data, received, stored>>
  BY DEF WakeThrows, JoinThreads, Finished
<1>1. Typed' /\ Launched'
  BY <1>0 DEF Inv, Typed, Launched, WakeThrows, JoinThreads, Finished
<1>2. Counted' /\ ParallelBound'
  BY <1>0 DEF Inv, Counted, ParallelBound, Live, Waiting, WakeThrows, JoinThreads, Finished
<1>3. Assembled' /\ Whole' /\ NoneLost'
  BY <1>0 DEF Inv, Assembled, AssemblyOK, Whole, NoneLost
<1>. QED
  BY <1>1, <1>2, <1>3 DEF Inv

-----------------------------------------------------------------------------
(* The steps of the push threads and of the peer. *)

\* A live push changes its state: those of the others, the count and the place
\* of the sending thread are as before.
LEMMA PushMoves ==
  ASSUME Inv, NEW c \in Live, NEW new \in {"flying", "reassembling", "served", "failed"},
         push' = [push EXCEPT ![c] = new],
         UNCHANGED <<pc, chunk_idx, running_push, async_exception>>
  PROVE  Launched' /\ Counted' /\ ParallelBound'
<1>0. /\ c \in ChunkIds /\ push[c] \notin {"none", "ended"}
      /\ push \in [ChunkIds -> {"none", "flying", "reassembling", "served", "failed", "ended"}]
      /\ push'[c] = new /\ \A d \in ChunkIds : d # c => push'[d] = push[d]
  BY DEF Live, Inv, Typed
<1>1. Launched'
  BY <1>0 DEF Inv, Launched
<1>2. Live' = Live
  BY <1>0 DEF Live
<1>. QED
  BY <1>1, <1>2 DEF Inv, Counted, ParallelBound, Live, Waiting

LEMMA LiveIsChunk ==
  ASSUME Inv, NEW c \in ChunkIds, push[c] # "none"
  PROVE  c \in Chunks
  BY ChunksCover, DivBounds, ChunkAssumption DEF Inv, Typed, Launched, ChunkIds

LEMMA OnPushDoneStep ==
  ASSUME Inv, NEW c \in ChunkIds, PushDone(c) \/ PushFails(c)
  PROVE  Inv'
<1>. DEFINE failed == push[c] = "failed"
<1>0. /\ push[c] \in {"served", "failed"} /\ pc # "terminated"
      /\ push' = [push EXCEPT ![c] = "ended"] /\ running_push' = running_push - 1
      /\ async_exception' = (async_exception \/ failed) /\ notified' = TRUE
      /\ UNCHANGED <<pc, chunk_idx, tries, faults, assembly, data, received, stored>>
  BY DEF PushDone, PushFails, OnPushDone, Alive
<1>1. Live' = Live \ {c} /\ c \in Live
  BY <1>0 DEF Inv, Typed, Live
<1>2. Cardinality(Live') = Cardinality(Live) - 1 /\ Cardinality(Live') \in Nat
  BY <1>1, LiveFinite, FS_RemoveElement, FS_CardinalityType
<1>3. Counted' /\ ParallelBound'
  <2>1. Cardinality(Live) \in Nat /\ Cardinality(Live) <= ParallelLimit
    BY LiveFinite DEF Inv, ParallelBound, Live
  <2>2. Waiting' = Waiting /\ Waiting \in Nat
    BY <1>0 DEF Waiting
  <2>3. Counted'
    BY <1>0, <1>2, <2>1, <2>2 DEF Inv, Counted
  <2>. QED
    BY <1>2, <2>1, <2>3, ChunkAssumption DEF ParallelBound, Live
<1>4. Typed'
  <2>1. async_exception' \in BOOLEAN /\ notified' \in BOOLEAN
    BY <1>0
  <2>2. running_push' \in Nat
    BY <1>0, <1>2, <1>3 DEF Counted, Waiting
  <2>3. push' \in [ChunkIds -> {"none", "flying", "reassembling", "served", "failed", "ended"}]
    BY <1>0 DEF Inv, Typed
  <2>. QED
    BY <1>0, <2>1, <2>2, <2>3 DEF Inv, Typed
<1>5. Launched'
  BY <1>0 DEF Inv, Typed, Launched
<1>6. Assembled' /\ Whole'
  BY <1>0 DEF Inv, Typed, Assembled, AssemblyOK, Whole
<1>7. NoneLost'
  <2>1. \A d \in ChunkIds : d # c => push'[d] = push[d]
    BY <1>0 DEF Inv, Typed
  <2>2. push'[c] = "ended"
    BY <1>0 DEF Inv, Typed
  <2>. QED
    BY <1>0, <2>1, <2>2 DEF Inv, NoneLost
<1>. QED
  BY <1>3, <1>4, <1>5, <1>6, <1>7 DEF Inv

LEMMA LinkFaultStep ==
  ASSUME Inv, NEW c \in ChunkIds, LinkFault(c)
  PROVE  Inv'
<1>. DEFINE new == IF tries[c] < MaxRetry THEN "flying" ELSE "failed"
<1>0. /\ push[c] \in {"flying", "served"} /\ push' = [push EXCEPT ![c] = new]
      /\ faults' = faults + 1 /\ faults < MaxFaults
      /\ tries' = [tries EXCEPT ![c] = IF tries[c] < MaxRetry THEN @ + 1 ELSE @]
      /\ UNCHANGED <<pc, chunk_idx, running_push, async_exception, notified, assembly,
                     data, received, stored>>
  BY DEF LinkFault
<1>1. c \in Live /\ new \in {"flying", "failed"}
  BY <1>0 DEF Live
<1>. HIDE DEF new
<1>2. Launched' /\ Counted' /\ ParallelBound'
  BY <1>0, <1>1, PushMoves
<1>3. Typed'
  BY <1>0, <1>1, ChunkAssumption DEF Inv, Typed
<1>4. Assembled' /\ Whole' /\ NoneLost'
  BY <1>0, <1>1 DEF Inv, Typed, Assembled, AssemblyOK, Whole, NoneLost
<1>. QED
  BY <1>2, <1>3, <1>4 DEF Inv

LEMMA OnChunkStep ==
  ASSUME Inv, NEW c \in ChunkIds, OnChunk(c)
  PROVE  Inv'
<1>. DEFINE a == AddChunk(assembly, c)
<1>0. /\ push[c] = "flying" /\ c \in Live /\ c \in Chunks
      /\ UNCHANGED <<pc, chunk_idx, running_push, async_exception, notified, tries,
                     faults, received, stored>>
  BY LiveIsChunk DEF OnChunk, Live
<1>1. /\ a \in Assemblies /\ AssemblyOK(a) /\ ChunkOffset(c) \in a.received
      /\ assembly.received \subseteq a.received
  BY <1>0, AddChunkAdds DEF Inv, Typed, Assembled
<1>2. CASE /\ a.bytes_written = NumBytes /\ assembly' = NoEntry
           /\ data' = [data EXCEPT ![c] = a.filled]
           /\ push' = [push EXCEPT ![c] = "reassembling"]
  <2>1. a.filled = Bytes
    BY <1>1, <1>2, WrittenIsFilled
  <2>. HIDE DEF a
  <2>2. Launched' /\ Counted' /\ ParallelBound'
    BY <1>0, <1>2, PushMoves
  <2>3. Typed'
    BY <1>0, <1>2, <2>1, NoEntryOK DEF Inv, Typed
  <2>4. Assembled'
    BY <1>2, NoEntryOK DEF Assembled
  <2>5. Whole' /\ NoneLost'
    BY <1>0, <1>2, <2>1 DEF Inv, Typed, Whole, NoneLost
  <2>. QED
    BY <2>2, <2>3, <2>4, <2>5 DEF Inv
<1>3. CASE /\ a.bytes_written # NumBytes /\ assembly' = a
           /\ push' = [push EXCEPT ![c] = "served"] /\ UNCHANGED data
  <2>. HIDE DEF a
  <2>2. Launched' /\ Counted' /\ ParallelBound'
    BY <1>0, <1>3, PushMoves
  <2>3. Typed'
    BY <1>0, <1>1, <1>3 DEF Inv, Typed
  <2>4. Assembled'
    BY <1>1, <1>3 DEF Assembled
  <2>5. Whole' /\ NoneLost'
    BY <1>0, <1>1, <1>3 DEF Inv, Typed, Whole, NoneLost
  <2>. QED
    BY <2>2, <2>3, <2>4, <2>5 DEF Inv
<1>. QED
  BY <1>2, <1>3 DEF OnChunk

LEMMA ReassembleStep ==
  ASSUME Inv, NEW c \in ChunkIds, Reassemble(c)
  PROVE  Inv'
<1>0. /\ push[c] = "reassembling" /\ c \in Live
      /\ push' = [push EXCEPT ![c] = "served"]
      /\ received' = TRUE
      /\ stored' = IF received THEN stored ELSE Append(stored, data[c])
      /\ UNCHANGED <<pc, chunk_idx, running_push, async_exception, notified, tries,
                     faults, assembly, data>>
  BY DEF Reassemble, Live
<1>1. data[c] = Bytes /\ stored \in Seq(SUBSET Bytes)
  BY <1>0 DEF Inv, Whole, Typed
<1>2. /\ stored' \in Seq(SUBSET Bytes) /\ Len(stored') = 1
      /\ \A n \in 1 .. Len(stored') : stored'[n] = Bytes
  <2>1. CASE received
    BY <1>0, <1>1, <2>1 DEF Inv, Whole
  <2>2. CASE ~ received
    <3>1. Len(stored) = 0
      BY <2>2 DEF Inv, Whole
    <3>2. stored' = Append(stored, Bytes)
      BY <1>0, <1>1, <2>2
    <3>. QED
      BY <1>1, <3>1, <3>2
  <2>. QED
    BY <2>1, <2>2
<1>3. Launched' /\ Counted' /\ ParallelBound'
  BY <1>0, PushMoves
<1>4. Typed'
  <2>1. received' \in BOOLEAN
    BY <1>0
  <2>2. push' \in [ChunkIds -> {"none", "flying", "reassembling", "served", "failed", "ended"}]
    BY <1>0 DEF Inv, Typed
  <2>. QED
    BY <1>0, <1>2, <2>1, <2>2 DEF Inv, Typed
<1>5. Assembled' /\ NoneLost'
  BY <1>0 DEF Inv, Assembled, AssemblyOK, NoneLost
<1>6. Whole'
  BY <1>0, <1>2 DEF Inv, Typed, Whole
<1>. QED
  BY <1>3, <1>4, <1>5, <1>6 DEF Inv

-----------------------------------------------------------------------------
LEMMA InvInit == Init => Inv
<1>. SUFFICES ASSUME Init PROVE Inv
  OBVIOUS
<1>1. Typed
  <2>1. /\ async_exception \in BOOLEAN /\ notified \in BOOLEAN /\ received \in BOOLEAN
        /\ stored \in Seq(SUBSET Bytes)
    BY EmptySeq DEF Init
  <2>. QED
    BY <2>1, NoEntryOK, ChunksCover, ChunkAssumption DEF Init, Typed
<1>2. Launched
  BY ChunksCover, DivBounds, ChunkAssumption DEF Init, Launched, ChunkIds
<1>3. Cardinality(Live) = 0
  <2>1. Live = {}
    BY DEF Init, Live
  <2>. QED
    BY <2>1, FS_EmptySet
<1>4. Counted /\ ParallelBound
  BY <1>3, ChunkAssumption DEF Counted, ParallelBound, Live, Waiting, Init
<1>5. Assembled /\ Whole /\ NoneLost
  BY NoEntryOK DEF Init, Assembled, Whole, NoneLost
<1>. QED
  BY <1>1, <1>2, <1>4, <1>5 DEF Inv

LEMMA InvStep == Inv /\ [Next]_vars => Inv'
<1>. SUFFICES ASSUME Inv, [Next]_vars PROVE Inv'
  OBVIOUS
<1>1. CASE SenderNext
  BY <1>1, GetTokenStep, WakeLaunchesStep, SenderMoves DEF SenderNext
<1>2. ASSUME NEW c \in ChunkIds, PushNext(c) \/ LinkFault(c) PROVE Inv'
  BY <1>2, OnPushDoneStep, OnChunkStep, ReassembleStep, LinkFaultStep DEF PushNext
<1>3. CASE UNCHANGED vars
  BY <1>3 DEF vars, Inv, Typed, Launched, Counted, ParallelBound, Live, Waiting, Assembled,
              AssemblyOK, Whole, NoneLost
<1>. QED
  BY <1>1, <1>2, <1>3 DEF Next, Over

LEMMA InvAlways == Spec => []Inv
<1>. QED
  BY InvInit, InvStep, PTL DEF Spec

\* Every variable keeps its type, and the counters stay within the number of
\* chunks (channel.cc, SendChunked and SendChunkedWindow).
THEOREM ChunkedSendTypeOK == Spec => []TypeOK
<1>1. Inv => TypeOK
  <2>. SUFFICES ASSUME Inv PROVE TypeOK
    OBVIOUS
  <2>1. Live \subseteq 0 .. (chunk_idx - 1) /\ chunk_idx \in Nat
    BY ChunksCover, DivBounds, ChunkAssumption DEF Inv, Typed, Launched, Live, ChunkIds
  <2>2. IsFiniteSet(0 .. (chunk_idx - 1)) /\ Cardinality(0 .. (chunk_idx - 1)) = chunk_idx
    <3>1. CASE chunk_idx = 0
      <4>1. 0 .. (chunk_idx - 1) = {}
        BY <3>1
      <4>. QED
        BY <3>1, <4>1, FS_EmptySet
    <3>2. CASE chunk_idx # 0
      <4>1. chunk_idx - 1 \in Int /\ ~(0 > chunk_idx - 1) /\ (chunk_idx - 1) - 0 + 1 = chunk_idx
        BY <2>1, <3>2
      <4>. QED
        BY <4>1, FS_Interval
    <3>. QED
      BY <3>1, <3>2
  <2>3. Cardinality(Live) <= chunk_idx
    BY <2>1, <2>2, FS_Subset
  <2>4. running_push \in 0 .. NumChunks
    BY <2>1, <2>3, LiveFinite, ChunksCover DEF Inv, Typed, Launched, Counted, Waiting
  <2>5. assembly.bytes_written \in 0 .. NumBytes
    BY WrittenIsFilled, ChunkAssumption DEF Inv, Typed, Assembled, Assemblies
  <2>. QED
    BY <2>4, <2>5 DEF Inv, Typed, TypeOK, Bytes
<1>. QED
  BY <1>1, InvAlways, PTL

\* Whatever is repeated or reordered, the peer stores the message at most once,
\* and whole (channel.cc, OnChunkedMessage and OnMessage).
THEOREM ChunkedSendWholeMessageOnce == Spec => []WholeMessageOnce
<1>1. Inv => WholeMessageOnce
  BY DEF Inv, Typed, Whole, WholeMessageOnce, Bytes
<1>. QED
  BY <1>1, InvAlways, PTL

\* The window holds for every number of chunks (channel.cc, GetToken and
\* OnPushDone).
THEOREM ChunkedSendParallelBound == Spec => []ParallelBound
<1>1. Inv => ParallelBound
  BY DEF Inv
<1>. QED
  BY <1>1, InvAlways, PTL

\* A return of SendChunked without a failed push means that the peer has the
\* message, although its last chunks may have been answered before it was stored
\* (channel.cc, SendChunked).
THEOREM ChunkedSendReturnMeansStored == Spec => []ReturnMeansStored
<1>1. Inv => ReturnMeansStored
  <2>. SUFFICES ASSUME Inv, ~ async_exception
                PROVE  (pc = "returned" => stored # <<>>) /\ pc # "terminated"
    BY DEF ReturnMeansStored
  <2>1. pc # "terminated"
    BY DEF Inv, Launched
  <2>2. ASSUME pc = "returned" PROVE stored # <<>>
    <3>1. \A c \in Chunks : c \in ChunkIds /\ push[c] = "ended"
      BY <2>2, ChunksCover DEF Inv, Typed, Launched
    <3>2. \A c \in ChunkIds : push[c] # "reassembling"
      BY <2>2 DEF Inv, Launched
    <3>3. ~ received => \A c \in Chunks : ChunkOffset(c) \in assembly.received
      BY <3>1, <3>2 DEF Inv, NoneLost
    <3>4. received
      BY <3>3, AllChunksIsWhole DEF Inv, Typed, Assembled
    <3>. QED
      BY <3>4 DEF Inv, Whole
  <2>. QED
    BY <2>1, <2>2
<1>. QED
  BY <1>1, InvAlways, PTL
=============================================================================
