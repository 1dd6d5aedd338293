-------------------------------- MODULE Drbg --------------------------------
(* rand/drbg/native_factory.cc, rand/entropy_source, rand/ossl_provider:    *)
(* the SM4 generator that counts its outputs and seeds itself again, the    *)
(* entropy sources it draws on, and the OpenSSL provider around them.       *)
(* Random bytes are left out; the sizes of buffers and the places written   *)
(* in them are kept.                                                        *)
EXTENDS Integers, Sequences, FiniteSets, SequencesExt, FiniteSetsExt, Scenario

CONSTANTS DrbgInterval,     \* reseed_interval_ctr, 1024 in the code
          DrbgCalls         \* calls on the OpenSSL provider

kBlockSize == 16
kKeySize == 16
kSeedlen == 32
kMinEntropyBits == 256

-----------------------------------------------------------------------------
(* Entropy sources: the bytes returned for a number of bits.  RdSeed is the *)
(* first choice where the CPU has the instruction; for a vendor it does not *)
(* know it returns nothing, urandom throws for 0 bits (written -1).         *)
EntropySources == {"urandom", "intel", "amd", "other_cpu"}
RdSeedBytes(vendor, bits) ==
    IF bits = 0 \/ vendor = "other_cpu" THEN 0
    ELSE IF vendor = "intel" THEN (((bits * 5 + 2) \div 3) + 7) \div 8
    ELSE (((bits * 10 + 2) \div 3) + 7) \div 8
UrandomBytes(bits) == LET n == (bits + 7) \div 8 IN IF n = 0 THEN -1 ELSE n
GetEntropy(source, bits) == IF source = "urandom" THEN UrandomBytes(bits) ELSE RdSeedBytes(source, bits)

(* EntropyBatches of 8 (rdseed) or 4 (urandom) bytes: where each goes.             *)
BatchSize(source) == IF source = "urandom" THEN 4 ELSE 8
EntropyBatchesWhole(source, n) == {<<i * BatchSize(source), BatchSize(source)>> : i \in 0 .. ((n + BatchSize(source) - 1) \div BatchSize(source)) - 1}
EntropyBatches(source, n) ==
    LET size == BatchSize(source)
    IN  {<<i * size, Min({n - (i * size), size})>> : i \in 0 .. ((n + size - 1) \div size) - 1}

-----------------------------------------------------------------------------
(* Sm4Drbg.  An access is <<size of the buffer, first byte, bytes>>.        *)
DeriveMacs(out_len) == CHOOSE n \in 1 .. 64 : n * kBlockSize >= kKeySize + out_len /\ (n - 1) * kBlockSize < kKeySize + out_len
(* EVP_CipherUpdate: without a place for the number of bytes written it     *)
(* refuses and writes nothing.  (And a caller that gives one.)              *)
CipherUpdate(size, n, outl) == IF outl = "null" THEN {} ELSE {<<size, 0, n>>}
StepLCounted(size, n) == CipherUpdate(size, n, "given")
StepL(size, n) == CipherUpdate(size, n, "null")
DeriveNoLastBit(n) == {<<8 + n, 8 + kSeedlen, 1>>}
Derive(n) ==
    LET s == 4 + 4 + n + 1
        temp == DeriveMacs(kSeedlen) * kBlockSize
    IN  {<<s, 0, 8>>, <<s, 8, n>>, <<s, 8 + kSeedlen, 1>>}          \* l and n, the input, the last bit
        \union {<<kSeedlen, 0, 4>>}                                    \* iv[0 .. 3]
        \union {<<kSeedlen + kSeedlen, i * kBlockSize, kBlockSize>> : i \in 0 .. ((2 * kSeedlen) \div kBlockSize) - 1}   \* cbc_mac
        \union {<<temp, 0, kKeySize>>, <<temp, kKeySize, kSeedlen>>}   \* k and x
        \union StepL(kBlockSize, kSeedlen)        \* all of x into each block of the result, the outcome not looked at
        \union {<<(kSeedlen \div kBlockSize) * kBlockSize, 0, kSeedlen>>}                  \* the result
RngUpdate(n) ==
    {<<kSeedlen, i * kBlockSize, kBlockSize>> : i \in 0 .. (kSeedlen \div kBlockSize) - 1}
        \union {<<n, 0, kSeedlen>>, <<kSeedlen, 0, 16>>, <<kSeedlen, 16, 16>>}

(* Instantiate xors the two hashes into the first 32 bytes of the entropy.  *)
Instantiate(source) ==
    LET n == GetEntropy(source, kMinEntropyBits)
    IN  [ok |-> TRUE, acc |-> {<<n, 0, 16>>, <<n, 16, 16>>} \union Derive(n) \union RngUpdate(kSeedlen)]
ReSeedDoubled(source) == [ok |-> GetEntropy(source, kMinEntropyBits) = 2 * kSeedlen, acc |-> {}]
ReSeed(source) ==
    LET n == GetEntropy(source, kMinEntropyBits)
    IN  [ok |-> n = kSeedlen, acc |-> Derive(n) \union (IF n = kSeedlen THEN RngUpdate(kSeedlen) ELSE {})]

DueLate(ctr) == ctr > DrbgInterval + 1
Due(ctr) == ctr > DrbgInterval
Generate(len) ==
    /\ st.kind = "drbg"
    /\ LET seed == IF Due(st.ctr) THEN ReSeed(st.source) ELSE [ok |-> TRUE, acc |-> {}]
       IN  Step("drbg",
                IF len > kBlockSize THEN [st EXCEPT !.last = "throws", !.len = len, !.acc = {}]
                ELSE IF ~seed.ok THEN [st EXCEPT !.last = "throws", !.len = len, !.acc = seed.acc]
                ELSE [st EXCEPT !.ctr = (IF Due(@) THEN 1 ELSE @) + 1, !.since = (IF Due(st.ctr) THEN 0 ELSE @) + 1,
                        !.served = Min({@ + 1, DrbgInterval + 1}), !.last = "served", !.len = len,
                        !.acc = seed.acc \union {<<kSeedlen, 0, kBlockSize>>, <<kSeedlen, 0, len>>} \union RngUpdate(kSeedlen)])
NativeFill == \E len \in {0, 8, kBlockSize, kBlockSize + 1} : Generate(len)
NativeReSeed ==
    /\ st.kind = "drbg"
    /\ LET seed == ReSeed(st.source)
       IN  Step("drbg", IF ~seed.ok THEN [st EXCEPT !.last = "reseed throws", !.len = 0, !.acc = seed.acc]
                        ELSE [st EXCEPT !.ctr = 1, !.since = 0, !.last = "reseeded", !.len = 0, !.acc = seed.acc])

-----------------------------------------------------------------------------
(* The provider: generate and get_seed work on an instantiated context.     *)
(* generate passes its length in bytes on as a number of bits.              *)
ProviderCallSticky(what, len) == [state |-> IF what = "instantiate" THEN "ready" ELSE st.state, ret |-> IF st.state = "ready" THEN 1 ELSE 0]
ProviderCall(what, len) ==
    CASE what = "instantiate" -> [state |-> "ready", ret |-> 1]
      [] what = "uninstantiate" -> [state |-> "uninitialised", ret |-> 1]
      [] what = "reseed" -> [state |-> st.state, ret |-> IF st.state = "ready" THEN 1 ELSE 0]
      [] what = "get_seed" -> [state |-> st.state, ret |-> IF st.state = "ready" THEN len ELSE 0]
      [] what = "generate" -> [state |-> st.state,
                               ret |-> IF st.state # "ready" THEN 0 ELSE IF GetEntropy(st.source, len) = len THEN 1 ELSE -1]
ProviderStep ==
    /\ st.kind = "provider" /\ st.calls < DrbgCalls
    /\ \E what \in {"instantiate", "uninstantiate", "reseed", "get_seed", "generate"}, len \in {0, 1, 16, 48} :
         LET r == ProviderCall(what, len)
         IN  Step("drbg", [st EXCEPT !.state = r.state, !.calls = @ + 1, !.log = Append(@, <<what, len, r.ret>>)])

DrbgInit ==
    \/ \E source \in EntropySources :
         Start("drbg", [kind |-> "drbg", source |-> source, ctr |-> 1, since |-> 0, served |-> 0, last |-> "instantiated",
                        len |-> 0, acc |-> Instantiate(source).acc])
    \/ \E source \in EntropySources : Start("drbg", [kind |-> "provider", source |-> source, state |-> "uninitialised", calls |-> 0, log |-> <<>>])
    \/ \E source \in EntropySources \ {"other_cpu"}, bits \in 1 .. 300 :
         LET n == GetEntropy(source, bits)
         IN  Start("drbg", [kind |-> "entropy", source |-> source, bits |-> bits, n |-> n, batches |-> EntropyBatches(source, n)])
DrbgNext == part = "drbg" /\ (NativeFill \/ NativeReSeed \/ ProviderStep)

-----------------------------------------------------------------------------
(* The generator gives at most reseed_interval_ctr outputs from one         *)
(* seeding, however requests that throw, requests for nothing and explicit  *)
(* ReSeeds are mixed.                                                       *)
SeedingsNotTooFarApart == part = "drbg" /\ st.kind = "drbg" => st.since <= DrbgInterval

(* Every request of up to a block is served and every ReSeed succeeds, past *)
(* any number of intervals, with a source that gives 32 bytes for 256 bits. *)
(* RdSeed gives more, ReSeed refuses that size, and nothing is said of what *)
(* is served with it past the first interval.                               *)
ServesWhileSeedsFit ==
    part = "drbg" /\ st.kind = "drbg" =>
        /\ st.last = "throws" /\ st.len <= kBlockSize => st.source # "urandom" /\ st.served >= DrbgInterval
        /\ st.last = "reseed throws" => st.source # "urandom"

(* Every byte the generator reads or writes lies inside its buffer, for the *)
(* sources that return at least 32 bytes; RdSeed on a CPU of another vendor *)
(* returns none and is left out.  The last step of derive, which ciphers    *)
(* two blocks into a string of one, stays inside only because OpenSSL       *)
(* refuses the call.                                                        *)
DrbgAccessesInside ==
    part = "drbg" /\ st.kind = "drbg" /\ st.source # "other_cpu" =>
        \A a \in st.acc : a[2] + a[3] <= a[1]

(* The batches of an entropy source tile its output: every byte is written  *)
(* once and none beside it, for every number of bits.                       *)
EntropyFillsAll ==
    part = "drbg" /\ st.kind = "entropy" =>
        \A i \in 0 .. st.n + 8 :
            Cardinality({b \in st.batches : b[1] <= i /\ i < b[1] + b[2]}) = (IF i < st.n THEN 1 ELSE 0)

(* The provider hands out seed or bytes only between an instantiate and the *)
(* next uninstantiate.                                                      *)
LastOf(i, whats) == LET before == {j \in 1 .. i - 1 : st.log[j][1] \in whats} IN IF before = {} THEN 0 ELSE Max(before)
ProviderNeedsInstantiate ==
    part = "drbg" /\ st.kind = "provider" =>
        \A i \in DOMAIN st.log :
            st.log[i][1] \in {"generate", "get_seed", "reseed"} /\ st.log[i][3] # 0 =>
                LastOf(i, {"instantiate"}) > LastOf(i, {"uninstantiate"})

-----------------------------------------------------------------------------
(* experimental/sync_drbg: two parties, each with one SyncDrbg that one     *)
(* thread fills buffers from while another gives its state to the peer or   *)
(* takes the peer's.  ctx_ is external (hash_drbg): V names the stream and  *)
(* the place in it, C the stream, left how often it may still generate.     *)

CONSTANTS SyncRounds,     \* times the clients synchronise
          SyncFills,      \* calls of Fill, each of up to two batches
          SyncReseedAt    \* reseed_counter at which a reseed is required

Party == {1, 2}
Peer(p) == 3 - p
NewCtx(seed) == [V |-> <<seed, 0>>, C |-> seed, left |-> SyncReseedAt]
Generated(c) == [c EXCEPT !.V[2] = @ + 1, !.left = @ - 1]
NewFill == [pc |-> "idle", step |-> 0, batches |-> 0, filled |-> {}, asked |-> {}, read |-> <<>>, rc |-> 1]

(* A client's threads: fill is the call of Fill in progress or the last     *)
(* one, sync what the other thread waits for.  wire[p][n] is message n of p *)
(* to its peer; sent and rcvd are the numbers used, as the link counts      *)
(* them.  out is what was filled since the last sync, clean that no Fill    *)
(* was under way at any point of it and no reseed came after.               *)
NewSyncer(p) ==
    [ctx |-> NewCtx(p), flag |-> FALSE, sync |-> "idle", fill |-> NewFill, sent |-> 0, rcvd |-> 0,
     out |-> <<>>, done |-> 0, failed |-> FALSE, clean |-> TRUE]
SyncInit == Start("syncdrbg", [p |-> [p \in Party |-> NewSyncer(p)], wire |-> [p \in Party |-> <<>>], round |-> 0, sender |-> 1,
                               fills |-> 0, seeds |-> 2])

(* The round the clients are in ends when both calls are over.  The first   *)
(* sender is 1, the parties being alike.                                    *)
SyncBegin ==
    /\ st.round < SyncRounds
    /\ \A p \in Party : st.p[p].sync = "idle" /\ st.p[p].done = st.round
    /\ \E s \in IF st.round = 0 THEN {1} ELSE Party : Step("syncdrbg", [st EXCEPT !.round = @ + 1, !.sender = s])
InRound(p) == st.p[p].sync = "idle" /\ st.p[p].done < st.round
Post(p, m) == [st.wire EXCEPT ![p] = Append(@, m)]

(* SendState and RecvState, up to the Recv they wait in.                    *)
SendState(p) ==
    /\ InRound(p) /\ p = st.sender
    /\ Step("syncdrbg", [st EXCEPT !.wire = Post(p, st.p[p].ctx),
                         !.p[p] = [@ EXCEPT !.sync = "ack", !.flag = TRUE, !.sent = @ + 1, !.rcvd = @ + 1, !.out = <<>>,
                                            !.clean = st.p[p].fill.pc = "idle"]])
RecvState(p) ==
    /\ InRound(p) /\ p # st.sender
    /\ Step("syncdrbg", [st EXCEPT !.p[p] = [@ EXCEPT !.sync = "state", !.flag = TRUE, !.rcvd = @ + 1,
                                                      !.clean = st.p[p].fill.pc = "idle"]])

(* The Recv returns, or throws: the lock is released, the flag stays.  (And *)
(* one that leaves the flag when the ack came.)                             *)
Arrived(p) == Len(st.wire[Peer(p)]) >= st.p[p].rcvd
SyncAckKeeps(p) ==
    /\ st.p[p].sync = "ack" /\ Arrived(p)
    /\ Step("syncdrbg", [st EXCEPT !.p[p] = [@ EXCEPT !.sync = "idle", !.failed = FALSE, !.done = st.round]])
SyncAck(p) ==
    /\ st.p[p].sync = "ack" /\ Arrived(p)
    /\ Step("syncdrbg", [st EXCEPT !.p[p] = [@ EXCEPT !.sync = "idle", !.flag = FALSE, !.failed = FALSE, !.done = st.round]])
(* (And a deserialize that forgets V.)                                      *)
DeserializeNoV(c, m) == [m EXCEPT !.V = c.V]
Deserialize(c, m) == m
SyncState(p) ==
    /\ st.p[p].sync = "state" /\ Arrived(p)
    /\ Step("syncdrbg", [st EXCEPT !.wire = Post(p, <<"Y">>),
                         !.p[p] = [@ EXCEPT !.ctx = Deserialize(@, st.wire[Peer(p)][st.p[p].rcvd]), !.sync = "idle",
                                            !.flag = FALSE, !.failed = FALSE, !.out = <<>>, !.sent = @ + 1, !.done = st.round]])
SyncThrows(p) ==
    /\ st.p[p].sync # "idle" /\ ~Arrived(p)
    /\ Step("syncdrbg", [st EXCEPT !.p[p] = [@ EXCEPT !.sync = "idle", !.failed = TRUE, !.done = st.round]])

-----------------------------------------------------------------------------
(* Fill looks at the flag once, without the lock, and then generates batch  *)
(* by batch; it returns 0 at once for additional data of more than 32       *)
(* bytes.  gen_rnd_bytes_with_hash_drbg reads the context and writes V and  *)
(* the counter back, or fails.  (And one that does not look at the flag.)   *)
FillNoFlag(p, n, long) ==
    /\ st.fills < SyncFills /\ st.p[p].fill.pc = "idle"
    /\ Step("syncdrbg", [st EXCEPT !.fills = @ + 1,
              !.p[p].fill = [NewFill EXCEPT !.pc = "gen", !.batches = n]])
FillStart(p, n, long) ==
    /\ st.fills < SyncFills /\ st.p[p].fill.pc = "idle"
    /\ Step("syncdrbg", [st EXCEPT !.fills = @ + 1,
              !.p[p].fill = IF long \/ st.p[p].flag THEN [NewFill EXCEPT !.rc = 0, !.batches = n]
                            ELSE [NewFill EXCEPT !.pc = "gen", !.batches = n]])
FillRead(p) ==
    /\ st.p[p].fill.pc = "gen"
    /\ Step("syncdrbg", [st EXCEPT !.p[p].fill.read = st.p[p].ctx,
              !.p[p].fill.pc = IF st.p[p].ctx.left = 0 THEN "reseed" ELSE "write"])
FillError(p) ==
    /\ st.p[p].fill.pc = "gen"
    /\ Step("syncdrbg", [st EXCEPT !.p[p].fill.pc = "idle", !.p[p].fill.rc = 0])
NextBatchSkip(f) == [f EXCEPT !.step = @ + 2, !.read = <<>>, !.pc = "idle"]
NextBatch(f) == [f EXCEPT !.step = @ + 1, !.read = <<>>, !.pc = IF f.step + 1 = f.batches THEN "idle" ELSE "gen"]
FillWrite(p) ==
    LET f == st.p[p].fill
        c == Generated(f.read)
    IN  /\ f.pc = "write"
        /\ Step("syncdrbg", [st EXCEPT !.p[p] = [@ EXCEPT !.ctx.V = c.V, !.ctx.left = c.left,
                  !.out = Append(@, <<f.read.V, f.read.C>>), !.fill = NextBatch([f EXCEPT !.filled = @ \cup {f.step}])]])

(* Reseed, which Fill calls in place of filling the batch.                  *)
FillReseed(p) ==
    LET f == st.p[p].fill
    IN  /\ f.pc = "reseed"
        /\ Step("syncdrbg", [st EXCEPT !.seeds = @ + 1,
                  !.p[p] = [@ EXCEPT !.ctx = NewCtx(st.seeds + 1), !.clean = FALSE,
                                     !.fill = NextBatch([f EXCEPT !.asked = @ \cup {f.step}])]])

(* Reseed and Fork between two calls of Fill, by the thread that fills; the *)
(* client goes on with the fork, which is a copy of the context with a flag *)
(* of its own.  Reseed throws for long additional data and changes nothing. *)
Reseed(p) ==
    /\ st.fills < SyncFills /\ st.p[p].fill.pc = "idle"
    /\ Step("syncdrbg", [st EXCEPT !.fills = @ + 1, !.seeds = @ + 1,
                         !.p[p].ctx = NewCtx(st.seeds + 1), !.p[p].clean = FALSE])
Fork(p) ==
    /\ st.fills < SyncFills /\ st.p[p].fill.pc = "idle" /\ st.p[p].sync = "idle"
    /\ Step("syncdrbg", [st EXCEPT !.fills = @ + 1, !.p[p].flag = FALSE])

SyncNext ==
    /\ part = "syncdrbg"
    /\ \/ SyncBegin
       \/ \E p \in Party : \/ SendState(p) \/ RecvState(p) \/ SyncAck(p) \/ SyncState(p) \/ SyncThrows(p)
                           \/ FillRead(p) \/ FillWrite(p) \/ FillReseed(p) \/ FillError(p)
                           \/ Reseed(p) \/ Fork(p)
                           \/ \E n \in {1, 2}, long \in BOOLEAN : FillStart(p, n, long)

-----------------------------------------------------------------------------
(* Once both calls of a round returned, the two drbgs give the same bytes   *)
(* until one of them reseeds: also when Fill is called during the sync, as  *)
(* the flag turns it away, after a Fill that failed and with a fork.  A     *)
(* Fill that had passed the flag before the sync began is left out: it      *)
(* changes the context during the sync (SendState, RecvState, Fill).        *)
SyncedStreams ==
    part = "syncdrbg" /\ st.round > 0 /\ (\A p \in Party : st.p[p].done = st.round /\ ~st.p[p].failed /\ st.p[p].clean) =>
        \/ IsPrefix(st.p[1].out, st.p[2].out)
        \/ IsPrefix(st.p[2].out, st.p[1].out)

(* A Fill that returned 1 filled every batch.  A Fill during which the drbg *)
(* asked for a reseed, which is made in place of a batch, is left out.      *)
FillFills ==
    part = "syncdrbg" =>
        \A p \in Party : LET f == st.p[p].fill
                         IN  f.pc = "idle" /\ f.rc = 1 /\ f.asked = {} => f.filled = 0 .. f.batches - 1

(* Fill is turned away only while a sync is under way or after one that     *)
(* threw, which leaves the flag set until a later one succeeds.             *)
FlagMeansSync ==
    part = "syncdrbg" => \A p \in Party : st.p[p].flag => st.p[p].sync # "idle" \/ st.p[p].failed
=============================================================================
