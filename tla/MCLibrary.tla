----------------------------- MODULE MCLibrary -----------------------------
(* The parts of the library outside the link layer, and the set-up of that  *)
(* layer, each used by a client of its own.  The invariants of the parts    *)
(* are collected by what they are about.                                    *)
EXTENDS DynamicBitset, OtStore, Fields, OtExtension, Softspoken,
        SinglePointOt, Ferret, Vole, SsExecutor, Kernels, Coding, Fss, Snark,
        Io, Circuit, Prg, Drbg, Spi, Buffers, MpInt, Curves, LinkSetup,
        Schemes, EcGroups, Crypto

Init ==
    \/ BsInit
    \/ OtInit
    \/ GfInit
    \/ OteInit
    \/ SsInit
    \/ SpInit
    \/ FerretInit
    \/ KkInit
    \/ VoInit
    \/ MpcInit
    \/ SvInit
    \/ CkInit
    \/ FssInit
    \/ SnInit
    \/ LcInit
    \/ CsvInit
    \/ CcInit
    \/ TrInit
    \/ PrgInit
    \/ SyncInit
    \/ ItInit
    \/ BufInit
    \/ MpInit
    \/ PowInit
    \/ CurvesInit
    \/ SpiInit
    \/ ToyCurveInit
    \/ SetupInit
    \/ WakeupInit
    \/ VssInit
    \/ TpreInit
    \/ OprfInit
    \/ EcInit
    \/ CodecInit
    \/ DrbgInit
    \/ FldInit
    \/ MpaInit
    \/ OtkInit
    \/ IoInit
    \/ CiInit
    \/ KeyInit

Next ==
    \/ BsNext
    \/ OtNext
    \/ GfNext
    \/ OteNext
    \/ SsNext
    \/ SpNext
    \/ FerretNext
    \/ KkNext
    \/ VoNext
    \/ MpcNext
    \/ SvNext
    \/ CkNext
    \/ FssNext
    \/ SnNext
    \/ LcNext
    \/ CsvNext
    \/ CcNext
    \/ TrNext
    \/ PrgNext
    \/ SyncNext
    \/ ItNext
    \/ BufNext
    \/ MpNext
    \/ PowNext
    \/ CurvesNext
    \/ SpiNext
    \/ ToyCurveNext
    \/ SetupNext
    \/ WakeupNext
    \/ VssNext
    \/ TpreNext
    \/ OprfNext
    \/ EcNext
    \/ CodecNext
    \/ DrbgNext
    \/ FldNext
    \/ MpaNext
    \/ OtkNext
    \/ IoNext
    \/ CiNext
    \/ KeyNext

Spec == Init /\ [][Next]_scenario

-----------------------------------------------------------------------------
(* A container holds what an ideal one would after every sequence of calls: *)
(* a bitset at every block boundary, a Buffer through resizes, copies and   *)
(* moves, an Item and the views of it, an OT store and its copies, and a    *)
(* cuckoo table, which loses only the inputs it has thrown for.             *)
ContainersHold ==
    /\ BitsetHoldsBits
    /\ BitsetConsistent
    /\ BitsetQueriesRight
    /\ BitsetComparesRight
    /\ BufferKeeps
    /\ ItemMetaTrue
    /\ ItemConstKept
    /\ ItemResized
    /\ SketchAddsRight
    /\ CuckooFindable
    /\ CuckooSanity
    /\ OtCopiesAgree

(* What the two parties of a protocol hold at its end fits together at      *)
(* every index, whatever part of a batch, bin, tree or window the number    *)
(* asked for leaves over and however fast either was: OT and its            *)
(* extensions, VOLE, shares of a function, of a value or of a secret, and   *)
(* the kernels and executors on top.  What the code does not keep (a piece  *)
(* whose task failed, the earlier steps of a streamed kernel) is left out   *)
(* and named at the parts.                                                  *)
OutputsCorrelated ==
    /\ OtSlicesCorrelated
    /\ OteOutputsMatch
    /\ SsOutputsMatch
    /\ SpLeavesRight
    /\ FerretCorrelated
    /\ KkrtAgrees
    /\ VoleCorrelated
    /\ MpcSharesRight
    /\ SvolePiecesFit
    /\ FssSharesAddUp
    /\ PprfPunctured
    /\ KernelOutputsAgree
    /\ ChosenMessageArrives
    /\ OprfEvaluates
    /\ SecretRecovered

(* A check passes for what its honest maker made and for nothing else the   *)
(* model can change: consistency checks of OT and VOLE, commitments to      *)
(* shares, proofs, capsules, sealed texts, signatures and certificates.     *)
(* The edge cases in which the code refuses honest work are named at the    *)
(* parts.                                                                   *)
ChecksExact ==
    /\ KosRefusesChanged
    /\ SpCheckExact
    /\ FerretHonestPasses
    /\ VoleHonestPasses
    /\ SnarkWitnessRight
    /\ SnarkProofs
    /\ CommitsBindShares
    /\ FewSharesHideSecret
    /\ TpreOpens
    /\ DamagedCapsuleRefused
    /\ AeadOpensItsOwn
    /\ SignaturesMeetTheirKeys
    /\ SecretsReachTheHolder
    /\ CertHandsOutItsKey

(* No index, offset or length computed beforehand leads outside its buffer: *)
(* pieces of threads, messages of several bins, wrapped diagonals, derived  *)
(* seeds, packed items.  Left out are a streamed kernel whose steps do not  *)
(* divide its output and seeds of the wrong size, as named at the parts.    *)
AccessesInside ==
    /\ SsNeverThrows
    /\ VoleBuffersSuffice
    /\ SvoleInBounds
    /\ LocalIndexInRange
    /\ SilverCyclic
    /\ DrbgAccessesInside
    /\ EntropyFillsAll
    /\ PackedItemFits
    /\ VarsSizeExact

(* Randomness is handed out once, and what is made of it keeps its range    *)
(* and distribution: slices of OTs, the seeds Ferret keeps, the words of a  *)
(* Prg, a DRBG past its reseed interval, reductions, draws and shuffles.    *)
(* Values a Prg cached before a new seed, the one sum MersennePrimeMod does *)
(* not reduce and entropy sources that may throw are left out, as named at  *)
(* the parts.                                                               *)
RandomnessFresh ==
    /\ OtSlicesDisjoint
    /\ FerretSeedsNotOutput
    /\ PrgNeverRepeats
    /\ PrgOnlyStream
    /\ FillPRandChains
    /\ MersenneRight
    /\ LtNClose
    /\ RandBitsIndependent
    /\ ShuffleFair
    /\ DrawsInRange
    /\ SeedingsNotTooFarApart
    /\ ServesWhileSeedsFit
    /\ ProviderNeedsInstantiate
    /\ DerivedFromSeedAndInfo

(* What was written is read back, after any seeks, spawns and partial reads *)
(* before: numbers, points, proofs, literals, lines, rows and columns,      *)
(* circuits, and digests taken in the middle.  A row that could not be      *)
(* parsed, a point in a buffer longer than its encoding and the points a    *)
(* library takes for one another are left out, as named at the parts.       *)
ReadsBack ==
    /\ SnarkRoundTrip
    /\ CsvRowsRight
    /\ CsvColumnsRight
    /\ CsvSeekRight
    /\ CircuitReadRight
    /\ Int128Whole
    /\ MpGetRight
    /\ MpBytesRight
    /\ MpSerializeBack
    /\ LiteralsRead
    /\ PointsReadBack
    /\ EqualPointsHashAlike
    /\ MemStandsInForFile
    /\ ClosedMeansWritten
    /\ DigestOfAllUpdates
    /\ ShaInputPadded

(* The algorithms that compute by tables, windows, folds, ladders and block *)
(* swaps give what their definition says, at every edge of a word or digit, *)
(* and so do comparisons several tasks share.                               *)
ArithmeticRight ==
    /\ GfArithmeticRight
    /\ GfHashCoefficients
    /\ DebruijnRight
    /\ TablePowRight
    /\ CustomPowRight
    /\ SafePrimeRight
    /\ MpCanonical
    /\ DivAndModRight
    /\ IntrinsicArithmeticRight
    /\ EqualMeansEqual
    /\ ToyGroupLaw
    /\ ToyMulRight
    /\ ToyLadderRight
    /\ DivUndoesMul
    /\ HashLands
    /\ TransposeRight
    /\ SquaresRight
    /\ SilverSolves
    /\ LocalPrefix
    /\ CircuitEvaluates

(* Parties and threads that wait for each other go on together:             *)
(* ConnectToMesh returns with everyone up or fails for a cause, a notified  *)
(* call wakes, nobody waits for a message that is never sent, a kernel      *)
(* returns after its tasks, and two synchronised generators or cipher       *)
(* contexts stay in step.  The windows the code leaves open (a connect that *)
(* AsioLink is refused, an Abort between test and wait, a Fill under way    *)
(* when a sync starts) are left out, as named at the parts.                 *)
PartiesKeepStep ==
    /\ ConnectedMeansAllUp
    /\ GivesUpForACause
    /\ ArrivalReachesSleepers
    /\ AbortWakesSleepers
    /\ MpcNoOneWaits
    /\ SvoleReturns
    /\ SyncedStreams
    /\ FillFills
    /\ FlagMeansSync
    /\ NoEvalWithoutSetup
    /\ CipherContextsInStep

(* A call on one object changes no other, although they share memory,       *)
(* points, statics, sessions, files or names: but for the sharing the code  *)
(* leaves to its callers, which is named at the parts.                      *)
ObjectsKeepApart ==
    /\ BufferOwned
    /\ SessionsKeptApart
    /\ PointsHoldTheirValue
    /\ FieldsComputeInTheirOrder
    /\ DigitsHaveOneOwner
    /\ TempStoreIsOwn
    /\ SpawnReadsOn

(* A factory makes what was asked for with the best library that can,       *)
(* whatever the order of registration and under every name of it, and a     *)
(* library that accepts arguments can create them.  Performances of mixed   *)
(* sign are left out, as named at the part.                                 *)
RightImplementation ==
    /\ CurveNamesAgree
    /\ LibraryCurvesReachable
    /\ BestLibraryChosen
    /\ CreateAgreesWithList
    /\ EcGroupByAnyName
    /\ CreatedAsAsked
    /\ AcceptedMeansCreated
=============================================================================
