SPECIFICATION Spec
CONSTANTS
    bits_per_block = 3
    U128Bits = 6
    BsMaxBits = 7
    OtBits = 2
    MaxOts = 3
    OteK = 4
    OteMax = 5
    SsMaxStep = 2
    SsSizes = {3, 8, 11}
    SpBits = 4
    SpMaxN = 6
    FeN = 16
    FeT = 2
    FeK = 3
    FeNums = {6, 9, 16, 17, 24}
    KkWidth = 4
    KkKappa = 2
    KkBatch = 4
    KkMax = 5
    VoSuper = 2
    VoSizes = {2, 3, 4, 5, 7}
    VoGap = 3
    kBits = 3
    MpcMinOts = 5
    MpcWord = 4
    SvMaxSize = 4
    SvMaxThreads = 2
    CkBins = 3
    CkInputs = 3
    CkHashes = 2
    CkStash = 1
    max_try_count = 3
    FssBits = 4
    FssM = 3
    SnOrder = 11
    kLcBatchSize = 4
    LcLanes = 4
    CsvMaxRows = 3
    CcWord = 2
    ShaBlock = 16
    ShaLen = 3
    CipherBytes = 2
    PrgCounts = 16
    PrgBatch = 4
    PrgCalls = 5
    PrgStat = 3
    SyncRounds = 2
    SyncFills = 3
    SyncReseedAt = 2
    ItemCalls = 4
    BufferCalls = 4
    HalfBits = 4
    MP_DIGIT_BIT = 6
    CHAR_BIT = 4
    MpCalls = 4
    PowDigitBits = 4
    PowDigits = 2
    PowByteBits = 4
    DeltaLimit = 16
    SpiCalls = 3
    ToyScalarMax = 40
    XPrime = 101
    XA = 6
    SetupRanks = 3
    ConnectRetries = 2
    SessionCalls = 3
    TimedWaiters = {"recv", "throttle"}
    UntimedWaiters = {"send"}
    VssTotal = 3
    TpreOrder = 7
    TpreScalars = {1, 3, 6}
    TpreProxies = 2
    OprfOrders = {3, 5}
    OprfInputs = {0, 1}
    EcN = 3
    EcScalarMax = 2
    EcPadding = 2
    EcGuard = 100
    DrbgInterval = 4
    DrbgCalls = 3
    FldPrimes = {3, 5}
    FldComposite = {9}
    FldCreations = 3
    FldOps = 2
    MpaObjectCalls = 5
    MpaMax = 6
    MpaStringMax = 4
    OtkBatch = 2
    OtkNums = {1, 3}
    OtkT = 1
    OtkCalls = 3
    IoCalls = 4
    IoTexts = {0, 1, 3}
    IoKvCalls = 7
    CiBlock = 2
    CiLimit = 4
    CiBytes = 6
    CiCalls = 6
INVARIANTS
    ContainersHold
    OutputsCorrelated
    ChecksExact
    AccessesInside
    RandomnessFresh
    ReadsBack
    ArithmeticRight
    PartiesKeepStep
    ObjectsKeepApart
    RightImplementation
CHECK_DEADLOCK FALSE
