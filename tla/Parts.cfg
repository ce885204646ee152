SPECIFICATION PartsSpec
CONSTANTS
    FrameWidth = 3
    FrameHeight = 2
    Threshold = 50
    IdleParts = 4
    Frames <- MCFrames
    MaxGop = 3
    Word = 4295
    Estimates = {0, 7, 8, 2400, 5400}
    Agreed = {{"AV1", "lossless"}, {"HEVC", "lossless"}, {}}
    MaxMissed = 2
    Low = 20
    High = 26
    Start = 22
    Limits = {20, 26}
    Window = 10
    HistoryMax = 2
    SeqNos = 3
    Rates = {0, 3, 8, 20}
    Sizes = {1, 3, 12}
    TokenUnit = 8
    BurstTicks = 10
    MaxElapsed = 11
    MaxOversleep = 2
    LowSize = 3
    MediumSize = 4
    HighSize = 2
    Parities = 2
    Groups = 2
    MaxBlock = 5
    MaxPaths = 3
    Delays = {0, 1, 3}
    PerPath = 2
    Packets = 3
    Inits = 3
    Lengths = {0, 1, 3}
    Mishaps = 3
    Modulus = 1024
    Offsets <- MCOffsets
    MaxDelay = 6
    MaxPackets = 3
    MaxFound = 3
    MaxServers = 3
INVARIANTS
    MergedSound
    VerdictSound
    KeyframeInTime
    ClientCanDecode
    BurstBounded
    OneLossDetermined
    OffsetClose
    DecoderBalanced
    EntriesExist
PROPERTIES
    RateRecovers
    WaitEnds
    EveryPathHeard
    AudioFlows
    WriteReturns
CHECK_DEADLOCK FALSE
