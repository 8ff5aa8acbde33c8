SPECIFICATION FairSpec
CONSTANTS
    NMsg = 2
    NSig = 2
    Field = {1}
    Raw = {0, 1, 2}
    Phys = {0, 1, 2, 5}
    FrameId <- MCFrameId
    MuxId <- MCMuxId
    CycleTime <- MCCycleTime
    Contained = {}
    SigMsg <- MCSigMsg
    SigField <- MCSigField
    SigName <- MCSigName
    Internal = {}
    MuxMarked = {}
    InitValue <- MCInitValue
    ConstValue <- MCInitValue
    Sv <- MCSv
    Checksum = {0, 1, 2, 3}
    StepSize = {1000}
    TickMod = 3
    RxFrame <- MCRxFrame
    MaxRx = 2
    NetOff = {TRUE, FALSE}
    Enc <- MCEnc
    Dec <- MCDec
    InRange <- MCInRange
    Carries <- MCCarries
    Selector <- MCSelector
    Hash <- MCHash
    Encoded <- MCEncoded
    Accepted <- MCAccepted
INVARIANTS
    TypeOK
    BusAgrees
    NoEcho
    SilentWhenOff
PROPERTIES
    ScheduleKept
    CyclicAlwaysSent
