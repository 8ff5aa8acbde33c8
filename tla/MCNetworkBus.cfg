SPECIFICATION BusSpec
CONSTANTS
    NMsg = 1
    NSig = 1
    Field = {1}
    Raw = {0, 1, 2, 3, 4}
    Phys = {0, 2, 4, 6, 8, 9}
    FrameId <- MCFrameId
    MuxId <- MCMuxId
    CycleTime <- MCCycleTime
    Contained = {}
    SigMsg <- MCSigMsg
    SigField <- MCSigField
    SigName <- MCSigName
    Internal = {}
    MuxMarked = {}
    InitValue <- MCInitValue
    ConstValue <- MCInitValue
    Sv = {"radius"}
    Checksum = {0, 1, 2, 3, 4, 5}
    StepSize = {1000}
    TickMod = 2
    RxFrame <- MCRxFrame
    MaxRx = 1
    NetOff = {FALSE}
    Enc <- MCEnc
    Dec <- MCDec
    InRange <- MCInRange
    Carries <- MCCarries
    Selector <- MCSelector
    Hash <- MCHash
    Encoded <- MCEncoded
    Accepted <- MCAccepted
    MayLose = TRUE
    Calm = 4
INVARIANTS
    Quiesce
    Agreement
