SPECIFICATION Spec
CONSTANTS
    NMsg = 3
    NSig = 5
    Field = {1, 2, 3}
    Raw = {0, 1, 2, 3}
    Phys = {0, 1, 2, 3}
    FrameId <- MCFrameId
    MuxId <- MCMuxId
    CycleTime <- MCCycleTime
    Contained = {2, 3}
    SigMsg <- MCSigMsg
    SigField <- MCSigField
    SigName <- MCSigName
    Internal = {2, 4}
    MuxMarked = {1}
    InitValue <- MCInitValue
    ConstValue <- MCConstValue
    Sv <- BarSv
    Checksum <- MCChecksum
    StepSize = {1000}
    TickMod = 2
    RxFrame <- MCRxFrame
    MaxRx = 1
    NetOff = {FALSE}
    Enc <- MCEnc
    Dec <- MCDec
    InRange <- MCInRange
    Carries <- MCCarries
    Selector <- MCSelector
    Hash <- ShortHash
    Encoded <- MCEncoded
    Accepted <- MCAccepted
INVARIANT BusAgrees
