SPECIFICATION Spec
CONSTANTS
    NMsg = 1
    NSig = 3
    Field = {1, 2, 3}
    Raw = {0, 1, 2}
    Phys = {0, 1, 2}
    FrameId <- MCFrameId
    MuxId <- MCMuxId
    CycleTime <- MCCycleTime
    Contained = {}
    SigMsg <- MCSigMsg
    SigField <- MCSigField
    SigName <- MCSigName
    Internal = {}
    MuxMarked = {}
    InitValue <- MCInitValue
    ConstValue <- MCInitValue
    Sv <- MCSv
    Checksum = {0, 1, 2, 3, 4, 5, 6, 7, 8, 9, 10, 11, 12, 13, 14, 15, 16, 17,
                18, 19, 20, 21, 22, 23, 24, 25, 26, 27}
    StepSize = {1000}
    TickMod = 5
    RxFrame <- MCRxFrame
    MaxRx = 1
    NetOff = {FALSE, TRUE}
    Enc <- MCEnc
    Dec <- MCDec
    InRange <- MCInRange
    Carries <- MCCarries
    Selector <- MCSelector
    Hash <- MCHash
    Encoded <- MCEncoded
    Accepted <- MCAccepted
    PayloadLen = 3
    ByteMod = 3
    Protected <- MCProtected
    CrcAt <- MCCrcAt
    AliveAt <- MCAliveAt
PROPERTY CounterNotReflected
