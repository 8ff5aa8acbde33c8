SPECIFICATION CodecSpec
CONSTANTS
    Msg <- Messages
    Members <- MCMembers
    Width <- MCWidth
    SignBit <- MCSignBit
    Length <- StubLength
    Cases <- MuxCases
    Default = "default"
    Selector <- MCSelector
    Case <- MCCase
    PackRows <- MCPackRows
    UnpackRows <- MCUnpackRows
    Signal <- MCSignal
    Encode <- StubEncode
    Local <- StubLocal
    InRange <- StubInRange
    Bits <- StubBits
    Decode <- StubDecode
    Resolution <- MCResolution
PROPERTIES
    CodecKeepsLink
    Accurate
