SPECIFICATION CodecSpec
CONSTANTS
    Msg <- MCSigned
    Members <- MCMembers
    Width <- MCWidth
    SignBit <- MCSignBit
    Length <- StubLength
    Cases <- MuxCases
    Default = "default"
    Selector <- MCSelector
    Case <- MCCase
    PackRows <- MCPackRows
    UnpackRows <- MCUnpackRows
    Signal <- MCSignalFull
    Encode <- StubEncode
    Local <- StubLocal
    InRange <- StubInRange
    Bits <- StubBits
    Decode <- StubDecode
    Resolution <- MCResolution
INVARIANT RangeMarshalled
