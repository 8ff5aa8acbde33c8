---------------------------- MODULE MCFunctions -----------------------------
(* The message function_example of the stub network: a crc at byte 1, an   *)
(* alive counter at byte 2, a value at byte 3.  Encode functions are       *)
(* counter_inc_uint8 and then crc_generate, the decode function is         *)
(* crc_validate.  The crc is not in the signal channel.  A byte has three  *)
(* values.                                                                 *)
EXTENDS FunctionNetwork

MCProtected == {1}
MCCrcAt == <<1>>
MCAliveAt == <<2>>
MCFrameId == <<498>>
MCMuxId == <<0>>
MCCycleTime == <<0>>
MCSigMsg == <<1, 1, 1>>
MCSigField == <<1, 2, 3>>
MCSigName == <<"crc", "alive", "foo">>
MCSv == {"alive", "foo"}
MCInitValue == <<0, 0, 0>>

(* The signals have scale 1; the cast to uint8_t wraps. *)
MCEnc(s, v) == v % 3
MCDec(s, r) == r
MCInRange(s, r) == TRUE
MCCarries(m, f, x) == TRUE
MCSelector(m) == 1
MCHash(p) == 1 + p[1] + 3 * p[2] + 9 * p[3]
MCEncoded(m, p) == crc_generate(counter_inc_uint8(p, 2), 1)
MCAccepted(m, p) == crc_validate(p, 1)

MCFrame(p) == [id |-> 498, payload |-> p, short |-> FALSE]
(* Two frames with a correct crc and one with a wrong one. *)
MCRxFrame == {MCFrame(<<2, 1, 1>>), MCFrame(<<1, 0, 1>>), MCFrame(<<0, 1, 1>>)}

-----------------------------------------------------------------------------
(* crc.c: "in the decode path (RX), bad messages (function returns         *)
(* EBADMSG) will not change corresponding signals".                        *)
BadCrcIgnored ==
    \A m \in heard \cap Protected : pc = "begin_ticks" => crc_validate(bus[m], CrcAt[m])

(* counters.c: "in the encode path, changes to the counter are not         *)
(* reflected in the corresponding signal".                                 *)
EncodePath == {"pack", "apply_encode", "encode", "update"}

CounterNotReflected ==
    [][(pc \in EncodePath)
           => \A s \in AliveSignals : AliveCounter(s)' = AliveCounter(s)]_vars
=============================================================================
