-------------------------- MODULE FunctionNetwork ---------------------------
(***************************************************************************)
(* A network with messages that have the functions of the stub example:    *)
(* counter_inc_uint8 and then crc_generate encode, crc_validate decodes.   *)
(* Their struct members are single bytes, so that a member is the byte of  *)
(* the payload it is packed into.                                          *)
(***************************************************************************)
EXTENDS NetworkModel, StubFunctions

CONSTANTS
    Protected,        \* the messages with functions
    CrcAt, AliveAt    \* annotation position of the crc and of the counter

ASSUME FunctionAssumption ==
    /\ Field = 1 .. PayloadLen /\ Raw = 0 .. ByteMod - 1
    /\ Protected \subseteq Msg
    /\ CrcAt \in [Protected -> Field] /\ AliveAt \in [Protected -> Field]
    /\ \A m \in Protected :
          /\ CrcAt[m] # AliveAt[m]
          /\ \A x \in Raw : Carries(m, AliveAt[m], x)
          /\ \A p \in Content :
                /\ Encoded(m, p) =
                       crc_generate(counter_inc_uint8(p, AliveAt[m]), CrcAt[m])
                /\ Accepted(m, p) = crc_validate(p, CrcAt[m])

-----------------------------------------------------------------------------
(* Every frame of a protected message on the bus has a correct crc,        *)
(* whatever the counter, its signals and the frames received before made   *)
(* of the buffer.                                                          *)
SentCrcValid ==
    \A m \in Protected \cap DOMAIN tx : crc_validate(tx[m], CrcAt[m])

(* The alive counter moves with every frame: a frame carries the successor *)
(* of the counter that the node's signal holds when it is encoded.         *)
AliveSignals ==
    {s \in Sig : /\ SigMsg[s] \in Protected
                 /\ SigField[s] = AliveAt[SigMsg[s]]}

AliveCounter(s) == Enc(s, Outgoing(s, signal_vector))

AliveAdvances ==
    [][\A s \in AliveSignals :
          pc = "encode" /\ needs_tx[SigMsg[s]] /\ InRange(s, AliveCounter(s))
              => tx'[SigMsg[s]][SigField[s]] = (AliveCounter(s) + 1) % ByteMod]_vars
=============================================================================
