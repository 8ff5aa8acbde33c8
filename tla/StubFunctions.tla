--------------------------- MODULE StubFunctions ----------------------------
(* The message functions of the stub example (functions/counters.c and     *)
(* functions/crc.c) on a payload of PayloadLen bytes.                      *)
EXTENDS Integers

CONSTANTS
    PayloadLen,   \* payload_len
    ByteMod       \* number of values of a byte (256 in the code)

ASSUME ByteAssumption == PayloadLen \in Nat /\ ByteMod \in Nat /\ ByteMod > 1

(* The sum of all bytes but the one at position, in uint8_t arithmetic. *)
SumWithout(p, position) ==
    LET sum[i \in 0 .. PayloadLen] ==
            IF i = 0 THEN 0
            ELSE IF i = position THEN sum[i - 1]
            ELSE (sum[i - 1] + p[i]) % ByteMod
    IN  sum[PayloadLen]

(* Definitions marked "fault" stand for a plausible mistake in the next one. *)
CounterHeld(p, position) == p                               \* fault
counter_inc_uint8(p, position) == [p EXCEPT ![position] = (@ + 1) % ByteMod]

CrcOfAll(p, position) ==                                    \* fault
    [p EXCEPT ![position] = (@ + SumWithout(p, position)) % ByteMod]
crc_generate(p, position) == [p EXCEPT ![position] = SumWithout(p, position)]

(* FALSE is EBADMSG. *)
crc_validate(p, position) ==
    (p[position] - SumWithout(p, position)) % ByteMod = 0
=============================================================================
