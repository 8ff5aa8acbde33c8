--------------------------- MODULE MCNetworkModel ---------------------------
(* Two messages without functions: an event message with a scaled signal   *)
(* of limited range and a cyclic message with a plain one.                 *)
EXTENDS NetworkModel

MCFrameId == <<496, 502>>
MCMuxId == <<0, 0>>
MCCycleTime == <<0, 2>>
MCSigMsg == <<1, 2>>
MCSigField == <<1, 1>>
MCSigName == <<"radius", "schedule">>
MCSv == {"radius", "schedule"}
MCInitValue == <<0, 0>>

(* Signal 1 is scaled by 2; the cast to the member's type wraps; both *)
(* signals are limited to raw values of at most 1.                    *)
MCEnc(s, v) == (IF s = 1 THEN v \div 2 ELSE v) % 3
MCDec(s, r) == IF s = 1 THEN 2 * r ELSE r
MCInRange(s, r) == r <= 1
MCCarries(m, f, x) == TRUE
MCSelector(m) == 1
MCHash(p) == p[1] + 1
MCEncoded(m, p) == p
MCAccepted(m, p) == TRUE

MCFrame(id, r, short) == [id |-> id, payload |-> <<r>>, short |-> short]
MCRxFrame == {MCFrame(496, 1, FALSE), MCFrame(496, 2, FALSE),
              MCFrame(496, 1, TRUE), MCFrame(502, 1, FALSE),
              MCFrame(503, 1, FALSE)}
=============================================================================
