---------------------------- MODULE MCNetworkBus ----------------------------
(* Two nodes that share an event message with a signal of limited range    *)
(* whose codec loses units, like temperature of the stub network.          *)
EXTENDS NetworkBus

MCFrameId == <<496>>
MCMuxId == <<0>>
MCCycleTime == <<0>>
MCSigMsg == <<1>>
MCSigField == <<1>>
MCSigName == <<"radius">>
MCInitValue == <<0>>

(* The raw values 0 to 3 stand for 600 to 603 of temperature, whose codec  *)
(* truncates a floating point quotient that may be just below an integer:  *)
(* decoded and encoded again, 603 becomes 602, then 601, then 600, which   *)
(* survives.  No value of temperature loses more than three units so.  Raw *)
(* value 4, which only a signal of 9 gives, is out of range.               *)
MCEnc(s, v) == IF v = 0 THEN 0 ELSE (v - 1) \div 2
MCDec(s, r) == 2 * r
MCInRange(s, r) == r <= 3
MCCarries(m, f, x) == TRUE
MCSelector(m) == 1
MCHash(p) == p[1] + 1
MCEncoded(m, p) == p
MCAccepted(m, p) == TRUE
MCRxFrame == [id : {496}, payload : [Field -> Raw], short : {FALSE}]
=============================================================================
