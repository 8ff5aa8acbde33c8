---------------------------- MODULE MCContainer -----------------------------
(* A container message with a mux signal and two contained messages, as    *)
(* mux_message, mux_message_601 and mux_message_602 of the stub network.   *)
(* The three share a struct: a header, and one member per mux id.          *)
EXTENDS NetworkModel

Header == 1
MCFrameId == <<600, 600, 600>>
MCMuxId == <<0, 1, 2>>
MCCycleTime == <<0, 0, 0>>
MCSigMsg == <<1, 2, 2, 3, 3>>
MCSigField == <<Header, Header, 2, Header, 3>>
MCSigName == <<"header", "", "foo", "", "bar">>
MCSv == {"header", "foo"}
MCInitValue == <<0, 0, 0, 0, 0>>
MCConstValue == <<0, 1, 0, 2, 0>>

MCEnc(s, v) == v % 4
MCDec(s, r) == r
(* No header above 2; the member of signal 3 is limited to 0 and 1. *)
MCInRange(s, r) == r <= IF s = 3 THEN 1 ELSE 2
MCCarries(m, f, x) == f = Header \/ f = x + 1
MCSelector(m) == Header
MCHash(p) == 1 + p[1] + 4 * p[2] + 16 * p[3]
MCChecksum == 0 .. 64

(* The struct_size of network.yaml, 16: the last member of the struct,     *)
(* bar_float at offset 16, is not part of the checksum.                    *)
ShortHash(p) == 1 + p[1] + 4 * p[2]
BarSv == {"header", "bar"}
MCEncoded(m, p) == p
MCAccepted(m, p) == TRUE

MCFrame(id, p, short) == [id |-> id, payload |-> p, short |-> short]
MCRxFrame ==
    {MCFrame(600, <<1, 1, 0>>, FALSE), MCFrame(600, <<1, 2, 0>>, FALSE),
     MCFrame(600, <<2, 0, 1>>, FALSE), MCFrame(600, <<0, 0, 0>>, FALSE),
     MCFrame(600, <<3, 0, 0>>, FALSE), MCFrame(600, <<2, 0, 1>>, TRUE)}
=============================================================================
