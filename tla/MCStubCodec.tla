---------------------------- MODULE MCStubCodec -----------------------------
(* The message library of the stub network.  A signal takes the bounds of  *)
(* its range, the values next to them inside and outside, and one between  *)
(* two raw values; int64_signal takes the bounds of 16 bits instead.       *)
EXTENDS BitCodec, StubCodec

MCMembers(m) == DOMAIN Struct(m)
MCWidth(f) == Member[f].width
MCSignBit(f) == Member[f].sign
MCSelector(m) == IF m = "mux_message" THEN "header_id"
                 ELSE CHOOSE f \in DOMAIN Struct(m) : TRUE
MCCase(m, b) ==
    IF m # "mux_message" THEN "default"
    ELSE CASE b = StubBits("header_id", 601) -> "601"
           [] b = StubBits("header_id", 602) -> "602"
           [] OTHER -> "default"

MCPackRows(m, c) == StubPackRows[m, c]
MCUnpackRows(m, c) == StubUnpackRows[m, c]

(* Values an encode function does not truncate. *)
Exact(f, raws) == {r * Member[f].scale + Member[f].offset : r \in raws}

MCSignal(f) ==
    CASE f \in Floats -> {100, 200}
      [] f = "header_id" -> Exact(f, {0, 601, 602, 16777215, 16777216})
      [] f = "temperature" -> Exact(f, {-2049, -2048, -1, 2047})
      [] f \in {"enable", "schedule_signal"} -> {50, 100, 200}
      [] f \in {"average_radius", "radius"} -> {30, 105, 510}
      [] f \in {"crc", "alive", "foo", "bar", "header_dlc"} -> {17050}
      [] f = "u_int8_signal" -> Exact(f, {250, 251})
      [] f = "u_int16_signal" -> Exact(f, {1000, 1001})
      [] f = "u_int32_signal" -> Exact(f, {40000, 40001})
      [] f = "u_int64_signal" -> Exact(f, {800000, 800001})
      [] f = "int8_signal" -> Exact(f, {-128, 127})
      [] f = "int16_signal" -> Exact(f, {-2502, -2501, 2500})
      [] f = "int32_signal" -> Exact(f, {-210001, 210000, 210001})
      [] f = "int64_signal" -> Exact(f, {-32768, -1, 32767})

(* The bounds of the range stub.h gives for int64_signal. *)
MCSigned == {"signed_types"}
MCSignalFull(f) ==
    IF f = "int64_signal" THEN Exact(f, {-900001, 900000}) ELSE MCSignal(f)

MCResolution(f) == IF f \in Floats THEN 0 ELSE Member[f].scale

-----------------------------------------------------------------------------
(* "Range: -900001..900000 (-900001..900000 int64)": marshalling a signal  *)
(* that is in its range writes this value to the member.                   *)
RangeMarshalled ==
    \A f \in Members(msg) :
        Distance(Decode(f, src[f]), taken[f]) <= Resolution(f)
=============================================================================
