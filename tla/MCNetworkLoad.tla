--------------------------- MODULE MCNetworkLoad ----------------------------
(* Descriptions of up to three messages, each like one of the examples or  *)
(* with an annotation missing or too large.                                *)
EXTENDS NetworkLoad

MCSignal(name, type) ==
    [signal |-> name, struct_member_name |-> name,
     struct_member_primitive_type |-> type, internal |-> FALSE,
     mux_signal |-> FALSE]
MCMessage(name, signals) ==
    [message |-> name, struct_size |-> 8, frame_length |-> 8,
     cycle_time_ms |-> 0, container |-> NULL, signals |-> signals,
     encode |-> <<>>, decode |-> <<>>]

Radius == MCSignal("radius", "uint8_t")
Counter == MCSignal("counter", "uint64_t")
HeaderId == MCSignal("header_id", "uint32_t")
FooDouble == MCSignal("foo_double", "double")

Call(name, position) == [function |-> name, position |-> position]

Functions3 == [MCMessage("function", <<Radius, Counter>>) EXCEPT
                   !.encode = <<Call("counter_inc", 1), Call("crc_generate", 0)>>,
                   !.decode = <<Call("crc_validate", 0)>>]
Unplaced == [Functions3 EXCEPT !.encode = <<Call("counter_inc", NULL)>>]
Cyclic == [MCMessage("cyclic", <<MCSignal("level", "int16_t")>>) EXCEPT
               !.cycle_time_ms = 300]
Large == [MCMessage("large", <<Radius>>) EXCEPT
              !.cycle_time_ms = 65546, !.frame_length = 256,
              !.decode = <<Call("crc_validate", 0)>>]
Mux == MCMessage("mux", <<[HeaderId EXCEPT !.mux_signal = TRUE]>>)
Mux601 == [MCMessage("mux_601", <<[HeaderId EXCEPT !.internal = TRUE],
                                  FooDouble>>) EXCEPT !.container = "mux"]
Unsized1 == [MCMessage("unsized", <<>>) EXCEPT !.struct_size = 0]
Unsized2 == [Unsized1 EXCEPT !.signals = <<Radius>>]
Nameless == MCMessage("nameless",
                <<Radius, [Radius EXCEPT !.struct_member_name = NULL], Counter>>)
Flag == MCMessage("flag", <<MCSignal("flag", "bool")>>)
Untyped == MCMessage("untyped", <<MCSignal("untyped", NULL)>>)

Complete == {Functions3, Cyclic, Large, Mux, Mux601}
Incomplete == {Unplaced, Unsized1, Unsized2, Nameless, Flag, Untyped}

MCDocs == {NULL} \cup [1 .. 1 -> Complete \cup Incomplete]
          \cup [1 .. 2 -> Complete \cup Incomplete]
          \cup [1 .. 3 -> {Functions3, Mux, Mux601, Unsized1, Nameless}]

(* Descriptions without, and with, the documented network. *)
MCDocsUnsized == [1 .. 2 -> {Functions3, Cyclic, Unsized1}]
MCDocsMissing == {NULL, <<Functions3>>, <<Cyclic>>, <<Mux, Mux601>>}

Codec(m, members) ==
    {<<m, "pack">>, <<m, "unpack">>}
    \cup {<<m, f, kind>> : f \in members, kind \in {"encode", "decode", "is_in_range"}}

FullLib ==
    Codec("function", {"radius", "counter"}) \cup Codec("cyclic", {"level"})
    \cup Codec("large", {"radius"}) \cup Codec("mux", {"header_id", "foo_double"})
    \cup Codec("unsized", {"radius"}) \cup Codec("nameless", {"radius", "counter"})
    \cup Codec("flag", {"flag"}) \cup Codec("untyped", {"untyped"})

(* Libraries without a pack, an unpack or a codec function. *)
MCMessageLibs ==
    {NULL, FullLib, FullLib \ {<<"unsized", "pack">>, <<"cyclic", "unpack">>},
     FullLib \ {<<"mux", "foo_double", "is_in_range">>}}
MCMessageLibsFull == {FullLib}
MCMessageLibsMissing == {NULL, FullLib}

MCFunctionLibs == {{}, {"counter_inc", "crc_generate", "crc_validate"}}
=============================================================================
