---------------------------- MODULE NetworkLoad -----------------------------
(***************************************************************************)
(* The life of a network model around model_step: model_create (model.c),  *)
(* network_load and network_unload (network.c) with what they call in      *)
(* parser.c, loader.c, engine.c and schedule.c, and model_destroy.         *)
(*                                                                         *)
(* The code runs in sequence; pc names the function that is next.  What    *)
(* varies is the network description and what the two libraries export.    *)
(* log_fatal ends the process (pc "exited"); a step whose behaviour C does *)
(* not define leads to pc "undefined".                                     *)
(*                                                                         *)
(* A definition marked "fault" is the definition after it with a plausible *)
(* mistake; the specification does not use it.                             *)
(***************************************************************************)
EXTENDS Integers, Sequences, FiniteSets
LOCAL INSTANCE FiniteSetsExt

CONSTANTS
    Docs,           \* network descriptions: NULL, or sequences of messages
    MessageLibs,    \* what message libraries export; NULL without a path
    FunctionLibs,   \* what function libraries export
    NULL

(* A description lists its messages, and its annotations are unsigned      *)
(* integers.                                                               *)
ASSUME DocsAssumption ==
    \A d \in Docs \ {NULL} :
        /\ Len(d) \in Nat /\ DOMAIN d = 1 .. Len(d)
        /\ \A m \in DOMAIN d : /\ d[m].struct_size \in Nat
                               /\ d[m].frame_length \in Nat
                               /\ d[m].cycle_time_ms \in Nat

VARIABLES
    pc,             \* the next function, or "created", or how it ended
    doc,            \* the messages of the Network document, NULL without one
    message_lib,    \* what is found at the paths of the document
    function_lib,
    messages,       \* n->messages, perhaps NULL
    codec,          \* per signal <<m, k>>, the slot of its codec functions
    pack_func,      \* messages with these functions
    unpack_func,
    function,       \* functions <<list, m, k>> that are loaded
    marshal_list,   \* the signals <<m, k>> of the MarshalItems; they are in
                    \*   the order of the description
    mux_signal,     \* per message, its mux signal or 0
    signal_name,
    schedule_list,  \* messages of the schedule
    heap,           \* what is allocated
    wild            \* history: something was freed that is not allocated

inputs    == <<doc, message_lib, function_lib>>
libVars   == <<codec, pack_func, unpack_func, function>>
listVars  == <<marshal_list, mux_signal, signal_name>>
loadVars  == <<pc, inputs, messages, libVars, listVars, schedule_list, heap,
               wild>>

LoadInit ==
    /\ pc = "channels"
    /\ doc \in Docs
    /\ message_lib \in MessageLibs /\ function_lib \in FunctionLibs
    /\ messages = NULL
    /\ codec = <<>> /\ pack_func = {} /\ unpack_func = {} /\ function = {}
    /\ marshal_list = {} /\ mux_signal = <<>> /\ signal_name = <<>>
    /\ schedule_list = {}
    /\ heap = {} /\ wild = FALSE

-----------------------------------------------------------------------------
(* Lists that are terminated by an item without a name. *)

Messages == IF messages = NULL THEN {} ELSE DOMAIN messages
Signals(m) == {<<m, k>> : k \in DOMAIN messages[m].signals}
Signal(s) == messages[s[1]].signals[s[2]]

NamedSignals(m) ==
    {s \in Signals(m) : \A k \in 1 .. s[2] : Signal(<<m, k>>).name # NULL}

Functions(list, m) ==
    {<<list, m, k>> : k \in DOMAIN (IF list = "encode"
                                    THEN messages[m].encode_functions
                                    ELSE messages[m].decode_functions)}
Function(f) == IF f[1] = "encode" THEN messages[f[2]].encode_functions[f[3]]
                                  ELSE messages[f[2]].decode_functions[f[3]]

AllNamed == UNION {NamedSignals(m) : m \in Messages}
AllFunctions ==
    UNION {Functions("encode", m) \cup Functions("decode", m) : m \in Messages}

Allocate(S) == heap' = heap \cup S /\ UNCHANGED wild
Free(S) == heap' = heap \ S /\ wild' = (wild \/ ~(S \subseteq heap))

-----------------------------------------------------------------------------
(* parser.c *)

_parse_signals(signals) ==
    [k \in DOMAIN signals |->
        [signal_name |-> signals[k].signal,
         name        |-> signals[k].struct_member_name,
         member_type |-> signals[k].struct_member_primitive_type,
         internal    |-> signals[k].internal,
         mux_signal  |-> signals[k].mux_signal]]

(* uint8_t and uint16_t members take the low bits of an annotation. *)
NarrowedCycle(t) == t % 2 ^ 8                               \* fault
Narrowed(t) == t % 2 ^ 16

_parse_messages ==
    [m \in DOMAIN doc |->
        [name             |-> doc[m].message,
         buffer_len       |-> doc[m].struct_size,
         payload_len      |-> doc[m].frame_length % 2 ^ 8,
         cycle_time_ms    |-> Narrowed(doc[m].cycle_time_ms),
         container        |-> doc[m].container,
         signals          |-> _parse_signals(doc[m].signals),
         encode_functions |-> doc[m].encode,
         decode_functions |-> doc[m].decode]]

(* The allocations of one message. *)
Buffers(m) == (IF messages[m].buffer_len > 0 THEN {<<"buffer", m>>} ELSE {})
         \cup (IF messages[m].payload_len > 0 THEN {<<"payload", m>>} ELSE {})
SignalList(S, m) == {<<"signals", m>>} \cup {<<"signal_name", s>> : s \in S}
FunctionList(list, m) ==
    {<<list, m>>} \cup {<<"name", f>> : f \in Functions(list, m)}
FunctionData(list, m) == {<<"data", f>> : f \in Functions(list, m)} \cap heap

Parsed == {<<"messages">>} \cup
    UNION {Buffers(m) \cup SignalList(Signals(m), m)
           \cup FunctionList("encode", m) \cup FunctionList("decode", m) :
               m \in Messages}

(* Without a path of the message library, _network_match_handler gives up, *)
(* and network_parse ignores that.                                         *)
network_parse ==
    /\ pc = "parse"
    /\ pc' = "message_lib"
    /\ IF doc = NULL \/ message_lib = NULL
       THEN UNCHANGED <<messages, heap, wild>>
       ELSE messages' = _parse_messages /\ Allocate(Parsed')
    /\ UNCHANGED <<inputs, libVars, listVars, schedule_list>>

-----------------------------------------------------------------------------
(* loader.c *)

network_load_message_lib ==
    /\ pc = "message_lib"
    /\ pc' \in {"function_lib", "exited"}
    /\ UNCHANGED <<inputs, messages, libVars, listVars, schedule_list, heap,
                   wild>>

network_load_function_lib ==
    /\ pc = "function_lib"
    /\ pc' \in {"function_funcs", "exited"}
    /\ UNCHANGED <<inputs, messages, libVars, listVars, schedule_list, heap,
                   wild>>

network_load_function_funcs ==
    /\ pc = "function_funcs"
    /\ IF \E f \in AllFunctions : Function(f).function \notin function_lib
       THEN pc' = "exited" /\ UNCHANGED function
       ELSE pc' = "signal_funcs" /\ function' = AllFunctions
    /\ UNCHANGED <<inputs, messages, codec, pack_func, unpack_func, listVars,
                   schedule_list, heap, wild>>

(* A contained message is served by the functions of its container.        *)
Library(m) == IF messages[m].container # NULL THEN messages[m].container
                                              ELSE messages[m].name

Exports(s) ==
    \A kind \in {"encode", "decode", "is_in_range"} :
        <<Library(s[1]), Signal(s).name, kind>> \in message_lib

SlotSigned(type) ==                                         \* fault
    CASE type \in {"int8_t", "uint8_t"} -> "int8"
      [] type \in {"int16_t", "uint16_t"} -> "int16"
      [] type \in {"int32_t", "uint32_t"} -> "int32"
      [] type = "int64_t" -> "int64"
      [] type \in {"float", "double"} -> type
      [] OTHER -> "none"
Slot(type) ==
    CASE type \in {"int8_t", "uint8_t"} -> "int8"
      [] type \in {"int16_t", "uint16_t"} -> "int16"
      [] type \in {"int32_t", "uint32_t"} -> "int32"
      [] type \in {"int64_t", "uint64_t"} -> "int64"
      [] type \in {"float", "double"} -> type
      [] OTHER -> "none"

Before(s, t) == s[1] < t[1] \/ (s[1] = t[1] /\ s[2] < t[2])

(* The first signal that is not right decides: one without its functions   *)
(* is fatal, the name of a type that is missing is read all the same.      *)
network_load_signal_funcs ==
    /\ pc = "signal_funcs"
    /\ LET bad == {s \in AllNamed : ~Exports(s) \/ Signal(s).member_type = NULL}
       IN  IF bad # {}
           THEN /\ \E s \in bad :
                       /\ \A t \in bad \ {s} : Before(s, t)
                       /\ pc' = IF Exports(s) THEN "undefined" ELSE "exited"
                /\ UNCHANGED codec
           ELSE /\ pc' = "message_funcs"
                /\ codec' = [s \in AllNamed |-> Slot(Signal(s).member_type)]
    /\ UNCHANGED <<inputs, messages, pack_func, unpack_func, function,
                   listVars, schedule_list, heap, wild>>

(* A message without pack or unpack function is only reported. *)
network_load_message_funcs ==
    /\ pc = "message_funcs"
    /\ pc' = "marshal_lists"
    /\ pack_func' = {m \in Messages : <<Library(m), "pack">> \in message_lib}
    /\ unpack_func' =
           {m \in Messages : <<Library(m), "unpack">> \in message_lib}
    /\ UNCHANGED <<inputs, messages, codec, function, listVars, schedule_list,
                   heap, wild>>

-----------------------------------------------------------------------------
(* engine.c and schedule.c *)

(* The loop over the messages: at one without struct_size it advances      *)
(* twice, so that it reaches the message after a run of them if the run    *)
(* has an even length.  The terminator is the message Len(messages) + 1.   *)
Unsized(m) == m \in Messages /\ messages[m].buffer_len = 0

Reached(m) ==
    LET run == {k \in 1 .. m - 1 : \A j \in k .. m - 1 : Unsized(j)}
    IN  Cardinality(run) % 2 = 0

PastTerminator == messages # NULL /\ ~Reached(Len(messages) + 1)

Marshalled(m) == IF Reached(m) /\ ~Unsized(m) THEN NamedSignals(m) ELSE {}

network_load_marshal_lists ==
    /\ pc = "marshal_lists"
    /\ IF PastTerminator
       THEN pc' = "undefined" /\ UNCHANGED <<listVars, heap, wild>>
       ELSE /\ pc' = "signal_names"
            /\ marshal_list' = UNION {Marshalled(m) : m \in Messages}
            /\ mux_signal' =
                   [m \in Messages |->
                        Max({0} \cup {s[2] : s \in {t \in Marshalled(m) :
                                                        Signal(t).mux_signal}})]
            /\ Allocate({<<"marshal_list">>})
            /\ UNCHANGED signal_name
    /\ UNCHANGED <<inputs, messages, libVars, schedule_list>>

network_get_signal_names ==
    /\ pc = "signal_names"
    /\ pc' = "schedule"
    /\ signal_name' =
           [s \in marshal_list |->
                IF Signal(s).internal THEN "" ELSE Signal(s).signal_name]
    /\ Allocate({<<"signal_names">>, <<"signal_vector">>})
    /\ UNCHANGED <<inputs, messages, libVars, marshal_list, mux_signal,
                   schedule_list>>

network_schedule_reset ==
    /\ pc = "schedule"
    /\ pc' = "signal"
    /\ IF messages = NULL THEN UNCHANGED <<schedule_list, heap, wild>>
       ELSE /\ schedule_list' = {m \in Messages : messages[m].cycle_time_ms > 0}
            /\ Allocate({<<"schedule_list">>})
    /\ UNCHANGED <<inputs, messages, libVars, listVars>>

-----------------------------------------------------------------------------
(* model.c *)

(* The channels, and later the network signal and its codec, are there or  *)
(* the model ends.                                                         *)
Locate(here, next) ==
    /\ pc = here
    /\ pc' \in {next, "exited"}
    /\ UNCHANGED <<inputs, messages, libVars, listVars, schedule_list, heap,
                   wild>>
LocateChannels == Locate("channels", "parse")
LocateSignal == Locate("signal", "mapping")

(* The functions the engine calls for a member, without asking for them.   *)
MarshalSlot(type) ==
    CASE type = "uint8_t" -> "int8"   [] type = "int8_t" -> "int8"
      [] type = "uint16_t" -> "int16" [] type = "int16_t" -> "int16"
      [] type = "uint32_t" -> "int32" [] type = "int32_t" -> "int32"
      [] type = "uint64_t" -> "int64" [] type = "int64_t" -> "int64"
      [] type = "float" -> "float"    [] type = "double" -> "double"
      [] OTHER -> "none"

MarshalDefined ==
    \A s \in marshal_list :
        MarshalSlot(Signal(s).member_type) \in {codec[s], "none"}

(* A pack function reads the members of its struct, unless the payload is  *)
(* too short; a frame of 8 bytes holds any struct described here.          *)
NoStruct(m) == Unsized(m) /\ messages[m].signals # <<>>
PackDefined ==
    \A m \in pack_func : NoStruct(m) => messages[m].payload_len < 8

(* The mapping and the initial values; marshalling and packing once.       *)
CreateMapping ==
    /\ pc = "mapping"
    /\ pc' = IF MarshalDefined /\ PackDefined THEN "created" ELSE "undefined"
    /\ Allocate({<<"sr_map">>})
    /\ UNCHANGED <<inputs, messages, libVars, listVars, schedule_list>>

(* The functions of the stub example refuse a call without a payload       *)
(* (EINVAL) or without the annotation position (EPROTO), and the error     *)
(* ends the process.  Else the first call keeps instance data.             *)
Callable(f) == /\ messages[f[2]].payload_len > 0
               /\ Function(f).position # NULL

(* A step: a frame that arrives is unpacked by the function of its         *)
(* message, message functions are called, and both loops over the messages *)
(* start at n->messages.  More frames and calls have the effect of more    *)
(* steps.                                                                  *)
AtMostOne(S) == {{}} \cup {{x} : x \in S}

model_step ==
    /\ pc = "created"
    /\ \E received \in AtMostOne(Messages), called \in AtMostOne(function) :
          /\ pc' = IF \/ messages = NULL
                      \/ ~(received \subseteq {m \in unpack_func : ~NoStruct(m)})
                   THEN "undefined"
                   ELSE IF \A f \in called : Callable(f) THEN "created"
                                                         ELSE "exited"
          /\ Allocate({<<"data", f>> : f \in called})
    /\ UNCHANGED <<inputs, messages, libVars, listVars, schedule_list>>

model_destroy ==
    /\ pc = "created"
    /\ pc' = "unload_parser"
    /\ Free({<<"sr_map">>})
    /\ UNCHANGED <<inputs, messages, libVars, listVars, schedule_list>>

-----------------------------------------------------------------------------
(* network_unload.  _free_signals ends at an item without a signal_name,   *)
(* not at one without a name.                                              *)
FreedNamed(m) == NamedSignals(m)                            \* fault
FreedSignals(m) == Signals(m)

network_unload_parser ==
    /\ pc = "unload_parser"
    /\ pc' = "unload_marshal_lists"
    /\ Free((UNION {SignalList(FreedSignals(m), m) \cup Buffers(m)
                    \cup FunctionList("encode", m) \cup FunctionData("encode", m)
                    \cup FunctionList("decode", m) \cup FunctionData("decode", m)
                        : m \in Messages})
            \cup (IF messages = NULL THEN {} ELSE {<<"messages">>}))
    /\ UNCHANGED <<inputs, messages, libVars, listVars, schedule_list>>

network_unload_marshal_lists ==
    /\ pc = "unload_marshal_lists"
    /\ pc' = "unload"
    /\ Free({<<"marshal_list">>})
    /\ UNCHANGED <<inputs, messages, libVars, listVars, schedule_list>>

network_unload ==
    /\ pc = "unload"
    /\ pc' = "destroyed"
    /\ Free({<<"signal_names">>, <<"signal_vector">>}
            \cup (IF messages = NULL THEN {} ELSE {<<"schedule_list">>}))
    /\ UNCHANGED <<inputs, messages, libVars, listVars, schedule_list>>

network_load ==
    \/ network_parse \/ network_load_message_lib \/ network_load_function_lib
    \/ network_load_function_funcs \/ network_load_signal_funcs
    \/ network_load_message_funcs \/ network_load_marshal_lists
    \/ network_get_signal_names

LoadNext ==
    \/ LocateChannels \/ network_load \/ network_schedule_reset
    \/ LocateSignal \/ CreateMapping \/ model_step \/ model_destroy
    \/ network_unload_parser \/ network_unload_marshal_lists
    \/ network_unload

LoadSpec == LoadInit /\ [][LoadNext]_loadVars

-----------------------------------------------------------------------------
(* A description with the annotations the loops and casts need, and a      *)
(* library for it.                                                         *)
Described ==
    /\ doc # NULL /\ message_lib # NULL
    /\ \A m \in DOMAIN doc :
          LET owner == IF doc[m].container = NULL THEN doc[m].message
                                                  ELSE doc[m].container
          IN  /\ doc[m].struct_size > 0
              /\ {<<owner, "pack">>, <<owner, "unpack">>} \subseteq message_lib
              /\ \A k \in DOMAIN doc[m].signals :
                     doc[m].signals[k].struct_member_primitive_type # NULL

(* What the loader sets up is what the engine and the decoder use: with    *)
(* such a description a model is refused when it is created, or it calls   *)
(* no function it has not loaded and reads no list past its end, whichever *)
(* members have which of the types and whatever frames arrive.             *)
Runnable == Described => pc # "undefined"

(* A model that is created and destroyed frees all it has allocated, the   *)
(* instance data of functions included, and nothing twice, whichever lists *)
(* an incomplete description cuts short.                                   *)
Released == /\ ~wild
            /\ pc = "destroyed" => heap = {}

(* An annotation that fits 16 bits (a cycle time) or 8 bits (a length)     *)
(* arrives: the message is scheduled with its period and has a payload.    *)
Annotated ==
    pc = "created" =>
        \A m \in Messages :
            /\ doc[m].cycle_time_ms < 2 ^ 16 =>
                   /\ m \in schedule_list <=> doc[m].cycle_time_ms > 0
                   /\ messages[m].cycle_time_ms = doc[m].cycle_time_ms
            /\ doc[m].frame_length \in 1 .. 2 ^ 8 - 1 =>
                   <<"payload", m>> \in heap

(* "Next message.": a message without struct_size is passed over, and the  *)
(* signals of the message after it are marshalled like all others.         *)
SizedMarshalled ==
    pc = "created" =>
        \A m \in Messages :
            ~Unsized(m) => NamedSignals(m) \subseteq marshal_list

(* "Network load failed!": a model whose network was not loaded is not     *)
(* created.                                                                *)
LoadFailureFatal == pc = "created" => messages # NULL
=============================================================================
