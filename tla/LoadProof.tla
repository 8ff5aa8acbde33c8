------------------------------ MODULE LoadProof ------------------------------
(***************************************************************************)
(* Proofs about NetworkLoad, for every network description and library.    *)
(***************************************************************************)
EXTENDS NetworkLoad, FiniteSetTheorems, TLAPS

USE DEF inputs, libVars, listVars

(* NULL is no list. *)
NullIsNoList == NULL # [x \in DOMAIN NULL |-> NULL[x]]

Data == {<<"data", f>> : f \in AllFunctions}

(* The lists that exist besides the messages, when pc is next. *)
Listed ==
    (IF pc \in {"signal_names", "schedule", "signal", "mapping", "created",
                "unload_parser", "unload_marshal_lists"}
     THEN {<<"marshal_list">>} ELSE {})
    \cup (IF pc \in {"schedule", "signal", "mapping", "created",
                     "unload_parser", "unload_marshal_lists", "unload"}
          THEN {<<"signal_names">>, <<"signal_vector">>} ELSE {})
    \cup (IF messages # NULL /\ pc \in {"signal", "mapping", "created",
                     "unload_parser", "unload_marshal_lists", "unload"}
          THEN {<<"schedule_list">>} ELSE {})
    \cup (IF pc = "created" THEN {<<"sr_map">>} ELSE {})

Base == Listed \cup
    (IF messages # NULL /\ pc \notin {"unload_marshal_lists", "unload",
                                      "destroyed"}
     THEN Parsed ELSE {})

(* What is allocated at every point of the life of a model: the parsed     *)
(* messages and the lists, and between creation and unloading any instance *)
(* data of functions the messages name.                                    *)
HeapInv ==
    /\ ~wild
    /\ function \subseteq AllFunctions
    /\ pc \in {"channels", "parse"} => messages = NULL
    /\ pc \notin {"exited", "undefined"} =>
           /\ Base \subseteq heap
           /\ heap \subseteq Base \cup
                  (IF pc \in {"created", "unload_parser"} THEN Data ELSE {})

-----------------------------------------------------------------------------
(* A list is none of the allocations of the messages. *)
LEMMA ListApart ==
    ASSUME NEW x \in {<<"marshal_list">>, <<"signal_names">>,
                      <<"signal_vector">>, <<"schedule_list">>, <<"sr_map">>}
    PROVE  x \notin Parsed /\ x \notin Data
  BY DEF Parsed, Data, Buffers, SignalList, FunctionList

LEMMA SameMessages ==
    ASSUME UNCHANGED messages
    PROVE  Parsed' = Parsed /\ AllFunctions' = AllFunctions /\ Data' = Data
  BY DEF Parsed, Data, AllFunctions, Buffers, SignalList, FunctionList,
         Functions, Signals, Messages

(* Without messages there is no function. *)
LEMMA NoFunctions == messages = NULL => AllFunctions = {}
  BY DEF AllFunctions, Messages

(* What network_unload_parser frees. *)
UnloadedOf(m) ==
    SignalList(FreedSignals(m), m) \cup Buffers(m)
    \cup FunctionList("encode", m) \cup FunctionData("encode", m)
    \cup FunctionList("decode", m) \cup FunctionData("decode", m)
Unloaded ==
    (UNION {UnloadedOf(m) : m \in Messages})
    \cup (IF messages = NULL THEN {} ELSE {<<"messages">>})

LEMMA UnloadedAll ==
    /\ messages # NULL => Unloaded = Parsed \cup (Data \cap heap)
    /\ messages = NULL => Unloaded = {}
  <1> DEFINE ParsedOf(m) ==
                 Buffers(m) \cup SignalList(Signals(m), m)
                 \cup FunctionList("encode", m) \cup FunctionList("decode", m)
             DataOf(m) == FunctionData("encode", m) \cup FunctionData("decode", m)
  <1>1. \A m : UnloadedOf(m) = ParsedOf(m) \cup DataOf(m)
    BY DEF UnloadedOf, FreedSignals
  <1>2. UNION {DataOf(m) : m \in Messages} = Data \cap heap
    <2>1. ASSUME NEW f
          PROVE  (\E m \in Messages : <<"data", f>> \in DataOf(m))
                     <=> f \in AllFunctions /\ <<"data", f>> \in heap
      BY DEF AllFunctions, FunctionData
    <2>2. \A m \in Messages : \A x \in DataOf(m) : \E f : x = <<"data", f>>
      BY DEF FunctionData
    <2>3. \A x \in Data : \E f \in AllFunctions : x = <<"data", f>>
      BY DEF Data
    <2> HIDE DEF DataOf
    <2>4. ASSUME NEW x \in UNION {DataOf(m) : m \in Messages}
          PROVE  x \in Data \cap heap
      <3>1. PICK m \in Messages : x \in DataOf(m)
        OBVIOUS
      <3>2. PICK f : x = <<"data", f>>
        BY <2>2, <3>1
      <3>3. QED  BY <2>1, <3>1, <3>2 DEF Data
    <2>5. ASSUME NEW x \in Data \cap heap
          PROVE  x \in UNION {DataOf(m) : m \in Messages}
      <3>1. PICK f \in AllFunctions : x = <<"data", f>>
        BY <2>3
      <3>2. \E m \in Messages : x \in DataOf(m)
        BY <2>1, <3>1
      <3>3. QED  BY <3>2
    <2>6. QED  BY <2>4, <2>5
  <1> HIDE DEF ParsedOf, DataOf
  <1> DEFINE U == UNION {UnloadedOf(m) : m \in Messages}
             P == UNION {ParsedOf(m) : m \in Messages}
             F == UNION {DataOf(m) : m \in Messages}
  <1>3. U = P \cup F
    <2> HIDE DEF UnloadedOf
    <2>1. ASSUME NEW x \in U PROVE x \in P \cup F
      <3>1. PICK m \in Messages : x \in UnloadedOf(m)
        BY Zenon
      <3>2. x \in ParsedOf(m) \/ x \in DataOf(m)
        BY <1>1, <3>1
      <3>3. QED  BY Zenon, <3>2
    <2>2. ASSUME NEW x \in P \cup F PROVE x \in U
      <3>1. PICK m \in Messages : x \in ParsedOf(m) \/ x \in DataOf(m)
        BY Zenon
      <3>2. x \in UnloadedOf(m)
        BY <1>1, <3>1
      <3>3. QED  BY Zenon, <3>2
    <2>3. QED  BY Zenon, <2>1, <2>2
  <1>4. Parsed = {<<"messages">>} \cup P
    BY Zenon DEF Parsed, ParsedOf
  <1>5. Unloaded = U \cup (IF messages = NULL THEN {} ELSE {<<"messages">>})
    BY Zenon DEF Unloaded
  <1>6. messages = NULL => U = {}
    BY Zenon DEF Messages
  <1>7. F = Data \cap heap
    BY Zenon, <1>2
  <1> HIDE DEF U, P, F
  <1>8. QED  BY <1>3, <1>4, <1>5, <1>6, <1>7

-----------------------------------------------------------------------------
LEMMA InitHeap == LoadInit => HeapInv
  BY DEF LoadInit, HeapInv, Base, Listed

LEMMA NextHeap ==
    ASSUME NullIsNoList
    PROVE  HeapInv /\ [LoadNext]_loadVars => HeapInv'
  <1> SUFFICES ASSUME HeapInv, [LoadNext]_loadVars PROVE HeapInv'
    OBVIOUS
  <1>1. CASE LocateChannels
    BY <1>1, SameMessages DEF LocateChannels, Locate, HeapInv, Base, Listed
  <1>2. CASE network_parse
    <2>1. CASE doc = NULL \/ message_lib = NULL
      BY <1>2, <2>1, SameMessages DEF network_parse, HeapInv, Base, Listed
    <2>2. CASE ~(doc = NULL \/ message_lib = NULL)
      <3>1. heap' = heap \cup Parsed' /\ wild' = wild /\ function' = function
        BY <1>2, <2>2 DEF network_parse, Allocate
      <3>2. heap = {} /\ function = {}
        BY <1>2, NoFunctions DEF network_parse, HeapInv, Base, Listed
      <3>3. pc' = "message_lib"
        BY <1>2 DEF network_parse
      <3>4. Base' = Parsed' \/ (Base' = {} /\ messages' = NULL)
        BY <3>3 DEF Base, Listed
      <3>5. messages' # NULL
        <4>1. messages' = [m \in DOMAIN messages' |-> messages'[m]]
          BY <1>2, <2>2 DEF network_parse, _parse_messages
        <4>2. QED  BY <4>1 DEF NullIsNoList
      <3>6. QED  BY <3>1, <3>2, <3>3, <3>4, <3>5 DEF HeapInv
    <2>3. QED  BY <2>1, <2>2
  <1>3. CASE network_load_message_lib \/ network_load_function_lib
    BY <1>3, SameMessages DEF network_load_message_lib,
          network_load_function_lib, HeapInv, Base, Listed
  <1>4. CASE network_load_function_funcs
    BY <1>4, SameMessages DEF network_load_function_funcs, HeapInv, Base,
          Listed
  <1>5. CASE network_load_signal_funcs \/ network_load_message_funcs
    BY <1>5, SameMessages DEF network_load_signal_funcs,
          network_load_message_funcs, HeapInv, Base, Listed
  <1>6. CASE network_load_marshal_lists
    BY <1>6, SameMessages DEF network_load_marshal_lists, Allocate, HeapInv,
          Base, Listed
  <1>7. CASE network_get_signal_names
    BY <1>7, SameMessages DEF network_get_signal_names, Allocate, HeapInv,
          Base, Listed
  <1>8. CASE network_schedule_reset
    BY <1>8, SameMessages DEF network_schedule_reset, Allocate, HeapInv,
          Base, Listed
  <1>9. CASE LocateSignal
    BY <1>9, SameMessages DEF LocateSignal, Locate, HeapInv, Base, Listed
  <1>10. CASE CreateMapping
    BY <1>10, SameMessages DEF CreateMapping, Allocate, HeapInv, Base, Listed
  <1>11. CASE model_step
    <2>1. PICK called \in AtMostOne(function) :
              heap' = heap \cup {<<"data", f>> : f \in called}
      BY <1>11 DEF model_step, Allocate
    <2>2. called \subseteq AllFunctions
      BY DEF AtMostOne, HeapInv
    <2>3. {<<"data", f>> : f \in called} \subseteq Data
      BY <2>2 DEF Data
    <2>4. /\ pc = "created" /\ pc' \in {"created", "undefined", "exited"}
          /\ UNCHANGED <<messages, function, wild>>
      BY <1>11 DEF model_step, Allocate
    <2>5. pc' = "created" => Base' = Base
      BY <2>4, SameMessages DEF Base, Listed
    <2>6. QED  BY <2>1, <2>3, <2>4, <2>5, SameMessages DEF HeapInv
  <1>12. CASE model_destroy
    <2>1. /\ pc = "created" /\ pc' = "unload_parser"
          /\ UNCHANGED <<messages, function>>
          /\ heap' = heap \ {<<"sr_map">>}
          /\ wild' = (wild \/ ~({<<"sr_map">>} \subseteq heap))
      BY <1>12 DEF model_destroy, Free
    <2>2. Base = Base' \cup {<<"sr_map">>} /\ <<"sr_map">> \notin Base'
      BY <2>1, ListApart, SameMessages DEF Base, Listed
    <2>3. QED  BY <2>1, <2>2, SameMessages DEF HeapInv
  <1>13. CASE network_unload_parser
    <2>1. /\ pc = "unload_parser" /\ pc' = "unload_marshal_lists"
          /\ UNCHANGED <<messages, function>>
          /\ heap' = heap \ Unloaded
          /\ wild' = (wild \/ ~(Unloaded \subseteq heap))
      BY <1>13, Zenon DEF network_unload_parser, Free, Unloaded, UnloadedOf,
            libVars
    <2>2. Base = Base' \cup (IF messages = NULL THEN {} ELSE Parsed)
      BY <2>1, SameMessages DEF Base, Listed
    <2>3. Base' \cap (Parsed \cup Data) = {}
      BY <2>1, ListApart, SameMessages DEF Base, Listed
    <2>4. messages = NULL => Data = {}
      BY NoFunctions DEF Data
    <2>5. Unloaded \subseteq heap
      BY <2>1, <2>2, UnloadedAll DEF HeapInv
    <2>6. Base' \subseteq heap' /\ heap' \subseteq Base'
      BY <2>1, <2>2, <2>3, <2>4, UnloadedAll DEF HeapInv
    <2>7. QED  BY <2>1, <2>5, <2>6, SameMessages DEF HeapInv
  <1>14. CASE network_unload_marshal_lists
    <2>1. /\ pc = "unload_marshal_lists" /\ pc' = "unload"
          /\ UNCHANGED <<messages, function>>
          /\ heap' = heap \ {<<"marshal_list">>}
          /\ wild' = (wild \/ ~({<<"marshal_list">>} \subseteq heap))
      BY <1>14 DEF network_unload_marshal_lists, Free
    <2>2. Base = Base' \cup {<<"marshal_list">>}
      BY <2>1, SameMessages DEF Base, Listed
    <2>3. <<"marshal_list">> \notin Base'
      BY <2>1 DEF Base, Listed
    <2>4. QED  BY <2>1, <2>2, <2>3, SameMessages DEF HeapInv
  <1>15. CASE network_unload
    BY <1>15, SameMessages DEF network_unload, Free, HeapInv, Base, Listed
  <1>16. CASE UNCHANGED loadVars
    BY <1>16, SameMessages DEF loadVars, HeapInv, Base, Listed
  <1>17. QED
    BY <1>1, <1>2, <1>3, <1>4, <1>5, <1>6, <1>7, <1>8, <1>9, <1>10, <1>11,
       <1>12, <1>13, <1>14, <1>15, <1>16 DEF LoadNext, network_load

(* A model frees what it has allocated and nothing twice, for every        *)
(* description, also an incomplete one, and every library: whatever the    *)
(* lists hold, the loops that free them end where those that made them do. *)
THEOREM ModelReleasesAll ==
    ASSUME NullIsNoList
    PROVE  LoadSpec => []Released
  <1>1. HeapInv => Released
    BY DEF HeapInv, Released, Base, Listed
  <1>2. HeapInv /\ [LoadNext]_loadVars => HeapInv'
    BY NextHeap
  <1>3. QED  BY <1>1, <1>2, InitHeap, PTL DEF LoadSpec

-----------------------------------------------------------------------------
(* The messages are those of the document, with its annotations, and the   *)
(* schedule lists those that have a cycle time.                            *)
ParsedInv ==
    /\ doc \in Docs
    /\ messages # NULL => doc # NULL /\ messages = _parse_messages
    /\ pc \in {"signal", "mapping", "created"} /\ messages # NULL =>
           schedule_list = {m \in Messages : messages[m].cycle_time_ms > 0}

LEMMA InitParsed == LoadInit => ParsedInv
  BY DEF LoadInit, ParsedInv

LEMMA NextParsed == ParsedInv /\ [LoadNext]_loadVars => ParsedInv'
  <1> SUFFICES ASSUME ParsedInv, [LoadNext]_loadVars PROVE ParsedInv'
    OBVIOUS
  <1>1. CASE network_parse
    BY <1>1 DEF network_parse, ParsedInv, _parse_messages
  <1>2. CASE network_schedule_reset
    BY <1>2 DEF network_schedule_reset, ParsedInv, _parse_messages, Messages
  <1>3. CASE LocateSignal \/ CreateMapping \/ model_step
    BY <1>3 DEF LocateSignal, Locate, CreateMapping, model_step, ParsedInv,
          _parse_messages, Messages
  <1>4. CASE LocateChannels \/ network_load_message_lib
             \/ network_load_function_lib \/ network_load_function_funcs
             \/ network_load_signal_funcs \/ network_load_message_funcs
             \/ network_load_marshal_lists \/ network_get_signal_names
             \/ model_destroy \/ network_unload_parser
             \/ network_unload_marshal_lists \/ network_unload
    <2>1. UNCHANGED <<doc, messages>> /\ pc' \notin {"signal", "mapping", "created"}
      BY <1>4 DEF LocateChannels, Locate, network_load_message_lib,
            network_load_function_lib, network_load_function_funcs,
            network_load_signal_funcs, network_load_message_funcs,
            network_load_marshal_lists, network_get_signal_names,
            model_destroy, network_unload_parser,
            network_unload_marshal_lists, network_unload
    <2>2. QED  BY <2>1 DEF ParsedInv, _parse_messages
  <1>5. CASE UNCHANGED loadVars
    BY <1>5 DEF loadVars, ParsedInv, _parse_messages, Messages
  <1>6. QED
    BY <1>1, <1>2, <1>3, <1>4, <1>5 DEF LoadNext, network_load

(* A 16 bit period and an 8 bit length arrive as they are annotated: the   *)
(* members of NetworkMessage are wide enough, the schedule has exactly the *)
(* messages with a period, and each has the payload it is encoded into.    *)
THEOREM AnnotationsArrive ==
    ASSUME NullIsNoList
    PROVE  LoadSpec => []Annotated
  <1>1. HeapInv /\ ParsedInv => Annotated
    <2> SUFFICES ASSUME HeapInv, ParsedInv, pc = "created",
                        NEW m \in Messages
                 PROVE  /\ doc[m].cycle_time_ms < 2 ^ 16 =>
                               /\ m \in schedule_list
                                      <=> doc[m].cycle_time_ms > 0
                               /\ messages[m].cycle_time_ms
                                      = doc[m].cycle_time_ms
                        /\ doc[m].frame_length \in 1 .. 2 ^ 8 - 1 =>
                               <<"payload", m>> \in heap
      BY DEF Annotated
    <2>1. /\ messages # NULL /\ doc \in Docs \ {NULL}
          /\ messages = _parse_messages /\ m \in DOMAIN doc
          /\ schedule_list = {k \in Messages : messages[k].cycle_time_ms > 0}
      BY DEF ParsedInv, Messages, _parse_messages
    <2>2. /\ doc[m].cycle_time_ms \in Nat /\ doc[m].frame_length \in Nat
      BY <2>1, DocsAssumption
    <2>3. /\ messages[m].cycle_time_ms = doc[m].cycle_time_ms % 2 ^ 16
          /\ messages[m].payload_len = doc[m].frame_length % 2 ^ 8
      BY <2>1 DEF _parse_messages, Narrowed
    <2>4. 2 ^ 16 = 65536 /\ 2 ^ 8 = 256
      OBVIOUS
    <2>5. ASSUME doc[m].cycle_time_ms < 2 ^ 16
          PROVE  messages[m].cycle_time_ms = doc[m].cycle_time_ms
      BY <2>2, <2>3, <2>4, <2>5
    <2>6. ASSUME doc[m].frame_length \in 1 .. 2 ^ 8 - 1
          PROVE  <<"payload", m>> \in heap
      <3>1. messages[m].payload_len > 0
        BY <2>2, <2>3, <2>4, <2>6
      <3>2. <<"payload", m>> \in Buffers(m)
        BY <3>1 DEF Buffers
      <3>3. <<"payload", m>> \in Parsed
        BY <3>2 DEF Parsed
      <3>4. QED  BY <2>1, <3>3 DEF HeapInv, Base
    <2>7. QED  BY <2>1, <2>5, <2>6
  <1>2. HeapInv /\ [LoadNext]_loadVars => HeapInv'
    BY NextHeap
  <1>3. QED
    BY <1>1, <1>2, InitHeap, InitParsed, NextParsed, PTL DEF LoadSpec

-----------------------------------------------------------------------------
(* What is set up for a description that has the annotations the loops and *)
(* casts need: from then on a list names only what was loaded.             *)
LoadedInv ==
    Described =>
        /\ pc # "undefined"
        /\ pc \notin {"channels", "parse", "exited"} => messages # NULL
        /\ pc \in {"message_funcs", "marshal_lists", "signal_names",
                   "schedule", "signal", "mapping", "created"} =>
               codec = [s \in AllNamed |-> Slot(Signal(s).member_type)]
        /\ pc \in {"marshal_lists", "signal_names", "schedule", "signal",
                   "mapping", "created"} => unpack_func = Messages
        /\ pc \in {"signal_names", "schedule", "signal", "mapping",
                   "created"} => marshal_list \subseteq AllNamed

(* The messages of such a description: all have a struct and an unpack     *)
(* function, and every named signal has a type.                            *)
LEMMA DescribedMessages ==
    ASSUME ParsedInv, Described, messages # NULL
    PROVE  /\ \A m : ~Unsized(m)
           /\ \A m \in Messages : <<Library(m), "unpack">> \in message_lib
           /\ \A s \in AllNamed : Signal(s).member_type # NULL
  <1>1. messages = _parse_messages /\ Messages = DOMAIN doc
    BY DEF ParsedInv, Messages, _parse_messages
  <1>2. ASSUME NEW m \in Messages
        PROVE  /\ messages[m].buffer_len = doc[m].struct_size
               /\ messages[m].container = doc[m].container
               /\ messages[m].name = doc[m].message
               /\ messages[m].signals = _parse_signals(doc[m].signals)
    BY <1>1 DEF _parse_messages
  <1>3. \A m : ~Unsized(m)
    <2> SUFFICES ASSUME NEW m \in Messages PROVE messages[m].buffer_len # 0
      BY DEF Unsized
    <2>1. doc[m].struct_size \in Nat /\ doc[m].struct_size > 0
      BY <1>1, DocsAssumption DEF ParsedInv, Described
    <2>2. QED  BY <1>2, <2>1
  <1>4. \A m \in Messages : <<Library(m), "unpack">> \in message_lib
    BY <1>1, <1>2 DEF Library, Described
  <1>5. ASSUME NEW s \in AllNamed
        PROVE  Signal(s).member_type # NULL
    <2>1. PICK m \in Messages : s \in NamedSignals(m)
      BY DEF AllNamed
    <2>2. PICK k \in DOMAIN messages[m].signals : s = <<m, k>>
      BY <2>1 DEF NamedSignals, Signals
    <2>3. Signal(s) = _parse_signals(doc[m].signals)[k]
      BY <1>2, <2>2 DEF Signal
    <2>4. k \in DOMAIN doc[m].signals
      BY <1>2, <2>2 DEF _parse_signals
    <2>5. Signal(s).member_type
              = doc[m].signals[k].struct_member_primitive_type
      BY <2>3, <2>4 DEF _parse_signals
    <2>6. QED  BY <1>1, <2>4, <2>5 DEF Described
  <1>6. QED  BY <1>3, <1>4, <1>5

(* The loader and the engine agree on the codec functions of a type, but   *)
(* for a type that is none of theirs.                                      *)
LEMMA SlotsAgree ==
    ASSUME NEW type PROVE MarshalSlot(type) \in {Slot(type), "none"}
  BY DEF MarshalSlot, Slot

(* Without a message to pass over, the loop ends at the terminator. *)
LEMMA StopsAtTerminator ==
    ASSUME ParsedInv, \A m : ~Unsized(m)
    PROVE  ~PastTerminator
  <1> SUFFICES ASSUME messages # NULL PROVE Reached(Len(messages) + 1)
    BY DEF PastTerminator
  <1> DEFINE end == Len(messages) + 1
             run == {k \in 1 .. end - 1 : \A j \in k .. end - 1 : Unsized(j)}
  <1>1. run = {}
    <2> SUFFICES ASSUME NEW k \in run PROVE FALSE
      OBVIOUS
    <2>1. doc \in Docs \ {NULL} /\ messages = _parse_messages
      BY DEF ParsedInv
    <2>2. Len(doc) \in Nat /\ DOMAIN messages = 1 .. Len(doc)
      BY <2>1, DocsAssumption DEF _parse_messages
    <2>3. Len(messages) \in Nat
      BY <2>1, <2>2 DEF _parse_messages
    <2>4. k \in k .. end - 1
      BY <2>3
    <2>5. QED  BY <2>4
  <1>2. Cardinality(run) = 0
    BY <1>1, FS_EmptySet
  <1> HIDE DEF run
  <1>3. Cardinality(run) % 2 = 0
    BY <1>2
  <1>4. QED  BY <1>3 DEF Reached, run

LEMMA SameLoaded ==
    ASSUME UNCHANGED <<inputs, messages>>
    PROVE  /\ Described' <=> Described
           /\ AllNamed' = AllNamed /\ Messages' = Messages
           /\ \A s : Signal(s)' = Signal(s)
  BY DEF Described, AllNamed, NamedSignals, Signals, Signal, Messages

LEMMA InitLoaded == LoadInit => LoadedInv
  BY DEF LoadInit, LoadedInv

LEMMA NextLoaded ==
    ASSUME NullIsNoList
    PROVE  ParsedInv /\ LoadedInv /\ [LoadNext]_loadVars => LoadedInv'
  <1> SUFFICES ASSUME ParsedInv, LoadedInv, [LoadNext]_loadVars, Described'
               PROVE  LoadedInv'
    BY DEF LoadedInv
  <1>1. CASE network_parse
    <2>1. doc # NULL /\ message_lib # NULL
      BY <1>1 DEF network_parse, Described
    <2>2. messages' = [m \in DOMAIN messages' |-> messages'[m]]
      BY <1>1, <2>1 DEF network_parse, _parse_messages
    <2>3. messages' # NULL /\ pc' = "message_lib"
      BY <1>1, <2>2 DEF network_parse, NullIsNoList
    <2>4. QED  BY <2>3 DEF LoadedInv
  <1>2. CASE ~network_parse
    <2>1. UNCHANGED <<inputs, messages>>
      BY <1>2 DEF LoadNext, network_load, LocateChannels, LocateSignal, Locate,
            network_load_message_lib, network_load_function_lib,
            network_load_function_funcs, network_load_signal_funcs,
            network_load_message_funcs, network_load_marshal_lists,
            network_get_signal_names, network_schedule_reset, CreateMapping,
            model_step, model_destroy, network_unload_parser,
            network_unload_marshal_lists, network_unload, loadVars
    <2>2. Described /\ AllNamed' = AllNamed /\ Messages' = Messages
      BY <2>1, SameLoaded
    <2>3. \A s : Signal(s)' = Signal(s)
      BY <2>1, SameLoaded
    <2>4. messages # NULL =>
              /\ \A m : ~Unsized(m)
              /\ \A m \in Messages : <<Library(m), "unpack">> \in message_lib
              /\ \A s \in AllNamed : Signal(s).member_type # NULL
      BY <2>2, DescribedMessages
    <2>5. LoadedInv!2
      BY <2>2 DEF LoadedInv
    <2>6. CASE LocateChannels \/ LocateSignal \/ network_load_message_lib
               \/ network_load_function_lib \/ network_load_function_funcs
               \/ network_get_signal_names \/ network_schedule_reset
      BY <2>1, <2>2, <2>3, <2>5, <2>6 DEF LocateChannels, LocateSignal, Locate,
            network_load_message_lib, network_load_function_lib,
            network_load_function_funcs, network_get_signal_names,
            network_schedule_reset, LoadedInv
    <2>7. CASE network_load_signal_funcs
      <3>1. messages # NULL /\ pc = "signal_funcs"
        BY <2>5, <2>7 DEF network_load_signal_funcs
      <3>2. pc' = "exited" \/
            (pc' = "message_funcs"
             /\ codec' = [s \in AllNamed |-> Slot(Signal(s).member_type)])
        BY <2>4, <2>7, <3>1 DEF network_load_signal_funcs
      <3>3. QED  BY <2>1, <2>2, <2>3, <3>1, <3>2 DEF LoadedInv
    <2>8. CASE network_load_message_funcs
      <3>1. messages # NULL /\ pc = "message_funcs" /\ pc' = "marshal_lists"
        BY <2>5, <2>8 DEF network_load_message_funcs
      <3>2. unpack_func' = Messages /\ codec' = codec
        BY <2>4, <2>8, <3>1 DEF network_load_message_funcs
      <3>3. QED  BY <2>1, <2>2, <2>3, <2>5, <3>1, <3>2 DEF LoadedInv
    <2>9. CASE network_load_marshal_lists
      <3>1. messages # NULL /\ pc = "marshal_lists"
        BY <2>5, <2>9 DEF network_load_marshal_lists
      <3>2. ~PastTerminator
        BY <2>4, <3>1, StopsAtTerminator
      <3>3. /\ pc' = "signal_names" /\ UNCHANGED <<codec, unpack_func>>
            /\ marshal_list' = UNION {Marshalled(m) : m \in Messages}
        BY <2>9, <3>2 DEF network_load_marshal_lists
      <3>4. marshal_list' \subseteq AllNamed
        BY <3>3 DEF AllNamed, Marshalled
      <3>5. QED  BY <2>1, <2>2, <2>3, <2>5, <3>1, <3>3, <3>4 DEF LoadedInv
    <2>10. CASE CreateMapping
      <3>1. messages # NULL /\ pc = "mapping"
        BY <2>5, <2>10 DEF CreateMapping
      <3>2. MarshalDefined
        BY <2>5, <3>1, SlotsAgree DEF MarshalDefined
      <3>3. PackDefined
        BY <2>4, <3>1 DEF PackDefined, NoStruct
      <3>4. pc' = "created" /\ UNCHANGED <<codec, unpack_func, marshal_list>>
        BY <2>10, <3>2, <3>3 DEF CreateMapping
      <3>5. QED  BY <2>1, <2>2, <2>3, <2>5, <3>1, <3>4 DEF LoadedInv
    <2>11. CASE model_step
      <3>1. messages # NULL /\ pc = "created" /\ unpack_func = Messages
        BY <2>5, <2>11 DEF model_step
      <3>2. Messages \subseteq {m \in unpack_func : ~NoStruct(m)}
        BY <2>4, <3>1 DEF NoStruct
      <3>3. pc' # "undefined" /\ pc' \in {"created", "exited"}
        BY <2>11, <3>1, <3>2 DEF model_step, AtMostOne
      <3>4. UNCHANGED <<codec, unpack_func, marshal_list>>
        BY <2>11 DEF model_step
      <3>5. QED  BY <2>1, <2>2, <2>3, <2>5, <3>1, <3>3, <3>4 DEF LoadedInv
    <2>12. CASE model_destroy \/ network_unload_parser
                \/ network_unload_marshal_lists \/ network_unload
      BY <2>1, <2>5, <2>12 DEF model_destroy, network_unload_parser,
            network_unload_marshal_lists, network_unload, LoadedInv
    <2>13. CASE UNCHANGED loadVars
      BY <2>1, <2>2, <2>3, <2>5, <2>13 DEF loadVars, LoadedInv
    <2>14. QED
      BY <1>2, <2>6, <2>7, <2>8, <2>9, <2>10, <2>11, <2>12, <2>13
         DEF LoadNext, network_load
  <1>3. QED  BY <1>1, <1>2

(* A model that is created from a complete description calls no function   *)
(* it has not loaded and reads no list past its end, whichever types the   *)
(* members have, whatever the function library lacks and whichever frames  *)
(* and functions its steps process.                                        *)
THEOREM DescribedModelRuns ==
    ASSUME NullIsNoList
    PROVE  LoadSpec => []Runnable
  <1>1. LoadedInv => Runnable
    BY DEF LoadedInv, Runnable
  <1>2. ParsedInv /\ LoadedInv /\ [LoadNext]_loadVars => LoadedInv'
    BY NextLoaded
  <1>3. QED
    BY <1>1, <1>2, InitParsed, NextParsed, InitLoaded, PTL DEF LoadSpec
=============================================================================
