---------------------------- MODULE NetworkModel ----------------------------
(***************************************************************************)
(* One network model: model_create and model_step (model.c) with the       *)
(* functions they call in engine.c, encoder.c, function.c and schedule.c.  *)
(*                                                                         *)
(* model_step is sequential.  Each function it calls is an action, and pc  *)
(* keeps their order; between two steps the simulation changes the signal  *)
(* vectors (action Exchange).  Buffers and payloads are functions over the *)
(* bytes of a frame; the struct a buffer holds and the codec functions of  *)
(* the message library are constants.                                      *)
(*                                                                         *)
(* A definition marked "fault" is the definition after it with a plausible *)
(* mistake; the specification does not use it (see Schedule).              *)
(***************************************************************************)
EXTENDS Integers, Sequences

CONSTANTS
    NMsg, NSig,       \* lengths of n->messages and n->marshal_list
    Field,            \* the members of the message structs
    Raw,              \* values of a member, 0 among them
    Phys,             \* values of a signal
    FrameId,          \* FrameId[m], MuxId[m]: frame_id and mux_id
    MuxId,
    CycleTime,        \* CycleTime[m]: cycle_time_ms
    Contained,        \* messages with a container
    SigMsg, SigField, \* the message and the struct member of a signal
    SigName,          \* its name in the signal interface
    Internal,         \* internal signals
    MuxMarked,        \* signals annotated mux_signal
    InitValue,        \* init_value and value (the constant) of a signal
    ConstValue,
    Sv,               \* names in the signal channel
    Checksum,         \* range of Hash, and 0
    StepSize, TickMod,
    RxFrame, MaxRx,   \* bound: frames the bus delivers, at most MaxRx a step
    NetOff,           \* values of the network-off signal
    Enc(_, _), Dec(_, _), InRange(_, _),  \* codec functions of a signal
    Carries(_, _, _), \* Carries(m, f, x): a frame of m carries member f
    Selector(_),      \*   when member Selector(m) has the value x
    Hash(_),          \* simbus_generate_uid_hash
    Encoded(_, _),    \* the payload after the encode functions of m
    Accepted(_, _)    \* no decode function of m returns EBADMSG

Msg == 1 .. NMsg
Sig == 1 .. NSig
Content == [Field -> Raw]

ASSUME NetworkAssumption ==
    /\ NMsg \in Nat /\ NSig \in Nat /\ MaxRx \in Nat
    /\ 0 \in Raw
    /\ FrameId \in [Msg -> Nat] /\ MuxId \in [Msg -> Nat]
    /\ Contained \subseteq Msg
    /\ SigMsg \in [Sig -> Msg] /\ SigField \in [Sig -> Field]
    /\ Internal \subseteq Sig /\ MuxMarked \subseteq Sig
    /\ InitValue \in [Sig -> Phys] /\ ConstValue \in [Sig -> Phys]
    /\ NetOff \subseteq BOOLEAN /\ NetOff # {}
    /\ CycleTime \in [Msg -> Nat] /\ 0 \in Checksum

(* A member belongs to one signal of a message, and a contained message is *)
(* no container.                                                           *)
ASSUME WellFormedAssumption ==
    /\ \A s, t \in Sig : SigMsg[s] = SigMsg[t] /\ SigField[s] = SigField[t]
                            => s = t
    /\ \A s \in MuxMarked : SigMsg[s] \notin Contained

ASSUME CodecAssumption ==
    /\ \A s \in Sig, v \in Phys : Enc(s, v) \in Raw
    /\ \A s \in Sig, r \in Raw : InRange(s, r) \in BOOLEAN
    /\ \A s \in Sig, r \in Raw : InRange(s, r) => Dec(s, r) \in Phys
    /\ \A m \in Msg : Selector(m) \in Field
    /\ \A m \in Msg, f \in Field, x \in Raw : Carries(m, f, x) \in BOOLEAN
    /\ \A m \in Msg, p \in Content : Encoded(m, p) \in Content
    /\ \A p \in Content : Hash(p) \in Checksum
    /\ \A fr \in RxFrame : fr.payload \in Content

VARIABLES
    pc,              \* the next function model_step calls, or "idle"
    sv,              \* scalars of the signal channel
    netoff,          \* *(n->netoff_value) # 0.0
    rx,              \* frames of the network signal that are not read yet
    tx,              \* payloads the last encode path wrote to the network
                     \*   signal, by message and in the order of messages
    signal_vector,   \* n->signal_vector
    buffer, payload, \* per message, as buffer_checksum, needs_tx and
    buffer_checksum, \*   update_signals are
    needs_tx,
    update_signals,
    tick, alarm, step, since, at_start, init_tick_done, due,  \* see Schedule
    bus,    \* history: the last frame of a message on the bus, as received
            \*   or sent by this node
    heard,  \* history: messages whose signals this step took from the bus
    unsent  \* history: event messages with a change the network-off signal
            \*   suppressed and no frame on the bus since

chanVars  == <<sv, netoff, rx, tx>>
sigVars   == <<signal_vector, update_signals>>
msgVars   == <<buffer, payload>>
flagVars  == <<buffer_checksum, needs_tx>>
alarmVars == <<tick, alarm>>
clockVars == <<step, since, at_start, init_tick_done, due>>
histVars  == <<bus, heard, unsent>>
vars == <<pc, chanVars, sigVars, msgVars, flagVars, alarmVars, clockVars,
          histVars>>

(* Where the schedule of this model is, and what it sent. *)
Phase == CASE pc \in {"tick", "signals_to_messages", "pack"} -> "tick"
           [] pc \in {"apply_encode", "encode"} -> "tx"
           [] pc \in {"update", "tx_signals"} -> "end"
           [] OTHER -> "rx"

Sched == INSTANCE Schedule WITH phase <- Phase, sent <- DOMAIN tx

First(S) == CHOOSE i \in S : \A j \in S : i <= j
Last(S)  == CHOOSE i \in S : \A j \in S : j <= i

Event(m) == CycleTime[m] = 0

-----------------------------------------------------------------------------
(* Message library: pack_func and unpack_func of a message *)

Packed(m, buf) ==
    [f \in Field |-> IF Carries(m, f, buf[Selector(m)]) THEN buf[f] ELSE 0]

Unpacked(m, buf, p) ==
    [f \in Field |-> IF Carries(m, f, p[Selector(m)]) THEN p[f] ELSE buf[f]]

-----------------------------------------------------------------------------
(* engine.c *)

(* network_load_marshal_lists: the last marked signal of m is its mux.     *)
MuxSignals(m) == {s \in MuxMarked : SigMsg[s] = m}
IsContainer(m) == MuxSignals(m) # {}
MuxSignal(m) == Last(MuxSignals(m))

(* network_get_signal_names hides internal signals; the mapping of         *)
(* model_create takes the first network signal of a name.                  *)
Mapped(v) == {s \in Sig \ Internal : SigName[s] = v}
SrMap == [v \in {u \in Sv : Mapped(u) # {}} |-> First(Mapped(v))]

(* The value network_marshal_signals_to_messages encodes for s. *)
OutgoingVector(s, vector) == vector[s]                      \* fault
Outgoing(s, vector) ==
    IF s \in Internal /\ SigMsg[s] \in Contained THEN ConstValue[s]
                                                 ELSE vector[s]

MarshalledBuffer(vector, buf) ==
    [m \in Msg |-> [f \in Field |->
        LET source == {s \in Sig : /\ SigMsg[s] = m
                                   /\ SigField[s] = f
                                   /\ InRange(s, Enc(s, Outgoing(s, vector)))}
        IN  IF source = {} THEN buf[m][f]
            ELSE LET s == CHOOSE t \in source : TRUE
                 IN  Enc(s, Outgoing(s, vector))]]

(* What network_marshal_messages_to_signals makes of one signal. *)
DecodedUnchecked(s, content, old) == Dec(s, content[SigField[s]])  \* fault
Decoded(s, content, old) ==
    IF InRange(s, content[SigField[s]])
    THEN Dec(s, content[SigField[s]]) ELSE old

marshal_messages_to_signals ==
    /\ signal_vector' =
           [s \in Sig |-> IF update_signals[SigMsg[s]]
                          THEN Decoded(s, buffer[SigMsg[s]], signal_vector[s])
                          ELSE signal_vector[s]]
    /\ update_signals' = [m \in Msg |-> FALSE]

-----------------------------------------------------------------------------
(* model_create *)

InitVector == [s \in Sig |-> InitValue[s]]
InitBuffer ==
    MarshalledBuffer(InitVector, [m \in Msg |-> [f \in Field |-> 0]])

Init ==
    /\ pc = "idle"
    /\ sv = [v \in DOMAIN SrMap |-> InitValue[SrMap[v]]]
    /\ netoff \in NetOff
    /\ rx = <<>> /\ tx = <<>>
    /\ signal_vector = InitVector
    /\ buffer = InitBuffer
    /\ payload = [m \in Msg |-> Packed(m, InitBuffer[m])]
    /\ buffer_checksum =
           [m \in Msg |-> IF Event(m) THEN Hash(InitBuffer[m]) ELSE 0]
    /\ needs_tx = [m \in Msg |-> FALSE]
    /\ update_signals = [m \in Msg |-> FALSE]
    /\ Sched!ClockInit
    /\ bus = payload
    /\ heard = {}
    /\ unsent = {}

-----------------------------------------------------------------------------
(* Between two steps the simulation writes the signal vectors. *)
Exchange ==
    /\ pc = "idle"
    /\ pc' = "rx_signals"
    /\ sv' \in [DOMAIN SrMap -> Phys]
    /\ netoff' \in NetOff
    /\ \E n \in 0 .. MaxRx : rx' \in [1 .. n -> RxFrame]
    /\ heard' = {}
    /\ UNCHANGED <<tx, sigVars, msgVars, flagVars, alarmVars, clockVars, bus,
                   unsent>>

(* RX: SignalVector -> Network.  Two names never map to the same signal. *)
RxSignals ==
    /\ pc = "rx_signals"
    /\ pc' = "decode"
    /\ signal_vector' =
           [s \in Sig |-> IF \E v \in DOMAIN SrMap : SrMap[v] = s
                          THEN sv[SigName[s]] ELSE signal_vector[s]]
    /\ UNCHANGED <<chanVars, update_signals, msgVars, flagVars, alarmVars,
                   clockVars, histVars>>

-----------------------------------------------------------------------------
(* encoder.c: network_decode_from_bus *)

(* _process_can_frame: the first message of that id, before an id of 0.    *)
Matching(id) ==
    {m \in Msg : FrameId[m] = id /\ \A k \in 1 .. m : FrameId[k] # 0}

(* _find_mux_message *)
MuxAny(id, mux_id) == {m \in Msg : FrameId[m] = id /\ MuxId[m] # 0}  \* fault
MuxMessages(id, mux_id) ==
    IF mux_id = 0 THEN {}
    ELSE {m \in Msg : FrameId[m] = id /\ MuxId[m] = mux_id}

(* _process_message: it marshals the mux signal of a container at once and *)
(* processes the contained message that the mux signal names.              *)
VectorAfter(m, p) ==
    IF IsContainer(m)
    THEN LET s == MuxSignal(m)
         IN  [signal_vector EXCEPT
                 ![s] = Decoded(s, Unpacked(m, buffer[m], p), @)]
    ELSE signal_vector

Processed(m, p) ==
    LET inner == IF IsContainer(m)
                 THEN MuxMessages(FrameId[m], VectorAfter(m, p)[MuxSignal(m)])
                 ELSE {}
    IN  {m} \cup (IF inner = {} THEN {} ELSE {First(inner)})

(* The checksums once those of the messages S are calculated anew. *)
KeptSums(S) == buffer_checksum                              \* fault
Resummed(S) == [m \in Msg |-> IF m \in S THEN Hash(buffer'[m])
                                         ELSE buffer_checksum[m]]

(* Unpacking into the buffer, and the checksum filter of _process_message. *)
Receive(S, p) ==
    /\ buffer' = [m \in Msg |-> IF m \in S THEN Unpacked(m, buffer[m], p)
                                           ELSE buffer[m]]
    /\ update_signals' =
           [m \in Msg |-> IF m \in S THEN Hash(buffer'[m]) # buffer_checksum[m]
                                     ELSE update_signals[m]]
    /\ buffer_checksum' = Resummed(S)
    /\ bus' = [m \in Msg |-> IF m \in S THEN Packed(m, buffer'[m]) ELSE bus[m]]
    /\ unsent' = unsent \ S

(* A frame no message matches, or too short to unpack, is dropped.         *)
Dropped(fr) == Matching(fr.id) = {} \/ fr.short

DecodeFrame ==
    /\ pc = "decode"
    /\ rx # <<>>
    /\ rx' = Tail(rx)
    /\ LET fr == Head(rx)
           m  == First(Matching(fr.id))
       IN  IF Dropped(fr)
           THEN UNCHANGED <<buffer, update_signals, buffer_checksum,
                            signal_vector, bus, unsent>>
           ELSE /\ signal_vector' = VectorAfter(m, fr.payload)
                /\ Receive(Processed(m, fr.payload), fr.payload)
    /\ UNCHANGED <<pc, sv, netoff, tx, payload, needs_tx, alarmVars,
                   clockVars, heard>>

DecodeDone ==
    /\ pc = "decode"
    /\ rx = <<>>
    /\ pc' = "apply_decode"
    /\ UNCHANGED <<chanVars, sigVars, msgVars, flagVars, alarmVars, clockVars,
                   histVars>>

(* network_function_apply_decode: the functions see nm->payload. *)
ApplyDecode ==
    /\ pc = "apply_decode"
    /\ pc' = "signals"
    /\ update_signals' =
           [m \in Msg |-> update_signals[m] /\ Accepted(m, payload[m])]
    /\ UNCHANGED <<chanVars, signal_vector, msgVars, flagVars, alarmVars,
                   clockVars, histVars>>

(* network_marshal_messages_to_signals in the decode path. *)
MarshalToSignals ==
    /\ pc = "signals"
    /\ pc' = "begin_ticks"
    /\ marshal_messages_to_signals
    /\ heard' = {m \in Msg : update_signals[m]}
    /\ UNCHANGED <<chanVars, msgVars, flagVars, alarmVars, clockVars, bus,
                   unsent>>

-----------------------------------------------------------------------------
(* The schedule *)

BeginTicks ==
    /\ pc = "begin_ticks"
    /\ pc' = "tick"
    /\ Sched!StepTicks
    /\ UNCHANGED <<chanVars, sigVars, msgVars, flagVars, alarmVars, histVars>>

Tick ==
    /\ pc = "tick"
    /\ Sched!MakeTick
    /\ UNCHANGED <<pc, chanVars, sigVars, msgVars, histVars>>

TicksDone ==
    /\ pc = "tick"
    /\ due = 0
    /\ pc' = "signals_to_messages"
    /\ UNCHANGED <<chanVars, sigVars, msgVars, flagVars, alarmVars, clockVars,
                   histVars>>

-----------------------------------------------------------------------------
(* The encode path *)

MarshalToMessages ==
    /\ pc = "signals_to_messages"
    /\ pc' = "pack"
    /\ buffer' = MarshalledBuffer(signal_vector, buffer)
    /\ UNCHANGED <<chanVars, sigVars, payload, flagVars, alarmVars, clockVars,
                   histVars>>

(* network_pack_messages: a change flags an event message; without one no  *)
(* message is sent.                                                        *)
ChangedBefore(m) == Hash(payload[m]) # buffer_checksum[m]   \* fault
Changed(m) == Hash(buffer[m]) # buffer_checksum[m]

FlaggedByChange(m) == Changed(m)                            \* fault
Flagged(m) == Changed(m) /\ (Event(m) \/ needs_tx[m])

Pack ==
    /\ pc = "pack"
    /\ pc' = "apply_encode"
    /\ payload' = [m \in Msg |-> Packed(m, buffer[m])]
    /\ needs_tx' = [m \in Msg |-> Flagged(m)]
    /\ UNCHANGED <<chanVars, sigVars, buffer, alarmVars, clockVars, histVars>>
    /\ buffer_checksum' = Resummed({m \in Msg : Event(m)})

(* network_function_apply_encode *)
SendableAlways(m) == needs_tx[m]                            \* fault
Sendable(m) == needs_tx[m] /\ ~netoff

(* The encode functions change the payload of m. *)
NeverAltered(m) == FALSE                                    \* fault
Altered(m) == Sendable(m) /\ Hash(Encoded(m, payload[m])) # Hash(payload[m])

ApplyEncode ==
    /\ pc = "apply_encode"
    /\ pc' = "encode"
    /\ needs_tx' = [m \in Msg |-> Sendable(m)]
    /\ payload' = [m \in Msg |-> IF Sendable(m) THEN Encoded(m, payload[m])
                                                ELSE payload[m]]
    /\ buffer' = [m \in Msg |-> IF Altered(m)
                                THEN Unpacked(m, buffer[m], payload'[m])
                                ELSE buffer[m]]
    /\ update_signals' = [m \in Msg |-> Altered(m) \/ update_signals[m]]
    /\ buffer_checksum' = Resummed({m \in Msg : Altered(m)})
    /\ unsent' = IF netoff
                 THEN unsent \cup {m \in Msg : Event(m) /\ needs_tx[m]}
                 ELSE unsent
    /\ UNCHANGED <<chanVars, signal_vector, alarmVars, clockVars, bus, heard>>

(* network_encode_to_bus writes the flagged messages in their order. *)
EncodeToBus ==
    /\ pc = "encode"
    /\ pc' = "update"
    /\ tx' = [m \in {k \in Msg : needs_tx[k]} |-> payload[m]]
    /\ needs_tx' = [m \in Msg |-> FALSE]
    /\ bus' = [m \in Msg |-> IF needs_tx[m] THEN payload[m] ELSE bus[m]]
    /\ unsent' = {m \in unsent : ~needs_tx[m]}
    /\ UNCHANGED <<sv, netoff, rx, sigVars, msgVars, buffer_checksum,
                   alarmVars, clockVars, heard>>

(* The second network_marshal_messages_to_signals. *)
UpdateSignals ==
    /\ pc = "update"
    /\ pc' = "tx_signals"
    /\ marshal_messages_to_signals
    /\ UNCHANGED <<chanVars, msgVars, flagVars, alarmVars, clockVars, histVars>>

(* TX: Network->SignalVector, and the model time advances. *)
TxSignals ==
    /\ pc = "tx_signals"
    /\ pc' = "idle"
    /\ sv' = [v \in DOMAIN SrMap |-> signal_vector[SrMap[v]]]
    /\ Sched!AdvanceTime
    /\ UNCHANGED <<netoff, rx, tx, sigVars, msgVars, flagVars, alarmVars,
                   histVars>>

model_step ==
    \/ RxSignals \/ DecodeFrame \/ DecodeDone \/ ApplyDecode
    \/ MarshalToSignals \/ BeginTicks \/ Tick \/ TicksDone
    \/ MarshalToMessages \/ Pack \/ ApplyEncode \/ EncodeToBus
    \/ UpdateSignals \/ TxSignals

Next == Exchange \/ model_step

Spec == Init /\ [][Next]_vars

(* model_step runs to its end and the simulation keeps stepping. *)
FairSpec == Spec /\ WF_vars(Next)

-----------------------------------------------------------------------------
(* The network model's variables have their types. *)
TypeOK ==
    /\ pc \in {"idle", "rx_signals", "decode", "apply_decode", "signals",
               "begin_ticks", "tick", "signals_to_messages", "pack",
               "apply_encode", "encode", "update", "tx_signals"}
    /\ sv \in [DOMAIN SrMap -> Phys]
    /\ netoff \in NetOff
    /\ rx \in Seq(RxFrame)
    /\ signal_vector \in [Sig -> Phys]
    /\ buffer \in [Msg -> Content]
    /\ payload \in [Msg -> Content]
    /\ buffer_checksum \in [Msg -> Checksum]
    /\ needs_tx \in [Msg -> BOOLEAN]
    /\ update_signals \in [Msg -> BOOLEAN]
    /\ bus \in [Msg -> Content]
    /\ heard \subseteq Msg
    /\ unsent \subseteq Msg

(* The decode and encode paths keep the promise of the schedule: a cyclic  *)
(* message is on the bus in exactly the steps its alarm fired in, unless   *)
(* the network is off; neither a change of its signals nor a frame         *)
(* received in the same step sends or suppresses it.                       *)
ScheduleKept == Sched!Spec

(* Between two steps, what a signal would put on the bus is what is on the *)
(* bus: nobody else can hold a value of an event message, or of a cyclic   *)
(* one just sent, that this node has meanwhile changed or overwritten      *)
(* without a frame.  The network-off signal is the one exception.          *)
OnBus(m) == m \in DOMAIN tx

Agrees(s) ==
    LET raw == Enc(s, Outgoing(s, signal_vector))
    IN  InRange(s, raw) => bus[SigMsg[s]][SigField[s]] = raw

BusAgrees ==
    pc = "idle" =>
        \A s \in Sig :
            LET m == SigMsg[s]
            IN  (OnBus(m) \/ (Event(m) /\ m \notin unsent)) => Agrees(s)

(* A step that takes values from the bus does not answer with a frame of   *)
(* the same event message: the checksum set on reception is the one        *)
(* packing calculates.  This needs a frame whose values survive decoding   *)
(* and encoding; any other one is answered.                                *)
RoundTrips(m, p) ==
    \A s \in Sig : SigMsg[s] = m =>
        LET raw == p[SigField[s]]
        IN  /\ InRange(s, raw)
            /\ raw = Enc(s, IF s \in Internal /\ m \in Contained
                             THEN ConstValue[s] ELSE Dec(s, raw))

NoEcho ==
    pc = "encode" =>
        \A m \in heard : Event(m) /\ RoundTrips(m, bus[m]) => ~needs_tx[m]

(* What the container of m makes of the header of a frame. *)
Container(m) == First(Matching(FrameId[m]))
HeaderSignal(m) == MuxSignal(Container(m))
HeaderInRange(m, p) == InRange(HeaderSignal(m), p[SigField[HeaderSignal(m)]])
Names(p, m) == Dec(HeaderSignal(m), p[SigField[HeaderSignal(m)]]) = MuxId[m]

(* A frame reaches the signals of a contained message only if its header   *)
(* names that message.  A header out of range is the exception: the mux    *)
(* signal then still holds the id of an earlier frame.                     *)
OnlyNamedContained ==
    pc = "begin_ticks" =>
        \A m \in heard \cap Contained :
            HeaderInRange(m, bus[m]) => Names(bus[m], m)

(* A contained message leaves with a header that names it, whatever header *)
(* was last received into its buffer.                                      *)
SentMuxId ==
    \A m \in Contained \cap DOMAIN tx :
        HeaderInRange(m, tx[m]) /\ Names(tx[m], m)

(* While the network is off nothing is written to the bus. *)
SilentWhenOff == pc = "idle" /\ netoff => DOMAIN tx = {}

(* A cyclic message is on the bus again and again once the network stays   *)
(* on, whatever arrives from the bus and from the other models.            *)
CyclicAlwaysSent ==
    <>[](~netoff) => \A m \in Msg : ~Event(m) => []<>OnBus(m)
=============================================================================
