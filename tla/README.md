# TLA+ verification of dse.network

`dse.network` is a co-simulation model that connects the *signals* of a simulation (scalars in
a signal vector) with the *frames* of a simulated network (CAN, PDU). One instance is one node of
one network. This directory holds TLA+ modules that model the node, TLC configurations that check
small instances of it, and proofs for all instances. Paths below are relative to the repository;
`dse/network/` is left out where a file name is unique.

## 1. The system

### Components, their state and their operations

| Component | State | Operations | Modelled in |
| --- | --- | --- | --- |
| Parser (`parser.c`) | messages, signals, functions read from YAML | `network_parse`, `network_unload_parser` | `NetworkLoad` |
| Loader (`loader.c`, `network.c`) | handles and function pointers of message and function library | `network_load`, `network_load_*`, `network_unload` | `NetworkLoad` |
| Engine (`engine.c`) | marshal list, signal names, `signal_vector`, per message `buffer`, `payload`, `buffer_checksum`, `needs_tx`, `update_signals` | marshal in two directions, pack, mux references, names | `NetworkModel`; lists and names `NetworkLoad`; bits of a member `BitCodec` |
| Encoder (`encoder.c`) | the same message flags; frames of the codec | `network_decode_from_bus`, `network_encode_to_bus` | `NetworkModel`; lost frames `NetworkBus` |
| Functions (`function.c`) | payload, checksum and flags of messages; `netoff_value` | `network_function_apply_encode`, `network_function_apply_decode` | `NetworkModel` |
| Schedule (`schedule.c`) | `tick`, an `alarm` per cyclic message | `network_schedule_reset`, `network_schedule_tick` | `Schedule` |
| Model (`model.c`) | `__sr_map`, `init_tick_done`, `last_tick` | `model_create`, `model_step`, `model_destroy` | `NetworkModel`, clock in `Schedule`, `Cadence`; creation and destruction `NetworkLoad` |
| Message library (`examples/stub/stub.c`, generated) | none | pack, unpack, encode, decode, range check | `StubCodec` (tables), `BitCodec` (their meaning), `MessageLink` (what they promise) |
| Message functions (`examples/stub/functions/`) | instance data of each function | `counter_inc_uint8`, `crc_generate`, `crc_validate` | `StubFunctions`, in a node `FunctionNetwork`; errors and instance data in `NetworkLoad` |
| Several nodes on one bus | frames in transit | the exchange of the co-simulation | `NetworkBus` |
| Brake-by-wire example | four models, two networks | `model_step` of each | `BrakeByWire`, with the vehicle network `VehicleBus` |
| Tools (`extra/tools/network`, Go and Python) | files | generate, patch | not modelled |

### How they interact

`model_step` is one sequential pass and every component works on the same message records:

1. the scalars of the signal channel are copied to the signal vector;
2. `network_decode_from_bus` unpacks every frame into a message's buffer, and the *checksum filter*
   decides whether its signals are to be updated; a container also processes the contained message
   its mux signal names;
3. the decode functions may veto the update; `network_marshal_messages_to_signals` does it;
4. the schedule is ticked as often as the step has milliseconds; an alarm raises `needs_tx` and
   sets the checksum to 0;
5. the signals are encoded into the buffers, the buffers packed into payloads; a changed checksum
   raises `needs_tx` of an event message, an unchanged one clears it;
6. the encode functions change the payloads to be sent, which flow back to buffers and signals;
   the network-off signal drops every flag;
7. flagged messages are written to the bus, and the signal vector to the signal channel.

So `buffer_checksum`, `needs_tx` and `update_signals` are written by the encoder, the engine, the
functions and the schedule. Nothing runs concurrently inside a node. What is hard is the *order* of
these writes over several steps, with other models changing signals between two steps and other
nodes sending any frames: a received value must not be echoed, a local change must not be lost, a
cyclic message must go out exactly in its cycle.

### What makes each component correct

* Schedule: an alarm never runs dry, it fires at the multiples of its cycle time, what fired is sent
  in that step; the ticks keep up with the model time.
* Engine and encoder: after a step, node and bus hold the same value of every message; received
  values are not echoed; contained messages are told apart by their id.
* Message library: a frame gives its receiver the members it carries and touches no other; the
  signal arrives within one resolution.
* Loading: what the loader sets up is what engine and decoder later use, incomplete descriptions
  are refused or harmless, and a destroyed model has freed what it allocated.
* Several nodes: when nothing changes they fall silent, and then they agree.
* Brake by wire: the force follows the pedal through a change of wires, a fault is published and
  indicated in time, and the indication reaches the bus.
* Functions: counter and crc of every frame sent are right, the signals follow them, bad frames
  change nothing, nothing is sent while the network is off.

`PROJECT.json` lists the hazards behind these at their lines.

## 2. The modules

| Module | What it is |
| --- | --- |
| `Schedule` | `schedule.c` and the part of `model_step` that decides how many ticks a step makes. The decode and encode paths are left open except for what they promise about flags. |
| `PeriodicClock` | Abstract specification: a message is raised at the multiples of its cycle time until all are collected. |
| `Cadence` | `Schedule` with the model time and the counted milliseconds as history variables; refines `PeriodicClock`. |
| `NetworkModel` | `model_create` and `model_step` with all of `engine.c`, `encoder.c` and `function.c`; refines `Schedule`. |
| `StubFunctions` | The three message functions of the stub example on a payload of bytes. |
| `FunctionNetwork` | `NetworkModel` with messages that have these functions, for any payload length, positions and width of a byte. |
| `MessageLink` | Abstract specification: a frame carries some members of the sender's struct, a receiver takes over these and keeps the others. |
| `BitCodec` | Marshalling, packing and unpacking on the bits of members and payloads, for any table of shifts; refines `MessageLink`. |
| `StubCodec` | `stub.c` and `stub.h`: the tables of the eight messages, scaling, casts and ranges. |
| `NetworkBus` | Two instances of `NetworkModel`, their frames crossing between the steps, lost or not. |
| `NetworkLoad` | The life of a model: `model_create` with `parser.c`, `loader.c` and the lists of `engine.c`, steps, `model_destroy`. |
| `BrakeByWire` | Pedal, brake, safety and driver model, in any order within a step. |
| `VehicleBus` | `BrakeByWire` composed with a `NetworkModel` that sends the safety model's signals. |
| `CadenceProof` (also of `Schedule`), `NetworkProof`, `AgreementProof`, `BusProof`, `FunctionProof`, `BitCodecProof`, `LoadProof`, `BrakeProof` (also of `VehicleBus`) | The theorems of section 5. |
| `MCCadence`, `MCNetworkModel`, `MCFunctions`, `MCContainer`, `MCStubCodec`, `MCNetworkBus`, `MCNetworkLoad` | Instances for TLC; some also state the properties that are about one network. `VehicleBus` needs none. |

Definitions keep the names of the C code where they have one. Definitions marked `fault` are
plausible mistakes in the definition that follows them. No specification uses them; they exist to
show that a run fails when one takes that definition's place (`mutants` in `PROJECT.json`).

### State and actions of `NetworkModel`

`pc` names the next call of `model_step`; each call is an action, in the order of the source.
`Exchange` stands for ModelC between two steps: it writes any values to the mapped scalars and to
the network-off signal and delivers up to `MaxRx` frames.

| Action | Code |
| --- | --- |
| `RxSignals` | `model.c:179-187` |
| `DecodeFrame` (one per frame), `DecodeDone` | `network_decode_from_bus`, `_process_can_frame`, `_process_message`, `_find_mux_message` |
| `ApplyDecode` | `network_function_apply_decode` |
| `MarshalToSignals`, `UpdateSignals` | the two calls of `network_marshal_messages_to_signals` |
| `BeginTicks`, `Tick`, `TicksDone` | `model.c:200-221` with `network_schedule_tick`; the bodies come from `Schedule` by `INSTANCE` |
| `MarshalToMessages` | `network_marshal_signals_to_messages` |
| `Pack` | `network_pack_messages` |
| `ApplyEncode` | `network_function_apply_encode` |
| `EncodeToBus` | `network_encode_to_bus` |
| `TxSignals` | `model.c:230-241` |

Abstractions:

* A buffer or payload is a function from the members of the message struct to raw values. Packing
  clears members the frame does not carry, unpacking keeps them, as the generated functions do with
  a multiplexed message. The byte layout is the subject of `BitCodec`, whose theorem
  `CodecImplementsLink` is the licence for this abstraction.
* The codec of a signal is three constants, `Enc`, `Dec` and `InRange`, for the twelve member types
  the engine distinguishes; scaling, casts and range checks come in with their values.
* `Hash` is a constant; TLC's instances use an injective one without the value 0.
* Message functions are `Encoded(m, payload)` and `Accepted(m, payload)`; `FunctionNetwork` says what they
  are for the stub functions. Return codes other than 0
  and `EBADMSG` end the process; `NetworkLoad` has them.
* Model time is kept in microseconds as `since`, the difference the code computes. A quotient
  that is a whole number may be truncated to it or to one less (`TicksOf`), the two results floating
  point arithmetic can give.
* A frame too short for `unpack_func` is marked `short`. Writing to the codec succeeds here and may
  fail in `NetworkBus`.
* `bus`, `heard` and `unsent` are history variables. No guard reads them.

Assumptions about the network description (`WellFormedAssumption`): no two signals of a message
share a member, and a contained message is no container itself (otherwise `_process_message` would
call itself without end).

### State and actions of the other modules

* `BitCodec`. A struct member is the set of its bits that are 1, a payload a set of pairs
  `<<byte, bit>>`. A table row is one call of a shift helper (`stub.c:35-129`): which member, which
  byte, how far, which mask. `Marshal` is one turn of the loop of `engine.c:114-256`, `Pack` and
  `Unpack` the generated functions, one observed message at a time. `Local` is the C variable
  between encoding and storing, whose width matters for `int64_t`. Scaling by 0.1 or 0.01 may lose
  a unit in floating point: `StubEncode` gives both results. `sizeof` and byte order of the struct
  do not appear, since pack functions work on values.
* `NetworkLoad`. `pc` is the function that runs next; each of `network_load`'s calls is an action,
  as are the searches of `model_create`, a step, `model_destroy` and the three parts of
  `network_unload`. `doc` is the YAML document, a library the set of symbols it exports, `heap` the
  set of live allocations. The marshal list is a set, since nothing but the order of the description
  orders it. `exited` is `log_fatal`, `undefined` a call of a null pointer, a read past
  a list or of a null list: the program has no defined behaviour from there on, and the
  model stops.
* `NetworkBus`. `StepA` and `StepB` are `model_step` of each node. Within a step nodes do not
  see each other, so that A first loses no behaviour. `Synchronise` delivers frames in the order of
  the messages (`Ordered`), with any subset lost if `MayLose`, and lets other models change signals on
  either side. Both nodes are built from one description (`NodeAssumption`).
* `FunctionNetwork`. Messages with `counter_inc_uint8` and `crc_generate` on the way out and `crc_validate`
  on the way in; every struct member is a byte, so that a member is the byte it is packed into.
* `BrakeByWire`. A step of every model on the signals of the last synchronisation, in any order;
  `Synchronise` publishes what they wrote, moves the pedal and the alive counter and advances time.
* `VehicleBus`. The same with `net_vehicle` (message 400 of `vehicle.dbc`), whose step comes last: it
  reads what the last synchronisation published and writes nothing but frames.

## 3. What the runs check

| Run | Checks | Instance |
| --- | --- | --- |
| `cadence` | `TypeOK`, `AlarmArmed`, `FiredIsUnsummed`, `AlarmInPhase`, `NeverBehind`, `NeverAhead`, refinement `PeriodicFlags` | cycle times 2, 0, 5; steps of 0.25 to 99 ms on the 1 ms grid; 20 ms of model time and the step after it |
| `network` | `TypeOK`, `BusAgrees`, `NoEcho`, `SilentWhenOff`, refinement `ScheduleKept`, liveness `CyclicAlwaysSent` | an event message with a scaled, limited signal and a cyclic one; up to 2 of 5 frames a step |
| `functions` | `BusAgrees`, `NoEcho`, `SentCrcValid`, `AliveAdvances` | crc, counter and value in bytes of three values; frames with right and wrong crc |
| `container` | `BusAgrees`, `NoEcho`, `OnlyNamedContained`, `SentMuxId` | a container and two contained messages; good, empty, out of range and short frames |
| `stub_codec` | refinement `CodecKeepsLink`, `Accurate` | the eight messages of the stub library, signals at, inside and outside of their bounds |
| `bus` | `Quiesce`, `Agreement` | one event message on two nodes, with a scaled, limited signal whose codec may lose a unit three times in a row as that of `temperature` does; any frame may be lost; silent after 4 exchanges |
| `load` | `Runnable`, `Released`, `Annotated` | up to three messages of eleven kinds, complete and not; four message and two function libraries |
| `vehicle` | `BrakeTypeOK`, `ForceFollowsPedal`, `FaultTimely`, `LampShowsFault`, `PulsesOnBus` | two positions, two counter values, steps of 20 ms, the cycle of the message; 24 steps |
| `functions_crc`, `functions_counter`, `stub_int64`, `load_unsized` | one stated property each, violated | see section 4 |

* **`BusAgrees`** is the main property: between two steps, for every event message and every cyclic
  message just sent, encoding the node's signals gives what was last on the bus. It fails if any path
  updates a checksum without sending or updating signals, or the other way round. The
  network-off signal is the one exception, kept in `unsent`: a change made while it is on is taken
  into the checksum and *not* sent when the network comes back.
* **`NoEcho`**: a step that takes values from the bus does not answer with the same event message.
  It needs values that survive decoding and encoding (`RoundTrips`).
* **`ScheduleKept`** is refinement: the paths of `model_step` keep what `Schedule` leaves open, so
  everything checked and proved about `Schedule` holds of `NetworkModel`.
* **`PeriodicFlags`** is refinement: alarms, tick counter, initial tick and wrap together are a
  periodic clock.

* **`CodecKeepsLink`** is refinement: whatever tables of shifts do to bits, a receiver sees members.
  It fails if a member leaks into another, a bit is lost, or unpacking touches a member that the frame
  does not carry. `Accurate` extends it to signal values.
* **`Quiesce`** and **`Agreement`** hold four exchanges after the last change: one for the frame, and one
  for each unit lost in answering it. The codec of `temperature` (`stub.c:215-223`) makes 602 of 603, then 601,
  then 600, each time in a frame of its own, and the instance does the same with the raw values 3 to 0. Of the raw values
  of `temperature`, 232 lose three units in this way and none loses more. With `Calm = 3` TLC finds both properties
  violated. `Agreement` excepts messages whose last frame was lost, and those both nodes sent in
  the same step: then they have swapped their values, and no code resolves that.
* **`Runnable`**: with a complete description, everything the loader sets up is what the engine calls,
  so that no run reaches `undefined`. **`Released`** needs no such premise.
* **`FaultTimely`** relates the published fault to a history of the alive counter that no model
  keeps; **`ForceFollowsPedal`** relates the brake force to the pedal two steps before, across
  changes of wire.

### Bounds

Every action is total over its inputs, so the state space is closed and bounded by the value sets
alone, except in `Cadence` and `VehicleBus`, whose clocks never repeat: there `MaxTime` and `Steps` end the run,
which is why these configurations switch deadlock checking off. In `NetworkLoad` it is off because
a model ends. The tick counter wraps in `network` (`TickMod` 3, with a cycle of 2), where
`ScheduleKept` and `CyclicAlwaysSent` hold across the wrap; what a wrap does to the alarms is proved for
every `TickMod` (`AlarmsInPhase`, `ScheduleIsPeriodic`). `cadence` and `vehicle` end before it. Two messages suffice
for the flag logic, which never relates two messages other than a container and the ones it
contains; two frames a step are the least for "received twice" and "received, then filtered". Raw
values 0 to 2 with a limit of 1 give values in range and one out of range, and the signal value 5 is
out of range for the scaled signal and wraps in the cast of the other.

`Calm` counts exchanges without a change, up to 4, and the state space is closed: the nodes are silent
from that exchange on. `LongAgo` cuts times off above the fault limit and two steps, where nothing
distinguishes them. 24 steps of 20 ms hold a fault (six steps), its end and a second fault.
Values of signals in `stub_codec` are the bounds of each
range and their neighbours, and patterns of bits for floats; only values on a whole raw value are
used where the extension of the sign matters, and `int64_signal` stays within 16 bits, beyond which
`stub_int64` shows the violation.

### Fairness

`NetworkModel` has weak fairness on `Next`: `model_step` is a terminating sequential function, and the
simulation keeps calling it. Nothing is assumed of frames or of other models;
`CyclicAlwaysSent` assumes, in the formula, that the network finally stays on. The other modules need
no fairness: what must happen there has a deadline (`calm`, `stale`) and is an invariant.

## 4. Where code and documentation disagree

The first, second, fourth and sixth are runs that end in a violation (`findings` in `PROJECT.json`). For the
others there is a configuration in this directory that TLC answers with a counterexample, for example
`tlc -config MCCadence_slow.cfg MCCadence.tla`; `MCCadence_wrap.cfg` is one more that passes.

1. *Bad frames* (`functions_crc`). The decode functions get `nm->payload`, which reception does not
   write; `crc_validate` sees what was last packed. A frame with a wrong crc changes the signals,
   and a good one is refused if the last packed payload is bad.
2. *Counters and signals* (`functions_counter`). The notes on the functions (`counters.c:21`,
   `functions.md:28`) say that the signal does not follow the counter. It does: `function.c:46` unpacks the
   altered payload and has the signals updated. `SignalFollowsCounter` proves it for every payload.
3. *Cadence* (`MCCadence_slow.cfg`, `MCCadence_fast.cfg`). `last_tick` forgets the remainder of a step,
   so 0.7 ms steps lose a millisecond in every few steps, and the factor 1.01 makes 101 ticks of a step of 100 ms.
4. *64 bit members* (`stub_int64`). `engine.c:213` keeps the value of an `int64_t` member in an
   `int16_t`: of the bounds of the range `stub.h:257` gives, -900001 is sent as 17503 and 900000 as -17504.
5. *Checksum of the multiplexed struct* (`MCContainer_short.cfg`). `network.yaml:240` states a `struct_size`
   of 16 for a struct whose member `bar_float` lies at offset 16. The checksum does not cover it,
   so that its change is no change. The buffer itself is large enough (`parser.c:221` allocates
   `struct_size` times the size of a pointer).
6. *Skipped message* (`load_unsized`). After a message without `struct_size` the loop of
   `engine.c:28-34` advances twice and the next message is never marshalled.
7. *Failed load* (`MCNetworkLoad_missing.cfg`, `LoadFailureFatal`). `network_load` returns 0 whether or not a
   network was found. `model_create` has a message for that case, and it is never logged; the first step reads
   `n->messages`, which is `NULL`.
8. *Triggered messages* (`MCVehicleBus_short.cfg`). A change of a cyclic message is sent with its cycle only,
   while `vehicle.dbc` declares `EngineStatus` cyclic *and* triggered. The pulses of the safety model
   last one step; with steps shorter than 20 ms they may never be in a frame.

Two behaviours no document speaks about, seen while modelling: a frame delivered twice in one step
is filtered the second time, which clears the update of the first, and the node answers with its old
values (`BusAgrees` holds because it answers); and a change made while the network is off stays
unsent until the next change.

## 5. What is proved

All proofs are checked by TLAPS with Z3, Zenon and LS4, for every value of the constants that meets
the assumptions named in the modules. Names in the second column before `|-` are hypotheses beyond those.

### Schedule (`CadenceProof`)

| Theorem | Statement | Argument |
| --- | --- | --- |
| `ScheduleTypeCorrect` | `Spec => []TypeOK` | inductive; a step never owes a negative number of ticks (`TicksNat`) |
| `FiredStaysUnsummed` | `Spec => []FiredIsUnsummed` | needs that no message is flagged outside of the tick and encode phases |
| `AlarmsStayArmed` | `Spec => []AlarmArmed` | strengthened by the state before the initial tick: no alarm is armed then and the tick is still owed |
| `AlarmsInPhase` | `CSpec => []AlarmInPhase` | invariant with the clock; lemmas on `%` for the three cases decrement, re-arm, arm |
| `ScheduleIsPeriodic` | `CSpec => PeriodicFlags` | an alarm fires iff the next millisecond is a multiple of the cycle time (`FiresOnTime`), each step maps to `Advance`, `Collect` or a stutter |
| `WholeMsCadence`, `WholeMsKeepsUp` | steps of 1 to 99 whole ms, no wrap `\|- CSpec => []NeverAhead`, `[]NeverBehind` | `CadenceInv`: model time is 1000 times the milliseconds counted plus those still owed |

### One node (`NetworkProof`, `AgreementProof`)

| Theorem | Statement | Argument |
| --- | --- | --- |
| `NetworkTypeCorrect` | `Spec => []TypeOK` | one lemma per kind of operator (`MapType`, `LibraryType`, `MarshalType`, `ReceiveType`, ...) |
| `NetworkKeepsSchedule` | no content hashes to 0 `\|- Spec => ScheduleKept` | `FlagInv`: what is flagged before packing is cyclic and has checksum 0, so packing sees it changed and keeps the flag |
| `NetworkSilentWhenOff` | `Spec => []SilentWhenOff` | `OffInv`: with the network off, no flag reaches the encoder |
| `ContainedIsNamed` | `ContainersFirst`, `HeaderCarried` `\|- Spec => []OnlyNamedContained` | `NamedInv`: while frames are decoded, a contained message that is to update its signals is the one the mux signal of its container named in some frame of this step |
| `ContainedSentAsNamed` | these, `ConstantsName`, `EncodersKeepHeader` `\|- Spec => []SentMuxId` | `HeaderInv`: from marshalling to the bus, buffer and payload of a contained message hold the encoded constant, whatever was received into the struct before |
| `NetworkDoesNotEcho` | `SignalsCarried` `\|- Spec => []NoEcho` | `EchoInv`: an event message that was received keeps, up to the marshalling of the encode path, the content that is on the bus, the checksum of it and signals decoded from it; when its values survive the codec, packing then sees no change |
| `NodeAgreesWithBus` | `PlainFrames`, `NoCollision`, `EncodersFollowed` `\|- Spec => []BusAgrees` | `SumInv`: the checksum of an event message that was sent once and is not about to be sent again stands for what is on the bus; `EncodePathInv`: on the encode path buffer, checksum, payload, bus and signals are made to agree one after the other, the change the functions make included |

### Several nodes, functions, loading, libraries, example

| Theorem | Statement | Argument |
| --- | --- | --- |
| `NodesFallSilent` (`BusProof`) | `ComesToRest(n)`, `Calm >= n + 1` `\|- BusSpec => []Quiesce` | see below |
| `NodesAgree` (`BusProof`) | these, `NetOff = {FALSE}` `\|- BusSpec => []Agreement` | `LastInv`: what a node has last sent or read is what the other has, but for frames under way, lost or crossed; `NodeAgreesWithBus` on either side does the rest |
| `SentCrcIsValid` (`FunctionProof`) | `Spec => []SentCrcValid` | `EncodedValid`: after the encode functions the crc is that of the payload; nothing writes the payload of a flagged message between them and the bus |
| `CounterAdvances` | `Spec => AliveAdvances` | `AdvanceInv`: the payload to be sent carries the successor of the counter that the signal stands for |
| `SignalFollowsCounter` | `NoCollision` `\|- Spec => []AliveFollowed` (the contrary of the notes, section 4) | `ReturnInv`: the functions change the hash, so that buffer and signals take the counter back before the step ends |
| `ModelReleasesAll` (`LoadProof`) | `NullIsNoList` `\|- LoadSpec => []Released` | `HeapInv`: what is allocated at each `pc`, as a function of the description |
| `AnnotationsArrive` | `NullIsNoList` `\|- LoadSpec => []Annotated` | `ParsedInv`: the parsed lists are the description, cut to the widths of the fields |
| `DescribedModelRuns` | `NullIsNoList` `\|- LoadSpec => []Runnable` | `LoadedInv`: with a complete description no message is skipped and each function the marshal list calls has been found |
| `RoundTrip` (`BitCodecProof`) | unpacking a packed payload gives every carried member its value | `PackedBit`: of the rows of a payload one alone writes a bit; `SameCase`: both switches see the same selector |
| `CodecImplementsLink` | `CodecSpec => CodecKeepsLink` | `RoundTrip` and the invariant that a sender's struct holds values in range |
| `BrakeTypeCorrect` (`BrakeProof`) | `BrakeSpec => []BrakeTypeOK` | inductive only with the linear wire being five times a position |
| `BrakeFollowsPedal` | `BrakeSpec => []ForceFollowsPedal` | both wires carry the last position, and what a model has written depends on what has run |
| `FaultInTime` | `BrakeSpec => []FaultTimely` | `since_sample` and the history `stale` run in step |
| `LampFollowsFault` | `BrakeSpec => []LampShowsFault` | `pedal_fault_active` is the lamp after the pulses that are under way |
| `VehicleKeepsBrake` | `VehicleSpec => BrakeSpec` | each step maps to a step of the example or a stutter; the four theorems above hold with the network |
| `PulsesReachBus` | `StepsCoverCycle`, `TicksFit` `\|- VehicleSpec => []PulsesOnBus` | `VehicleInv`, see below |

**How nodes come to rest.** A raw value settles in `k` steps when decoding and encoding it again, `k` times,
gives a value that survives (`Settles`); `CodecSettles(n)` says that every value in range settles in `n` steps, all
of them in range. In `stub.c`, `n` is 3 for the scale 0.01, 1 for 0.1 and 0 for the others. The invariant of
`NodesFallSilent`, `QuietInv(n, L)`, has a part for each number `L` of exchanges since the last change of a signal, and
a node moves from `L` to `L + 1` when it has made a step after an exchange that left its signals alone. With `L = 0`
nothing is known but that event messages are summed and their signals stand for what is in the buffer when the step
ends. From `L = 1` on a step sends only messages it has received in this step and whose value did not survive: the
answer. What is received at level `L` has at most `n + 1 - L` losses ahead, and an answer to it one
less (`AnswerSettling`). At `L = n + 1` what is received survives, and nothing is sent. `ComesToRest(n)` names
what this needs of a description: frames without containers or multiplexing (`PlainFrames`), hashes that do not collide, a
frame id per message (`DistinctFrames`), no message functions, `CodecSettles(n)`, and signals that start
in range or have 0 in range (`StartsInRange`). The instance of run `bus` meets `ComesToRest(3)` and has `Calm = 4`.
`Agreement` needs in addition that the network is never off: a change made while it is off is not sent, and the nodes
stay apart.

**The loop of `crc_generate`** is a recursive function. That it gives a byte, and the same for two payloads that
differ in the crc alone, is proved without induction over an operator: the set of turns for which it
holds has 0 in it and with each turn the next, so that a least turn outside of it, which the naturals
would have (`LeastOutside`), is a contradiction.

**The vehicle bus.** The network model reads the pulses of the last exchange (`CopyInv`) and sends them
in the same step, for the alarm of `EngineStatus` fires in every step but the first: it is armed with
20 at most, and a step of 20 ms or more makes 20 ticks or more (`TicksOfStep`, with the factor 1.01 and the
truncation). In the first step there is no pulse yet (`LampInv`). Both hypotheses are needed:
`MCVehicleBus_short.cfg` loses pulses with steps of 10 ms, and in the step in which the tick counter wraps to 0 the
alarm stands still for a tick, so that 20 ticks do not reach it. (With `TickMod = 180` TLC finds a pulse
lost there.)

**Hypotheses.** That no content hashes to 0 (`NetworkKeepsSchedule`) is a real limit of the code: 0 is the mark of a
due message, and a buffer whose FNV hash is 0 would lose its cycle. `NoCollision` is another: the
checksum is all the code compares. `EncodersFollowed` says that an encode function writes no value the
range check stops and none that decoding alters; a counter and a crc in whole bytes meet it. The
hypotheses of `WholeMsCadence` are the limits the violations of section 4 show. `ContainersFirst` and
`HeaderCarried` say that a container precedes what it contains, has a mux signal, and that the frames of both
carry it; `ConstantsName` that the constant of the internal signal is the mux id. `NullIsNoList` says
no more than that `NULL` is not itself a list. `BitCodec` assumes of its tables that packing and
unpacking use the same rows and that no bit of a payload is written twice (`LayoutAssumption`), and that ranges
fit the packed bits (`RangeAssumption`); TLC evaluates both for the tables of `StubCodec`.

**Only model-checked:** `BusAgrees` for containers, and `NoEcho` where a frame does not carry all signals (run
`container`); `Quiesce` with a network that is switched off at times is proved and not checked (the
instance never is), `Agreement` is neither and would not hold. `Accurate` computes with the tables of the stub library: its statement has nothing to
generalise. `CyclicAlwaysSent` is liveness under fairness, out of the prover's reach. The steps of
`cadence` that are not whole milliseconds have no theorem.

## 6. What is not modelled

* Reading YAML, loading shared libraries and the co-simulation itself: external, modelled by what
  they give to the code.
* The `_init` functions of the message library, which nothing calls, and `network_unpack_messages`,
  which only tests call.
* The network of the brake bus in the brake-by-wire example: its frames leave the example, and the
  codec is generated when the example is built. Its DBC file scales a position of 0 to 1 by
  1000, so that the frames carry no position (a hazard in `PROJECT.json`).
* Floating point: scaling is exact but for the unit it may lose, times may be off by one step of the
  comparison where they are equal, floats are bit patterns.
* Running out of memory.
* On the heap of `NetworkLoad`: the model structure `model_create` enlarges (`model.c:51`), which the simulation
  owns, and the handles of the shared libraries (`loader.c`).
* The Go and Python tools: they transform files, keep no state and call other tools.

## 7. Plan

Done: `Schedule`, `Cadence` with `PeriodicClock`, `NetworkModel` and its instances, `BitCodec` with
`MessageLink` and `StubCodec`, `FunctionNetwork`, `NetworkBus`, `NetworkLoad`, `BrakeByWire`, `VehicleBus`, and
the proofs of section 5. What would add most next:

1. `BusAgrees` for containers as a theorem. `SumInv` has to speak of the members a frame carries, and
   of the messages that share a buffer layout.
2. `Quiesce` and `Agreement` for messages with functions: a counter changes with every frame, and a
   node answers a frame that `crc_validate` refuses with its old values.
3. `Quiesce` for any number of nodes: the composition has two by construction.
4. `PulsesOnBus` beyond the wrap of the tick counter, with at most one pulse lost.
