----------------------------- MODULE BrakeProof -----------------------------
(***************************************************************************)
(* Proofs about BrakeByWire and VehicleBus, for every step size and set of *)
(* positions.                                                              *)
(***************************************************************************)
EXTENDS VehicleBus, TLAPS

USE DEF safetyVars, brakeHist

(* What the models have written when some of them have made their step.    *)
(* The signals of a model that has not are those of the last one.          *)
StepInv ==
    /\ sv \in Signals /\ out \in Signals
    /\ ran \subseteq Models
    /\ pedal \in Position \X Position \X Position
    /\ lamp \in BOOLEAN /\ pedal_fault_active \in BOOLEAN
    /\ sv.hmi_pos = pedal[1]
    /\ sv.pos = pedal[2] /\ sv.linear = 5 * pedal[2]
    /\ sv.force = pedal[3]
    /\ lamp <=> sv.fault = 1
    /\ "pedal" \in ran => out.pos = pedal[1] /\ out.linear = 5 * pedal[1]
    /\ "brake" \in ran => out.force = pedal[2]
    /\ "safety" \in ran =>
           /\ out.fault = IF pedal_fault_active THEN 1 ELSE 0
           /\ out.set = IF out.fault = 1 /\ sv.fault = 0
                        THEN Brake_Pedal_Id ELSE 0
           /\ out.clear = IF out.fault = 0 /\ sv.fault = 1
                          THEN Brake_Pedal_Id ELSE 0
    /\ "safety" \notin ran => (pedal_fault_active <=> sv.fault = 1)

LEMMA InitStep == BrakeInit => StepInv
  <1> SUFFICES ASSUME BrakeInit PROVE StepInv
    OBVIOUS
  <1>1. pedal \in Position \X Position \X Position
    BY BrakeAssumption DEF BrakeInit
  <1>2. sv \in Signals
    BY BrakeAssumption DEF BrakeInit, Signals
  <1>3. /\ sv.hmi_pos = 0 /\ sv.pos = 0 /\ sv.force = 0
        /\ sv.linear = 0 /\ sv.fault = 0
        /\ pedal[1] = 0 /\ pedal[2] = 0 /\ pedal[3] = 0
    BY DEF BrakeInit
  <1>4. out = sv /\ ran = {} /\ pedal_fault_active = FALSE /\ lamp = FALSE
    BY DEF BrakeInit
  <1>5. /\ ran \subseteq Models /\ lamp \in BOOLEAN
        /\ pedal_fault_active \in BOOLEAN
        /\ "pedal" \notin ran /\ "brake" \notin ran /\ "safety" \notin ran
    BY <1>4
  <1>6. sv.fault # 1
    BY <1>3
  <1>7. /\ lamp <=> sv.fault = 1
        /\ pedal_fault_active <=> sv.fault = 1
    BY <1>4, <1>6
  <1>8. sv.linear = 5 * pedal[2]
    BY <1>3
  <1>9. QED
    BY <1>1, <1>2, <1>3, <1>4, <1>5, <1>7, <1>8 DEF StepInv

LEMMA NextStep == StepInv /\ [BrakeNext]_brakeVars => StepInv'
  <1> SUFFICES ASSUME StepInv, [BrakeNext]_brakeVars PROVE StepInv'
    OBVIOUS
  <1>p. /\ pedal[1] \in Nat /\ pedal[2] \in Nat /\ pedal[3] \in Nat
        /\ {pedal[1], pedal[2], pedal[3]} \subseteq Position
    BY BrakeAssumption DEF StepInv
  <1>1. CASE PedalStep
    <2>1. /\ out' = [out EXCEPT !.pos = pedal[1], !.hmi_force = pedal[3],
                               !.linear = pedal[1] * 5]
          /\ ran' = ran \cup {"pedal"}
          /\ UNCHANGED <<sv, safetyVars, brakeHist>>
      BY <1>1 DEF PedalStep, Step, StepInv
    <2>2. out' \in Signals
      <3>1. pedal[1] * 5 \in Nat
        BY <1>p
      <3>2. QED  BY <1>p, <2>1, <3>1 DEF StepInv, Signals
    <2>3. /\ out'.pos = pedal[1] /\ out'.linear = 5 * pedal[1]
          /\ \A f \in {"force", "fault", "set", "clear"} : out'[f] = out[f]
      BY <1>p, <2>1 DEF StepInv, Signals
    <2>4. QED  BY <2>1, <2>2, <2>3 DEF StepInv, Models
  <1>2. CASE BrakeStep
    <2>1. sv.pos = pedal[2] /\ sv.linear = 5 * pedal[2]
      BY DEF StepInv
    <2>2. (5 * pedal[2]) \div 5 = pedal[2]
      BY <1>p
    <2>3. Request = pedal[2]
      BY <2>1, <2>2 DEF Request
    <2>4. /\ out' = [out EXCEPT !.force = pedal[2]]
          /\ ran' = ran \cup {"brake"}
          /\ UNCHANGED <<sv, safetyVars, brakeHist>>
      BY <1>2, <2>3 DEF BrakeStep, Step
    <2>5. QED  BY <1>p, <2>4 DEF StepInv, Signals, Models
  <1>3. CASE SafetyStep
    <2>1. PICK fault \in BOOLEAN :
              /\ out' = [out EXCEPT
                    !.fault = IF fault THEN 1 ELSE 0,
                    !.set = IF fault /\ ~pedal_fault_active
                            THEN Brake_Pedal_Id ELSE 0,
                    !.clear = IF ~fault /\ pedal_fault_active
                              THEN Brake_Pedal_Id ELSE 0]
              /\ pedal_fault_active' = fault
      BY <1>3 DEF SafetyStep, ActiveAfter, Overdue
    <2>2. /\ ran' = ran \cup {"safety"} /\ "safety" \notin ran
          /\ UNCHANGED <<sv, brakeHist>>
      BY <1>3 DEF SafetyStep, Step
    <2>3. out' \in Signals
      BY <2>1 DEF StepInv, Signals
    <2>4. /\ out'.pos = out.pos /\ out'.linear = out.linear
          /\ out'.force = out.force
      BY <2>1 DEF StepInv, Signals
    <2>5. pedal_fault_active <=> sv.fault = 1
      BY <2>2 DEF StepInv
    <2>6. sv.fault \in {0, 1}
      BY DEF StepInv, Signals
    <2>7. /\ out'.fault = IF fault THEN 1 ELSE 0
          /\ out'.set = IF fault /\ sv.fault = 0
                        THEN Brake_Pedal_Id ELSE 0
          /\ out'.clear = IF ~fault /\ sv.fault = 1
                          THEN Brake_Pedal_Id ELSE 0
      BY <2>1, <2>5, <2>6 DEF StepInv, Signals
    <2>8. QED
      BY <2>1, <2>2, <2>3, <2>4, <2>7 DEF StepInv, Models
  <1>4. CASE DriverStep
    BY <1>4 DEF DriverStep, Step, StepInv, Models
  <1>5. CASE Synchronise
    <2>1. PICK pos \in Position, ac \in Counter :
              /\ sv' = [out EXCEPT !.hmi_pos = pos, !.pos_ac = ac]
              /\ pedal' = <<pos, pedal[1], pedal[2]>>
      BY <1>5 DEF Synchronise
    <2>2. pedal' \in Position \X Position \X Position
      BY <2>1 DEF StepInv
    <2>3. /\ "pedal" \in ran /\ "brake" \in ran /\ "safety" \in ran
          /\ ran' = {} /\ out' = sv' /\ lamp' = Switched
          /\ pedal_fault_active' = pedal_fault_active
      BY <1>5 DEF Synchronise, Models
    <2>4. /\ sv' \in Signals
          /\ sv'.hmi_pos = pos
          /\ \A f \in {"pos", "linear", "force", "fault"} : sv'[f] = out[f]
      BY <2>1 DEF StepInv, Signals
    <2>5. pedal'[1] = pos /\ pedal'[2] = pedal[1] /\ pedal'[3] = pedal[2]
      BY <2>1
    <2>6. sv'.pos = pedal[1] /\ sv'.linear = 5 * pedal[1] /\ sv'.force = pedal[2]
      BY <2>1, <2>3 DEF StepInv, Signals
    <2>7. out.fault \in {0, 1} /\ sv.fault \in {0, 1} /\ sv'.fault = out.fault
      BY <2>1 DEF StepInv, Signals
    <2>8. lamp' = (out.fault = 1)
      <3>1. /\ out.set = IF out.fault = 1 /\ sv.fault = 0
                         THEN Brake_Pedal_Id ELSE 0
            /\ out.clear = IF out.fault = 0 /\ sv.fault = 1
                           THEN Brake_Pedal_Id ELSE 0
        BY <2>3 DEF StepInv
      <3>2. lamp = (sv.fault = 1)
        BY DEF StepInv
      <3>3. CASE out.fault = sv.fault
        <4>1. out.set = 0 /\ out.clear = 0
          BY <2>7, <3>1, <3>3
        <4>2. Switched = lamp
          BY <4>1 DEF Switched
        <4>3. QED  BY <2>3, <3>2, <3>3, <4>2
      <3>4. CASE out.fault = 1 /\ sv.fault = 0
        <4>1. out.set # 0
          BY <3>1, <3>4 DEF Brake_Pedal_Id
        <4>2. Switched = TRUE
          BY <4>1 DEF Switched
        <4>3. QED  BY <2>3, <3>4, <4>2
      <3>5. CASE out.fault = 0 /\ sv.fault = 1
        <4>1. out.set = 0 /\ out.clear # 0 /\ out.fault # 1
          BY <3>1, <3>5 DEF Brake_Pedal_Id
        <4>2. Switched = FALSE
          BY <4>1 DEF Switched
        <4>3. QED  BY <2>3, <4>1, <4>2
      <3>6. QED  BY <2>7, <3>3, <3>4, <3>5
    <2>9. pedal_fault_active' = (out.fault = 1)
      BY <2>3 DEF StepInv
    <2>10. QED
      BY <2>2, <2>3, <2>4, <2>5, <2>6, <2>7, <2>8, <2>9 DEF StepInv
  <1>6. CASE UNCHANGED brakeVars
    BY <1>6 DEF brakeVars, StepInv
  <1>7. QED
    BY <1>1, <1>2, <1>3, <1>4, <1>5, <1>6 DEF BrakeNext, ModelStep

(* The brake force is the position of the pedal two steps before, whatever *)
(* the order of the models, the step size, and the faults in between.      *)
THEOREM BrakeFollowsPedal == BrakeSpec => []ForceFollowsPedal
  <1>1. StepInv => ForceFollowsPedal
    BY DEF StepInv, ForceFollowsPedal
  <1>2. QED  BY <1>1, InitStep, NextStep, PTL DEF BrakeSpec

(* The pulses for the engine lamp are enough to know of the fault. *)
THEOREM LampFollowsFault == BrakeSpec => []LampShowsFault
  <1>1. StepInv => LampShowsFault
    BY DEF StepInv, LampShowsFault
  <1>2. QED  BY <1>1, InitStep, NextStep, PTL DEF BrakeSpec

-----------------------------------------------------------------------------
(* Time *)

(* The time since the last sample is the time since the alive counter      *)
(* changed, but for the time between the change and the step that samples. *)
TimeInv ==
    /\ alive_counter \in Counter
    /\ since_sample \in 0 .. LongAgo /\ stale \in 0 .. LongAgo
    /\ "safety" \in ran \/ alive_counter = sv.pos_ac => since_sample = stale
    /\ "safety" \notin ran /\ alive_counter # sv.pos_ac => stale = 0
    /\ "safety" \in ran =>
           /\ alive_counter = sv.pos_ac
           /\ stale > Limit => out.fault = 1
           /\ stale < Limit => out.fault = 0
    /\ stale >= StepSize =>
           /\ stale - StepSize > Limit => sv.fault = 1
           /\ stale - StepSize < Limit => sv.fault = 0

LEMMA LaterType ==
    ASSUME NEW t \in 0 .. LongAgo
    PROVE  Later(t) \in 0 .. LongAgo /\ Later(t) = IF t + StepSize > LongAgo
                                                   THEN LongAgo
                                                   ELSE t + StepSize
  BY BrakeAssumption DEF Later, LongAgo, Limit

LEMMA InitTime == BrakeInit => TimeInv
  <1> SUFFICES ASSUME BrakeInit PROVE TimeInv
    OBVIOUS
  <1>1. LongAgo \in Nat /\ 0 \in Counter /\ StepSize > 0
    BY BrakeAssumption DEF LongAgo, Limit
  <1>2. /\ alive_counter = 0 /\ since_sample = 0 /\ stale = 0
        /\ ran = {} /\ sv.pos_ac = 0
    BY DEF BrakeInit
  <1>3. QED  BY <1>1, <1>2, BrakeAssumption DEF TimeInv

LEMMA SafetyTime == StepInv /\ TimeInv /\ SafetyStep => TimeInv'
  <1> SUFFICES ASSUME StepInv, TimeInv, SafetyStep PROVE TimeInv'
    OBVIOUS
  <1> DEFINE changed == sv.pos_ac # alive_counter
  <1>1. PICK overdue \in Overdue :
            /\ out'.fault = IF ~changed /\ overdue THEN 1 ELSE 0
            /\ since_sample' = IF changed THEN 0 ELSE since_sample
    BY DEF SafetyStep, Sampled, StepInv, Signals
  <1>2. /\ "safety" \in ran' /\ "safety" \notin ran
        /\ UNCHANGED <<sv, stale>> /\ alive_counter' = sv.pos_ac
    BY DEF SafetyStep, Step
  <1>3. since_sample' = stale
    BY <1>1, <1>2 DEF TimeInv
  <1>4. sv.pos_ac \in Counter
    BY DEF StepInv, Signals
  <1>5. /\ stale > Limit => out'.fault = 1
        /\ stale < Limit => out'.fault = 0
    <2>1. stale \in Int /\ LongAgo \in Int
      BY BrakeAssumption DEF TimeInv, LongAgo, Limit
    <2>2. CASE changed
      <3>1. stale = 0 /\ out'.fault = 0
        BY <1>1, <1>2, <2>2 DEF TimeInv
      <3>2. QED  BY <3>1 DEF Limit
    <2>3. CASE ~changed
      <3>1. since_sample = stale
        BY <2>3 DEF TimeInv
      <3>2. CASE stale = Limit
        BY <3>2, <2>1 DEF Limit
      <3>3. CASE stale # Limit
        <4>1. overdue = (stale > Limit)
          BY <3>1, <3>3, Zenon DEF Overdue
        <4>2. CASE stale > Limit
          <5>1. ~changed /\ overdue
            BY <2>3, <4>1, <4>2, Zenon
          <5>2. out'.fault = 1
            BY <1>1, <5>1, Zenon
          <5>3. QED  BY <2>1, <4>2, <5>2 DEF Limit
        <4>3. CASE ~(stale > Limit)
          <5>1. ~overdue
            BY <4>1, <4>3, Zenon
          <5>2. out'.fault = 0
            BY <1>1, <5>1, Zenon
          <5>3. QED  BY <2>1, <4>3, <5>2 DEF Limit
        <4>4. QED  BY <4>2, <4>3
      <3>4. QED  BY <3>2, <3>3
    <2>4. QED  BY <2>2, <2>3
  <1>6. QED  BY <1>2, <1>3, <1>4, <1>5 DEF TimeInv

LEMMA SynchroniseTime == StepInv /\ TimeInv /\ Synchronise => TimeInv'
  <1> SUFFICES ASSUME StepInv, TimeInv, Synchronise PROVE TimeInv'
    OBVIOUS
  <1>1. PICK pos \in Position, ac \in Counter :
            /\ sv' = [out EXCEPT !.hmi_pos = pos, !.pos_ac = ac]
            /\ stale' = IF ac = sv.pos_ac THEN Later(stale) ELSE 0
    BY DEF Synchronise
  <1>2. /\ "safety" \in ran /\ "safety" \notin ran'
        /\ since_sample' = Later(since_sample)
        /\ alive_counter' = alive_counter
    BY DEF Synchronise, Models
  <1>3. /\ alive_counter = sv.pos_ac /\ since_sample = stale
        /\ stale > Limit => out.fault = 1
        /\ stale < Limit => out.fault = 0
        /\ stale \in 0 .. LongAgo
    BY <1>2 DEF TimeInv
  <1>4. sv'.pos_ac = ac /\ sv'.fault = out.fault
    BY <1>1 DEF StepInv, Signals
  <1>5. Later(stale) \in 0 .. LongAgo /\ 0 \in 0 .. LongAgo
    BY <1>3, LaterType, BrakeAssumption DEF LongAgo, Limit
  <1>6. stale' >= StepSize =>
            /\ stale' - StepSize > Limit => stale > Limit
            /\ stale' - StepSize < Limit => stale < Limit
    <2>1. StepSize \in Nat \ {0}
      BY BrakeAssumption
    <2>2. CASE ac = sv.pos_ac
      <3>1. stale' = IF stale + StepSize > LongAgo THEN LongAgo
                     ELSE stale + StepSize
        BY <1>1, <1>3, <2>2, LaterType
      <3>2. QED  BY <1>3, <2>1, <3>1 DEF LongAgo, Limit
    <2>3. CASE ac # sv.pos_ac
      <3>1. stale' = 0
        BY <1>1, <2>3
      <3>2. QED  BY <2>1, <3>1
    <2>4. QED  BY <2>2, <2>3
  <1>7. QED  BY <1>1, <1>2, <1>3, <1>4, <1>5, <1>6 DEF TimeInv

LEMMA NextTime == StepInv /\ TimeInv /\ [BrakeNext]_brakeVars => TimeInv'
  <1> SUFFICES ASSUME StepInv, TimeInv, [BrakeNext]_brakeVars PROVE TimeInv'
    OBVIOUS
  <1>1. CASE PedalStep \/ BrakeStep \/ DriverStep
    <2>1. /\ UNCHANGED <<sv, safetyVars, brakeHist>>
          /\ "safety" \in ran' <=> "safety" \in ran
      BY <1>1 DEF PedalStep, BrakeStep, DriverStep, Step
    <2>2. out'.fault = out.fault
      BY <1>1 DEF PedalStep, BrakeStep, DriverStep, StepInv, Signals
    <2>3. QED  BY <2>1, <2>2 DEF TimeInv
  <1>2. CASE SafetyStep
    BY <1>2, SafetyTime
  <1>3. CASE Synchronise
    BY <1>3, SynchroniseTime
  <1>4. CASE UNCHANGED brakeVars
    BY <1>4 DEF brakeVars, TimeInv
  <1>5. QED  BY <1>1, <1>2, <1>3, <1>4 DEF BrakeNext, ModelStep

(* A fault is published in the step after the limit and not before it, for *)
(* every step size: sampling in steps delays it by no more than a step.    *)
THEOREM FaultInTime == BrakeSpec => []FaultTimely
  <1>1. TimeInv => FaultTimely
    BY DEF TimeInv, FaultTimely
  <1>2. QED
    BY <1>1, InitStep, NextStep, InitTime, NextTime, PTL DEF BrakeSpec

(* The signals and the state of the models keep their types. *)
THEOREM BrakeTypeCorrect == BrakeSpec => []BrakeTypeOK
  <1>1. StepInv /\ TimeInv => BrakeTypeOK
    BY DEF StepInv, TimeInv, BrakeTypeOK
  <1>2. QED
    BY <1>1, InitStep, NextStep, InitTime, NextTime, PTL DEF BrakeSpec

-----------------------------------------------------------------------------
(* The vehicle network *)

LEMMA VehicleStep == [VehicleNext]_vehicleVars => [BrakeNext]_brakeVars
  BY DEF VehicleNext, Connect, VehicleModel, NetVehicle, VehicleSynchronise,
         vehicleVars, BrakeNext

(* The network model disturbs none of the models: what is proved of the    *)
(* example holds with its network.                                         *)
THEOREM VehicleKeepsBrake == VehicleSpec => BrakeSpec
  <1>1. VehicleInit => BrakeInit
    BY DEF VehicleInit
  <1>2. QED  BY <1>1, VehicleStep, PTL DEF VehicleSpec, BrakeSpec

USE DEF Net!chanVars, Net!sigVars, Net!msgVars, Net!flagVars, Net!alarmVars,
        Net!clockVars, Net!histVars

Pulse == {0, Brake_Pedal_Id}
Pulses == [v \in VehicleSignals |-> sv[v]]

(* The codec of a signed byte leaves a pulse as it is. *)
LEMMA PulseCodec ==
    ASSUME NEW v \in Pulse, NEW s
    PROVE  EncByte(s, v) = v /\ InByte(s, v)
  BY DEF Pulse, Brake_Pedal_Id, EncByte, InByte

LEMMA Network ==
    /\ Net!Msg = {1} /\ Net!Sig = {1, 2} /\ Net!Sched!Cyclic = {1}
    /\ ~Net!Event(1) /\ ~Net!IsContainer(1)
  <1>1. Net!Msg = {1} /\ Net!Sig = {1, 2}
    BY DEF Net!Msg, Net!Sig
  <1>2. ~Net!Event(1) /\ ~Net!IsContainer(1)
    BY DEF Net!Event, Net!IsContainer, Net!MuxSignals, CycleTimes
  <1>3. Net!Sched!Cyclic = {1}
    BY <1>1 DEF Net!Sched!Cyclic, CycleTimes
  <1>4. QED  BY <1>1, <1>2, <1>3

(* Marshalling puts the two signals into the members of their name.        *)
LEMMA MarshalPulses ==
    ASSUME NEW vector, vector[1] \in Pulse, vector[2] \in Pulse, NEW buf
    PROVE  Net!MarshalledBuffer(vector, buf)[1]
               = [f \in VehicleSignals |->
                     IF f = "set" THEN vector[1] ELSE vector[2]]
  <1> DEFINE source(f) ==
                 {s \in Net!Sig : /\ <<1, 1>>[s] = 1
                                  /\ <<"set", "clear">>[s] = f
                                  /\ InByte(s, EncByte(s,
                                                 Net!Outgoing(s, vector)))}
             member(f) ==
                 IF source(f) = {} THEN buf[1][f]
                 ELSE LET s == CHOOSE t \in source(f) : TRUE
                      IN  EncByte(s, Net!Outgoing(s, vector))
  <1>1. \A s : Net!Outgoing(s, vector) = vector[s]
    BY DEF Net!Outgoing
  <1>2. \A s \in {1, 2} : /\ EncByte(s, Net!Outgoing(s, vector)) = vector[s]
                          /\ InByte(s, vector[s])
    BY <1>1, PulseCodec
  <1>3. source("set") = {1} /\ source("clear") = {2}
    BY <1>2, Network
  <1> HIDE DEF source
  <1>4. member("set") = vector[1] /\ member("clear") = vector[2]
    BY <1>2, <1>3
  <1>5. Net!MarshalledBuffer(vector, buf)[1]
            = [f \in VehicleSignals |-> member(f)]
    BY Network, Zenon DEF Net!MarshalledBuffer, source
  <1> HIDE DEF member
  <1>6. QED  BY <1>4, <1>5 DEF VehicleSignals

LEMMA MapPulses ==
    DOMAIN Net!SrMap = VehicleSignals /\ Net!SrMap["set"] = 1
    /\ Net!SrMap["clear"] = 2
  <1>1. Net!Mapped("set") = {1} /\ Net!Mapped("clear") = {2}
    BY Network DEF Net!Mapped
  <1>2. Net!First({1}) = 1 /\ Net!First({2}) = 2
    BY DEF Net!First
  <1>3. QED  BY <1>1, <1>2 DEF Net!SrMap, VehicleSignals

-----------------------------------------------------------------------------
(* What a step of the network model makes of the signals it reads. *)
BeforeTicks == {"rx_signals", "decode", "apply_decode", "signals", "begin_ticks"}
Ticking == {"tick", "signals_to_messages", "pack"}
Sending == {"apply_encode", "encode"}
Ending == {"update", "tx_signals"}

PlainInv ==
    /\ net_pc \in BeforeTicks \cup Ticking \cup Sending \cup Ending \cup {"idle"}
    /\ net_netoff = FALSE /\ net_rx = <<>> /\ net_step = 1000 * StepSize
    /\ ~net_update_signals[1]
    /\ net_pc \in BeforeTicks \cup Ending \cup {"idle"} => ~net_needs_tx[1]
    /\ net_buffer[1] \in [VehicleSignals -> Pulse]
    /\ net_signal_vector[1] \in Pulse /\ net_signal_vector[2] \in Pulse
    /\ steps \in 0 .. Steps /\ shown \in BOOLEAN
    /\ net_pc \notin {"idle", "rx_signals"} => ran = Models
    /\ net_pc = "idle" => IF net_at_start THEN ran = {} ELSE ran = Models

CopyInv ==
    /\ net_pc # "idle" => \A v \in VehicleSignals : net_sv[v] = sv[v]
    /\ net_pc \in (BeforeTicks \ {"rx_signals"}) \cup Ticking =>
           net_signal_vector[1] = sv.set /\ net_signal_vector[2] = sv.clear
    /\ net_pc = "pack" => net_buffer[1] = Pulses
    /\ net_pc \in Sending => net_payload[1] = Pulses
    /\ net_pc \in Ending \cup {"idle"} =>
           IF DOMAIN net_tx = {} THEN sv.set = 0 /\ sv.clear = 0
                                 ELSE net_tx[1] = Pulses

(* Before the first step nothing is to be shown, and the lamp of the       *)
(* safety model is the one on the bus after the pulses of this step.       *)
LampInv ==
    /\ steps = 0 => sv.set = 0 /\ sv.clear = 0
    /\ lamp = IF sv.set # 0 THEN TRUE
              ELSE IF sv.clear # 0 THEN FALSE ELSE shown

(* The first step makes one tick, which arms the alarm. *)
FirstStepInv ==
    net_at_start =>
        /\ steps = 0 /\ net_since = 0
        /\ IF net_pc \in BeforeTicks \cup {"idle"}
           THEN ~net_init_tick_done ELSE net_init_tick_done
        /\ IF net_pc \in BeforeTicks \cup {"idle"} \/ net_due = 1
           THEN net_tick = 0 /\ net_alarm[1] = 0
           ELSE net_tick = 1 /\ net_alarm[1] = 20
        /\ net_due = 1 => net_pc = "tick"
        /\ net_due \in {0, 1}

(* Every other step makes the ticks left to the alarm, which fires, and    *)
(* never so many that the counter wraps.                                   *)
MaxTicks == (StepSize * 101) \div 100
TicksAt(n) == 1 + MaxTicks * n
LaterStepInv ==
    ~net_at_start =>
        /\ net_init_tick_done
        /\ net_alarm[1] \in 1 .. 20
        /\ net_tick \in Nat \ {0} /\ net_due \in Nat
        /\ net_pc \in BeforeTicks =>
               /\ net_since = 1000 * StepSize /\ net_due = 0
               /\ steps > 0 /\ net_tick <= TicksAt(steps - 1)
        /\ net_pc \notin BeforeTicks => net_tick + net_due <= TicksAt(steps)
        /\ net_pc \in Ticking =>
               /\ net_needs_tx[1] \/ net_due >= net_alarm[1]
               /\ net_needs_tx[1] => net_buffer_checksum[1] = 0
               /\ net_due = 0 => net_since = 0
        /\ net_pc \in (Ticking \ {"tick"}) \cup Sending \cup Ending \cup {"idle"}
               => net_due = 0
        /\ net_pc \in Sending => net_needs_tx[1]
        /\ net_pc \in Sending \cup Ending => net_since = 0
        /\ net_pc = "idle" => net_since = 1000 * StepSize

VehicleInv == PlainInv /\ CopyInv /\ LampInv /\ FirstStepInv /\ LaterStepInv

(* Steps as long as the cycle of EngineStatus, and a simulation in which   *)
(* the tick counter does not wrap.                                         *)
StepsCoverCycle == StepSize >= 20
TicksFit == TickMod \in Nat /\ TickMod > 1 /\ TicksAt(Steps) < TickMod

(* Where the network model goes, and what it leaves alone. *)
LEMMA NetFrame ==
    ASSUME NetVehicle
    PROVE  /\ ran = Models /\ ran' = Models
           /\ UNCHANGED <<brakeVars, steps, shown>>
           /\ UNCHANGED <<sv, out, ran, lamp, pedal_fault_active>>
  BY DEF NetVehicle, brakeVars, safetyVars, brakeHist

LEMMA PulseTypes ==
    ASSUME StepInv
    PROVE  /\ sv.set \in Pulse /\ sv.clear \in Pulse
           /\ sv["set"] = sv.set /\ sv["clear"] = sv.clear
  BY DEF StepInv, Signals, Pulse

LEMMA NetPlain ==
    ASSUME StepInv, PlainInv, CopyInv, NetVehicle
    PROVE  PlainInv'
  <1> USE NetFrame
  <1> USE DEF PlainInv, BeforeTicks, Ticking, Sending, Ending
  <1>1. CASE Net!RxSignals
    <2>1. /\ net_signal_vector'[1] = net_sv["set"]
          /\ net_signal_vector'[2] = net_sv["clear"]
      BY <1>1, Network, MapPulses DEF Net!RxSignals, VehicleSignals
    <2>2. net_sv["set"] = sv.set /\ net_sv["clear"] = sv.clear
      BY <1>1, PulseTypes DEF CopyInv, Net!RxSignals, VehicleSignals
    <2>3. QED  BY <1>1, <2>1, <2>2, PulseTypes DEF Net!RxSignals
  <1>2. CASE Net!DecodeFrame
    BY <1>2 DEF Net!DecodeFrame
  <1>3. CASE Net!DecodeDone \/ Net!BeginTicks \/ Net!Tick \/ Net!TicksDone
    BY <1>3 DEF Net!DecodeDone, Net!BeginTicks, Net!Tick, Net!TicksDone,
          Net!Sched!StepTicks, Net!Sched!MakeTick
  <1>4. CASE Net!ApplyDecode
    BY <1>4, Network DEF Net!ApplyDecode
  <1>5. CASE Net!MarshalToSignals \/ Net!UpdateSignals
    BY <1>5, Network DEF Net!MarshalToSignals, Net!UpdateSignals,
          Net!marshal_messages_to_signals
  <1>6. CASE Net!MarshalToMessages
    <2>1. net_buffer'[1] = [f \in VehicleSignals |->
                IF f = "set" THEN net_signal_vector[1] ELSE net_signal_vector[2]]
      BY <1>6, MarshalPulses DEF Net!MarshalToMessages
    <2>2. net_buffer'[1] \in [VehicleSignals -> Pulse]
      BY <2>1
    <2>3. QED  BY <1>6, <2>2 DEF Net!MarshalToMessages
  <1>7. CASE Net!Pack
    BY <1>7 DEF Net!Pack
  <1>8. CASE Net!ApplyEncode
    <2>1. ~Net!Altered(1)
      BY DEF Net!Altered, Plain
    <2>2. ~net_update_signals'[1] /\ net_buffer'[1] = net_buffer[1]
      BY <1>8, <2>1, Network DEF Net!ApplyEncode
    <2>3. QED  BY <1>8, <2>2 DEF Net!ApplyEncode
  <1>9. CASE Net!EncodeToBus
    BY <1>9, Network DEF Net!EncodeToBus
  <1>10. CASE Net!TxSignals
    BY <1>10 DEF Net!TxSignals, Net!Sched!AdvanceTime
  <1>11. QED
    BY <1>1, <1>2, <1>3, <1>4, <1>5, <1>6, <1>7, <1>8, <1>9, <1>10
       DEF NetVehicle, Net!model_step

LEMMA NetCopy ==
    ASSUME StepInv, PlainInv, CopyInv, LampInv, FirstStepInv, LaterStepInv,
           NetVehicle
    PROVE  CopyInv'
  <1> USE NetFrame
  <1> USE DEF CopyInv, BeforeTicks, Ticking, Sending, Ending
  <1>1. CASE Net!RxSignals
    <2>1. /\ net_signal_vector'[1] = net_sv["set"]
          /\ net_signal_vector'[2] = net_sv["clear"]
      BY <1>1, Network, MapPulses DEF Net!RxSignals, VehicleSignals
    <2>2. net_sv["set"] = sv.set /\ net_sv["clear"] = sv.clear
      BY <1>1, PulseTypes DEF Net!RxSignals, VehicleSignals
    <2>3. QED  BY <1>1, <2>1, <2>2, PulseTypes DEF Net!RxSignals
  <1>2. CASE Net!DecodeFrame
    BY <1>2 DEF PlainInv, Net!DecodeFrame
  <1>3. CASE Net!DecodeDone \/ Net!BeginTicks \/ Net!Tick \/ Net!TicksDone
             \/ Net!ApplyDecode
    BY <1>3 DEF Net!DecodeDone, Net!BeginTicks, Net!Tick, Net!TicksDone,
          Net!ApplyDecode, Net!Sched!StepTicks, Net!Sched!MakeTick
  <1>4. CASE Net!MarshalToSignals \/ Net!UpdateSignals
    <2>1. /\ net_signal_vector'[1] = net_signal_vector[1]
          /\ net_signal_vector'[2] = net_signal_vector[2]
      BY <1>4, Network DEF Net!MarshalToSignals, Net!UpdateSignals,
            Net!marshal_messages_to_signals, PlainInv
    <2>2. QED
      BY <1>4, <2>1 DEF Net!MarshalToSignals, Net!UpdateSignals, Pulses
  <1>5. CASE Net!MarshalToMessages
    <2>1. net_buffer'[1] = [f \in VehicleSignals |->
                IF f = "set" THEN net_signal_vector[1] ELSE net_signal_vector[2]]
      BY <1>5, MarshalPulses DEF Net!MarshalToMessages, PlainInv
    <2>2. net_signal_vector[1] = sv["set"] /\ net_signal_vector[2] = sv["clear"]
      BY <1>5, PulseTypes DEF Net!MarshalToMessages
    <2>3. net_buffer'[1] = Pulses'
      BY <2>1, <2>2 DEF Pulses, VehicleSignals
    <2>4. QED  BY <1>5, <2>3 DEF Net!MarshalToMessages
  <1>6. CASE Net!Pack
    <2>1. net_payload'[1] = [f \in VehicleSignals |-> net_buffer[1][f]]
      BY <1>6, Network DEF Net!Pack, Net!Packed, AllCarried
    <2>2. net_payload'[1] = Pulses'
      BY <1>6, <2>1 DEF Pulses, Net!Pack
    <2>3. QED  BY <1>6, <2>2 DEF Net!Pack
  <1>7. CASE Net!ApplyEncode
    <2>1. net_payload'[1] = net_payload[1]
      BY <1>7, Network DEF Net!ApplyEncode, Plain
    <2>2. QED  BY <1>7, <2>1 DEF Net!ApplyEncode, Pulses
  <1>8. CASE Net!EncodeToBus
    <2>1. net_tx' = [m \in {k \in {1} : net_needs_tx[k]} |-> net_payload[m]]
      BY <1>8, Network DEF Net!EncodeToBus
    <2>2. CASE net_needs_tx[1]
      <3>1. DOMAIN net_tx' = {1} /\ net_tx'[1] = Pulses
        BY <1>8, <2>1, <2>2 DEF Net!EncodeToBus
      <3>2. QED  BY <1>8, <3>1 DEF Net!EncodeToBus, Pulses
    <2>3. CASE ~net_needs_tx[1]
      <3>1. DOMAIN net_tx' = {}
        BY <2>1, <2>3
      <3>2. net_at_start
        BY <1>8, <2>3 DEF LaterStepInv, Net!EncodeToBus
      <3>3. sv.set = 0 /\ sv.clear = 0
        BY <3>2 DEF FirstStepInv, LampInv
      <3>4. QED  BY <1>8, <3>1, <3>3 DEF Net!EncodeToBus
    <2>4. QED  BY <2>2, <2>3
  <1>9. CASE Net!TxSignals
    BY <1>9 DEF Net!TxSignals, Net!Sched!AdvanceTime, Pulses
  <1>10. QED
    BY <1>1, <1>2, <1>3, <1>4, <1>5, <1>6, <1>7, <1>8, <1>9
       DEF NetVehicle, Net!model_step

LEMMA NetFirst ==
    ASSUME TicksFit, PlainInv, FirstStepInv, NetVehicle
    PROVE  FirstStepInv'
  <1> USE NetFrame
  <1> USE DEF FirstStepInv, BeforeTicks, Ticking, Sending, Ending
  <1> SUFFICES ASSUME net_at_start' PROVE FirstStepInv'
    OBVIOUS
  <1>1. CASE Net!RxSignals \/ Net!DecodeDone \/ Net!ApplyDecode
             \/ Net!MarshalToSignals
    <2>1. /\ UNCHANGED <<net_at_start, net_init_tick_done, net_alarm, net_tick,
                         net_due, net_since>>
          /\ net_pc \in BeforeTicks /\ net_pc' \in BeforeTicks
      BY <1>1 DEF Net!RxSignals, Net!DecodeDone, Net!ApplyDecode,
            Net!MarshalToSignals
    <2>2. net_due = 0
      BY <2>1
    <2>3. QED  BY <2>1, <2>2
  <1>2. CASE Net!DecodeFrame
    BY <1>2 DEF PlainInv, Net!DecodeFrame
  <1>3. CASE Net!BeginTicks
    <2>1. Net!Sched!TicksOf(0) = {0}
      BY DEF Net!Sched!TicksOf
    <2>2. net_due' = 1 /\ UNCHANGED <<net_tick, net_alarm, net_since>>
      BY <1>3, <2>1 DEF Net!BeginTicks, Net!Sched!StepTicks,
            Net!Sched!InitialTick
    <2>3. QED
      BY <1>3, <2>2 DEF Net!BeginTicks, Net!Sched!StepTicks
  <1>4. CASE Net!Tick
    <2> net_at_start /\ net_pc = "tick" /\ net_pc' = "tick"
      BY <1>4 DEF Net!Tick, Net!Sched!MakeTick
    <2>1. net_due = 1 /\ net_due' = 0 /\ net_since' = 0
      BY <1>4 DEF Net!Tick, Net!Sched!MakeTick
    <2>2. net_tick = 0 /\ net_alarm[1] = 0
      BY <1>4, <2>1 DEF Net!Sched!MakeTick
    <2>3. net_tick' = 1 /\ net_alarm'[1] = 20
      BY <1>4, <2>2, Network DEF TicksFit, Net!Tick, Net!Sched!MakeTick,
            Net!Sched!network_schedule_tick, Net!Sched!Rearmed,
            Net!Sched!Decremented, CycleTimes
    <2>4. net_init_tick_done' = net_init_tick_done /\ net_at_start' /\ steps' = 0
      BY <1>4 DEF Net!Tick, Net!Sched!MakeTick
    <2>5. net_init_tick_done'
      BY <2>4
    <2>6. QED  BY <2>1, <2>3, <2>4, <2>5
  <1>5. CASE Net!TicksDone \/ Net!MarshalToMessages \/ Net!Pack
             \/ Net!ApplyEncode \/ Net!EncodeToBus \/ Net!UpdateSignals
    <2>1. /\ UNCHANGED <<net_at_start, net_since, net_due, net_tick, net_alarm,
                         net_init_tick_done>>
          /\ net_pc' \notin BeforeTicks \cup {"idle", "tick"}
          /\ net_pc \notin BeforeTicks \cup {"idle"}
          /\ net_pc = "tick" => net_due = 0
      BY <1>5 DEF Net!TicksDone, Net!MarshalToMessages, Net!Pack,
            Net!ApplyEncode, Net!EncodeToBus, Net!UpdateSignals
    <2>2. net_due = 0 /\ net_init_tick_done /\ net_since = 0
          /\ net_tick = 1 /\ net_alarm[1] = 20 /\ steps' = 0
      BY <2>1
    <2>3. net_init_tick_done'
      BY <2>1, <2>2
    <2>4. QED  BY <2>1, <2>2, <2>3
  <1>6. CASE Net!TxSignals
    BY <1>6 DEF Net!TxSignals, Net!Sched!AdvanceTime
  <1>7. QED
    BY <1>1, <1>2, <1>3, <1>4, <1>5, <1>6 DEF NetVehicle, Net!model_step

LEMMA TicksOfStep ==
    ASSUME StepsCoverCycle
    PROVE  /\ MaxTicks \in Nat
           /\ Net!Sched!TicksOf(1000 * StepSize) \subseteq 20 .. MaxTicks
  <1> DEFINE n == StepSize
             us == 1000 * n
  <1>1. n \in Nat /\ n >= 20
    BY BrakeAssumption DEF StepsCoverCycle
  <1>2. (us * 101) \div 100000 = (n * 101) \div 100
    BY <1>1
  <1>3. (n * 101) \div 100 >= 20
    BY <1>1
  <1>4. (us * 101) % 100000 = 0 => (n * 101) \div 100 - 1 >= 20
    <2>1. n = 20 => (us * 101) % 100000 = 20000
      OBVIOUS
    <2>2. n >= 21 => (n * 101) \div 100 >= 21
      BY <1>1
    <2>3. QED  BY <1>1, <2>1, <2>2
  <1>5. Net!Sched!TicksOf(us) \subseteq {MaxTicks - 1, MaxTicks} \cap (20 .. MaxTicks)
    BY <1>1, <1>2, <1>3, <1>4 DEF Net!Sched!TicksOf, MaxTicks
  <1>6. QED  BY <1>1, <1>3, <1>5 DEF MaxTicks

LEMMA TicksAtStep ==
    ASSUME StepsCoverCycle, NEW n \in Nat
    PROVE  /\ TicksAt(n) \in Nat
           /\ TicksAt(n + 1) = TicksAt(n) + MaxTicks
           /\ \A k \in Nat : k <= n => TicksAt(k) <= TicksAt(n)
  <1>1. MaxTicks \in Nat
    BY TicksOfStep
  <1>2. ASSUME NEW k \in Nat, k <= n PROVE MaxTicks * k <= MaxTicks * n
    <2>1. MaxTicks * n = MaxTicks * k + MaxTicks * (n - k)
      BY <1>1
    <2>2. MaxTicks * (n - k) >= 0
      BY <1>1, <1>2
    <2>3. QED  BY <1>1, <2>1, <2>2
  <1>3. MaxTicks * n \in Nat /\ MaxTicks * (n + 1) = MaxTicks * n + MaxTicks
    BY <1>1
  <1>4. \A k \in Nat : MaxTicks * k \in Nat
    BY <1>1
  <1>5. QED  BY <1>1, <1>2, <1>3, <1>4 DEF TicksAt

LEMMA NetLater ==
    ASSUME StepsCoverCycle, TicksFit, PlainInv, FirstStepInv, LaterStepInv,
           NetVehicle
    PROVE  LaterStepInv'
  <1> USE NetFrame
  <1> USE DEF BeforeTicks, Ticking, Sending, Ending
  <1> SUFFICES ASSUME ~net_at_start' PROVE LaterStepInv'
    BY DEF LaterStepInv
  <1> steps \in Nat /\ steps <= Steps
    BY VehicleAssumption DEF PlainInv
  <1>1. CASE Net!RxSignals \/ Net!DecodeDone \/ Net!ApplyDecode
             \/ Net!MarshalToSignals
    <2>1. /\ net_pc \in BeforeTicks /\ net_pc' \in BeforeTicks
          /\ UNCHANGED <<net_at_start, net_init_tick_done, net_alarm, net_tick,
                         net_due, net_since>>
      BY <1>1 DEF Net!RxSignals, Net!DecodeDone, Net!ApplyDecode,
            Net!MarshalToSignals
    <2>2. net_pc' \notin Ticking \cup Sending \cup Ending \cup {"idle"}
      BY <2>1
    <2>3. QED  BY <2>1, <2>2 DEF LaterStepInv
  <1>2. CASE Net!DecodeFrame
    BY <1>2 DEF PlainInv, Net!DecodeFrame
  <1>3. CASE Net!BeginTicks
    <2>1. /\ ~net_at_start /\ net_pc = "begin_ticks" /\ net_pc' = "tick"
          /\ UNCHANGED <<net_tick, net_alarm, net_needs_tx>>
          /\ net_init_tick_done'
      BY <1>3 DEF Net!BeginTicks, Net!Sched!StepTicks, LaterStepInv
    <2>2. /\ net_since = 1000 * StepSize /\ net_tick <= TicksAt(steps - 1)
          /\ net_tick \in Nat \ {0} /\ net_alarm[1] \in 1 .. 20
          /\ steps - 1 \in Nat /\ ~net_needs_tx[1]
      BY <2>1 DEF LaterStepInv, PlainInv
    <2>3. net_due' \in Net!Sched!TicksOf(1000 * StepSize)
      <3>1. PICK ticks \in Net!Sched!TicksOf(1000 * StepSize) :
                net_due' = 0 + ticks
        BY <1>3, <2>1, <2>2 DEF Net!BeginTicks, Net!Sched!StepTicks,
              Net!Sched!InitialTick
      <3>2. ticks \in Int
        BY TicksOfStep
      <3>3. QED  BY <3>1, <3>2
    <2>4. net_due' \in 20 .. MaxTicks /\ MaxTicks \in Nat
      BY <2>3, TicksOfStep
    <2>5. TicksAt(steps) = TicksAt(steps - 1) + MaxTicks
          /\ TicksAt(steps - 1) \in Nat
      <3>1. (steps - 1) + 1 = steps
        OBVIOUS
      <3>2. QED  BY <2>2, <3>1, TicksAtStep
    <2>6. net_tick' + net_due' <= TicksAt(steps)
      BY <2>1, <2>2, <2>4, <2>5
    <2>7. net_due' >= net_alarm'[1] /\ net_due' # 0 /\ net_due' \in Nat
      BY <2>1, <2>2, <2>4
    <2>8. QED  BY <2>1, <2>2, <2>6, <2>7 DEF LaterStepInv
  <1>4. CASE Net!Tick
    <2>1. /\ ~net_at_start /\ net_pc = "tick" /\ net_pc' = "tick"
          /\ net_due > 0 /\ net_due' = net_due - 1 /\ net_since' = 0
          /\ net_init_tick_done' = net_init_tick_done
      BY <1>4 DEF Net!Tick, Net!Sched!MakeTick
    <2>2. /\ net_init_tick_done
          /\ net_tick \in Nat \ {0} /\ net_due \in Nat
          /\ net_alarm[1] \in 1 .. 20 /\ net_tick + net_due <= TicksAt(steps)
          /\ net_needs_tx[1] \/ net_due >= net_alarm[1]
          /\ net_needs_tx[1] => net_buffer_checksum[1] = 0
      BY <2>1 DEF LaterStepInv
    <2>3. net_tick' = net_tick + 1
      <3>1. TicksAt(steps) < TickMod /\ TicksAt(steps) \in Nat /\ TickMod \in Nat
        BY TicksAtStep, VehicleAssumption DEF TicksFit
      <3>2. (net_tick + 1) % TickMod = net_tick + 1
        BY <2>1, <2>2, <3>1
      <3>3. QED
        BY <1>4, <3>2 DEF Net!Tick, Net!Sched!MakeTick,
              Net!Sched!network_schedule_tick
    <2>4. /\ net_needs_tx'[1] <=> net_alarm[1] = 1 \/ net_needs_tx[1]
          /\ net_alarm'[1] = IF net_alarm[1] = 1 THEN 20 ELSE net_alarm[1] - 1
          /\ net_buffer_checksum'[1] = IF net_alarm[1] = 1 THEN 0
                                       ELSE net_buffer_checksum[1]
      <3>1. /\ net_needs_tx' = [m \in {1} |-> Net!Sched!Fires(m) \/ net_needs_tx[m]]
            /\ net_alarm' = [m \in {1} |-> Net!Sched!Rearmed(m)]
            /\ net_buffer_checksum' = [m \in {1} |-> Net!Sched!Unsummed(m)]
        BY <1>4, Network DEF Net!Tick, Net!Sched!MakeTick,
              Net!Sched!network_schedule_tick
      <3>2. Net!Sched!Fires(1) <=> net_alarm[1] = 1
        BY <2>2, Network DEF Net!Sched!Fires
      <3>3. Net!Sched!Decremented(1) = net_alarm[1] - 1
        BY <2>2 DEF Net!Sched!Decremented
      <3>4. net_needs_tx'[1] <=> Net!Sched!Fires(1) \/ net_needs_tx[1]
        BY <3>1, Zenon
      <3>5. net_alarm'[1] = IF net_alarm[1] = 1 THEN 20 ELSE net_alarm[1] - 1
        BY <2>2, <3>1, <3>3 DEF Net!Sched!Rearmed, CycleTimes
      <3>6. net_buffer_checksum'[1] = IF net_alarm[1] = 1 THEN 0
                                      ELSE net_buffer_checksum[1]
        BY <3>1, <3>2 DEF Net!Sched!Unsummed
      <3>7. QED  BY <3>2, <3>4, <3>5, <3>6
    <2>5. TicksAt(steps) \in Nat
      BY TicksAtStep
    <2>6. net_tick' + net_due' <= TicksAt(steps) /\ net_tick' \in Nat \ {0}
      BY <2>1, <2>2, <2>3, <2>5
    <2>7. net_alarm'[1] \in 1 .. 20 /\ net_due' \in Nat
      BY <2>1, <2>2, <2>4
    <2>8. /\ net_needs_tx'[1] \/ net_due' >= net_alarm'[1]
          /\ net_needs_tx'[1] => net_buffer_checksum'[1] = 0
      <3>1. CASE net_alarm[1] = 1
        BY <2>4, <3>1
      <3>2. CASE net_alarm[1] # 1
        BY <2>1, <2>2, <2>4, <3>2
      <3>3. QED  BY <3>1, <3>2
    <2>9. QED
      BY <2>1, <2>2, <2>6, <2>7, <2>8, NetFrame DEF LaterStepInv
  <1>5. CASE Net!TicksDone \/ Net!MarshalToMessages
    BY <1>5 DEF LaterStepInv, Net!TicksDone, Net!MarshalToMessages
  <1>6. CASE Net!Pack
    <2>1. /\ ~net_at_start /\ net_pc = "pack" /\ net_pc' = "apply_encode"
          /\ UNCHANGED <<net_since, net_due, net_tick, net_alarm,
                         net_init_tick_done>>
      BY <1>6 DEF Net!Pack
    <2>2. net_due = 0 /\ net_since = 0 /\ net_alarm[1] \in 1 .. 20
      BY <2>1 DEF LaterStepInv
    <2>3. net_needs_tx[1] /\ net_buffer_checksum[1] = 0
      BY <2>1, <2>2 DEF LaterStepInv
    <2>4. HashOf(net_buffer[1]) # 0
      BY DEF PlainInv, HashOf, Pulse, Brake_Pedal_Id, VehicleSignals
    <2>5. net_needs_tx'[1]
      BY <1>6, <2>3, <2>4, Network DEF Net!Pack, Net!Flagged, Net!Changed
    <2>6. QED  BY <2>1, <2>2, <2>5 DEF LaterStepInv
  <1>7. CASE Net!ApplyEncode
    <2>1. /\ ~net_at_start /\ net_pc = "apply_encode" /\ net_pc' = "encode"
          /\ UNCHANGED <<net_since, net_due, net_tick, net_alarm,
                         net_init_tick_done>>
      BY <1>7 DEF Net!ApplyEncode
    <2>2. net_needs_tx'[1]
      BY <1>7, <2>1, Network DEF Net!ApplyEncode, Net!Sendable, LaterStepInv,
            PlainInv
    <2>3. QED  BY <2>1, <2>2 DEF LaterStepInv
  <1>8. CASE Net!EncodeToBus \/ Net!UpdateSignals
    BY <1>8 DEF LaterStepInv, Net!EncodeToBus, Net!UpdateSignals
  <1>9. CASE Net!TxSignals
    <2>1. /\ net_pc = "tx_signals" /\ net_pc' = "idle"
          /\ net_since' = net_since + net_step
          /\ UNCHANGED <<net_due, net_tick, net_alarm, net_init_tick_done>>
      BY <1>9 DEF Net!TxSignals, Net!Sched!AdvanceTime
    <2>2. 0 + 1000 * StepSize = 1000 * StepSize
      BY BrakeAssumption
    <2>3. CASE net_at_start
      <3>1. /\ net_since = 0 /\ net_due = 0 /\ net_tick = 1
            /\ net_alarm[1] = 20 /\ net_init_tick_done
        BY <2>1, <2>3 DEF FirstStepInv
      <3>2. 1 + 0 <= TicksAt(steps)
        BY TicksAtStep, TicksOfStep, <2>3 DEF FirstStepInv, TicksAt
      <3>3. QED  BY <2>1, <2>2, <3>1, <3>2 DEF LaterStepInv, PlainInv
    <2>4. CASE ~net_at_start
      BY <2>1, <2>2, <2>4 DEF LaterStepInv, PlainInv
    <2>5. QED  BY <2>3, <2>4
  <1>10. QED
    BY <1>1, <1>2, <1>3, <1>4, <1>5, <1>6, <1>7, <1>8, <1>9
       DEF NetVehicle, Net!model_step

LEMMA NetLamp ==
    ASSUME LampInv, NetVehicle
    PROVE  LampInv'
  BY NetFrame DEF LampInv

LEMMA ConnectKeeps ==
    ASSUME StepInv, VehicleInv, Connect
    PROVE  VehicleInv'
  <1> USE DEF VehicleInv, BeforeTicks, Ticking, Sending, Ending
  <1>1. /\ net_pc = "idle" /\ net_pc' = "rx_signals" /\ ran = {}
        /\ net_sv' = [v \in VehicleSignals |-> sv[v]]
        /\ net_netoff' = FALSE
        /\ UNCHANGED <<brakeVars, steps, shown>>
        /\ UNCHANGED <<sv, out, ran, lamp>>
        /\ UNCHANGED <<net_tx, net_signal_vector, net_update_signals, net_buffer,
                       net_payload, net_buffer_checksum, net_needs_tx>>
        /\ UNCHANGED <<net_tick, net_alarm, net_step, net_since, net_at_start,
                       net_init_tick_done, net_due>>
    BY DEF Connect, Net!Exchange, brakeVars, safetyVars, brakeHist
  <1>2. net_rx' = <<>>
    BY DEF Connect, Net!Exchange
  <1>3. "pedal" \in Models
    BY DEF Models
  <1>4. net_at_start
    BY <1>1, <1>3 DEF PlainInv
  <1>5. PlainInv'
    BY <1>1, <1>2 DEF PlainInv
  <1>6. CopyInv'
    BY <1>1 DEF CopyInv
  <1>7. LampInv'
    BY <1>1 DEF LampInv
  <1>8. FirstStepInv'
    <2>1. net_due = 0 /\ ~net_init_tick_done
      BY <1>1, <1>4 DEF FirstStepInv
    <2>2. ~net_init_tick_done'
      BY <1>1, <2>1
    <2>3. QED  BY <1>1, <1>4, <2>1, <2>2 DEF FirstStepInv
  <1>9. LaterStepInv'
    BY <1>1, <1>4 DEF LaterStepInv
  <1>10. QED  BY <1>5, <1>6, <1>7, <1>8, <1>9

LEMMA ModelKeeps ==
    ASSUME StepInv, VehicleInv, VehicleModel
    PROVE  VehicleInv'
  <1>1. /\ net_pc = "rx_signals"
        /\ UNCHANGED <<sv, lamp, steps, shown>>
        /\ UNCHANGED netVars
    BY DEF VehicleModel, ModelStep, PedalStep, BrakeStep, SafetyStep,
           DriverStep, Step, brakeHist
  <1>2. PlainInv'
    BY <1>1 DEF VehicleInv, PlainInv, netVars
  <1>3. CopyInv'
    BY <1>1 DEF VehicleInv, CopyInv, Pulses, netVars
  <1>4. LampInv'
    BY <1>1 DEF VehicleInv, LampInv
  <1>5. FirstStepInv'
    BY <1>1 DEF VehicleInv, FirstStepInv, netVars
  <1>6. LaterStepInv'
    BY <1>1 DEF VehicleInv, LaterStepInv, netVars
  <1>7. QED  BY <1>2, <1>3, <1>4, <1>5, <1>6 DEF VehicleInv

(* After the pulses of this step the receiver shows the lamp of the model. *)
LEMMA ShownIsLamp ==
    ASSUME StepInv, PlainInv, CopyInv, LampInv, net_pc = "idle"
    PROVE  Shown = lamp
  <1>1. CASE DOMAIN net_tx = {}
    <2>1. sv.set = 0 /\ sv.clear = 0
      BY <1>1 DEF CopyInv, Ending
    <2>2. QED  BY <1>1, <2>1 DEF Shown, LampInv
  <1>2. CASE DOMAIN net_tx # {}
    <2>1. net_tx[1] = Pulses
      BY <1>2 DEF CopyInv, Ending
    <2>2. net_tx[1]["set"] = sv.set /\ net_tx[1]["clear"] = sv.clear
      BY <2>1, PulseTypes DEF Pulses, VehicleSignals
    <2>3. QED  BY <1>2, <2>2 DEF Shown, LampInv
  <1>3. QED  BY <1>1, <1>2

LEMMA SynchroniseKeeps ==
    ASSUME StepInv, VehicleInv, VehicleSynchronise
    PROVE  VehicleInv'
  <1> USE DEF VehicleInv, BeforeTicks, Ticking, Sending, Ending
  <1>1. /\ net_pc = "idle" /\ net_pc' = "rx_signals"
        /\ net_netoff' = FALSE /\ net_rx' = <<>>
        /\ ran = Models /\ ran' = {}
        /\ steps < Steps /\ steps' = steps + 1
        /\ lamp' = Switched /\ shown' = Shown
        /\ UNCHANGED <<net_tx, net_signal_vector, net_update_signals, net_buffer,
                       net_payload, net_buffer_checksum, net_needs_tx>>
        /\ UNCHANGED <<net_tick, net_alarm, net_step, net_since, net_at_start,
                       net_init_tick_done, net_due>>
    BY DEF VehicleSynchronise, Synchronise, Net!Exchange
  <1>2. net_sv' = [v \in VehicleSignals |-> sv'[v]]
    BY DEF VehicleSynchronise, Exchanged
  <1>3. "pedal" \in Models
    BY DEF Models
  <1>4. ~net_at_start
    BY <1>1, <1>3 DEF PlainInv
  <1>5. Shown = lamp /\ lamp \in BOOLEAN
    BY <1>1, ShownIsLamp DEF StepInv
  <1>6. sv'.set = out.set /\ sv'.clear = out.clear
    <2>1. PICK pos \in Position, ac \in Counter :
              sv' = [out EXCEPT !.hmi_pos = pos, !.pos_ac = ac]
      BY DEF VehicleSynchronise, Synchronise
    <2>2. QED  BY <2>1 DEF StepInv, Signals
  <1>7. steps \in 0 .. Steps /\ steps' \in 0 .. Steps /\ steps' # 0 /\ steps' > 0
    BY <1>1, VehicleAssumption DEF PlainInv
  <1>8. PlainInv'
    BY <1>1, <1>4, <1>5, <1>7 DEF PlainInv
  <1>9. CopyInv'
    BY <1>1, <1>2 DEF CopyInv
  <1>10. LampInv'
    BY <1>1, <1>5, <1>6, <1>7 DEF LampInv, Switched
  <1>11. FirstStepInv'
    BY <1>1, <1>4 DEF FirstStepInv
  <1>12. LaterStepInv'
    <2>1. /\ net_init_tick_done /\ net_alarm[1] \in 1 .. 20
          /\ net_tick \in Nat \ {0} /\ net_due = 0
          /\ net_since = 1000 * StepSize /\ net_tick + net_due <= TicksAt(steps)
      BY <1>1, <1>4 DEF LaterStepInv
    <2>2. steps' - 1 = steps /\ net_tick <= TicksAt(steps)
      BY <1>1, <1>7, <2>1
    <2>3. net_init_tick_done'
      BY <1>1, <2>1
    <2>4. QED  BY <1>1, <1>7, <2>1, <2>2, <2>3 DEF LaterStepInv
  <1>13. QED  BY <1>8, <1>9, <1>10, <1>11, <1>12

LEMMA VehicleInitInv == VehicleInit => VehicleInv
  <1> SUFFICES ASSUME VehicleInit PROVE VehicleInv
    OBVIOUS
  <1> USE DEF BeforeTicks, Ticking, Sending, Ending
  <1>1. /\ net_pc = "idle" /\ net_netoff = FALSE /\ net_rx = <<>>
        /\ net_tx = <<>> /\ net_step = 1000 * StepSize
        /\ net_since = 0 /\ net_at_start /\ ~net_init_tick_done
        /\ net_due = 0 /\ net_tick = 0 /\ steps = 0 /\ shown = FALSE
    BY DEF VehicleInit, Net!Init, Net!Sched!ClockInit,
           Net!Sched!network_schedule_reset
  <1>2. ~net_update_signals[1] /\ ~net_needs_tx[1] /\ net_alarm[1] = 0
    BY Network DEF VehicleInit, Net!Init, Net!Sched!ClockInit,
       Net!Sched!network_schedule_reset
  <1>3. Net!InitVector[1] = 0 /\ Net!InitVector[2] = 0 /\ 0 \in Pulse
    BY Network DEF Net!InitVector, Pulse
  <1>4. net_signal_vector[1] = 0 /\ net_signal_vector[2] = 0
    BY <1>3 DEF VehicleInit, Net!Init
  <1>5. net_buffer[1] \in [VehicleSignals -> Pulse]
    <2>1. Net!InitBuffer[1] = [f \in VehicleSignals |->
              IF f = "set" THEN Net!InitVector[1] ELSE Net!InitVector[2]]
      BY <1>3, MarshalPulses DEF Net!InitBuffer
    <2>2. QED  BY <1>3, <2>1 DEF VehicleInit, Net!Init
  <1>6. ran = {} /\ sv.set = 0 /\ sv.clear = 0 /\ lamp = FALSE
    BY DEF VehicleInit, BrakeInit
  <1>7. DOMAIN net_tx = {}
    BY <1>1
  <1>8. PlainInv
    <2>1. steps \in 0 .. Steps /\ shown \in BOOLEAN
      <3>1. steps = 0 /\ 0 \in 0 .. Steps
        BY <1>1, VehicleAssumption, SMT
      <3>2. shown = FALSE
        BY <1>1, Zenon
      <3>3. shown \in BOOLEAN
        BY <3>2, Zenon
      <3>4. QED  BY <3>1, <3>3
    <2>2. /\ net_signal_vector[1] \in Pulse /\ net_signal_vector[2] \in Pulse
          /\ net_pc \notin BeforeTicks /\ net_pc = "idle"
      BY <1>1, <1>3, <1>4
    <2>3. IF net_at_start THEN ran = {} ELSE ran = Models
      BY <1>1, <1>6
    <2>4. QED  BY <1>1, <1>2, <1>5, <2>1, <2>2, <2>3 DEF PlainInv
  <1>9. CopyInv
    BY <1>1, <1>6, <1>7 DEF CopyInv
  <1>10. LampInv
    BY <1>1, <1>6 DEF LampInv
  <1>11. FirstStepInv
    BY <1>1, <1>2 DEF FirstStepInv
  <1>12. LaterStepInv
    BY <1>1 DEF LaterStepInv
  <1>13. QED  BY <1>8, <1>9, <1>10, <1>11, <1>12 DEF VehicleInv

LEMMA VehicleKeeps ==
    ASSUME StepsCoverCycle, TicksFit, StepInv, VehicleInv,
           [VehicleNext]_vehicleVars
    PROVE  VehicleInv'
  <1>1. CASE Connect
    BY <1>1, ConnectKeeps
  <1>2. CASE VehicleModel
    BY <1>2, ModelKeeps
  <1>3. CASE NetVehicle
    BY <1>3, NetPlain, NetCopy, NetLamp, NetFirst, NetLater DEF VehicleInv
  <1>4. CASE VehicleSynchronise
    BY <1>4, SynchroniseKeeps
  <1>5. CASE UNCHANGED vehicleVars
    BY <1>5 DEF vehicleVars, netVars, brakeVars, VehicleInv, PlainInv, CopyInv,
          Pulses, LampInv, FirstStepInv, LaterStepInv
  <1>6. QED  BY <1>1, <1>2, <1>3, <1>4, <1>5 DEF VehicleNext

(* No pulse of the safety model is missing on the bus when the steps are   *)
(* no shorter than the cycle of EngineStatus: the alarm then fires in      *)
(* every step but the first, in which there is nothing to show.            *)
THEOREM PulsesReachBus ==
    ASSUME StepsCoverCycle, TicksFit
    PROVE  VehicleSpec => []PulsesOnBus
  <1>1. VehicleInit => StepInv /\ VehicleInv
    BY InitStep, VehicleInitInv DEF VehicleInit
  <1>2. StepInv /\ VehicleInv /\ [VehicleNext]_vehicleVars
            => StepInv' /\ VehicleInv'
    BY NextStep, VehicleStep, VehicleKeeps
  <1>3. StepInv /\ VehicleInv => PulsesOnBus
    BY ShownIsLamp DEF VehicleInv, PulsesOnBus
  <1>4. QED  BY <1>1, <1>2, <1>3, PTL DEF VehicleSpec
=============================================================================
