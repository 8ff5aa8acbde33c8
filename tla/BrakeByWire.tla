---------------------------- MODULE BrakeByWire -----------------------------
(***************************************************************************)
(* The models of the brake-by-wire example (pedal.c, brake.c, safety.c,    *)
(* driver.c) in co-simulation: every model makes a step of its own on the  *)
(* signals the last synchronisation gave it, in any order, and the next    *)
(* synchronisation publishes what they wrote.  The driver operates the     *)
(* pedal, and the alive counter of the pedal position comes from outside.  *)
(*                                                                         *)
(* Times are in milliseconds.  A definition marked "fault" is the          *)
(* definition after it with a plausible mistake; the specification does    *)
(* not use it.                                                             *)
(***************************************************************************)
EXTENDS Integers

CONSTANTS
    Position,       \* of the pedal
    Counter,        \* values of BrakePedalPos_AC, 0 among them
    StepSize        \* of the simulation

Limit == 100
LongAgo == Limit + 2 * StepSize + 1     \* bound: times above are the same
Brake_Pedal_Id == 42                    \* SAFETY_BRAKE_PEDAL_ID

ASSUME BrakeAssumption ==
    /\ Position \subseteq Nat /\ 0 \in Position
    /\ Counter \subseteq Int /\ 0 \in Counter
    /\ StepSize \in Nat \ {0}

VARIABLES
    sv,                 \* the signals, as the models see them in a step
    out,                \* what the models have written in this step
    ran,                \* models that have made their step
    alive_counter,      \* of the safety model
    since_sample,       \*   model time - last_sample
    pedal_fault_active,
    stale,              \* history: time since BrakePedalPos_AC changed
    pedal,              \* history: positions of the pedal in the last steps
    lamp                \* history: a lamp switched by CheckEngineSet, -Clear

safetyVars == <<alive_counter, since_sample, pedal_fault_active>>
brakeHist  == <<stale, pedal, lamp>>
brakeVars  == <<sv, out, ran, safetyVars, brakeHist>>

Models == {"pedal", "brake", "safety", "driver"}
Signals == [hmi_pos : Position, hmi_force : Position, pos : Position,
            pos_ac : Counter, force : Position, linear : Nat,
            fault : {0, 1},
            set : {0, Brake_Pedal_Id}, clear : {0, Brake_Pedal_Id}]

BrakeInit ==
    /\ sv = [hmi_pos |-> 0, hmi_force |-> 0,            \* channel hmi
             pos |-> 0, pos_ac |-> 0, force |-> 0,      \* channel physical
             linear |-> 0,                              \* channel wire
             fault |-> 0,                               \* channel model
             set |-> 0, clear |-> 0]                    \* channel vehicle
    /\ out = sv
    /\ ran = {}
    /\ alive_counter = 0 /\ since_sample = 0 /\ pedal_fault_active = FALSE
    /\ stale = 0 /\ pedal = <<0, 0, 0>> /\ lamp = FALSE

Later(t) == IF t + StepSize > LongAgo THEN LongAgo ELSE t + StepSize

-----------------------------------------------------------------------------
Step(model) == model \notin ran /\ ran' = ran \cup {model}

PedalStep ==
    /\ Step("pedal")
    /\ out' = [out EXCEPT !.pos = sv.hmi_pos,
                          !.hmi_force = sv.force,
                          !.linear = sv.hmi_pos * 5]
    /\ UNCHANGED <<sv, safetyVars, brakeHist>>

(* The pedal is 0..1 or 0..5 volts. *)
RequestUnscaled == IF sv.fault # 0 THEN sv.linear ELSE sv.pos   \* fault
Request == IF sv.fault # 0 THEN sv.linear \div 5 ELSE sv.pos

BrakeStep ==
    /\ Step("brake")
    /\ out' = [out EXCEPT !.force = Request]
    /\ UNCHANGED <<sv, safetyVars, brakeHist>>

(* Two times that differ by the limit differ by a little more or less in   *)
(* floating point.                                                         *)
Overdue == IF since_sample = Limit THEN BOOLEAN ELSE {since_sample > Limit}

SampledNever(changed) == since_sample                       \* fault
Sampled(changed) == IF changed THEN 0 ELSE since_sample

ActiveBefore(fault) == pedal_fault_active \/ fault          \* fault
ActiveAfter(fault) == fault

SafetyStep ==
    /\ Step("safety")
    /\ \E overdue \in Overdue :
          LET changed == sv.pos_ac # alive_counter
              fault == ~changed /\ overdue
          IN  /\ out' = [out EXCEPT
                    !.fault = IF fault THEN 1 ELSE 0,
                    !.set = IF fault /\ ~pedal_fault_active
                            THEN Brake_Pedal_Id ELSE 0,
                    !.clear = IF ~fault /\ pedal_fault_active
                              THEN Brake_Pedal_Id ELSE 0]
              /\ since_sample' = Sampled(changed)
              /\ pedal_fault_active' = ActiveAfter(fault)
    /\ alive_counter' = sv.pos_ac
    /\ UNCHANGED <<sv, brakeHist>>

(* The driver model does nothing yet; the driver is in Synchronise. *)
DriverStep ==
    /\ Step("driver")
    /\ UNCHANGED <<sv, out, safetyVars, brakeHist>>

Switched == IF out.set # 0 THEN TRUE ELSE IF out.clear # 0 THEN FALSE ELSE lamp

Synchronise ==
    /\ ran = Models
    /\ ran' = {}
    /\ \E pos \in Position, ac \in Counter :
          /\ sv' = [out EXCEPT !.hmi_pos = pos, !.pos_ac = ac]
          /\ stale' = IF ac = sv.pos_ac THEN Later(stale) ELSE 0
          /\ pedal' = <<pos, pedal[1], pedal[2]>>
    /\ out' = sv'
    /\ since_sample' = Later(since_sample)
    /\ lamp' = Switched
    /\ UNCHANGED <<alive_counter, pedal_fault_active>>

ModelStep == PedalStep \/ BrakeStep \/ SafetyStep \/ DriverStep
BrakeNext == ModelStep \/ Synchronise

BrakeSpec == BrakeInit /\ [][BrakeNext]_brakeVars

-----------------------------------------------------------------------------
(* The signals of the example have their types: a position or a force is a *)
(* position of the pedal, whatever wire it took.                           *)
BrakeTypeOK ==
    /\ sv \in Signals /\ out \in Signals
    /\ ran \subseteq Models
    /\ alive_counter \in Counter
    /\ since_sample \in 0 .. LongAgo /\ stale \in 0 .. LongAgo
    /\ pedal_fault_active \in BOOLEAN /\ lamp \in BOOLEAN
    /\ pedal \in Position \X Position \X Position

(* The brake force is the position the pedal had two steps before, also in *)
(* the steps in which the brake changes over to the wire of a faulty pedal *)
(* or back.                                                                *)
ForceFollowsPedal == ran = {} => sv.force = pedal[3]

(* A fault is published in the step after the limit, not for an alive      *)
(* counter that changed within the limit, and it is over when the counter  *)
(* changes again.                                                          *)
FaultTimely ==
    ran = {} /\ stale >= StepSize =>
        /\ stale - StepSize > Limit => sv.fault = 1
        /\ stale - StepSize < Limit => sv.fault = 0

(* The pulses of the safety model alternate and none is missing: a lamp    *)
(* they switch shows whether the brake works with a faulty pedal.          *)
LampShowsFault == ran = {} => (lamp <=> sv.fault = 1)
=============================================================================
