----------------------------- MODULE VehicleBus -----------------------------
(***************************************************************************)
(* The brake-by-wire example with its network model net_vehicle, which     *)
(* sends the signals of the safety model as message EngineStatus.          *)
(*                                                                         *)
(* The network model reads the signals of the last synchronisation and     *)
(* writes only frames, so that its step may come last.  The frames of      *)
(* net_brake, on the same bus, have ids it does not know.                  *)
(***************************************************************************)
EXTENDS BrakeByWire

CONSTANTS
    TickMod,            \* see NetworkModel
    Steps               \* bound: synchronisations of a simulation

ASSUME VehicleAssumption == Steps \in Nat

VARIABLES
    net_pc, net_sv, net_netoff, net_rx, net_tx, net_signal_vector, net_buffer,
    net_payload, net_buffer_checksum, net_needs_tx, net_update_signals,
    net_tick, net_alarm, net_step, net_since, net_at_start,
    net_init_tick_done, net_due, net_bus, net_heard, net_unsent,
    steps,              \* synchronisations so far
    shown               \* history: a lamp the frames on the bus switch

netVars ==
    <<net_pc, net_sv, net_netoff, net_rx, net_tx, net_signal_vector,
      net_buffer, net_payload, net_buffer_checksum, net_needs_tx,
      net_update_signals, net_tick, net_alarm, net_step, net_since,
      net_at_start, net_init_tick_done, net_due, net_bus, net_heard,
      net_unsent>>
vehicleVars == <<brakeVars, netVars, steps, shown>>

-----------------------------------------------------------------------------
(* The network description of vehicle.dbc: message 400 with two signals of *)
(* a signed byte, sent every 20 ms.                                        *)
VehicleSignals == {"set", "clear"}
CycleTimes == <<20>>

EncByte(s, v) == ((v + 128) % 256) - 128
DecByte(s, r) == r
InByte(s, r) == r \in -128 .. 127
AllCarried(m, f, x) == TRUE
NoMux(m) == "set"
HashOf(p) == 1 + p["set"] + 43 * p["clear"]
Plain(m, p) == p
NoFunction(m, p) == TRUE

Net == INSTANCE NetworkModel WITH
    NMsg <- 1, NSig <- 2, Field <- VehicleSignals,
    Raw <- {0, Brake_Pedal_Id}, Phys <- {0, Brake_Pedal_Id},
    FrameId <- <<400>>, MuxId <- <<0>>, CycleTime <- CycleTimes,
    Contained <- {}, SigMsg <- <<1, 1>>, SigField <- <<"set", "clear">>,
    SigName <- <<"set", "clear">>, Internal <- {}, MuxMarked <- {},
    InitValue <- <<0, 0>>, ConstValue <- <<0, 0>>,
    Sv <- VehicleSignals, Checksum <- 0 .. 2000,
    StepSize <- {1000 * StepSize}, RxFrame <- {}, MaxRx <- 0,
    NetOff <- {FALSE}, Enc <- EncByte, Dec <- DecByte, InRange <- InByte,
    Carries <- AllCarried, Selector <- NoMux, Hash <- HashOf,
    Encoded <- Plain, Accepted <- NoFunction,
    pc <- net_pc, sv <- net_sv, netoff <- net_netoff, rx <- net_rx,
    tx <- net_tx, signal_vector <- net_signal_vector, buffer <- net_buffer,
    payload <- net_payload, buffer_checksum <- net_buffer_checksum,
    needs_tx <- net_needs_tx, update_signals <- net_update_signals,
    tick <- net_tick, alarm <- net_alarm, step <- net_step,
    since <- net_since, at_start <- net_at_start,
    init_tick_done <- net_init_tick_done, due <- net_due, bus <- net_bus,
    heard <- net_heard, unsent <- net_unsent

-----------------------------------------------------------------------------
VehicleInit ==
    /\ BrakeInit /\ Net!Init
    /\ steps = 0 /\ shown = FALSE

Exchanged == [v \in VehicleSignals |-> sv'[v]]

(* The signals the network model sees in the first step. *)
Connect ==
    /\ net_pc = "idle" /\ ran = {}
    /\ net_sv' = [v \in VehicleSignals |-> sv[v]]
    /\ Net!Exchange
    /\ UNCHANGED <<brakeVars, steps, shown>>

VehicleModel ==
    /\ net_pc = "rx_signals"
    /\ ModelStep
    /\ UNCHANGED <<netVars, steps, shown>>

NetVehicle ==
    /\ ran = Models
    /\ Net!model_step
    /\ UNCHANGED <<brakeVars, steps, shown>>

(* What a receiver of the frames of this step shows. *)
Shown ==
    IF DOMAIN net_tx = {} THEN shown
    ELSE IF net_tx[1]["set"] # 0 THEN TRUE
    ELSE IF net_tx[1]["clear"] # 0 THEN FALSE ELSE shown

VehicleSynchronise ==
    /\ net_pc = "idle" /\ steps < Steps
    /\ Synchronise
    /\ net_sv' = Exchanged
    /\ Net!Exchange
    /\ shown' = Shown
    /\ steps' = steps + 1

VehicleNext == Connect \/ VehicleModel \/ NetVehicle \/ VehicleSynchronise

VehicleSpec == VehicleInit /\ [][VehicleNext]_vehicleVars

-----------------------------------------------------------------------------
(* A receiver of message EngineStatus knows of a fault of the pedal what   *)
(* the signals of the safety model say: no pulse is missing on the bus.    *)
PulsesOnBus == ran = Models /\ net_pc = "idle" => (Shown <=> lamp)
=============================================================================
