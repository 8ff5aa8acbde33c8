----------------------------- MODULE NetworkBus -----------------------------
(***************************************************************************)
(* Two network models with the same network description on one bus.        *)
(*                                                                         *)
(* Between two steps the simulation hands the frames one node wrote to the *)
(* other node (ncodec_read skips a node's own frames), and other models    *)
(* change signals.  During a step the nodes do not see each other, so that *)
(* the order they run in does not matter: node A runs before node B.       *)
(* A frame is lost if ncodec_write fails.                                  *)
(***************************************************************************)
EXTENDS Integers, Sequences, FiniteSets

CONSTANTS     \* of both nodes, see NetworkModel
    NMsg, NSig, Field, Raw, Phys, FrameId, MuxId, CycleTime, Contained,
    SigMsg, SigField, SigName, Internal, MuxMarked, InitValue, ConstValue,
    Sv, Checksum, StepSize, TickMod, RxFrame, MaxRx, NetOff,
    Enc(_, _), Dec(_, _), InRange(_, _), Carries(_, _, _), Selector(_),
    Hash(_), Encoded(_, _), Accepted(_, _)

CONSTANTS
    MayLose,    \* ncodec_write may fail
    Calm        \* bound: exchanges without a change that are counted

ASSUME BusAssumption == MayLose \in BOOLEAN /\ Calm \in Nat \ {0}

VARIABLES
    a_pc, a_sv, a_netoff, a_rx, a_tx, a_signal_vector, a_buffer, a_payload,
    a_buffer_checksum, a_needs_tx, a_update_signals, a_tick, a_alarm, a_step,
    a_since, a_at_start, a_init_tick_done, a_due, a_bus, a_heard, a_unsent,
    b_pc, b_sv, b_netoff, b_rx, b_tx, b_signal_vector, b_buffer, b_payload,
    b_buffer_checksum, b_needs_tx, b_update_signals, b_tick, b_alarm, b_step,
    b_since, b_at_start, b_init_tick_done, b_due, b_bus, b_heard, b_unsent,
    calm,       \* history: exchanges since another model changed a signal
    apart       \* history: messages whose last frame was lost, or crossed a
                \*   frame of the other node

A == INSTANCE NetworkModel WITH
    pc <- a_pc, sv <- a_sv, netoff <- a_netoff, rx <- a_rx, tx <- a_tx,
    signal_vector <- a_signal_vector, buffer <- a_buffer,
    payload <- a_payload, buffer_checksum <- a_buffer_checksum,
    needs_tx <- a_needs_tx, update_signals <- a_update_signals,
    tick <- a_tick, alarm <- a_alarm, step <- a_step, since <- a_since,
    at_start <- a_at_start, init_tick_done <- a_init_tick_done,
    due <- a_due, bus <- a_bus, heard <- a_heard, unsent <- a_unsent
B == INSTANCE NetworkModel WITH
    pc <- b_pc, sv <- b_sv, netoff <- b_netoff, rx <- b_rx, tx <- b_tx,
    signal_vector <- b_signal_vector, buffer <- b_buffer,
    payload <- b_payload, buffer_checksum <- b_buffer_checksum,
    needs_tx <- b_needs_tx, update_signals <- b_update_signals,
    tick <- b_tick, alarm <- b_alarm, step <- b_step, since <- b_since,
    at_start <- b_at_start, init_tick_done <- b_init_tick_done,
    due <- b_due, bus <- b_bus, heard <- b_heard, unsent <- b_unsent

(* Both nodes are built from this description. *)
ASSUME NodeAssumption ==
    A!NetworkAssumption /\ A!WellFormedAssumption /\ A!CodecAssumption

a_vars ==
    <<a_pc, a_sv, a_netoff, a_rx, a_tx, a_signal_vector, a_buffer, a_payload,
      a_buffer_checksum, a_needs_tx, a_update_signals, a_tick, a_alarm,
      a_step, a_since, a_at_start, a_init_tick_done, a_due, a_bus, a_heard,
      a_unsent>>
b_vars ==
    <<b_pc, b_sv, b_netoff, b_rx, b_tx, b_signal_vector, b_buffer, b_payload,
      b_buffer_checksum, b_needs_tx, b_update_signals, b_tick, b_alarm,
      b_step, b_since, b_at_start, b_init_tick_done, b_due, b_bus, b_heard,
      b_unsent>>
busVars == <<a_vars, b_vars, calm, apart>>

BusInit ==
    /\ A!Init /\ B!Init
    /\ a_step = b_step /\ a_netoff = b_netoff
    /\ calm = 0
    /\ apart = {}

-----------------------------------------------------------------------------
(* The messages S in their order, and their frames. *)
Ordered(S) == {order \in [1 .. Cardinality(S) -> S] :
                  /\ \A m \in S : \E i \in DOMAIN order : order[i] = m
                  /\ \A i, j \in DOMAIN order : i < j => order[i] < order[j]}
Frames(order, sent) ==
    [i \in DOMAIN order |-> [id |-> FrameId[order[i]],
                             payload |-> sent[order[i]], short |-> FALSE]]

Crossing == DOMAIN a_tx \cap DOMAIN b_tx
Arrived(sent) == IF MayLose THEN SUBSET (DOMAIN sent) ELSE {DOMAIN sent}

(* The simulation synchronises: frames arrive, and other models change     *)
(* signals of either node.                                                 *)
Synchronise ==
    /\ a_pc = "idle" /\ b_pc = "idle"
    /\ \E fromA \in Arrived(a_tx), fromB \in Arrived(b_tx) :
          /\ \E order \in Ordered(fromA) : b_rx' = Frames(order, a_tx)
          /\ \E order \in Ordered(fromB) : a_rx' = Frames(order, b_tx)
          /\ LET lost == (DOMAIN a_tx \ fromA) \cup (DOMAIN b_tx \ fromB)
             IN  apart' = (apart \ (fromA \cup fromB)) \cup lost \cup Crossing
    /\ A!Exchange /\ B!Exchange
    /\ a_netoff' = b_netoff'
    /\ calm' = IF a_sv' = a_sv /\ b_sv' = b_sv
               THEN IF calm = Calm THEN Calm ELSE calm + 1
               ELSE 0

StepA == /\ a_pc # "idle"
         /\ A!model_step
         /\ UNCHANGED <<b_vars, calm, apart>>

StepB == /\ a_pc = "idle" /\ b_pc # "idle"
         /\ B!model_step
         /\ UNCHANGED <<a_vars, calm, apart>>

BusNext == Synchronise \/ StepA \/ StepB

BusSpec == BusInit /\ [][BusNext]_busVars

-----------------------------------------------------------------------------
AtRest == a_pc = "idle" /\ b_pc = "idle" /\ calm = Calm

(* Once the other models leave the signals alone, two nodes stop sending   *)
(* event messages after Calm exchanges, whatever was lost or crossed       *)
(* before: they do not answer each other for ever, though a node that      *)
(* receives a value its codec does not bring back answers with another.    *)
Quiesce ==
    AtRest => \A m \in DOMAIN a_tx \cup DOMAIN b_tx : CycleTime[m] # 0

(* And then both nodes hold the value that was on the bus last, as far as  *)
(* it survives encoding, unless a frame was lost or both nodes had sent    *)
(* the message in the same step and exchanged their values.                *)
Agreement ==
    AtRest =>
        \A s \in 1 .. NSig :
            LET a == Enc(s, A!Outgoing(s, a_signal_vector))
                b == Enc(s, B!Outgoing(s, b_signal_vector))
            IN  /\ CycleTime[SigMsg[s]] = 0 /\ SigMsg[s] \notin apart
                /\ InRange(s, a) /\ InRange(s, b)
                => a = b
=============================================================================
