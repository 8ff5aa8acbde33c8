------------------------------ MODULE Schedule ------------------------------
(***************************************************************************)
(* The 1 ms message schedule of a Network (schedule.c) and the part of     *)
(* model_step (model.c) that decides how often it is ticked.               *)
(*                                                                         *)
(* A step of the model runs through three phases: it receives (decode      *)
(* path), it ticks the schedule, it transmits (encode path).  What the     *)
(* decode and encode paths do to a message is left open here, except for   *)
(* what they promise about cyclic messages: nothing but an alarm raises    *)
(* needs_tx of a cyclic message, and nothing but the network-off signal    *)
(* drops a raised one before it is written to the bus.  NetworkModel       *)
(* models both paths and implements this specification.                    *)
(*                                                                         *)
(* A definition marked "fault" is no part of the specification: it is the  *)
(* definition after it with a plausible mistake, and the runs notice when  *)
(* it takes that definition's place.                                       *)
(***************************************************************************)
EXTENDS Integers

CONSTANTS
    Msg,        \* the messages of the network (indices into n->messages)
    CycleTime,  \* CycleTime[m]: cycle_time_ms of m, 0 for an event message
    Checksum,   \* the values a buffer_checksum takes
    StepSize,   \* the step sizes a simulation may use (microseconds)
    TickMod     \* n->tick wraps at this value (2^32 in the code)

ASSUME ScheduleAssumption ==
    /\ CycleTime \in [Msg -> Nat]
    /\ Checksum \subseteq Nat
    /\ 0 \in Checksum
    /\ StepSize \subseteq Nat \ {0}
    /\ TickMod \in Nat
    /\ TickMod > 1

VARIABLES
    tick,             \* n->tick, the 1 ms clock
    alarm,            \* nsi->alarm of the messages in n->schedule_list
    buffer_checksum,  \* nm->buffer_checksum
    needs_tx,         \* nm->needs_tx
    step,             \* the step size of this simulation
    since,            \* *model_time - m->last_tick, in microseconds
    at_start,         \* *model_time == 0.0
    init_tick_done,   \* m->init_tick_done
    due,              \* schedule ticks this step still has to make
    phase,            \* "rx", "tick", "tx" or "end": where model_step is
    sent              \* messages written to the bus by the last encode path

flagVars  == <<buffer_checksum, needs_tx>>
alarmVars == <<tick, alarm>>
clockVars == <<step, since, at_start, init_tick_done, due>>
vars == <<flagVars, alarmVars, clockVars, phase, sent>>

(* The messages network_schedule_reset puts on the schedule list. *)
Cyclic == {m \in Msg : CycleTime[m] # 0}

-----------------------------------------------------------------------------
(* schedule.c *)

network_schedule_reset ==
    /\ alarm = [m \in Cyclic |-> 0]
    /\ tick = 0

(* The alarm of m goes from 1 to 0 in this tick. *)
FiresOnZero(m) == m \in Cyclic /\ tick # 0 /\ alarm[m] = 0  \* fault
Fires(m) == m \in Cyclic /\ tick # 0 /\ alarm[m] = 1

DecrementedFreely(m) == alarm[m] - 1                        \* fault
Decremented(m) == IF tick # 0 /\ alarm[m] # 0 THEN alarm[m] - 1 ELSE alarm[m]

NotRearmed(m) == Decremented(m)                             \* fault
RearmedLate(m) ==                                           \* fault
    IF Decremented(m) = 0 THEN CycleTime[m] + 1 ELSE Decremented(m)
Rearmed(m) ==
    IF Decremented(m) = 0 THEN CycleTime[m] ELSE Decremented(m)

(* A checksum of 0 makes packing see a change. *)
StillSummed(m) == buffer_checksum[m]                        \* fault
Unsummed(m) == IF Fires(m) THEN 0 ELSE buffer_checksum[m]

network_schedule_tick ==
    /\ buffer_checksum' = [m \in Msg |-> Unsummed(m)]
    /\ needs_tx' = [m \in Msg |-> Fires(m) \/ needs_tx[m]]
    /\ alarm' = [m \in Cyclic |-> Rearmed(m)]
    /\ tick' = (tick + 1) % TickMod

-----------------------------------------------------------------------------
(* The clock of model_step *)

(***************************************************************************)
(* int ticks = ((since / 0.001) * 1.01), since in microseconds.  The       *)
(* product is a floating point value: where it is a whole number the       *)
(* truncation may as well see the value just below it.                     *)
(***************************************************************************)
TicksUnpushed(us) == {us \div 1000} \cup {(us - 1) \div 1000}  \* fault
TicksOf(us) ==
    LET ticks == (us * 101) \div 100000
    IN  IF us > 0 /\ (us * 101) % 100000 = 0 THEN {ticks - 1, ticks}
                                             ELSE {ticks}

InitialTick == at_start /\ ~init_tick_done

(* model_step decides how many ticks this step makes. *)
StepTicks ==
    /\ \E ticks \in TicksOf(since) :
           due' = (IF InitialTick THEN 1 ELSE 0) + ticks
    /\ init_tick_done' = (init_tick_done \/ at_start)
    /\ UNCHANGED <<step, since, at_start>>

MakeTickOnly ==                                             \* fault
    /\ due > 0
    /\ due' = due - 1
    /\ network_schedule_tick
    /\ UNCHANGED <<step, since, at_start, init_tick_done>>

(* One of them.  In the initial tick last_tick already is model_time. *)
MakeTick ==
    /\ due > 0
    /\ due' = due - 1
    /\ network_schedule_tick
    /\ since' = 0
    /\ UNCHANGED <<step, at_start, init_tick_done>>

(* *model_time = stop_time at the end of model_step. *)
AdvanceTime ==
    /\ since' = since + step
    /\ at_start' = FALSE
    /\ UNCHANGED <<step, init_tick_done, due>>

-----------------------------------------------------------------------------
ClockInit ==
    /\ network_schedule_reset
    /\ step \in StepSize
    /\ since = 0
    /\ at_start = TRUE
    /\ init_tick_done = FALSE
    /\ due = 0

(* model_create packs every message once; that calculates the checksum of  *)
(* an event message and leaves the one of a cyclic message at 0.           *)
Init ==
    /\ ClockInit
    /\ buffer_checksum \in [Msg -> Checksum]
    /\ \A m \in Cyclic : buffer_checksum[m] = 0
    /\ needs_tx = [m \in Msg |-> FALSE]
    /\ phase = "rx"
    /\ sent = {}

(* The decode path: any checksum may be updated, no message is flagged. *)
Receive ==
    /\ phase = "rx"
    /\ buffer_checksum' \in [Msg -> Checksum]
    /\ UNCHANGED <<needs_tx, alarmVars, clockVars, phase, sent>>

BeginTicks ==
    /\ phase = "rx"
    /\ StepTicks
    /\ phase' = "tick"
    /\ UNCHANGED <<flagVars, alarmVars, sent>>

Tick ==
    /\ phase = "tick"
    /\ MakeTick
    /\ UNCHANGED <<phase, sent>>

(* Packing may flag or clear an event message; it keeps a cyclic one's flag. *)
Pack ==
    /\ phase = "tick"
    /\ due = 0
    /\ phase' = "tx"
    /\ buffer_checksum' \in [Msg -> Checksum]
    /\ needs_tx' \in [Msg -> BOOLEAN]
    /\ \A m \in Cyclic : needs_tx'[m] = needs_tx[m]
    /\ UNCHANGED <<alarmVars, clockVars, sent>>

(* Encode functions may change a checksum; network off drops every flag.   *)
ApplyEncode ==
    /\ phase = "tx"
    /\ buffer_checksum' \in [Msg -> Checksum]
    /\ needs_tx' \in {needs_tx, [m \in Msg |-> FALSE]}
    /\ UNCHANGED <<alarmVars, clockVars, phase, sent>>

(* network_encode_to_bus *)
Transmit ==
    /\ phase = "tx"
    /\ sent' = {m \in Msg : needs_tx[m]}
    /\ needs_tx' = [m \in Msg |-> FALSE]
    /\ phase' = "end"
    /\ UNCHANGED <<buffer_checksum, alarmVars, clockVars>>

EndStep ==
    /\ phase = "end"
    /\ AdvanceTime
    /\ phase' = "rx"
    /\ UNCHANGED <<flagVars, alarmVars, sent>>

Next == Receive \/ BeginTicks \/ Tick \/ Pack \/ ApplyEncode
        \/ Transmit \/ EndStep

Spec == Init /\ [][Next]_vars

-----------------------------------------------------------------------------
(* The schedule's variables have their types. *)
TypeOK ==
    /\ tick \in 0 .. TickMod - 1
    /\ alarm \in [Cyclic -> Nat]
    /\ buffer_checksum \in [Msg -> Checksum]
    /\ needs_tx \in [Msg -> BOOLEAN]
    /\ step \in StepSize
    /\ since \in Nat
    /\ at_start \in BOOLEAN
    /\ init_tick_done \in BOOLEAN
    /\ due \in Nat
    /\ phase \in {"rx", "tick", "tx", "end"}
    /\ sent \subseteq Msg

(* After the initial tick an armed alarm never runs dry: every scheduled   *)
(* message always has a running alarm of at most one cycle, also when the  *)
(* tick counter wraps to the value that means "initial tick".              *)
AlarmArmed ==
    init_tick_done /\ due = 0 =>
        \A m \in Cyclic : alarm[m] \in 1 .. CycleTime[m]

(* A message whose alarm fired keeps checksum 0 until the step packs its   *)
(* messages, so that packing cannot take it for unchanged and drop it.     *)
FiredIsUnsummed ==
    phase = "tick" =>
        \A m \in Cyclic : needs_tx[m] => buffer_checksum[m] = 0
=============================================================================
