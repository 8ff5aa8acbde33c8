------------------------------ MODULE Cadence -------------------------------
(***************************************************************************)
(* The schedule against the time of the simulation.  Two history variables *)
(* are added to Schedule: the model time, of which Schedule keeps only     *)
(* what model_step compares, and the milliseconds the alarms have counted. *)
(***************************************************************************)
EXTENDS Schedule

CONSTANT MaxTime   \* bound: the run ends at this model time (microseconds)

ASSUME CadenceAssumption == MaxTime \in Nat

VARIABLES
    model_time,   \* *model_time, in microseconds
    elapsed       \* milliseconds counted by the alarms since the initial tick

cvars == <<vars, model_time, elapsed>>

CInit ==
    /\ Init
    /\ model_time = 0
    /\ elapsed = 0

(* The tick at n->tick == 0 arms the alarms and counts nothing. *)
CTick ==
    /\ Tick
    /\ elapsed' = IF tick = 0 THEN elapsed ELSE elapsed + 1
    /\ UNCHANGED model_time

CEndStep ==
    /\ model_time < MaxTime
    /\ EndStep
    /\ model_time' = model_time + step
    /\ UNCHANGED elapsed

CNext ==
    \/ Receive /\ UNCHANGED <<model_time, elapsed>>
    \/ BeginTicks /\ UNCHANGED <<model_time, elapsed>>
    \/ CTick
    \/ Pack /\ UNCHANGED <<model_time, elapsed>>
    \/ ApplyEncode /\ UNCHANGED <<model_time, elapsed>>
    \/ Transmit /\ UNCHANGED <<model_time, elapsed>>
    \/ CEndStep

CSpec == CInit /\ [][CNext]_cvars

-----------------------------------------------------------------------------
(* The alarms are in phase with the clock: from the initial tick on, the   *)
(* time an alarm will fire at is a multiple of the message's cycle time.   *)
AlarmInPhase ==
    \A m \in Cyclic :
        IF tick = 0 /\ elapsed = 0
        THEN alarm[m] = 0
        ELSE /\ alarm[m] \in 1 .. CycleTime[m]
             /\ (elapsed + alarm[m]) % CycleTime[m] = 0

(* The schedule is a periodic clock: a message is flagged at the multiples *)
(* of its cycle time and at no other tick, and no flag survives a step.    *)
Clock == INSTANCE PeriodicClock
             WITH now <- elapsed, raised <- {m \in Cyclic : needs_tx[m]}
PeriodicFlags == Clock!Spec

TicksDone == phase = "tick" /\ due = 0

(* The comment in model_step: the network tasks "need to be ticked at" a   *)
(* 1 ms cadence.  When the ticks of a step are made, the schedule is not   *)
(* behind the model time by a whole millisecond ...                        *)
NeverBehind == TicksDone => model_time < 1000 * (elapsed + 1)

(* ... and not ahead of it. *)
NeverAhead == TicksDone => 1000 * elapsed <= model_time
=============================================================================
