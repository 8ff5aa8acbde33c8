---------------------------- MODULE CadenceProof ----------------------------
(***************************************************************************)
(* Proofs about Schedule and Cadence, for every set of messages, cycle     *)
(* times, step sizes and every width of the tick counter: alarms stay      *)
(* armed, the schedule implements PeriodicClock, and it keeps up with the  *)
(* model time when a step is a whole number of milliseconds below 100.     *)
(***************************************************************************)
EXTENDS Cadence, TLAPS

USE DEF flagVars, alarmVars, clockVars

(* A step never owes a negative number of ticks. *)
LEMMA TicksNat ==
    ASSUME NEW us \in Nat
    PROVE  TicksOf(us) \subseteq Nat
  <1> SUFFICES ASSUME NEW t \in TicksOf(us) PROVE t \in Nat
    OBVIOUS
  <1> DEFINE q == (us * 101) \div 100000
  <1>1. q \in Nat
    OBVIOUS
  <1>2. us > 0 /\ (us * 101) % 100000 = 0 => q > 0
    OBVIOUS
  <1>3. QED  BY <1>1, <1>2 DEF TicksOf

LEMMA InitType == Init => TypeOK
  <1> SUFFICES ASSUME Init PROVE TypeOK
    OBVIOUS
  <1>1. tick \in 0 .. TickMod - 1 /\ alarm \in [Cyclic -> Nat]
    BY ScheduleAssumption DEF Init, ClockInit, network_schedule_reset
  <1>2. step \in StepSize /\ since \in Nat /\ due \in Nat
    BY DEF Init, ClockInit
  <1>3. at_start \in BOOLEAN /\ init_tick_done \in BOOLEAN
    BY DEF Init, ClockInit
  <1>4. QED  BY <1>1, <1>2, <1>3 DEF Init, TypeOK

(* What a tick does to the alarms and the counter. *)
LEMMA TickType ==
    ASSUME TypeOK, network_schedule_tick
    PROVE  /\ tick' \in 0 .. TickMod - 1
           /\ alarm' \in [Cyclic -> Nat]
           /\ buffer_checksum' \in [Msg -> Checksum]
           /\ needs_tx' \in [Msg -> BOOLEAN]
  <1>1. tick' \in 0 .. TickMod - 1
    BY ScheduleAssumption DEF TypeOK, network_schedule_tick
  <1>2. \A m \in Cyclic : CycleTime[m] \in Nat /\ Decremented(m) \in Nat
    BY ScheduleAssumption DEF TypeOK, Decremented, Cyclic
  <1>3. alarm' \in [Cyclic -> Nat]
    BY <1>2 DEF network_schedule_tick, Rearmed
  <1>4. buffer_checksum' \in [Msg -> Checksum]
    BY ScheduleAssumption DEF TypeOK, network_schedule_tick, Unsummed
  <1>5. needs_tx' \in [Msg -> BOOLEAN]
    BY DEF TypeOK, network_schedule_tick, Fires
  <1>6. QED  BY <1>1, <1>3, <1>4, <1>5

LEMMA NextType == TypeOK /\ [Next]_vars => TypeOK'
  <1> SUFFICES ASSUME TypeOK, [Next]_vars PROVE TypeOK'
    OBVIOUS
  <1>1. CASE Receive
    BY <1>1 DEF Receive, TypeOK
  <1>2. CASE BeginTicks
    <2>1. due' \in Nat
      <3>1. PICK ticks \in TicksOf(since) :
                due' = (IF InitialTick THEN 1 ELSE 0) + ticks
        BY <1>2 DEF BeginTicks, StepTicks
      <3>2. ticks \in Nat
        BY TicksNat DEF TypeOK
      <3>3. QED  BY <3>1, <3>2
    <2>2. init_tick_done' \in BOOLEAN
      BY <1>2 DEF BeginTicks, StepTicks, TypeOK
    <2>3. QED  BY <1>2, <2>1, <2>2 DEF BeginTicks, StepTicks, TypeOK
  <1>3. CASE Tick
    <2>1. network_schedule_tick
      BY <1>3 DEF Tick, MakeTick
    <2>2. due' \in Nat
      BY <1>3 DEF Tick, MakeTick, TypeOK
    <2>3. QED  BY <1>3, <2>1, <2>2, TickType DEF Tick, MakeTick, TypeOK
  <1>4. CASE Pack
    BY <1>4 DEF Pack, TypeOK
  <1>5. CASE ApplyEncode
    BY <1>5 DEF ApplyEncode, TypeOK
  <1>6. CASE Transmit
    BY <1>6 DEF Transmit, TypeOK
  <1>7. CASE EndStep
    <2>1. since' \in Nat
      BY <1>7, ScheduleAssumption DEF EndStep, AdvanceTime, TypeOK
    <2>2. QED  BY <1>7, <2>1 DEF EndStep, AdvanceTime, TypeOK
  <1>8. CASE UNCHANGED vars
    BY <1>8 DEF vars, TypeOK
  <1>9. QED
    BY <1>1, <1>2, <1>3, <1>4, <1>5, <1>6, <1>7, <1>8 DEF Next

(* Type correctness of the schedule and of the clock of model_step. *)
THEOREM ScheduleTypeCorrect == Spec => []TypeOK
  BY InitType, NextType, PTL DEF Spec

-----------------------------------------------------------------------------
(* A raised cyclic message exists only between its tick and the encoding.  *)
NothingPending ==
    phase \in {"rx", "end"} => \A m \in Cyclic : needs_tx[m] = FALSE

FlagInv == TypeOK /\ NothingPending /\ FiredIsUnsummed

LEMMA NextFlag == FlagInv /\ [Next]_vars => FlagInv'
  <1> SUFFICES ASSUME FlagInv, [Next]_vars PROVE FlagInv'
    OBVIOUS
  <1> USE DEF FlagInv, NothingPending, FiredIsUnsummed
  <1>0. TypeOK'
    BY NextType
  <1>1. CASE Receive
    BY <1>0, <1>1 DEF Receive, Cyclic
  <1>2. CASE BeginTicks
    BY <1>0, <1>2 DEF BeginTicks, Cyclic
  <1>3. CASE Tick
    <2>1. phase = "tick" /\ phase' = "tick"
      BY <1>3 DEF Tick
    <2>2. ASSUME NEW m \in Cyclic, needs_tx'[m] PROVE buffer_checksum'[m] = 0
      BY <1>3, <2>1, <2>2
         DEF Tick, MakeTick, network_schedule_tick, Unsummed, Cyclic
    <2>3. QED  BY <1>0, <2>1, <2>2
  <1>4. CASE Pack
    BY <1>0, <1>4 DEF Pack
  <1>5. CASE ApplyEncode
    BY <1>0, <1>5 DEF ApplyEncode
  <1>6. CASE Transmit
    BY <1>0, <1>6 DEF Transmit, Cyclic
  <1>7. CASE EndStep
    BY <1>0, <1>7 DEF EndStep
  <1>8. CASE UNCHANGED vars
    BY <1>0, <1>8 DEF vars
  <1>9. QED
    BY <1>1, <1>2, <1>3, <1>4, <1>5, <1>6, <1>7, <1>8 DEF Next

(* A message whose alarm fired keeps checksum 0 until it is packed, so     *)
(* that network_pack_messages cannot clear its needs_tx.                   *)
THEOREM FiredStaysUnsummed == Spec => []FiredIsUnsummed
  <1>1. Init => FlagInv
    BY InitType DEF Init, FlagInv, NothingPending, FiredIsUnsummed, Cyclic
  <1>2. FlagInv => FiredIsUnsummed
    BY DEF FlagInv
  <1>3. QED  BY <1>1, <1>2, NextFlag, PTL DEF Spec

-----------------------------------------------------------------------------
(* The alarms run from the first tick on.  While the initial tick is       *)
(* still owed they are 0; a tick counter of 0 that is reached by wrapping  *)
(* finds them armed and leaves them alone.                                 *)
Armed == \A m \in Cyclic : alarm[m] \in 1 .. CycleTime[m]

ArmInv ==
    /\ TypeOK
    /\ \/ Armed
       \/ /\ tick = 0 /\ \A m \in Cyclic : alarm[m] = 0
          /\ \/ init_tick_done = FALSE /\ at_start = TRUE /\ phase = "rx"
             \/ init_tick_done = TRUE /\ due > 0 /\ phase = "tick"

LEMMA TickArms ==
    ASSUME TypeOK, network_schedule_tick,
           Armed \/ \A m \in Cyclic : alarm[m] = 0
    PROVE  Armed'
  <1> SUFFICES ASSUME NEW m \in Cyclic PROVE alarm'[m] \in 1 .. CycleTime[m]
    BY DEF Armed
  <1>1. CycleTime[m] \in Nat /\ CycleTime[m] > 0
    BY ScheduleAssumption DEF Cyclic
  <1>2. alarm[m] \in Nat /\ alarm[m] <= CycleTime[m]
    BY <1>1 DEF Armed, TypeOK
  <1>3. Decremented(m) \in Nat /\ Decremented(m) <= CycleTime[m]
    BY <1>1, <1>2 DEF Decremented
  <1>4. alarm'[m] = IF Decremented(m) = 0 THEN CycleTime[m] ELSE Decremented(m)
    BY DEF network_schedule_tick, Rearmed
  <1>5. QED  BY <1>1, <1>3, <1>4

LEMMA NextArmed == ArmInv /\ [Next]_vars => ArmInv'
  <1> SUFFICES ASSUME ArmInv, [Next]_vars PROVE ArmInv'
    OBVIOUS
  <1> USE DEF ArmInv, Armed
  <1>0. TypeOK'
    BY NextType
  <1>1. CASE Receive
    BY <1>0, <1>1 DEF Receive
  <1>2. CASE BeginTicks
    <2>1. PICK ticks \in TicksOf(since) :
              due' = (IF InitialTick THEN 1 ELSE 0) + ticks
      BY <1>2 DEF BeginTicks, StepTicks
    <2>2. ticks \in Nat
      BY TicksNat DEF TypeOK
    <2>3. CASE Armed
      <3>1. Armed'
        BY <1>2, <2>3 DEF BeginTicks
      <3>2. QED  BY <1>0, <3>1
    <2>4. CASE ~Armed
      <3>1. InitialTick
        BY <1>2, <2>4 DEF BeginTicks, InitialTick
      <3>2. due' > 0
        BY <2>1, <2>2, <3>1
      <3>3. init_tick_done' = TRUE /\ phase' = "tick"
        BY <1>2, <3>1 DEF BeginTicks, StepTicks, InitialTick
      <3>4. tick' = 0 /\ \A m \in Cyclic : alarm'[m] = 0
        BY <1>2, <2>4 DEF BeginTicks
      <3>5. QED  BY <1>0, <3>2, <3>3, <3>4
    <2>5. QED  BY <2>3, <2>4
  <1>3. CASE Tick
    <2>1. Armed'
      BY <1>3, TickArms DEF Tick, MakeTick
    <2>2. QED  BY <1>0, <2>1
  <1>4. CASE Pack
    BY <1>0, <1>4 DEF Pack
  <1>5. CASE ApplyEncode
    BY <1>0, <1>5 DEF ApplyEncode
  <1>6. CASE Transmit
    BY <1>0, <1>6 DEF Transmit
  <1>7. CASE EndStep
    BY <1>0, <1>7 DEF EndStep, AdvanceTime
  <1>8. CASE UNCHANGED vars
    BY <1>0, <1>8 DEF vars
  <1>9. QED
    BY <1>1, <1>2, <1>3, <1>4, <1>5, <1>6, <1>7, <1>8 DEF Next

(* From the initial tick on every scheduled message has a running alarm of *)
(* at most one cycle, also across a wrap of the tick counter.              *)
THEOREM AlarmsStayArmed == Spec => []AlarmArmed
  <1>1. Init => ArmInv
    BY InitType DEF Init, ClockInit, network_schedule_reset, ArmInv
  <1>2. ArmInv => AlarmArmed
    BY DEF ArmInv, Armed, AlarmArmed
  <1>3. QED  BY <1>1, <1>2, NextArmed, PTL DEF Spec

-----------------------------------------------------------------------------
(* Cadence *)

(* Facts about multiples of c: a product of c below c is 0, ...            *)
LEMMA SmallProduct ==
    ASSUME NEW c \in Nat, c > 0, NEW d \in Int, 0 <= c * d, c * d < c
    PROVE  d = 0
  <1>1. d >= 1 => c * d >= c
    OBVIOUS
  <1>2. d <= -1 => c * d <= -c
    OBVIOUS
  <1>3. QED  BY <1>1, <1>2

LEMMA Division ==
    ASSUME NEW c \in Nat, c > 0, NEW x \in Nat
    PROVE  /\ x \div c \in Int
           /\ x % c \in 0 .. c - 1
           /\ x = c * (x \div c) + (x % c)
  OBVIOUS

(* ... the multiple after a multiple x is x + c, ...                       *)
LEMMA NextMultiple ==
    ASSUME NEW c \in Nat, c > 0, NEW x \in Nat, x % c = 0
    PROVE  (x + c) % c = 0
  <1> DEFINE q == x \div c
             p == (x + c) \div c
             r == (x + c) % c
  <1>1. q \in Int /\ x = c * q
    BY Division
  <1>2. p \in Int /\ r \in 0 .. c - 1 /\ x + c = c * p + r
    BY Division
  <1> HIDE DEF q, p, r
  <1>3. c * (q + 1 - p) = c * q + c - c * p
    BY <1>1, <1>2
  <1>4. r = c * (q + 1 - p)
    BY <1>1, <1>2, <1>3
  <1>5. q + 1 - p = 0
    BY <1>1, <1>2, <1>4, SmallProduct
  <1>6. r = 0
    BY <1>1, <1>2, <1>4, <1>5
  <1>7. QED  BY <1>6 DEF r

(* ... and two different multiples are at least c apart.                   *)
LEMMA NoMultipleBetween ==
    ASSUME NEW c \in Nat, c > 0, NEW x \in Nat, NEW y \in Nat,
           x % c = 0, y % c = 0, x < y
    PROVE  x + c <= y
  <1> DEFINE q == x \div c
             p == y \div c
  <1>1. q \in Int /\ x = c * q
    BY Division
  <1>2. p \in Int /\ y = c * p
    BY Division
  <1> HIDE DEF q, p
  <1>3. c * (p - q) = y - x
    BY <1>1, <1>2
  <1>4. y - x < c => p - q = 0
    BY <1>1, <1>2, <1>3, SmallProduct
  <1>5. p - q = 0 => y - x = 0
    BY <1>1, <1>2, <1>3
  <1>6. QED  BY <1>4, <1>5

-----------------------------------------------------------------------------
(***************************************************************************)
(* Cadence only adds history to Schedule, so that the invariants of        *)
(* Schedule are invariants of Cadence.                                     *)
(***************************************************************************)
LEMMA CNextIsNext == [CNext]_cvars => [Next]_vars
  BY DEF CNext, cvars, Next, CTick, CEndStep

PhaseInv ==
    /\ FlagInv
    /\ elapsed \in Nat
    /\ AlarmInPhase

(* The alarm that is due next fires in the coming millisecond and no other. *)
LEMMA FiresOnTime ==
    ASSUME PhaseInv, tick # 0, NEW m \in Cyclic
    PROVE  Fires(m) <=> (elapsed + 1) % CycleTime[m] = 0
  <1> DEFINE c == CycleTime[m]
  <1>1. c \in Nat /\ c > 0
    BY ScheduleAssumption DEF Cyclic
  <1>2. /\ alarm[m] \in 1 .. c
        /\ (elapsed + alarm[m]) % c = 0
        /\ elapsed \in Nat
    BY DEF PhaseInv, AlarmInPhase
  <1> HIDE DEF c
  <1>3. CASE alarm[m] = 1
    BY <1>2, <1>3 DEF Fires, c
  <1>4. CASE alarm[m] # 1
    <2>1. elapsed + 1 \in Nat /\ elapsed + alarm[m] \in Nat
      BY <1>1, <1>2
    <2>2. elapsed + 1 < elapsed + alarm[m]
      BY <1>1, <1>2, <1>4
    <2>3. ~(elapsed + 1 + c <= elapsed + alarm[m])
      BY <1>1, <1>2
    <2>4. (elapsed + 1) % c # 0
      BY <1>1, <1>2, <2>1, <2>2, <2>3, NoMultipleBetween
    <2>5. QED  BY <1>4, <2>4 DEF Fires, c
  <1>5. QED  BY <1>3, <1>4

LEMMA TickInPhase ==
    ASSUME PhaseInv, CTick
    PROVE  AlarmInPhase'
  <1>1. TypeOK /\ network_schedule_tick
    BY DEF PhaseInv, FlagInv, CTick, Tick, MakeTick
  <1>2. elapsed' \in Nat
    BY DEF PhaseInv, CTick
  <1>3. tick' # 0 \/ elapsed' # 0
    <2>1. CASE tick = 0
      BY <1>1, <2>1, ScheduleAssumption DEF network_schedule_tick
    <2>2. CASE tick # 0
      BY <2>2 DEF CTick, PhaseInv
    <2>3. QED  BY <2>1, <2>2
  <1>4. SUFFICES ASSUME NEW m \in Cyclic
                 PROVE  /\ alarm'[m] \in 1 .. CycleTime[m]
                        /\ (elapsed' + alarm'[m]) % CycleTime[m] = 0
    BY <1>3 DEF AlarmInPhase
  <1> DEFINE c == CycleTime[m]
  <1>5. c \in Nat /\ c > 0
    BY ScheduleAssumption DEF Cyclic
  <1>6. elapsed \in Nat /\ alarm[m] \in Nat
    BY <1>1 DEF PhaseInv, TypeOK
  <1>7. alarm'[m] = IF Decremented(m) = 0 THEN c ELSE Decremented(m)
    BY <1>1 DEF network_schedule_tick, Rearmed
  <1>8. elapsed' = IF tick = 0 THEN elapsed ELSE elapsed + 1
    BY DEF CTick
  <1>9. CASE tick = 0 /\ elapsed = 0
    <2>1. alarm[m] = 0
      BY <1>9 DEF PhaseInv, AlarmInPhase
    <2>2. alarm'[m] = c /\ elapsed' = 0
      BY <1>7, <1>8, <1>9, <2>1 DEF Decremented
    <2>3. 0 % c = 0
      BY <1>5
    <2>4. (0 + c) % c = 0
      BY <1>5, <2>3, NextMultiple
    <2>5. elapsed' + alarm'[m] = 0 + c
      BY <2>2
    <2>6. alarm'[m] \in 1 .. c
      BY <1>5, <2>2
    <2>7. QED  BY <2>4, <2>5, <2>6
  <1>10. CASE ~(tick = 0 /\ elapsed = 0)
    <2>1. alarm[m] \in 1 .. c /\ (elapsed + alarm[m]) % c = 0
      BY <1>10 DEF PhaseInv, AlarmInPhase
    <2> HIDE DEF c
    <2>2. CASE tick = 0
      <3>1. alarm'[m] = alarm[m] /\ elapsed' = elapsed
        BY <1>5, <1>7, <1>8, <2>1, <2>2 DEF Decremented
      <3>2. QED  BY <2>1, <3>1 DEF c
    <2>3. CASE tick # 0 /\ alarm[m] = 1
      <3>1. alarm'[m] = c /\ elapsed' = elapsed + 1
        BY <1>7, <1>8, <2>3 DEF Decremented
      <3>2. (elapsed + 1) % c = 0
        BY <2>1, <2>3
      <3>3. elapsed + 1 \in Nat
        BY <1>6
      <3>4. ((elapsed + 1) + c) % c = 0
        BY <1>5, <3>2, <3>3, NextMultiple
      <3>5. elapsed' + alarm'[m] = (elapsed + 1) + c
        BY <3>1
      <3>6. alarm'[m] \in 1 .. c
        BY <1>5, <3>1
      <3>7. QED  BY <3>4, <3>5, <3>6 DEF c
    <2>4. CASE tick # 0 /\ alarm[m] # 1
      <3>1. alarm'[m] = alarm[m] - 1 /\ elapsed' = elapsed + 1
        BY <1>5, <1>6, <1>7, <1>8, <2>1, <2>4 DEF Decremented
      <3>2. elapsed' + alarm'[m] = elapsed + alarm[m]
        BY <1>6, <3>1
      <3>3. alarm'[m] \in 1 .. c
        BY <1>5, <1>6, <2>1, <2>4, <3>1
      <3>4. QED  BY <2>1, <3>2, <3>3 DEF c
    <2>5. QED  BY <2>2, <2>3, <2>4
  <1>11. QED  BY <1>9, <1>10

LEMMA CInitPhase == CInit => PhaseInv
  <1> SUFFICES ASSUME CInit PROVE PhaseInv
    OBVIOUS
  <1>1. FlagInv
    BY InitType
    DEF CInit, Init, FlagInv, NothingPending, FiredIsUnsummed, Cyclic
  <1>2. tick = 0 /\ elapsed = 0 /\ \A m \in Cyclic : alarm[m] = 0
    BY DEF CInit, Init, ClockInit, network_schedule_reset
  <1>3. QED  BY <1>1, <1>2 DEF PhaseInv, AlarmInPhase

LEMMA CNextPhase == PhaseInv /\ [CNext]_cvars => PhaseInv'
  <1> SUFFICES ASSUME PhaseInv, [CNext]_cvars PROVE PhaseInv'
    OBVIOUS
  <1>1. FlagInv'
    BY CNextIsNext, NextFlag DEF PhaseInv
  <1>2. CASE CTick
    <2>1. elapsed' \in Nat
      BY <1>2 DEF CTick, PhaseInv
    <2>2. QED  BY <1>1, <1>2, <2>1, TickInPhase DEF PhaseInv
  <1>3. CASE ~CTick
    <2>1. UNCHANGED <<tick, alarm, elapsed>>
      BY <1>3 DEF CNext, cvars, vars, Receive, BeginTicks, Pack, ApplyEncode,
                  Transmit, CEndStep, EndStep
    <2>2. QED  BY <1>1, <2>1 DEF PhaseInv, AlarmInPhase
  <1>4. QED  BY <1>2, <1>3

(* Every alarm stays in phase with the millisecond clock: it will fire at  *)
(* a multiple of its message's cycle time.                                 *)
THEOREM AlarmsInPhase == CSpec => []AlarmInPhase
  <1>1. PhaseInv => AlarmInPhase
    BY DEF PhaseInv
  <1>2. QED  BY <1>1, CInitPhase, CNextPhase, PTL DEF CSpec

-----------------------------------------------------------------------------
Raised == {m \in Cyclic : needs_tx[m]}

LEMMA TickRefines ==
    ASSUME PhaseInv, CTick
    PROVE  Clock!Next \/ UNCHANGED <<elapsed, Raised>>
  <1>1. TypeOK /\ network_schedule_tick
    BY DEF PhaseInv, FlagInv, CTick, Tick, MakeTick
  <1>2. Raised' = Raised \cup {m \in Cyclic : Fires(m)}
    <2>1. needs_tx' = [m \in Msg |-> Fires(m) \/ needs_tx[m]]
      BY <1>1 DEF network_schedule_tick
    <2>2. \A m \in Cyclic : needs_tx'[m] <=> Fires(m) \/ needs_tx[m]
      BY <2>1 DEF Cyclic
    <2>3. QED  BY <2>2 DEF Raised
  <1>3. CASE tick = 0
    <2>1. {m \in Cyclic : Fires(m)} = {}
      BY <1>3 DEF Fires
    <2>2. elapsed' = elapsed
      BY <1>3 DEF CTick
    <2>3. QED  BY <1>2, <2>1, <2>2
  <1>4. CASE tick # 0
    <2>1. elapsed' = elapsed + 1
      BY <1>4 DEF CTick
    <2>2. {m \in Cyclic : Fires(m)} = {m \in Msg : Clock!IsDue(m, elapsed + 1)}
      BY <1>4, FiresOnTime DEF Clock!IsDue, Cyclic
    <2>3. Clock!Advance
      BY <1>2, <2>1, <2>2 DEF Clock!Advance, Raised
    <2>4. QED  BY <2>3 DEF Clock!Next
  <1>5. QED  BY <1>3, <1>4

LEMMA StepRefines ==
    PhaseInv /\ [CNext]_cvars => [Clock!Next]_<<elapsed, Raised>>
  <1> SUFFICES ASSUME PhaseInv, [CNext]_cvars
               PROVE  Clock!Next \/ UNCHANGED <<elapsed, Raised>>
    OBVIOUS
  <1>1. CASE CTick
    BY <1>1, TickRefines
  <1>2. CASE Transmit /\ UNCHANGED <<model_time, elapsed>>
    <2>1. Raised' = {}
      BY <1>2 DEF Transmit, Raised, Cyclic
    <2>2. Clock!Collect
      BY <1>2, <2>1 DEF Clock!Collect, Raised
    <2>3. QED  BY <2>2 DEF Clock!Next
  <1>3. CASE ApplyEncode /\ UNCHANGED <<model_time, elapsed>>
    <2>1. CASE needs_tx' = needs_tx
      BY <1>3, <2>1 DEF Raised
    <2>2. CASE needs_tx' = [m \in Msg |-> FALSE]
      <3>1. Raised' = {}
        BY <2>2 DEF Raised, Cyclic
      <3>2. Clock!Collect
        BY <1>3, <3>1 DEF Clock!Collect, Raised
      <3>3. QED  BY <3>2 DEF Clock!Next
    <2>3. QED  BY <1>3, <2>1, <2>2 DEF ApplyEncode
  <1>4. CASE Pack /\ UNCHANGED <<model_time, elapsed>>
    BY <1>4 DEF Pack, Raised
  <1>5. CASE Receive /\ UNCHANGED <<model_time, elapsed>>
    BY <1>5 DEF Receive, Raised
  <1>6. CASE BeginTicks /\ UNCHANGED <<model_time, elapsed>>
    BY <1>6 DEF BeginTicks, Raised
  <1>7. CASE CEndStep
    BY <1>7 DEF CEndStep, EndStep, Raised
  <1>8. CASE UNCHANGED cvars
    BY <1>8 DEF cvars, vars, Raised
  <1>9. QED
    BY <1>1, <1>2, <1>3, <1>4, <1>5, <1>6, <1>7, <1>8 DEF CNext

(* The schedule implements the periodic clock: a cyclic message is flagged *)
(* at the multiples of its cycle time, never at another tick, whatever the *)
(* decode and encode paths do to the other flags and the checksums.        *)
THEOREM ScheduleIsPeriodic == CSpec => PeriodicFlags
  <1>1. CInit => Clock!Init
    BY DEF CInit, Init, Clock!Init, Cyclic
  <1>2. PhaseInv /\ [CNext]_cvars
            => [Clock!Next]_<<elapsed, {m \in Cyclic : needs_tx[m]}>>
    BY StepRefines DEF Raised
  <1>3. QED
    BY <1>1, <1>2, CInitPhase, CNextPhase, PTL
    DEF CSpec, PeriodicFlags, Clock!Spec

-----------------------------------------------------------------------------
(***************************************************************************)
(* The cadence, for steps of a whole number of milliseconds below 100 and  *)
(* a tick counter that does not wrap before MaxTime.                       *)
(***************************************************************************)
WholeMs == {1000 * k : k \in 1 .. 99}
NoWrap == MaxTime + 100000 < 1000 * TickMod

(* The factor 1.01 rounds such a step to its number of milliseconds.       *)
LEMMA TicksOfWholeMs ==
    ASSUME NEW k \in 1 .. 99
    PROVE  TicksOf(1000 * k) = {k}
  <1>1. ((1000 * k) * 101) \div 100000 = k
    OBVIOUS
  <1>2. ((1000 * k) * 101) % 100000 # 0
    OBVIOUS
  <1>3. QED  BY <1>1, <1>2 DEF TicksOf

Ticked == init_tick_done = TRUE /\ tick = elapsed + 1

CadenceInv ==
    /\ TypeOK /\ elapsed \in Nat /\ model_time \in Nat
    /\ model_time <= MaxTime + 99000
    /\ phase = "rx" =>
           /\ due = 0
           /\ \/ /\ at_start = TRUE /\ init_tick_done = FALSE /\ since = 0
                 /\ tick = 0 /\ elapsed = 0 /\ model_time = 0
              \/ /\ at_start = FALSE /\ Ticked /\ since = step
                 /\ model_time = 1000 * elapsed + step
    /\ phase = "tick" =>
           /\ \/ model_time = 1000 * (elapsed + due) /\ Ticked
              \/ /\ init_tick_done = TRUE /\ due = 1
                 /\ tick = 0 /\ elapsed = 0 /\ model_time = 0
           /\ due = 0 => since = 0
    /\ phase \in {"tx", "end"} =>
           due = 0 /\ since = 0 /\ Ticked /\ model_time = 1000 * elapsed

LEMMA BeginTicksCadence ==
    ASSUME StepSize \subseteq WholeMs, CadenceInv, BeginTicks,
           UNCHANGED <<model_time, elapsed>>
    PROVE  CadenceInv'
  <1>0. TypeOK'
    BY NextType DEF CadenceInv, Next
  <1>1. PICK ticks \in TicksOf(since) :
            due' = (IF InitialTick THEN 1 ELSE 0) + ticks
    BY DEF BeginTicks, StepTicks
  <1>2. PICK k \in 1 .. 99 : step = 1000 * k
    BY DEF CadenceInv, TypeOK, WholeMs
  <1>3. CASE at_start = TRUE
    <2>1. /\ init_tick_done = FALSE /\ since = 0 /\ elapsed = 0
          /\ model_time = 0 /\ tick = 0
      BY <1>3 DEF CadenceInv, BeginTicks
    <2>2. InitialTick
      BY <1>3, <2>1 DEF InitialTick
    <2>3. TicksOf(0) = {0}
      BY DEF TicksOf
    <2>4. due' = 1
      BY <1>1, <2>1, <2>2, <2>3
    <2>5. init_tick_done' = TRUE /\ phase' = "tick" /\ tick' = tick
      BY <1>3 DEF BeginTicks, StepTicks
    <2>6. QED  BY <1>0, <2>1, <2>4, <2>5 DEF CadenceInv
  <1>4. CASE at_start = FALSE
    <2>1. Ticked /\ since = step /\ model_time = 1000 * elapsed + step
      BY <1>4 DEF CadenceInv, BeginTicks
    <2>2. ~InitialTick
      BY <1>4 DEF InitialTick
    <2>3. ticks = k
      BY <1>2, <2>1, TicksOfWholeMs
    <2>4. due' = k
      BY <1>1, <2>2, <2>3
    <2>5. elapsed' = elapsed /\ model_time' = model_time /\ elapsed \in Nat
      BY DEF CadenceInv
    <2>6. model_time' = 1000 * (elapsed' + due')
      BY <1>2, <2>1, <2>4, <2>5
    <2>7. init_tick_done' = TRUE /\ phase' = "tick" /\ tick' = tick
      BY <2>1 DEF BeginTicks, StepTicks, Ticked
    <2>8. Ticked' /\ due' # 0
      BY <2>1, <2>4, <2>5, <2>7 DEF Ticked
    <2>9. QED  BY <1>0, <2>5, <2>6, <2>7, <2>8 DEF CadenceInv
  <1>5. at_start \in BOOLEAN
    BY DEF CadenceInv, TypeOK
  <1>6. QED  BY <1>3, <1>4, <1>5

LEMMA TickCadence ==
    ASSUME NoWrap, CadenceInv, CTick
    PROVE  CadenceInv'
  <1>0. TypeOK'
    BY NextType DEF CadenceInv, Next, CTick
  <1>1. /\ phase = "tick" /\ due > 0 /\ due \in Nat /\ elapsed \in Nat
        /\ model_time \in Nat /\ model_time <= MaxTime + 99000
    BY DEF CTick, Tick, MakeTick, CadenceInv, TypeOK
  <1>2. /\ phase' = "tick" /\ due' = due - 1 /\ since' = 0
        /\ model_time' = model_time /\ init_tick_done' = init_tick_done
        /\ tick' = (tick + 1) % TickMod
        /\ elapsed' = IF tick = 0 THEN elapsed ELSE elapsed + 1
    BY DEF CTick, Tick, MakeTick, network_schedule_tick
  <1>3. CASE model_time = 1000 * (elapsed + due) /\ Ticked
    <2>1. tick = elapsed + 1 /\ elapsed + 1 <= elapsed + due
      BY <1>1, <1>3 DEF Ticked
    <2>2. tick + 1 < TickMod
      BY <1>1, <1>3, <2>1, ScheduleAssumption, CadenceAssumption DEF NoWrap
    <2>3. tick' = tick + 1
      BY <1>1, <1>2, <2>1, <2>2, ScheduleAssumption
    <2>4. elapsed' = elapsed + 1 /\ tick' = elapsed' + 1
      BY <1>1, <1>2, <2>1, <2>3
    <2>5. model_time' = 1000 * (elapsed' + due')
      BY <1>1, <1>2, <1>3, <2>4
    <2>6. QED  BY <1>0, <1>1, <1>2, <1>3, <2>4, <2>5 DEF CadenceInv, Ticked
  <1>4. CASE /\ init_tick_done = TRUE /\ due = 1
             /\ tick = 0 /\ elapsed = 0 /\ model_time = 0
    <2>1. tick' = 1
      BY <1>2, <1>4, ScheduleAssumption
    <2>2. elapsed' = 0 /\ due' = 0
      BY <1>2, <1>4
    <2>3. QED  BY <1>0, <1>1, <1>2, <1>4, <2>1, <2>2 DEF CadenceInv, Ticked
  <1>5. \/ model_time = 1000 * (elapsed + due) /\ Ticked
        \/ /\ init_tick_done = TRUE /\ due = 1
           /\ tick = 0 /\ elapsed = 0 /\ model_time = 0
    BY <1>1 DEF CadenceInv
  <1>6. QED  BY <1>3, <1>4, <1>5

LEMMA EndStepCadence ==
    ASSUME StepSize \subseteq WholeMs, CadenceInv, CEndStep
    PROVE  CadenceInv'
  <1>0. TypeOK'
    BY NextType DEF CadenceInv, Next, CEndStep
  <1>1. PICK k \in 1 .. 99 : step = 1000 * k
    BY DEF CadenceInv, TypeOK, WholeMs
  <1>2. /\ phase = "end" /\ phase' = "rx" /\ since' = since + step
        /\ at_start' = FALSE
        /\ model_time' = model_time + step /\ model_time < MaxTime
        /\ UNCHANGED <<tick, elapsed, init_tick_done, due, step>>
    BY DEF CEndStep, EndStep, AdvanceTime
  <1>3. /\ due = 0 /\ since = 0 /\ Ticked /\ model_time = 1000 * elapsed
        /\ elapsed \in Nat /\ model_time \in Nat
    BY <1>2 DEF CadenceInv
  <1>4. since' = step' /\ Ticked' /\ due' = 0
    BY <1>1, <1>2, <1>3 DEF Ticked
  <1>5. model_time' \in Nat /\ model_time' <= MaxTime + 99000
    BY <1>1, <1>2, <1>3, CadenceAssumption
  <1>6. model_time' = 1000 * elapsed' + step'
    BY <1>2, <1>3
  <1>7. QED  BY <1>0, <1>2, <1>3, <1>4, <1>5, <1>6 DEF CadenceInv

(* When the ticks of such a step are made, the schedule has made one for   *)
(* every millisecond of the model time.                                    *)
LEMMA CadenceKept ==
    ASSUME StepSize \subseteq WholeMs, NoWrap
    PROVE  CSpec => [](TicksDone => model_time = 1000 * elapsed /\ elapsed \in Nat)
  <1>1. CInit => CadenceInv
    BY InitType, CadenceAssumption
       DEF CInit, Init, ClockInit, network_schedule_reset, CadenceInv
  <1>2. CadenceInv /\ [CNext]_cvars => CadenceInv'
    <2> SUFFICES ASSUME CadenceInv, [CNext]_cvars PROVE CadenceInv'
      OBVIOUS
    <2>0. TypeOK'
      BY CNextIsNext, NextType DEF CadenceInv
    <2>1. CASE BeginTicks /\ UNCHANGED <<model_time, elapsed>>
      BY <2>1, BeginTicksCadence
    <2>2. CASE CTick
      BY <2>2, TickCadence
    <2>3. CASE CEndStep
      BY <2>3, EndStepCadence
    <2>4. CASE Receive /\ UNCHANGED <<model_time, elapsed>>
      BY <2>0, <2>4 DEF Receive, CadenceInv, Ticked
    <2>5. CASE Pack /\ UNCHANGED <<model_time, elapsed>>
      <3>1. Ticked /\ model_time = 1000 * elapsed
        BY <2>5 DEF Pack, CadenceInv
      <3>2. QED  BY <2>0, <2>5, <3>1 DEF Pack, CadenceInv, Ticked
    <2>6. CASE ApplyEncode /\ UNCHANGED <<model_time, elapsed>>
      BY <2>0, <2>6 DEF ApplyEncode, CadenceInv, Ticked
    <2>7. CASE Transmit /\ UNCHANGED <<model_time, elapsed>>
      BY <2>0, <2>7 DEF Transmit, CadenceInv, Ticked
    <2>8. CASE UNCHANGED cvars
      BY <2>0, <2>8 DEF cvars, vars, CadenceInv, Ticked
    <2>9. QED
      BY <2>1, <2>2, <2>3, <2>4, <2>5, <2>6, <2>7, <2>8 DEF CNext
  <1>3. CadenceInv =>
            (TicksDone => model_time = 1000 * elapsed /\ elapsed \in Nat)
    BY DEF CadenceInv, TicksDone
  <1>4. QED  BY <1>1, <1>2, <1>3, PTL DEF CSpec

(* With such steps the schedule is never ahead of the model time: no       *)
(* periodic frame leaves early.                                            *)
THEOREM WholeMsCadence ==
    ASSUME StepSize \subseteq WholeMs, NoWrap
    PROVE  CSpec => []NeverAhead
  <1>1. (TicksDone => model_time = 1000 * elapsed /\ elapsed \in Nat)
            => NeverAhead
    BY DEF NeverAhead
  <1>2. QED  BY <1>1, CadenceKept, PTL

(* Nor is it behind it, by a millisecond or more: the cast that truncates  *)
(* the number of ticks loses none of them.                                 *)
THEOREM WholeMsKeepsUp ==
    ASSUME StepSize \subseteq WholeMs, NoWrap
    PROVE  CSpec => []NeverBehind
  <1>1. (TicksDone => model_time = 1000 * elapsed /\ elapsed \in Nat)
            => NeverBehind
    BY DEF NeverBehind
  <1>2. QED  BY <1>1, CadenceKept, PTL
=============================================================================
