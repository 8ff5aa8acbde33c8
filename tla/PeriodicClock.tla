--------------------------- MODULE PeriodicClock ----------------------------
(***************************************************************************)
(* What the schedule promises: on a 1 ms clock a message with cycle time c *)
(* is raised exactly at the multiples of c, and stays raised until all     *)
(* raised messages are collected together.                                 *)
(***************************************************************************)
EXTENDS Integers

CONSTANTS Msg, CycleTime

VARIABLES
    now,     \* milliseconds on the clock of the schedule
    raised   \* messages whose time has come and that are not collected yet

Init == now = 0 /\ raised = {}

IsDue(m, ms) == CycleTime[m] # 0 /\ ms % CycleTime[m] = 0

Advance ==
    /\ now' = now + 1
    /\ raised' = raised \cup {m \in Msg : IsDue(m, now + 1)}

Collect ==
    /\ raised' = {}
    /\ UNCHANGED now

Next == Advance \/ Collect

Spec == Init /\ [][Next]_<<now, raised>>
=============================================================================
