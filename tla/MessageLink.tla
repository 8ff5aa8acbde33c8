---------------------------- MODULE MessageLink -----------------------------
(* What a pack and an unpack function of a message library promise to the  *)
(* rest of the program: a frame carries some members of the sender's       *)
(* struct, unchanged, and a receiver takes over these and keeps the others.*)
EXTENDS Integers

CONSTANTS Msg,            \* messages
          Members(_),     \* Members(m): members of the struct of m
          Value(_),       \* Value(f): values of member f
          Carried(_, _)   \* Carried(m, s): members a frame of struct s carries

VARIABLES msg,            \* the message observed
          src, dst,       \* struct of the sender and of a receiver
          frame           \* members the last frame carries

linkVars == <<msg, src, dst, frame>>

Cut(m, s) == [f \in Carried(m, s) |-> s[f]]

LInit ==
    /\ msg \in Msg
    /\ src = [f \in Members(msg) |-> {}]
    /\ dst = src
    /\ frame = Cut(msg, src)

LWrite ==
    /\ \E f \in Members(msg) : \E v \in Value(f) :
           src' = [src EXCEPT ![f] = v]
    /\ UNCHANGED <<msg, dst, frame>>

LSend ==
    /\ frame' = Cut(msg, src)
    /\ UNCHANGED <<msg, src, dst>>

LDeliver ==
    /\ dst' = [f \in Members(msg) |->
                   IF f \in DOMAIN frame THEN frame[f] ELSE dst[f]]
    /\ UNCHANGED <<msg, src, frame>>

LNext == LWrite \/ LSend \/ LDeliver

LinkSpec == LInit /\ [][LNext]_linkVars
=============================================================================
