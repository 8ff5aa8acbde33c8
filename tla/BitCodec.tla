------------------------------ MODULE BitCodec ------------------------------
(***************************************************************************)
(* The pack and unpack functions of a message library, bit by bit, between *)
(* the struct of a sender and the struct of a receiver.                    *)
(*                                                                         *)
(* A member of a struct is the set of its bits that are 1, a payload the   *)
(* set of pairs <<byte, bit>> that are 1.  The functions are tables: a row *)
(* is one call of a shift helper, which moves bit i of a member to bit     *)
(* i + left of a byte, if bits of the byte (the mask) has it, or back.     *)
(*                                                                         *)
(* A definition marked "fault" is the definition after it with a plausible *)
(* mistake; the specification does not use it.                             *)
(***************************************************************************)
EXTENDS Integers

CONSTANTS
    Msg,                \* messages
    Members(_),         \* Members(m): members of the struct of m
    Width(_),           \* Width(f): bits of member f
    SignBit(_),         \* the bit unpacking extends into the bits above it
    Length(_),          \* bytes pack and unpack need
    Cases, Default,     \* cases of the switch on the mux signal, and "none"
    Selector(_),        \* member that is switched on
    Case(_, _),         \* Case(m, b): the case of selector value b
    PackRows(_, _),     \* rows of the pack function of m in a case
    UnpackRows(_, _),   \* rows of the unpack function
    Signal(_),          \* bound: values the signal of member f takes
    Encode(_, _),       \* Encode(f, v): results encoding v may have
    Local(_, _),        \* Local(f, r): r in the variable marshalling uses
    InRange(_, _),      \* is_in_range of a raw value
    Bits(_, _),         \* bits of a raw value
    Decode(_, _),       \* value of the signal with these bits
    Resolution(_)       \* of the signal, as its values

Results(f, v) == {Local(f, r) : r \in Encode(f, v)}
Raws(f) == {r \in UNION {Results(f, v) : v \in Signal(f)} : InRange(f, r)}
Value(f) == {{}} \cup {Bits(f, r) : r \in Raws(f)}

-----------------------------------------------------------------------------
(* The functions *)

(* pack_left_shift and pack_right_shift of every row, after the memset.    *)
Packed(m, s) ==
    UNION {{<<r.byte, j>> : j \in {k \in r.bits : k - r.left \in s[r.member]}} :
               r \in PackRows(m, Case(m, s[Selector(m)]))}

(* unpack_left_shift and unpack_right_shift of the rows of a member.       *)
Gathered(rows, f, p) ==
    UNION {{j - r.left : j \in {k \in r.bits : <<r.byte, k>> \in p}} :
               r \in {q \in rows : q.member = f}}

Extended(f, b) ==
    IF SignBit(f) \in b THEN b \cup (SignBit(f) + 1 .. Width(f) - 1) ELSE b

Read(m, c, f, p) == Extended(f, Gathered(UnpackRows(m, c), f, p))

(* The switch of an unpack function reads the selector it just unpacked.   *)
CaseIn(m, p) == Case(m, Read(m, Default, Selector(m), p))

CarriedBy(m, c) == {f \in Members(m) : \E r \in UnpackRows(m, c) : r.member = f}
Carried(m, s) == CarriedBy(m, Case(m, s[Selector(m)]))

UnpackedAll(m, old, p) ==                                   \* fault
    [f \in Members(m) |-> Read(m, CaseIn(m, p), f, p)]
Unpacked(m, old, p) ==
    [f \in Members(m) |-> IF f \in CarriedBy(m, CaseIn(m, p))
                          THEN Read(m, CaseIn(m, p), f, p) ELSE old[f]]

-----------------------------------------------------------------------------
(* What a library has to satisfy *)

PackedBits(m, c, f) ==
    UNION {{j - r.left : j \in r.bits} : r \in {q \in PackRows(m, c) : q.member = f}}

ASSUME SortAssumption ==
    /\ Default \in Cases
    /\ \A m \in Msg :
          /\ Length(m) \in Nat /\ Selector(m) \in Members(m)
          /\ \A f \in Members(m) : Width(f) \in Nat /\ SignBit(f) \in Nat
          /\ \A b \in Value(Selector(m)) : Case(m, b) \in Cases
          /\ \A c \in Cases : \A r \in PackRows(m, c) :
                /\ r.member \in Members(m) /\ r.left \in Int
                /\ r.byte \in 0 .. Length(m) - 1 /\ r.bits \subseteq 0 .. 7
                /\ \A j \in r.bits : j - r.left \in 0 .. Width(r.member) - 1

(* Unpacking reads where packing writes, no bit of a payload is written    *)
(* twice, and the selector is at the same place in every case.             *)
ASSUME LayoutAssumption ==
    \A m \in Msg, c \in Cases :
        /\ UnpackRows(m, c) = PackRows(m, c)
        /\ \A r, q \in PackRows(m, c) :
               r.byte = q.byte /\ r.bits \cap q.bits # {} => r = q
        /\ \A r \in PackRows(m, c) \cup PackRows(m, Default) :
               r.member = Selector(m) =>
                   r \in PackRows(m, c) \cap PackRows(m, Default)

(* A value in range loses nothing in the bits that are packed.             *)
ASSUME RangeAssumption ==
    \A m \in Msg, c \in Cases :
        \A f \in CarriedBy(m, c) \cup {Selector(m)} : \A b \in Value(f) :
            Extended(f, b \cap PackedBits(m, c, f)) = b

-----------------------------------------------------------------------------
VARIABLES pc,         \* what comes next: "marshal", "pack" or "unpack"
          msg,        \* the message observed
          src, dst,   \* nm->buffer of a sender and of a receiver
          frame,      \* nm->payload of the sender, and the frame
          taken       \* history: signal values the sender encoded into src

codecVars == <<pc, msg, src, dst, frame, taken>>

CodecInit ==
    /\ pc = "marshal"
    /\ msg \in Msg
    /\ src = [f \in Members(msg) |-> {}]
    /\ dst = src
    /\ frame = {}
    /\ taken = [f \in Members(msg) |-> Decode(f, {})]

(* Marshalling of one signal: a value out of range leaves the member.      *)
StorableAlways(f, r) == TRUE                                \* fault
Storable(f, r) == InRange(f, r)

Marshal ==
    /\ pc = "marshal"
    /\ pc' = "pack"
    /\ \E f \in Members(msg) : \E v \in Signal(f) : \E r \in Results(f, v) :
           IF Storable(f, r)
           THEN /\ src' = [src EXCEPT ![f] = Bits(f, r)]
                /\ taken' = [taken EXCEPT ![f] = v]
           ELSE UNCHANGED <<src, taken>>
    /\ UNCHANGED <<msg, dst, frame>>

Pack ==
    /\ pc = "pack"
    /\ pc' = "unpack"
    /\ frame' = Packed(msg, src)
    /\ UNCHANGED <<msg, src, dst, taken>>

(* A frame of fewer bytes than the message has is refused (-EINVAL).       *)
Unpack ==
    /\ pc = "unpack"
    /\ pc' = "marshal"
    /\ \E len \in {Length(msg) - 1, Length(msg)} :
           dst' = IF len < Length(msg) THEN dst ELSE Unpacked(msg, dst, frame)
    /\ UNCHANGED <<msg, src, frame, taken>>

CodecNext == Marshal \/ Pack \/ Unpack

CodecSpec == CodecInit /\ [][CodecNext]_codecVars

-----------------------------------------------------------------------------
(* Packing and unpacking keep the promise the rest of the program relies   *)
(* on: no member leaks into another one or loses a bit on the way, and an  *)
(* unpack function touches nothing the frame does not carry.               *)
Link == INSTANCE MessageLink WITH
            frame <- [f \in CarriedBy(msg, CaseIn(msg, frame)) |->
                          Read(msg, CaseIn(msg, frame), f, frame)]

CodecKeepsLink == Link!LinkSpec

(* The signal a receiver decodes from a frame is the one the sender last   *)
(* encoded, up to the resolution of the member: through the scaling, the   *)
(* cast, the bits of the frame and the extension of the sign.              *)
Distance(x, y) == IF x < y THEN y - x ELSE x - y

Accurate ==
    [][dst' # dst =>
           \A f \in Carried(msg, src) :
               Distance(Decode(f, dst'[f]), taken[f]) <= Resolution(f)]_codecVars
=============================================================================
