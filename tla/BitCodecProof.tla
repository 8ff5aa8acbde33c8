--------------------------- MODULE BitCodecProof ----------------------------
(* For every layout that satisfies the assumptions of BitCodec, packing    *)
(* and unpacking keep the promise stated in MessageLink.                   *)
EXTENDS BitCodec, TLAPS

(* A struct of m a sender can hold. *)
Struct_(m, s) == /\ DOMAIN s = Members(m)
                 /\ \A f \in Members(m) : s[f] \in Value(f)

(* Packing: the bit a row is responsible for is the bit of its member,     *)
(* because no other row writes to it (pack functions of stub.c).           *)
LEMMA PackedBit ==
    ASSUME NEW m \in Msg, NEW s, Case(m, s[Selector(m)]) \in Cases,
           NEW r \in PackRows(m, Case(m, s[Selector(m)])), NEW j \in r.bits
    PROVE  <<r.byte, j>> \in Packed(m, s) <=> j - r.left \in s[r.member]
<1> DEFINE rows == PackRows(m, Case(m, s[Selector(m)]))
<1>1. ASSUME j - r.left \in s[r.member]
      PROVE  <<r.byte, j>> \in Packed(m, s)
  BY <1>1 DEF Packed
<1>2. ASSUME <<r.byte, j>> \in Packed(m, s)
      PROVE  j - r.left \in s[r.member]
  <2>1. PICK q \in rows : \E k \in q.bits :
            /\ k - q.left \in s[q.member] /\ <<r.byte, j>> = <<q.byte, k>>
    BY <1>2 DEF Packed
  <2>2. q.byte = r.byte /\ j \in q.bits /\ j - q.left \in s[q.member]
    BY <2>1
  <2>3. q = r
    <3>1. r.bits \cap q.bits # {}
      BY <2>2
    <3> QED BY <2>2, <3>1, LayoutAssumption
  <2> QED BY <2>2, <2>3
<1> QED BY <1>1, <1>2

(* Unpacking: gathering the bits of a member from a packed payload gives   *)
(* the bits of the member that are packed at all.                          *)
LEMMA GatheredBits ==
    ASSUME NEW m \in Msg, NEW s, Case(m, s[Selector(m)]) \in Cases,
           NEW f, NEW rows,
           {q \in rows : q.member = f}
               = {q \in PackRows(m, Case(m, s[Selector(m)])) : q.member = f}
    PROVE  Gathered(rows, f, Packed(m, s))
               = s[f] \cap PackedBits(m, Case(m, s[Selector(m)]), f)
<1> DEFINE p == Packed(m, s)
           own == {q \in PackRows(m, Case(m, s[Selector(m)])) : q.member = f}
<1>1. \A r \in own : \A j \in r.bits : <<r.byte, j>> \in p <=> j - r.left \in s[f]
  BY PackedBit
<1>2. ASSUME NEW i
      PROVE  i \in Gathered(rows, f, p) <=>
                 \E r \in own : \E j \in r.bits :
                     <<r.byte, j>> \in p /\ i = j - r.left
  BY DEF Gathered
<1>3. ASSUME NEW i
      PROVE  i \in PackedBits(m, Case(m, s[Selector(m)]), f) <=>
                 \E r \in own : \E j \in r.bits : i = j - r.left
  BY DEF PackedBits
<1>4. ASSUME NEW i, i \in Gathered(rows, f, p)
      PROVE  i \in s[f] \cap PackedBits(m, Case(m, s[Selector(m)]), f)
  <2>1. PICK r \in own : \E j \in r.bits : <<r.byte, j>> \in p /\ i = j - r.left
    BY <1>2, <1>4
  <2>2. PICK j \in r.bits : <<r.byte, j>> \in p /\ i = j - r.left
    BY <2>1
  <2>3. j - r.left \in s[f]
    BY <1>1, <2>2
  <2> QED BY <1>3, <2>2, <2>3
<1>5. ASSUME NEW i, i \in s[f],
             i \in PackedBits(m, Case(m, s[Selector(m)]), f)
      PROVE  i \in Gathered(rows, f, p)
  <2>1. PICK r \in own : \E j \in r.bits : i = j - r.left
    BY <1>3, <1>5
  <2>2. PICK j \in r.bits : i = j - r.left
    BY <2>1
  <2>3. <<r.byte, j>> \in p
    BY <1>1, <1>5, <2>2
  <2> QED BY <1>2, <2>2, <2>3
<1> QED BY <1>4, <1>5

(* Reading a member back from a packed payload gives the member: nothing   *)
(* of a value in range is lost (example_message_unpack extends the sign).  *)
LEMMA ReadBack ==
    ASSUME NEW m \in Msg, NEW s, Struct_(m, s),
           NEW c \in Cases, NEW f \in Members(m),
           Case(m, s[Selector(m)]) \in Cases,
           {q \in UnpackRows(m, c) : q.member = f}
               = {q \in PackRows(m, Case(m, s[Selector(m)])) : q.member = f},
           \/ f = Selector(m)
           \/ f \in CarriedBy(m, Case(m, s[Selector(m)]))
    PROVE  Read(m, c, f, Packed(m, s)) = s[f]
<1>1. Gathered(UnpackRows(m, c), f, Packed(m, s))
          = s[f] \cap PackedBits(m, Case(m, s[Selector(m)]), f)
  BY GatheredBits
<1>2. s[f] \in Value(f)
  BY DEF Struct_
<1>3. Extended(f, s[f] \cap PackedBits(m, Case(m, s[Selector(m)]), f)) = s[f]
  BY <1>2, RangeAssumption
<1> QED BY <1>1, <1>3 DEF Read

(* The switch of unpack takes the case the switch of pack took             *)
(* (mux_message: header_id is outside the switch of both).                 *)
LEMMA SameCase ==
    ASSUME NEW m \in Msg, NEW s, Struct_(m, s)
    PROVE  /\ Case(m, s[Selector(m)]) \in Cases
           /\ CaseIn(m, Packed(m, s)) = Case(m, s[Selector(m)])
<1> DEFINE c == Case(m, s[Selector(m)])
<1>1. Selector(m) \in Members(m) /\ Default \in Cases
  BY SortAssumption
<1>2. c \in Cases
  BY <1>1, SortAssumption DEF Struct_
<1>3. {q \in UnpackRows(m, Default) : q.member = Selector(m)}
          = {q \in PackRows(m, c) : q.member = Selector(m)}
  <2>1. UnpackRows(m, Default) = PackRows(m, Default)
    BY <1>1, LayoutAssumption
  <2>2. \A r \in PackRows(m, c) \cup PackRows(m, Default) :
            r.member = Selector(m) =>
                r \in PackRows(m, c) \cap PackRows(m, Default)
    BY <1>2, LayoutAssumption
  <2> QED BY <2>1, <2>2
<1>4. Read(m, Default, Selector(m), Packed(m, s)) = s[Selector(m)]
  BY <1>1, <1>2, <1>3, ReadBack
<1> QED BY <1>2, <1>4 DEF CaseIn

(* A frame carries the members of the sender's struct, unchanged: reading  *)
(* every member a packed payload carries gives what was packed, for every  *)
(* layout and every struct (pack and unpack functions of stub.c).          *)
THEOREM RoundTrip ==
    ASSUME NEW m \in Msg, NEW s, Struct_(m, s)
    PROVE  /\ CarriedBy(m, CaseIn(m, Packed(m, s))) = Carried(m, s)
           /\ \A f \in Carried(m, s) :
                  Read(m, CaseIn(m, Packed(m, s)), f, Packed(m, s)) = s[f]
<1> DEFINE c == Case(m, s[Selector(m)])
<1>1. c \in Cases /\ CaseIn(m, Packed(m, s)) = c
  BY SameCase
<1>2. ASSUME NEW f \in CarriedBy(m, c)
      PROVE  Read(m, c, f, Packed(m, s)) = s[f]
  <2>1. f \in Members(m)
    BY DEF CarriedBy
  <2>2. UnpackRows(m, c) = PackRows(m, c)
    BY <1>1, LayoutAssumption
  <2> QED BY <1>1, <2>1, <2>2, ReadBack
<1> QED BY <1>1, <1>2 DEF Carried

-----------------------------------------------------------------------------
(* The sender's struct only ever holds values in range, the receiver's has *)
(* its members.                                                            *)
CodecInv == /\ msg \in Msg
            /\ Struct_(msg, src)
            /\ DOMAIN dst = Members(msg)

(* What marshalling the raw value r does to the sender's struct. *)
Stored(f, r) == IF Storable(f, r)
                THEN src' = [src EXCEPT ![f] = Bits(f, r)] ELSE src' = src

LEMMA CodecInvInit == CodecInit => CodecInv
  BY DEF CodecInit, CodecInv, Struct_, Value

LEMMA CodecInvNext == CodecInv /\ [CodecNext]_codecVars => CodecInv'
<1> SUFFICES ASSUME CodecInv, [CodecNext]_codecVars
             PROVE  CodecInv'
  OBVIOUS
<1> USE DEF CodecInv, Struct_
<1>1. CASE Marshal
  <2>1. PICK f \in Members(msg) :
            \E v \in Signal(f) : \E r \in Results(f, v) : Stored(f, r)
    BY <1>1 DEF Marshal, Stored
  <2>2. PICK v \in Signal(f), r \in UNION {Results(f, u) : u \in Signal(f)} :
            Stored(f, r)
    BY <2>1
  <2>3. Storable(f, r) => Bits(f, r) \in Value(f)
    BY DEF Storable, Value, Raws
  <2>4. msg' = msg /\ dst' = dst
    BY <1>1 DEF Marshal
  <2> QED BY <2>2, <2>3, <2>4 DEF Stored
<1>2. CASE Pack
  BY <1>2 DEF Pack
<1>3. CASE Unpack
  BY <1>3 DEF Unpack, Unpacked
<1>4. CASE UNCHANGED codecVars
  BY <1>4 DEF codecVars
<1> QED BY <1>1, <1>2, <1>3, <1>4 DEF CodecNext

(* What the payload of a struct carries, as the promise sees it. *)
LEMMA FrameOfStruct ==
    ASSUME NEW m \in Msg, NEW s, Struct_(m, s)
    PROVE  [f \in CarriedBy(m, CaseIn(m, Packed(m, s))) |->
                Read(m, CaseIn(m, Packed(m, s)), f, Packed(m, s))]
           = Link!Cut(m, s)
  BY RoundTrip DEF Link!Cut

(* Before the first frame nothing is set. *)
LEMMA LinkInitial == CodecInit => Link!LInit
<1> SUFFICES ASSUME CodecInit PROVE Link!LInit
  OBVIOUS
<1> DEFINE zero == [f \in Members(msg) |-> {}]
<1>1. msg \in Msg /\ src = zero /\ dst = src /\ frame = {}
  BY DEF CodecInit
<1>2. Selector(msg) \in Members(msg)
  BY <1>1, SortAssumption
<1>3. ASSUME NEW c, NEW f PROVE Read(msg, c, f, {}) = {}
  <2>1. Gathered(UnpackRows(msg, c), f, {}) = {}
    BY DEF Gathered
  <2> QED BY <2>1 DEF Read, Extended
<1>4. CaseIn(msg, {}) = Case(msg, src[Selector(msg)])
  BY <1>1, <1>2, <1>3 DEF CaseIn
<1>5. CarriedBy(msg, CaseIn(msg, frame)) = Carried(msg, src)
  BY <1>1, <1>4 DEF Carried
<1>6. \A f \in Carried(msg, src) : src[f] = {}
  BY <1>1 DEF Carried, CarriedBy
<1>7. [f \in CarriedBy(msg, CaseIn(msg, frame)) |->
           Read(msg, CaseIn(msg, frame), f, frame)] = Link!Cut(msg, src)
  BY <1>1, <1>3, <1>5, <1>6 DEF Link!Cut
<1> QED BY <1>1, <1>7 DEF Link!LInit

(* Every step of the functions is a step of the promise or none at all.    *)
LEMMA LinkStep ==
    CodecInv /\ [CodecNext]_codecVars => [Link!LNext]_(Link!linkVars)
<1> SUFFICES ASSUME CodecInv, [CodecNext]_codecVars
             PROVE  Link!LNext \/ UNCHANGED Link!linkVars
  OBVIOUS
<1>1. CASE Marshal
  <2>1. PICK f \in Members(msg) :
            \E v \in Signal(f) : \E r \in Results(f, v) : Stored(f, r)
    BY <1>1 DEF Marshal, Stored
  <2>2. PICK v \in Signal(f), r \in UNION {Results(f, u) : u \in Signal(f)} :
            Stored(f, r)
    BY <2>1
  <2>3. UNCHANGED <<msg, dst, frame>>
    BY <1>1 DEF Marshal
  <2>4. CASE Storable(f, r)
    <3>1. Bits(f, r) \in Value(f)
      BY <2>4 DEF Storable, Value, Raws
    <3> QED BY <2>2, <2>3, <2>4, <3>1 DEF Stored, Link!LNext, Link!LWrite
  <2>5. CASE ~Storable(f, r)
    BY <2>2, <2>3, <2>5 DEF Stored, Link!linkVars
  <2> QED BY <2>4, <2>5
<1>2. CASE Pack
  <2>1. frame' = Packed(msg, src) /\ UNCHANGED <<msg, src, dst>>
    BY <1>2 DEF Pack
  <2>2. [f \in CarriedBy(msg, CaseIn(msg, frame)) |->
             Read(msg, CaseIn(msg, frame), f, frame)]' = Link!Cut(msg, src)
    BY <2>1, FrameOfStruct DEF CodecInv
  <2> QED BY <2>1, <2>2 DEF Link!LNext, Link!LSend
<1>3. CASE Unpack
  <2>1. UNCHANGED <<msg, src, frame>>
    BY <1>3 DEF Unpack
  <2>2. CASE dst' = dst
    BY <2>1, <2>2 DEF Link!linkVars
  <2>3. CASE dst' = Unpacked(msg, dst, frame)
    BY <2>1, <2>3 DEF Unpacked, Link!LNext, Link!LDeliver
  <2> QED BY <1>3, <2>2, <2>3 DEF Unpack
<1>4. CASE UNCHANGED codecVars
  BY <1>4 DEF codecVars, Link!linkVars
<1> QED BY <1>1, <1>2, <1>3, <1>4 DEF CodecNext

(* The codec of every message library whose tables satisfy the assumptions *)
(* implements the promise of MessageLink (stub.c).                         *)
THEOREM CodecImplementsLink == CodecSpec => CodecKeepsLink
<1>1. CodecInit => CodecInv /\ Link!LInit
  BY CodecInvInit, LinkInitial
<1>2. CodecInv /\ [CodecNext]_codecVars => CodecInv' /\ [Link!LNext]_(Link!linkVars)
  BY CodecInvNext, LinkStep
<1> QED BY <1>1, <1>2, PTL DEF CodecSpec, CodecKeepsLink, Link!LinkSpec
=============================================================================
