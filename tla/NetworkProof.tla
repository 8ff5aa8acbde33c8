---------------------------- MODULE NetworkProof ----------------------------
(***************************************************************************)
(* Proofs about NetworkModel, for every network: any number of messages    *)
(* and signals, any codec functions, message functions and frames.         *)
(***************************************************************************)
EXTENDS NetworkModel, WellFoundedInduction, TLAPS

USE DEF chanVars, sigVars, msgVars, flagVars, alarmVars, clockVars, histVars

(* The first of a set of indices is one of them, and none is before it. *)
LEMMA FirstMember ==
    ASSUME NEW S \in SUBSET Nat, S # {}
    PROVE  First(S) \in S /\ \A j \in S : First(S) <= j
  <1> DEFINE R == {ss \in Nat \X Nat : ss[1] < ss[2]}
  <1>1. IsWellFoundedOn(OpToRel(<, Nat), Nat)
    BY NatLessThanWellFounded
  <1>2. IsWellFoundedOn(R, Nat)
    BY <1>1, Zenon DEF OpToRel
  <1> HIDE DEF R
  <1>3. PICK i \in S : \A j \in S : ~ (<<j, i>> \in R)
    BY <1>2, WFMin
  <1>4. ASSUME NEW j \in S PROVE i <= j
    <2>1. i \in Nat /\ j \in Nat
      OBVIOUS
    <2>2. ~ (<<j, i>> \in R)
      BY <1>3
    <2>3. ~ (j < i)
      BY <2>1, <2>2 DEF R
    <2>4. QED  BY <2>1, <2>3
  <1>5. QED  BY <1>4 DEF First

(* A signal of the channel is mapped to a signal of the network. *)
LEMMA MapType ==
    /\ SrMap \in [DOMAIN SrMap -> Sig]
    /\ \A v \in DOMAIN SrMap : SigName[SrMap[v]] = v
  <1> SUFFICES ASSUME NEW v \in DOMAIN SrMap
               PROVE  SrMap[v] \in Sig /\ SigName[SrMap[v]] = v
    BY DEF SrMap
  <1>1. Mapped(v) # {} /\ SrMap[v] = First(Mapped(v))
    BY DEF SrMap
  <1>2. Mapped(v) \in SUBSET Nat
    BY NetworkAssumption DEF Mapped, Sig
  <1>3. SrMap[v] \in Mapped(v)
    BY <1>1, <1>2, FirstMember
  <1>4. QED  BY <1>3 DEF Mapped

(* The functions of the message library keep the contents of a frame. *)
LEMMA LibraryType ==
    ASSUME NEW m \in Msg, NEW buf \in Content, NEW p \in Content
    PROVE  Packed(m, buf) \in Content /\ Unpacked(m, buf, p) \in Content
  BY NetworkAssumption DEF Packed, Unpacked, Content

LEMMA MarshalType ==
    ASSUME NEW vector \in [Sig -> Phys], NEW buf \in [Msg -> Content]
    PROVE  MarshalledBuffer(vector, buf) \in [Msg -> Content]
  <1> SUFFICES ASSUME NEW m \in Msg, NEW f \in Field
               PROVE  MarshalledBuffer(vector, buf)[m][f] \in Raw
    BY DEF MarshalledBuffer, Content
  <1>1. \A s \in Sig : Enc(s, Outgoing(s, vector)) \in Raw
    BY NetworkAssumption, CodecAssumption DEF Outgoing
  <1>2. buf[m][f] \in Raw
    BY DEF Content
  <1>3. QED  BY <1>1, <1>2 DEF MarshalledBuffer

LEMMA DecodedType ==
    ASSUME NEW s \in Sig, NEW content \in Content, NEW old \in Phys
    PROVE  Decoded(s, content, old) \in Phys
  BY NetworkAssumption, CodecAssumption DEF Decoded, Content

LEMMA ToSignalsType ==
    ASSUME signal_vector \in [Sig -> Phys], buffer \in [Msg -> Content],
           marshal_messages_to_signals
    PROVE  /\ signal_vector' \in [Sig -> Phys]
           /\ update_signals' \in [Msg -> BOOLEAN]
  BY NetworkAssumption, DecodedType DEF marshal_messages_to_signals

LEMMA ResummedType ==
    ASSUME buffer_checksum \in [Msg -> Checksum], buffer' \in [Msg -> Content],
           NEW S
    PROVE  Resummed(S) \in [Msg -> Checksum]
  BY CodecAssumption DEF Resummed

LEMMA HashType == \A p \in Content : Hash(p) \in Checksum
  BY CodecAssumption

-----------------------------------------------------------------------------
(* Type correctness *)

LEMMA InitBufferType == InitBuffer \in [Msg -> Content]
  <1>1. InitVector \in [Sig -> Phys]
    BY NetworkAssumption DEF InitVector
  <1>2. [m \in Msg |-> [f \in Field |-> 0]] \in [Msg -> Content]
    BY NetworkAssumption DEF Content
  <1>3. QED  BY <1>1, <1>2, MarshalType DEF InitBuffer

LEMMA InitType == Init => TypeOK
  <1> SUFFICES ASSUME Init PROVE TypeOK
    OBVIOUS
  <1>1. sv \in [DOMAIN SrMap -> Phys]
    BY MapType, NetworkAssumption DEF Init
  <1>2. signal_vector \in [Sig -> Phys]
    BY NetworkAssumption DEF Init, InitVector
  <1>3. payload \in [Msg -> Content]
    BY InitBufferType, LibraryType DEF Init
  <1>4. buffer_checksum \in [Msg -> Checksum]
    BY InitBufferType, HashType, NetworkAssumption DEF Init
  <1>5. rx \in Seq(RxFrame)
    BY DEF Init
  <1>6. QED
    BY <1>1, <1>2, <1>3, <1>4, <1>5, InitBufferType DEF Init, TypeOK

(* What receiving a frame writes. *)
LEMMA ReceiveType ==
    ASSUME TypeOK, NEW S \in SUBSET Msg, NEW p \in Content, Receive(S, p)
    PROVE  /\ buffer' \in [Msg -> Content]
           /\ update_signals' \in [Msg -> BOOLEAN]
           /\ buffer_checksum' \in [Msg -> Checksum]
           /\ bus' \in [Msg -> Content]
           /\ unsent' \subseteq Msg
  <1>1. buffer' \in [Msg -> Content]
    BY LibraryType DEF TypeOK, Receive
  <1>2. bus' \in [Msg -> Content]
    BY <1>1, LibraryType DEF TypeOK, Receive
  <1>3. buffer_checksum' \in [Msg -> Checksum]
    BY <1>1, ResummedType DEF TypeOK, Receive
  <1>4. update_signals' \in [Msg -> BOOLEAN]
    BY DEF TypeOK, Receive
  <1>5. QED  BY <1>1, <1>2, <1>3, <1>4 DEF TypeOK, Receive

LEMMA ProcessedType ==
    ASSUME NEW m \in Msg, NEW p
    PROVE  Processed(m, p) \subseteq Msg
  <1> DEFINE mux == VectorAfter(m, p)[MuxSignal(m)]
             inner == IF IsContainer(m) THEN MuxMessages(FrameId[m], mux)
                                        ELSE {}
  <1>1. inner \in SUBSET Nat /\ inner \subseteq Msg
    BY NetworkAssumption DEF MuxMessages, Msg
  <1>2. Processed(m, p) = {m} \cup (IF inner = {} THEN {} ELSE {First(inner)})
    BY Zenon DEF Processed
  <1> HIDE DEF inner
  <1>3. inner # {} => First(inner) \in Msg
    BY <1>1, FirstMember
  <1>4. QED  BY <1>2, <1>3

LEMMA VectorAfterType ==
    ASSUME TypeOK, NEW m \in Msg, NEW p \in Content
    PROVE  VectorAfter(m, p) \in [Sig -> Phys]
  <1>1. Unpacked(m, buffer[m], p) \in Content
    BY LibraryType DEF TypeOK
  <1>2. \A s \in Sig :
            Decoded(s, Unpacked(m, buffer[m], p), signal_vector[s]) \in Phys
    BY <1>1, DecodedType DEF TypeOK
  <1>3. QED  BY <1>2 DEF VectorAfter, TypeOK

LEMMA MatchingType ==
    \A id : Matching(id) \in SUBSET Nat /\ Matching(id) \subseteq Msg
  BY NetworkAssumption DEF Matching, Msg

LEMMA DecodeFrameType == TypeOK /\ DecodeFrame => TypeOK'
  <1> SUFFICES ASSUME TypeOK, DecodeFrame PROVE TypeOK'
    OBVIOUS
  <1> DEFINE fr == Head(rx)
             m == First(Matching(fr.id))
  <1>1. fr \in RxFrame /\ rx' \in Seq(RxFrame)
    BY DEF TypeOK, DecodeFrame
  <1>2. CASE Dropped(fr)
    BY <1>1, <1>2 DEF TypeOK, DecodeFrame
  <1>3. CASE ~Dropped(fr)
    <2>1. Matching(fr.id) # {} /\ Matching(fr.id) \in SUBSET Nat
      BY <1>3, MatchingType DEF Dropped
    <2>2. m \in Matching(fr.id)
      BY <2>1, FirstMember
    <2>3. m \in Msg
      BY <2>2, MatchingType
    <2>4. fr.payload \in Content
      BY <1>1, CodecAssumption
    <2>5. /\ signal_vector' = VectorAfter(m, fr.payload)
          /\ Receive(Processed(m, fr.payload), fr.payload)
      BY <1>3 DEF DecodeFrame
    <2>6. signal_vector' \in [Sig -> Phys]
      BY <2>3, <2>4, <2>5, VectorAfterType
    <2>7. Processed(m, fr.payload) \in SUBSET Msg
      BY <2>3, ProcessedType
    <2>8. /\ buffer' \in [Msg -> Content]
          /\ update_signals' \in [Msg -> BOOLEAN]
          /\ buffer_checksum' \in [Msg -> Checksum]
          /\ bus' \in [Msg -> Content]
          /\ unsent' \subseteq Msg
      BY <2>4, <2>5, <2>7, ReceiveType
    <2>9. QED  BY <1>1, <2>6, <2>8 DEF TypeOK, DecodeFrame
  <1>4. QED  BY <1>2, <1>3

LEMMA RxSignalsType == TypeOK /\ RxSignals => TypeOK'
  <1> SUFFICES ASSUME TypeOK, RxSignals PROVE TypeOK'
    OBVIOUS
  <1>1. ASSUME NEW s \in Sig, \E v \in DOMAIN SrMap : SrMap[v] = s
        PROVE  sv[SigName[s]] \in Phys
    BY <1>1, MapType DEF TypeOK
  <1>2. signal_vector' \in [Sig -> Phys]
    BY <1>1 DEF RxSignals, TypeOK
  <1>3. QED  BY <1>2 DEF RxSignals, TypeOK

LEMMA ApplyEncodeType == TypeOK /\ ApplyEncode => TypeOK'
  <1> SUFFICES ASSUME TypeOK, ApplyEncode PROVE TypeOK'
    OBVIOUS
  <1>1. \A m \in Msg : Encoded(m, payload[m]) \in Content
    BY CodecAssumption DEF TypeOK
  <1>2. payload' \in [Msg -> Content]
    BY <1>1 DEF TypeOK, ApplyEncode
  <1>3. \A m \in Msg : Unpacked(m, buffer[m], payload'[m]) \in Content
    BY <1>2, LibraryType DEF TypeOK
  <1>4. buffer' \in [Msg -> Content]
    BY <1>3 DEF TypeOK, ApplyEncode
  <1>5. buffer_checksum' \in [Msg -> Checksum]
    BY <1>4, ResummedType DEF TypeOK, ApplyEncode
  <1>6. needs_tx' \in [Msg -> BOOLEAN] /\ update_signals' \in [Msg -> BOOLEAN]
    BY NetworkAssumption DEF TypeOK, ApplyEncode, Sendable, Altered
  <1>7. unsent' \subseteq Msg
    BY DEF TypeOK, ApplyEncode
  <1>8. QED  BY <1>2, <1>4, <1>5, <1>6, <1>7 DEF TypeOK, ApplyEncode

LEMMA NextType == TypeOK /\ [Next]_vars => TypeOK'
  <1> SUFFICES ASSUME TypeOK, [Next]_vars PROVE TypeOK'
    OBVIOUS
  <1>1. CASE Exchange
    BY <1>1 DEF Exchange, TypeOK
  <1>2. CASE RxSignals
    BY <1>2, RxSignalsType
  <1>3. CASE DecodeFrame
    BY <1>3, DecodeFrameType
  <1>4. CASE DecodeDone
    BY <1>4 DEF DecodeDone, TypeOK
  <1>5. CASE ApplyDecode
    BY <1>5 DEF ApplyDecode, TypeOK
  <1>6. CASE MarshalToSignals
    <2>1. /\ signal_vector' \in [Sig -> Phys]
          /\ update_signals' \in [Msg -> BOOLEAN]
      BY <1>6, ToSignalsType DEF MarshalToSignals, TypeOK
    <2>2. QED  BY <1>6, <2>1 DEF MarshalToSignals, TypeOK
  <1>7. CASE BeginTicks
    BY <1>7 DEF BeginTicks, TypeOK
  <1>8. CASE Tick
    <2>1. /\ buffer_checksum' \in [Msg -> Checksum]
          /\ needs_tx' \in [Msg -> BOOLEAN]
      BY <1>8, NetworkAssumption
         DEF Tick, TypeOK, Sched!MakeTick, Sched!network_schedule_tick,
             Sched!Unsummed, Sched!Fires
    <2>2. QED  BY <1>8, <2>1 DEF Tick, TypeOK
  <1>9. CASE TicksDone
    BY <1>9 DEF TicksDone, TypeOK
  <1>10. CASE MarshalToMessages
    <2>1. buffer' \in [Msg -> Content]
      BY <1>10, MarshalType DEF MarshalToMessages, TypeOK
    <2>2. QED  BY <1>10, <2>1 DEF MarshalToMessages, TypeOK
  <1>11. CASE Pack
    <2>1. payload' \in [Msg -> Content]
      BY <1>11, LibraryType DEF Pack, TypeOK
    <2>2. buffer_checksum' \in [Msg -> Checksum]
      BY <1>11, ResummedType DEF Pack, TypeOK
    <2>3. needs_tx' \in [Msg -> BOOLEAN]
      BY <1>11 DEF Pack, TypeOK, Flagged, Changed
    <2>4. QED  BY <1>11, <2>1, <2>2, <2>3 DEF Pack, TypeOK
  <1>12. CASE ApplyEncode
    BY <1>12, ApplyEncodeType
  <1>13. CASE EncodeToBus
    BY <1>13 DEF EncodeToBus, TypeOK
  <1>14. CASE UpdateSignals
    <2>1. /\ signal_vector' \in [Sig -> Phys]
          /\ update_signals' \in [Msg -> BOOLEAN]
      BY <1>14, ToSignalsType DEF UpdateSignals, TypeOK
    <2>2. QED  BY <1>14, <2>1 DEF UpdateSignals, TypeOK
  <1>15. CASE TxSignals
    <2>1. sv' \in [DOMAIN SrMap -> Phys]
      BY <1>15, MapType DEF TxSignals, TypeOK
    <2>2. QED  BY <1>15, <2>1 DEF TxSignals, TypeOK
  <1>16. CASE UNCHANGED vars
    BY <1>16 DEF vars, TypeOK
  <1>17. QED
    BY <1>1, <1>2, <1>3, <1>4, <1>5, <1>6, <1>7, <1>8, <1>9, <1>10, <1>11,
       <1>12, <1>13, <1>14, <1>15, <1>16 DEF Next, model_step

(* The network model's variables keep their types: no sequence of frames,  *)
(* signal values and alarms takes a buffer, a payload or a signal out of   *)
(* its range, also where model_step indexes one through a mapping.         *)
THEOREM NetworkTypeCorrect == Spec => []TypeOK
  BY InitType, NextType, PTL DEF Spec

-----------------------------------------------------------------------------
(* The schedule is kept *)

RxPhase == {"idle", "rx_signals", "decode", "apply_decode", "signals",
            "begin_ticks"}
TickPhase == {"tick", "signals_to_messages", "pack"}
TxPhase == {"apply_encode", "encode"}
EndPhase == {"update", "tx_signals"}

(* Outside of the schedule and the encode path no message is flagged; from *)
(* its alarm to packing a flagged cyclic message has checksum 0; packing   *)
(* starts when the ticks of the step are made.                             *)
FlagInv ==
    /\ pc \in RxPhase \cup EndPhase => \A m \in Msg : ~needs_tx[m]
    /\ pc \in TickPhase =>
           \A m \in Msg : needs_tx[m] => ~Event(m) /\ buffer_checksum[m] = 0
    /\ pc \in {"signals_to_messages", "pack"} => due = 0

LEMMA InitFlag == Init => FlagInv
  BY DEF Init, FlagInv, RxPhase, EndPhase, TickPhase

LEMMA NextFlag == TypeOK /\ FlagInv /\ [Next]_vars => FlagInv'
  <1> SUFFICES ASSUME TypeOK, FlagInv, [Next]_vars PROVE FlagInv'
    OBVIOUS
  <1> USE DEF FlagInv, RxPhase, EndPhase, TickPhase
  <1>1. CASE Exchange \/ RxSignals
    BY <1>1 DEF Exchange, RxSignals
  <1>2. CASE DecodeFrame
    BY <1>2 DEF DecodeFrame
  <1>3. CASE DecodeDone \/ ApplyDecode \/ MarshalToSignals
    BY <1>3 DEF DecodeDone, ApplyDecode, MarshalToSignals
  <1>4. CASE BeginTicks
    BY <1>4 DEF BeginTicks
  <1>5. CASE Tick
    <2>1. pc = "tick" /\ pc' = "tick"
      BY <1>5 DEF Tick
    <2>2. ASSUME NEW m \in Msg, needs_tx'[m]
          PROVE  ~Event(m) /\ buffer_checksum'[m] = 0
      BY <1>5, <2>1, <2>2 DEF Tick, TypeOK, Event, Sched!MakeTick,
            Sched!network_schedule_tick, Sched!Unsummed, Sched!Fires,
            Sched!Cyclic
    <2>3. QED  BY <2>1, <2>2
  <1>6. CASE TicksDone
    BY <1>6 DEF TicksDone
  <1>7. CASE MarshalToMessages
    BY <1>7 DEF MarshalToMessages
  <1>8. CASE Pack
    BY <1>8 DEF Pack
  <1>9. CASE ApplyEncode
    BY <1>9 DEF ApplyEncode
  <1>10. CASE EncodeToBus
    BY <1>10 DEF EncodeToBus
  <1>11. CASE UpdateSignals \/ TxSignals
    BY <1>11 DEF UpdateSignals, TxSignals
  <1>12. CASE UNCHANGED vars
    BY <1>12 DEF vars
  <1>13. QED
    BY <1>1, <1>2, <1>3, <1>4, <1>5, <1>6, <1>7, <1>8, <1>9, <1>10, <1>11,
       <1>12 DEF Next, model_step

LEMMA InitSched == Init => Sched!Init
  <1> SUFFICES ASSUME Init PROVE Sched!Init
    OBVIOUS
  <1>1. Phase = "rx" /\ DOMAIN tx = {}
    BY DEF Init, Phase
  <1>2. buffer_checksum \in [Msg -> Checksum]
    BY InitType DEF TypeOK
  <1>3. \A m \in Sched!Cyclic : buffer_checksum[m] = 0
    BY DEF Init, Sched!Cyclic, Event
  <1>4. Sched!ClockInit /\ needs_tx = [m \in Msg |-> FALSE]
    BY DEF Init
  <1>5. QED  BY <1>1, <1>2, <1>3, <1>4 DEF Sched!Init

(* The steps that leave everything the schedule sees as it is. *)
SchedStutter ==
    /\ \/ pc \in RxPhase /\ pc' \in RxPhase
       \/ pc \in TickPhase /\ pc' \in TickPhase
       \/ pc \in EndPhase /\ pc' \in EndPhase
    /\ UNCHANGED <<flagVars, alarmVars, clockVars, tx>>

LEMMA StutterSched == SchedStutter => UNCHANGED Sched!vars
  <1> SUFFICES ASSUME SchedStutter PROVE UNCHANGED Sched!vars
    OBVIOUS
  <1>1. Phase' = Phase
    BY DEF SchedStutter, Phase, RxPhase, TickPhase, EndPhase
  <1>2. QED
    BY <1>1 DEF SchedStutter, Sched!vars, Sched!flagVars, Sched!alarmVars,
                Sched!clockVars

LEMMA NextSched ==
    ASSUME \A p \in Content : Hash(p) # 0
    PROVE  TypeOK /\ TypeOK' /\ FlagInv /\ [Next]_vars
               => [Sched!Next]_(Sched!vars)
  <1> SUFFICES ASSUME TypeOK, TypeOK', FlagInv, [Next]_vars
               PROVE  Sched!Next \/ UNCHANGED Sched!vars
    OBVIOUS
  <1> USE DEF Sched!flagVars, Sched!alarmVars, Sched!clockVars
  <1>1. CASE Exchange \/ RxSignals \/ DecodeDone \/ ApplyDecode
             \/ MarshalToSignals
    <2>1. SchedStutter
      BY <1>1 DEF SchedStutter, RxPhase, Exchange, RxSignals, DecodeDone,
                  ApplyDecode, MarshalToSignals
    <2>2. QED  BY <2>1, StutterSched
  <1>2. CASE DecodeFrame
    <2>1. pc = "decode" /\ pc' = "decode"
      BY <1>2 DEF DecodeFrame
    <2>2. Phase = "rx" /\ Phase' = "rx"
      BY <2>1 DEF Phase
    <2>3. Sched!Receive
      BY <1>2, <2>2 DEF DecodeFrame, TypeOK, Sched!Receive
    <2>4. QED  BY <2>3 DEF Sched!Next
  <1>3. CASE BeginTicks
    <2>1. Phase = "rx" /\ Phase' = "tick"
      BY <1>3 DEF BeginTicks, Phase
    <2>2. Sched!BeginTicks
      BY <1>3, <2>1 DEF BeginTicks, Sched!BeginTicks
    <2>3. QED  BY <2>2 DEF Sched!Next
  <1>4. CASE Tick
    <2>1. pc = "tick" /\ pc' = "tick"
      BY <1>4 DEF Tick
    <2>2. Phase = "tick" /\ Phase' = "tick"
      BY <2>1 DEF Phase
    <2>3. Sched!Tick
      BY <1>4, <2>2 DEF Tick, Sched!Tick
    <2>4. QED  BY <2>3 DEF Sched!Next
  <1>5. CASE TicksDone \/ MarshalToMessages
    <2>1. SchedStutter
      BY <1>5 DEF SchedStutter, TickPhase, TicksDone, MarshalToMessages
    <2>2. QED  BY <2>1, StutterSched
  <1>6. CASE Pack
    <2>1. Phase = "tick" /\ Phase' = "tx"
      BY <1>6 DEF Pack, Phase
    <2>2. due = 0
      BY <1>6 DEF Pack, FlagInv
    <2>3. ASSUME NEW m \in Sched!Cyclic PROVE needs_tx'[m] = needs_tx[m]
      <3>1. m \in Msg /\ ~Event(m)
        BY DEF Sched!Cyclic, Event
      <3>2. needs_tx[m] => Changed(m)
        BY <1>6, <3>1 DEF Pack, FlagInv, TickPhase, TypeOK, Changed
      <3>3. QED  BY <1>6, <3>1, <3>2 DEF Pack, TypeOK, Flagged
    <2>4. Sched!Pack
      BY <1>6, <2>1, <2>2, <2>3 DEF Pack, TypeOK, Sched!Pack
    <2>5. QED  BY <2>4 DEF Sched!Next
  <1>7. CASE ApplyEncode
    <2>1. Phase = "tx" /\ Phase' = "tx"
      BY <1>7 DEF ApplyEncode, Phase
    <2>2. needs_tx' \in {needs_tx, [m \in Msg |-> FALSE]}
      BY <1>7, NetworkAssumption DEF ApplyEncode, Sendable, TypeOK
    <2>3. Sched!ApplyEncode
      BY <1>7, <2>1, <2>2 DEF ApplyEncode, TypeOK, Sched!ApplyEncode
    <2>4. QED  BY <2>3 DEF Sched!Next
  <1>8. CASE EncodeToBus
    <2>1. Phase = "tx" /\ Phase' = "end"
      BY <1>8 DEF EncodeToBus, Phase
    <2>2. (DOMAIN tx)' = {m \in Msg : needs_tx[m]}
      BY <1>8 DEF EncodeToBus
    <2>3. Sched!Transmit
      BY <1>8, <2>1, <2>2 DEF EncodeToBus, Sched!Transmit
    <2>4. QED  BY <2>3 DEF Sched!Next
  <1>9. CASE UpdateSignals
    <2>1. SchedStutter
      BY <1>9 DEF SchedStutter, EndPhase, UpdateSignals
    <2>2. QED  BY <2>1, StutterSched
  <1>10. CASE TxSignals
    <2>1. Phase = "end" /\ Phase' = "rx"
      BY <1>10 DEF TxSignals, Phase
    <2>2. Sched!EndStep
      BY <1>10, <2>1 DEF TxSignals, Sched!EndStep
    <2>3. QED  BY <2>2 DEF Sched!Next
  <1>11. CASE UNCHANGED vars
    BY <1>11 DEF vars, Sched!vars, Phase
  <1>12. QED
    BY <1>1, <1>2, <1>3, <1>4, <1>5, <1>6, <1>7, <1>8, <1>9, <1>10, <1>11
       DEF Next, model_step

(* The decode and encode paths of model_step keep what Schedule promises   *)
(* of them, for every network, whatever the other models write and the bus *)
(* delivers: a cyclic message is sent in exactly the steps its alarm fires *)
(* in while the network is on.  The one assumption is that no content of a *)
(* message has the hash 0, the value schedule.c marks a due message with.  *)
THEOREM NetworkKeepsSchedule ==
    ASSUME \A p \in Content : Hash(p) # 0
    PROVE  Spec => ScheduleKept
  <1>1. Init => Sched!Init
    BY InitSched
  <1>2. TypeOK /\ TypeOK' /\ FlagInv /\ [Next]_vars => [Sched!Next]_(Sched!vars)
    BY NextSched
  <1>3. QED
    BY <1>1, <1>2, InitFlag, NextFlag, NetworkTypeCorrect, PTL
       DEF Spec, ScheduleKept, Sched!Spec

-----------------------------------------------------------------------------
(* The network-off signal *)

(* With the network off no flag is left to encode and nothing is encoded   *)
(* before the simulation may write the network-off signal again.           *)
OffInv ==
    netoff =>
        /\ pc = "encode" => \A m \in Msg : ~needs_tx[m]
        /\ pc \in {"update", "tx_signals", "idle"} => DOMAIN tx = {}

LEMMA InitOff == Init => OffInv
  BY DEF Init, OffInv

LEMMA NextOff == OffInv /\ [Next]_vars => OffInv'
  <1> SUFFICES ASSUME OffInv, [Next]_vars PROVE OffInv'
    OBVIOUS
  <1> USE DEF OffInv
  <1>1. CASE Exchange \/ RxSignals
    BY <1>1 DEF Exchange, RxSignals
  <1>2. CASE DecodeFrame \/ DecodeDone \/ ApplyDecode \/ MarshalToSignals
    BY <1>2 DEF DecodeFrame, DecodeDone, ApplyDecode, MarshalToSignals
  <1>3. CASE BeginTicks \/ Tick \/ TicksDone
    BY <1>3 DEF BeginTicks, Tick, TicksDone
  <1>4. CASE MarshalToMessages \/ Pack
    BY <1>4 DEF MarshalToMessages, Pack
  <1>5. CASE ApplyEncode
    BY <1>5 DEF ApplyEncode, Sendable
  <1>6. CASE EncodeToBus
    BY <1>6 DEF EncodeToBus
  <1>7. CASE UpdateSignals \/ TxSignals
    BY <1>7 DEF UpdateSignals, TxSignals
  <1>8. CASE UNCHANGED vars
    BY <1>8 DEF vars
  <1>9. QED  BY <1>1, <1>2, <1>3, <1>4, <1>5, <1>6, <1>7, <1>8 DEF Next, model_step

(* A step made with the network off writes no frame, neither of a cyclic   *)
(* message whose alarm fired nor of an event message that changed.         *)
THEOREM NetworkSilentWhenOff == Spec => []SilentWhenOff
  <1>1. OffInv => SilentWhenOff
    BY DEF OffInv, SilentWhenOff
  <1>2. QED  BY <1>1, InitOff, NextOff, PTL DEF Spec
-----------------------------------------------------------------------------
(* Containers *)

(* What marshalling makes of the member of a signal in range. *)
LEMMA MarshalledMember ==
    ASSUME NEW vector \in [Sig -> Phys], NEW buf \in [Msg -> Content],
           NEW s \in Sig, InRange(s, Enc(s, Outgoing(s, vector)))
    PROVE  MarshalledBuffer(vector, buf)[SigMsg[s]][SigField[s]]
               = Enc(s, Outgoing(s, vector))
  <1> DEFINE m == SigMsg[s]
             f == SigField[s]
             source == {t \in Sig : /\ SigMsg[t] = m
                                    /\ SigField[t] = f
                                    /\ InRange(t, Enc(t, Outgoing(t, vector)))}
  <1>1. m \in Msg /\ f \in Field
    BY NetworkAssumption
  <1>2. source = {s}
    BY WellFormedAssumption
  <1>3. MarshalledBuffer(vector, buf)[m][f] =
            IF source = {} THEN buf[m][f]
            ELSE LET t == CHOOSE t \in source : TRUE
                 IN  Enc(t, Outgoing(t, vector))
    BY <1>1, Zenon DEF MarshalledBuffer
  <1> HIDE DEF source
  <1>4. (CHOOSE t \in source : TRUE) = s
    BY <1>2
  <1>5. QED  BY <1>2, <1>3, <1>4

(* A contained message follows the container of its id in the list.        *)
ContainersFirst ==
    \A m \in Contained :
        /\ Matching(FrameId[m]) # {}
        /\ Container(m) \notin Contained /\ IsContainer(Container(m))

(* The header of a container is in its frames and in those of the messages *)
(* it contains, wherever they have it.                                     *)
HeaderField(m) == SigField[HeaderSignal(m)]
HeaderCarried ==
    \A m \in Contained, x \in Raw : /\ Carries(m, HeaderField(m), x)
                                    /\ Carries(Container(m), HeaderField(m), x)

(* The constant of an internal signal of a contained message stands for    *)
(* its mux id in the header, and no encode function changes the header.    *)
HeaderConstant(m, s) ==
    /\ s \in Internal /\ SigMsg[s] = m /\ SigField[s] = HeaderField(m)
    /\ LET raw == Enc(s, ConstValue[s])
       IN  /\ InRange(s, raw) /\ InRange(HeaderSignal(m), raw)
           /\ Dec(HeaderSignal(m), raw) = MuxId[m]
ConstantsName == \A m \in Contained : \E s \in Sig : HeaderConstant(m, s)
EncodersKeepHeader ==
    \A m \in Contained, p \in Content :
        Encoded(m, p)[HeaderField(m)] = p[HeaderField(m)]

(* The last of a bounded set of indices is one of them. *)
LEMMA LastMember ==
    ASSUME NEW n \in Nat, NEW S \in SUBSET (1 .. n), S # {}
    PROVE  Last(S) \in S
  <1> DEFINE T == {n - i : i \in S}
  <1>1. T \in SUBSET Nat /\ T # {}
    <2>1. \A i \in S : n - i \in Nat
      OBVIOUS
    <2>2. QED  BY <2>1
  <1>2. First(T) \in T /\ \A j \in T : First(T) <= j
    BY <1>1, FirstMember
  <1>3. PICK i \in S : First(T) = n - i
    BY <1>2
  <1>4. ASSUME NEW j \in S PROVE j <= i
    <2>1. n - i <= n - j
      BY <1>2, <1>3
    <2>2. i \in Nat /\ j \in Nat
      OBVIOUS
    <2>3. QED  BY <2>1, <2>2
  <1>5. QED  BY <1>4 DEF Last

LEMMA HeaderType ==
    ASSUME ContainersFirst, NEW m \in Contained
    PROVE  /\ m \in Msg /\ Container(m) \in Msg /\ Container(m) # m
           /\ FrameId[Container(m)] = FrameId[m]
           /\ HeaderSignal(m) \in Sig /\ HeaderField(m) \in Field
           /\ SigMsg[HeaderSignal(m)] = Container(m)
  <1>1. m \in Msg
    BY NetworkAssumption
  <1>2. Container(m) \in Matching(FrameId[m])
    BY MatchingType, FirstMember DEF ContainersFirst, Container
  <1>3. MuxSignals(Container(m)) # {}
    BY DEF ContainersFirst, IsContainer
  <1>4. MuxSignals(Container(m)) \in SUBSET (1 .. NSig) /\ NSig \in Nat
    BY NetworkAssumption DEF MuxSignals, Sig
  <1>5. HeaderSignal(m) \in MuxSignals(Container(m))
    BY <1>3, <1>4, LastMember DEF HeaderSignal, MuxSignal
  <1>6. QED
    BY <1>1, <1>2, <1>5, NetworkAssumption
       DEF ContainersFirst, Matching, MuxSignals, HeaderField

(* The container reads the header from the frame. *)
LEMMA HeaderUnpacked ==
    ASSUME ContainersFirst, HeaderCarried, NEW m \in Contained,
           NEW buf \in Content, NEW p \in Content, NEW k \in {m, Container(m)}
    PROVE  /\ Unpacked(k, buf, p)[HeaderField(m)] = p[HeaderField(m)]
           /\ Packed(k, buf)[HeaderField(m)] = buf[HeaderField(m)]
  <1>1. HeaderField(m) \in Field /\ k \in Msg
    BY HeaderType
  <1>2. p[Selector(k)] \in Raw /\ buf[Selector(k)] \in Raw
    BY <1>1, CodecAssumption DEF Content
  <1>3. /\ Carries(k, HeaderField(m), p[Selector(k)])
        /\ Carries(k, HeaderField(m), buf[Selector(k)])
    BY <1>2 DEF HeaderCarried
  <1>4. QED  BY <1>1, <1>3 DEF Unpacked, Packed

(* A frame is taken for a contained message only if its header names it.   *)
LEMMA ProcessedNamed ==
    ASSUME ContainersFirst, HeaderCarried, TypeOK,
           NEW id, Matching(id) # {}, NEW p \in Content,
           NEW m \in Contained, m \in Processed(First(Matching(id)), p),
           Receive(Processed(First(Matching(id)), p), p),
           HeaderInRange(m, bus'[m])
    PROVE  Names(bus'[m], m)
  <1> DEFINE c == First(Matching(id))
             s == HeaderSignal(m)
             f == HeaderField(m)
             inner == MuxMessages(FrameId[c], VectorAfter(c, p)[MuxSignal(c)])
  <1>1. c \in Matching(id)
    BY MatchingType, FirstMember
  <1>2. c \in Msg /\ FrameId[c] = id
    BY <1>1 DEF Matching
  <1>3. /\ m \in Msg /\ s \in Sig /\ f \in Field
        /\ Container(m) \in Msg /\ Container(m) # m
        /\ FrameId[Container(m)] = FrameId[m] /\ IsContainer(Container(m))
    BY HeaderType DEF ContainersFirst
  <1>4. m # c
    BY <1>2, <1>3 DEF Container
  <1>5. IsContainer(c) /\ inner # {} /\ m = First(inner)
    BY <1>4, Zenon DEF Processed
  <1>6. m \in inner
    <2>1. inner \in SUBSET Nat
      BY NetworkAssumption DEF MuxMessages, Msg
    <2> HIDE DEF inner
    <2>2. QED  BY <1>5, <2>1, FirstMember
  <1>7. FrameId[m] = id /\ MuxId[m] = VectorAfter(c, p)[MuxSignal(c)]
    BY <1>2, <1>6 DEF MuxMessages
  <1>8. c = Container(m) /\ MuxSignal(c) = s
    BY <1>7 DEF Container, HeaderSignal
  <1>9. MuxId[m] = Decoded(s, Unpacked(c, buffer[c], p), signal_vector[s])
    BY <1>3, <1>5, <1>7, <1>8 DEF VectorAfter, TypeOK
  <1>10. buffer[c] \in Content /\ buffer[m] \in Content
    BY <1>2, <1>3 DEF TypeOK
  <1>11. Unpacked(c, buffer[c], p)[f] = p[f]
    BY <1>8, <1>10, HeaderUnpacked
  <1>12. bus'[m][f] = p[f]
    <2>1. bus'[m] = Packed(m, Unpacked(m, buffer[m], p))
      BY <1>3 DEF Receive
    <2>2. Unpacked(m, buffer[m], p) \in Content
      BY <1>3, <1>10, LibraryType
    <2>3. QED  BY <1>10, <2>1, <2>2, HeaderUnpacked
  <1>13. InRange(s, p[f])
    BY <1>12 DEF HeaderInRange, HeaderField
  <1>14. MuxId[m] = Dec(s, p[f])
    BY <1>9, <1>11, <1>13 DEF Decoded, HeaderField
  <1>15. QED  BY <1>12, <1>14 DEF Names, HeaderField

Named(m) == HeaderInRange(m, bus[m]) => Names(bus[m], m)

(* A pending update of a contained message is one its container named. *)
NamedInv ==
    /\ pc \notin {"decode", "apply_decode", "signals", "encode", "update"}
           => \A m \in Msg : ~update_signals[m]
    /\ pc \in {"decode", "apply_decode", "signals"}
           => \A m \in Contained : update_signals[m] => Named(m)
    /\ pc = "begin_ticks" => \A m \in heard \cap Contained : Named(m)

LEMMA NextNamed ==
    ASSUME ContainersFirst, HeaderCarried
    PROVE  TypeOK /\ NamedInv /\ [Next]_vars => NamedInv'
  <1> SUFFICES ASSUME TypeOK, NamedInv, [Next]_vars PROVE NamedInv'
    OBVIOUS
  <1>0. Contained \subseteq Msg
    BY NetworkAssumption
  <1>1. CASE Exchange \/ RxSignals
    BY <1>0, <1>1 DEF Exchange, RxSignals, NamedInv
  <1>2. CASE DecodeFrame
    <2> DEFINE fr == Head(rx)
               c == First(Matching(fr.id))
               S == Processed(c, fr.payload)
    <2>1. pc = "decode" /\ pc' = "decode"
      BY <1>2 DEF DecodeFrame
    <2>2. ASSUME NEW m \in Contained, update_signals'[m]
          PROVE  Named(m)'
      <3>1. CASE Dropped(fr)
        BY <1>2, <2>1, <2>2, <3>1 DEF DecodeFrame, NamedInv, Named,
              HeaderInRange, Names
      <3>2. CASE ~Dropped(fr)
        <4>1. Receive(S, fr.payload) /\ Matching(fr.id) # {}
          BY <1>2, <3>2 DEF DecodeFrame, Dropped
        <4>2. fr.payload \in Content
          BY <1>2, CodecAssumption DEF DecodeFrame, TypeOK
        <4>3. CASE m \in S
          BY <4>1, <4>2, <4>3, ProcessedNamed DEF Named, HeaderInRange, Names
        <4>4. CASE m \notin S
          <5> HIDE DEF S
          <5>1. bus'[m] = bus[m] /\ update_signals'[m] = update_signals[m]
            BY <1>0, <4>1, <4>4 DEF Receive
          <5>2. Named(m)
            BY <2>1, <2>2, <5>1 DEF NamedInv
          <5>3. QED  BY <5>1, <5>2 DEF Named, HeaderInRange, Names
        <4>5. QED  BY <4>3, <4>4
      <3>3. QED  BY <3>1, <3>2
    <2>3. QED  BY <2>1, <2>2 DEF NamedInv
  <1>3. CASE DecodeDone \/ ApplyDecode
    BY <1>0, <1>3 DEF DecodeDone, ApplyDecode, NamedInv, Named, HeaderInRange,
          Names
  <1>4. CASE MarshalToSignals
    <2>1. /\ pc = "signals" /\ pc' = "begin_ticks" /\ bus' = bus
          /\ heard' = {m \in Msg : update_signals[m]}
          /\ \A m \in Msg : ~update_signals'[m]
      BY <1>4 DEF MarshalToSignals, marshal_messages_to_signals
    <2>2. ASSUME NEW m \in heard' \cap Contained PROVE Named(m)'
      BY <2>1 DEF NamedInv, Named, HeaderInRange, Names
    <2>3. QED  BY <2>1, <2>2 DEF NamedInv
  <1>5. CASE BeginTicks \/ Tick \/ TicksDone \/ MarshalToMessages \/ Pack
             \/ ApplyEncode \/ EncodeToBus \/ TxSignals
    BY <1>5 DEF BeginTicks, Tick, TicksDone, MarshalToMessages, Pack,
          ApplyEncode, EncodeToBus, TxSignals, NamedInv
  <1>6. CASE UpdateSignals
    BY <1>6 DEF UpdateSignals, marshal_messages_to_signals, NamedInv
  <1>7. CASE UNCHANGED vars
    BY <1>7 DEF vars, NamedInv, Named, HeaderInRange, Names
  <1>8. QED
    BY <1>1, <1>2, <1>3, <1>4, <1>5, <1>6, <1>7 DEF Next, model_step

(* Only a frame whose header names a contained message reaches its         *)
(* signals, whatever the other frames of the step were and whatever of     *)
(* them the range check has kept from the mux signal: for every network    *)
(* that lists its containers first and carries their headers.              *)
THEOREM ContainedIsNamed ==
    ASSUME ContainersFirst, HeaderCarried
    PROVE  Spec => []OnlyNamedContained
  <1>1. Init => NamedInv
    BY NetworkAssumption DEF Init, NamedInv
  <1>2. NamedInv => OnlyNamedContained
    BY DEF NamedInv, OnlyNamedContained, Named
  <1>3. TypeOK /\ NamedInv /\ [Next]_vars => NamedInv'
    BY NextNamed
  <1>4. QED  BY <1>1, <1>2, <1>3, NetworkTypeCorrect, PTL DEF Spec

-----------------------------------------------------------------------------
Headed(p, m) == HeaderInRange(m, p) /\ Names(p, m)

(* From marshalling to the bus a contained message has its own header. *)
HeaderInv ==
    /\ pc = "pack" => \A m \in Contained : Headed(buffer[m], m)
    /\ pc \in {"apply_encode", "encode"}
           => \A m \in Contained : Headed(payload[m], m)
    /\ SentMuxId

LEMMA SameHeader ==
    ASSUME NEW m, NEW p, NEW q, Headed(p, m),
           q[HeaderField(m)] = p[HeaderField(m)]
    PROVE  Headed(q, m)
  BY DEF Headed, HeaderInRange, Names, HeaderField

(* Marshalling writes the constant into the header. *)
LEMMA MarshalHeads ==
    ASSUME ConstantsName, TypeOK, MarshalToMessages, NEW m \in Contained
    PROVE  Headed(buffer'[m], m)
  <1>1. PICK s \in Sig : HeaderConstant(m, s)
    BY DEF ConstantsName
  <1>2. Outgoing(s, signal_vector) = ConstValue[s]
    BY <1>1 DEF HeaderConstant, Outgoing
  <1>3. InRange(s, Enc(s, Outgoing(s, signal_vector)))
    BY <1>1, <1>2 DEF HeaderConstant
  <1>4. MarshalledBuffer(signal_vector, buffer)[SigMsg[s]][SigField[s]]
            = Enc(s, Outgoing(s, signal_vector))
    BY <1>3, MarshalledMember DEF TypeOK
  <1>5. buffer'[m][HeaderField(m)] = Enc(s, ConstValue[s])
    BY <1>1, <1>2, <1>4 DEF MarshalToMessages, HeaderConstant
  <1>6. QED
    BY <1>1, <1>5 DEF HeaderConstant, Headed, HeaderInRange, Names, HeaderField

LEMMA NextHeader ==
    ASSUME ContainersFirst, HeaderCarried, ConstantsName, EncodersKeepHeader
    PROVE  TypeOK /\ HeaderInv /\ [Next]_vars => HeaderInv'
  <1> SUFFICES ASSUME TypeOK, HeaderInv, [Next]_vars PROVE HeaderInv'
    OBVIOUS
  <1>0. Contained \subseteq Msg
    BY NetworkAssumption
  <1>1. CASE Exchange \/ RxSignals \/ DecodeFrame \/ DecodeDone
             \/ ApplyDecode \/ MarshalToSignals \/ BeginTicks \/ Tick
             \/ TicksDone \/ UpdateSignals \/ TxSignals
    <2>1. tx' = tx /\ pc' \notin {"pack", "apply_encode", "encode"}
      BY <1>1 DEF Exchange, RxSignals, DecodeFrame, DecodeDone, ApplyDecode,
            MarshalToSignals, BeginTicks, Tick, TicksDone, UpdateSignals,
            TxSignals
    <2>2. QED  BY <2>1 DEF HeaderInv, SentMuxId, HeaderInRange, Names
  <1>2. CASE MarshalToMessages
    <2>1. tx' = tx /\ pc' = "pack"
      BY <1>2 DEF MarshalToMessages
    <2>2. \A m \in Contained : Headed(buffer'[m], m)
      BY <1>2, MarshalHeads
    <2>3. QED
      BY <2>1, <2>2 DEF HeaderInv, SentMuxId, Headed, HeaderInRange, Names
  <1>3. CASE Pack
    <2>1. tx' = tx /\ pc = "pack" /\ pc' = "apply_encode"
      BY <1>3 DEF Pack
    <2>2. ASSUME NEW m \in Contained PROVE Headed(payload'[m], m)
      <3>1. Headed(buffer[m], m) /\ payload'[m] = Packed(m, buffer[m])
        BY <1>0, <1>3, <2>1 DEF HeaderInv, Pack
      <3>2. buffer[m] \in Content
        BY <1>0 DEF TypeOK
      <3>3. payload'[m][HeaderField(m)] = buffer[m][HeaderField(m)]
        BY <3>1, <3>2, HeaderUnpacked
      <3>4. QED  BY <3>1, <3>3, SameHeader
    <2>3. QED
      BY <2>1, <2>2 DEF HeaderInv, SentMuxId, Headed, HeaderInRange, Names
  <1>4. CASE ApplyEncode
    <2>1. tx' = tx /\ pc = "apply_encode" /\ pc' = "encode"
      BY <1>4 DEF ApplyEncode
    <2>2. ASSUME NEW m \in Contained PROVE Headed(payload'[m], m)
      <3>1. Headed(payload[m], m) /\ payload[m] \in Content
        BY <1>0, <2>1 DEF HeaderInv, TypeOK
      <3>2. \/ payload'[m] = payload[m]
            \/ payload'[m] = Encoded(m, payload[m])
        BY <1>0, <1>4 DEF ApplyEncode
      <3>3. payload'[m][HeaderField(m)] = payload[m][HeaderField(m)]
        BY <3>1, <3>2 DEF EncodersKeepHeader
      <3>4. QED  BY <3>1, <3>3, SameHeader
    <2>3. QED
      BY <2>1, <2>2 DEF HeaderInv, SentMuxId, Headed, HeaderInRange, Names
  <1>5. CASE EncodeToBus
    <2>1. pc = "encode" /\ pc' = "update"
      BY <1>5 DEF EncodeToBus
    <2>2. ASSUME NEW m \in Contained \cap DOMAIN tx' PROVE Headed(tx'[m], m)
      BY <1>5, <2>1 DEF EncodeToBus, HeaderInv
    <2>3. QED
      BY <2>1, <2>2 DEF HeaderInv, SentMuxId, Headed, HeaderInRange, Names
  <1>6. CASE UNCHANGED vars
    BY <1>6 DEF vars, HeaderInv, SentMuxId, Headed, HeaderInRange, Names
  <1>7. QED
    BY <1>1, <1>2, <1>3, <1>4, <1>5, <1>6 DEF Next, model_step

(* A contained message always leaves with a header that names it: the      *)
(* struct it shares with its container, into which any header may have     *)
(* been received, is marshalled anew from the constants.                   *)
THEOREM ContainedSentAsNamed ==
    ASSUME ContainersFirst, HeaderCarried, ConstantsName, EncodersKeepHeader
    PROVE  Spec => []SentMuxId
  <1>1. Init => HeaderInv
    BY DEF Init, HeaderInv, SentMuxId
  <1>2. HeaderInv => SentMuxId
    BY DEF HeaderInv
  <1>3. TypeOK /\ HeaderInv /\ [Next]_vars => HeaderInv'
    BY NextHeader
  <1>4. QED  BY <1>1, <1>2, <1>3, NetworkTypeCorrect, PTL DEF Spec
=============================================================================
