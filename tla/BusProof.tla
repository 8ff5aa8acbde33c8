------------------------------ MODULE BusProof ------------------------------
(***************************************************************************)
(* Proofs that two nodes on one bus come to rest and then agree: Quiesce   *)
(* and Agreement of NetworkBus, from the lemmas about one node in          *)
(* AgreementProof.                                                         *)
(***************************************************************************)
EXTENDS NetworkBus, FiniteSetTheorems, TLAPS

PA == INSTANCE AgreementProof WITH
    pc <- a_pc, sv <- a_sv, netoff <- a_netoff, rx <- a_rx, tx <- a_tx,
    signal_vector <- a_signal_vector, buffer <- a_buffer,
    payload <- a_payload, buffer_checksum <- a_buffer_checksum,
    needs_tx <- a_needs_tx, update_signals <- a_update_signals,
    tick <- a_tick, alarm <- a_alarm, step <- a_step, since <- a_since,
    at_start <- a_at_start, init_tick_done <- a_init_tick_done,
    due <- a_due, bus <- a_bus, heard <- a_heard, unsent <- a_unsent
PB == INSTANCE AgreementProof WITH
    pc <- b_pc, sv <- b_sv, netoff <- b_netoff, rx <- b_rx, tx <- b_tx,
    signal_vector <- b_signal_vector, buffer <- b_buffer,
    payload <- b_payload, buffer_checksum <- b_buffer_checksum,
    needs_tx <- b_needs_tx, update_signals <- b_update_signals,
    tick <- b_tick, alarm <- b_alarm, step <- b_step, since <- b_since,
    at_start <- b_at_start, init_tick_done <- b_init_tick_done,
    due <- b_due, bus <- b_bus, heard <- b_heard, unsent <- b_unsent

-----------------------------------------------------------------------------
(* The nodes of NetworkBus are the nodes the lemmas of AgreementProof are *)
(* about: A and PA are instances of the same definitions.                  *)
LEMMA NodeA ==
    /\ A!Init => PA!Init
    /\ A!Exchange => PA!Exchange
    /\ A!model_step => PA!model_step
  <1> USE DEF
        A!Sig, PA!Sig, A!SrMap, PA!SrMap, A!chanVars, PA!chanVars,
        A!msgVars, PA!msgVars, A!flagVars, PA!flagVars, A!alarmVars,
        PA!alarmVars, A!clockVars, PA!clockVars, A!histVars, PA!histVars,
        A!First, PA!First, A!Matching, PA!Matching, A!Dropped, PA!Dropped,
        A!VectorAfter, PA!VectorAfter, A!Receive, PA!Receive, A!Processed,
        PA!Processed, A!sigVars, PA!sigVars, A!Msg, PA!Msg,
        A!marshal_messages_to_signals, PA!marshal_messages_to_signals,
        A!Sched!StepTicks, PA!Sched!StepTicks, A!Sched!MakeTick,
        PA!Sched!MakeTick, A!MarshalledBuffer, PA!MarshalledBuffer,
        A!Packed, PA!Packed, A!Flagged, PA!Flagged, A!Resummed,
        PA!Resummed, A!Event, PA!Event, A!Sendable, PA!Sendable, A!Altered,
        PA!Altered, A!Unpacked, PA!Unpacked, A!Sched!AdvanceTime,
        PA!Sched!AdvanceTime, A!InitVector, PA!InitVector, A!InitBuffer,
        PA!InitBuffer, A!Sched!ClockInit, PA!Sched!ClockInit, A!Mapped,
        PA!Mapped, A!IsContainer, PA!IsContainer, A!MuxSignal,
        PA!MuxSignal, A!Decoded, PA!Decoded, A!MuxMessages, PA!MuxMessages,
        A!Sched!TicksOf, PA!Sched!TicksOf, A!Sched!InitialTick,
        PA!Sched!InitialTick, A!Sched!network_schedule_tick,
        PA!Sched!network_schedule_tick, A!Outgoing, PA!Outgoing, A!Changed,
        PA!Changed, A!Sched!network_schedule_reset,
        PA!Sched!network_schedule_reset, A!MuxSignals, PA!MuxSignals,
        A!Last, PA!Last, A!Sched!Unsummed, PA!Sched!Unsummed,
        A!Sched!Fires, PA!Sched!Fires, A!Sched!Cyclic, PA!Sched!Cyclic,
        A!Sched!Rearmed, PA!Sched!Rearmed, A!Sched!Decremented,
        PA!Sched!Decremented
  <1>1. A!Init => PA!Init
    BY DEF A!Init, PA!Init
  <1>2. A!Exchange => PA!Exchange
    BY DEF A!Exchange, PA!Exchange
  <1>3. A!RxSignals => PA!RxSignals
    BY DEF A!RxSignals, PA!RxSignals
  <1>4. A!DecodeFrame => PA!DecodeFrame
    BY DEF A!DecodeFrame, PA!DecodeFrame
  <1>5. A!DecodeDone => PA!DecodeDone
    BY DEF A!DecodeDone, PA!DecodeDone
  <1>6. A!ApplyDecode => PA!ApplyDecode
    BY DEF A!ApplyDecode, PA!ApplyDecode
  <1>7. A!MarshalToSignals => PA!MarshalToSignals
    BY DEF A!MarshalToSignals, PA!MarshalToSignals
  <1>8. A!BeginTicks => PA!BeginTicks
    BY DEF A!BeginTicks, PA!BeginTicks
  <1>9. A!Tick => PA!Tick
    BY DEF A!Tick, PA!Tick
  <1>10. A!TicksDone => PA!TicksDone
    BY DEF A!TicksDone, PA!TicksDone
  <1>11. A!MarshalToMessages => PA!MarshalToMessages
    BY DEF A!MarshalToMessages, PA!MarshalToMessages
  <1>12. A!Pack => PA!Pack
    BY DEF A!Pack, PA!Pack
  <1>13. A!ApplyEncode => PA!ApplyEncode
    BY DEF A!ApplyEncode, PA!ApplyEncode
  <1>14. A!EncodeToBus => PA!EncodeToBus
    BY DEF A!EncodeToBus, PA!EncodeToBus
  <1>15. A!UpdateSignals => PA!UpdateSignals
    BY DEF A!UpdateSignals, PA!UpdateSignals
  <1>16. A!TxSignals => PA!TxSignals
    BY DEF A!TxSignals, PA!TxSignals
  <1>17. QED
    BY <1>1, <1>2, <1>3, <1>4, <1>5, <1>6, <1>7, <1>8, <1>9, <1>10, <1>11,
       <1>12, <1>13, <1>14, <1>15, <1>16
       DEF A!model_step, PA!model_step

LEMMA NodeB ==
    /\ B!Init => PB!Init
    /\ B!Exchange => PB!Exchange
    /\ B!model_step => PB!model_step
  <1> USE DEF
        B!Sig, PB!Sig, B!SrMap, PB!SrMap, B!chanVars, PB!chanVars,
        B!msgVars, PB!msgVars, B!flagVars, PB!flagVars, B!alarmVars,
        PB!alarmVars, B!clockVars, PB!clockVars, B!histVars, PB!histVars,
        B!First, PB!First, B!Matching, PB!Matching, B!Dropped, PB!Dropped,
        B!VectorAfter, PB!VectorAfter, B!Receive, PB!Receive, B!Processed,
        PB!Processed, B!sigVars, PB!sigVars, B!Msg, PB!Msg,
        B!marshal_messages_to_signals, PB!marshal_messages_to_signals,
        B!Sched!StepTicks, PB!Sched!StepTicks, B!Sched!MakeTick,
        PB!Sched!MakeTick, B!MarshalledBuffer, PB!MarshalledBuffer,
        B!Packed, PB!Packed, B!Flagged, PB!Flagged, B!Resummed,
        PB!Resummed, B!Event, PB!Event, B!Sendable, PB!Sendable, B!Altered,
        PB!Altered, B!Unpacked, PB!Unpacked, B!Sched!AdvanceTime,
        PB!Sched!AdvanceTime, B!InitVector, PB!InitVector, B!InitBuffer,
        PB!InitBuffer, B!Sched!ClockInit, PB!Sched!ClockInit, B!Mapped,
        PB!Mapped, B!IsContainer, PB!IsContainer, B!MuxSignal,
        PB!MuxSignal, B!Decoded, PB!Decoded, B!MuxMessages, PB!MuxMessages,
        B!Sched!TicksOf, PB!Sched!TicksOf, B!Sched!InitialTick,
        PB!Sched!InitialTick, B!Sched!network_schedule_tick,
        PB!Sched!network_schedule_tick, B!Outgoing, PB!Outgoing, B!Changed,
        PB!Changed, B!Sched!network_schedule_reset,
        PB!Sched!network_schedule_reset, B!MuxSignals, PB!MuxSignals,
        B!Last, PB!Last, B!Sched!Unsummed, PB!Sched!Unsummed,
        B!Sched!Fires, PB!Sched!Fires, B!Sched!Cyclic, PB!Sched!Cyclic,
        B!Sched!Rearmed, PB!Sched!Rearmed, B!Sched!Decremented,
        PB!Sched!Decremented
  <1>1. B!Init => PB!Init
    BY DEF B!Init, PB!Init
  <1>2. B!Exchange => PB!Exchange
    BY DEF B!Exchange, PB!Exchange
  <1>3. B!RxSignals => PB!RxSignals
    BY DEF B!RxSignals, PB!RxSignals
  <1>4. B!DecodeFrame => PB!DecodeFrame
    BY DEF B!DecodeFrame, PB!DecodeFrame
  <1>5. B!DecodeDone => PB!DecodeDone
    BY DEF B!DecodeDone, PB!DecodeDone
  <1>6. B!ApplyDecode => PB!ApplyDecode
    BY DEF B!ApplyDecode, PB!ApplyDecode
  <1>7. B!MarshalToSignals => PB!MarshalToSignals
    BY DEF B!MarshalToSignals, PB!MarshalToSignals
  <1>8. B!BeginTicks => PB!BeginTicks
    BY DEF B!BeginTicks, PB!BeginTicks
  <1>9. B!Tick => PB!Tick
    BY DEF B!Tick, PB!Tick
  <1>10. B!TicksDone => PB!TicksDone
    BY DEF B!TicksDone, PB!TicksDone
  <1>11. B!MarshalToMessages => PB!MarshalToMessages
    BY DEF B!MarshalToMessages, PB!MarshalToMessages
  <1>12. B!Pack => PB!Pack
    BY DEF B!Pack, PB!Pack
  <1>13. B!ApplyEncode => PB!ApplyEncode
    BY DEF B!ApplyEncode, PB!ApplyEncode
  <1>14. B!EncodeToBus => PB!EncodeToBus
    BY DEF B!EncodeToBus, PB!EncodeToBus
  <1>15. B!UpdateSignals => PB!UpdateSignals
    BY DEF B!UpdateSignals, PB!UpdateSignals
  <1>16. B!TxSignals => PB!TxSignals
    BY DEF B!TxSignals, PB!TxSignals
  <1>17. QED
    BY <1>1, <1>2, <1>3, <1>4, <1>5, <1>6, <1>7, <1>8, <1>9, <1>10, <1>11,
       <1>12, <1>13, <1>14, <1>15, <1>16
       DEF B!model_step, PB!model_step

LEMMA StutterNodes ==
    /\ UNCHANGED a_vars => UNCHANGED PA!vars
    /\ UNCHANGED b_vars => UNCHANGED PB!vars
  BY DEF a_vars, b_vars, PA!vars, PB!vars, PA!chanVars, PB!chanVars,
         PA!sigVars, PB!sigVars, PA!msgVars, PB!msgVars, PA!flagVars,
         PB!flagVars, PA!alarmVars, PB!alarmVars, PA!clockVars, PB!clockVars,
         PA!histVars, PB!histVars

(* Both nodes have the same description. *)
LEMMA SameDescription ==
    /\ PA!Msg = 1 .. NMsg /\ PB!Msg = 1 .. NMsg
    /\ PA!InitBuffer = PB!InitBuffer
    /\ \A m, p : PA!Valid(m, p) = PB!Valid(m, p) /\ PA!Event(m) = PB!Event(m)
    /\ \A n, L, m, p : PA!Settling(n, L, m, p) = PB!Settling(n, L, m, p)
  BY DEF PA!Msg, PB!Msg, PA!Sig, PB!Sig, PA!InitBuffer, PB!InitBuffer,
         PA!InitVector, PB!InitVector, PA!MarshalledBuffer,
         PB!MarshalledBuffer, PA!Outgoing, PB!Outgoing, PA!Valid, PB!Valid,
         PA!Settling, PB!Settling, PA!Settled, PB!Settled, PA!Settles,
         PB!Settles, PA!Reencoded, PB!Reencoded, PA!Survives, PB!Survives,
         PA!Event, PB!Event

LEMMA Described ==
    /\ PA!NetworkAssumption /\ PA!WellFormedAssumption /\ PA!CodecAssumption
    /\ PB!NetworkAssumption /\ PB!WellFormedAssumption /\ PB!CodecAssumption
  BY NodeAssumption
     DEF A!NetworkAssumption, PA!NetworkAssumption, PB!NetworkAssumption,
         A!WellFormedAssumption, PA!WellFormedAssumption,
         PB!WellFormedAssumption, A!CodecAssumption, PA!CodecAssumption,
         PB!CodecAssumption, A!Msg, PA!Msg, PB!Msg, A!Sig, PA!Sig, PB!Sig,
         A!Content, PA!Content, PB!Content

LEMMA BothComeToRest ==
    ASSUME NEW n, PA!ComesToRest(n)
    PROVE  PB!ComesToRest(n)
  BY DEF PA!ComesToRest, PB!ComesToRest, PA!PlainFrames, PB!PlainFrames,
         PA!NoCollision, PB!NoCollision, PA!DistinctFrames,
         PB!DistinctFrames, PA!NoFunctions, PB!NoFunctions, PA!CodecSettles,
         PB!CodecSettles, PA!Settles, PB!Settles, PA!Reencoded, PB!Reencoded,
         PA!StartsInRange, PB!StartsInRange, PA!Survives, PB!Survives,
         PA!Msg, PB!Msg, PA!Sig, PB!Sig, PA!Content, PB!Content

-----------------------------------------------------------------------------
(* Each node has seen as many exchanges without a change as are counted.   *)
CalmInv(n) ==
    /\ calm \in 0 .. Calm
    /\ PA!NodeInv /\ PB!NodeInv
    /\ \A L \in 0 .. calm : PA!QuietInv(n, L) /\ PB!QuietInv(n, L)

(* What one node has read and the other has sent last is the same, but for *)
(* messages that are on their way, were lost or have crossed.              *)
LastInv ==
    \A m \in 1 .. NMsg :
        m \notin apart \cup PA!Sent \cup PB!Sent
            => PA!LastFrame(m) = PB!LastFrame(m)

LEMMA InitBus ==
    ASSUME NEW n \in Nat, PA!ComesToRest(n), BusInit
    PROVE  CalmInv(n) /\ LastInv
  <1>1. PA!Init /\ PB!Init /\ calm = 0
    BY NodeA, NodeB DEF BusInit
  <1>2. /\ PA!NodeInv /\ PA!QuietInv(n, 0)
        /\ a_rx = <<>> /\ a_tx = <<>> /\ a_bus = PA!InitBuffer
    BY <1>1, Described, PA!InitNode
  <1>3. /\ PB!NodeInv /\ PB!QuietInv(n, 0)
        /\ b_rx = <<>> /\ b_tx = <<>> /\ b_bus = PB!InitBuffer
    BY <1>1, Described, BothComeToRest, PB!InitNode
  <1>4. CalmInv(n)
    BY <1>1, <1>2, <1>3, BusAssumption DEF CalmInv
  <1>5. ASSUME NEW m \in 1 .. NMsg
        PROVE  PA!LastFrame(m) = a_bus[m] /\ PB!LastFrame(m) = b_bus[m]
    BY <1>2, <1>3 DEF PA!LastFrame, PB!LastFrame, PA!Arriving, PB!Arriving
  <1>6. QED  BY <1>2, <1>3, <1>4, <1>5, SameDescription DEF LastInv

-----------------------------------------------------------------------------
(* A step of a node. *)
LEMMA NodeStep ==
    ASSUME NEW n \in Nat, PA!ComesToRest(n), CalmInv(n), LastInv,
           PA!model_step \/ UNCHANGED PA!vars,
           PB!model_step \/ UNCHANGED PB!vars,
           UNCHANGED <<calm, apart>>
    PROVE  CalmInv(n)' /\ LastInv'
  <1>0. 0 \in 0 .. calm /\ \A L \in 0 .. calm : L \in Nat
    BY BusAssumption DEF CalmInv
  <1>1. PA!NodeInv /\ PB!NodeInv /\ PA!QuietInv(n, 0) /\ PB!QuietInv(n, 0)
    BY <1>0 DEF CalmInv
  <1>2. PA!NodeInv'
    BY <1>1, Described, PA!NextNode DEF PA!Next
  <1>3. PB!NodeInv'
    BY <1>1, Described, BothComeToRest, PB!NextNode DEF PB!Next
  <1>4. ASSUME NEW L \in 0 .. calm
        PROVE  PA!QuietInv(n, L)' /\ PB!QuietInv(n, L)'
    <2>1. PA!QuietInv(n, L) /\ PB!QuietInv(n, L) /\ L \in Nat
      BY <1>0 DEF CalmInv
    <2>2. PA!QuietInv(n, L)'
      BY <1>1, <2>1, Described, PA!StepQuiet
    <2>3. PB!QuietInv(n, L)'
      BY <1>1, <2>1, Described, BothComeToRest, PB!StepQuiet
    <2>4. QED  BY <2>2, <2>3
  <1>5. CalmInv(n)'
    BY <1>2, <1>3, <1>4 DEF CalmInv
  <1>6. ASSUME NEW m \in 1 .. NMsg, m \notin apart \cup PA!Sent' \cup PB!Sent'
        PROVE  PA!LastFrame(m)' = PB!LastFrame(m)'
    <2>1. m \in PA!Msg /\ m \in PB!Msg
      BY SameDescription
    <2>2. PA!LastFrame(m)' = PA!LastFrame(m) /\ m \notin PA!Sent
      BY <1>1, <1>6, <2>1, Described, PA!StepLast
         DEF PA!ComesToRest, PA!NodeInv, PA!QuietInv
    <2>3. PB!LastFrame(m)' = PB!LastFrame(m) /\ m \notin PB!Sent
      BY <1>1, <1>6, <2>1, Described, BothComeToRest, PB!StepLast
         DEF PB!ComesToRest, PB!NodeInv, PB!QuietInv
    <2>4. QED  BY <1>6, <2>2, <2>3 DEF LastInv
  <1>7. QED  BY <1>5, <1>6 DEF LastInv

-----------------------------------------------------------------------------
(* The simulation hands over frames. *)

LEMMA OrderType ==
    ASSUME NEW S \in SUBSET (1 .. NMsg), NEW order \in Ordered(S)
    PROVE  \E n \in Nat :
              /\ PA!InOrder(order, n, S) /\ PB!InOrder(order, n, S)
              /\ \A p : /\ Frames(order, p) = PA!Delivery(order, n, p)
                        /\ Frames(order, p) = PB!Delivery(order, n, p)
  <1>1. NMsg \in Nat
    BY Described DEF PA!NetworkAssumption
  <1>2. IsFiniteSet(1 .. NMsg)
    BY <1>1, FS_Interval
  <1>3. Cardinality(S) \in Nat
    BY <1>2, FS_Subset, FS_CardinalityType
  <1>4. QED
    BY <1>3 DEF Ordered, Frames, PA!InOrder, PB!InOrder, PA!Delivery,
          PB!Delivery

(* What a node sent may be delivered to the other one. *)
LEMMA SentByA ==
    ASSUME NEW n \in Nat, PA!ComesToRest(n), PA!NodeInv,
           a_pc = "idle", NEW L \in Nat,
           L > 0 => PA!QuietInv(n, L - 1), NEW m \in DOMAIN a_tx
    PROVE  m \in PB!Msg /\ PB!Deliverable(n, L, m, a_tx)
  <1>1. m \in PA!Msg /\ PA!Valid(m, a_tx[m]) /\ a_bus[m] = a_tx[m]
    BY DEF PA!NodeInv, PA!RangeInv, PA!SentInv, PA!Sent
  <1>2. L >= 1 /\ PA!Event(m) => PA!Settling(n, L - 1, m, a_tx[m])
    <2>1. CASE L = 1
      <3>1. PA!Settled(n, m, a_tx[m])
        <4>1. a_tx[m] \in PA!Content
          BY <1>1 DEF PA!NodeInv, PA!TypeOK
        <4>2. QED
          BY <1>1, <4>1, Described, PA!ValidSettles DEF PA!ComesToRest
      <3>2. QED  BY <2>1, <3>1 DEF PA!Settling
    <2>2. CASE L >= 2
      <3>1. PA!RestInv(n, L - 1) /\ L - 1 >= 1
        BY <2>2 DEF PA!QuietInv
      <3>2. QED  BY <1>1, <3>1 DEF PA!RestInv, PA!OnBus
    <2>3. QED  BY <2>1, <2>2
  <1>3. QED  BY <1>1, <1>2, SameDescription DEF PB!Deliverable

LEMMA SentByB ==
    ASSUME NEW n \in Nat, PB!ComesToRest(n), PB!NodeInv,
           b_pc = "idle", NEW L \in Nat,
           L > 0 => PB!QuietInv(n, L - 1), NEW m \in DOMAIN b_tx
    PROVE  m \in PA!Msg /\ PA!Deliverable(n, L, m, b_tx)
  <1>1. m \in PB!Msg /\ PB!Valid(m, b_tx[m]) /\ b_bus[m] = b_tx[m]
    BY DEF PB!NodeInv, PB!RangeInv, PB!SentInv, PB!Sent
  <1>2. L >= 1 /\ PB!Event(m) => PB!Settling(n, L - 1, m, b_tx[m])
    <2>1. CASE L = 1
      <3>1. PB!Settled(n, m, b_tx[m])
        <4>1. b_tx[m] \in PB!Content
          BY <1>1 DEF PB!NodeInv, PB!TypeOK
        <4>2. QED
          BY <1>1, <4>1, Described, PB!ValidSettles DEF PB!ComesToRest
      <3>2. QED  BY <2>1, <3>1 DEF PB!Settling
    <2>2. CASE L >= 2
      <3>1. PB!RestInv(n, L - 1) /\ L - 1 >= 1
        BY <2>2 DEF PB!QuietInv
      <3>2. QED  BY <1>1, <3>1 DEF PB!RestInv, PB!OnBus
    <2>3. QED  BY <2>1, <2>2
  <1>3. QED  BY <1>1, <1>2, SameDescription DEF PA!Deliverable

LEMMA SynchroniseKeeps ==
    ASSUME NEW n \in Nat, PA!ComesToRest(n), CalmInv(n), LastInv, Synchronise
    PROVE  CalmInv(n)' /\ LastInv'
  <1>0. /\ 0 \in 0 .. calm /\ \A L \in 0 .. calm : L \in Nat
        /\ calm \in Nat /\ Calm \in Nat
    BY BusAssumption DEF CalmInv
  <1>1. /\ PA!NodeInv /\ PB!NodeInv /\ PA!QuietInv(n, 0) /\ PB!QuietInv(n, 0)
        /\ PB!ComesToRest(n)
    BY <1>0, BothComeToRest DEF CalmInv
  <1>2. /\ PA!Exchange /\ PB!Exchange
        /\ a_pc = "idle" /\ b_pc = "idle"
        /\ a_pc' = "rx_signals" /\ b_pc' = "rx_signals"
        /\ a_bus' = a_bus /\ b_bus' = b_bus
    BY NodeA, NodeB DEF Synchronise, PA!Exchange, PB!Exchange
  <1>3. PICK fromA \in SUBSET DOMAIN a_tx, fromB \in SUBSET DOMAIN b_tx :
            /\ \E order \in Ordered(fromA) : b_rx' = Frames(order, a_tx)
            /\ \E order \in Ordered(fromB) : a_rx' = Frames(order, b_tx)
            /\ apart' = (apart \ (fromA \cup fromB))
                           \cup (DOMAIN a_tx \ fromA)
                           \cup (DOMAIN b_tx \ fromB)
                           \cup (DOMAIN a_tx \cap DOMAIN b_tx)
    BY DEF Synchronise, Arrived, Crossing
  <1>4. fromA \in SUBSET (1 .. NMsg) /\ fromB \in SUBSET (1 .. NMsg)
    BY <1>1, SameDescription DEF PA!NodeInv, PB!NodeInv, PA!RangeInv,
       PB!RangeInv
  <1>orderA. PICK orderA \in Ordered(fromA) : b_rx' = Frames(orderA, a_tx)
    BY <1>3
  <1>orderB. PICK orderB \in Ordered(fromB) : a_rx' = Frames(orderB, b_tx)
    BY <1>3
  <1>5. PICK nA \in Nat : /\ PB!InOrder(orderA, nA, fromA)
                          /\ b_rx' = PB!Delivery(orderA, nA, a_tx)
    BY <1>4, <1>orderA, OrderType
  <1>6. PICK nB \in Nat : /\ PA!InOrder(orderB, nB, fromB)
                          /\ a_rx' = PA!Delivery(orderB, nB, b_tx)
    BY <1>4, <1>orderB, OrderType
  <1>8. calm' \in 0 .. Calm
    BY <1>0, BusAssumption DEF Synchronise, CalmInv
  <1>9. ASSUME NEW L \in 0 .. calm'
        PROVE  PA!QuietInv(n, L)' /\ PB!QuietInv(n, L)'
    <2>0. L \in Nat
      BY <1>8
    <2>1. ASSUME L > 0
          PROVE  /\ a_sv' = a_sv /\ b_sv' = b_sv /\ L - 1 \in Nat
                 /\ PA!QuietInv(n, L - 1) /\ PB!QuietInv(n, L - 1)
      <3>1. a_sv' = a_sv /\ b_sv' = b_sv /\ L - 1 \in 0 .. calm
        BY <1>0, <2>0, <2>1 DEF Synchronise
      <3>2. QED  BY <1>0, <3>1 DEF CalmInv
    <2>2. PA!FrameInv(n, L)'
      <3>1. \A m \in fromB : PA!Deliverable(n, L, m, b_tx)
        BY <1>1, <1>2, <2>0, <2>1, SentByB
      <3>2. fromB \in SUBSET PA!Msg
        BY <1>4, SameDescription
      <3>3. QED
        BY <1>2, <1>6, <2>0, <3>1, <3>2, Described, PA!Delivered
    <2>3. PB!FrameInv(n, L)'
      <3>1. \A m \in fromA : PB!Deliverable(n, L, m, a_tx)
        BY <1>1, <1>2, <2>0, <2>1, SentByA
      <3>2. fromA \in SUBSET PB!Msg
        BY <1>4, SameDescription
      <3>3. QED
        BY <1>1, <1>2, <1>5, <2>0, <3>1, <3>2, Described, PB!Delivered
    <2>4. CASE L = 0
      <3>1. PA!RestInv(n, 0)' /\ PB!RestInv(n, 0)'
        BY <1>2, Described, PA!ExchangeStarts, PB!ExchangeStarts
      <3>2. QED  BY <2>2, <2>3, <2>4, <3>1 DEF PA!QuietInv, PB!QuietInv
    <2>5. CASE L > 0
      <3>1. L = (L - 1) + 1 /\ L - 1 \in Nat
        BY <2>0, <2>5
      <3>2. PA!RestInv(n, L - 1) /\ PB!RestInv(n, L - 1)
        BY <2>1, <2>5 DEF PA!QuietInv, PB!QuietInv
      <3>3. PA!RestInv(n, (L - 1) + 1)'
        BY <1>2, <2>1, <2>5, <3>2, Described, PA!ExchangeRest
      <3>4. PB!RestInv(n, (L - 1) + 1)'
        BY <1>2, <2>1, <2>5, <3>2, Described, PB!ExchangeRest
      <3>5. PA!RestInv(n, L)' /\ PB!RestInv(n, L)'
        BY <3>1, <3>3, <3>4
      <3>6. QED  BY <2>2, <2>3, <3>5 DEF PA!QuietInv, PB!QuietInv
    <2>6. QED  BY <2>0, <2>4, <2>5
  <1>10. PA!NodeInv'
    BY <1>1, <1>2, Described, PA!NextNode DEF PA!Next
  <1>11. PB!NodeInv'
    BY <1>1, <1>2, Described, PB!NextNode DEF PB!Next
  <1>12. ASSUME NEW m \in 1 .. NMsg, m \notin apart'
         PROVE  PA!LastFrame(m)' = PB!LastFrame(m)'
    <2>0. m \in PA!Msg /\ m \in PB!Msg
      BY SameDescription
    <2>1. /\ m \in fromB => PA!LastFrame(m)' = b_tx[m]
          /\ m \notin fromB => PA!LastFrame(m)' = a_bus[m]
      <3>1. fromB \in SUBSET PA!Msg
        BY <1>4, SameDescription
      <3>2. QED
        BY <1>2, <1>6, <2>0, <3>1, Described, PA!DeliveredLast
           DEF PA!ComesToRest
    <2>2. /\ m \in fromA => PB!LastFrame(m)' = a_tx[m]
          /\ m \notin fromA => PB!LastFrame(m)' = b_bus[m]
      <3>1. fromA \in SUBSET PB!Msg
        BY <1>4, SameDescription
      <3>2. QED
        BY <1>1, <1>2, <1>5, <2>0, <3>1, Described, PB!DeliveredLast
           DEF PB!ComesToRest
    <2>3. PA!Sent = DOMAIN a_tx /\ PB!Sent = DOMAIN b_tx
      BY <1>2 DEF PA!Sent, PB!Sent
    <2>4. CASE m \in DOMAIN a_tx
      <3>1. m \in fromA /\ m \notin fromB
        BY <1>3, <1>12, <2>4
      <3>2. a_bus[m] = a_tx[m]
        BY <1>1, <2>3, <2>4 DEF PA!NodeInv, PA!SentInv
      <3>3. QED  BY <2>1, <2>2, <3>1, <3>2
    <2>5. CASE m \in DOMAIN b_tx
      <3>1. m \in fromB /\ m \notin fromA
        BY <1>3, <1>12, <2>5
      <3>2. b_bus[m] = b_tx[m]
        BY <1>1, <2>3, <2>5 DEF PB!NodeInv, PB!SentInv
      <3>3. QED  BY <2>1, <2>2, <3>1, <3>2
    <2>6. CASE m \notin DOMAIN a_tx \cup DOMAIN b_tx
      <3>1. m \notin apart
        BY <1>3, <1>12, <2>6
      <3>2. PA!LastFrame(m) = PB!LastFrame(m)
        BY <2>3, <2>6, <3>1 DEF LastInv
      <3>3. a_rx = <<>> /\ b_rx = <<>>
        BY <1>1, <1>2
           DEF PA!QuietInv, PB!QuietInv, PA!FrameInv, PB!FrameInv
      <3>4. PA!LastFrame(m) = a_bus[m] /\ PB!LastFrame(m) = b_bus[m]
        BY <3>3 DEF PA!LastFrame, PB!LastFrame, PA!Arriving, PB!Arriving
      <3>5. m \notin fromA /\ m \notin fromB
        BY <2>6
      <3>6. QED  BY <2>1, <2>2, <3>2, <3>4, <3>5
    <2>7. QED  BY <2>4, <2>5, <2>6
  <1>13. QED
    BY <1>8, <1>9, <1>10, <1>11, <1>12 DEF CalmInv, LastInv

-----------------------------------------------------------------------------
(* What a step of the bus is for its nodes. *)
LEMMA BusStep ==
    ASSUME [BusNext]_busVars
    PROVE  \/ Synchronise
           \/ /\ PA!model_step \/ UNCHANGED PA!vars
              /\ PB!model_step \/ UNCHANGED PB!vars
              /\ UNCHANGED <<calm, apart>>
  <1>1. CASE StepA
    BY <1>1, NodeA, StutterNodes DEF StepA
  <1>2. CASE StepB
    BY <1>2, NodeB, StutterNodes DEF StepB
  <1>3. CASE UNCHANGED busVars
    BY <1>3, StutterNodes DEF busVars
  <1>4. QED  BY <1>1, <1>2, <1>3 DEF BusNext

LEMMA NextBus ==
    ASSUME NEW n \in Nat, PA!ComesToRest(n), CalmInv(n), LastInv,
           [BusNext]_busVars
    PROVE  CalmInv(n)' /\ LastInv'
  BY BusStep, SynchroniseKeeps, NodeStep

LEMMA RestIsQuiet ==
    ASSUME NEW n \in Nat, Calm >= n + 1, CalmInv(n)
    PROVE  Quiesce
  <1> SUFFICES ASSUME AtRest, NEW m \in DOMAIN a_tx \cup DOMAIN b_tx,
                      CycleTime[m] = 0
               PROVE  FALSE
    BY DEF Quiesce
  <1>1. PA!QuietInv(n, Calm) /\ PB!QuietInv(n, Calm)
    BY BusAssumption DEF AtRest, CalmInv
  <1>2. CASE m \in DOMAIN a_tx
    BY <1>1, <1>2
       DEF AtRest, CalmInv, PA!NodeInv, PA!RangeInv, PA!QuietInv, PA!RestInv,
           PA!Settling, PA!OnBus, PA!Event
  <1>3. CASE m \in DOMAIN b_tx
    BY <1>1, <1>3
       DEF AtRest, CalmInv, PB!NodeInv, PB!RangeInv, PB!QuietInv, PB!RestInv,
           PB!Settling, PB!OnBus, PB!Event
  <1>4. QED  BY <1>2, <1>3

(* Two nodes with the same description fall silent when the other models   *)
(* leave their signals alone.  A value that does not survive decoding and  *)
(* encoding is answered with the one it becomes, and that may be answered  *)
(* again: if the codec loses something at most n times, nothing is left to *)
(* answer after n + 1 exchanges.  Whatever was lost, crossed or suppressed *)
(* before, for every network as ComesToRest says.                          *)
THEOREM NodesFallSilent ==
    ASSUME NEW n \in Nat, PA!ComesToRest(n), Calm >= n + 1
    PROVE  BusSpec => []Quiesce
  <1>1. BusInit => CalmInv(n) /\ LastInv
    BY InitBus
  <1>2. CalmInv(n) /\ LastInv /\ [BusNext]_busVars => (CalmInv(n) /\ LastInv)'
    BY NextBus
  <1>3. CalmInv(n) => Quiesce
    BY RestIsQuiet
  <1>4. QED  BY <1>1, <1>2, <1>3, PTL DEF BusSpec

-----------------------------------------------------------------------------
AllSent == a_unsent = {} /\ b_unsent = {}

LEMMA NextAllSent ==
    ASSUME NEW n \in Nat, NetOff = {FALSE}, CalmInv(n), AllSent,
           [BusNext]_busVars
    PROVE  AllSent'
  <1>1. PA!Next \/ UNCHANGED PA!vars
    BY BusStep, NodeA DEF Synchronise, PA!Next
  <1>2. PB!Next \/ UNCHANGED PB!vars
    BY BusStep, NodeB DEF Synchronise, PB!Next
  <1>3. a_unsent' = {}
    BY <1>1, Described, PA!NextUnsent DEF CalmInv, AllSent, PA!NodeInv
  <1>4. b_unsent' = {}
    BY <1>2, Described, PB!NextUnsent DEF CalmInv, AllSent, PB!NodeInv
  <1>5. QED  BY <1>3, <1>4 DEF AllSent

LEMMA RestAgrees ==
    ASSUME NEW n \in Nat, Calm >= n + 1, CalmInv(n), LastInv, AllSent
    PROVE  Agreement
  <1> DEFINE a(s) == Enc(s, A!Outgoing(s, a_signal_vector))
             b(s) == Enc(s, B!Outgoing(s, b_signal_vector))
  <1> SUFFICES ASSUME AtRest, NEW s \in 1 .. NSig,
                      CycleTime[SigMsg[s]] = 0, SigMsg[s] \notin apart,
                      InRange(s, a(s)), InRange(s, b(s))
               PROVE  a(s) = b(s)
    BY Zenon DEF Agreement
  <1> DEFINE m == SigMsg[s]
  <1>1. m \in 1 .. NMsg /\ s \in PA!Sig /\ s \in PB!Sig
    BY Described DEF PA!NetworkAssumption, PA!Msg, PA!Sig, PB!Sig
  <1>2. m \notin DOMAIN a_tx /\ m \notin DOMAIN b_tx
    BY RestIsQuiet DEF Quiesce
  <1>3. PA!LastFrame(m) = PB!LastFrame(m)
    BY <1>1, <1>2 DEF AtRest, LastInv, PA!Sent, PB!Sent
  <1>4. PA!QuietInv(n, 0) /\ PB!QuietInv(n, 0)
    BY BusAssumption DEF CalmInv
  <1>5. a_rx = <<>> /\ b_rx = <<>>
    BY <1>4 DEF AtRest, PA!QuietInv, PB!QuietInv, PA!FrameInv, PB!FrameInv
  <1>6. a_bus[m] = b_bus[m]
    BY <1>3, <1>5 DEF PA!LastFrame, PB!LastFrame, PA!Arriving, PB!Arriving
  <1>7. a_bus[m][SigField[s]] = a(s)
    BY <1>1 DEF AtRest, CalmInv, AllSent, PA!NodeInv, PA!BusAgrees, PA!Event,
       PA!Agrees, PA!Outgoing, A!Outgoing
  <1>8. b_bus[m][SigField[s]] = b(s)
    BY <1>1 DEF AtRest, CalmInv, AllSent, PB!NodeInv, PB!BusAgrees, PB!Event,
       PB!Agrees, PB!Outgoing, B!Outgoing
  <1>9. QED  BY <1>6, <1>7, <1>8

(* And then both nodes hold the value that was on the bus last, for every  *)
(* network that is never switched off: only a message that was lost or     *)
(* crossed another one may leave them apart.                               *)
THEOREM NodesAgree ==
    ASSUME NEW n \in Nat, PA!ComesToRest(n), Calm >= n + 1, NetOff = {FALSE}
    PROVE  BusSpec => []Agreement
  <1> DEFINE IInv == CalmInv(n) /\ LastInv /\ AllSent
  <1>1. BusInit => IInv
    <2>1. BusInit => AllSent
      BY DEF BusInit, A!Init, B!Init, AllSent
    <2>2. QED  BY <2>1, InitBus
  <1>2. IInv /\ [BusNext]_busVars => IInv'
    BY NextBus, NextAllSent
  <1>3. IInv => Agreement
    BY RestAgrees
  <1>4. QED  BY <1>1, <1>2, <1>3, PTL DEF BusSpec
=============================================================================
