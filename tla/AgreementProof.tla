--------------------------- MODULE AgreementProof ---------------------------
(***************************************************************************)
(* Proofs that a network model and its bus agree: NoEcho and BusAgrees of  *)
(* NetworkModel, for networks without multiplexed messages, and that a     *)
(* node comes to rest: the lemmas about one node that BusProof needs.      *)
(***************************************************************************)
EXTENDS NetworkProof

USE DEF chanVars, sigVars, msgVars, flagVars, alarmVars, clockVars, histVars

(* The frames of a message carry all of its signals. *)
SignalsCarried ==
    \A s \in Sig, x \in Raw : Carries(SigMsg[s], SigField[s], x)

(* No member is multiplexed and no message is contained in another one.    *)
PlainFrames ==
    /\ Contained = {}
    /\ \A m \in Msg, f \in Field, x \in Raw : Carries(m, f, x)

(* Two contents have the same checksum only if they are the same. *)
NoCollision == \A p, q \in Content : Hash(p) = Hash(q) => p = q

(* Decoding r loses nothing that encoding does not bring back. *)
Survives(s, r) == InRange(s, r) => Enc(s, Dec(s, r)) = r

(* Where the encode functions change a payload, its signals can follow:    *)
(* they write no value that the range check stops, and what the payload    *)
(* then holds survives decoding.                                           *)
EncodersFollowed ==
    \A s \in Sig, p \in Content :
        LET q == Encoded(SigMsg[s], p)
            r == q[SigField[s]]
        IN  q # p => /\ r = p[SigField[s]] \/ InRange(s, r)
                     /\ Survives(s, r)

-----------------------------------------------------------------------------
(* A signal out of range leaves its member as it is. *)
LEMMA MarshalledMissing ==
    ASSUME NEW vector \in [Sig -> Phys], NEW buf \in [Msg -> Content],
           NEW s \in Sig, ~InRange(s, Enc(s, Outgoing(s, vector)))
    PROVE  MarshalledBuffer(vector, buf)[SigMsg[s]][SigField[s]]
               = buf[SigMsg[s]][SigField[s]]
  <1> DEFINE m == SigMsg[s]
             f == SigField[s]
             source == {t \in Sig : /\ SigMsg[t] = m
                                    /\ SigField[t] = f
                                    /\ InRange(t, Enc(t, Outgoing(t, vector)))}
  <1>1. m \in Msg /\ f \in Field
    BY NetworkAssumption
  <1>2. source = {}
    BY WellFormedAssumption
  <1>3. MarshalledBuffer(vector, buf)[m][f] =
            IF source = {} THEN buf[m][f]
            ELSE LET t == CHOOSE t \in source : TRUE
                 IN  Enc(t, Outgoing(t, vector))
    BY <1>1, Zenon DEF MarshalledBuffer
  <1>4. QED  BY <1>2, <1>3

(* A buffer that already holds what its signals encode to, as far as that  *)
(* is in range, does not change.                                           *)
LEMMA MarshalledAgain ==
    ASSUME NEW vector \in [Sig -> Phys], NEW buf \in [Msg -> Content],
           NEW m \in Msg,
           \A s \in Sig :
               SigMsg[s] = m /\ InRange(s, Enc(s, Outgoing(s, vector)))
                   => buf[m][SigField[s]] = Enc(s, Outgoing(s, vector))
    PROVE  MarshalledBuffer(vector, buf)[m] = buf[m]
  <1>1. MarshalledBuffer(vector, buf)[m] \in Content /\ buf[m] \in Content
    BY MarshalType
  <1>2. ASSUME NEW f \in Field
        PROVE  MarshalledBuffer(vector, buf)[m][f] = buf[m][f]
    <2> DEFINE source == {s \in Sig : /\ SigMsg[s] = m
                                      /\ SigField[s] = f
                                      /\ InRange(s, Enc(s, Outgoing(s, vector)))}
    <2>1. MarshalledBuffer(vector, buf)[m][f] =
              IF source = {} THEN buf[m][f]
              ELSE LET t == CHOOSE t \in source : TRUE
                   IN  Enc(t, Outgoing(t, vector))
      BY Zenon DEF MarshalledBuffer
    <2>2. \A t \in source : Enc(t, Outgoing(t, vector)) = buf[m][f]
      OBVIOUS
    <2> HIDE DEF source
    <2>3. source # {} => (CHOOSE t \in source : TRUE) \in source
      OBVIOUS
    <2>4. QED  BY <2>1, <2>2, <2>3
  <1>3. QED  BY <1>1, <1>2 DEF Content

LEMMA PackedPlain ==
    ASSUME PlainFrames, NEW m \in Msg, NEW buf \in Content, NEW p \in Content
    PROVE  Packed(m, buf) = buf /\ Unpacked(m, buf, p) = p
  <1>1. /\ \A f \in Field : Carries(m, f, buf[Selector(m)])
        /\ \A f \in Field : Carries(m, f, p[Selector(m)])
    BY CodecAssumption DEF PlainFrames, Content
  <1>2. QED  BY <1>1 DEF Packed, Unpacked, Content

(* The member of a signal is packed as it is. *)
LEMMA PackedSignal ==
    ASSUME SignalsCarried, NEW s \in Sig, NEW buf \in Content
    PROVE  Packed(SigMsg[s], buf)[SigField[s]] = buf[SigField[s]]
  <1>1. Carries(SigMsg[s], SigField[s], buf[Selector(SigMsg[s])])
    BY NetworkAssumption, CodecAssumption DEF SignalsCarried, Content
  <1>2. QED  BY <1>1, NetworkAssumption DEF Packed

-----------------------------------------------------------------------------
(* No echo *)

(* The buffer of m is what is on the bus and what its checksum is of. *)
Filtered(m) ==
    /\ buffer_checksum[m] = Hash(buffer[m])
    /\ bus[m] = Packed(m, buffer[m])

(* The signals of m hold what its buffer decodes to. *)
Followed(m) ==
    \A s \in Sig :
        SigMsg[s] = m /\ InRange(s, buffer[m][SigField[s]])
            => signal_vector[s] = Dec(s, buffer[m][SigField[s]])

Answerable(m) == m \in heard /\ Event(m) /\ RoundTrips(m, bus[m])

(* An update is pending only from its frame to the marshalling of signals, *)
(* or from an encode function to the second marshalling.  What was         *)
(* received stays filtered up to the marshalling of the encode path, which *)
(* then changes nothing, so that packing sees no change.                   *)
EchoInv ==
    /\ pc \notin {"decode", "apply_decode", "signals", "encode", "update"}
           => \A m \in Msg : ~update_signals[m]
    /\ pc \in {"decode", "apply_decode", "signals"}
           => \A m \in Msg : update_signals[m] => Filtered(m)
    /\ pc \in {"begin_ticks", "tick", "signals_to_messages"}
           => \A m \in heard : Event(m) => Filtered(m) /\ Followed(m)
    /\ pc = "pack"
           => \A m \in Msg :
                  Answerable(m) => buffer_checksum[m] = Hash(buffer[m])
    /\ pc \in {"apply_encode", "encode"}
           => \A m \in Msg : Answerable(m) => ~needs_tx[m]

LEMMA InitEcho == Init => EchoInv
  BY DEF Init, EchoInv

(* A received message has its checksum set anew. *)
LEMMA DecodeFiltered ==
    TypeOK /\ EchoInv /\ DecodeFrame
        => \A m \in Msg : update_signals'[m] => Filtered(m)'
  <1> SUFFICES ASSUME TypeOK, EchoInv, DecodeFrame,
                      NEW m \in Msg, update_signals'[m]
               PROVE  Filtered(m)'
    OBVIOUS
  <1> DEFINE fr == Head(rx)
             S == Processed(First(Matching(fr.id)), fr.payload)
  <1>1. update_signals[m] => Filtered(m)
    BY DEF DecodeFrame, EchoInv
  <1>2. CASE Dropped(fr)
    BY <1>1, <1>2 DEF DecodeFrame, Filtered
  <1>3. CASE ~Dropped(fr)
    <2>1. Receive(S, fr.payload)
      BY <1>3 DEF DecodeFrame
    <2> HIDE DEF S
    <2>2. CASE m \in S
      BY <2>1, <2>2 DEF Receive, Resummed, Filtered
    <2>3. CASE m \notin S
      BY <1>1, <2>1, <2>3 DEF Receive, Resummed, Filtered, TypeOK
    <2>4. QED  BY <2>2, <2>3
  <1>4. QED  BY <1>2, <1>3

LEMMA ToSignalsFollowed ==
    ASSUME TypeOK, MarshalToSignals, NEW m \in Msg, update_signals[m]
    PROVE  Followed(m)'
  BY DEF MarshalToSignals, marshal_messages_to_signals, Decoded, Followed,
         TypeOK

(* Marshalling does not change the buffer of a message that was received   *)
(* with values that survive decoding and encoding.                         *)
LEMMA MarshalKeepsReceived ==
    ASSUME SignalsCarried, TypeOK, NEW m \in Msg,
           Filtered(m), Followed(m), RoundTrips(m, bus[m])
    PROVE  MarshalledBuffer(signal_vector, buffer)[m] = buffer[m]
  <1>1. ASSUME NEW s \in Sig, SigMsg[s] = m
        PROVE  buffer[m][SigField[s]] = Enc(s, Outgoing(s, signal_vector))
    <2> DEFINE raw == bus[m][SigField[s]]
    <2>1. raw = buffer[m][SigField[s]]
      BY <1>1, PackedSignal DEF Filtered, TypeOK
    <2>2. /\ InRange(s, raw)
          /\ raw = Enc(s, IF s \in Internal /\ m \in Contained
                          THEN ConstValue[s] ELSE Dec(s, raw))
      BY <1>1 DEF RoundTrips
    <2> HIDE DEF raw
    <2>3. signal_vector[s] = Dec(s, raw)
      BY <1>1, <2>1, <2>2 DEF Followed
    <2>4. QED  BY <1>1, <2>1, <2>2, <2>3 DEF Outgoing
  <1>2. QED  BY <1>1, MarshalledAgain DEF TypeOK

LEMMA NextEcho ==
    ASSUME SignalsCarried
    PROVE  TypeOK /\ EchoInv /\ [Next]_vars => EchoInv'
  <1> SUFFICES ASSUME TypeOK, EchoInv, [Next]_vars PROVE EchoInv'
    OBVIOUS
  <1>1. CASE Exchange \/ RxSignals
    BY <1>1 DEF Exchange, RxSignals, EchoInv
  <1>2. CASE DecodeFrame
    <2>1. pc' = "decode"
      BY <1>2 DEF DecodeFrame
    <2>2. QED  BY <1>2, <2>1, DecodeFiltered DEF EchoInv
  <1>3. CASE DecodeDone
    BY <1>3 DEF DecodeDone, EchoInv, Filtered
  <1>4. CASE ApplyDecode
    BY <1>4 DEF ApplyDecode, EchoInv, Filtered
  <1>5. CASE MarshalToSignals
    <2>1. ASSUME NEW m \in heard' PROVE Filtered(m)' /\ Followed(m)'
      <3>1. m \in Msg /\ update_signals[m]
        BY <1>5 DEF MarshalToSignals
      <3>2. Filtered(m)
        BY <1>5, <3>1 DEF MarshalToSignals, EchoInv
      <3>3. QED
        BY <1>5, <3>1, <3>2, ToSignalsFollowed DEF MarshalToSignals, Filtered
    <2>2. pc' = "begin_ticks" /\ \A m \in Msg : ~update_signals'[m]
      BY <1>5 DEF MarshalToSignals, marshal_messages_to_signals
    <2>3. QED  BY <2>1, <2>2 DEF EchoInv
  <1>6. CASE BeginTicks \/ TicksDone
    BY <1>6 DEF BeginTicks, TicksDone, EchoInv, Filtered, Followed
  <1>7. CASE Tick
    <2>1. ASSUME NEW m \in Msg, Event(m)
          PROVE  buffer_checksum'[m] = buffer_checksum[m]
      BY <1>7, <2>1 DEF Tick, TypeOK, Event, Sched!MakeTick,
            Sched!network_schedule_tick, Sched!Unsummed, Sched!Fires,
            Sched!Cyclic
    <2>2. heard \subseteq Msg
      BY DEF TypeOK
    <2>3. QED  BY <1>7, <2>1, <2>2 DEF Tick, EchoInv, Filtered, Followed
  <1>8. CASE MarshalToMessages
    <2>1. ASSUME NEW m \in Msg, Answerable(m)'
          PROVE  buffer_checksum'[m] = Hash(buffer'[m])
      <3>1. Answerable(m)
        BY <1>8, <2>1 DEF MarshalToMessages, Answerable, Event, RoundTrips
      <3>2. Filtered(m) /\ Followed(m)
        BY <1>8, <3>1 DEF MarshalToMessages, EchoInv, Answerable
      <3>3. buffer'[m] = buffer[m]
        BY <1>8, <3>1, <3>2, MarshalKeepsReceived
           DEF MarshalToMessages, Answerable
      <3>4. QED  BY <1>8, <3>2, <3>3 DEF MarshalToMessages, Filtered
    <2>2. QED  BY <1>8, <2>1 DEF MarshalToMessages, EchoInv
  <1>9. CASE Pack
    <2>1. ASSUME NEW m \in Msg, Answerable(m)'
          PROVE  ~needs_tx'[m]
      <3>1. Answerable(m)
        BY <1>9, <2>1 DEF Pack, Answerable, Event, RoundTrips
      <3>2. ~Changed(m)
        BY <1>9, <3>1 DEF Pack, EchoInv, Changed
      <3>3. QED  BY <1>9, <3>2 DEF Pack, Flagged
    <2>2. QED  BY <1>9, <2>1 DEF Pack, EchoInv
  <1>10. CASE ApplyEncode
    <2>1. \A m \in Msg : Answerable(m)' => Answerable(m)
      BY <1>10 DEF ApplyEncode, Answerable, Event, RoundTrips
    <2>2. QED  BY <1>10, <2>1 DEF ApplyEncode, Sendable, EchoInv
  <1>11. CASE EncodeToBus
    BY <1>11 DEF EncodeToBus, EchoInv
  <1>12. CASE UpdateSignals
    BY <1>12 DEF UpdateSignals, marshal_messages_to_signals, EchoInv
  <1>13. CASE TxSignals
    BY <1>13 DEF TxSignals, EchoInv
  <1>14. CASE UNCHANGED vars
    BY <1>14 DEF vars, EchoInv, Filtered, Followed, Answerable, RoundTrips,
                 Event
  <1>15. QED
    BY <1>1, <1>2, <1>3, <1>4, <1>5, <1>6, <1>7, <1>8, <1>9, <1>10, <1>11,
       <1>12, <1>13, <1>14 DEF Next, model_step

(* A step that takes values from the bus does not answer with a frame of   *)
(* the same event message if they survive decoding and encoding, for every *)
(* network in whose messages each frame carries all signals, and whatever  *)
(* else the bus and the other models do in that step.                      *)
THEOREM NetworkDoesNotEcho ==
    ASSUME SignalsCarried
    PROVE  Spec => []NoEcho
  <1>1. TypeOK /\ EchoInv => NoEcho
    BY DEF TypeOK, EchoInv, NoEcho, Answerable
  <1>2. TypeOK /\ EchoInv /\ [Next]_vars => EchoInv'
    BY NextEcho
  <1>3. QED
    BY <1>1, <1>2, InitEcho, NetworkTypeCorrect, PTL DEF Spec

-----------------------------------------------------------------------------
(* Agreement *)

(* The member of s holds what its signal encodes to. *)
Fits(s) ==
    InRange(s, Enc(s, signal_vector[s]))
        => buffer[SigMsg[s]][SigField[s]] = Enc(s, signal_vector[s])

(* The checksum of an event message that is not about to be sent stands    *)
(* for what is on the bus: this is what holds from one step to the next.   *)
SumInv ==
    \A m \in Msg :
        Event(m) /\ m \notin unsent /\ ~needs_tx[m]
            => \A c \in Content : Hash(c) = buffer_checksum[m] => bus[m] = c

(* The second marshalling of signals makes s fit. *)
Followable(s) ==
    LET raw == buffer[SigMsg[s]][SigField[s]]
    IN  IF update_signals[SigMsg[s]]
        THEN (InRange(s, raw) \/ Fits(s)) /\ Survives(s, raw)
        ELSE Fits(s)

(* The encode path makes buffer, checksum, payload, bus and signals agree  *)
(* one after the other.                                                    *)
EncodePathInv ==
    /\ pc \in {"apply_encode", "encode", "update", "tx_signals"}
           => \A m \in Msg : Event(m) => buffer_checksum[m] = Hash(buffer[m])
    /\ pc = "apply_encode" => \A m \in Msg : payload[m] = buffer[m]
    /\ pc = "encode" => \A m \in Msg : needs_tx[m] => payload[m] = buffer[m]
    /\ pc \in {"update", "tx_signals"}
           => \A m \in Msg : OnBus(m) => bus[m] = buffer[m]
    /\ pc \in {"pack", "apply_encode", "tx_signals"} => \A s \in Sig : Fits(s)
    /\ pc \in {"encode", "update"} => \A s \in Sig : Followable(s)

LEMMA InitSum ==
    ASSUME PlainFrames, NoCollision
    PROVE  Init => SumInv
  <1> SUFFICES ASSUME Init, NEW m \in Msg, Event(m), NEW c \in Content,
                      Hash(c) = buffer_checksum[m]
               PROVE  bus[m] = c
    BY DEF SumInv
  <1>1. InitBuffer[m] \in Content
    BY InitBufferType
  <1>2. c = InitBuffer[m]
    BY <1>1 DEF Init, NoCollision
  <1>3. QED  BY <1>1, <1>2, PackedPlain DEF Init

LEMMA NextSum ==
    ASSUME PlainFrames, NoCollision
    PROVE  TypeOK /\ TypeOK' /\ FlagInv /\ SumInv /\ EncodePathInv
               /\ [Next]_vars => SumInv'
  <1> SUFFICES ASSUME TypeOK, TypeOK', FlagInv, SumInv, EncodePathInv,
                      [Next]_vars,
                      NEW m \in Msg, Event(m), m \notin unsent',
                      ~needs_tx'[m],
                      NEW c \in Content, Hash(c) = buffer_checksum'[m]
               PROVE  bus'[m] = c
    BY DEF SumInv, Event
  <1> DEFINE Same == /\ m \notin unsent /\ ~needs_tx[m]
                     /\ buffer_checksum'[m] = buffer_checksum[m]
                     /\ bus'[m] = bus[m]
  <1>same. Same => bus'[m] = c
    BY DEF SumInv
  <1> HIDE DEF Same
  <1>1. CASE Exchange \/ RxSignals \/ DecodeDone \/ ApplyDecode
             \/ MarshalToSignals \/ BeginTicks \/ TicksDone
             \/ MarshalToMessages \/ UpdateSignals \/ TxSignals
    <2>1. UNCHANGED <<buffer_checksum, needs_tx, bus, unsent>>
      BY <1>1 DEF Exchange, RxSignals, DecodeDone, ApplyDecode,
            MarshalToSignals, BeginTicks, TicksDone, MarshalToMessages,
            UpdateSignals, TxSignals
    <2>2. QED  BY <2>1, <1>same DEF Same
  <1>2. CASE DecodeFrame
    <2> DEFINE fr == Head(rx)
               S == Processed(First(Matching(fr.id)), fr.payload)
    <2>1. CASE Dropped(fr)
      BY <1>2, <2>1, <1>same DEF DecodeFrame, Same
    <2>2. CASE ~Dropped(fr)
      <3>1. Receive(S, fr.payload) /\ needs_tx' = needs_tx
        BY <1>2, <2>2 DEF DecodeFrame
      <3> HIDE DEF S
      <3>2. CASE m \in S
        <4>1. /\ buffer_checksum'[m] = Hash(buffer'[m])
              /\ bus'[m] = Packed(m, buffer'[m])
          BY <3>1, <3>2 DEF Receive, Resummed
        <4>2. buffer'[m] \in Content
          BY DEF TypeOK
        <4>3. QED  BY <4>1, <4>2, PackedPlain DEF NoCollision
      <3>3. CASE m \notin S
        <4>1. Same
          BY <3>1, <3>3 DEF Receive, Resummed, TypeOK, Same
        <4>2. QED  BY <4>1, <1>same
      <3>4. QED  BY <3>2, <3>3
    <2>3. QED  BY <2>1, <2>2
  <1>3. CASE Tick
    <2>1. /\ buffer_checksum'[m] = buffer_checksum[m]
          /\ needs_tx[m] => needs_tx'[m]
      BY <1>3 DEF Tick, TypeOK, Event, Sched!MakeTick,
            Sched!network_schedule_tick, Sched!Unsummed, Sched!Fires,
            Sched!Cyclic
    <2>2. UNCHANGED <<bus, unsent>>
      BY <1>3 DEF Tick
    <2>3. QED  BY <2>1, <2>2, <1>same DEF Same
  <1>4. CASE Pack
    <2>1. ~needs_tx[m]
      BY <1>4 DEF Pack, FlagInv, TickPhase
    <2>2. ~Changed(m)
      BY <1>4 DEF Pack, Flagged
    <2>3. buffer_checksum'[m] = Hash(buffer[m])
      BY <1>4 DEF Pack, Resummed
    <2>4. buffer_checksum'[m] = buffer_checksum[m]
      BY <2>2, <2>3 DEF Changed
    <2>5. UNCHANGED <<bus, unsent>>
      BY <1>4 DEF Pack
    <2>6. QED  BY <2>1, <2>4, <2>5, <1>same DEF Same
  <1>5. CASE ApplyEncode
    <2>1. ~needs_tx[m] /\ m \notin unsent
      BY <1>5 DEF ApplyEncode, Sendable, TypeOK
    <2>2. buffer_checksum'[m] = buffer_checksum[m]
      BY <1>5, <2>1 DEF ApplyEncode, Resummed, Altered, Sendable, TypeOK
    <2>3. QED  BY <1>5, <2>1, <2>2, <1>same DEF ApplyEncode, Same
  <1>6. CASE EncodeToBus
    <2>1. CASE needs_tx[m]
      <3>1. buffer_checksum'[m] = Hash(buffer[m]) /\ payload[m] = buffer[m]
        BY <1>6, <2>1 DEF EncodeToBus, EncodePathInv
      <3>2. bus'[m] = payload[m]
        BY <1>6, <2>1 DEF EncodeToBus
      <3>3. buffer[m] \in Content
        BY DEF TypeOK
      <3>4. QED  BY <3>1, <3>2, <3>3 DEF NoCollision
    <2>2. CASE ~needs_tx[m]
      BY <1>6, <2>2, <1>same DEF EncodeToBus, Same
    <2>3. QED  BY <2>1, <2>2
  <1>7. CASE UNCHANGED vars
    BY <1>7, <1>same DEF vars, Same
  <1>8. QED
    BY <1>1, <1>2, <1>3, <1>4, <1>5, <1>6, <1>7 DEF Next, model_step

LEMMA PlainOutgoing ==
    ASSUME PlainFrames, NEW s \in Sig, NEW vector
    PROVE  Outgoing(s, vector) = vector[s]
  BY DEF PlainFrames, Outgoing

(* After marshalling every member holds what its signal encodes to. *)
LEMMA MarshalFits ==
    ASSUME PlainFrames, TypeOK, MarshalToMessages, NEW s \in Sig
    PROVE  Fits(s)'
  <1>1. Outgoing(s, signal_vector) = signal_vector[s]
    BY PlainOutgoing
  <1>2. InRange(s, Enc(s, signal_vector[s])) =>
            MarshalledBuffer(signal_vector, buffer)[SigMsg[s]][SigField[s]]
                = Enc(s, signal_vector[s])
    BY <1>1, MarshalledMember DEF TypeOK
  <1>3. QED  BY <1>2 DEF MarshalToMessages, Fits

(* An encode function changes a member to a value its signal can take, or  *)
(* not at all.                                                             *)
LEMMA EncodeFits ==
    ASSUME PlainFrames, EncodersFollowed, TypeOK, TypeOK', EchoInv,
           EncodePathInv, ApplyEncode, NEW s \in Sig
    PROVE  Followable(s)'
  <1> DEFINE m == SigMsg[s]
             f == SigField[s]
  <1>1. m \in Msg /\ f \in Field
    BY NetworkAssumption
  <1>2. Fits(s) /\ payload[m] = buffer[m] /\ ~update_signals[m]
    BY <1>1 DEF ApplyEncode, EncodePathInv, EchoInv
  <1>3. signal_vector' = signal_vector
    BY DEF ApplyEncode
  <1>update. update_signals'[m] = (Altered(m) \/ update_signals[m])
    BY <1>1 DEF ApplyEncode
  <1>4. CASE ~Altered(m)
    <2>1. buffer'[m] = buffer[m]
      BY <1>1, <1>4 DEF ApplyEncode
    <2>2. ~update_signals'[m]
      BY <1>2, <1>4, <1>update
    <2>3. QED  BY <1>2, <1>3, <2>1, <2>2 DEF Fits, Followable
  <1>5. CASE Altered(m)
    <2>1. payload'[m] = Encoded(m, payload[m]) /\ payload'[m] \in Content
      BY <1>1, <1>5 DEF ApplyEncode, Altered, TypeOK
    <2>2. buffer'[m] = payload'[m]
      BY <1>1, <1>5, <2>1, PackedPlain DEF ApplyEncode, TypeOK
    <2>3. Encoded(m, payload[m]) # payload[m] /\ payload[m] \in Content
      BY <1>1, <1>5 DEF Altered, TypeOK
    <2>4. /\ buffer'[m][f] = buffer[m][f] \/ InRange(s, buffer'[m][f])
          /\ Survives(s, buffer'[m][f])
      BY <1>2, <2>1, <2>2, <2>3 DEF EncodersFollowed
    <2>5. buffer'[m][f] = buffer[m][f] => Fits(s)'
      BY <1>2, <1>3 DEF Fits
    <2>6. Followable(s)' = ((InRange(s, buffer'[m][f]) \/ Fits(s)')
                                /\ Survives(s, buffer'[m][f]))
      BY <1>5, <1>update DEF Followable
    <2>7. QED  BY <2>4, <2>5, <2>6
  <1>6. QED  BY <1>4, <1>5

(* The signals follow what the encode functions wrote. *)
LEMMA UpdateFits ==
    ASSUME TypeOK, EncodePathInv, UpdateSignals, NEW s \in Sig
    PROVE  Fits(s)'
  <1> DEFINE raw == buffer[SigMsg[s]][SigField[s]]
  <1>1. Followable(s)
    BY DEF UpdateSignals, EncodePathInv
  <1>2. /\ buffer' = buffer
        /\ signal_vector'[s] = IF update_signals[SigMsg[s]]
                               THEN Decoded(s, buffer[SigMsg[s]],
                                            signal_vector[s])
                               ELSE signal_vector[s]
    BY DEF UpdateSignals, marshal_messages_to_signals
  <1>3. CASE update_signals[SigMsg[s]] /\ InRange(s, raw)
    <2>1. signal_vector'[s] = Dec(s, raw)
      BY <1>2, <1>3 DEF Decoded
    <2>2. Enc(s, signal_vector'[s]) = raw
      BY <1>1, <1>3, <2>1 DEF Followable, Survives
    <2>3. QED  BY <1>2, <2>2 DEF Fits
  <1>4. CASE ~(update_signals[SigMsg[s]] /\ InRange(s, raw))
    <2>1. Fits(s)
      BY <1>1, <1>4 DEF Followable
    <2>2. signal_vector'[s] = signal_vector[s]
      BY <1>2, <1>4 DEF Decoded
    <2>3. QED  BY <1>2, <2>1, <2>2 DEF Fits
  <1>5. QED  BY <1>3, <1>4

LEMMA NextEncodePath ==
    ASSUME PlainFrames, NoCollision, EncodersFollowed
    PROVE  TypeOK /\ TypeOK' /\ EchoInv /\ EncodePathInv /\ [Next]_vars
               => EncodePathInv'
  <1> SUFFICES ASSUME TypeOK, TypeOK', EchoInv, EncodePathInv, [Next]_vars
               PROVE  EncodePathInv'
    OBVIOUS
  <1>1. CASE Exchange \/ RxSignals \/ DecodeFrame \/ DecodeDone
             \/ ApplyDecode \/ MarshalToSignals \/ BeginTicks \/ Tick
             \/ TicksDone
    BY <1>1 DEF Exchange, RxSignals, DecodeFrame, DecodeDone, ApplyDecode,
          MarshalToSignals, BeginTicks, Tick, TicksDone, EncodePathInv
  <1>2. CASE MarshalToMessages
    <2>1. pc' = "pack" /\ \A s \in Sig : Fits(s)'
      BY <1>2, MarshalFits DEF MarshalToMessages
    <2>2. QED  BY <2>1 DEF EncodePathInv
  <1>3. CASE Pack
    <2>1. \A m \in Msg : payload'[m] = buffer'[m]
      BY <1>3, PackedPlain DEF Pack, TypeOK
    <2>2. \A m \in Msg : Event(m)' => buffer_checksum'[m] = Hash(buffer'[m])
      BY <1>3 DEF Pack, Resummed, Event
    <2>3. \A s \in Sig : Fits(s)'
      BY <1>3 DEF Pack, EncodePathInv, Fits
    <2>4. QED  BY <1>3, <2>1, <2>2, <2>3 DEF Pack, EncodePathInv
  <1>4. CASE ApplyEncode
    <2>1. pc = "apply_encode" /\ pc' = "encode"
      BY <1>4 DEF ApplyEncode
    <2>2. ASSUME NEW m \in Msg, Event(m)'
          PROVE  buffer_checksum'[m] = Hash(buffer'[m])
      <3>1. buffer_checksum[m] = Hash(buffer[m])
        BY <2>1, <2>2 DEF EncodePathInv, Event
      <3>2. QED  BY <1>4, <3>1 DEF ApplyEncode, Resummed
    <2>3. ASSUME NEW m \in Msg, needs_tx'[m]
          PROVE  payload'[m] = buffer'[m]
      <3>1. Sendable(m) /\ payload[m] = buffer[m]
        BY <1>4, <2>1, <2>3 DEF ApplyEncode, EncodePathInv
      <3>2. /\ payload'[m] = Encoded(m, payload[m])
            /\ payload[m] \in Content /\ payload'[m] \in Content
        BY <1>4, <3>1 DEF ApplyEncode, TypeOK
      <3>3. CASE Altered(m)
        BY <1>4, <3>2, <3>3, PackedPlain DEF ApplyEncode, TypeOK
      <3>4. CASE ~Altered(m)
        <4>1. payload'[m] = payload[m]
          BY <3>1, <3>2, <3>4 DEF Altered, NoCollision
        <4>2. QED  BY <1>4, <3>1, <3>4, <4>1 DEF ApplyEncode
      <3>5. QED  BY <3>3, <3>4
    <2>4. QED  BY <1>4, <2>1, <2>2, <2>3, EncodeFits DEF EncodePathInv
  <1>5. CASE EncodeToBus
    <2>1. pc = "encode" /\ pc' = "update"
      BY <1>5 DEF EncodeToBus
    <2>2. UNCHANGED <<buffer, buffer_checksum, signal_vector, update_signals>>
      BY <1>5 DEF EncodeToBus
    <2>3. ASSUME NEW m \in Msg, OnBus(m)' PROVE bus'[m] = buffer'[m]
      <3>1. needs_tx[m]
        BY <1>5, <2>3 DEF EncodeToBus, OnBus
      <3>2. QED  BY <1>5, <2>1, <2>2, <3>1 DEF EncodeToBus, EncodePathInv
    <2>4. \A m \in Msg : Event(m)' => buffer_checksum'[m] = Hash(buffer'[m])
      BY <2>1, <2>2 DEF EncodePathInv, Event
    <2>5. \A s \in Sig : Followable(s)'
      BY <2>1, <2>2 DEF EncodePathInv, Followable, Fits
    <2>6. QED  BY <2>1, <2>3, <2>4, <2>5 DEF EncodePathInv
  <1>6. CASE UpdateSignals
    <2>1. pc = "update" /\ pc' = "tx_signals"
      BY <1>6 DEF UpdateSignals
    <2>2. UNCHANGED <<buffer, buffer_checksum, bus, tx>>
      BY <1>6 DEF UpdateSignals
    <2>3. \A m \in Msg : Event(m)' => buffer_checksum'[m] = Hash(buffer'[m])
      BY <2>1, <2>2 DEF EncodePathInv, Event
    <2>4. \A m \in Msg : OnBus(m)' => bus'[m] = buffer'[m]
      BY <2>1, <2>2 DEF EncodePathInv, OnBus
    <2>5. \A s \in Sig : Fits(s)'
      BY <1>6, UpdateFits
    <2>6. QED  BY <2>1, <2>3, <2>4, <2>5 DEF EncodePathInv
  <1>7. CASE TxSignals
    BY <1>7 DEF TxSignals, EncodePathInv
  <1>8. CASE UNCHANGED vars
    BY <1>8 DEF vars, EncodePathInv, Followable, Fits, Event, OnBus
  <1>9. QED
    BY <1>1, <1>2, <1>3, <1>4, <1>5, <1>6, <1>7, <1>8 DEF Next, model_step

(* When model_step ends, node and bus agree. *)
LEMMA TxAgrees ==
    ASSUME PlainFrames, TypeOK, FlagInv, SumInv, EncodePathInv, TxSignals
    PROVE  BusAgrees'
  <1> SUFFICES ASSUME NEW s \in Sig,
                      \/ OnBus(SigMsg[s])
                      \/ Event(SigMsg[s]) /\ SigMsg[s] \notin unsent
               PROVE  Agrees(s)
    BY DEF TxSignals, BusAgrees, OnBus, Event, Agrees, Outgoing
  <1> DEFINE m == SigMsg[s]
  <1>1. pc = "tx_signals" /\ m \in Msg /\ buffer[m] \in Content
    BY NetworkAssumption DEF TxSignals, TypeOK
  <1>2. CASE OnBus(m)
    <2>1. bus[m] = buffer[m]
      BY <1>1, <1>2 DEF EncodePathInv
    <2>2. QED  BY <1>1, <2>1, PlainOutgoing DEF EncodePathInv, Fits, Agrees
  <1>3. CASE Event(m) /\ m \notin unsent
    <2>1. ~needs_tx[m] /\ buffer_checksum[m] = Hash(buffer[m])
      BY <1>1, <1>3 DEF FlagInv, EndPhase, EncodePathInv
    <2>2. bus[m] = buffer[m]
      BY <1>1, <1>3, <2>1 DEF SumInv
    <2>3. QED  BY <1>1, <2>2, PlainOutgoing DEF EncodePathInv, Fits, Agrees
  <1>4. QED  BY <1>2, <1>3

LEMMA InitAgrees ==
    ASSUME PlainFrames
    PROVE  Init => BusAgrees
  <1> SUFFICES ASSUME Init, NEW s \in Sig PROVE Agrees(s)
    BY DEF BusAgrees
  <1>1. SigMsg[s] \in Msg /\ InitBuffer \in [Msg -> Content]
    BY InitBufferType, NetworkAssumption
  <1>2. bus[SigMsg[s]] = InitBuffer[SigMsg[s]]
    BY <1>1, PackedPlain DEF Init
  <1>3. /\ InitVector \in [Sig -> Phys]
        /\ [m \in Msg |-> [f \in Field |-> 0]] \in [Msg -> Content]
    BY NetworkAssumption DEF InitVector, Content
  <1>4. InRange(s, Enc(s, Outgoing(s, InitVector))) =>
            InitBuffer[SigMsg[s]][SigField[s]]
                = Enc(s, Outgoing(s, InitVector))
    BY <1>3, MarshalledMember DEF InitBuffer
  <1>5. QED  BY <1>2, <1>4 DEF Init, Agrees

LEMMA NextAgrees ==
    ASSUME PlainFrames
    PROVE  TypeOK /\ FlagInv /\ SumInv /\ EncodePathInv /\ BusAgrees
               /\ [Next]_vars => BusAgrees'
  <1> SUFFICES ASSUME TypeOK, FlagInv, SumInv, EncodePathInv, BusAgrees,
                      [Next]_vars
               PROVE  BusAgrees'
    OBVIOUS
  <1>1. CASE TxSignals
    BY <1>1, TxAgrees
  <1>2. CASE Exchange \/ RxSignals \/ DecodeFrame \/ DecodeDone
             \/ ApplyDecode \/ MarshalToSignals \/ BeginTicks \/ Tick
             \/ TicksDone
    BY <1>2 DEF Exchange, RxSignals, DecodeFrame, DecodeDone, ApplyDecode,
          MarshalToSignals, BeginTicks, Tick, TicksDone, BusAgrees
  <1>3. CASE MarshalToMessages \/ Pack \/ ApplyEncode \/ EncodeToBus
             \/ UpdateSignals
    BY <1>3 DEF MarshalToMessages, Pack, ApplyEncode, EncodeToBus,
          UpdateSignals, BusAgrees
  <1>4. CASE UNCHANGED vars
    BY <1>4 DEF vars, BusAgrees, OnBus, Event, Agrees, Outgoing
  <1>5. QED  BY <1>1, <1>2, <1>3, <1>4 DEF Next, model_step

(* Between two steps node and bus hold the same value of every event       *)
(* message and of every cyclic one just sent, whatever frames arrive,      *)
(* whatever the other models and the message functions change and however  *)
(* the network is switched off: for every network without multiplexed      *)
(* messages whose checksums do not collide and whose signals can follow    *)
(* the encode functions.  A codec may lose a part of other values.         *)
THEOREM NodeAgreesWithBus ==
    ASSUME PlainFrames, NoCollision, EncodersFollowed
    PROVE  Spec => []BusAgrees
  <1> DEFINE IInv == EchoInv /\ FlagInv /\ SumInv /\ EncodePathInv /\ BusAgrees
  <1>1. Init => IInv
    <2>1. Init => EncodePathInv
      BY DEF Init, EncodePathInv
    <2>2. QED  BY <2>1, InitEcho, InitFlag, InitSum, InitAgrees
  <1>2. SignalsCarried
    BY NetworkAssumption DEF PlainFrames, SignalsCarried
  <1>3. TypeOK /\ TypeOK' /\ IInv /\ [Next]_vars => IInv'
    BY <1>2, NextEcho, NextFlag, NextSum, NextEncodePath, NextAgrees
  <1>4. QED
    BY <1>1, <1>3, NetworkTypeCorrect, PTL DEF Spec

-----------------------------------------------------------------------------
(* Coming to rest *)

(* What the description says: a frame id belongs to one message, no frame  *)
(* names other messages and no function changes or rejects a payload.      *)
DistinctFrames ==
    /\ MuxMarked = {}
    /\ \A m \in Msg : FrameId[m] # 0
    /\ \A k, m \in Msg : FrameId[k] = FrameId[m] => k = m
NoFunctions ==
    \A m \in Msg, p \in Content : Encoded(m, p) = p /\ Accepted(m, p)

(* Decoding and encoding a value again and again stays in range and comes  *)
(* to a value that survives after at most k losses.  A codec loses         *)
(* something at most n times: the codecs of stub.c that truncate a         *)
(* quotient lose up to 3 times with the scale 0.01 and once with 0.1.      *)
Reencoded(s, r) == Enc(s, Dec(s, r))
Settles(k, s, r) ==
    \E chain \in [0 .. k -> Raw] :
        /\ chain[0] = r
        /\ \A i \in 0 .. k : InRange(s, chain[i])
        /\ \A i \in 1 .. k : chain[i] = Reencoded(s, chain[i - 1])
        /\ Survives(s, chain[k])
CodecSettles(n) ==
    \A s \in Sig, r \in Raw : InRange(s, r) => Settles(n, s, r)
StartsInRange ==
    \A s \in Sig : InRange(s, 0) \/ InRange(s, Enc(s, InitValue[s]))

Valid(m, p) == \A s \in Sig : SigMsg[s] = m => InRange(s, p[SigField[s]])
Settled(k, m, p) ==
    \A s \in Sig : SigMsg[s] = m => Settles(k, s, p[SigField[s]])
(* L of the n losses are behind the values of m. *)
Settling(n, L, m, p) == L <= n /\ Settled(n - L, m, p)
FitsAll(m) == \A s \in Sig : SigMsg[s] = m => Fits(s)
Summed(m) == buffer_checksum[m] = Hash(buffer[m])

(* What the simulation delivers when no other model has changed a signal   *)
(* in L exchanges: at most one frame of a message.                         *)
FrameInv(n, L) ==
    /\ \A i \in DOMAIN rx :
           /\ ~rx[i].short
           /\ \E m \in Msg :
                 /\ FrameId[m] = rx[i].id /\ Valid(m, rx[i].payload)
                 /\ L >= 1 /\ Event(m)
                        => Settling(n, L - 1, m, rx[i].payload)
    /\ \A i, j \in DOMAIN rx : rx[i].id = rx[j].id => i = j
    /\ pc \notin {"rx_signals", "decode"} => rx = <<>>
    /\ pc = "decode"
           => \A i \in DOMAIN rx, m \in Msg :
                  FrameId[m] = rx[i].id => ~update_signals[m]

(* Nothing out of range is received, held or sent. *)
RangeInv ==
    /\ \A m \in Msg : Valid(m, buffer[m]) /\ Valid(m, payload[m])
    /\ \A m \in DOMAIN tx : m \in Msg /\ Valid(m, tx[m])
    /\ pc \in {"encode", "update"} => \A m \in Msg : ~update_signals[m]

(* What a node answers has one loss less ahead than what it received: it   *)
(* answers at most n exchanges without a change.                           *)
RestInv(n, L) ==
    /\ pc = "idle" \/ (pc = "rx_signals" /\ L >= 1)
           => /\ \A m \in Msg : Event(m) => Summed(m) /\ FitsAll(m)
              /\ sv = [v \in DOMAIN SrMap |-> signal_vector[SrMap[v]]]
    /\ pc \in {"decode", "apply_decode", "signals"} /\ L >= 1
           => \A m \in Msg : Event(m) =>
                  /\ Summed(m)
                  /\ IF update_signals[m]
                     THEN Settling(n, L - 1, m, buffer[m])
                     ELSE FitsAll(m)
    /\ pc \in {"begin_ticks", "tick", "signals_to_messages"} /\ L >= 1
           => \A m \in Msg : Event(m) =>
                  /\ Summed(m)
                  /\ \/ FitsAll(m)
                     \/ Followed(m) /\ Settling(n, L - 1, m, buffer[m])
    /\ pc = "pack" /\ L >= 1
           => \A m \in Msg :
                  Event(m) /\ Changed(m) => Settling(n, L, m, buffer[m])
    /\ pc \in {"apply_encode", "encode"} /\ L >= 1
           => \A m \in Msg :
                  Event(m) /\ needs_tx[m] => Settling(n, L, m, payload[m])
    /\ pc \in {"update", "tx_signals", "idle"} /\ L >= 1
           => \A m \in Msg :
                  Event(m) /\ OnBus(m) => Settling(n, L, m, tx[m])

(* The last frame of m on the bus, once this node has read all of its      *)
(* frames, and what this node sent in its last step.                       *)
Arriving(m) == {i \in DOMAIN rx : rx[i].id = FrameId[m]}
LastFrame(m) ==
    IF Arriving(m) = {} THEN bus[m]
                        ELSE rx[CHOOSE i \in Arriving(m) : TRUE].payload
Sent == IF pc \in {"update", "tx_signals", "idle"} THEN DOMAIN tx ELSE {}
SentInv == \A m \in Sent : bus[m] = tx[m]

-----------------------------------------------------------------------------
(* The message of a frame is the only one the frame is processed for. *)
LEMMA FrameMessage ==
    ASSUME DistinctFrames, NEW m \in Msg, NEW p
    PROVE  First(Matching(FrameId[m])) = m /\ Processed(m, p) = {m}
               /\ VectorAfter(m, p) = signal_vector
  <1>1. Matching(FrameId[m]) = {m}
    BY NetworkAssumption DEF DistinctFrames, Matching, Msg
  <1>2. First({m}) = m
    BY NetworkAssumption DEF First, Msg
  <1>3. ~IsContainer(m)
    BY DEF DistinctFrames, IsContainer, MuxSignals
  <1>4. QED  BY <1>1, <1>2, <1>3 DEF Processed, VectorAfter

(* What a frame does to a node, for a frame as FrameInv says. *)
LEMMA FrameReceived ==
    ASSUME PlainFrames, DistinctFrames, TypeOK, NEW n \in Nat,
           NEW L \in Nat, FrameInv(n, L), DecodeFrame
    PROVE  \E m \in Msg, p \in Content :
              /\ 1 \in DOMAIN rx /\ FrameId[m] = rx[1].id
              /\ p = rx[1].payload
              /\ Valid(m, p)
              /\ L >= 1 /\ Event(m) => Settling(n, L - 1, m, p)
              /\ buffer' = [buffer EXCEPT ![m] = p]
              /\ bus' = [bus EXCEPT ![m] = p]
              /\ buffer_checksum' = [buffer_checksum EXCEPT ![m] = Hash(p)]
              /\ update_signals' =
                     [update_signals EXCEPT ![m] = Hash(p) # buffer_checksum[m]]
              /\ UNCHANGED signal_vector
  <1> DEFINE fr == Head(rx)
  <1>1. rx # <<>> /\ rx \in Seq(RxFrame)
    BY DEF DecodeFrame, TypeOK
  <1>2. 1 \in DOMAIN rx /\ fr = rx[1] /\ fr \in RxFrame
    BY <1>1
  <1>3. PICK m \in Msg : /\ FrameId[m] = fr.id /\ Valid(m, fr.payload)
                         /\ L >= 1 /\ Event(m)
                                => Settling(n, L - 1, m, fr.payload)
    BY <1>2 DEF FrameInv
  <1> DEFINE p == fr.payload
  <1>4. p \in Content
    BY <1>2, CodecAssumption
  <1>5. m \in Matching(fr.id)
    BY <1>3, NetworkAssumption DEF DistinctFrames, Matching, Msg
  <1>6. ~Dropped(fr)
    BY <1>2, <1>5 DEF FrameInv, Dropped
  <1> HIDE DEF fr
  <1>7. /\ First(Matching(fr.id)) = m /\ Processed(m, p) = {m}
        /\ VectorAfter(m, p) = signal_vector
    BY <1>3, FrameMessage
  <1>8. signal_vector' = signal_vector /\ Receive({m}, p)
    BY <1>6, <1>7 DEF DecodeFrame, fr
  <1>9. Unpacked(m, buffer[m], p) = p /\ Packed(m, p) = p
    BY <1>4, PackedPlain DEF TypeOK
  <1>10. buffer' = [buffer EXCEPT ![m] = p]
    BY <1>8, <1>9 DEF Receive, TypeOK
  <1>11. buffer'[m] = p
    BY <1>10 DEF TypeOK
  <1>12. bus' = [bus EXCEPT ![m] = p]
    BY <1>8, <1>9, <1>11 DEF Receive, TypeOK
  <1>13. buffer_checksum' = [buffer_checksum EXCEPT ![m] = Hash(p)]
    BY <1>8, <1>11 DEF Receive, Resummed, TypeOK
  <1>14. update_signals' =
             [update_signals EXCEPT ![m] = Hash(p) # buffer_checksum[m]]
    BY <1>8, <1>11 DEF Receive, TypeOK
  <1>15. QED
    BY <1>2, <1>3, <1>4, <1>8, <1>10, <1>12, <1>13, <1>14 DEF fr

(* The frames that are left are still one of each message. *)
LEMMA StepFrame ==
    ASSUME PlainFrames, DistinctFrames, NEW n \in Nat, NEW L \in Nat,
           TypeOK, EchoInv, FrameInv(n, L), model_step \/ UNCHANGED vars
    PROVE  FrameInv(n, L)'
  <1>1. CASE RxSignals
    BY <1>1 DEF RxSignals, FrameInv, EchoInv, Event, Valid, Settled
  <1>2. CASE DecodeFrame
    <2>1. PICK m \in Msg, p \in Content :
              /\ 1 \in DOMAIN rx /\ FrameId[m] = rx[1].id
              /\ update_signals' =
                     [update_signals EXCEPT ![m] = Hash(p) # buffer_checksum[m]]
      BY <1>2, FrameReceived
    <2>2. rx' = Tail(rx) /\ rx # <<>> /\ rx \in Seq(RxFrame)
          /\ pc = "decode" /\ pc' = "decode"
      BY <1>2 DEF DecodeFrame, TypeOK
    <2>3. ASSUME NEW i \in DOMAIN rx'
          PROVE  i + 1 \in DOMAIN rx /\ rx'[i] = rx[i + 1] /\ i \in Nat
                     /\ i + 1 # 1
      BY <2>2
    <2>4. ASSUME NEW i \in DOMAIN rx', NEW k \in Msg, FrameId[k] = rx'[i].id
          PROVE  ~update_signals'[k]
      <3>1. FrameId[k] = rx[i + 1].id /\ i + 1 \in DOMAIN rx
        BY <2>3, <2>4
      <3>2. ~update_signals[k]
        BY <2>2, <3>1 DEF FrameInv
      <3>3. rx[1].id # rx[i + 1].id
        BY <2>1, <2>3 DEF FrameInv
      <3>4. k # m
        BY <2>1, <3>1, <3>3
      <3>5. QED  BY <2>1, <3>2, <3>4 DEF TypeOK
    <2>5. ASSUME NEW i \in DOMAIN rx'
          PROVE  /\ ~rx'[i].short
                 /\ \E k \in Msg :
                       /\ FrameId[k] = rx'[i].id /\ Valid(k, rx'[i].payload)
                       /\ L >= 1 /\ Event(k)
                              => Settling(n, L - 1, k, rx'[i].payload)
      BY <2>3 DEF FrameInv
    <2>6. ASSUME NEW i \in DOMAIN rx', NEW j \in DOMAIN rx',
                 rx'[i].id = rx'[j].id
          PROVE  i = j
      <3>1. i + 1 = j + 1
        BY <2>3, <2>6 DEF FrameInv
      <3>2. QED  BY <2>3, <3>1
    <2>7. QED
      BY <2>2, <2>4, <2>5, <2>6 DEF FrameInv, Valid, Settling, Settled, Event
  <1>3. CASE DecodeDone
    BY <1>3 DEF DecodeDone, FrameInv, Valid, Settling, Settled, Event
  <1>4. CASE ApplyDecode \/ MarshalToSignals \/ BeginTicks \/ Tick
             \/ TicksDone \/ MarshalToMessages \/ Pack \/ ApplyEncode
             \/ EncodeToBus \/ UpdateSignals \/ TxSignals
    <2>1. rx' = rx /\ rx = <<>> /\ pc' \notin {"rx_signals", "decode"}
      BY <1>4 DEF ApplyDecode, MarshalToSignals, BeginTicks, Tick, TicksDone,
            MarshalToMessages, Pack, ApplyEncode, EncodeToBus, UpdateSignals,
            TxSignals, FrameInv
    <2>2. QED  BY <2>1 DEF FrameInv
  <1>5. CASE UNCHANGED vars
    BY <1>5 DEF vars, FrameInv, Valid, Settling, Settled, Event
  <1>6. QED  BY <1>1, <1>2, <1>3, <1>4, <1>5 DEF model_step

(* What marshalling makes of a message whose members are in range. *)
LEMMA MarshalValid ==
    ASSUME NEW vector \in [Sig -> Phys], NEW buf \in [Msg -> Content],
           NEW m \in Msg, Valid(m, buf[m])
    PROVE  Valid(m, MarshalledBuffer(vector, buf)[m])
  <1> SUFFICES ASSUME NEW s \in Sig, SigMsg[s] = m
               PROVE  InRange(s, MarshalledBuffer(vector, buf)[m][SigField[s]])
    BY DEF Valid
  <1>1. CASE InRange(s, Enc(s, Outgoing(s, vector)))
    BY <1>1, MarshalledMember
  <1>2. CASE ~InRange(s, Enc(s, Outgoing(s, vector)))
    <2>1. MarshalledBuffer(vector, buf)[m][SigField[s]] = buf[m][SigField[s]]
      BY <1>2, MarshalledMissing
    <2>2. QED  BY <2>1 DEF Valid
  <1>3. QED  BY <1>1, <1>2

LEMMA InitRange ==
    ASSUME PlainFrames, StartsInRange
    PROVE  Init => RangeInv
  <1> SUFFICES ASSUME Init, NEW m \in Msg
               PROVE  Valid(m, buffer[m]) /\ Valid(m, payload[m])
    BY DEF Init, RangeInv
  <1> DEFINE zero == [k \in Msg |-> [f \in Field |-> 0]]
  <1>1. InitVector \in [Sig -> Phys] /\ zero \in [Msg -> Content]
    BY NetworkAssumption DEF InitVector, Content
  <1>2. InitBuffer \in [Msg -> Content]
    BY InitBufferType
  <1>3. ASSUME NEW s \in Sig, SigMsg[s] = m
        PROVE  InRange(s, InitBuffer[m][SigField[s]])
    <2> DEFINE raw == Enc(s, Outgoing(s, InitVector))
    <2>1. raw = Enc(s, InitValue[s])
      BY PlainOutgoing DEF InitVector
    <2>2. CASE InRange(s, raw)
      BY <1>1, <1>3, <2>2, MarshalledMember DEF InitBuffer
    <2>3. CASE ~InRange(s, raw)
      <3>1. InitBuffer[m][SigField[s]] = zero[m][SigField[s]]
        BY <1>1, <1>3, <2>3, MarshalledMissing DEF InitBuffer
      <3>2. zero[m][SigField[s]] = 0
        BY NetworkAssumption
      <3>3. QED  BY <2>1, <2>3, <3>1, <3>2 DEF StartsInRange
    <2>4. QED  BY <2>2, <2>3
  <1>4. Valid(m, InitBuffer[m])
    BY <1>3 DEF Valid
  <1>5. QED  BY <1>2, <1>4, PackedPlain DEF Init

(* Without message functions applying them only drops flags. *)
LEMMA NoneAltered ==
    ASSUME NoFunctions, TypeOK, ApplyEncode
    PROVE  /\ UNCHANGED <<buffer, payload, buffer_checksum, update_signals>>
           /\ \A m \in Msg : needs_tx'[m] => needs_tx[m]
  <1>1. \A m \in Msg : payload[m] \in Content
    BY DEF TypeOK
  <1>2. \A m \in Msg : Encoded(m, payload[m]) = payload[m]
    BY <1>1 DEF NoFunctions
  <1>3. \A m \in Msg : ~Altered(m)
    BY <1>2 DEF Altered
  <1>4. payload' = payload
    BY <1>2 DEF ApplyEncode, TypeOK
  <1>5. buffer' = buffer
    BY <1>3 DEF ApplyEncode, TypeOK
  <1>6. update_signals' = update_signals
    <2>1. \A m \in Msg : (Altered(m) \/ update_signals[m]) = update_signals[m]
      BY <1>3 DEF TypeOK
    <2>2. QED  BY <2>1, Zenon DEF ApplyEncode, TypeOK
  <1>7. buffer_checksum' = buffer_checksum
    BY <1>3 DEF ApplyEncode, Resummed, TypeOK
  <1>8. QED  BY <1>4, <1>5, <1>6, <1>7 DEF ApplyEncode, Sendable

LEMMA NextRange ==
    ASSUME PlainFrames, DistinctFrames, NoFunctions, NEW n \in Nat,
           NEW L \in Nat, TypeOK, EchoInv, FrameInv(n, L), RangeInv, [Next]_vars
    PROVE  RangeInv'
  <1>1. CASE Exchange \/ RxSignals \/ DecodeDone \/ ApplyDecode
             \/ MarshalToSignals \/ BeginTicks \/ Tick \/ TicksDone
             \/ UpdateSignals \/ TxSignals
    <2>1. /\ UNCHANGED <<buffer, payload, tx>>
          /\ pc' \notin {"encode", "update"}
      BY <1>1 DEF Exchange, RxSignals, DecodeDone, ApplyDecode,
            MarshalToSignals, BeginTicks, Tick, TicksDone, UpdateSignals,
            TxSignals
    <2>2. QED  BY <2>1 DEF RangeInv, Valid
  <1>2. CASE DecodeFrame
    <2>1. PICK m \in Msg, p \in Content :
              Valid(m, p) /\ buffer' = [buffer EXCEPT ![m] = p]
      BY <1>2, FrameReceived
    <2>2. ASSUME NEW k \in Msg PROVE Valid(k, buffer'[k])
      <3>1. buffer'[k] = IF k = m THEN p ELSE buffer[k]
        BY <2>1 DEF TypeOK
      <3>2. QED  BY <2>1, <3>1 DEF RangeInv
    <2>3. UNCHANGED <<payload, tx>> /\ pc' = "decode"
      BY <1>2 DEF DecodeFrame
    <2>4. QED  BY <2>2, <2>3 DEF RangeInv, Valid
  <1>3. CASE MarshalToMessages
    <2>1. \A m \in Msg : Valid(m, buffer'[m])
      BY <1>3, MarshalValid DEF MarshalToMessages, RangeInv, TypeOK
    <2>2. UNCHANGED <<payload, tx>> /\ pc' = "pack"
      BY <1>3 DEF MarshalToMessages
    <2>3. QED  BY <2>1, <2>2 DEF RangeInv, Valid
  <1>4. CASE Pack
    <2>1. \A m \in Msg : payload'[m] = buffer[m]
      BY <1>4, PackedPlain DEF Pack, TypeOK
    <2>2. UNCHANGED <<buffer, tx>> /\ pc' = "apply_encode"
      BY <1>4 DEF Pack
    <2>3. QED  BY <2>1, <2>2 DEF RangeInv, Valid
  <1>5. CASE ApplyEncode
    <2>1. UNCHANGED <<buffer, payload, update_signals>>
      BY <1>5, NoneAltered
    <2>2. tx' = tx /\ \A m \in Msg : ~update_signals[m]
      BY <1>5 DEF ApplyEncode, EchoInv
    <2>3. QED  BY <2>1, <2>2 DEF RangeInv, Valid
  <1>6. CASE EncodeToBus
    <2>1. \A m \in DOMAIN tx' : m \in Msg /\ tx'[m] = payload[m]
      BY <1>6 DEF EncodeToBus
    <2>2. UNCHANGED <<buffer, payload, update_signals>> /\ pc = "encode"
      BY <1>6 DEF EncodeToBus
    <2>3. QED  BY <2>1, <2>2 DEF RangeInv, Valid
  <1>7. CASE UNCHANGED vars
    BY <1>7 DEF vars, RangeInv, Valid
  <1>8. QED
    BY <1>1, <1>2, <1>3, <1>4, <1>5, <1>6, <1>7 DEF Next, model_step

LEMMA InitSent == Init => SentInv
  BY DEF Init, SentInv, Sent

LEMMA NextSent == SentInv /\ [Next]_vars => SentInv'
  <1> SUFFICES ASSUME SentInv, [Next]_vars PROVE SentInv'
    OBVIOUS
  <1>1. CASE Exchange \/ RxSignals \/ DecodeFrame \/ DecodeDone
             \/ ApplyDecode \/ MarshalToSignals \/ BeginTicks \/ Tick
             \/ TicksDone \/ MarshalToMessages \/ Pack \/ ApplyEncode
    <2>1. pc' \notin {"update", "tx_signals", "idle"}
      BY <1>1 DEF Exchange, RxSignals, DecodeFrame, DecodeDone, ApplyDecode,
            MarshalToSignals, BeginTicks, Tick, TicksDone, MarshalToMessages,
            Pack, ApplyEncode
    <2>2. QED  BY <2>1 DEF SentInv, Sent
  <1>2. CASE EncodeToBus
    BY <1>2 DEF EncodeToBus, SentInv, Sent
  <1>3. CASE UpdateSignals \/ TxSignals
    BY <1>3 DEF UpdateSignals, TxSignals, SentInv, Sent
  <1>4. CASE UNCHANGED vars
    BY <1>4 DEF vars, SentInv, Sent
  <1>5. QED  BY <1>1, <1>2, <1>3, <1>4 DEF Next, model_step

(* A node that reads its frames and sends nothing else keeps what is last  *)
(* on the bus.                                                             *)
LEMMA StepLast ==
    ASSUME PlainFrames, DistinctFrames, NEW n \in Nat, NEW L \in Nat,
           TypeOK, FrameInv(n, L),
           model_step \/ UNCHANGED vars, NEW m \in Msg, m \notin Sent'
    PROVE  LastFrame(m)' = LastFrame(m) /\ m \notin Sent
  <1>1. CASE DecodeFrame
    <2>1. PICK k \in Msg, p \in Content :
              /\ 1 \in DOMAIN rx /\ FrameId[k] = rx[1].id
              /\ p = rx[1].payload /\ bus' = [bus EXCEPT ![k] = p]
      BY <1>1, FrameReceived
    <2>2. rx' = Tail(rx) /\ rx # <<>> /\ rx \in Seq(RxFrame)
          /\ pc = "decode" /\ pc' = "decode"
      BY <1>1 DEF DecodeFrame, TypeOK
    <2>3. m \notin Sent
      BY <2>2 DEF Sent
    <2>4. /\ \A i \in DOMAIN rx' : i + 1 \in DOMAIN rx /\ rx'[i] = rx[i + 1]
          /\ \A i \in DOMAIN rx : i = 1 \/ (i - 1 \in DOMAIN rx' /\ i \in Int)
          /\ \A i \in DOMAIN rx' : i \in Nat \ {0}
      BY <2>2
    <2>5. CASE m = k
      <3>1. Arriving(m) = {1}
        BY <2>1, <2>5 DEF Arriving, FrameInv
      <3>2. LastFrame(m) = p
        BY <2>1, <3>1 DEF LastFrame
      <3>3. Arriving(m)' = {}
        <4>1. ASSUME NEW i \in DOMAIN rx' PROVE rx'[i].id # FrameId[m]
          <5>1. i + 1 \in DOMAIN rx /\ rx'[i] = rx[i + 1] /\ i + 1 # 1
            BY <2>4
          <5>2. QED  BY <2>1, <2>5, <5>1 DEF FrameInv
        <4>2. QED  BY <4>1 DEF Arriving
      <3>4. LastFrame(m)' = bus'[m]
        BY <3>3 DEF LastFrame
      <3>5. QED  BY <2>1, <2>3, <2>5, <3>2, <3>4 DEF TypeOK
    <2>6. CASE m # k
      <3>1. bus'[m] = bus[m]
        BY <2>1, <2>6 DEF TypeOK
      <3>2. FrameId[m] # rx[1].id
        BY <2>1, <2>6 DEF DistinctFrames
      <3>3. ASSUME Arriving(m) = {} PROVE Arriving(m)' = {}
        BY <2>4, <3>3 DEF Arriving
      <3>4. ASSUME Arriving(m) # {}
            PROVE  LastFrame(m)' = LastFrame(m)
        <4>1. PICK i \in DOMAIN rx : rx[i].id = FrameId[m]
          BY <3>4 DEF Arriving
        <4>2. Arriving(m) = {i}
          BY <4>1 DEF Arriving, FrameInv
        <4>3. i - 1 \in DOMAIN rx' /\ i \in Int
          BY <2>4, <3>2, <4>1
        <4>4. rx'[i - 1] = rx[i]
          BY <2>4, <4>3
        <4>5. ASSUME NEW j \in Arriving(m)' PROVE j = i - 1
          <5>1. /\ j \in DOMAIN rx' /\ rx'[j].id = FrameId[m]
            BY DEF Arriving
          <5>2. j + 1 \in Arriving(m) /\ j \in Nat
            BY <2>4, <5>1 DEF Arriving
          <5>3. QED  BY <4>2, <5>2
        <4>6. Arriving(m)' = {i - 1}
          BY <4>1, <4>3, <4>4, <4>5 DEF Arriving
        <4>7. QED  BY <4>2, <4>4, <4>6 DEF LastFrame
      <3>5. QED  BY <2>3, <3>1, <3>3, <3>4 DEF LastFrame
    <2>7. QED  BY <2>5, <2>6
  <1>2. CASE EncodeToBus
    <2>1. m \notin DOMAIN tx'
      BY <1>2 DEF EncodeToBus, Sent
    <2>2. bus'[m] = bus[m] /\ rx' = rx /\ pc = "encode"
      BY <1>2, <2>1 DEF EncodeToBus
    <2>3. QED  BY <2>2 DEF LastFrame, Arriving, Sent
  <1>3. CASE \/ RxSignals \/ DecodeDone \/ ApplyDecode \/ MarshalToSignals
             \/ BeginTicks \/ Tick \/ TicksDone \/ MarshalToMessages
             \/ Pack \/ ApplyEncode \/ UpdateSignals \/ TxSignals
             \/ UNCHANGED vars
    <2>1. UNCHANGED <<rx, bus>> /\ Sent' = Sent
      BY <1>3 DEF vars, RxSignals, DecodeDone, ApplyDecode, MarshalToSignals,
            BeginTicks, Tick, TicksDone, MarshalToMessages, Pack, ApplyEncode,
            UpdateSignals, TxSignals, Sent
    <2>2. QED  BY <2>1 DEF LastFrame, Arriving
  <1>4. QED  BY <1>1, <1>2, <1>3 DEF model_step

-----------------------------------------------------------------------------
LEMMA InitRest ==
    ASSUME PlainFrames, NEW n \in Nat
    PROVE  Init => RestInv(n, 0)
  <1> SUFFICES ASSUME Init PROVE RestInv(n, 0)
    OBVIOUS
  <1>1. ASSUME NEW m \in Msg, Event(m) PROVE Summed(m) /\ FitsAll(m)
    <2>1. Summed(m)
      BY <1>1 DEF Init, Summed
    <2>2. ASSUME NEW s \in Sig, SigMsg[s] = m PROVE Fits(s)
      <3>1. /\ InitVector \in [Sig -> Phys]
            /\ [k \in Msg |-> [f \in Field |-> 0]] \in [Msg -> Content]
        BY NetworkAssumption DEF InitVector, Content
      <3>2. Outgoing(s, InitVector) = InitVector[s]
        BY PlainOutgoing
      <3>3. InRange(s, Enc(s, Outgoing(s, InitVector))) =>
                InitBuffer[SigMsg[s]][SigField[s]]
                    = Enc(s, Outgoing(s, InitVector))
        BY <3>1, MarshalledMember DEF InitBuffer
      <3>4. QED  BY <3>2, <3>3 DEF Init, Fits
    <2>3. QED  BY <2>1, <2>2 DEF FitsAll
  <1>2. sv = [v \in DOMAIN SrMap |-> signal_vector[SrMap[v]]]
    <2>1. \A v \in DOMAIN SrMap : SrMap[v] \in Sig
      BY MapType
    <2>2. QED  BY <2>1 DEF Init, InitVector
  <1>3. QED  BY <1>1, <1>2 DEF Init, RestInv

(* Reading back the scalars that were written changes no signal.           *)
LEMMA RxKeepsSignals ==
    ASSUME TypeOK, RxSignals,
           sv = [v \in DOMAIN SrMap |-> signal_vector[SrMap[v]]]
    PROVE  signal_vector' = signal_vector
  <1>1. ASSUME NEW s \in Sig, NEW v \in DOMAIN SrMap, SrMap[v] = s
        PROVE  sv[SigName[s]] = signal_vector[s]
    <2>1. SigName[s] = v
      BY <1>1, MapType
    <2>2. QED  BY <1>1, <2>1
  <1>2. QED  BY <1>1 DEF RxSignals, TypeOK

(* Exchanges without a change of the scalars are counted by L.             *)
LEMMA ExchangeRest ==
    ASSUME NEW n \in Nat, NEW L \in Nat, RestInv(n, L), Exchange, sv' = sv
    PROVE  RestInv(n, L + 1)'
  <1>1. pc = "idle" /\ pc' = "rx_signals"
    BY DEF Exchange
  <1>2. UNCHANGED <<buffer, buffer_checksum, signal_vector>>
    BY DEF Exchange
  <1>3. QED
    BY <1>1, <1>2 DEF RestInv, Summed, FitsAll, Fits, Event

LEMMA ExchangeStarts ==
    ASSUME NEW n \in Nat
    PROVE  Exchange => RestInv(n, 0)'
  BY DEF Exchange, RestInv

(* A value settles in range, and what it is encoded to again has one loss  *)
(* less ahead.                                                             *)
LEMMA SettlesStep ==
    ASSUME NEW k \in Nat, NEW s \in Sig, NEW r, Settles(k, s, r)
    PROVE  /\ InRange(s, r)
           /\ k = 0 => Reencoded(s, r) = r
           /\ k > 0 => /\ InRange(s, Reencoded(s, r))
                       /\ Settles(k - 1, s, Reencoded(s, r))
  <1>1. PICK chain \in [0 .. k -> Raw] :
            /\ chain[0] = r
            /\ \A i \in 0 .. k : InRange(s, chain[i])
            /\ \A i \in 1 .. k : chain[i] = Reencoded(s, chain[i - 1])
            /\ Survives(s, chain[k])
    BY DEF Settles
  <1>2. InRange(s, r)
    BY <1>1
  <1>3. ASSUME k = 0 PROVE Reencoded(s, r) = r
    BY <1>1, <1>2, <1>3 DEF Survives, Reencoded
  <1>4. ASSUME k > 0
        PROVE  InRange(s, Reencoded(s, r)) /\ Settles(k - 1, s, Reencoded(s, r))
    <2> DEFINE rest == [i \in 0 .. k - 1 |-> chain[i + 1]]
    <2>1. chain[1] = Reencoded(s, r) /\ InRange(s, chain[1])
      BY <1>1, <1>4
    <2>2. rest \in [0 .. k - 1 -> Raw] /\ rest[0] = Reencoded(s, r)
      BY <1>4, <2>1
    <2>3. /\ \A i \in 0 .. k - 1 : InRange(s, rest[i])
          /\ \A i \in 1 .. k - 1 : rest[i] = Reencoded(s, rest[i - 1])
      BY <1>1
    <2>4. rest[k - 1] = chain[k]
      BY <1>4
    <2> HIDE DEF rest
    <2>5. QED  BY <1>1, <2>1, <2>2, <2>3, <2>4 DEF Settles
  <1>5. QED  BY <1>2, <1>3, <1>4

(* The answer to a received message has one loss less ahead, and a message *)
(* without a loss ahead is not answered.                                   *)
LEMMA AnswerSettling ==
    ASSUME PlainFrames, NEW n \in Nat, NEW L \in Nat, L >= 1, TypeOK,
           RangeInv, MarshalToMessages, NEW m \in Msg, Followed(m),
           Settling(n, L - 1, m, buffer[m]), buffer'[m] # buffer[m]
    PROVE  Settling(n, L, m, buffer'[m])
  <1> DEFINE k == n - (L - 1)
             r(s) == buffer[m][SigField[s]]
  <1>1. k \in Nat /\ Settled(k, m, buffer[m])
    BY DEF Settling
  <1>2. ASSUME NEW s \in Sig, SigMsg[s] = m
        PROVE  /\ r(s) \in Raw /\ InRange(s, r(s))
               /\ Settles(k, s, r(s))
               /\ Outgoing(s, signal_vector) = Dec(s, r(s))
    <2>1. r(s) \in Raw /\ InRange(s, r(s))
      BY <1>2, NetworkAssumption DEF RangeInv, Valid, TypeOK, Content
    <2>2. Outgoing(s, signal_vector) = Dec(s, r(s))
      BY <1>2, <2>1, PlainOutgoing DEF Followed
    <2>3. QED  BY <1>1, <1>2, <2>1, <2>2 DEF Settled
  <1> HIDE DEF k
  <1>3. k # 0
    <2> SUFFICES ASSUME k = 0 PROVE FALSE
      OBVIOUS
    <2>1. ASSUME NEW s \in Sig, SigMsg[s] = m
          PROVE  r(s) = Enc(s, Outgoing(s, signal_vector))
      BY <1>1, <1>2, <2>1, SettlesStep DEF Reencoded
    <2>2. buffer'[m] = buffer[m]
      BY <2>1, MarshalledAgain DEF MarshalToMessages, TypeOK
    <2>3. QED  BY <2>2
  <1>4. ASSUME NEW s \in Sig, SigMsg[s] = m
        PROVE  Settles(k - 1, s, buffer'[m][SigField[s]])
    <2>1. /\ InRange(s, Reencoded(s, r(s)))
          /\ Settles(k - 1, s, Reencoded(s, r(s)))
      BY <1>1, <1>2, <1>3, <1>4, SettlesStep
    <2>2. buffer'[m][SigField[s]] = Reencoded(s, r(s))
      BY <1>2, <1>4, <2>1, MarshalledMember
         DEF MarshalToMessages, TypeOK, Reencoded
    <2>3. QED  BY <2>1, <2>2
  <1>5. L <= n /\ n - L = k - 1
    BY <1>1, <1>3 DEF k
  <1>6. QED  BY <1>4, <1>5 DEF Settling, Settled

LEMMA MarshalKeepsFitting ==
    ASSUME PlainFrames, TypeOK, MarshalToMessages, NEW m \in Msg, FitsAll(m)
    PROVE  buffer'[m] = buffer[m]
  <1>1. ASSUME NEW s \in Sig, SigMsg[s] = m,
               InRange(s, Enc(s, Outgoing(s, signal_vector)))
        PROVE  buffer[m][SigField[s]] = Enc(s, Outgoing(s, signal_vector))
    BY <1>1, PlainOutgoing DEF FitsAll, Fits
  <1>2. QED  BY <1>1, MarshalledAgain DEF MarshalToMessages, TypeOK

(* A frame that brings nothing new is no update, any other one is.         *)
LEMMA FrameRest ==
    ASSUME PlainFrames, NoCollision, DistinctFrames, NEW n \in Nat,
           NEW L \in Nat, TypeOK, FrameInv(n, L), RestInv(n, L), L >= 1,
           DecodeFrame, NEW m \in Msg, Event(m)
    PROVE  /\ Summed(m)'
           /\ IF update_signals'[m] THEN Settling(n, L - 1, m, buffer'[m])
                                    ELSE FitsAll(m)'
  <1>1. PICK k \in Msg, p \in Content :
            /\ 1 \in DOMAIN rx /\ FrameId[k] = rx[1].id
            /\ L >= 1 /\ Event(k) => Settling(n, L - 1, k, p)
            /\ buffer' = [buffer EXCEPT ![k] = p]
            /\ buffer_checksum' = [buffer_checksum EXCEPT ![k] = Hash(p)]
            /\ update_signals' =
                   [update_signals EXCEPT ![k] = Hash(p) # buffer_checksum[k]]
            /\ signal_vector' = signal_vector
    BY FrameReceived
  <1>2. /\ Summed(m)
        /\ IF update_signals[m] THEN Settling(n, L - 1, m, buffer[m])
                                ELSE FitsAll(m)
    BY DEF DecodeFrame, RestInv
  <1>3. CASE m = k
    <2>1. /\ buffer'[m] = p /\ buffer_checksum'[m] = Hash(p)
          /\ update_signals'[m] = (Hash(p) # buffer_checksum[m])
      BY <1>1, <1>3 DEF TypeOK
    <2>2. ~update_signals[m]
      BY <1>1, <1>3 DEF DecodeFrame, FrameInv
    <2>3. ASSUME ~update_signals'[m] PROVE FitsAll(m)'
      <3>1. p = buffer[m]
        BY <1>2, <2>1, <2>3 DEF Summed, NoCollision, TypeOK
      <3>2. buffer'[m] = buffer[m]
        BY <2>1, <3>1
      <3>3. QED  BY <1>1, <1>2, <2>2, <3>2 DEF FitsAll, Fits
    <2>4. QED  BY <1>1, <1>3, <2>1, <2>3 DEF Summed
  <1>4. CASE m # k
    <2>1. /\ buffer'[m] = buffer[m] /\ buffer_checksum'[m] = buffer_checksum[m]
          /\ update_signals'[m] = update_signals[m]
      BY <1>1, <1>4 DEF TypeOK
    <2>2. QED  BY <1>1, <1>2, <2>1 DEF Summed, FitsAll, Fits
  <1>5. QED  BY <1>3, <1>4

LEMMA StepRest ==
    ASSUME PlainFrames, NoCollision, DistinctFrames, NoFunctions,
           NEW n \in Nat, NEW L \in Nat, TypeOK, EchoInv, EncodePathInv,
           FrameInv(n, L), RangeInv, RestInv(n, L), model_step \/ UNCHANGED vars
    PROVE  RestInv(n, L)'
  <1>1. CASE RxSignals
    <2>1. pc = "rx_signals" /\ pc' = "decode"
      BY <1>1 DEF RxSignals
    <2>2. ASSUME L >= 1, NEW m \in Msg, Event(m)
          PROVE  Summed(m)' /\ ~update_signals'[m] /\ FitsAll(m)'
      <3>1. signal_vector' = signal_vector /\ Summed(m) /\ FitsAll(m)
        BY <1>1, <2>1, <2>2, RxKeepsSignals DEF RestInv
      <3>2. ~update_signals[m]
        BY <2>1 DEF EchoInv
      <3>3. QED
        BY <1>1, <3>1, <3>2 DEF RxSignals, Summed, FitsAll, Fits
    <2>3. QED  BY <2>1, <2>2 DEF RestInv, Event
  <1>2. CASE DecodeFrame
    <2>1. pc' = "decode"
      BY <1>2 DEF DecodeFrame
    <2>2. QED  BY <1>2, <2>1, FrameRest DEF RestInv, Event
  <1>3. CASE DecodeDone
    BY <1>3 DEF DecodeDone, RestInv, Event, Summed, FitsAll, Fits
  <1>4. CASE ApplyDecode
    <2>1. \A m \in Msg : update_signals'[m] = update_signals[m]
      BY <1>4 DEF ApplyDecode, NoFunctions, TypeOK
    <2>2. /\ UNCHANGED <<buffer, buffer_checksum, signal_vector>>
          /\ pc = "apply_decode" /\ pc' = "signals"
      BY <1>4 DEF ApplyDecode
    <2>3. QED  BY <2>1, <2>2 DEF RestInv, Event, Summed, FitsAll, Fits
  <1>5. CASE MarshalToSignals
    <2>1. /\ pc = "signals" /\ pc' = "begin_ticks"
          /\ UNCHANGED <<buffer, buffer_checksum>>
      BY <1>5 DEF MarshalToSignals
    <2>2. ASSUME L >= 1, NEW m \in Msg, Event(m)
          PROVE  /\ Summed(m)'
                     /\ \/ FitsAll(m)'
                        \/ Followed(m)' /\ Settling(n, L - 1, m, buffer'[m])
      <3>1. Summed(m)
        BY <2>1, <2>2 DEF RestInv
      <3>2. CASE update_signals[m]
        <4>1. Followed(m)'
          BY <1>5, <3>2, ToSignalsFollowed
        <4>2. Settling(n, L - 1, m, buffer[m])
          BY <2>1, <2>2, <3>2 DEF RestInv
        <4>3. QED  BY <2>1, <3>1, <4>1, <4>2 DEF Summed
      <3>3. CASE ~update_signals[m]
        <4>1. FitsAll(m)
          BY <2>1, <2>2, <3>3 DEF RestInv
        <4>2. \A s \in Sig : SigMsg[s] = m =>
                                 signal_vector'[s] = signal_vector[s]
          BY <1>5, <3>3 DEF MarshalToSignals, marshal_messages_to_signals
        <4>3. QED  BY <2>1, <3>1, <4>1, <4>2 DEF Summed, FitsAll, Fits
      <3>4. QED  BY <3>2, <3>3
    <2>3. QED  BY <2>1, <2>2 DEF RestInv, Event
  <1>6. CASE BeginTicks \/ Tick \/ TicksDone
    <2>1. /\ pc \in {"begin_ticks", "tick"}
          /\ pc' \in {"tick", "signals_to_messages"}
          /\ UNCHANGED <<buffer, signal_vector>>
      BY <1>6 DEF BeginTicks, Tick, TicksDone
    <2>2. ASSUME NEW m \in Msg, Event(m)
          PROVE  buffer_checksum'[m] = buffer_checksum[m]
      BY <1>6, <2>2 DEF BeginTicks, TicksDone, Tick, TypeOK, Event,
            Sched!MakeTick, Sched!network_schedule_tick, Sched!Unsummed,
            Sched!Fires, Sched!Cyclic
    <2>3. QED
      BY <2>1, <2>2 DEF RestInv, Event, Summed, FitsAll, Fits, Followed
  <1>7. CASE MarshalToMessages
    <2>1. /\ pc = "signals_to_messages" /\ pc' = "pack"
          /\ buffer_checksum' = buffer_checksum
      BY <1>7 DEF MarshalToMessages
    <2>2. ASSUME L >= 1, NEW m \in Msg, Event(m), Changed(m)'
          PROVE  Settling(n, L, m, buffer'[m])
      <3>1. /\ Summed(m)
            /\ \/ FitsAll(m)
               \/ Followed(m) /\ Settling(n, L - 1, m, buffer[m])
        BY <2>1, <2>2 DEF RestInv
      <3>2. buffer'[m] # buffer[m]
        BY <2>1, <2>2, <3>1 DEF Changed, Summed
      <3>3. Followed(m) /\ Settling(n, L - 1, m, buffer[m])
        BY <1>7, <3>1, <3>2, MarshalKeepsFitting
      <3>4. QED  BY <1>7, <2>2, <3>2, <3>3, AnswerSettling
    <2>3. QED  BY <2>1, <2>2 DEF RestInv, Event, Settling, Settled
  <1>8. CASE Pack
    <2>1. pc = "pack" /\ pc' = "apply_encode"
      BY <1>8 DEF Pack
    <2>2. ASSUME L >= 1, NEW m \in Msg, Event(m), needs_tx'[m]
          PROVE  Settling(n, L, m, payload'[m])
      <3>1. Changed(m)
        BY <1>8, <2>2 DEF Pack, Flagged
      <3>2. payload'[m] = buffer[m]
        BY <1>8, PackedPlain DEF Pack, TypeOK
      <3>3. QED  BY <2>1, <2>2, <3>1, <3>2 DEF RestInv
    <2>3. QED  BY <2>1, <2>2 DEF RestInv, Event, Settling, Settled
  <1>9. CASE ApplyEncode
    <2>1. /\ payload' = payload /\ \A m \in Msg : needs_tx'[m] => needs_tx[m]
          /\ pc = "apply_encode" /\ pc' = "encode"
      BY <1>9, NoneAltered DEF ApplyEncode
    <2>2. QED  BY <2>1 DEF RestInv, Event, Settling, Settled
  <1>10. CASE EncodeToBus
    <2>1. /\ pc = "encode" /\ pc' = "update"
          /\ tx' = [m \in {k \in Msg : needs_tx[k]} |-> payload[m]]
      BY <1>10 DEF EncodeToBus
    <2>2. QED  BY <2>1 DEF RestInv, Event, Settling, Settled, OnBus
  <1>11. CASE UpdateSignals
    <2>1. tx' = tx /\ pc = "update" /\ pc' = "tx_signals"
      BY <1>11 DEF UpdateSignals
    <2>2. QED  BY <2>1 DEF RestInv, Event, Settling, Settled, OnBus
  <1>12. CASE TxSignals
    <2>1. /\ pc = "tx_signals" /\ pc' = "idle"
          /\ UNCHANGED <<tx, signal_vector, buffer, buffer_checksum>>
          /\ sv' = [v \in DOMAIN SrMap |-> signal_vector[SrMap[v]]]
      BY <1>12 DEF TxSignals
    <2>2. ASSUME NEW m \in Msg, Event(m) PROVE Summed(m)' /\ FitsAll(m)'
      BY <2>1, <2>2 DEF EncodePathInv, Summed, FitsAll, Fits
    <2>3. QED
      BY <2>1, <2>2 DEF RestInv, Event, Settling, Settled, OnBus
  <1>13. CASE UNCHANGED vars
    BY <1>13 DEF vars, RestInv, Event, Summed, FitsAll, Fits, Followed,
          Changed, Settling, Settled, OnBus
  <1>14. QED
    BY <1>1, <1>2, <1>3, <1>4, <1>5, <1>6, <1>7, <1>8, <1>9, <1>10, <1>11,
       <1>12, <1>13 DEF model_step

-----------------------------------------------------------------------------
(* One node on a bus *)

(* What the theorems about two nodes ask of a network description, with a  *)
(* codec that loses something at most n times.                             *)
ComesToRest(n) ==
    /\ PlainFrames /\ NoCollision /\ DistinctFrames /\ NoFunctions
    /\ CodecSettles(n) /\ StartsInRange

NodeInv ==
    /\ TypeOK /\ EchoInv /\ FlagInv /\ SumInv /\ EncodePathInv /\ BusAgrees
    /\ RangeInv /\ SentInv

(* L exchanges without a change are behind the node.                       *)
QuietInv(n, L) == FrameInv(n, L) /\ RestInv(n, L)

LEMMA InitNode ==
    ASSUME NEW n \in Nat, ComesToRest(n), Init
    PROVE  /\ NodeInv /\ QuietInv(n, 0)
           /\ rx = <<>> /\ tx = <<>> /\ bus = InitBuffer
  <1>1. InitBuffer \in [Msg -> Content]
    BY InitBufferType
  <1>2. bus = InitBuffer
    BY <1>1, PackedPlain DEF ComesToRest, Init
  <1>3. EncodePathInv /\ FrameInv(n, 0)
    BY DEF Init, EncodePathInv, FrameInv
  <1>4. QED
    BY <1>2, <1>3, InitType, InitEcho, InitFlag, InitSum, InitAgrees,
       InitRange, InitSent, InitRest
       DEF ComesToRest, NodeInv, QuietInv, Init

LEMMA NextNode ==
    ASSUME NEW n \in Nat, ComesToRest(n), NodeInv, QuietInv(n, 0),
           [Next]_vars
    PROVE  NodeInv'
  <1>1. SignalsCarried
    BY NetworkAssumption DEF ComesToRest, PlainFrames, SignalsCarried
  <1>2. EncodersFollowed
    BY NetworkAssumption DEF ComesToRest, NoFunctions, EncodersFollowed
  <1>3. TypeOK'
    BY NextType DEF NodeInv
  <1>4. RangeInv'
    BY NextRange DEF ComesToRest, NodeInv, QuietInv
  <1>5. EchoInv' /\ FlagInv'
    BY <1>1, NextEcho, NextFlag DEF NodeInv
  <1>6. SumInv' /\ EncodePathInv' /\ BusAgrees' /\ SentInv'
    BY <1>2, <1>3, NextSum, NextEncodePath, NextAgrees, NextSent
       DEF ComesToRest, NodeInv
  <1>7. QED  BY <1>3, <1>4, <1>5, <1>6 DEF NodeInv

LEMMA StepQuiet ==
    ASSUME NEW n \in Nat, ComesToRest(n), NodeInv, NEW L \in Nat,
           QuietInv(n, L),
           model_step \/ UNCHANGED vars
    PROVE  QuietInv(n, L)'
  BY StepFrame, StepRest DEF ComesToRest, NodeInv, QuietInv

(* Frames p[m] of messages m in S, which another node sent, as the         *)
(* simulation hands them over.                                             *)
InOrder(order, c, S) ==
    /\ order \in [1 .. c -> S]
    /\ \A m \in S : \E i \in 1 .. c : order[i] = m
    /\ \A i, j \in 1 .. c : i < j => order[i] < order[j]
Delivery(order, c, p) ==
    [i \in 1 .. c |-> [id |-> FrameId[order[i]], payload |-> p[order[i]],
                       short |-> FALSE]]
Deliverable(n, L, m, p) ==
    /\ Valid(m, p[m])
    /\ L >= 1 /\ Event(m) => Settling(n, L - 1, m, p[m])

(* What is in range has at most all of the losses ahead. *)
LEMMA ValidSettles ==
    ASSUME NEW n \in Nat, CodecSettles(n), NEW m \in Msg,
           NEW p \in Content, Valid(m, p)
    PROVE  Settled(n, m, p)
  BY NetworkAssumption DEF CodecSettles, Settled, Valid, Content

LEMMA Delivered ==
    ASSUME NEW n \in Nat, ComesToRest(n), NEW L \in Nat, NEW c \in Nat,
           NEW S \in SUBSET Msg,
           NEW p, \A m \in S : Deliverable(n, L, m, p),
           NEW order, InOrder(order, c, S),
           pc' = "rx_signals", rx' = Delivery(order, c, p)
    PROVE  FrameInv(n, L)'
  <1>1. ASSUME NEW i \in 1 .. c
        PROVE  /\ ~rx'[i].short
               /\ \E m \in Msg :
                     /\ FrameId[m] = rx'[i].id /\ Valid(m, rx'[i].payload)
                     /\ L >= 1 /\ Event(m)
                            => Settling(n, L - 1, m, rx'[i].payload)
    <2>1. order[i] \in S
      BY DEF InOrder
    <2>2. QED  BY <2>1 DEF Delivery, Deliverable
  <1>2. ASSUME NEW i \in 1 .. c, NEW j \in 1 .. c, rx'[i].id = rx'[j].id
        PROVE  i = j
    <2>1. order[i] \in Msg /\ order[j] \in Msg
      BY DEF InOrder
    <2>2. order[i] = order[j] /\ order[i] \in Nat
      BY <1>2, <2>1 DEF ComesToRest, DistinctFrames, Msg, Delivery
    <2>3. ~(i < j) /\ ~(j < i)
      BY <2>2 DEF InOrder
    <2>4. QED  BY <2>3
  <1>3. DOMAIN rx' = 1 .. c
    BY DEF Delivery
  <1>4. QED
    BY <1>1, <1>2, <1>3 DEF FrameInv, Valid, Settling, Settled, Event

LEMMA DeliveredLast ==
    ASSUME DistinctFrames, NEW c \in Nat, NEW S \in SUBSET Msg, NEW p,
           NEW order, InOrder(order, c, S),
           bus' = bus, rx' = Delivery(order, c, p), NEW m \in Msg
    PROVE  /\ m \in S => LastFrame(m)' = p[m]
           /\ m \notin S => LastFrame(m)' = bus[m]
  <1>1. DOMAIN rx' = 1 .. c
    BY DEF Delivery
  <1>2. ASSUME NEW i \in Arriving(m)'
        PROVE  i \in 1 .. c /\ order[i] = m /\ rx'[i].payload = p[m] /\ m \in S
    <2>1. i \in 1 .. c /\ rx'[i].id = FrameId[m]
      BY <1>1 DEF Arriving
    <2>2. order[i] \in S /\ rx'[i].id = FrameId[order[i]]
      BY <2>1 DEF InOrder, Delivery
    <2>3. order[i] = m
      BY <2>1, <2>2 DEF DistinctFrames
    <2>4. QED  BY <2>1, <2>2, <2>3 DEF Delivery
  <1>3. CASE m \in S
    <2>1. PICK i \in 1 .. c : order[i] = m
      BY <1>3 DEF InOrder
    <2>2. Arriving(m)' # {}
      BY <1>1, <2>1 DEF Arriving, Delivery
    <2>3. QED  BY <1>2, <1>3, <2>2 DEF LastFrame
  <1>4. CASE m \notin S
    <2>1. Arriving(m)' = {}
      BY <1>2, <1>4
    <2>2. QED  BY <1>4, <2>1 DEF LastFrame
  <1>5. QED  BY <1>3, <1>4

(* A network that is never off suppresses nothing. *)
LEMMA NextUnsent ==
    ASSUME NetOff = {FALSE}, TypeOK, unsent = {}, [Next]_vars
    PROVE  unsent' = {}
  <1>1. CASE Exchange \/ RxSignals \/ DecodeDone \/ ApplyDecode
             \/ MarshalToSignals \/ BeginTicks \/ Tick \/ TicksDone
             \/ MarshalToMessages \/ Pack \/ UpdateSignals \/ TxSignals
    BY <1>1 DEF Exchange, RxSignals, DecodeDone, ApplyDecode,
          MarshalToSignals, BeginTicks, Tick, TicksDone, MarshalToMessages,
          Pack, UpdateSignals, TxSignals
  <1>2. CASE DecodeFrame
    BY <1>2 DEF DecodeFrame, Receive
  <1>3. CASE ApplyEncode
    BY <1>3 DEF ApplyEncode, TypeOK
  <1>4. CASE EncodeToBus
    BY <1>4 DEF EncodeToBus
  <1>5. CASE UNCHANGED vars
    BY <1>5 DEF vars
  <1>6. QED  BY <1>1, <1>2, <1>3, <1>4, <1>5 DEF Next, model_step
=============
