--------------------------- MODULE FunctionProof ----------------------------
(***************************************************************************)
(* Proofs about FunctionNetwork: what a node sends of its protected        *)
(* messages, for every network, payload length and width of a byte.        *)
(***************************************************************************)
EXTENDS FunctionNetwork, AgreementProof

USE DEF chanVars, sigVars, msgVars, flagVars, alarmVars, clockVars, histVars

-----------------------------------------------------------------------------
(* The loop of crc_generate *)

(* The value of crc after every turn of the loop, as SumWithout defines it. *)
Turns(p, position, n, sum) ==
    sum = [i \in 0 .. n |->
              IF i = 0 THEN 0
              ELSE IF i = position THEN sum[i - 1]
              ELSE (sum[i - 1] + p[i]) % ByteMod]

Bytes == [1 .. PayloadLen -> 0 .. ByteMod - 1]

(* The least number that is none of S, if 0 is one of S. *)
LEMMA LeastOutside ==
    ASSUME NEW S, 0 \in S, NEW n \in Nat, n \notin S
    PROVE  \E k \in Nat \ {0} : k \notin S /\ k - 1 \in S /\ k <= n
  <1> DEFINE R == {k \in Nat : k \notin S}
             k == First(R)
  <1>1. R \in SUBSET Nat /\ n \in R
    OBVIOUS
  <1>2. k \in R /\ \A j \in R : k <= j
    BY <1>1, FirstMember
  <1> HIDE DEF k
  <1>3. k \in Nat /\ k # 0 /\ k <= n
    BY <1>1, <1>2
  <1>4. k - 1 \in Nat /\ ~ (k <= k - 1)
    BY <1>3
  <1>5. k - 1 \in S
    BY <1>2, <1>4
  <1>6. QED  BY <1>2, <1>3, <1>5

(* Every number of turns gives a byte after each of them. *)
LEMMA TurnsMade ==
    ASSUME NEW p \in Bytes, NEW position, NEW n \in 0 .. PayloadLen
    PROVE  \E sum \in [0 .. n -> 0 .. ByteMod - 1] : Turns(p, position, n, sum)
  <1> DEFINE Made(k) ==
                 \E sum \in [0 .. k -> 0 .. ByteMod - 1] :
                     Turns(p, position, k, sum)
             S == {k \in Nat : k > PayloadLen \/ Made(k)}
  <1>1. 0 \in S
    <2> DEFINE sum == [i \in 0 .. 0 |-> 0]
    <2>1. sum \in [0 .. 0 -> 0 .. ByteMod - 1]
      BY ByteAssumption
    <2>2. Turns(p, position, 0, sum)
      BY DEF Turns
    <2>3. Made(0)
      BY <2>1, <2>2
    <2>4. QED  BY <2>3
  <1>2. ASSUME NEW k \in Nat \ {0}, k - 1 \in S, k <= PayloadLen
        PROVE  Made(k)
    <2>1. Made(k - 1)
      BY <1>2, ByteAssumption
    <2>2. PICK old \in [0 .. k - 1 -> 0 .. ByteMod - 1] :
                   Turns(p, position, k - 1, old)
      BY <2>1
    <2> DEFINE new == IF k = position THEN old[k - 1]
                      ELSE (old[k - 1] + p[k]) % ByteMod
               sum == [i \in 0 .. k |-> IF i = k THEN new ELSE old[i]]
    <2>3. k - 1 \in 0 .. k - 1 /\ k \in 1 .. PayloadLen
      BY <1>2
    <2>4. old[k - 1] \in 0 .. ByteMod - 1 /\ p[k] \in 0 .. ByteMod - 1
      BY <2>3 DEF Bytes
    <2>5. new \in 0 .. ByteMod - 1
      BY <2>4, ByteAssumption
    <2> HIDE DEF new
    <2>6. sum \in [0 .. k -> 0 .. ByteMod - 1]
      BY <2>5
    <2>7. ASSUME NEW i \in 0 .. k
          PROVE  sum[i] = IF i = 0 THEN 0
                          ELSE IF i = position THEN sum[i - 1]
                          ELSE (sum[i - 1] + p[i]) % ByteMod
      <3>1. CASE i = k
        BY <1>2, <2>3, <3>1 DEF new
      <3>2. CASE i # k
        <4>1. i \in 0 .. k - 1 /\ (i # 0 => i - 1 \in 0 .. k - 1)
          BY <3>2
        <4>2. old[i] = IF i = 0 THEN 0
                       ELSE IF i = position THEN old[i - 1]
                       ELSE (old[i - 1] + p[i]) % ByteMod
          BY <2>2, <4>1 DEF Turns
        <4>3. sum[i] = old[i] /\ (i # 0 => sum[i - 1] = old[i - 1])
          BY <3>2, <4>1
        <4>4. QED  BY <4>2, <4>3
      <3>3. QED  BY <3>1, <3>2
    <2>8. Turns(p, position, k, sum)
      BY <2>7 DEF Turns
    <2>9. QED  BY <2>6, <2>8
  <1> HIDE DEF Made
  <1>3. n \in Nat /\ n <= PayloadLen
    BY ByteAssumption
  <1>4. n \in S
    <2> SUFFICES ASSUME n \notin S PROVE FALSE
      OBVIOUS
    <2> HIDE DEF S
    <2>1. PICK k \in Nat \ {0} : k \notin S /\ k - 1 \in S /\ k <= n
      BY <1>1, <1>3, LeastOutside
    <2>2. k <= PayloadLen
      BY <1>3, <2>1, ByteAssumption
    <2>3. Made(k)
      BY <1>2, <2>1, <2>2
    <2>4. QED  BY <2>1, <2>3 DEF S
  <1>5. QED  BY <1>3, <1>4, ByteAssumption DEF Made

(* The turns do not depend on the byte at position. *)
LEMMA TurnsSame ==
    ASSUME NEW p, NEW q, NEW position, NEW n \in Nat, NEW s, NEW t,
           Turns(p, position, n, s), Turns(q, position, n, t),
           \A i \in 1 .. n : i # position => p[i] = q[i]
    PROVE  \A i \in 0 .. n : s[i] = t[i]
  <1> DEFINE S == {i \in Nat : i <= n => s[i] = t[i]}
  <1>1. ASSUME NEW i \in 0 .. n
        PROVE  /\ s[i] = IF i = 0 THEN 0 ELSE IF i = position THEN s[i - 1]
                         ELSE (s[i - 1] + p[i]) % ByteMod
               /\ t[i] = IF i = 0 THEN 0 ELSE IF i = position THEN t[i - 1]
                         ELSE (t[i - 1] + q[i]) % ByteMod
    BY DEF Turns
  <1>2. 0 \in S
    BY <1>1
  <1>3. ASSUME NEW i \in 0 .. n, i \notin S PROVE FALSE
    <2> HIDE DEF S
    <2>1. PICK k \in Nat \ {0} : k \notin S /\ k - 1 \in S /\ k <= i
      BY <1>2, <1>3, LeastOutside
    <2>2. k \in 1 .. n /\ k - 1 <= n
      BY <2>1
    <2>3. s[k - 1] = t[k - 1]
      BY <2>1, <2>2 DEF S
    <2>4. s[k] = t[k]
      BY <1>1, <2>2, <2>3
    <2>5. QED  BY <2>1, <2>4 DEF S
  <1>4. QED  BY <1>3

(* The sum of the other bytes is a byte, and no matter what is at position. *)
LEMMA SumIsByte ==
    ASSUME NEW p \in Bytes, NEW position
    PROVE  /\ SumWithout(p, position) \in 0 .. ByteMod - 1
           /\ \A x : SumWithout([p EXCEPT ![position] = x], position)
                         = SumWithout(p, position)
  <1> DEFINE Chosen(q) == CHOOSE sum : Turns(q, position, PayloadLen, sum)
  <1>1. PayloadLen \in 0 .. PayloadLen
    BY ByteAssumption
  <1>2. \A q : SumWithout(q, position) = Chosen(q)[PayloadLen]
    BY Zenon DEF SumWithout, Turns
  <1>3. PICK sum \in [0 .. PayloadLen -> 0 .. ByteMod - 1] :
                 Turns(p, position, PayloadLen, sum)
    BY <1>1, TurnsMade
  <1>4. ASSUME NEW q,
               \A i \in 1 .. PayloadLen : i # position => q[i] = p[i]
        PROVE  SumWithout(q, position) = sum[PayloadLen]
    <2>1. \A i \in 1 .. PayloadLen : i - 1 \in 0 .. PayloadLen
      BY ByteAssumption
    <2>2. Turns(q, position, PayloadLen, sum)
      BY <1>3, <1>4, ByteAssumption DEF Turns
    <2>3. Turns(q, position, PayloadLen, Chosen(q))
      BY <2>2
    <2> HIDE DEF Chosen
    <2>4. Chosen(q)[PayloadLen] = sum[PayloadLen]
      BY <1>1, <1>4, <2>2, <2>3, TurnsSame, ByteAssumption
    <2>5. QED  BY <1>2, <2>4
  <1>5. SumWithout(p, position) = sum[PayloadLen]
    BY <1>4
  <1>6. ASSUME NEW x
        PROVE  SumWithout([p EXCEPT ![position] = x], position)
                   = sum[PayloadLen]
    BY <1>4 DEF Bytes
  <1>7. QED  BY <1>1, <1>3, <1>5, <1>6

-----------------------------------------------------------------------------
(* What the functions make of a payload: a correct crc, and another value  *)
(* of the counter.                                                         *)
LEMMA EncodedValid ==
    ASSUME NEW m \in Protected, NEW p \in Content
    PROVE  crc_validate(Encoded(m, p), CrcAt[m])
  <1> DEFINE q == counter_inc_uint8(p, AliveAt[m])
             at == CrcAt[m]
             sum == SumWithout(q, at)
  <1>1. Content = Bytes
    BY FunctionAssumption DEF Content, Bytes
  <1>2. q \in Bytes /\ at \in 1 .. PayloadLen
    BY <1>1, FunctionAssumption, ByteAssumption DEF counter_inc_uint8, Bytes
  <1>3. Encoded(m, p) = [q EXCEPT ![at] = sum]
    BY FunctionAssumption DEF crc_generate
  <1> HIDE DEF q, at
  <1>4. sum \in 0 .. ByteMod - 1 /\ SumWithout([q EXCEPT ![at] = sum], at) = sum
    BY <1>2, SumIsByte
  <1> HIDE DEF sum
  <1>5. [q EXCEPT ![at] = sum][at] = sum
    BY <1>2 DEF Bytes
  <1>6. (sum - sum) % ByteMod = 0
    BY <1>4, ByteAssumption
  <1>7. QED  BY <1>3, <1>4, <1>5, <1>6 DEF crc_validate, at

LEMMA CounterMoves ==
    ASSUME NEW m \in Protected, NEW p \in Content
    PROVE  /\ Encoded(m, p)[AliveAt[m]] = (p[AliveAt[m]] + 1) % ByteMod
           /\ Encoded(m, p)[AliveAt[m]] # p[AliveAt[m]]
  <1> DEFINE at == AliveAt[m]
             q == counter_inc_uint8(p, at)
  <1>1. /\ at \in Field /\ CrcAt[m] \in Field /\ CrcAt[m] # at
        /\ p \in [Field -> 0 .. ByteMod - 1]
    BY FunctionAssumption DEF Content
  <1>2. q \in [Field -> Int] /\ q[at] = (p[at] + 1) % ByteMod
    BY <1>1, ByteAssumption DEF counter_inc_uint8
  <1>3. Encoded(m, p) = crc_generate(q, CrcAt[m])
    BY FunctionAssumption
  <1> HIDE DEF q
  <1>4. Encoded(m, p)[at] = q[at]
    BY <1>1, <1>2, <1>3 DEF crc_generate
  <1>5. p[at] \in 0 .. ByteMod - 1
    BY <1>1
  <1>6. (p[at] + 1) % ByteMod # p[at]
    <2>1. CASE p[at] + 1 = ByteMod
      BY <1>5, <2>1, ByteAssumption
    <2>2. CASE p[at] + 1 < ByteMod
      BY <1>5, <2>2, ByteAssumption
    <2>3. QED  BY <1>5, <2>1, <2>2, ByteAssumption
  <1>7. QED  BY <1>2, <1>4, <1>6

(* The counter of a message is in every frame of it. *)
LEMMA CounterCarried ==
    ASSUME NEW m \in Protected, NEW buf \in Content, NEW p \in Content
    PROVE  /\ m \in Msg /\ AliveAt[m] \in Field
           /\ Packed(m, buf)[AliveAt[m]] = buf[AliveAt[m]]
           /\ Unpacked(m, buf, p)[AliveAt[m]] = p[AliveAt[m]]
  <1>1. Selector(m) \in Field /\ m \in Msg /\ AliveAt[m] \in Field
    BY FunctionAssumption, CodecAssumption
  <1>2. buf[Selector(m)] \in Raw /\ p[Selector(m)] \in Raw
    BY <1>1 DEF Content
  <1>3. /\ Carries(m, AliveAt[m], buf[Selector(m)])
        /\ Carries(m, AliveAt[m], p[Selector(m)])
    BY <1>2, FunctionAssumption
  <1>4. QED  BY <1>1, <1>3 DEF Packed, Unpacked

-----------------------------------------------------------------------------
(* What the encode path makes of a counter: from the signal to the buffer  *)
(* and the payload, ...                                                    *)
Marshalled(s, content) ==
    InRange(s, AliveCounter(s)) => content[AliveAt[SigMsg[s]]] = AliveCounter(s)
Advanced(s, content) ==
    InRange(s, AliveCounter(s)) =>
        content[AliveAt[SigMsg[s]]] = (AliveCounter(s) + 1) % ByteMod
AdvanceInv ==
    /\ pc = "pack" =>
           \A s \in AliveSignals : Marshalled(s, buffer[SigMsg[s]])
    /\ pc = "apply_encode" =>
           \A s \in AliveSignals : Marshalled(s, payload[SigMsg[s]])
    /\ pc = "encode" =>
           \A s \in AliveSignals : needs_tx[SigMsg[s]] =>
               Advanced(s, payload[SigMsg[s]])

(* ... and from the payload by way of the buffer back to the signal.       *)
Returned(m, content) ==
    update_signals[m] /\ buffer[m][AliveAt[m]] = content[AliveAt[m]]
ReturnInv ==
    /\ pc = "encode" =>
           \A m \in Protected : needs_tx[m] => Returned(m, payload[m])
    /\ pc = "update" =>
           \A m \in Protected : OnBus(m) => Returned(m, tx[m])
    /\ pc \in {"tx_signals", "idle"} =>
           \A s \in AliveSignals : OnBus(SigMsg[s]) =>
               LET counter == tx[SigMsg[s]][SigField[s]]
               IN  InRange(s, counter) => signal_vector[s] = Dec(s, counter)

CrcInv ==
    /\ pc = "encode" =>
           \A m \in Protected : needs_tx[m] => crc_validate(payload[m], CrcAt[m])
    /\ SentCrcValid

(* The actions before and after the encode path. *)
Decoding ==
    \/ Exchange \/ RxSignals \/ DecodeFrame \/ DecodeDone \/ ApplyDecode
    \/ MarshalToSignals \/ BeginTicks \/ Tick \/ TicksDone

LEMMA DecodingSteps ==
    Decoding => /\ pc' \notin {"pack", "apply_encode", "encode", "update",
                               "tx_signals", "idle"}
                /\ tx' = tx
  BY DEF Decoding, Exchange, RxSignals, DecodeFrame, DecodeDone, ApplyDecode,
         MarshalToSignals, BeginTicks, Tick, TicksDone

LEMMA AliveSignalOf ==
    ASSUME NEW s \in AliveSignals
    PROVE  /\ s \in Sig /\ SigMsg[s] \in Protected /\ SigMsg[s] \in Msg
           /\ SigField[s] = AliveAt[SigMsg[s]]
  BY FunctionAssumption DEF AliveSignals

(* The network is not off, and the functions have made the payload. *)
LEMMA Applied ==
    ASSUME TypeOK, ApplyEncode, NEW m \in Protected, needs_tx'[m]
    PROVE  m \in Msg /\ Sendable(m) /\ payload'[m] = Encoded(m, payload[m])
  BY FunctionAssumption DEF TypeOK, ApplyEncode

LEMMA NextCrc == TypeOK /\ CrcInv /\ [Next]_vars => CrcInv'
  <1> SUFFICES ASSUME TypeOK, CrcInv, [Next]_vars PROVE CrcInv'
    OBVIOUS
  <1>1. CASE Decoding \/ MarshalToMessages \/ Pack \/ UpdateSignals \/ TxSignals
    <2>1. tx' = tx /\ pc' # "encode"
      BY <1>1, DecodingSteps DEF MarshalToMessages, Pack, UpdateSignals,
            TxSignals
    <2>2. QED  BY <2>1 DEF CrcInv, SentCrcValid
  <1>2. CASE ApplyEncode
    <2>1. ASSUME NEW m \in Protected, needs_tx'[m]
          PROVE  crc_validate(payload'[m], CrcAt[m])
      <3>1. payload[m] \in Content /\ payload'[m] = Encoded(m, payload[m])
        BY <1>2, <2>1, Applied DEF TypeOK
      <3>2. QED  BY <3>1, EncodedValid
    <2>2. tx' = tx
      BY <1>2 DEF ApplyEncode
    <2>3. QED  BY <2>1, <2>2 DEF CrcInv, SentCrcValid
  <1>3. CASE EncodeToBus
    <2>1. \A m \in Protected \cap DOMAIN tx' : needs_tx[m] /\ tx'[m] = payload[m]
      BY <1>3 DEF EncodeToBus
    <2>2. QED  BY <1>3, <2>1 DEF EncodeToBus, CrcInv, SentCrcValid
  <1>4. CASE UNCHANGED vars
    BY <1>4 DEF vars, CrcInv, SentCrcValid
  <1>5. QED  BY <1>1, <1>2, <1>3, <1>4 DEF Next, model_step, Decoding

LEMMA NextAdvance == TypeOK /\ AdvanceInv /\ [Next]_vars => AdvanceInv'
  <1> SUFFICES ASSUME TypeOK, AdvanceInv, [Next]_vars PROVE AdvanceInv'
    OBVIOUS
  <1>1. CASE Decoding \/ EncodeToBus \/ UpdateSignals \/ TxSignals
    <2>1. pc' \notin {"pack", "apply_encode", "encode"}
      BY <1>1, DecodingSteps DEF EncodeToBus, UpdateSignals, TxSignals
    <2>2. QED  BY <2>1 DEF AdvanceInv
  <1>2. CASE MarshalToMessages
    <2>1. /\ pc' = "pack" /\ signal_vector' = signal_vector
          /\ buffer' = MarshalledBuffer(signal_vector, buffer)
      BY <1>2 DEF MarshalToMessages
    <2>2. ASSUME NEW s \in AliveSignals, InRange(s, AliveCounter(s))
          PROVE  buffer'[SigMsg[s]][SigField[s]] = AliveCounter(s)
      BY <2>1, <2>2, AliveSignalOf, MarshalledMember DEF TypeOK, AliveCounter
    <2>3. \A s : AliveCounter(s)' = AliveCounter(s)
      BY <2>1 DEF AliveCounter, Outgoing
    <2>4. QED
      BY <2>1, <2>2, <2>3, AliveSignalOf DEF AdvanceInv, Marshalled
  <1>3. CASE Pack
    <2>1. pc = "pack" /\ pc' = "apply_encode" /\ signal_vector' = signal_vector
      BY <1>3 DEF Pack
    <2>2. ASSUME NEW s \in AliveSignals
          PROVE  Marshalled(s, payload[SigMsg[s]])'
      <3> DEFINE m == SigMsg[s]
      <3>1. m \in Protected /\ m \in Msg
        BY AliveSignalOf
      <3>2. payload'[m] = Packed(m, buffer[m]) /\ buffer[m] \in Content
        BY <1>3, <3>1 DEF Pack, TypeOK
      <3>3. payload'[m][AliveAt[m]] = buffer[m][AliveAt[m]]
        BY <3>1, <3>2, CounterCarried
      <3>4. AliveCounter(s)' = AliveCounter(s)
        BY <2>1 DEF AliveCounter, Outgoing
      <3>5. QED  BY <2>1, <3>3, <3>4 DEF AdvanceInv, Marshalled
    <2>3. QED  BY <2>1, <2>2 DEF AdvanceInv
  <1>4. CASE ApplyEncode
    <2>1. /\ pc = "apply_encode" /\ pc' = "encode"
          /\ signal_vector' = signal_vector
      BY <1>4 DEF ApplyEncode
    <2>2. ASSUME NEW s \in AliveSignals, needs_tx'[SigMsg[s]]
          PROVE  Advanced(s, payload[SigMsg[s]])'
      <3> DEFINE m == SigMsg[s]
      <3>1. m \in Protected /\ m \in Msg
        BY AliveSignalOf
      <3>2. payload'[m] = Encoded(m, payload[m]) /\ payload[m] \in Content
        BY <1>4, <2>2, <3>1, Applied DEF TypeOK
      <3>3. payload'[m][AliveAt[m]] = (payload[m][AliveAt[m]] + 1) % ByteMod
        BY <3>1, <3>2, CounterMoves
      <3>4. AliveCounter(s)' = AliveCounter(s)
        BY <2>1 DEF AliveCounter, Outgoing
      <3>5. QED  BY <2>1, <3>3, <3>4 DEF AdvanceInv, Marshalled, Advanced
    <2>3. QED  BY <2>1, <2>2 DEF AdvanceInv
  <1>5. CASE UNCHANGED vars
    BY <1>5 DEF vars, AdvanceInv, Marshalled, Advanced, AliveCounter, Outgoing
  <1>6. QED
    BY <1>1, <1>2, <1>3, <1>4, <1>5 DEF Next, model_step, Decoding

LEMMA NextReturn ==
    ASSUME NoCollision
    PROVE  TypeOK /\ ReturnInv /\ [Next]_vars => ReturnInv'
  <1> SUFFICES ASSUME TypeOK, ReturnInv, [Next]_vars PROVE ReturnInv'
    OBVIOUS
  <1>1. CASE Decoding \/ MarshalToMessages \/ Pack
    <2>1. pc' \notin {"encode", "update", "tx_signals", "idle"}
      BY <1>1, DecodingSteps DEF MarshalToMessages, Pack
    <2>2. QED  BY <2>1 DEF ReturnInv
  <1>2. CASE ApplyEncode
    <2>1. ASSUME NEW m \in Protected, needs_tx'[m]
          PROVE  Returned(m, payload[m])'
      <3>1. /\ m \in Msg /\ Sendable(m) /\ payload'[m] = Encoded(m, payload[m])
        BY <1>2, <2>1, Applied
      <3>2. /\ payload[m] \in Content /\ Encoded(m, payload[m]) \in Content
            /\ buffer[m] \in Content
        BY <3>1, CodecAssumption DEF TypeOK
      <3>3. Encoded(m, payload[m]) # payload[m]
        BY <3>2, CounterMoves
      <3>4. Altered(m)
        BY <3>1, <3>2, <3>3 DEF Altered, NoCollision
      <3>5. /\ update_signals'[m]
            /\ buffer'[m] = Unpacked(m, buffer[m], payload'[m])
        BY <1>2, <3>1, <3>4 DEF ApplyEncode
      <3>6. buffer'[m][AliveAt[m]] = payload'[m][AliveAt[m]]
        BY <3>1, <3>2, <3>5, CounterCarried
      <3>7. QED  BY <3>5, <3>6 DEF Returned
    <2>2. pc' = "encode"
      BY <1>2 DEF ApplyEncode
    <2>3. QED  BY <2>1, <2>2 DEF ReturnInv
  <1>3. CASE EncodeToBus
    <2>1. /\ pc = "encode" /\ pc' = "update"
          /\ UNCHANGED <<buffer, update_signals>>
      BY <1>3 DEF EncodeToBus
    <2>2. \A m \in DOMAIN tx' : needs_tx[m] /\ tx'[m] = payload[m]
      BY <1>3 DEF EncodeToBus
    <2>3. QED  BY <2>1, <2>2 DEF ReturnInv, Returned, OnBus
  <1>4. CASE UpdateSignals
    <2>1. pc = "update" /\ pc' = "tx_signals" /\ tx' = tx
      BY <1>4 DEF UpdateSignals
    <2>2. ASSUME NEW s \in AliveSignals, OnBus(SigMsg[s]),
                 InRange(s, tx[SigMsg[s]][SigField[s]])
          PROVE  signal_vector'[s] = Dec(s, tx[SigMsg[s]][SigField[s]])
      <3> DEFINE m == SigMsg[s]
      <3>1. s \in Sig /\ m \in Protected /\ SigField[s] = AliveAt[m]
        BY AliveSignalOf
      <3>2. update_signals[m] /\ buffer[m][SigField[s]] = tx[m][SigField[s]]
        BY <2>1, <2>2, <3>1 DEF ReturnInv, Returned
      <3>3. signal_vector'[s] = Decoded(s, buffer[m], signal_vector[s])
        BY <1>4, <3>1, <3>2 DEF UpdateSignals, marshal_messages_to_signals
      <3>4. QED  BY <2>2, <3>2, <3>3 DEF Decoded
    <2>3. QED  BY <2>1, <2>2 DEF ReturnInv, OnBus
  <1>5. CASE TxSignals
    BY <1>5 DEF TxSignals, ReturnInv, OnBus
  <1>6. CASE UNCHANGED vars
    BY <1>6 DEF vars, ReturnInv, Returned, OnBus
  <1>7. QED
    BY <1>1, <1>2, <1>3, <1>4, <1>5, <1>6 DEF Next, model_step, Decoding

LEMMA InitFunctions == Init => CrcInv /\ AdvanceInv /\ ReturnInv
  BY DEF Init, CrcInv, SentCrcValid, AdvanceInv, ReturnInv, OnBus

-----------------------------------------------------------------------------
(* Every frame a node sends of a message with crc_generate has a correct   *)
(* crc: the functions run after packing and nothing touches the payload    *)
(* between them and the bus.                                               *)
THEOREM SentCrcIsValid == Spec => []SentCrcValid
  <1>1. CrcInv => SentCrcValid
    BY DEF CrcInv
  <1>2. TypeOK /\ CrcInv /\ [Next]_vars => CrcInv'
    BY NextCrc
  <1>3. QED
    BY <1>1, <1>2, InitFunctions, NetworkTypeCorrect, PTL DEF Spec

(* A frame carries the successor of the counter the node holds: packing    *)
(* and the functions that follow start from the signal, not from a counter *)
(* a frame has left in the buffer.                                         *)
THEOREM CounterAdvances == Spec => AliveAdvances
  <1> DEFINE Advances ==
                 \A s \in AliveSignals :
                     pc = "encode" /\ needs_tx[SigMsg[s]]
                     /\ InRange(s, AliveCounter(s))
                         => tx'[SigMsg[s]][SigField[s]]
                                = (AliveCounter(s) + 1) % ByteMod
  <1>1. TypeOK /\ AdvanceInv /\ [Next]_vars => [Advances]_vars
    <2> SUFFICES ASSUME TypeOK, AdvanceInv, Next, NEW s \in AliveSignals,
                        pc = "encode", needs_tx[SigMsg[s]],
                        InRange(s, AliveCounter(s))
                 PROVE  tx'[SigMsg[s]][SigField[s]]
                            = (AliveCounter(s) + 1) % ByteMod
      OBVIOUS
    <2>1. EncodeToBus
      BY DEF Next, model_step, Exchange, RxSignals, DecodeFrame, DecodeDone,
            ApplyDecode, MarshalToSignals, BeginTicks, Tick, TicksDone,
            MarshalToMessages, Pack, ApplyEncode, UpdateSignals, TxSignals
    <2>2. tx'[SigMsg[s]] = payload[SigMsg[s]]
      BY <2>1, AliveSignalOf DEF EncodeToBus
    <2>3. QED  BY <2>2, AliveSignalOf DEF AdvanceInv, Advanced
  <1>2. TypeOK /\ AdvanceInv /\ [Next]_vars => AdvanceInv'
    BY NextAdvance
  <1>3. QED
    BY <1>1, <1>2, InitFunctions, NetworkTypeCorrect, PTL
       DEF Spec, AliveAdvances

(* After the step the node's signal is the counter that was sent: the      *)
(* encode functions' change of the payload goes back through the buffer    *)
(* into the signals, though counters.c says that it is not reflected       *)
(* there.  It needs a hash that tells the payloads apart, or the change    *)
(* goes unnoticed.                                                         *)
AliveFollowed ==
    pc = "idle" =>
        \A s \in AliveSignals : OnBus(SigMsg[s]) =>
            LET counter == tx[SigMsg[s]][SigField[s]]
            IN  InRange(s, counter) => signal_vector[s] = Dec(s, counter)

THEOREM SignalFollowsCounter ==
    ASSUME NoCollision
    PROVE  Spec => []AliveFollowed
  <1>1. ReturnInv => AliveFollowed
    BY DEF ReturnInv, AliveFollowed
  <1>2. TypeOK /\ ReturnInv /\ [Next]_vars => ReturnInv'
    BY NextReturn
  <1>3. QED
    BY <1>1, <1>2, InitFunctions, NetworkTypeCorrect, PTL DEF Spec
=============================================================================
