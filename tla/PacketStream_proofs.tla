------------------------- MODULE PacketStream_proofs -------------------------
(* What is proved of PacketStream, for every set of sockets, every set of      *)
(* packets and every bound: types, that the client reads packets as            *)
(* FramedChannel promises, when it gets out of step, and what a packet         *)
(* reported sent means.                                                        *)
EXTENDS PacketStream, Integers, TLAPS

USE StreamConstantsOK

\* The packet under way is one of the broker's.
LEMMA CurrentType ==
    ASSUME TypeOK, Arriving
    PROVE  /\ Current \in Shapes
           /\ Current.length \in Nat \ {0} /\ Current.rest \in Nat
<1>1. /\ sent \in Seq(Shapes) /\ acted \in Seq(Packet) BY DEF TypeOK
<1>2. Len(acted) + 1 \in 1..Len(sent) BY <1>1 DEF Arriving
<1>3. Current \in Shapes BY <1>1, <1>2 DEF Current
<1>4. QED BY <1>3

\* While something is sent it is the newest packet, and not yet spoken of.
LEMMA SendingType ==
    ASSUME TypeOK, Sending
    PROVE  /\ Newest \in 1..Len(result) /\ Newest \in 1..Len(wired)
           /\ wired[Newest] \in 0..OutSize /\ result[Newest] = "none"
BY DEF TypeOK, Sending, Newest

\* What the types of the reading side rest on.
InType ==
    /\ sent \in Seq(Shapes) /\ acted \in Seq(Packet)
    /\ phase \in {"idle", "header", "length", "rest", "cycle"}
    /\ read \in Nat
    /\ ~torn /\ phase = "length" => Arriving /\ read \in 1..Current.length
    /\ ~torn /\ phase = "rest" => Arriving /\ read > Current.length /\ Left > 0

\* What the types of the writing side rest on.
OutType ==
    /\ Len(wired) = Len(result)
    /\ wired \in Seq(0..OutSize) /\ result \in Seq({"none", "SUCCESS", "FAILURE"})
    /\ held \in 0..Len(result)

\* A packet acted on is a packet; reading leaves its type as it was.
LEMMA ActType ==
    ASSUME TypeOK, NEW p \in Packet, Act(p), UNCHANGED sent
    PROVE  InType'
<1>1. acted' \in Seq(Packet) BY DEF Act, TypeOK
<1>2. QED BY <1>1 DEF Act, TypeOK, InType

\* Giving up leaves the reading side between two packets.
LEMMA GiveUpType ==
    ASSUME TypeOK, GiveUp, UNCHANGED sent
    PROVE  InType'
BY DEF GiveUp, TypeOK, InType

\* Each step of reading a packet keeps the types.
LEMMA ReadType ==
    ASSUME TypeOK,
           ReadHeader \/ DecodeLength \/ ReadRest \/ NothingRead \/ LengthCut
           \/ RestCut \/ ReadOutOfStep
    PROVE  TypeOK'
<1>a. Garbage \in Packet /\ Shapes \subseteq Packet BY DEF Packet
<1>b. UNCHANGED <<transport, link, sent, late, out>> /\ torn' \in BOOLEAN
  BY DEF ReadHeader, DecodeLength, ReadRest, NothingRead, LengthCut, RestCut, ReadOutOfStep,
         out, GiveUp, Act, TypeOK
<1>1. InType'
  <2>1. CASE ReadHeader
    <3>1. Current.length \in Nat \ {0} BY <2>1, CurrentType DEF ReadHeader, InStep
    <3>2. Current' = Current /\ Arriving' BY <2>1 DEF ReadHeader, InStep, Current, Arriving
    <3>3. QED BY <2>1, <3>1, <3>2 DEF ReadHeader, TypeOK, InType
  <2>2. CASE DecodeLength
    <3>1. Current \in Shapes /\ Current.length \in Nat \ {0} /\ Current.rest \in Nat
      BY <2>2, CurrentType DEF DecodeLength, InStep
    <3>2. CASE Act(Current) BY <2>2, <3>1, <3>2, <1>a, ActType DEF DecodeLength
    <3>3. CASE UNCHANGED acted
      <4>1. Current' = Current /\ Arriving'
        BY <2>2, <3>3 DEF DecodeLength, InStep, Current, Arriving
      <4>2. read \in 1..Current.length /\ ~torn /\ ~torn'
        BY <2>2 DEF DecodeLength, InStep, TypeOK
      <4>3. CASE read < Current.length /\ read' = read + 1 /\ UNCHANGED phase
        BY <2>2, <3>1, <3>3, <4>1, <4>2, <4>3 DEF DecodeLength, TypeOK, InType
      <4>4. CASE read = Current.length /\ Current.rest > 0 /\ read' = read + 1
                 /\ phase' = "rest"
        <5>1. Left' = Current.rest BY <4>1, <4>4, <3>1 DEF Left
        <5>2. QED BY <2>2, <3>1, <3>3, <4>1, <4>2, <4>4, <5>1 DEF DecodeLength, TypeOK, InType
      <4>5. QED BY <2>2, <3>3, <4>3, <4>4, <3>2, <1>a, <3>1, ActType DEF DecodeLength
    <3>4. QED BY <2>2, <3>2, <3>3 DEF DecodeLength
  <2>3. CASE ReadRest
    <3>1. Current \in Shapes /\ Current.length \in Nat \ {0} /\ Current.rest \in Nat
      BY <2>3, CurrentType DEF ReadRest, InStep
    <3>2. PICK k \in 1..Left :
            \/ k = Left /\ Act(Current) /\ UNCHANGED torn
            \/ k < Left /\ read' = read + k /\ UNCHANGED <<phase, acted, torn>>
            \/ GiveUp
      BY <2>3 DEF ReadRest
    <3>3. CASE Act(Current) BY <2>3, <3>1, <3>3, <1>a, ActType DEF ReadRest
    <3>4. CASE GiveUp BY <2>3, <3>4, GiveUpType DEF ReadRest
    <3>5. CASE k < Left /\ read' = read + k /\ UNCHANGED <<phase, acted, torn>>
      <4>0. Current' = Current /\ Arriving'
        BY <2>3, <3>5 DEF ReadRest, InStep, Current, Arriving
      <4>1. Left' = Left - k
        <5>1. read \in Nat /\ k \in Nat /\ read' = read + k
          BY <3>5 DEF TypeOK
        <5>2. QED BY <3>1, <4>0, <5>1 DEF Left
      <4>2. read > Current.length /\ read \in Nat BY <2>3 DEF ReadRest, InStep, TypeOK
      <4>3. Left \in Int BY <3>1, <4>2 DEF Left
      <4>4. QED BY <2>3, <3>1, <3>5, <4>0, <4>1, <4>2, <4>3 DEF ReadRest, TypeOK, InType, InStep
    <3>6. QED BY <3>2, <3>3, <3>4, <3>5
  <2>4. CASE NothingRead BY <2>4, GiveUpType DEF NothingRead
  <2>5. CASE LengthCut
    <3>1. CASE Act(Garbage) BY <2>5, <3>1, <1>a, ActType DEF LengthCut
    <3>2. CASE phase' = "rest" /\ UNCHANGED <<read, acted>>
      BY <2>5, <3>2 DEF LengthCut, TypeOK, InType
    <3>3. QED BY <2>5, <3>1, <3>2 DEF LengthCut
  <2>6. CASE RestCut BY <2>6, GiveUpType DEF RestCut
  <2>7. CASE ReadOutOfStep
    <3>1. CASE Act(Garbage) BY <2>7, <3>1, <1>a, ActType DEF ReadOutOfStep
    <3>2. CASE GiveUp BY <2>7, <3>2, GiveUpType DEF ReadOutOfStep
    <3>3. QED BY <2>7, <3>1, <3>2 DEF ReadOutOfStep
  <2>8. QED BY <2>1, <2>2, <2>3, <2>4, <2>5, <2>6, <2>7
<1>2. QED BY <1>b, <1>1 DEF TypeOK, InType, out

\* The yield itself, the broker, the clock and the connection.
LEMMA AroundType ==
    ASSUME TypeOK, MQTTYield \/ EndCycle \/ Tick \/ BrokerSends \/ LinkFails
    PROVE  TypeOK'
<1>a. UNCHANGED <<transport, out>> /\ {link', late', torn'} \subseteq BOOLEAN
  BY DEF MQTTYield, EndCycle, Tick, BrokerSends, LinkFails, in, out, TypeOK
<1>1. InType'
  <2>1. CASE MQTTYield BY <2>1 DEF MQTTYield, TypeOK, InType
  <2>2. CASE EndCycle BY <2>2 DEF EndCycle, TypeOK, InType
  <2>3. CASE Tick
    <3>1. Current' = Current /\ Arriving' = Arriving /\ Left' = Left
      BY <2>3 DEF Tick, Current, Arriving, Left
    <3>2. QED BY <2>3, <3>1 DEF Tick, TypeOK, InType
  <2>4. CASE LinkFails
    <3>1. Current' = Current /\ Arriving' = Arriving /\ Left' = Left
      BY <2>4 DEF LinkFails, in, Current, Arriving, Left
    <3>2. QED BY <2>4, <3>1 DEF LinkFails, in, TypeOK, InType
  <2>5. CASE BrokerSends
    <3>1. PICK p \in Shapes : sent' = Append(sent, p) BY <2>5 DEF BrokerSends
    <3>2. sent' \in Seq(Shapes) BY <3>1 DEF TypeOK
    <3>3. Arriving => Arriving' /\ Current' = Current /\ Left' = Left
      <4>1. UNCHANGED <<acted, read>> BY <2>5 DEF BrokerSends
      <4>2. sent \in Seq(Shapes) /\ Len(acted) \in Nat BY DEF TypeOK
      <4>3. ASSUME Arriving PROVE Arriving' /\ Current' = Current
        BY <3>1, <4>1, <4>2, <4>3 DEF Arriving, Current
      <4>4. QED BY <4>1, <4>3 DEF Left
    <3>4. QED BY <2>5, <3>2, <3>3 DEF BrokerSends, TypeOK, InType
  <2>6. QED BY <2>1, <2>2, <2>3, <2>4, <2>5
<1>2. QED BY <1>a, <1>1 DEF TypeOK, InType, out

\* What is on the wire: the WIZnet driver leaves no packet half sent, mbedTLS holds a
\* packet only once it has stalled, and a packet reported sent is.
WireInv ==
    /\ transport = "wiznet" /\ Sending => wired[Newest] = 0
    /\ ~stalled => held = 0
    /\ SuccessMeansSent

StreamInv == TypeOK /\ WireInv

\* A packet's result, and what it says of the wire.
LEMMA SaysType ==
    ASSUME TypeOK, Sending, NEW value \in {"SUCCESS", "FAILURE"}, Says(value)
    PROVE  /\ result' \in Seq({"none", "SUCCESS", "FAILURE"}) /\ Len(result') = Len(result)
           /\ result'[Newest] = value /\ ~Sending' /\ Newest' = Newest
           /\ \A p \in 1..Len(result) : p # Newest => result'[p] = result[p]
<1>1. Newest \in 1..Len(result) BY SendingType
<1>2. result \in Seq({"none", "SUCCESS", "FAILURE"}) BY DEF TypeOK
<1>3. /\ result' \in Seq({"none", "SUCCESS", "FAILURE"}) /\ Len(result') = Len(result)
      /\ result'[Newest] = value
      /\ \A p \in 1..Len(result) : p # Newest => result'[p] = result[p]
  BY <1>1, <1>2 DEF Says
<1>4. QED BY <1>3 DEF Sending, Newest

\* Each step of sending a packet keeps the types, and what is said of the wire.
LEMMA SendStep ==
    ASSUME StreamInv, sendPacket \/ Write \/ WriteTLS \/ WriteFails
    PROVE  StreamInv'
<1>a. TypeOK /\ WireInv BY DEF StreamInv
<1>b. OutSize \in Nat \ {0} OBVIOUS
<1>c. /\ wired \in Seq(0..OutSize) /\ Len(wired) = Len(result)
      /\ result \in Seq({"none", "SUCCESS", "FAILURE"}) /\ held \in 0..Len(result)
  BY <1>a DEF TypeOK
<1>d. UNCHANGED <<transport, link, sent, read, late, acted, torn>>
      /\ phase' \in {phase, "idle"}
  BY DEF sendPacket, Write, WriteTLS, WriteFails, in
<1>e. OutType' /\ stalled' \in BOOLEAN => TypeOK'
  <2>1. InType' BY <1>a, <1>d DEF TypeOK, InType, Arriving, Current, Left
  <2>2. QED BY <1>a, <1>d, <2>1 DEF TypeOK, InType, OutType
<1>1. CASE sendPacket
  <2>1. wired' = Append(wired, 0) /\ result' = Append(result, "none")
        /\ UNCHANGED <<transport, held, stalled>>
    BY <1>1 DEF sendPacket
  <2>2. OutType' /\ stalled' \in BOOLEAN BY <1>a, <1>c, <2>1 DEF OutType, TypeOK
  <2>3. Newest' = Len(wired) + 1 /\ wired'[Len(wired) + 1] = 0 BY <1>c, <2>1 DEF Newest
  <2>4. SuccessMeansSent' BY <1>a, <1>c, <2>1 DEF WireInv, SuccessMeansSent
  <2>5. QED BY <1>a, <1>e, <2>1, <2>2, <2>3, <2>4 DEF WireInv, StreamInv
<1>2. CASE Write
  <2>1. Sending /\ transport # "tls" /\ UNCHANGED <<transport, held, stalled>>
    BY <1>2 DEF Write
  <2>2. Newest \in 1..Len(wired) /\ Newest \in 1..Len(result) /\ wired[Newest] \in 0..OutSize
        /\ result[Newest] = "none"
    BY <1>a, <2>1, SendingType
  <2>3. PICK k \in IF transport = "rtos" THEN 1..(OutSize - wired[Newest]) ELSE {OutSize} :
          wired' = [wired EXCEPT ![Newest] = @ + k]
          /\ IF wired'[Newest] = OutSize THEN Says("SUCCESS") ELSE UNCHANGED result
    BY <1>2 DEF Write
  <2>4. transport \in {"rtos", "wiznet"} BY <1>a, <2>1 DEF TypeOK
  <2>5. wired[Newest] + k \in 0..OutSize
    <3>1. CASE transport = "rtos" BY <1>b, <2>2, <2>3, <3>1
    <3>2. CASE transport = "wiznet" BY <1>a, <1>b, <2>1, <2>3, <3>2 DEF WireInv
    <3>3. QED BY <2>4, <3>1, <3>2
  <2>6. wired' \in Seq(0..OutSize) /\ Len(wired') = Len(wired)
        /\ wired'[Newest] = wired[Newest] + k
        /\ \A p \in 1..Len(wired) : p # Newest => wired'[p] = wired[p]
    BY <1>c, <2>2, <2>3, <2>5
  <2>7. CASE wired'[Newest] = OutSize
    <3>1. Says("SUCCESS") BY <2>3, <2>7
    <3>2. /\ result' \in Seq({"none", "SUCCESS", "FAILURE"}) /\ Len(result') = Len(result)
          /\ ~Sending' /\ \A p \in 1..Len(result) : p # Newest => result'[p] = result[p]
      BY <1>a, <2>1, <3>1, SaysType
    <3>3. OutType' /\ stalled' \in BOOLEAN BY <1>a, <1>c, <2>1, <2>6, <3>2 DEF OutType, TypeOK
    <3>4. SuccessMeansSent'
      BY <1>a, <1>c, <2>1, <2>6, <2>7, <3>2 DEF WireInv, SuccessMeansSent
    <3>5. QED BY <1>a, <1>e, <2>1, <3>2, <3>3, <3>4 DEF WireInv, StreamInv
  <2>8. CASE wired'[Newest] # OutSize
    <3>1. UNCHANGED result BY <2>3, <2>8
    <3>2. transport = "rtos"
      BY <1>a, <1>b, <2>1, <2>3, <2>4, <2>6, <2>8 DEF WireInv
    <3>3. OutType' /\ stalled' \in BOOLEAN BY <1>a, <1>c, <2>1, <2>6, <3>1 DEF OutType, TypeOK
    <3>4. SuccessMeansSent'
      BY <1>a, <1>c, <2>1, <2>2, <2>6, <3>1 DEF WireInv, SuccessMeansSent
    <3>5. QED BY <1>a, <1>e, <2>1, <3>2, <3>3, <3>4 DEF WireInv, StreamInv
  <2>9. QED BY <2>7, <2>8
<1>3. CASE WriteTLS
  <2>1. Sending /\ transport = "tls" /\ Says("SUCCESS") /\ UNCHANGED transport
    BY <1>3 DEF WriteTLS
  <2>2. Newest \in 1..Len(wired) /\ Newest \in 1..Len(result)
    BY <1>a, <2>1, SendingType
  <2>3. /\ result' \in Seq({"none", "SUCCESS", "FAILURE"}) /\ Len(result') = Len(result)
        /\ \A p \in 1..Len(result) : p # Newest => result'[p] = result[p]
    BY <1>a, <2>1, SaysType
  <2>4. CASE /\ wired' = [wired EXCEPT ![IF held = 0 THEN Newest ELSE held] = OutSize]
             /\ held' = 0 /\ UNCHANGED stalled
    <3>1. DEFINE p == IF held = 0 THEN Newest ELSE held
    <3>2. p \in 1..Len(wired) BY <1>c, <2>2
    <3>3. wired' \in Seq(0..OutSize) /\ Len(wired') = Len(wired) /\ wired'[p] = OutSize
          /\ \A q \in 1..Len(wired) : q # p => wired'[q] = wired[q]
      BY <1>b, <1>c, <2>4, <3>2
    <3>4. OutType' /\ stalled' \in BOOLEAN BY <1>a, <1>c, <2>3, <2>4, <3>3 DEF OutType, TypeOK
    <3>5. SuccessMeansSent'
      <4>1. ASSUME ~stalled PROVE p = Newest BY <1>a, <4>1 DEF WireInv
      <4>2. QED BY <1>a, <1>c, <2>3, <2>4, <3>3, <4>1 DEF WireInv, SuccessMeansSent
    <3>6. QED BY <1>e, <2>1, <2>4, <3>4, <3>5 DEF WireInv, StreamInv
  <2>5. CASE /\ held' = IF held = 0 THEN Newest ELSE held
             /\ stalled' = TRUE /\ UNCHANGED wired
    <3>1. held' \in 0..Len(result) BY <1>c, <2>2, <2>5
    <3>2. OutType' /\ stalled' \in BOOLEAN BY <1>c, <2>3, <2>5, <3>1 DEF OutType
    <3>3. QED BY <1>e, <2>1, <2>5, <3>2 DEF WireInv, StreamInv, SuccessMeansSent
  <2>6. QED BY <1>3, <2>4, <2>5 DEF WriteTLS
<1>4. CASE WriteFails
  <2>1. Sending /\ Says("FAILURE") /\ UNCHANGED <<wired, held, stalled>>
    BY <1>4 DEF WriteFails
  <2>2. Newest \in 1..Len(result) BY <1>a, <2>1, SendingType
  <2>3. /\ result' \in Seq({"none", "SUCCESS", "FAILURE"}) /\ Len(result') = Len(result)
        /\ result'[Newest] = "FAILURE" /\ ~Sending'
        /\ \A p \in 1..Len(result) : p # Newest => result'[p] = result[p]
    BY <1>a, <2>1, SaysType
  <2>4. OutType' /\ stalled' \in BOOLEAN BY <1>a, <1>c, <2>1, <2>3 DEF OutType, TypeOK
  <2>5. SuccessMeansSent' BY <1>a, <1>c, <2>1, <2>2, <2>3 DEF WireInv, SuccessMeansSent
  <2>6. QED BY <1>a, <1>e, <2>1, <2>3, <2>4, <2>5 DEF WireInv, StreamInv
<1>5. QED BY <1>1, <1>2, <1>3, <1>4

-----------------------------------------------------------------------------
\* Nothing is read, written or held back at first.
LEMMA StreamInit ==
    ASSUME Init
    PROVE  StreamInv
<1>1. /\ transport \in Transports /\ {link, late, torn, stalled} \subseteq BOOLEAN
      /\ phase = "idle" /\ read = 0 /\ held = 0 /\ stalled = FALSE
  BY DEF Init
<1>2. sent = << >> /\ acted = << >> /\ wired = << >> /\ result = << >> BY DEF Init
<1>3. TypeOK BY <1>1, <1>2 DEF TypeOK
<1>4. WireInv BY <1>1, <1>2 DEF WireInv, SuccessMeansSent, Sending
<1>5. QED BY <1>3, <1>4 DEF StreamInv

\* Every step keeps a read inside its packet, and what is on the wire in step with it.
LEMMA StreamStep ==
    ASSUME StreamInv, [Next]_vars
    PROVE  StreamInv'
<1>a. TypeOK /\ WireInv BY DEF StreamInv
<1>b. UNCHANGED <<transport, out>> => WireInv'
  BY <1>a DEF out, WireInv, SuccessMeansSent, Sending, Newest
<1>1. CASE ReadHeader \/ DecodeLength \/ ReadRest \/ NothingRead \/ LengthCut
           \/ RestCut \/ ReadOutOfStep
  <2>1. UNCHANGED <<transport, out>>
    BY <1>1 DEF ReadHeader, DecodeLength, ReadRest, NothingRead, LengthCut, RestCut,
                ReadOutOfStep
  <2>2. QED BY <1>a, <1>b, <1>1, <2>1, ReadType DEF StreamInv
<1>2. CASE MQTTYield \/ EndCycle \/ Tick \/ BrokerSends \/ LinkFails
  <2>1. UNCHANGED <<transport, out>>
    BY <1>2 DEF MQTTYield, EndCycle, Tick, BrokerSends, LinkFails
  <2>2. QED BY <1>a, <1>b, <1>2, <2>1, AroundType DEF StreamInv
<1>3. CASE sendPacket \/ Write \/ WriteTLS \/ WriteFails BY <1>3, SendStep
<1>4. CASE UNCHANGED vars
  BY <1>4 DEF vars, in, out, StreamInv, TypeOK, WireInv, SuccessMeansSent, Sending, Newest,
              Arriving, Current, Left
<1>5. QED BY <1>1, <1>2, <1>3, <1>4 DEF Next, Task

\* So the invariant holds throughout.
LEMMA StreamInvariant == Spec => []StreamInv
<1>1. Init => StreamInv BY StreamInit
<1>2. StreamInv /\ [Next]_vars => StreamInv' BY StreamStep
<1>3. QED BY <1>1, <1>2, PTL DEF Spec

\* Type correctness: a read under way is inside the packet it reads, on every socket
\* and however packets are cut.
THEOREM TypeCorrect == Spec => []TypeOK
<1>1. StreamInv => TypeOK BY DEF StreamInv
<1>2. QED BY <1>1, StreamInvariant, PTL

\* A packet of which sendPacket says SUCCESS is on the wire, each byte once, unless a
\* TLS write has timed out.
THEOREM SuccessMeansSentCorrect == Spec => []SuccessMeansSent
<1>1. StreamInv => SuccessMeansSent BY DEF StreamInv, WireInv
<1>2. QED BY <1>1, StreamInvariant, PTL

\* A plain socket gets out of step only by a time-out inside a packet or the loss of
\* the connection.
THEOREM TornOnlyLateCorrect == Spec => TornOnlyLate
<1>1. ASSUME [Next]_vars, ~torn, torn', transport # "tls" PROVE late \/ ~link
  <2>1. CASE ReadRest BY <1>1, <2>1 DEF ReadRest, Act, InStep
  <2>2. CASE LengthCut BY <1>1, <2>2 DEF LengthCut, ReadEnds
  <2>3. CASE RestCut BY <1>1, <2>3 DEF RestCut, ReadEnds
  <2>4. QED
    BY <1>1, <2>1, <2>2, <2>3
    DEF Next, Task, vars, in, MQTTYield, sendPacket, ReadHeader, DecodeLength, NothingRead,
        ReadOutOfStep, EndCycle, Write, WriteTLS, WriteFails, Tick, BrokerSends, LinkFails
<1>2. [Next]_vars => [~torn /\ torn' /\ transport # "tls" => late \/ ~link]_vars
  BY <1>1
<1>3. QED BY <1>2, PTL DEF Spec, TornOnlyLate

-----------------------------------------------------------------------------
\* Each step of the client is a step of the channel or leaves it alone.
LEMMA StepFramed ==
    ASSUME TypeOK, [Next]_vars
    PROVE  [Framed!ChannelNext]_Framed!channelVars
<1>a. Garbage \in Packet /\ Shapes \subseteq Packet BY DEF Packet
<1> USE DEF Framed!channelVars, Framed!ChannelNext
<1>1. CASE UNCHANGED <<sent, acted, torn>> BY <1>1
<1>2. CASE BrokerSends
  <2>1. PICK p \in Shapes : sent' = Append(sent, p) BY <1>2 DEF BrokerSends
  <2>2. Framed!Put(p) BY <1>2, <2>1 DEF BrokerSends, Framed!Put
  <2>3. QED BY <1>a, <2>1, <2>2
<1>3. CASE Act(Current) /\ InStep /\ UNCHANGED <<sent, torn>>
  BY <1>3 DEF Act, InStep, Arriving, Current, Framed!Take
<1>4. CASE ReadOutOfStep
  <2>1. CASE Act(Garbage) BY <1>a, <1>4, <2>1 DEF ReadOutOfStep, Act, Framed!OutOfStep
  <2>2. CASE GiveUp BY <1>4, <2>2 DEF ReadOutOfStep, GiveUp
  <2>3. QED BY <1>4, <2>1, <2>2 DEF ReadOutOfStep
<1>5. CASE ReadRest
  <2>1. CASE GiveUp /\ torn' = TRUE
    BY <1>5, <2>1 DEF ReadRest, GiveUp, InStep, Arriving, Framed!Break
  <2>2. QED BY <1>1, <1>3, <1>5, <2>1 DEF ReadRest
<1>6. CASE LengthCut
  <2>1. Arriving /\ ~torn /\ torn' = TRUE BY <1>6 DEF LengthCut, ReadEnds, TypeOK
  <2>2. CASE Act(Garbage) BY <1>a, <1>6, <2>1, <2>2 DEF LengthCut, Act, Arriving, Framed!Break
  <2>3. CASE UNCHANGED acted BY <1>6, <2>1, <2>3 DEF LengthCut, Arriving, Framed!Break
  <2>4. QED BY <1>6, <2>2, <2>3 DEF LengthCut
<1>7. CASE RestCut
  <2>1. Arriving /\ ~torn /\ torn' = TRUE BY <1>7 DEF RestCut, ReadEnds, TypeOK
  <2>2. QED BY <1>7, <2>1 DEF RestCut, GiveUp, Arriving, Framed!Break
<1>8. CASE DecodeLength BY <1>1, <1>3, <1>8 DEF DecodeLength
<1>9. QED
  BY <1>1, <1>2, <1>4, <1>5, <1>6, <1>7, <1>8
  DEF Next, Task, vars, in, MQTTYield, sendPacket, ReadHeader, NothingRead, GiveUp,
      EndCycle, Write, WriteTLS, WriteFails, Tick, LinkFails

\* The client implements the channel: on every socket, and for packets of every
\* shape, it reads them whole and in order until a read stops inside one.
THEOREM ImplementsFramedChannelCorrect == Spec => ImplementsFramedChannel
<1>1. Init => Framed!ChannelInit BY DEF Init, Framed!ChannelInit
<1>2. StreamInv /\ [Next]_vars => [Framed!ChannelNext]_Framed!channelVars
  BY StepFramed DEF StreamInv
<1>3. QED
  BY <1>1, <1>2, StreamInvariant, PTL DEF Spec, ImplementsFramedChannel, Framed!ChannelSpec
=============================================================================
