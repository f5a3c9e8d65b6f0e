------------------------ MODULE FreeRTOSAgent_proofs ------------------------
(***************************************************************************)
(* The FreeRTOS management agent, proved: its types; that every report      *)
(* carries its own sampling, however deep the reports nest; that the         *)
(* registration never steps back; that there is one chain of requests; that  *)
(* each step acts on its own response; and that the stack of nested calls    *)
(* is shallow.  The calls that nest are used through one lemma for each      *)
(* action of NestedCalls, the packets on their way through counts of them    *)
(* by position: every packet that is read or arrives shifts or extends them. *)
(***************************************************************************)
EXTENDS FreeRTOSAgent, TLAPS, FiniteSetTheorems, SequenceTheorems

-----------------------------------------------------------------------------
(* Calls that nest.                                                          *)

AnyCall  == Publications \cup {Yield}
AnyFrame == [call : AnyCall, msg : Message \cup {NoMessage}]
CallsOK  == frames \in Seq(AnyFrame) /\ late \in 0..Len(frames)

\* A call is made: one more frame, with no delivery under way.
LEMMA CallMade ==
    ASSUME CallsOK, NEW c \in AnyCall, Client!Call(c)
    PROVE  /\ CallsOK'
           /\ Len(frames') = Len(frames) + 1
           /\ frames'[Len(frames) + 1].call = c
           /\ \A i \in 1..Len(frames) : frames'[i] = frames[i]
<1> DEFINE f == [call |-> c, msg |-> NoMessage]
<1>1. f \in AnyFrame
  BY DEF AnyFrame
<1>2. f.call = c
  OBVIOUS
<1> HIDE DEF f
<1>3. frames' = Append(frames, f) /\ late' = late
  BY DEF Client!Call, f
<1>4. frames \in Seq(AnyFrame) /\ Len(frames) \in Nat /\ late \in 0..Len(frames)
  BY DEF CallsOK
<1>5. /\ frames' \in Seq(AnyFrame)
      /\ Len(frames') = Len(frames) + 1
      /\ frames'[Len(frames) + 1] = f
      /\ \A i \in 1..Len(frames) : frames'[i] = frames[i]
  BY <1>1, <1>3, <1>4, AppendProperties
<1> QED
  BY <1>2, <1>3, <1>4, <1>5 DEF CallsOK

\* Calls go on: what each delivers may change, not what it is.
CallsGoOn == Len(frames') = Len(frames) /\ \A i \in 1..Len(frames) : frames'[i].call = frames[i].call

\* A delivery begins or ends.
LEMMA CallDelivers ==
    ASSUME CallsOK, frames # << >>, NEW m \in Message \cup {NoMessage},
           frames' = [frames EXCEPT ![Len(frames)] = [call |-> @.call, msg |-> m]],
           late' = late
    PROVE  /\ CallsOK' /\ CallsGoOn
           /\ frames'[Len(frames)].msg = m
           /\ \A i \in 1..Len(frames) : i # Len(frames) => frames'[i] = frames[i]
<1>1. frames \in Seq(AnyFrame) /\ Len(frames) \in 1..Len(frames) /\ late \in 0..Len(frames)
  BY DEF CallsOK
<1> DEFINE f == [call |-> frames[Len(frames)].call, msg |-> m]
<1>2. frames[Len(frames)] \in AnyFrame
  BY <1>1, ElementOfSeq
<1>3. f \in AnyFrame /\ f.call = frames[Len(frames)].call /\ f.msg = m
  BY <1>2 DEF AnyFrame
<1>4. frames' = [frames EXCEPT ![Len(frames)] = f]
  OBVIOUS
<1> HIDE DEF f
<1>5. /\ frames' \in Seq(AnyFrame) /\ Len(frames') = Len(frames)
      /\ \A i \in 1..Len(frames) : frames'[i] = IF i = Len(frames) THEN f ELSE frames[i]
  BY <1>1, <1>3, <1>4, ExceptSeq
<1> QED
  BY <1>1, <1>3, <1>5 DEF CallsOK, CallsGoOn

\* Likewise for the actions of NestedCalls.
LEMMA CallBegins ==
    ASSUME CallsOK, NEW m \in Message, Client!BeginDelivery(m)
    PROVE  CallsOK' /\ CallsGoOn
BY CallDelivers DEF Client!BeginDelivery, Client!Reading, Client!NoCalls

\* The innermost delivery ends.
LEMMA CallFinishes ==
    ASSUME CallsOK, Client!FinishDelivery
    PROVE  CallsOK' /\ CallsGoOn
BY CallDelivers DEF Client!FinishDelivery, Client!InDelivery, Client!NoCalls

\* The outermost calls of a stack.
LEMMA FirstCalls ==
    ASSUME NEW s \in Seq(AnyFrame), NEW k \in 0..Len(s)
    PROVE  /\ SubSeq(s, 1, k) \in Seq(AnyFrame)
           /\ Len(SubSeq(s, 1, k)) = k
           /\ \A i \in 1..k : SubSeq(s, 1, k)[i] = s[i]
<1>1. \A i \in 1..k : s[i] \in AnyFrame
  BY ElementOfSeq
<1> QED
  BY <1>1, SubSeqProperties

\* The innermost call returns.
LEMMA CallReturns ==
    ASSUME CallsOK, Client!Return
    PROVE  /\ CallsOK'
           /\ Len(frames) \in Nat \ {0} /\ Len(frames') = Len(frames) - 1
           /\ \A i \in 1..Len(frames') : frames'[i] = frames[i]
           /\ Client!Inner.call \in AnyCall
<1>1. /\ frames \in Seq(AnyFrame) /\ frames # << >> /\ Len(frames) \in Nat /\ Len(frames) # 0
      /\ late \in 0..Len(frames)
  BY DEF CallsOK, Client!Return, Client!NoCalls
<1>2. \A i \in 1..Len(frames) : frames[i] \in AnyFrame
  BY <1>1, ElementOfSeq
<1>3. frames' = SubSeq(frames, 1, Len(frames) - 1)
  BY DEF Client!Return
<1>4. /\ frames' \in Seq(AnyFrame) /\ Len(frames') = Len(frames) - 1
      /\ \A i \in 1..(Len(frames) - 1) : frames'[i] = frames[i]
  <2>1. Len(frames) - 1 \in 0..Len(frames)
    BY <1>1
  <2> QED
    BY <1>1, <1>3, <2>1, FirstCalls
<1>5. late' \in 0..(Len(frames) - 1)
  BY <1>1 DEF Client!Return, Client!IsLate
<1>6. Client!Inner.call \in AnyCall
  BY <1>1, <1>2 DEF Client!Inner, AnyFrame
<1> QED
  BY <1>1, <1>4, <1>5, <1>6 DEF CallsOK

\* A deadline passes.
LEMMA CallLate == ASSUME CallsOK, Client!DeadlinePasses PROVE CallsOK' /\ CallsGoOn
BY DEF CallsOK, CallsGoOn, Client!DeadlinePasses

\* Nothing happens to the calls.
LEMMA CallsRest == ASSUME CallsOK, UNCHANGED calls PROVE CallsOK' /\ CallsGoOn
BY DEF CallsOK, CallsGoOn, calls

-----------------------------------------------------------------------------
(* Types.                                                                    *)

\* The rest of TypeOK: the agent, what is on its way, what happened.
AgentOK ==
    /\ ONEM2M_V1_12 \in Builds /\ stage \in {"create", "loop", "exit", "ended", "fault"}
    /\ mStep \in Resource \cup {"end"} /\ next \in Request \cup {"none"}
    /\ held \in [Identity -> Request \cup {"none"}]
    /\ gContent \in Nat
    /\ answeredBy \in [Resource -> SUBSET Request]
OutsideOK ==
    /\ unacked \in Nat /\ link \in BOOLEAN
    /\ toClient \in Seq(Message \cup {Ack}) /\ asked \in Seq(Request)
    /\ happened \in [Event -> Nat]
SlotsOK ==
    /\ readbuf \in Request \cup {"command", "none"}
    /\ slotsLeft \subseteq {i \in 1..Len(frames) : frames[i].msg.kind = "command"}

\* TypeOK in these parts.
LEMMA TypeParts == TypeOK <=> CallsOK /\ AgentOK /\ OutsideOK /\ SlotsOK
BY DEF TypeOK, CallsOK, AgentOK, OutsideOK, SlotsOK, AnyFrame, AnyCall

\* What follows a step is a resource, the end, or nothing.
LEMMA FollowType == \A step, h : Follow(step, h) \in Resource \cup {"end", "none"}
BY DEF Follow, Resource

\* Events are only counted.
LEMMA HappenType ==
    ASSUME happened \in [Event -> Nat], NEW events, Happen(events)
    PROVE  happened' \in [Event -> Nat]
BY DEF Happen

\* What is read is a message, and the agent acts on a response or a command.
LEMMA ReadType ==
    ASSUME OutsideOK, toClient # << >>
    PROVE  /\ Head(toClient) \in Message \cup {Ack}
           /\ Tail(toClient) \in Seq(Message \cup {Ack})
           /\ Head(toClient).kind \in Request => Head(toClient) \in Message
           /\ Head(toClient).kind = "command" => Head(toClient) \in Message
<1>1. Head(toClient) \in Message \cup {Ack} /\ Tail(toClient) \in Seq(Message \cup {Ack})
  BY DEF OutsideOK
<1>2. Ack.kind \notin Request /\ Ack.kind # "command"
  BY DEF Ack, Request, Resource
<1> QED
  BY <1>1, <1>2

\* Whatever the agent does, its calls take a step of NestedCalls or rest.
LEMMA CallsStep == TypeOK /\ Next => Client!CallsNext \/ UNCHANGED calls
<1> SUFFICES ASSUME TypeOK, Next PROVE Client!CallsNext \/ UNCHANGED calls
  OBVIOUS
<1>1. CallsOK /\ AgentOK /\ OutsideOK
  BY TypeParts
<1> USE DEF Client!CallsNext
<1>2. CASE tpMQTTCreate \/ Leave \/ Duplicate \/ SecondSlot
  BY <1>2 DEF tpMQTTCreate, Leave, Duplicate, SecondSlot, client
<1>3. CASE MainLoop
  BY <1>3 DEF MainLoop
<1>4. CASE ProcessCMD \/ Response
  BY <1>1, <1>4, ReadType DEF ProcessCMD, Response, readPacket
<1>5. CASE HandlerReturns
  BY <1>5 DEF HandlerReturns
<1>6. CASE Acknowledged \/ TimedOut
  BY <1>6 DEF Acknowledged, TimedOut, PublishReturns, client
<1>7. CASE Publish
  <2> DEFINE c == Publication(next, IF next = "contentInstance" THEN gContent + 1 ELSE 0)
  <2>1. next \in Request /\ gContent \in Nat
    BY <1>1, <1>7 DEF Publish, AgentOK
  <2>2. c \in Publications
    BY <2>1 DEF Publication, Publications
  <2>3. Client!Call(c) \/ UNCHANGED calls
    BY <1>7 DEF Publish
  <2> HIDE DEF c
  <2> QED
    BY <2>2, <2>3
<1>8. CASE DeadlinePasses
  BY <1>8 DEF DeadlinePasses
<1>9. CASE BrokerAcks \/ PlatformAnswers \/ PlatformCommands \/ BrokerRepeats \/ LinkFails
  BY <1>9 DEF BrokerAcks, PlatformAnswers, PlatformCommands, BrokerRepeats, LinkFails, Outside,
     client
<1> QED
  BY <1>2, <1>3, <1>4, <1>5, <1>6, <1>7, <1>8, <1>9 DEF Next, Task, Read

\* So the calls keep their type.
LEMMA CallsNext == TypeOK /\ Next => CallsOK'
<1> SUFFICES ASSUME TypeOK, Next PROVE CallsOK'
  OBVIOUS
<1>1. CallsOK
  BY TypeParts
<1>2. CASE \E c \in AnyCall : Client!Call(c)
  BY <1>1, <1>2, CallMade
<1>3. CASE \E m \in Message : Client!BeginDelivery(m)
  BY <1>1, <1>3, CallBegins
<1>4. CASE Client!FinishDelivery \/ Client!Return \/ Client!DeadlinePasses \/ UNCHANGED calls
  BY <1>1, <1>4, CallFinishes, CallReturns, CallLate, CallsRest
<1> QED
  BY <1>2, <1>3, <1>4, CallsStep DEF Client!CallsNext, AnyCall

\* What the handler does with a response keeps the agent's own variables typed.
LEMMA HandlerType ==
    ASSUME AgentOK, NEW kind \in Request, NEW pc, MQTTMessageArrived(kind, pc),
           UNCHANGED <<ONEM2M_V1_12, gContent>>
    PROVE  AgentOK'
<1> DEFINE found == {i \in Reads(mStep) : pc /\ Carries(kind, i)}
           step == Follow(mStep, held')
<1>1. CASE stage' = "fault" /\ UNCHANGED <<agent, answeredBy>>
  BY <1>1 DEF AgentOK, agent
<1>2. CASE /\ UNCHANGED stage
           /\ held' = [i \in Identity |-> IF i \in found THEN kind ELSE held[i]]
           /\ mStep' = IF step = "none" THEN mStep ELSE step
           /\ next' = IF step \in Resource THEN step ELSE "none"
           /\ answeredBy' = IF mStep \in Resource
                            THEN [answeredBy EXCEPT ![mStep] = @ \cup {kind}]
                            ELSE answeredBy
  <2>1. step \in Resource \cup {"end", "none"}
    BY FollowType
  <2> HIDE DEF found, step
  <2>2. held' \in [Identity -> Request \cup {"none"}]
    BY <1>2 DEF AgentOK
  <2>3. mStep' \in Resource \cup {"end"} /\ next' \in Request \cup {"none"}
    BY <1>2, <2>1 DEF AgentOK, Request
  <2>4. answeredBy' \in [Resource -> SUBSET Request]
    BY <1>2 DEF AgentOK
  <2> QED
    BY <1>2, <2>2, <2>3, <2>4 DEF AgentOK
<1> QED
  BY <1>1, <1>2 DEF MQTTMessageArrived

\* Every step keeps the agent's own variables typed.
LEMMA AgentNext == TypeOK /\ Next => AgentOK'
<1> SUFFICES ASSUME TypeOK, Next PROVE AgentOK'
  OBVIOUS
<1>1. CallsOK /\ AgentOK /\ OutsideOK
  BY TypeParts
<1>2. UNCHANGED <<ONEM2M_V1_12, stage, agent, gContent, answeredBy>> => AgentOK'
  BY <1>1 DEF AgentOK, agent
<1>3. CASE tpMQTTCreate \/ Leave
  BY <1>1, <1>3 DEF tpMQTTCreate, Leave, AgentOK, agent, record, Request, Resource
<1>4. CASE MainLoop \/ Duplicate \/ HandlerReturns \/ DeadlinePasses
  BY <1>2, <1>4 DEF MainLoop, Duplicate, readPacket, HandlerReturns, DeadlinePasses, record
<1>5. CASE ProcessCMD
  BY <1>1, <1>5 DEF ProcessCMD, readPacket, AgentOK, Request
<1>6. CASE Response \/ SecondSlot
  <2>1. /\ UNCHANGED <<ONEM2M_V1_12, gContent>>
        /\ \E kind \in Request : \E pc : MQTTMessageArrived(kind, pc)
    BY <1>6 DEF Response, readPacket, SecondSlot
  <2> QED
    BY <1>1, <2>1, HandlerType
<1>7. CASE Publish
  BY <1>1, <1>7 DEF Publish, Report, AgentOK, record
<1>8. CASE Acknowledged \/ TimedOut
  BY <1>1, <1>8 DEF Acknowledged, TimedOut, PublishReturns, AgentOK, agent, record
<1>9. CASE BrokerAcks \/ PlatformAnswers \/ PlatformCommands \/ BrokerRepeats \/ LinkFails
  BY <1>2, <1>9 DEF BrokerAcks, PlatformAnswers, PlatformCommands, BrokerRepeats, LinkFails, Outside
<1> QED
  BY <1>3, <1>4, <1>5, <1>6, <1>7, <1>8, <1>9 DEF Next, Task, Read

\* Every step keeps what is on its way packets and requests.
LEMMA OutsideNext == TypeOK /\ Next => OutsideOK'
<1> SUFFICES ASSUME TypeOK, Next PROVE OutsideOK'
  OBVIOUS
<1>1. CallsOK /\ AgentOK /\ OutsideOK
  BY TypeParts
<1>2. UNCHANGED <<wire, happened>> => OutsideOK'
  BY <1>1 DEF OutsideOK, wire
<1>3. CASE tpMQTTCreate \/ MainLoop \/ SecondSlot \/ HandlerReturns \/ TimedOut \/ DeadlinePasses
  BY <1>2, <1>3 DEF tpMQTTCreate, MainLoop, SecondSlot, HandlerReturns, TimedOut, PublishReturns,
     DeadlinePasses, wire, record
<1>4. CASE Leave
  <2>1. /\ toClient' = << >> /\ asked' = << >> /\ unacked' = 0 /\ link' = FALSE
        /\ happened' = happened
    BY <1>4 DEF Leave, record
  <2>2. << >> \in Seq(Message \cup {Ack}) /\ << >> \in Seq(Request) /\ 0 \in Nat
    BY EmptySeq
  <2> QED
    BY <1>1, <2>1, <2>2 DEF OutsideOK
<1>5. CASE Duplicate \/ ProcessCMD \/ Response \/ Acknowledged
  <2>1. /\ toClient # << >> /\ toClient' = Tail(toClient)
        /\ UNCHANGED <<link, unacked, asked, happened>>
    BY <1>5 DEF Duplicate, ProcessCMD, Response, readPacket, Acknowledged,
       PublishReturns, record
  <2> QED
    BY <1>1, <2>1 DEF OutsideOK
<1>6. CASE Publish
  <2>1. next \in Request
    BY <1>1, <1>6 DEF Publish, AgentOK
  <2>2. /\ UNCHANGED <<link, toClient, happened>>
        /\ \/ asked' = Append(asked, next) /\ unacked' = unacked + 1
           \/ UNCHANGED <<asked, unacked>>
    BY <1>6 DEF Publish, record
  <2>3. Append(asked, next) \in Seq(Request) /\ unacked + 1 \in Nat
    BY <1>1, <2>1 DEF OutsideOK
  <2> QED
    BY <1>1, <2>2, <2>3 DEF OutsideOK
<1>7. \A m \in Message \cup {Ack} : Append(toClient, m) \in Seq(Message \cup {Ack})
  BY <1>1 DEF OutsideOK
<1>8. CASE BrokerAcks
  BY <1>1, <1>7, <1>8 DEF BrokerAcks, OutsideOK
<1>9. CASE PlatformAnswers
  <2>1. /\ asked # << >> /\ asked' = Tail(asked) /\ UNCHANGED <<link, unacked>>
        /\ happened' \in [Event -> Nat]
    BY <1>1, <1>9, HappenType DEF PlatformAnswers, OutsideOK
  <2>2. Head(asked) \in Request /\ Tail(asked) \in Seq(Request)
    BY <1>1, <2>1 DEF OutsideOK
  <2>3. \A ok \in BOOLEAN : [kind |-> Head(asked), pc |-> ok, dup |-> FALSE] \in Message
    BY <2>2 DEF Message
  <2>4. toClient' \in Seq(Message \cup {Ack})
    BY <1>1, <1>7, <1>9, <2>3 DEF PlatformAnswers, OutsideOK
  <2> QED
    BY <1>1, <2>1, <2>2, <2>4 DEF OutsideOK
<1>10. CASE PlatformCommands
  <2>1. [kind |-> "command", pc |-> TRUE, dup |-> FALSE] \in Message
    BY DEF Message
  <2> QED
    BY <1>1, <1>7, <1>10, <2>1, HappenType DEF PlatformCommands, OutsideOK
<1>11. CASE BrokerRepeats
  <2>1. \A m \in Message : [m EXCEPT !.dup = TRUE] \in Message
    BY DEF Message
  <2>2. toClient' \in Seq(Message \cup {Ack})
    BY <1>7, <1>11, <2>1 DEF BrokerRepeats
  <2> QED
    BY <1>1, <1>11, <2>2, HappenType DEF BrokerRepeats, OutsideOK
<1>12. CASE LinkFails
  <2>1. toClient' = << >> /\ asked' = << >> /\ unacked' = 0 /\ link' = FALSE
    BY <1>12 DEF LinkFails
  <2>2. << >> \in Seq(Message \cup {Ack}) /\ << >> \in Seq(Request) /\ 0 \in Nat
    BY EmptySeq
  <2>3. happened' \in [Event -> Nat]
    BY <1>1, <1>12, HappenType DEF LinkFails, OutsideOK
  <2> QED
    BY <2>1, <2>2, <2>3 DEF OutsideOK
<1> QED
  BY <1>3, <1>4, <1>5, <1>6, <1>8, <1>9, <1>10, <1>11, <1>12 DEF Next, Task, Read

\* A call that waits delivers nothing, so it has no slot ahead.
LEMMA WaitsForPacket == SlotsOK /\ Client!Reading => Len(frames) \notin slotsLeft
BY DEF SlotsOK, Client!Reading, Client!Inner, NoMessage

\* Every step keeps the slots ahead those of commands under delivery.
LEMMA SlotsNext == TypeOK /\ Next => SlotsOK'
<1> SUFFICES ASSUME TypeOK, Next PROVE SlotsOK'
  OBVIOUS
<1>1. CallsOK /\ AgentOK /\ OutsideOK /\ SlotsOK /\ Len(frames) \in Nat
  BY TypeParts DEF CallsOK
<1> DEFINE Frame(i) == i \in 1..Len(frames) /\ frames[i].msg.kind = "command"
           Read2 == readbuf' \in Request \cup {"command", "none"}
<1>2. (\A i \in slotsLeft : Frame(i)) /\ readbuf \in Request \cup {"command", "none"}
  BY <1>1 DEF SlotsOK
<1>3. Read2 /\ (\A i \in slotsLeft' : Frame(i)') => SlotsOK'
  BY DEF SlotsOK
<1>4. UNCHANGED <<frames, slotsLeft>> => \A i \in slotsLeft' : Frame(i)'
  BY <1>2
<1>5. UNCHANGED readbuf => Read2
  BY <1>2
<1>6. CASE tpMQTTCreate \/ Leave \/ DeadlinePasses
  BY <1>3, <1>4, <1>5, <1>6 DEF tpMQTTCreate, Leave, DeadlinePasses, Client!DeadlinePasses,
     client, calls
<1>7. CASE BrokerAcks \/ PlatformAnswers \/ PlatformCommands \/ BrokerRepeats \/ LinkFails
  BY <1>3, <1>4, <1>5, <1>7 DEF BrokerAcks, PlatformAnswers, PlatformCommands, BrokerRepeats,
     LinkFails, Outside, client, calls
<1>8. CASE MainLoop \/ Publish
  <2>1. UNCHANGED <<slotsLeft, readbuf>>
    BY <1>8 DEF MainLoop, Publish
  <2>2. UNCHANGED frames \/ \E c : frames' = Append(frames, [call |-> c, msg |-> NoMessage])
    BY <1>8 DEF MainLoop, Publish, Client!Call, calls
  <2>3. frames \in Seq(AnyFrame)
    BY <1>1 DEF CallsOK
  <2>4. ASSUME NEW f, frames' = Append(frames, f) PROVE \A i \in slotsLeft : Frame(i)'
    <3>1. \A i \in 1..Len(frames) : frames'[i] = frames[i] /\ i \in 1..Len(frames')
      BY <1>1, <2>3, <2>4
    <3> QED
      BY <1>2, <3>1
  <2>5. \A i \in slotsLeft' : Frame(i)'
    BY <1>4, <2>1, <2>2, <2>4
  <2> HIDE DEF Frame
  <2> QED
    BY <1>3, <1>5, <2>1, <2>5
<1>9. CASE Duplicate \/ ProcessCMD \/ Response
  <2>1. /\ toClient # << >> /\ Client!Reading
        /\ readbuf' = IF slotsLeft = {} THEN "none" ELSE Head(toClient).kind
    BY <1>9 DEF Duplicate, ProcessCMD, Response, readPacket
  <2>2. Read2
    <3>1. CASE Head(toClient).kind \in Request \cup {"command"}
      BY <2>1, <3>1
    <3>2. CASE Duplicate
      <4>1. Head(toClient) \in Message
        BY <1>1, <2>1, <3>2, ReadType DEF Duplicate, Ack
      <4> QED
        BY <2>1, <4>1 DEF Message
    <3> QED
      BY <1>9, <3>1, <3>2 DEF ProcessCMD, Response
  <2>3. CASE Duplicate
    <3>1. UNCHANGED <<frames, slotsLeft>>
      BY <2>3 DEF Duplicate, calls
    <3> QED
      BY <1>3, <1>4, <2>2, <3>1
  <2>4. CASE ProcessCMD \/ Response
    <3> DEFINE m == Head(toClient)
    <3>1. m \in Message /\ Client!BeginDelivery(m)
      BY <1>1, <2>1, <2>4, ReadType DEF ProcessCMD, Response
    <3> HIDE DEF m
    <3>2. /\ Len(frames') = Len(frames) /\ frames'[Len(frames)].msg = m
          /\ \A i \in 1..Len(frames) : i # Len(frames) => frames'[i] = frames[i]
      BY <1>1, <3>1, CallDelivers DEF Client!BeginDelivery, Client!Reading, Client!NoCalls, CallsGoOn
    <3>3. Len(frames) \notin slotsLeft
      BY <1>1, <2>1, WaitsForPacket
    <3>4. \A i \in slotsLeft : Frame(i)'
      BY <1>2, <3>2, <3>3
    <3>5. CASE slotsLeft' = slotsLeft
      BY <1>3, <2>2, <3>4, <3>5
    <3>6. CASE slotsLeft' = slotsLeft \cup {Len(frames)} /\ m.kind = "command"
      <4>1. Len(frames) \in 1..Len(frames)
        BY <1>1, <2>1 DEF Client!Reading, Client!NoCalls, CallsOK
      <4>2. \A i \in slotsLeft' : Frame(i)'
        <5>1. Len(frames) \in 1..Len(frames') /\ frames'[Len(frames)].msg.kind = "command"
          BY <3>2, <3>6, <4>1
        <5> QED
          BY <3>4, <3>6, <5>1
      <4> QED
        BY <1>3, <2>2, <4>2
    <3>7. slotsLeft' = slotsLeft \/ (slotsLeft' = slotsLeft \cup {Len(frames)} /\ m.kind = "command")
      BY <2>4 DEF ProcessCMD, Response, m
    <3> QED
      BY <3>5, <3>6, <3>7
  <2> QED
    BY <1>9, <2>3, <2>4
<1>10. CASE SecondSlot
  <2>1. frames' = frames /\ slotsLeft' \subseteq slotsLeft /\ readbuf' \in {"none", readbuf}
    BY <1>10 DEF SecondSlot, SlotsEnd, calls
  <2>2. \A i \in slotsLeft' : Frame(i)'
    BY <1>2, <2>1
  <2>3. Read2
    BY <1>2, <2>1
  <2> QED
    BY <1>3, <2>2, <2>3
<1>11. CASE HandlerReturns
  <2>1. slotsLeft' = slotsLeft \ {Len(frames)} /\ readbuf' \in {"none", readbuf}
    BY <1>11 DEF HandlerReturns, SlotsEnd
  <2>2. \A i \in slotsLeft' : Frame(i)'
    <3>1. CASE Client!FinishDelivery
      <4>1. /\ Len(frames') = Len(frames)
            /\ \A i \in 1..Len(frames) : i # Len(frames) => frames'[i] = frames[i]
        BY <1>1, <3>1, CallDelivers
        DEF Client!FinishDelivery, Client!InDelivery, Client!NoCalls, CallsGoOn
      <4> QED
        BY <1>2, <2>1, <4>1
    <3>2. CASE Client!Return
      <4>1. /\ Len(frames') = Len(frames) - 1
            /\ \A i \in 1..Len(frames') : frames'[i] = frames[i]
        BY <1>1, <3>2, CallReturns
      <4> QED
        BY <1>1, <1>2, <2>1, <4>1
    <3> QED
      BY <1>11, <3>1, <3>2 DEF HandlerReturns
  <2>3. Read2
    BY <1>2, <2>1
  <2> QED
    BY <1>3, <2>2, <2>3
<1>12. CASE Acknowledged \/ TimedOut
  <2>1. UNCHANGED <<slotsLeft, readbuf>> /\ Client!Reading
    BY <1>12 DEF Acknowledged, TimedOut, PublishReturns, client
  <2>2. UNCHANGED frames \/ Client!Return
    BY <1>12 DEF Acknowledged, TimedOut, PublishReturns, client, calls
  <2>3. Len(frames) \notin slotsLeft
    BY <1>1, <2>1, WaitsForPacket
  <2>4. CASE Client!Return
    <3>1. /\ Len(frames') = Len(frames) - 1
          /\ \A i \in 1..Len(frames') : frames'[i] = frames[i]
      BY <1>1, <2>4, CallReturns
    <3>2. \A i \in slotsLeft' : Frame(i)'
      BY <1>1, <1>2, <2>1, <2>3, <3>1
    <3> QED
      BY <1>3, <1>5, <2>1, <3>2
  <2> QED
    BY <1>3, <1>4, <1>5, <2>1, <2>2, <2>4
<1> QED
  BY <1>6, <1>7, <1>8, <1>9, <1>10, <1>11, <1>12 DEF Next, Task, Read

\* The two facts of the induction.
LEMMA InitType == Init => TypeOK
BY DEF Init, TypeOK, Client!CallsInit, Resource, Request

\* Every step keeps the types.
LEMMA NextType == TypeOK /\ [Next]_vars => TypeOK'
<1>1. TypeOK /\ Next => TypeOK'
  <2> SUFFICES ASSUME TypeOK, Next PROVE TypeOK'
    OBVIOUS
  <2>1. CallsOK' /\ AgentOK' /\ OutsideOK' /\ SlotsOK'
    BY CallsNext, AgentNext, OutsideNext, SlotsNext
  <2> QED
    BY <2>1 DEF TypeOK, CallsOK, AgentOK, OutsideOK, SlotsOK, AnyFrame, AnyCall
<1>2. TypeOK /\ UNCHANGED vars => TypeOK'
  BY DEF TypeOK, vars, client, calls, agent, wire, record
<1> QED
  BY <1>1, <1>2

\* Every variable keeps its type, for any bounds on what happens outside.
THEOREM TypeCorrect == Spec => []TypeOK
  BY InitType, NextType, PTL DEF Spec

\* The agent uses the client's calls as NestedCalls allows, and in no other way; and
\* the client implements NestedCalls.
THEOREM AgentCalls == Spec => Client!CallsSpec
<1>1. Init => Client!CallsInit
  BY DEF Init
<1>2. TypeOK /\ [Next]_vars => [Client!CallsNext]_(Client!callVars)
  BY CallsStep DEF vars, client, calls, Client!callVars
<1> QED
  BY <1>1, <1>2, TypeCorrect, PTL DEF Spec, Client!CallsSpec

-----------------------------------------------------------------------------
(* Reports.                                                                  *)

Before(i) == {j \in Reports : j < i}

\* Reports under way are as many as a number can say.
LEMMA ReportsFinite ==
    ASSUME CallsOK
    PROVE  /\ IsFiniteSet(Reports) /\ Cardinality(Reports) \in Nat
           /\ Reports \subseteq 1..Len(frames) /\ Len(frames) \in Nat
<1>1. Len(frames) \in Nat /\ Reports \subseteq 1..Len(frames)
  BY DEF CallsOK, Reports
<1>2. IsFiniteSet(1..Len(frames))
  BY <1>1, FS_Interval
<1> QED
  BY <1>1, <1>2, FS_Subset, FS_CardinalityType

\* A sampling is added only by a report that is then under way itself.
LEMMA SamplingCall ==
    ASSUME CallsOK, OwnSampling, gContent \in Nat,
           NEW c \in AnyCall, Client!Call(c),
           IF c.request = "contentInstance"
           THEN c.samplings = gContent + 1 /\ gContent' = gContent + 1
           ELSE gContent' = gContent
    PROVE  OwnSampling'
<1>1. /\ Len(frames') = Len(frames) + 1 /\ Len(frames) \in Nat
      /\ frames'[Len(frames) + 1].call = c
      /\ \A i \in 1..Len(frames) : frames'[i] = frames[i]
      /\ Reports \subseteq 1..Len(frames) /\ IsFiniteSet(Reports) /\ Cardinality(Reports) \in Nat
  BY CallMade, ReportsFinite
<1> DEFINE new == Len(frames) + 1
<1>2. \A i \in 1..Len(frames') : i \in 1..Len(frames) \/ i = new
  BY <1>1
<1>3. 1..Len(frames) \subseteq 1..Len(frames') /\ new \in 1..Len(frames') /\ new \notin Reports
  BY <1>1
<1>4. Reports' = IF c.request = "contentInstance" THEN Reports \cup {new} ELSE Reports
  BY <1>1, <1>2, <1>3 DEF Reports
<1>5. Cardinality(Reports') = IF c.request = "contentInstance" THEN Cardinality(Reports) + 1
                                                              ELSE Cardinality(Reports)
  BY <1>1, <1>3, <1>4, FS_AddElement
<1>6. gContent' <= Cardinality(Reports')
  BY <1>1, <1>5 DEF OwnSampling
<1>7. ASSUME NEW i \in Reports
      PROVE  frames'[i].call.samplings <= 1 + Cardinality({j \in Reports' : j < i})
  <2>1. ~(new < i)
    BY <1>1, <1>7
  <2>2. {j \in Reports' : j < i} = Before(i)
    BY <1>4, <2>1 DEF Before
  <2> QED
    BY <1>1, <1>7, <2>2 DEF OwnSampling, Before
<1>8. ASSUME c.request = "contentInstance"
      PROVE  frames'[new].call.samplings <= 1 + Cardinality({j \in Reports' : j < new})
  <2>1. \A j \in Reports : j < new
    BY <1>1
  <2>2. new \in Nat /\ ~(new < new) /\ frames'[new].call = c
    BY <1>1
  <2>3. Reports' = Reports \cup {new}
    BY <1>4, <1>8
  <2> HIDE DEF new
  <2>4. {j \in Reports' : j < new} = Reports
    BY <2>1, <2>2, <2>3
  <2>5. c.samplings <= 1 + Cardinality(Reports)
    <3>1. c.samplings = gContent + 1
      BY <1>8
    <3>2. gContent <= Cardinality(Reports)
      BY DEF OwnSampling
    <3> QED
      BY <1>1, <3>1, <3>2
  <2> QED
    BY <2>2, <2>4, <2>5
<1>9. \A i \in Reports' : frames'[i].call.samplings <= 1 + Cardinality({j \in Reports' : j < i})
  BY <1>4, <1>7, <1>8
<1> QED
  BY <1>6, <1>9 DEF OwnSampling

\* The reports that were under way before the one that returns stay as they are, and
\* a report that returns leaves nothing collected.
LEMMA SamplingReturn ==
    ASSUME CallsOK, OwnSampling, gContent \in Nat, Client!Return,
           gContent' = IF Client!Inner.call.request = "contentInstance" THEN 0 ELSE gContent
    PROVE  OwnSampling'
<1>1. /\ Len(frames) \in Nat \ {0} /\ Len(frames') = Len(frames) - 1
      /\ \A i \in 1..Len(frames') : frames'[i] = frames[i]
      /\ Reports \subseteq 1..Len(frames) /\ IsFiniteSet(Reports) /\ Cardinality(Reports) \in Nat
  BY CallReturns, ReportsFinite
<1> DEFINE last == Len(frames)
<1>2. /\ 1..Len(frames') \subseteq 1..Len(frames) /\ last \in 1..Len(frames)
      /\ \A i \in 1..Len(frames) : i \in 1..Len(frames') <=> i # last
  BY <1>1
<1>3. Reports' = Reports \ {last}
  BY <1>1, <1>2 DEF Reports
<1>4. last \in Reports <=> Client!Inner.call.request = "contentInstance"
  BY <1>2 DEF Reports, Client!Inner
<1>5. Cardinality(Reports') \in Nat /\ IsFiniteSet(Reports')
  BY <1>1, <1>3, FS_RemoveElement, FS_CardinalityType
<1>6. gContent' <= Cardinality(Reports')
  <2>1. CASE last \in Reports
    BY <1>4, <1>5, <2>1
  <2>2. CASE last \notin Reports
    <3>1. Reports' = Reports
      BY <1>3, <2>2
    <3> QED
      BY <1>4, <2>2, <3>1 DEF OwnSampling
  <2> QED
    BY <2>1, <2>2
<1>7. ASSUME NEW i \in Reports'
      PROVE  frames'[i].call.samplings <= 1 + Cardinality({j \in Reports' : j < i})
  <2>1. i \in Reports /\ ~(last < i) /\ frames'[i] = frames[i]
    BY <1>1, <1>2, <1>3, <1>7
  <2>2. {j \in Reports' : j < i} = Before(i)
    BY <1>3, <2>1 DEF Before
  <2> QED
    BY <2>1, <2>2 DEF OwnSampling, Before
<1> QED
  BY <1>6, <1>7 DEF OwnSampling

\* While the calls go on, content is kept or freed.
LEMMA SamplingKept ==
    ASSUME CallsOK, OwnSampling, CallsGoOn, gContent' \in {0, gContent}
    PROVE  OwnSampling'
<1>1. Reports' = Reports /\ Cardinality(Reports) \in Nat
  BY ReportsFinite DEF Reports, CallsGoOn
<1>2. \A i \in Reports : frames'[i].call = frames[i].call
  BY DEF Reports, CallsGoOn
<1> QED
  BY <1>1, <1>2 DEF OwnSampling

\* Every step keeps OwnSampling.
LEMMA SamplingNext == TypeOK /\ OwnSampling /\ [Next]_vars => OwnSampling'
<1> SUFFICES ASSUME TypeOK, OwnSampling, [Next]_vars PROVE OwnSampling'
  OBVIOUS
<1>1. CallsOK /\ AgentOK /\ OutsideOK /\ gContent \in Nat
  BY TypeParts DEF AgentOK
<1>2. UNCHANGED calls /\ gContent' \in {0, gContent} => OwnSampling'
  BY <1>1, CallsRest, SamplingKept
<1>3. PublishReturns => OwnSampling'
  BY <1>1, SamplingReturn DEF PublishReturns
<1>4. CASE tpMQTTCreate \/ Leave \/ Duplicate \/ SecondSlot
  BY <1>2, <1>4 DEF tpMQTTCreate, Leave, Duplicate, SecondSlot, readPacket, client
<1>5. CASE MainLoop
  <2>1. Yield \in AnyCall /\ Yield.request # "contentInstance"
    BY DEF Yield, AnyCall
  <2> QED
    BY <1>1, <1>5, <2>1, SamplingCall DEF MainLoop
<1>6. CASE ProcessCMD \/ Response
  BY <1>1, <1>2, <1>6, ReadType, CallBegins, SamplingKept DEF ProcessCMD, Response, readPacket
<1>7. CASE HandlerReturns
  <2>1. gContent' = gContent
    BY <1>7 DEF HandlerReturns
  <2>2. CASE Client!FinishDelivery
    BY <1>1, <2>1, <2>2, CallFinishes, SamplingKept
  <2>3. CASE Client!Inner.call = Yield /\ Client!Return
    <3>1. Client!Inner.call.request # "contentInstance"
      BY <2>3 DEF Yield
    <3> QED
      BY <1>1, <2>1, <2>3, <3>1, SamplingReturn
  <2> QED
    BY <1>7, <2>2, <2>3 DEF HandlerReturns
<1>8. CASE Acknowledged \/ TimedOut
  BY <1>2, <1>3, <1>8 DEF Acknowledged, TimedOut, client
<1>9. CASE Publish
  <2> DEFINE samplings == IF next = "contentInstance" THEN gContent + 1 ELSE 0
             c == Publication(next, samplings)
  <2>1. next \in Request
    BY <1>1, <1>9 DEF Publish, AgentOK
  <2>2. c \in AnyCall /\ c.request = next /\ c.samplings = samplings
    BY <1>1, <2>1 DEF Publication, Publications, AnyCall
  <2>3. IF link THEN Client!Call(c) ELSE UNCHANGED calls
    BY <1>9 DEF Publish
  <2>4. gContent' = IF next = "contentInstance" THEN (IF link THEN gContent + 1 ELSE 0)
                                                ELSE gContent
    BY <1>9 DEF Publish, Report
  <2> HIDE DEF c
  <2> QED
    BY <1>1, <1>2, <2>2, <2>3, <2>4, SamplingCall
<1>10. CASE DeadlinePasses
  BY <1>1, <1>10, CallLate, SamplingKept DEF DeadlinePasses
<1>11. CASE BrokerAcks \/ PlatformAnswers \/ PlatformCommands \/ BrokerRepeats \/ LinkFails
  BY <1>2, <1>11 DEF BrokerAcks, PlatformAnswers, PlatformCommands, BrokerRepeats, LinkFails,
     Outside, client
<1>12. CASE UNCHANGED vars
  BY <1>2, <1>12 DEF vars, client
<1> QED
  BY <1>4, <1>5, <1>6, <1>7, <1>8, <1>9, <1>10, <1>11, <1>12 DEF Next, Task, Read

\* However deep reports nest and in whatever way they end, a report carries its own
\* sampling and at most one of each report it interrupts, and the last one to end
\* leaves nothing collected.
THEOREM OwnSamplingCorrect == Spec => []OwnSampling
<1>1. Init => OwnSampling
  <2> SUFFICES ASSUME Init PROVE OwnSampling
    OBVIOUS
  <2>1. Reports = {} /\ gContent = 0
    BY DEF Init, Client!CallsInit, Reports
  <2> QED
    BY <2>1, FS_EmptySet DEF OwnSampling
<1> QED
  BY <1>1, TypeCorrect, SamplingNext, PTL DEF Spec

-----------------------------------------------------------------------------
(* The registration's order.                                                 *)

\* What follows a step comes after it, or is the report again.
LEMMA FollowOrder ==
    ASSUME NEW step \in Resource \cup {"end"}, NEW h, Follow(step, h) # "none"
    PROVE  Order[step] <= Order[Follow(step, h)]
<1>1. CASE step = "node"
  BY <1>1 DEF Follow, Order, Resource
<1>2. CASE step = "AE" \/ step = "remoteCSE"
  BY <1>2 DEF Follow, Order, Resource
<1>3. CASE step = "container"
  BY <1>3 DEF Follow, Order, Resource
<1>4. CASE step = "mgmtCmd" \/ step = "contentInstance" \/ step = "end"
  BY <1>4 DEF Follow, Order, Resource
<1> QED
  BY <1>1, <1>2, <1>3, <1>4 DEF Resource

\* The step of the registration never goes back, whichever call the response that
\* moves it on was delivered in.
THEOREM NeverBackCorrect == Spec => NeverBack
<1>1. TypeOK /\ [Next]_vars => [Order[mStep] <= Order[mStep']]_vars
  <2> SUFFICES ASSUME TypeOK, Next PROVE Order[mStep] <= Order[mStep']
    OBVIOUS
  <2>1. mStep \in Resource \cup {"end"} /\ Order[mStep] \in 0..5
    <3>1. mStep \in Resource \cup {"end"}
      BY DEF TypeOK
    <3>2. \A s \in Resource \cup {"end"} : Order[s] \in 0..5
      BY DEF Order, Resource
    <3> QED
      BY <3>1, <3>2
  <2>2. CASE UNCHANGED mStep
    BY <2>1, <2>2
  <2>3. CASE Response \/ SecondSlot
    <3>1. \E kind, pc : MQTTMessageArrived(kind, pc)
      BY <2>3 DEF Response, SecondSlot
    <3> QED
      BY <2>1, <2>2, <3>1, FollowOrder DEF MQTTMessageArrived, agent
  <2>4. CASE Next /\ ~Response /\ ~SecondSlot
    BY <2>2, <2>4 DEF Next, Task, Read, tpMQTTCreate, MainLoop, Leave, Duplicate, ProcessCMD,
       Acknowledged, PublishReturns, HandlerReturns, Publish, TimedOut, DeadlinePasses,
       BrokerAcks, PlatformAnswers, PlatformCommands, BrokerRepeats, LinkFails, Outside, agent
  <2> QED
    BY <2>3, <2>4
<1> QED
  BY <1>1, TypeCorrect, PTL DEF Spec, NeverBack

-----------------------------------------------------------------------------
(* Packets counted.                                                          *)

\* The positions from k on at which a sequence holds a member of K.
At(s, K, k) == {i \in k..Len(s) : s[i] \in K}

\* Positions are as many as a number can say.
LEMMA AtFinite ==
    ASSUME NEW s, NEW K, NEW k \in Nat, Len(s) \in Nat
    PROVE  /\ IsFiniteSet(At(s, K, k)) /\ Cardinality(At(s, K, k)) \in Nat
           /\ At(s, K, k) \subseteq k..Len(s)
<1>1. At(s, K, k) \subseteq k..Len(s) /\ IsFiniteSet(k..Len(s))
  BY FS_Interval DEF At
<1> QED
  BY <1>1, FS_Subset, FS_CardinalityType

\* Nothing is found behind the end.
LEMMA AtEnd ==
    ASSUME NEW s, NEW K, NEW k \in Nat, Len(s) \in Nat, k > Len(s)
    PROVE  Cardinality(At(s, K, k)) = 0
<1>1. At(s, K, k) = {}
  BY DEF At
<1> QED
  BY <1>1, FS_EmptySet

\* One more at the end counts if it is in K.
LEMMA AtAppend ==
    ASSUME NEW s, NEW t, NEW K, Len(s) \in Nat, NEW k \in 1..(Len(s) + 1),
           Len(t) = Len(s) + 1, \A i \in 1..Len(s) : t[i] = s[i]
    PROVE  /\ t[Len(s) + 1] \in K => Cardinality(At(t, K, k)) = Cardinality(At(s, K, k)) + 1
           /\ t[Len(s) + 1] \notin K => Cardinality(At(t, K, k)) = Cardinality(At(s, K, k))
<1> DEFINE n == Len(s) + 1
<1>0. n \notin At(s, K, k)
  BY DEF At
<1>1. IsFiniteSet(At(s, K, k)) /\ Cardinality(At(s, K, k)) \in Nat
  <2>1. k \in Nat
    OBVIOUS
  <2> QED
    BY <2>1, AtFinite
<1>2. At(t, K, k) = IF t[n] \in K THEN At(s, K, k) \cup {n} ELSE At(s, K, k)
  <2>1. \A i : i \in k..Len(t) <=> i \in k..Len(s) \/ i = n
    OBVIOUS
  <2>2. \A i \in k..Len(s) : t[i] = s[i]
    OBVIOUS
  <2> QED
    BY <2>1, <2>2 DEF At
<1> HIDE DEF n
<1>3. n \notin At(s, K, k) => Cardinality(At(s, K, k) \cup {n}) = Cardinality(At(s, K, k)) + 1
  BY <1>1, FS_AddElement
<1> QED
  BY <1>0, <1>1, <1>2, <1>3 DEF n

\* What is behind the first place moves up by one when the first is taken.
LEMMA AtTail ==
    ASSUME NEW s, NEW t, NEW K, Len(s) \in Nat \ {0}, NEW k \in 1..Len(s),
           Len(t) = Len(s) - 1, \A i \in 1..Len(t) : t[i] = s[i + 1]
    PROVE  Cardinality(At(t, K, k)) = Cardinality(At(s, K, k + 1))
<1> DEFINE S == At(t, K, k)
           T == At(s, K, k + 1)
           f == [i \in S |-> i + 1]
<1>0. k \in Nat /\ k + 1 \in Nat /\ Len(t) \in Nat
  OBVIOUS
<1>1. IsFiniteSet(S) /\ IsFiniteSet(T) /\ S \subseteq Nat /\ T \subseteq Nat
  <2>1. IsFiniteSet(S) /\ IsFiniteSet(T)
    BY <1>0, AtFinite
  <2>2. S \subseteq Nat
    BY <1>0 DEF At
  <2>3. T \subseteq Nat
    BY <1>0 DEF At
  <2> HIDE DEF S, T
  <2> QED
    BY <2>1, <2>2, <2>3
<1>2. \A i \in S : i + 1 \in T
  BY DEF At
<1>3. \A j \in T : j - 1 \in S
  BY DEF At
<1>4. f \in Bijection(S, T)
  <2>1. f \in [S -> T]
    BY <1>2
  <2>2. \A a, b \in S : f[a] = f[b] => a = b
    BY <1>1
  <2>3. \A j \in T : \E i \in S : f[i] = j
    <3> SUFFICES ASSUME NEW j \in T PROVE f[j - 1] = j
      BY <1>3
    <3> QED
      BY <1>1, <1>3
  <2> HIDE DEF S, T, f
  <2> QED
    BY <2>1, <2>2, <2>3 DEF Bijection, Injection, Surjection, IsInjective
<1> HIDE DEF f, S, T
<1>5. Cardinality(S) = Cardinality(T)
  BY <1>1, <1>4, FS_Bijection DEF ExistsBijection
<1> QED
  BY <1>5 DEF S, T

\* The first place counts if it holds a member of K.
LEMMA AtHead ==
    ASSUME NEW s, NEW K, Len(s) \in Nat \ {0}
    PROVE  Cardinality(At(s, K, 1)) = Cardinality(At(s, K, 2)) + IF s[1] \in K THEN 1 ELSE 0
<1>0. 1 \notin At(s, K, 2)
  BY DEF At
<1>1. IsFiniteSet(At(s, K, 2)) /\ Cardinality(At(s, K, 2)) \in Nat
  BY AtFinite
<1>2. At(s, K, 1) = IF s[1] \in K THEN At(s, K, 2) \cup {1} ELSE At(s, K, 2)
  BY DEF At
<1>3. Cardinality(At(s, K, 2) \cup {1}) = Cardinality(At(s, K, 2)) + 1
  BY <1>0, <1>1, FS_AddElement
<1>4. CASE s[1] \in K
  BY <1>2, <1>3, <1>4
<1>5. CASE s[1] \notin K
  <2>1. At(s, K, 1) = At(s, K, 2)
    BY <1>2, <1>5
  <2> QED
    BY <1>1, <1>5, <2>1
<1> QED
  BY <1>4, <1>5

\* What is on its way is counted by kind: messages that are handled, and of those
\* the answers to requests.
FreshMessage  == {m \in Message : ~m.dup}
AnswerMessage == {m \in FreshMessage : m.kind \in Request}
Count(K, k)   == Cardinality(At(toClient, K, k))

\* An acknowledgement is no message.
LEMMA AckMessage == Ack \notin Message /\ NoMessage \notin Message
BY DEF Ack, NoMessage, Message, Request, Resource

\* The messages that will be handled, as Fresh takes them and as they are counted.
LEMMA FreshAt ==
    ASSUME NEW s, Len(s) \in Nat, \A i \in 1..Len(s) : s[i] \in Message \cup {Ack}
    PROVE  {i \in 1..Len(s) : s[i] # Ack /\ ~s[i].dup} = At(s, FreshMessage, 1)
BY AckMessage DEF At, FreshMessage

\* Fresh, before and after a step, is what is counted from the first place on.
LEMMA FreshCounted ==
    ASSUME TypeOK, TypeOK'
    PROVE  /\ Fresh = At(toClient, FreshMessage, 1) /\ Cardinality(Fresh) = Count(FreshMessage, 1)
           /\ Fresh' = At(toClient', FreshMessage, 1) /\ Cardinality(Fresh') = Count(FreshMessage, 1)'
           /\ Cardinality(Fresh) \in Nat /\ Cardinality(Fresh') \in Nat
           /\ IsFiniteSet(Fresh) /\ IsFiniteSet(Fresh')
<1>1. /\ Len(toClient) \in Nat /\ \A i \in 1..Len(toClient) : toClient[i] \in Message \cup {Ack}
      /\ Len(toClient') \in Nat /\ \A i \in 1..Len(toClient') : toClient'[i] \in Message \cup {Ack}
  BY ElementOfSeq DEF TypeOK
<1>2. Fresh = At(toClient, FreshMessage, 1) /\ Fresh' = At(toClient', FreshMessage, 1)
  BY <1>1, FreshAt DEF Fresh
<1>3. IsFiniteSet(Fresh) /\ Cardinality(Fresh) \in Nat
  BY <1>1, <1>2, AtFinite
<1>4. IsFiniteSet(Fresh') /\ Cardinality(Fresh') \in Nat
  BY <1>1, <1>2, AtFinite
<1> QED
  BY <1>2, <1>3, <1>4 DEF Count

\* A packet is read: every count from a place on becomes the one from the next place.
LEMMA PacketRead ==
    ASSUME TypeOK, toClient # << >>, toClient' = Tail(toClient)
    PROVE  /\ Len(toClient) \in Nat \ {0} /\ Len(toClient') = Len(toClient) - 1
           /\ Head(toClient) = toClient[1] /\ Head(toClient) \in Message \cup {Ack}
           /\ \A i \in 1..Len(toClient') : toClient'[i] = toClient[i + 1]
           /\ \A K : \A k \in 1..Len(toClient) : Count(K, k)' = Count(K, k + 1)
           /\ \A K : /\ Count(K, 1) = Count(K, 2) + IF Head(toClient) \in K THEN 1 ELSE 0
                     /\ Count(K, 2) \in Nat
<1>1. toClient \in Seq(Message \cup {Ack})
  BY DEF TypeOK
<1>2. Len(toClient) \in Nat \ {0} /\ Len(toClient') = Len(toClient) - 1
  BY <1>1
<1>3. Head(toClient) = toClient[1] /\ Head(toClient) \in Message \cup {Ack}
  BY <1>1
<1>4. \A i \in 1..Len(toClient') : toClient'[i] = toClient[i + 1]
  BY <1>1, <1>2
<1>5. ASSUME NEW K, NEW k \in 1..Len(toClient)
      PROVE  Cardinality(At(toClient', K, k)) = Cardinality(At(toClient, K, k + 1))
  BY <1>2, <1>4, AtTail
<1>6. ASSUME NEW K
      PROVE  /\ Count(K, 1) = Count(K, 2) + IF Head(toClient) \in K THEN 1 ELSE 0
             /\ Count(K, 2) \in Nat
  BY <1>2, <1>3, AtHead, AtFinite DEF Count
<1> QED
  BY <1>2, <1>3, <1>4, <1>5, <1>6 DEF Count

\* A packet arrives: every count that reaches the end may grow by it.
LEMMA PacketArrives ==
    ASSUME TypeOK, NEW m \in Message \cup {Ack}, toClient' = Append(toClient, m)
    PROVE  /\ Len(toClient) \in Nat /\ Len(toClient') = Len(toClient) + 1
           /\ \A i \in 1..Len(toClient) : toClient'[i] = toClient[i]
           /\ toClient'[Len(toClient) + 1] = m
           /\ \A K : \A k \in 1..(Len(toClient) + 1) :
                Count(K, k)' = Count(K, k) + IF m \in K THEN 1 ELSE 0
           /\ \A K : \A k \in 1..(Len(toClient) + 1) : Count(K, k) \in Nat
<1>0. toClient \in Seq(Message \cup {Ack})
  BY DEF TypeOK
<1>1. Len(toClient) \in Nat
  BY <1>0
<1>2. Len(toClient') = Len(toClient) + 1 /\ toClient'[Len(toClient) + 1] = m
  BY <1>0
<1>3. \A i \in 1..Len(toClient) : toClient'[i] = toClient[i]
  BY <1>0
<1>4. ASSUME NEW K, NEW k \in 1..(Len(toClient) + 1)
      PROVE  Cardinality(At(toClient', K, k))
               = Cardinality(At(toClient, K, k)) + IF m \in K THEN 1 ELSE 0
  <2> DEFINE s == toClient
             t == toClient'
  <2>0. /\ Len(s) \in Nat /\ Len(t) = Len(s) + 1 /\ k \in 1..(Len(s) + 1)
        /\ \A i \in 1..Len(s) : t[i] = s[i]
    BY <1>1, <1>2, <1>3
  <2> HIDE DEF s, t
  <2>1. /\ t[Len(s) + 1] \in K => Cardinality(At(t, K, k)) = Cardinality(At(s, K, k)) + 1
        /\ t[Len(s) + 1] \notin K => Cardinality(At(t, K, k)) = Cardinality(At(s, K, k))
    BY <2>0, AtAppend
  <2>2. Cardinality(At(toClient, K, k)) \in Nat
    <3>1. k \in Nat
      BY <1>1
    <3> QED
      BY <1>1, <3>1, AtFinite
  <2> QED
    BY <1>2, <2>1, <2>2 DEF s, t
<1>5. ASSUME NEW K, NEW k \in 1..(Len(toClient) + 1) PROVE Count(K, k) \in Nat
  <2>1. k \in Nat
    BY <1>1
  <2> QED
    BY <1>1, <2>1, AtFinite DEF Count
<1> QED
  BY <1>1, <1>2, <1>3, <1>4, <1>5 DEF Count

\* Nothing is on its way.
LEMMA NoPackets == ASSUME toClient' = << >> PROVE Fresh' = {} /\ Cardinality(Fresh') = 0
<1>1. Fresh' = {}
  BY DEF Fresh
<1> QED
  BY <1>1, FS_EmptySet

-----------------------------------------------------------------------------
(* One chain of requests.                                                    *)

\* Before MARun has created its client nothing is under way.
StartInv ==
    stage = "create" =>
        /\ toClient = << >> /\ asked = << >> /\ unacked = 0
        /\ frames = << >> /\ next = "none" /\ mStep = "node"

\* A request is about to be published by the main loop or by a handler, never while
\* the innermost call waits for a packet.
Waiting == next # "none" => ~Client!Reading

\* The events of a step are counted, each once.
LEMMA HappenCounts ==
    ASSUME happened \in [Event -> Nat], NEW events, Happen(events)
    PROVE  \A e \in Event : /\ e \in events => happened'[e] = happened[e] + 1
                            /\ e \notin events => happened'[e] = happened[e]
BY DEF Happen

\* Nothing starts before the client is created.
LEMMA StartNext == TypeOK /\ StartInv /\ [Next]_vars => StartInv'
<1> SUFFICES ASSUME TypeOK, StartInv, [Next]_vars, stage' = "create" PROVE StartInv'
  BY DEF StartInv
<1>1. CASE UNCHANGED vars
  BY <1>1 DEF vars, client, calls, agent, wire, StartInv
<1> SUFFICES ASSUME Next PROVE StartInv'
  BY <1>1
<1>2. stage = "create"
  BY DEF Next, Task, Read, tpMQTTCreate, MainLoop, Leave, Duplicate, ProcessCMD, Response,
     SecondSlot, MQTTMessageArrived, readPacket, Acknowledged, PublishReturns, HandlerReturns,
     Publish, TimedOut, DeadlinePasses, BrokerAcks, PlatformAnswers, PlatformCommands,
     BrokerRepeats, LinkFails, Outside
<1>3. /\ toClient = << >> /\ asked = << >> /\ unacked = 0
      /\ frames = << >> /\ next = "none" /\ mStep = "node"
  BY <1>2 DEF StartInv
<1>4. Len(toClient) = 0 /\ Len(frames) = 0
  BY <1>3
<1>5. ~Task
  BY <1>2, <1>3 DEF Task, Read, tpMQTTCreate, MainLoop, Leave, Duplicate, ProcessCMD, Response,
     SecondSlot, readPacket, Acknowledged, HandlerReturns, Publish, TimedOut,
     Client!Reading, Client!InDelivery, Client!NoCalls
<1>6. ~BrokerAcks /\ ~PlatformAnswers /\ ~PlatformCommands
  BY <1>2, <1>3 DEF BrokerAcks, PlatformAnswers, PlatformCommands
<1>7. ~BrokerRepeats
  BY <1>4 DEF BrokerRepeats
<1>8. CASE DeadlinePasses
  BY <1>3, <1>8 DEF DeadlinePasses, Client!DeadlinePasses, StartInv, agent, wire
<1>9. CASE LinkFails
  BY <1>3, <1>9 DEF LinkFails, Outside, StartInv, client, calls, agent
<1> QED
  BY <1>5, <1>6, <1>7, <1>8, <1>9 DEF Next

\* A call in which a delivery has begun does not wait.
LEMMA BegunNotReading ==
    ASSUME CallsOK, NEW m \in Message, Client!BeginDelivery(m)
    PROVE  ~Client!Reading'
<1> DEFINE f == [call |-> frames[Len(frames)].call, msg |-> m]
<1>1. frames \in Seq(AnyFrame) /\ Len(frames) \in 1..Len(frames)
  BY DEF CallsOK, Client!BeginDelivery, Client!Reading, Client!NoCalls
<1>2. frames' = [frames EXCEPT ![Len(frames)] = f]
  BY DEF Client!BeginDelivery
<1>3. f.msg = m
  OBVIOUS
<1> HIDE DEF f
<1>4. Len(frames') = Len(frames) /\ frames'[Len(frames)] = f
  BY <1>1, <1>2
<1> QED
  BY <1>3, <1>4, AckMessage DEF Client!Reading, Client!Inner

\* Every step keeps Waiting: a delivery begins before its handler has a request.
LEMMA WaitingNext == TypeOK /\ StartInv /\ Waiting /\ [Next]_vars => Waiting'
<1> SUFFICES ASSUME TypeOK, StartInv, Waiting, [Next]_vars, next' # "none"
             PROVE  ~Client!Reading'
  BY DEF Waiting
<1>1. CallsOK /\ OutsideOK
  BY TypeParts
<1>2. UNCHANGED <<frames, next>> => ~Client!Reading'
  BY DEF Waiting, Client!Reading, Client!NoCalls, Client!Inner
<1>3. CASE tpMQTTCreate
  BY <1>3 DEF tpMQTTCreate, StartInv, client, calls, Client!Reading, Client!NoCalls
<1>4. CASE ProcessCMD \/ Response \/ SecondSlot
  <2>1. CASE ProcessCMD \/ Response
    BY <1>1, <2>1, ReadType, BegunNotReading DEF ProcessCMD, Response, readPacket
  <2>2. CASE SecondSlot
    BY <2>2 DEF SecondSlot, calls, Client!InDelivery, Client!Reading, Client!NoCalls, Client!Inner
  <2> QED
    BY <1>4, <2>1, <2>2
<1>5. CASE Leave \/ Duplicate \/ DeadlinePasses
  BY <1>2, <1>5 DEF Leave, Duplicate, DeadlinePasses, Client!DeadlinePasses, client, calls, agent
<1>6. ~MainLoop /\ ~HandlerReturns /\ ~Publish
  BY DEF MainLoop, HandlerReturns, Publish, agent
<1>7. ~Acknowledged /\ ~TimedOut
  BY DEF Acknowledged, TimedOut, PublishReturns, Waiting, agent
<1>8. CASE BrokerAcks \/ PlatformAnswers \/ PlatformCommands \/ BrokerRepeats \/ LinkFails
  BY <1>2, <1>8 DEF BrokerAcks, PlatformAnswers, PlatformCommands, BrokerRepeats, LinkFails,
     Outside, client, calls, agent
<1>9. CASE UNCHANGED vars
  BY <1>2, <1>9 DEF vars, client, calls, agent
<1> QED
  BY <1>3, <1>4, <1>5, <1>6, <1>7, <1>8, <1>9 DEF Next, Task, Read

\* A message that is read and handled is one less on its way; another packet that is
\* read leaves those that will be handled.
LEMMA FreshRead ==
    ASSUME TypeOK, TypeOK', toClient # << >>, toClient' = Tail(toClient)
    PROVE  /\ Head(toClient) \in FreshMessage => Cardinality(Fresh) = Cardinality(Fresh') + 1
           /\ Head(toClient) \notin FreshMessage => Cardinality(Fresh) = Cardinality(Fresh')
<1>1. /\ Cardinality(Fresh) = Count(FreshMessage, 1)
      /\ Cardinality(Fresh') = Count(FreshMessage, 1)'
      /\ Cardinality(Fresh) \in Nat /\ Cardinality(Fresh') \in Nat
  BY FreshCounted
<1>2. 1 \in 1..Len(toClient) /\ 1 + 1 = 2
  BY PacketRead
<1>3. Count(FreshMessage, 1)' = Count(FreshMessage, 2)
  BY <1>2, PacketRead
<1>4. Count(FreshMessage, 1) = Count(FreshMessage, 2)
        + IF Head(toClient) \in FreshMessage THEN 1 ELSE 0
  BY PacketRead
<1> QED
  BY <1>1, <1>3, <1>4

\* A packet that arrives is one more if it will be handled.
LEMMA FreshArrives ==
    ASSUME TypeOK, TypeOK', NEW m \in Message \cup {Ack}, toClient' = Append(toClient, m)
    PROVE  /\ m \in FreshMessage => Cardinality(Fresh') = Cardinality(Fresh) + 1
           /\ m \notin FreshMessage => Cardinality(Fresh') = Cardinality(Fresh)
<1>1. /\ Cardinality(Fresh) = Count(FreshMessage, 1)
      /\ Cardinality(Fresh') = Count(FreshMessage, 1)'
      /\ Cardinality(Fresh) \in Nat /\ Cardinality(Fresh') \in Nat
  BY FreshCounted
<1>2. 1 \in 1..(Len(toClient) + 1)
  BY PacketArrives
<1>3. Count(FreshMessage, 1)'
        = Count(FreshMessage, 1) + IF m \in FreshMessage THEN 1 ELSE 0
  BY <1>2, PacketArrives
<1> QED
  BY <1>1, <1>3

\* Nothing arrives and nothing is read.
LEMMA FreshKept == ASSUME UNCHANGED toClient PROVE Fresh' = Fresh
BY DEF Fresh

\* What has happened has happened.
LEMMA EventsGrow ==
    TypeOK /\ [Next]_vars => \A e \in Event : happened[e] \in Nat /\ happened[e] <= happened'[e]
<1> SUFFICES ASSUME TypeOK, [Next]_vars, NEW e \in Event
             PROVE  happened[e] \in Nat /\ happened[e] <= happened'[e]
  OBVIOUS
<1>1. happened \in [Event -> Nat] /\ happened[e] \in Nat
  BY DEF TypeOK
<1>2. UNCHANGED happened => happened[e] <= happened'[e]
  BY <1>1
<1>3. (\E events : Happen(events)) => happened[e] <= happened'[e]
  BY <1>1, HappenCounts
<1>4. CASE PlatformAnswers \/ PlatformCommands \/ BrokerRepeats \/ LinkFails
  <2>1. \E events : Happen(events)
    BY <1>4 DEF PlatformAnswers, PlatformCommands, BrokerRepeats, LinkFails
  <2> QED
    BY <1>1, <1>3, <2>1
<1>5. CASE BrokerAcks \/ Task \/ DeadlinePasses \/ UNCHANGED vars
  <2>1. UNCHANGED happened
    BY <1>5 DEF BrokerAcks, Task, Read, tpMQTTCreate, MainLoop, Leave, Duplicate, ProcessCMD,
       Response, SecondSlot, readPacket, Acknowledged, PublishReturns, HandlerReturns, Publish,
       TimedOut, DeadlinePasses, vars, record
  <2> QED
    BY <1>1, <1>2, <2>1
<1> QED
  BY <1>1, <1>4, <1>5 DEF Next

\* Commands on their way, each with a second slot ahead in release 1.0.
CommandMessage == {m \in FreshMessage : m.kind = "command"}
SlotsToCome    == IF ONEM2M_V1_12 THEN 0 ELSE Count(CommandMessage, 1)

\* What the second slots may add is counted with the requests from the start.
ChainBound == Unanswered + Cardinality(slotsLeft) + SlotsToCome <= 1 + Added

\* The agent's release is what it was built for.
LEMMA SameRelease == [Next]_vars => UNCHANGED ONEM2M_V1_12
BY DEF Next, Task, Read, tpMQTTCreate, MainLoop, Leave, Duplicate, ProcessCMD, Response,
   SecondSlot, readPacket, Acknowledged, PublishReturns, HandlerReturns, Publish, TimedOut,
   DeadlinePasses, BrokerAcks, PlatformAnswers, PlatformCommands, BrokerRepeats, LinkFails,
   Outside, vars

\* Commands add chains, and nothing takes them away.
LEMMA AddedGrows ==
    TypeOK /\ TypeOK' /\ [Next]_vars =>
        /\ Added \in Nat /\ Added' \in Nat /\ Added <= Added'
        /\ happened["command"]' = happened["command"] => Added' = Added
        /\ happened["command"]' = happened["command"] + 1
              => Added' = Added + IF ONEM2M_V1_12 THEN 1 ELSE 2
<1> SUFFICES ASSUME TypeOK, TypeOK', [Next]_vars
    PROVE  /\ Added \in Nat /\ Added' \in Nat /\ Added <= Added'
           /\ happened["command"]' = happened["command"] => Added' = Added
           /\ happened["command"]' = happened["command"] + 1
                 => Added' = Added + IF ONEM2M_V1_12 THEN 1 ELSE 2
  OBVIOUS
<1> DEFINE c == happened["command"]       c2 == happened'["command"]
<1>1. c \in Nat /\ c2 \in Nat /\ c <= c2
  <2>1. "command" \in Event
    BY DEF Event
  <2>2. c2 \in Nat
    BY <2>1 DEF TypeOK
  <2> QED
    BY <2>1, <2>2, EventsGrow
<1>2. ONEM2M_V1_12' = ONEM2M_V1_12
  BY SameRelease
<1>3. CASE ONEM2M_V1_12
  <2>1. Added = 1 * c /\ Added' = 1 * c2
    BY <1>2, <1>3 DEF Added
  <2> HIDE DEF c, c2
  <2>2. 1 * c = c /\ 1 * c2 = c2
    BY <1>1
  <2> QED
    BY <1>1, <1>3, <2>1, <2>2 DEF c, c2
<1>4. CASE ~ONEM2M_V1_12
  <2>1. Added = 2 * c /\ Added' = 2 * c2
    BY <1>2, <1>4 DEF Added
  <2> HIDE DEF c, c2
  <2>2. /\ 2 * c \in Nat /\ 2 * c2 \in Nat /\ 2 * c <= 2 * c2
        /\ c2 = c + 1 => 2 * c2 = 2 * c + 2
    BY <1>1
  <2> QED
    BY <1>1, <1>4, <2>1, <2>2 DEF c, c2
<1> QED
  BY <1>3, <1>4

\* Slots ahead are as many as a number can say.
LEMMA SlotsFinite ==
    /\ TypeOK => IsFiniteSet(slotsLeft) /\ Cardinality(slotsLeft) \in Nat
    /\ TypeOK' => IsFiniteSet(slotsLeft') /\ Cardinality(slotsLeft') \in Nat
<1>1. ASSUME NEW s \in Nat, NEW S, S \subseteq 1..s PROVE IsFiniteSet(S) /\ Cardinality(S) \in Nat
  <2>1. IsFiniteSet(1..s)
    BY FS_Interval
  <2> QED
    BY <1>1, <2>1, FS_Subset, FS_CardinalityType
<1>2. TypeOK => Len(frames) \in Nat /\ slotsLeft \subseteq 1..Len(frames)
  BY DEF TypeOK
<1>3. TypeOK' => Len(frames') \in Nat /\ slotsLeft' \subseteq 1..Len(frames')
  BY DEF TypeOK
<1> QED
  BY <1>1, <1>2, <1>3

\* Slots to come are a number, and only a packet that is read or arrives changes it.
LEMMA SlotsToComeKept ==
    ASSUME TypeOK
    PROVE  /\ SlotsToCome \in Nat
           /\ UNCHANGED <<toClient, ONEM2M_V1_12>> => SlotsToCome' = SlotsToCome
<1>1. Len(toClient) \in Nat
  BY DEF TypeOK
<1>2. Count(CommandMessage, 1) \in Nat
  BY <1>1, AtFinite DEF Count
<1> QED
  BY <1>2 DEF SlotsToCome, Count

\* A command that is read has its second slot ahead, and no longer to come.
LEMMA SlotsToComeRead ==
    ASSUME TypeOK, toClient # << >>, toClient' = Tail(toClient), UNCHANGED ONEM2M_V1_12
    PROVE  /\ SlotsToCome \in Nat /\ SlotsToCome' \in Nat /\ SlotsToCome' <= SlotsToCome
           /\ Head(toClient) \in CommandMessage /\ ~ONEM2M_V1_12
                 => SlotsToCome = SlotsToCome' + 1
<1>1. 1 \in 1..Len(toClient) /\ 1 + 1 = 2
  BY PacketRead
<1>2. Count(CommandMessage, 1)' = Count(CommandMessage, 2)
  BY <1>1, PacketRead
<1>3. /\ Count(CommandMessage, 1)
           = Count(CommandMessage, 2) + IF Head(toClient) \in CommandMessage THEN 1 ELSE 0
      /\ Count(CommandMessage, 2) \in Nat
  BY PacketRead
<1> DEFINE n == Count(CommandMessage, 1)
           n2 == Count(CommandMessage, 1)'
<1>4. n2 \in Nat /\ n = n2 + IF Head(toClient) \in CommandMessage THEN 1 ELSE 0
  BY <1>2, <1>3
<1>5. SlotsToCome = (IF ONEM2M_V1_12 THEN 0 ELSE n) /\ SlotsToCome' = IF ONEM2M_V1_12 THEN 0 ELSE n2
  BY DEF SlotsToCome
<1> HIDE DEF n, n2
<1> QED
  BY <1>4, <1>5

\* A message that arrives has a second slot to come if it is a command.
LEMMA SlotsToComeArrives ==
    ASSUME TypeOK, NEW m \in Message \cup {Ack}, toClient' = Append(toClient, m),
           UNCHANGED ONEM2M_V1_12
    PROVE  /\ SlotsToCome \in Nat /\ SlotsToCome' \in Nat
           /\ m \notin CommandMessage => SlotsToCome' = SlotsToCome
           /\ SlotsToCome' <= SlotsToCome + IF ONEM2M_V1_12 THEN 0 ELSE 1
<1>1. 1 \in 1..(Len(toClient) + 1)
  BY PacketArrives
<1>2. /\ Count(CommandMessage, 1)'
           = Count(CommandMessage, 1) + IF m \in CommandMessage THEN 1 ELSE 0
      /\ Count(CommandMessage, 1) \in Nat
  BY <1>1, PacketArrives
<1> DEFINE n == Count(CommandMessage, 1)
           n2 == Count(CommandMessage, 1)'
<1>3. n \in Nat /\ n2 = n + IF m \in CommandMessage THEN 1 ELSE 0
  BY <1>2
<1>4. SlotsToCome = (IF ONEM2M_V1_12 THEN 0 ELSE n) /\ SlotsToCome' = IF ONEM2M_V1_12 THEN 0 ELSE n2
  BY DEF SlotsToCome
<1> HIDE DEF n, n2
<1> QED
  BY <1>3, <1>4

\* A stream that is gone has none.
LEMMA SlotsToComeGone == ASSUME toClient' = << >> PROVE SlotsToCome' = 0
<1>1. Len(toClient') = 0 /\ 1 \in Nat
  OBVIOUS
<1>2. Cardinality(At(toClient', CommandMessage, 1)) = 0
  BY <1>1, AtEnd
<1> QED
  BY <1>2 DEF SlotsToCome, Count

\* The slot of the innermost call is behind it.
LEMMA SlotTaken ==
    ASSUME TypeOK, SlotsEnd
    PROVE  /\ Cardinality(slotsLeft') <= Cardinality(slotsLeft)
           /\ Len(frames) \in slotsLeft => Cardinality(slotsLeft') = Cardinality(slotsLeft) - 1
<1>1. IsFiniteSet(slotsLeft) /\ Cardinality(slotsLeft) \in Nat
  BY SlotsFinite
<1>2. slotsLeft' = slotsLeft \ {Len(frames)}
  BY DEF SlotsEnd
<1>3. CASE Len(frames) \in slotsLeft
  <2>1. Cardinality(slotsLeft \ {Len(frames)}) = Cardinality(slotsLeft) - 1
    BY <1>1, <1>3, FS_RemoveElement
  <2> QED
    BY <1>1, <1>2, <2>1
<1>4. CASE Len(frames) \notin slotsLeft
  <2>1. slotsLeft' = slotsLeft
    BY <1>2, <1>4
  <2> QED
    BY <1>1, <1>4, <2>1
<1> QED
  BY <1>3, <1>4

\* Every step keeps the chain: what reads a message, a slot or a request makes at most
\* one of it, and only a command adds one, or two in release 1.0.
LEMMA ChainNext ==
    TypeOK /\ TypeOK' /\ StartInv /\ Waiting /\ ChainBound /\ [Next]_vars => ChainBound'
<1> SUFFICES ASSUME TypeOK, TypeOK', StartInv, Waiting, ChainBound, [Next]_vars
             PROVE  ChainBound'
  OBVIOUS
<1>1. /\ Cardinality(Fresh) \in Nat /\ Cardinality(Fresh') \in Nat
      /\ Len(asked) \in Nat /\ Len(asked') \in Nat
      /\ happened \in [Event -> Nat] /\ "command" \in Event
      /\ ONEM2M_V1_12' = ONEM2M_V1_12
  <2>1. "command" \in Event
    BY DEF Event
  <2>2. ONEM2M_V1_12' = ONEM2M_V1_12
    BY SameRelease
  <2>3. Cardinality(Fresh) \in Nat /\ Cardinality(Fresh') \in Nat
    BY FreshCounted
  <2> QED
    BY <2>1, <2>2, <2>3 DEF TypeOK
<1> DEFINE F == Cardinality(Fresh)        F2 == Cardinality(Fresh')
           S == Cardinality(slotsLeft)    S2 == Cardinality(slotsLeft')
           T == SlotsToCome               T2 == SlotsToCome'
           q == Len(asked)                q2 == Len(asked')
           c == happened["command"]       c2 == happened'["command"]
           a == Added                     a2 == Added'
           one  == IF next = "none" THEN 0 ELSE 1
           one2 == IF next' = "none" THEN 0 ELSE 1
<1>2. q + F + one + S + T <= 1 + a
  BY DEF ChainBound, Unanswered
<1>3. q2 + F2 + one2 + S2 + T2 <= 1 + a2 => ChainBound'
  BY DEF ChainBound, Unanswered
<1>4. UNCHANGED toClient => F2 = F /\ T2 = T
  BY <1>1, FreshKept, SlotsToComeKept
<1>5. /\ one \in Nat /\ one2 \in Nat /\ one2 <= 1
      /\ F \in Nat /\ F2 \in Nat /\ q \in Nat /\ q2 \in Nat
      /\ S \in Nat /\ S2 \in Nat /\ T \in Nat /\ a \in Nat /\ a2 \in Nat
  <2>1. one \in Nat /\ one2 \in Nat /\ one2 <= 1
    OBVIOUS
  <2>2. S \in Nat /\ S2 \in Nat
    BY SlotsFinite
  <2>3. T \in Nat /\ a \in Nat /\ a2 \in Nat
    BY SlotsToComeKept, AddedGrows
  <2> QED
    BY <1>1, <2>1, <2>2, <2>3
<1>6. /\ next = "none" => one = 0
      /\ next # "none" => one = 1
      /\ next' = "none" => one2 = 0
  OBVIOUS
<1>7. /\ c2 = c => a2 = a
      /\ c2 = c + 1 /\ ONEM2M_V1_12 => a2 = a + 1
      /\ c2 = c + 1 /\ ~ONEM2M_V1_12 => a2 = a + 2
  BY AddedGrows
<1>8. UNCHANGED next => one2 = one
  OBVIOUS
<1>9. UNCHANGED happened => c2 = c
  OBVIOUS
<1>10. UNCHANGED slotsLeft => S2 = S
  OBVIOUS
<1>11. UNCHANGED asked => q2 = q
  OBVIOUS
<1> HIDE DEF F, S, T, q, one, c, a, F2, S2, T2, q2, one2, c2, a2
<1>12. CASE tpMQTTCreate
  <2>1. /\ UNCHANGED <<toClient, asked, happened, slotsLeft>>
        /\ toClient = << >> /\ asked = << >> /\ frames = << >>
    BY <1>12 DEF tpMQTTCreate, StartInv, wire, record, client
  <2>2. F2 = 0 /\ q2 = 0 /\ T2 = 0 /\ a2 = a
    BY <1>7, <1>9, <2>1, NoPackets, SlotsToComeGone DEF F2, q2, T2
  <2>3. S2 = 0
    <3>1. slotsLeft' = {}
      BY <2>1 DEF TypeOK
    <3> QED
      BY <3>1, FS_EmptySet DEF S, S2
  <2> QED
    BY <1>3, <1>5, <2>2, <2>3
<1>13. CASE MainLoop \/ TimedOut \/ DeadlinePasses \/ UNCHANGED vars
  <2>1. UNCHANGED <<toClient, asked, happened, next, slotsLeft>>
    BY <1>13 DEF MainLoop, TimedOut, PublishReturns, DeadlinePasses, vars, client, agent, wire,
       record
  <2> QED
    BY <1>2, <1>3, <1>4, <1>7, <1>8, <1>9, <1>10, <1>11, <2>1
<1>14. CASE HandlerReturns
  <2>1. UNCHANGED <<toClient, asked, happened, next>> /\ SlotsEnd
    BY <1>14 DEF HandlerReturns, agent, wire, record
  <2>2. S2 <= S
    BY <2>1, SlotTaken DEF S, S2
  <2>3. F2 = F /\ T2 = T /\ one2 = one /\ a2 = a /\ q2 = q
    BY <1>4, <1>7, <1>8, <1>9, <1>11, <2>1
  <2> QED
    BY <1>2, <1>3, <1>5, <2>2, <2>3
<1>15. CASE Leave \/ LinkFails
  <2>1. toClient' = << >> /\ asked' = << >> /\ UNCHANGED <<next, slotsLeft>>
    BY <1>15 DEF Leave, LinkFails, Outside, agent, client
  <2>2. c2 = c
    <3>1. CASE Leave
      BY <1>9, <3>1 DEF Leave, record
    <3>2. CASE LinkFails
      BY <1>1, <3>2, HappenCounts DEF LinkFails, c, c2
    <3> QED
      BY <1>15, <3>1, <3>2
  <2>3. F2 = 0 /\ q2 = 0 /\ T2 = 0
    BY <2>1, NoPackets, SlotsToComeGone DEF F2, q2, T2
  <2>4. one2 = one /\ S2 = S /\ a2 = a
    BY <1>7, <1>8, <1>10, <2>1, <2>2
  <2> QED
    BY <1>2, <1>3, <1>5, <2>3, <2>4
<1>16. CASE Duplicate \/ Acknowledged
  <2>1. /\ toClient # << >> /\ toClient' = Tail(toClient)
        /\ UNCHANGED <<asked, happened, next, slotsLeft>>
    BY <1>16 DEF Duplicate, readPacket, Acknowledged, PublishReturns, agent, record, client
  <2>2. Head(toClient) \notin FreshMessage
    BY <1>16, AckMessage DEF Duplicate, Acknowledged, FreshMessage
  <2>3. F = F2 /\ T2 <= T /\ T2 \in Nat
    BY <1>1, <2>1, <2>2, FreshRead, SlotsToComeRead DEF F, F2, T, T2
  <2>4. one2 = one /\ S2 = S /\ a2 = a /\ q2 = q
    BY <1>7, <1>8, <1>9, <1>10, <1>11, <2>1
  <2> QED
    BY <1>2, <1>3, <1>5, <2>3, <2>4
<1>17. CASE ProcessCMD \/ Response
  <2>1. /\ toClient # << >> /\ toClient' = Tail(toClient)
        /\ UNCHANGED <<asked, happened>>
    BY <1>17 DEF ProcessCMD, Response, readPacket
  <2>2. Head(toClient) \in FreshMessage
    <3>1. OutsideOK
      BY TypeParts
    <3> QED
      BY <1>17, <2>1, <3>1, ReadType DEF ProcessCMD, Response, FreshMessage
  <2>3. next = "none"
    BY <1>17 DEF ProcessCMD, Response, readPacket, Waiting
  <2>4. F = F2 + 1
    BY <2>1, <2>2, FreshRead DEF F, F2
  <2>5. one = 0 /\ a2 = a /\ q2 = q
    BY <1>6, <1>7, <1>9, <1>11, <2>1, <2>3
  <2>6. T2 \in Nat /\ T2 <= T
    BY <1>1, <2>1, SlotsToComeRead DEF T, T2
  <2>7. S2 + T2 <= S + T
    <3>1. CASE slotsLeft' = slotsLeft
      BY <1>5, <1>10, <2>6, <3>1
    <3>2. CASE ProcessCMD /\ ~ONEM2M_V1_12
      <4>1. slotsLeft' = slotsLeft \cup {Len(frames)} /\ Head(toClient) \in CommandMessage
        BY <2>2, <3>2 DEF ProcessCMD, CommandMessage
      <4>2. T = T2 + 1
        BY <1>1, <2>1, <3>2, <4>1, SlotsToComeRead DEF T, T2
      <4>3. S2 <= S + 1
        <5>1. IsFiniteSet(slotsLeft) /\ Cardinality(slotsLeft) \in Nat
          BY SlotsFinite
        <5>2. \A n : Cardinality(slotsLeft \cup {n}) \in {Cardinality(slotsLeft),
                                                          Cardinality(slotsLeft) + 1}
          BY <5>1, FS_AddElement
        <5>3. S2 \in {S, S + 1}
          BY <4>1, <5>2 DEF S, S2
        <5> QED
          BY <1>5, <5>3
      <4> QED
        BY <1>5, <2>6, <4>2, <4>3
    <3> QED
      BY <1>17, <3>1, <3>2 DEF ProcessCMD, Response
  <2> QED
    BY <1>2, <1>3, <1>5, <2>4, <2>5, <2>6, <2>7
<1>18. CASE SecondSlot
  <2>1. /\ UNCHANGED <<toClient, asked, happened>> /\ next = "none"
        /\ SlotsEnd /\ Len(frames) \in slotsLeft
    BY <1>18 DEF SecondSlot, wire
  <2>2. S2 = S - 1
    BY <2>1, SlotTaken DEF S, S2
  <2>3. F2 = F /\ T2 = T /\ one = 0 /\ a2 = a /\ q2 = q
    BY <1>4, <1>6, <1>7, <1>9, <1>11, <2>1
  <2> QED
    BY <1>2, <1>3, <1>5, <2>2, <2>3
<1>19. CASE Publish
  <2>1. /\ UNCHANGED <<toClient, happened, slotsLeft>> /\ next # "none" /\ next' = "none"
        /\ asked' = Append(asked, next) \/ asked' = asked
    BY <1>19 DEF Publish, record
  <2>2. q2 <= q + 1
    <3>1. asked \in Seq(Request) /\ next \in Request \cup {"none"}
      BY DEF TypeOK
    <3> QED
      BY <1>5, <2>1, <3>1 DEF q, q2
  <2>3. one = 1 /\ one2 = 0 /\ a2 = a /\ F2 = F /\ S2 = S /\ T2 = T
    BY <1>4, <1>6, <1>7, <1>9, <1>10, <2>1
  <2> QED
    BY <1>2, <1>3, <1>5, <2>2, <2>3
<1>20. CASE BrokerAcks
  <2>1. toClient' = Append(toClient, Ack) /\ UNCHANGED <<asked, happened, next, slotsLeft>>
    BY <1>20 DEF BrokerAcks, Outside, agent, client
  <2>2. Ack \notin FreshMessage /\ Ack \notin CommandMessage
    BY AckMessage DEF FreshMessage, CommandMessage
  <2>3. F2 = F /\ T2 = T
    BY <1>1, <2>1, <2>2, FreshArrives, SlotsToComeArrives DEF F, F2, T, T2
  <2> QED
    BY <1>2, <1>3, <1>7, <1>8, <1>9, <1>10, <1>11, <2>1, <2>3
<1>21. CASE PlatformAnswers
  <2>1. asked # << >> /\ asked' = Tail(asked) /\ UNCHANGED <<next, slotsLeft>>
    BY <1>21 DEF PlatformAnswers, Outside, agent, client
  <2>2. q = q2 + 1 /\ Head(asked) \in Request
    BY <2>1 DEF TypeOK, q, q2
  <2>3. F2 <= F + 1 /\ T2 = T
    <3>1. CASE toClient' = toClient
      BY <1>4, <1>5, <3>1
    <3>2. ASSUME NEW ok \in BOOLEAN,
                 toClient' = Append(toClient, [kind |-> Head(asked), pc |-> ok, dup |-> FALSE])
          PROVE  F2 <= F + 1 /\ T2 = T
      <4> DEFINE m == [kind |-> Head(asked), pc |-> ok, dup |-> FALSE]
      <4>1. m \in Message /\ m \notin CommandMessage
        BY <2>2 DEF Message, CommandMessage, Request, Resource
      <4>2. toClient' = Append(toClient, m)
        BY <3>2
      <4> HIDE DEF m
      <4> QED
        BY <1>1, <1>5, <4>1, <4>2, FreshArrives, SlotsToComeArrives DEF F, F2, T, T2
    <3> QED
      BY <1>21, <3>1, <3>2 DEF PlatformAnswers
  <2>4. c2 = c
    BY <1>1, <1>21, HappenCounts DEF PlatformAnswers, c, c2
  <2>5. one2 = one /\ S2 = S /\ a2 = a
    BY <1>7, <1>8, <1>10, <2>1, <2>4
  <2> QED
    BY <1>2, <1>3, <1>5, <2>2, <2>3, <2>5
<1>22. CASE PlatformCommands
  <2> DEFINE m == [kind |-> "command", pc |-> TRUE, dup |-> FALSE]
  <2>1. toClient' = Append(toClient, m) /\ UNCHANGED <<asked, next, slotsLeft>>
    BY <1>22 DEF PlatformCommands, Outside, agent, client
  <2>2. m \in Message
    BY DEF Message
  <2>3. c2 = c + 1
    BY <1>1, <1>22, HappenCounts DEF PlatformCommands, c, c2
  <2> HIDE DEF m
  <2>4. F2 <= F + 1
    BY <1>5, <2>1, <2>2, FreshArrives DEF F, F2
  <2>5. T2 \in Nat /\ T2 <= T + IF ONEM2M_V1_12 THEN 0 ELSE 1
    BY <1>1, <2>1, <2>2, SlotsToComeArrives DEF T, T2
  <2>6. (ONEM2M_V1_12 => a2 = a + 1) /\ (~ONEM2M_V1_12 => a2 = a + 2)
    BY <1>7, <2>3
  <2>7. one2 = one /\ S2 = S /\ q2 = q
    BY <1>8, <1>10, <1>11, <2>1
  <2>8. CASE ONEM2M_V1_12
    BY <1>2, <1>3, <1>5, <2>4, <2>5, <2>6, <2>7, <2>8
  <2>9. CASE ~ONEM2M_V1_12
    BY <1>2, <1>3, <1>5, <2>4, <2>5, <2>6, <2>7, <2>9
  <2> QED
    BY <2>8, <2>9
<1>23. CASE BrokerRepeats
  <2>1. UNCHANGED <<asked, next, slotsLeft>> /\ Happen({"repeat"})
    BY <1>23 DEF BrokerRepeats, Outside, agent, client
  <2>2. PICK m \in Message : toClient' = Append(toClient, [m EXCEPT !.dup = TRUE])
    BY <1>23 DEF BrokerRepeats
  <2>3. [m EXCEPT !.dup = TRUE] \in Message /\ [m EXCEPT !.dup = TRUE] \notin FreshMessage
        /\ [m EXCEPT !.dup = TRUE] \notin CommandMessage
    BY DEF Message, FreshMessage, CommandMessage
  <2>4. F2 = F /\ T2 = T
    BY <1>1, <2>2, <2>3, FreshArrives, SlotsToComeArrives DEF F, F2, T, T2
  <2>5. c2 = c
    BY <1>1, <2>1, HappenCounts DEF c, c2
  <2> QED
    BY <1>2, <1>3, <1>7, <1>8, <1>10, <1>11, <2>1, <2>4, <2>5
<1> QED
  BY <1>12, <1>13, <1>14, <1>15, <1>16, <1>17, <1>18, <1>19, <1>20, <1>21, <1>22, <1>23
  DEF Next, Task, Read

\* The inductive invariant, and what it says without the slots.
ChainInv == TypeOK /\ StartInv /\ Waiting /\ ChainBound

\* The chain bound implies that there is one chain.
LEMMA ChainBounded == ChainInv => OneChain /\ Unanswered \in Nat /\ Added \in Nat
<1> SUFFICES ASSUME ChainInv PROVE OneChain /\ Unanswered \in Nat /\ Added \in Nat
  OBVIOUS
<1>1. TypeOK
  BY DEF ChainInv
<1>2. Cardinality(slotsLeft) \in Nat /\ SlotsToCome \in Nat
  BY <1>1, SlotsFinite, SlotsToComeKept
<1>3. Unanswered \in Nat
  <2>1. /\ Len(toClient) \in Nat /\ Len(asked) \in Nat
        /\ \A i \in 1..Len(toClient) : toClient[i] \in Message \cup {Ack}
    BY <1>1, ElementOfSeq DEF TypeOK
  <2>2. Fresh = At(toClient, FreshMessage, 1)
    BY <2>1, FreshAt DEF Fresh
  <2>3. Cardinality(Fresh) \in Nat
    BY <2>1, <2>2, AtFinite
  <2> QED
    BY <2>1, <2>3 DEF Unanswered
<1>4. Added \in Nat
  <2>1. happened["command"] \in Nat
    BY <1>1 DEF TypeOK, Event
  <2> QED
    BY <2>1 DEF Added
<1>5. Unanswered + Cardinality(slotsLeft) + SlotsToCome <= 1 + Added
  BY DEF ChainInv, ChainBound
<1>6. Unanswered <= 1 + Added
  BY <1>2, <1>3, <1>4, <1>5
<1> QED
  BY <1>3, <1>4, <1>6 DEF OneChain

\* Nothing is requested at first.
LEMMA ChainInvInit == Init => ChainInv
<1> SUFFICES ASSUME Init PROVE ChainInv
  OBVIOUS
<1>1. TypeOK
  BY InitType
<1>2. StartInv /\ Waiting /\ happened["command"] = 0
  BY DEF Init, StartInv, Waiting, Client!CallsInit, Event
<1>3. Cardinality(Fresh) = 0 /\ Len(asked) = 0 /\ next = "none" /\ Cardinality(slotsLeft) = 0
  <2>1. Fresh = {} /\ slotsLeft = {}
    BY DEF Init, Fresh
  <2> QED
    BY <2>1, FS_EmptySet DEF Init
<1>4. SlotsToCome = 0
  <2>1. Len(toClient) = 0 /\ 1 \in Nat
    BY DEF Init
  <2>2. Cardinality(At(toClient, CommandMessage, 1)) = 0
    BY <2>1, AtEnd
  <2> QED
    BY <2>2 DEF SlotsToCome, Count
<1>5. Added = 0
  BY <1>2 DEF Added
<1>6. Unanswered = 0
  BY <1>3 DEF Unanswered
<1> QED
  BY <1>1, <1>2, <1>3, <1>4, <1>5, <1>6 DEF ChainInv, ChainBound

\* Every step keeps the chain.
LEMMA ChainInvNext == ChainInv /\ [Next]_vars => ChainInv'
<1> SUFFICES ASSUME ChainInv, [Next]_vars PROVE ChainInv'
  OBVIOUS
<1>1. TypeOK'
  BY NextType DEF ChainInv
<1> QED
  BY <1>1, StartNext, WaitingNext, ChainNext DEF ChainInv

\* However often a message is repeated, and whatever is lost, there is one chain of
\* requests and one more for each command, in release 1.0 two: apart from the second
\* slot of a command no answer makes the handler publish twice.
THEOREM OneChainCorrect == Spec => []OneChain
<1>1. ChainInv => OneChain
  BY ChainBounded
<1> QED
  BY <1>1, ChainInvInit, ChainInvNext, PTL DEF Spec

-----------------------------------------------------------------------------
(* Each step's own response.                                                 *)

\* Without a command whatever is under way is the request of the current step: the
\* one to be published, those to be answered, the answers that will be handled.
OwnKind ==
    happened["command"] = 0 =>
        /\ next # "none" => next = mStep
        /\ \A i \in 1..Len(asked) : asked[i] = mStep
        /\ \A i \in Fresh : toClient[i].kind = mStep
        /\ OwnResponses /\ slotsLeft = {}

\* A message that is read behind nothing else: nothing will be handled after it.
LEMMA LastOfChain ==
    ASSUME ChainInv, TypeOK', happened["command"] = 0,
           toClient # << >>, Head(toClient) \in FreshMessage, toClient' = Tail(toClient)
    PROVE  asked = << >> /\ Fresh' = {} /\ next = "none" /\ 1 \in Fresh
<1>1. TypeOK /\ Len(asked) \in Nat
  BY DEF ChainInv, TypeOK
<1>2. Cardinality(Fresh) = Cardinality(Fresh') + 1 /\ Cardinality(Fresh') \in Nat
  BY <1>1, FreshRead, FreshCounted
<1>3. Len(asked) + Cardinality(Fresh) + (IF next = "none" THEN 0 ELSE 1) <= 1
  <2>1. Unanswered <= 1 + Added /\ Added = 0
    BY ChainBounded DEF OneChain, Added
  <2> QED
    BY <2>1 DEF Unanswered
<1>4. Len(asked) = 0 /\ Cardinality(Fresh') = 0 /\ next = "none"
  BY <1>1, <1>2, <1>3
<1>5. asked = << >>
  BY <1>1, <1>4 DEF TypeOK
<1>6. Fresh' = {}
  BY <1>1, <1>4, FreshCounted, FS_EmptySet
<1>7. 1 \in Fresh
  <2>1. Head(toClient) = toClient[1] /\ Len(toClient) \in Nat \ {0}
    BY <1>1, PacketRead
  <2>2. toClient[1] \in FreshMessage /\ 1 \in 1..Len(toClient)
    BY <2>1
  <2> QED
    BY <1>1, <2>2, FreshCounted DEF At
<1> QED
  BY <1>4, <1>5, <1>6, <1>7

\* A packet that joins: Fresh grows by its place or not at all.
LEMMA KindsArrive ==
    ASSUME TypeOK, TypeOK', NEW m \in Message \cup {Ack}, toClient' = Append(toClient, m),
           NEW k, \A i \in Fresh : toClient[i].kind = k,
           m \in FreshMessage => m.kind = k
    PROVE  \A i \in Fresh' : toClient'[i].kind = k
<1>1. /\ Len(toClient') = Len(toClient) + 1 /\ Len(toClient) \in Nat
      /\ \A i \in 1..Len(toClient) : toClient'[i] = toClient[i]
      /\ toClient'[Len(toClient) + 1] = m
  BY PacketArrives
<1>2. \A i \in 1..Len(toClient') : i \in 1..Len(toClient) \/ i = Len(toClient) + 1
  BY <1>1
<1> SUFFICES ASSUME NEW i \in Fresh' PROVE toClient'[i].kind = k
  OBVIOUS
<1>3. i \in 1..Len(toClient') /\ toClient'[i] \in FreshMessage
  BY FreshCounted DEF At
<1>4. CASE i \in 1..Len(toClient)
  <2>1. i \in Fresh
    <3>1. i \in At(toClient, FreshMessage, 1)
      BY <1>1, <1>3, <1>4 DEF At
    <3> QED
      BY <3>1, FreshCounted
  <2> QED
    BY <1>1, <1>4, <2>1
<1>5. CASE i = Len(toClient) + 1
  BY <1>1, <1>3, <1>5
<1> QED
  BY <1>2, <1>3, <1>4, <1>5

\* Likewise when a packet is read.
LEMMA KindsRead ==
    ASSUME TypeOK, TypeOK', toClient # << >>, toClient' = Tail(toClient),
           NEW k, \A i \in Fresh : toClient[i].kind = k
    PROVE  \A i \in Fresh' : toClient'[i].kind = k
<1>1. /\ Len(toClient') = Len(toClient) - 1 /\ Len(toClient) \in Nat
      /\ \A i \in 1..Len(toClient') : toClient'[i] = toClient[i + 1]
  BY PacketRead
<1> SUFFICES ASSUME NEW i \in Fresh' PROVE toClient'[i].kind = k
  OBVIOUS
<1>2. i \in 1..Len(toClient') /\ toClient'[i] \in FreshMessage
  BY FreshCounted DEF At
<1>3. i + 1 \in At(toClient, FreshMessage, 1)
  BY <1>1, <1>2 DEF At
<1> QED
  BY <1>1, <1>2, <1>3, FreshCounted

\* Every step keeps OwnKind: the step moves on when nothing of the old one is left.
LEMMA OwnKindNext == ChainInv /\ TypeOK' /\ OwnKind /\ [Next]_vars => OwnKind'
<1> SUFFICES ASSUME ChainInv, TypeOK', OwnKind, [Next]_vars, happened'["command"] = 0
             PROVE  /\ next' # "none" => next' = mStep'
                    /\ \A i \in 1..Len(asked') : asked'[i] = mStep'
                    /\ \A i \in Fresh' : toClient'[i].kind = mStep'
                    /\ OwnResponses' /\ slotsLeft' = {}
  BY DEF OwnKind
<1>1. TypeOK /\ StartInv
  BY DEF ChainInv
<1>2. happened["command"] = 0
  <2>1. "command" \in Event
    BY DEF Event
  <2> QED
    BY <1>1, <2>1, EventsGrow
<1>3. /\ next # "none" => next = mStep
      /\ \A i \in 1..Len(asked) : asked[i] = mStep
      /\ \A i \in Fresh : toClient[i].kind = mStep
      /\ OwnResponses /\ slotsLeft = {}
  BY <1>2 DEF OwnKind
<1>4. /\ asked \in Seq(Request) /\ Len(asked) \in Nat
      /\ mStep \in Resource \cup {"end"} /\ next \in Request \cup {"none"}
  BY <1>1 DEF TypeOK
<1>5. UNCHANGED answeredBy => OwnResponses'
  BY <1>2, <1>3 DEF OwnResponses
<1>6. UNCHANGED <<toClient, mStep>> => \A i \in Fresh' : toClient'[i].kind = mStep'
  BY <1>3, FreshKept
<1>7. CASE tpMQTTCreate
  BY <1>1, <1>3, <1>5, <1>6, <1>7 DEF tpMQTTCreate, StartInv, wire, record, client
<1>8. CASE MainLoop \/ HandlerReturns \/ TimedOut \/ DeadlinePasses \/ UNCHANGED vars
  <2>1. UNCHANGED <<toClient, asked, next, mStep, answeredBy>> /\ slotsLeft' = {}
    BY <1>3, <1>8 DEF MainLoop, HandlerReturns, SlotsEnd, TimedOut, PublishReturns,
       DeadlinePasses, vars, client, agent, wire, record
  <2> QED
    BY <1>3, <1>5, <1>6, <2>1
<1>9. CASE Leave \/ LinkFails
  <2>1. toClient' = << >> /\ asked' = << >> /\ UNCHANGED <<next, mStep, answeredBy, slotsLeft>>
    BY <1>9 DEF Leave, LinkFails, Outside, agent, record, client
  <2>2. Fresh' = {} /\ Len(asked') = 0
    BY <2>1, NoPackets
  <2> QED
    BY <1>3, <1>5, <2>1, <2>2
<1>10. CASE Duplicate \/ Acknowledged
  <2>1. /\ toClient # << >> /\ toClient' = Tail(toClient)
        /\ UNCHANGED <<asked, next, mStep, answeredBy, slotsLeft>>
    BY <1>10 DEF Duplicate, readPacket, Acknowledged, PublishReturns, agent, record, client
  <2>2. \A i \in Fresh' : toClient'[i].kind = mStep
    BY <1>1, <1>3, <2>1, KindsRead
  <2> QED
    BY <1>3, <1>5, <2>1, <2>2
<1>11. CASE ProcessCMD \/ Response
  <2>1. toClient # << >> /\ toClient' = Tail(toClient) /\ asked' = asked
    BY <1>11 DEF ProcessCMD, Response, readPacket
  <2>2. Head(toClient) \in FreshMessage
    <3>1. OutsideOK
      BY <1>1, TypeParts
    <3> QED
      BY <1>11, <2>1, <3>1, ReadType DEF ProcessCMD, Response, FreshMessage
  <2>3. asked = << >> /\ Fresh' = {} /\ next = "none" /\ 1 \in Fresh
    BY <1>2, <2>1, <2>2, LastOfChain
  <2>4. Head(toClient).kind = mStep
    <3>1. Head(toClient) = toClient[1]
      BY <1>1, <2>1, PacketRead
    <3> QED
      BY <1>3, <2>3, <3>1
  <2>5. ~ProcessCMD
    BY <1>4, <2>4 DEF ProcessCMD, Resource
  <2>6. MQTTMessageArrived(mStep, Head(toClient).pc) /\ slotsLeft' = {}
    BY <1>3, <1>11, <2>4, <2>5 DEF Response
  <2>7. Len(asked') = 0
    BY <2>1, <2>3
  <2>8. next' # "none" => next' = mStep'
    <3>1. CASE UNCHANGED agent
      BY <2>3, <3>1 DEF agent
    <3>2. CASE ~UNCHANGED agent
      <4> DEFINE step == Follow(mStep, held')
      <4> HIDE DEF step
      <4>1. /\ mStep' = IF step = "none" THEN mStep ELSE step
            /\ next' = IF step \in Resource THEN step ELSE "none"
        BY <2>6, <3>2 DEF MQTTMessageArrived, step
      <4>2. "none" \notin Resource
        BY DEF Resource
      <4> QED
        BY <4>1, <4>2
    <3> QED
      BY <3>1, <3>2
  <2>9. OwnResponses'
    <3>1. answeredBy \in [Resource -> SUBSET Request]
      BY <1>1 DEF TypeOK
    <3>2. CASE UNCHANGED answeredBy
      BY <1>5, <3>2
    <3>3. CASE mStep \in Resource /\ answeredBy' = [answeredBy EXCEPT ![mStep] = @ \cup {mStep}]
      BY <1>2, <1>3, <3>1, <3>3 DEF OwnResponses
    <3> QED
      BY <2>6, <3>2, <3>3 DEF MQTTMessageArrived
  <2> QED
    BY <2>3, <2>6, <2>7, <2>8, <2>9
<1>12. CASE Publish
  <2>1. /\ UNCHANGED <<toClient, mStep, answeredBy, slotsLeft>> /\ next \in Request /\ next' = "none"
        /\ asked' = Append(asked, next) \/ asked' = asked
    BY <1>4, <1>12 DEF Publish, record
  <2>2. \A i \in 1..Len(asked') : asked'[i] = mStep
    <3>1. CASE asked' = Append(asked, next)
      <4>1. /\ Len(asked') = Len(asked) + 1 /\ asked'[Len(asked) + 1] = next
            /\ \A i \in 1..Len(asked) : asked'[i] = asked[i]
        BY <1>4, <2>1, <3>1
      <4>2. next = mStep
        BY <1>3, <1>12 DEF Publish
      <4> QED
        BY <1>3, <1>4, <4>1, <4>2
    <3> QED
      BY <1>3, <2>1, <3>1
  <2> QED
    BY <1>3, <1>5, <1>6, <2>1, <2>2
<1>13. CASE BrokerAcks
  <2>1. /\ toClient' = Append(toClient, Ack)
        /\ UNCHANGED <<asked, next, mStep, answeredBy, slotsLeft>>
    BY <1>13 DEF BrokerAcks, Outside, agent, client
  <2>2. \A i \in Fresh' : toClient'[i].kind = mStep
    BY <1>1, <1>3, <2>1, AckMessage, KindsArrive DEF FreshMessage
  <2> QED
    BY <1>3, <1>5, <2>1, <2>2
<1>14. CASE PlatformAnswers
  <2>1. asked # << >> /\ asked' = Tail(asked) /\ UNCHANGED <<next, mStep, answeredBy, slotsLeft>>
    BY <1>14 DEF PlatformAnswers, Outside, agent, client
  <2>2. /\ \A i \in 1..Len(asked') : asked'[i] = mStep
        /\ Head(asked) = mStep /\ mStep \in Request
    <3>1. /\ Len(asked) \in Nat \ {0} /\ Len(asked') = Len(asked) - 1 /\ Head(asked) = asked[1]
          /\ \A i \in 1..Len(asked') : asked'[i] = asked[i + 1]
          /\ Head(asked) \in Request
      BY <1>4, <2>1
    <3>2. \A i \in 1..Len(asked') : i + 1 \in 1..Len(asked)
      BY <3>1
    <3>3. 1 \in 1..Len(asked)
      BY <3>1
    <3> QED
      BY <1>3, <3>1, <3>2, <3>3
  <2>3. \A i \in Fresh' : toClient'[i].kind = mStep
    <3>1. CASE toClient' = toClient
      BY <1>6, <2>1, <3>1
    <3>2. ASSUME NEW ok \in BOOLEAN,
                 toClient' = Append(toClient, [kind |-> Head(asked), pc |-> ok, dup |-> FALSE])
          PROVE  \A i \in Fresh' : toClient'[i].kind = mStep
      <4> DEFINE m == [kind |-> Head(asked), pc |-> ok, dup |-> FALSE]
      <4>1. m \in Message /\ m.kind = mStep
        BY <2>2 DEF Message
      <4>2. toClient' = Append(toClient, m)
        BY <3>2
      <4> HIDE DEF m
      <4> QED
        BY <1>1, <1>3, <4>1, <4>2, KindsArrive
    <3> QED
      BY <1>14, <3>1, <3>2 DEF PlatformAnswers
  <2> QED
    BY <1>3, <1>5, <2>1, <2>2, <2>3
<1>15. ~PlatformCommands
  <2> SUFFICES ASSUME PlatformCommands PROVE FALSE
    OBVIOUS
  <2>1. "command" \in Event
    BY DEF Event
  <2>2. happened'["command"] = happened["command"] + 1
    BY <1>1, <2>1, HappenCounts DEF PlatformCommands, TypeOK
  <2> QED
    BY <1>2, <2>2
<1>16. CASE BrokerRepeats
  <2>1. UNCHANGED <<asked, next, mStep, answeredBy, slotsLeft>>
    BY <1>16 DEF BrokerRepeats, Outside, agent, client
  <2>2. PICK m \in Message : toClient' = Append(toClient, [m EXCEPT !.dup = TRUE])
    BY <1>16 DEF BrokerRepeats
  <2>3. [m EXCEPT !.dup = TRUE] \in Message \ FreshMessage
    BY DEF Message, FreshMessage
  <2>4. \A i \in Fresh' : toClient'[i].kind = mStep
    BY <1>1, <1>3, <2>2, <2>3, KindsArrive
  <2> QED
    BY <1>3, <1>5, <2>1, <2>4
<1>17. ~SecondSlot
  BY <1>3 DEF SecondSlot
<1> QED
  BY <1>7, <1>8, <1>9, <1>10, <1>11, <1>12, <1>13, <1>14, <1>15, <1>16, <1>17
  DEF Next, Task, Read

\* Without a command every response a step acts on answers that step's own request,
\* though the handler takes whatever response comes for it.
THEOREM OwnResponsesCorrect == Spec => []OwnResponses
<1>1. Init => OwnKind
  <2> SUFFICES ASSUME Init PROVE OwnKind
    OBVIOUS
  <2>1. Fresh = {} /\ Len(asked) = 0 /\ next = "none" /\ slotsLeft = {}
    BY DEF Init, Fresh
  <2>2. OwnResponses
    BY DEF Init, OwnResponses
  <2> QED
    BY <2>1, <2>2 DEF OwnKind
<1>2. ChainInv /\ OwnKind => OwnResponses
  BY DEF OwnKind, OwnResponses
<1>3. ChainInv /\ OwnKind /\ [Next]_vars => OwnKind'
  <2>1. ChainInv => TypeOK
    BY DEF ChainInv
  <2> QED
    BY <2>1, NextType, OwnKindNext
<1> QED
  BY <1>1, <1>2, <1>3, ChainInvInit, ChainInvNext, PTL DEF Spec

-----------------------------------------------------------------------------
(* The stack of calls.                                                       *)

\* A lost connection leaves nothing on its way.
LinkInv == ~link => toClient = << >> /\ asked = << >> /\ unacked = 0

\* The responses are not subscribed before the main loop, nor read after it.
QuietInv == stage \in {"create", "exit", "ended"} => Cardinality(Fresh) = 0

\* Only the outermost call is the main loop's yield.
YieldFirst == \A i \in 2..Len(frames) : frames[i].call # Yield
Yields     == IF Len(frames) > 0 /\ frames[1].call = Yield THEN 1 ELSE 0

\* Every publish under way has its acknowledgement ahead: in the broker or on its way.
AcksAhead == link => Len(frames) <= unacked + Count({Ack}, 1) + Yields

\* Nobody writes to a lost connection.
LEMMA LinkNext == TypeOK /\ LinkInv /\ [Next]_vars => LinkInv'
<1> SUFFICES ASSUME TypeOK, LinkInv, [Next]_vars, ~link' PROVE LinkInv'
  BY DEF LinkInv
<1>1. UNCHANGED wire => LinkInv'
  BY DEF wire, LinkInv
<1>2. CASE Leave \/ LinkFails
  BY <1>2 DEF Leave, LinkFails, LinkInv
<1>3. CASE tpMQTTCreate \/ MainLoop \/ SecondSlot \/ HandlerReturns \/ DeadlinePasses \/ UNCHANGED vars
  BY <1>1, <1>3 DEF tpMQTTCreate, MainLoop, SecondSlot, HandlerReturns, DeadlinePasses, vars
<1>4. CASE TimedOut
  BY <1>1, <1>4 DEF TimedOut, PublishReturns, wire
<1>5. CASE Publish
  BY <1>5 DEF Publish, LinkInv
<1>6. CASE Duplicate \/ ProcessCMD \/ Response \/ Acknowledged
  <2>1. toClient # << >> /\ link' = link
    BY <1>6 DEF Duplicate, ProcessCMD, Response, readPacket, Acknowledged, PublishReturns
  <2> QED
    BY <2>1 DEF LinkInv
<1>7. ~BrokerAcks /\ ~PlatformAnswers /\ ~PlatformCommands /\ ~BrokerRepeats
  BY DEF BrokerAcks, PlatformAnswers, PlatformCommands, BrokerRepeats, LinkInv
<1> QED
  BY <1>2, <1>3, <1>4, <1>5, <1>6, <1>7 DEF Next, Task, Read

\* Nothing to be handled arrives outside the main loop.
LEMMA QuietNext == TypeOK /\ TypeOK' /\ StartInv /\ QuietInv /\ [Next]_vars => QuietInv'
<1> SUFFICES ASSUME TypeOK, TypeOK', StartInv, QuietInv, [Next]_vars,
                    stage' \in {"create", "exit", "ended"}
             PROVE  Cardinality(Fresh') = 0
  BY DEF QuietInv
<1>1. Cardinality(Fresh) \in Nat /\ Cardinality(Fresh') \in Nat
  BY FreshCounted
<1>2. UNCHANGED <<stage, toClient>> => Cardinality(Fresh') = 0
  BY FreshKept DEF QuietInv
<1>3. CASE tpMQTTCreate
  BY <1>3, NoPackets DEF tpMQTTCreate, StartInv, wire
<1>4. CASE Leave \/ LinkFails
  BY <1>4, NoPackets DEF Leave, LinkFails
<1>5. CASE MainLoop \/ HandlerReturns \/ Publish \/ TimedOut \/ DeadlinePasses \/ UNCHANGED vars
  BY <1>2, <1>5 DEF MainLoop, HandlerReturns, Publish, TimedOut, PublishReturns, DeadlinePasses,
     vars, wire
<1>6. CASE Duplicate \/ ProcessCMD \/ Response \/ Acknowledged
  <2>1. toClient # << >> /\ toClient' = Tail(toClient)
    BY <1>6 DEF Duplicate, ProcessCMD, Response, readPacket, Acknowledged
  <2>2. stage' = stage
    BY <1>6 DEF Duplicate, ProcessCMD, Response, MQTTMessageArrived, readPacket, Acknowledged,
       PublishReturns
  <2>3. Cardinality(Fresh) = 0
    BY <2>2 DEF QuietInv
  <2> QED
    BY <1>1, <2>1, <2>3, FreshRead
<1>7. CASE BrokerAcks
  <2>1. toClient' = Append(toClient, Ack) /\ stage' = stage
    BY <1>7 DEF BrokerAcks, Outside
  <2> QED
    BY <2>1, AckMessage, FreshArrives DEF QuietInv, FreshMessage
<1>8. CASE PlatformAnswers \/ PlatformCommands
  BY <1>2, <1>8 DEF PlatformAnswers, PlatformCommands, Outside
<1>9. CASE BrokerRepeats
  <2>1. stage' = stage
    BY <1>9 DEF BrokerRepeats, Outside
  <2>2. PICK m \in Message : toClient' = Append(toClient, [m EXCEPT !.dup = TRUE])
    BY <1>9 DEF BrokerRepeats
  <2>3. [m EXCEPT !.dup = TRUE] \in Message \ FreshMessage
    BY DEF Message, FreshMessage
  <2> QED
    BY <2>1, <2>2, <2>3, FreshArrives DEF QuietInv
<1>10. CASE SecondSlot
  <2>1. UNCHANGED toClient /\ stage' \in {stage, "fault"}
    BY <1>10 DEF SecondSlot, MQTTMessageArrived, wire
  <2> QED
    BY <1>2, <2>1
<1> QED
  BY <1>3, <1>4, <1>5, <1>6, <1>7, <1>8, <1>9, <1>10 DEF Next, Task, Read

\* What a step may do to the stack of calls.
StackGrows(c) ==
    /\ Len(frames') = Len(frames) + 1 /\ frames'[Len(frames) + 1].call = c
    /\ \A i \in 1..Len(frames) : frames'[i] = frames[i]
StackShrinks ==
    /\ Len(frames) > 0 /\ Len(frames') = Len(frames) - 1
    /\ \A i \in 1..Len(frames') : frames'[i] = frames[i]

\* Every step but a call leaves the stack or takes its last frame away.
LEMMA StackMoves ==
    TypeOK /\ [Next]_vars /\ ~MainLoop /\ ~Publish => CallsGoOn \/ StackShrinks
<1> SUFFICES ASSUME TypeOK, [Next]_vars, ~MainLoop, ~Publish PROVE CallsGoOn \/ StackShrinks
  OBVIOUS
<1>1. CallsOK /\ OutsideOK
  BY TypeParts
<1>2. UNCHANGED calls => CallsGoOn
  BY <1>1, CallsRest
<1>3. Client!Return => StackShrinks
  BY <1>1, CallReturns DEF StackShrinks
<1>4. CASE tpMQTTCreate \/ Leave \/ Duplicate \/ SecondSlot \/ UNCHANGED vars
  BY <1>2, <1>4 DEF tpMQTTCreate, Leave, Duplicate, SecondSlot, vars, client
<1>5. CASE ProcessCMD \/ Response
  BY <1>1, <1>2, <1>5, ReadType, CallBegins DEF ProcessCMD, Response, readPacket
<1>6. CASE HandlerReturns
  BY <1>1, <1>3, <1>6, CallFinishes DEF HandlerReturns
<1>7. CASE Acknowledged \/ TimedOut
  BY <1>2, <1>3, <1>7 DEF Acknowledged, TimedOut, PublishReturns, client
<1>8. CASE DeadlinePasses
  BY <1>1, <1>8, CallLate DEF DeadlinePasses
<1>9. CASE BrokerAcks \/ PlatformAnswers \/ PlatformCommands \/ BrokerRepeats \/ LinkFails
  BY <1>2, <1>9 DEF BrokerAcks, PlatformAnswers, PlatformCommands, BrokerRepeats, LinkFails,
     Outside, client
<1> QED
  BY <1>4, <1>5, <1>6, <1>7, <1>8, <1>9 DEF Next, Task, Read

\* The main loop calls from an empty stack.
LEMMA MainLoopCalls == TypeOK /\ MainLoop => StackGrows(Yield) /\ Len(frames) = 0
<1> SUFFICES ASSUME TypeOK, MainLoop PROVE StackGrows(Yield) /\ Len(frames) = 0
  OBVIOUS
<1>1. CallsOK /\ Yield \in AnyCall /\ Client!Call(Yield) /\ frames = << >>
  BY TypeParts DEF MainLoop, AnyCall
<1> QED
  BY <1>1, CallMade DEF StackGrows

\* A publish is another call, when the connection lives.
LEMMA PublishCalls ==
    TypeOK /\ Publish =>
        /\ link => /\ \E c \in Publications : StackGrows(c)
                   /\ asked' = Append(asked, next) /\ unacked' = unacked + 1
        /\ ~link => CallsGoOn /\ UNCHANGED <<asked, unacked>>
        /\ next \in Request /\ next' = "none"
        /\ UNCHANGED <<toClient, link, happened, stage>>
<1> SUFFICES ASSUME TypeOK, Publish
    PROVE  /\ link => /\ \E c \in Publications : StackGrows(c)
                      /\ asked' = Append(asked, next) /\ unacked' = unacked + 1
           /\ ~link => CallsGoOn /\ UNCHANGED <<asked, unacked>>
           /\ next \in Request /\ next' = "none"
           /\ UNCHANGED <<toClient, link, happened, stage>>
  OBVIOUS
<1> DEFINE samplings == IF next = "contentInstance" THEN gContent + 1 ELSE 0
           c == Publication(next, samplings)
<1>1. CallsOK /\ next \in Request /\ gContent \in Nat
  BY TypeParts DEF Publish, AgentOK
<1>2. c \in Publications /\ c \in AnyCall
  BY <1>1 DEF Publication, Publications, AnyCall
<1>3. IF link THEN Client!Call(c) ELSE UNCHANGED calls
  BY DEF Publish
<1> HIDE DEF c
<1>4. link => StackGrows(c)
  BY <1>1, <1>2, <1>3, CallMade DEF StackGrows
<1>5. ~link => CallsGoOn
  BY <1>1, <1>3, CallsRest
<1>6. /\ link => asked' = Append(asked, next) /\ unacked' = unacked + 1
      /\ ~link => UNCHANGED <<asked, unacked>>
      /\ next' = "none" /\ UNCHANGED <<toClient, link, happened, stage>>
  BY DEF Publish, record
<1> QED
  BY <1>1, <1>2, <1>4, <1>5, <1>6

\* A handler publishes and never yields.
LEMMA YieldNext == TypeOK /\ YieldFirst /\ [Next]_vars => YieldFirst'
<1> SUFFICES ASSUME TypeOK, YieldFirst, [Next]_vars PROVE YieldFirst'
  OBVIOUS
<1>1. Len(frames) \in Nat
  BY DEF TypeOK
<1>2. CallsGoOn \/ StackShrinks => YieldFirst'
  <2>1. CASE CallsGoOn
    BY <1>1, <2>1 DEF CallsGoOn, YieldFirst
  <2>2. CASE StackShrinks
    BY <1>1, <2>2 DEF StackShrinks, YieldFirst
  <2> QED
    BY <2>1, <2>2
<1>3. CASE MainLoop
  <2>1. Len(frames') = 1
    BY <1>3, MainLoopCalls DEF StackGrows
  <2> QED
    BY <2>1 DEF YieldFirst
<1>4. CASE Publish
  <2>1. \A c \in Publications : c # Yield
    BY DEF Publications, Yield, Request, Resource
  <2>2. ASSUME NEW c \in Publications, StackGrows(c) PROVE YieldFirst'
    <3>1. c # Yield
      BY <2>1, <2>2
    <3>2. \A i \in 2..Len(frames') : i \in 2..Len(frames) \/ i = Len(frames) + 1
      BY <1>1, <2>2 DEF StackGrows
    <3>3. \A i \in 2..Len(frames) : frames'[i] = frames[i]
      BY <1>1, <2>2 DEF StackGrows
    <3> QED
      BY <2>2, <3>1, <3>2, <3>3 DEF StackGrows, YieldFirst
  <2> QED
    BY <1>2, <1>4, <2>2, PublishCalls
<1> QED
  BY <1>2, <1>3, <1>4, StackMoves

\* The bound on the stack as the steps of the calls leave it: what is ahead may only
\* fall by the publish that returns.
LEMMA AheadKept ==
    ASSUME TypeOK, TypeOK', AcksAhead, NEW n \in Nat, NEW n2 \in Nat, link' => link,
           n = unacked + Count({Ack}, 1), n2 = unacked' + Count({Ack}, 1)',
           \/ CallsGoOn /\ n2 >= n
           \/ StackShrinks /\ n2 + 1 >= n
    PROVE  AcksAhead'
<1> SUFFICES ASSUME link' PROVE Len(frames') <= n2 + Yields'
  BY DEF AcksAhead
<1>1. Len(frames) <= n + Yields /\ Len(frames) \in Nat /\ Len(frames') \in Nat
  BY DEF AcksAhead, TypeOK
<1>2. Yields \in {0, 1} /\ Yields' \in {0, 1}
  BY DEF Yields
<1>3. CASE CallsGoOn /\ n2 >= n
  <2>1. Yields' = Yields /\ Len(frames') = Len(frames)
    BY <1>1, <1>3 DEF CallsGoOn, Yields
  <2> QED
    BY <1>1, <1>2, <1>3, <2>1
<1>4. CASE StackShrinks /\ n2 + 1 >= n
  <2>1. CASE Len(frames') = 0
    BY <1>2, <2>1
  <2>2. CASE Len(frames') > 0
    <3>1. Yields' = Yields /\ Len(frames') = Len(frames) - 1
      BY <1>1, <1>4, <2>2 DEF StackShrinks, Yields
    <3> QED
      BY <1>1, <1>2, <1>4, <3>1
  <2> QED
    BY <1>1, <2>1, <2>2
<1> QED
  BY <1>3, <1>4

\* Of the acknowledgements on their way one is read, or none, or one more comes.
LEMMA AcksRead ==
    ASSUME TypeOK, toClient # << >>, toClient' = Tail(toClient)
    PROVE  /\ Count({Ack}, 1) \in Nat /\ Count({Ack}, 1)' \in Nat
           /\ Head(toClient) = Ack => Count({Ack}, 1) = Count({Ack}, 1)' + 1
           /\ Head(toClient) # Ack => Count({Ack}, 1) = Count({Ack}, 1)'
<1>1. 1 \in 1..Len(toClient) /\ 1 + 1 = 2
  BY PacketRead
<1>2. Count({Ack}, 1)' = Count({Ack}, 2)
  BY <1>1, PacketRead
<1>3. /\ Count({Ack}, 1) = Count({Ack}, 2) + IF Head(toClient) \in {Ack} THEN 1 ELSE 0
      /\ Count({Ack}, 2) \in Nat
  BY PacketRead
<1> QED
  BY <1>2, <1>3

\* Likewise for a packet that arrives, and for none.
LEMMA AcksArrive ==
    ASSUME TypeOK, NEW m \in Message \cup {Ack}, toClient' = Append(toClient, m)
    PROVE  /\ Count({Ack}, 1) \in Nat /\ Count({Ack}, 1)' \in Nat
           /\ m = Ack => Count({Ack}, 1)' = Count({Ack}, 1) + 1
           /\ m # Ack => Count({Ack}, 1)' = Count({Ack}, 1)
<1>1. 1 \in 1..(Len(toClient) + 1)
  BY PacketArrives
<1>2. /\ Count({Ack}, 1)' = Count({Ack}, 1) + IF m \in {Ack} THEN 1 ELSE 0
      /\ Count({Ack}, 1) \in Nat
  BY <1>1, PacketArrives
<1> QED
  BY <1>2

\* The acknowledgements on their way are as many while the stream is the same.
LEMMA AcksKept ==
    ASSUME TypeOK, UNCHANGED toClient
    PROVE  Count({Ack}, 1) \in Nat /\ Count({Ack}, 1)' = Count({Ack}, 1)
<1>1. Len(toClient) \in Nat
  BY DEF TypeOK
<1>2. Count({Ack}, 1) \in Nat
  BY <1>1, AtFinite DEF Count
<1> QED
  BY <1>2 DEF Count

\* Every step keeps the acknowledgements ahead of the publishes under way.
LEMMA AheadNext ==
    TypeOK /\ TypeOK' /\ YieldFirst /\ AcksAhead /\ [Next]_vars => AcksAhead'
<1> SUFFICES ASSUME TypeOK, TypeOK', YieldFirst, AcksAhead, [Next]_vars, link'
             PROVE  AcksAhead'
  BY DEF AcksAhead
<1>1. /\ unacked \in Nat /\ unacked' \in Nat /\ Len(frames) \in Nat
      /\ CallsOK /\ OutsideOK
  BY TypeParts DEF TypeOK
<1>2. Yields \in {0, 1} /\ Yields' \in {0, 1}
  BY DEF Yields
<1> DEFINE A == Count({Ack}, 1)
<1>3. ASSUME A \in Nat, A' \in Nat, link, CallsGoOn, unacked' + A' >= unacked + A
      PROVE  AcksAhead'
  <2> DEFINE n == unacked + A
             n2 == unacked' + A'
  <2>1. n \in Nat /\ n2 \in Nat
    BY <1>1, <1>3
  <2> QED
    BY <1>3, <2>1, AheadKept
<1>4. ASSUME A \in Nat, A' \in Nat, link, StackShrinks, unacked' + A' + 1 >= unacked + A
      PROVE  AcksAhead'
  <2> DEFINE n == unacked + A
             n2 == unacked' + A'
  <2>1. n \in Nat /\ n2 \in Nat /\ n2 + 1 >= n
    BY <1>1, <1>4
  <2> QED
    BY <1>4, <2>1, AheadKept
<1>5. UNCHANGED <<toClient, unacked>> => A \in Nat /\ A' = A /\ unacked' + A' = unacked + A
  BY <1>1, AcksKept
<1>6. link /\ ~Leave /\ ~LinkFails
  BY DEF Next, Task, Read, tpMQTTCreate, MainLoop, Leave, Duplicate, ProcessCMD,
     Response, SecondSlot, readPacket, Acknowledged, PublishReturns, HandlerReturns, Publish,
     TimedOut, DeadlinePasses, BrokerAcks, PlatformAnswers, PlatformCommands, BrokerRepeats,
     LinkFails, Outside, vars, wire
<1>7. CASE MainLoop
  <2>1. UNCHANGED <<toClient, unacked>>
    BY <1>7 DEF MainLoop, wire
  <2>2. Len(frames') = 1 /\ frames'[1].call = Yield
    BY <1>7, MainLoopCalls DEF StackGrows
  <2>3. Yields' = 1
    BY <2>2 DEF Yields
  <2>4. A' \in Nat
    BY <1>5, <2>1
  <2> QED
    BY <1>1, <2>2, <2>3, <2>4 DEF AcksAhead
<1>8. CASE Publish
  <2>1. UNCHANGED toClient /\ unacked' = unacked + 1
    BY <1>6, <1>8, PublishCalls
  <2>2. PICK c \in Publications : StackGrows(c)
    BY <1>6, <1>8, PublishCalls
  <2>3. A \in Nat /\ A' = A
    BY <2>1, AcksKept
  <2>4. Len(frames) = 0 \/ Yields' = Yields
    BY <1>1, <2>2 DEF StackGrows, Yields
  <2>5. Len(frames) <= unacked + A + Yields /\ Len(frames') = Len(frames) + 1
    BY <1>6, <2>2 DEF AcksAhead, StackGrows
  <2>6. Len(frames') <= unacked' + A' + Yields'
    BY <1>1, <1>2, <2>1, <2>3, <2>4, <2>5
  <2> QED
    BY <2>6 DEF AcksAhead
<1>9. CASE ~MainLoop /\ ~Publish
  <2>1. CallsGoOn \/ StackShrinks
    BY <1>9, StackMoves
  <2>2. ASSUME A \in Nat, A' \in Nat, unacked' + A' >= unacked + A PROVE AcksAhead'
    <3>1. unacked' + A' + 1 >= unacked + A
      BY <1>1, <2>2
    <3>2. CASE CallsGoOn
      BY <1>3, <1>6, <2>2, <3>2
    <3>3. CASE StackShrinks
      BY <1>4, <1>6, <2>2, <3>1, <3>3
    <3> QED
      BY <2>1, <3>2, <3>3
  <2>3. UNCHANGED <<toClient, unacked>> => AcksAhead'
    BY <1>1, <1>5, <2>2
  <2>4. CASE tpMQTTCreate \/ SecondSlot \/ HandlerReturns \/ TimedOut \/ DeadlinePasses \/ UNCHANGED vars
    BY <2>3, <2>4 DEF tpMQTTCreate, SecondSlot, HandlerReturns, TimedOut, PublishReturns,
       DeadlinePasses, vars, wire
  <2>5. CASE Duplicate \/ ProcessCMD \/ Response
    <3>1. /\ toClient # << >> /\ toClient' = Tail(toClient) /\ unacked' = unacked
          /\ Head(toClient) # Ack
      <4>1. Ack.kind \notin Request \cup {"command"} /\ ~Ack.dup
        BY DEF Ack, Request, Resource
      <4> QED
        BY <2>5, <4>1 DEF Duplicate, ProcessCMD, Response, readPacket
    <3>2. A \in Nat /\ A' = A
      BY <3>1, AcksRead
    <3> QED
      BY <1>1, <2>2, <3>1, <3>2
  <2>6. CASE Acknowledged
    <3>1. /\ toClient # << >> /\ toClient' = Tail(toClient) /\ unacked' = unacked
          /\ Head(toClient) = Ack
      BY <2>6 DEF Acknowledged, PublishReturns
    <3>2. A \in Nat /\ A' \in Nat /\ A = A' + 1
      BY <3>1, AcksRead
    <3>3. CASE PublishReturns
      <4>1. StackShrinks
        BY <1>1, <3>3, CallReturns DEF PublishReturns, StackShrinks
      <4>2. unacked' + A' + 1 >= unacked + A
        BY <1>1, <3>1, <3>2
      <4> QED
        BY <1>4, <1>6, <3>2, <4>1, <4>2
    <3>4. CASE Client!Inner.call = Yield /\ UNCHANGED calls
      <4>1. Len(frames) > 0 /\ frames[Len(frames)].call = Yield
        BY <1>1, <2>6, <3>4 DEF Acknowledged, Client!Reading, Client!NoCalls, Client!Inner, CallsOK
      <4>2. ~(Len(frames) \in 2..Len(frames))
        BY <4>1 DEF YieldFirst
      <4>3. Len(frames) = 1
        BY <1>1, <4>1, <4>2
      <4>4. Len(frames') = 1 /\ frames'[1].call = Yield
        BY <3>4, <4>1, <4>3 DEF calls
      <4>5. Yields' = 1
        BY <4>4 DEF Yields
      <4> QED
        BY <1>1, <3>2, <4>4, <4>5 DEF AcksAhead
    <3> QED
      BY <2>6, <3>3, <3>4 DEF Acknowledged, client
  <2>7. CASE BrokerAcks
    <3>1. toClient' = Append(toClient, Ack) /\ unacked' = unacked - 1
      BY <2>7 DEF BrokerAcks
    <3>2. A \in Nat /\ A' = A + 1
      BY <3>1, AcksArrive
    <3> QED
      BY <1>1, <2>2, <3>1, <3>2
  <2>8. CASE PlatformAnswers \/ PlatformCommands \/ BrokerRepeats
    <3>0. asked # << >> => Head(asked) \in Request
      BY DEF TypeOK
    <3>1. unacked' = unacked
      BY <2>8 DEF PlatformAnswers, PlatformCommands, BrokerRepeats
    <3>2. CASE UNCHANGED toClient
      BY <2>3, <3>1, <3>2
    <3>3. ASSUME NEW m \in Message, toClient' = Append(toClient, m) PROVE AcksAhead'
      <4>1. A \in Nat /\ A' = A
        BY <3>3, AckMessage, AcksArrive
      <4> QED
        BY <1>1, <2>2, <3>1, <4>1
    <3>4. UNCHANGED toClient \/ \E m \in Message : toClient' = Append(toClient, m)
      <4>1. CASE PlatformAnswers
        <5>1. \A ok \in BOOLEAN : [kind |-> Head(asked), pc |-> ok, dup |-> FALSE] \in Message
          BY <3>0, <4>1 DEF PlatformAnswers, Message
        <5> QED
          BY <4>1, <5>1 DEF PlatformAnswers
      <4>2. CASE PlatformCommands
        <5>1. [kind |-> "command", pc |-> TRUE, dup |-> FALSE] \in Message
          BY DEF Message
        <5> QED
          BY <4>2, <5>1 DEF PlatformCommands
      <4>3. CASE BrokerRepeats
        <5>1. \A m \in Message : [m EXCEPT !.dup = TRUE] \in Message
          BY DEF Message
        <5> QED
          BY <4>3, <5>1 DEF BrokerRepeats
      <4> QED
        BY <2>8, <4>1, <4>2, <4>3
    <3> QED
      BY <3>2, <3>3, <3>4
  <2> QED
    BY <1>6, <1>9, <2>4, <2>5, <2>6, <2>7, <2>8 DEF Next, Task, Read
<1> QED
  BY <1>7, <1>8, <1>9

\* While no answer overtakes, of what is on its way from any place on there are no more
\* acknowledgements than answers, those the broker and the platform still owe included.
Balanced == \A k \in 1..(Len(toClient) + 1) :
              unacked + Count({Ack}, k) <= Len(asked) + Count(AnswerMessage, k)
AcksFirst == stage = "loop" /\ happened["overtake"] = 0 => Balanced

\* At the end: no more acknowledgements than answers are owed.
LEMMA OwedBalance == TypeOK /\ Balanced => unacked <= Len(asked)
<1> SUFFICES ASSUME TypeOK, Balanced PROVE unacked <= Len(asked)
  OBVIOUS
<1> DEFINE k == Len(toClient) + 1
<1>1. Len(toClient) \in Nat /\ unacked \in Nat /\ Len(asked) \in Nat
  BY DEF TypeOK
<1>2. k \in Nat /\ k > Len(toClient) /\ k \in 1..(Len(toClient) + 1)
  BY <1>1
<1> HIDE DEF k
<1>3. Count({Ack}, k) = 0 /\ Count(AnswerMessage, k) = 0
  BY <1>1, <1>2, AtEnd DEF Count
<1>4. unacked + Count({Ack}, k) <= Len(asked) + Count(AnswerMessage, k)
  BY <1>2 DEF Balanced
<1> QED
  BY <1>1, <1>3, <1>4

\* The balance holds on when a packet is read, wherever it is counted from.
LEMMA BalanceRead ==
    ASSUME TypeOK, Balanced, toClient # << >>, toClient' = Tail(toClient),
           UNCHANGED <<unacked, asked>>
    PROVE  Balanced'
<1>1. Len(toClient) \in Nat \ {0} /\ Len(toClient') = Len(toClient) - 1
  BY PacketRead
<1> SUFFICES ASSUME NEW k \in 1..(Len(toClient') + 1)
             PROVE  unacked' + Count({Ack}, k)' <= Len(asked') + Count(AnswerMessage, k)'
  BY DEF Balanced
<1>2. k \in 1..Len(toClient) /\ k + 1 \in 1..(Len(toClient) + 1)
  BY <1>1
<1>3. Count({Ack}, k)' = Count({Ack}, k + 1) /\ Count(AnswerMessage, k)' = Count(AnswerMessage, k + 1)
  BY <1>2, PacketRead
<1>4. unacked + Count({Ack}, k + 1) <= Len(asked) + Count(AnswerMessage, k + 1)
  BY <1>2 DEF Balanced
<1> QED
  BY <1>3, <1>4

\* Likewise when one arrives, if it does not overtake.
LEMMA BalanceArrives ==
    ASSUME TypeOK, TypeOK', Balanced,
           NEW m \in Message \cup {Ack}, toClient' = Append(toClient, m),
           NEW a \in {0, 1}, NEW b \in {0, 1},
           a = IF m = Ack THEN 1 ELSE 0, b = IF m \in AnswerMessage THEN 1 ELSE 0,
           unacked' <= Len(asked'),
           unacked' + a + Len(asked) <= unacked + Len(asked') + b
    PROVE  Balanced'
<1>1. Len(toClient) \in Nat /\ Len(toClient') = Len(toClient) + 1
  BY PacketArrives
<1>2. unacked \in Nat /\ unacked' \in Nat /\ Len(asked) \in Nat /\ Len(asked') \in Nat
  BY DEF TypeOK
<1> SUFFICES ASSUME NEW k \in 1..(Len(toClient') + 1)
             PROVE  unacked' + Count({Ack}, k)' <= Len(asked') + Count(AnswerMessage, k)'
  BY DEF Balanced
<1>3. CASE k \in 1..(Len(toClient) + 1)
  <2>1. /\ Count({Ack}, k)' = Count({Ack}, k) + IF m \in {Ack} THEN 1 ELSE 0
        /\ Count(AnswerMessage, k)' = Count(AnswerMessage, k) + IF m \in AnswerMessage THEN 1 ELSE 0
        /\ Count({Ack}, k) \in Nat /\ Count(AnswerMessage, k) \in Nat
    BY <1>3, PacketArrives
  <2>2. unacked + Count({Ack}, k) <= Len(asked) + Count(AnswerMessage, k)
    BY <1>3 DEF Balanced
  <2>3. Count({Ack}, k)' = Count({Ack}, k) + a /\ Count(AnswerMessage, k)' = Count(AnswerMessage, k) + b
    BY <2>1
  <2>4. Count({Ack}, k) \in Nat /\ Count(AnswerMessage, k) \in Nat /\ a \in Nat /\ b \in Nat
    BY <2>1
  <2> DEFINE u == unacked
             u2 == unacked'
             s == Len(asked)
             s2 == Len(asked')
             A == Count({Ack}, k)
             B == Count(AnswerMessage, k)
  <2>5. u \in Nat /\ u2 \in Nat /\ s \in Nat /\ s2 \in Nat /\ A \in Nat /\ B \in Nat
    BY <1>2, <2>4
  <2>6. u + A <= s + B
    BY <2>2
  <2>7. u2 + a + s <= u + s2 + b
    OBVIOUS
  <2> HIDE DEF u, u2, s, s2, A, B
  <2>8. u2 + (A + a) <= s2 + (B + b)
    BY <2>4, <2>5, <2>6, <2>7
  <2> QED
    BY <2>3, <2>8 DEF u2, s2, A, B
<1>4. CASE k = Len(toClient') + 1
  <2>1. k \in Nat /\ k > Len(toClient') /\ Len(toClient') \in Nat
    BY <1>1, <1>4
  <2>2. Cardinality(At(toClient', {Ack}, k)) = 0 /\ Cardinality(At(toClient', AnswerMessage, k)) = 0
    BY <2>1, AtEnd
  <2>3. Count({Ack}, k)' = 0 /\ Count(AnswerMessage, k)' = 0
    BY <2>2 DEF Count
  <2> QED
    BY <1>2, <2>3
<1> QED
  BY <1>1, <1>3, <1>4

\* Requests and their acknowledgements come to be owed together.
LEMMA BalanceKept ==
    ASSUME TypeOK, Balanced, UNCHANGED toClient,
           unacked' + Len(asked) <= unacked + Len(asked'), TypeOK'
    PROVE  Balanced'
<1>1. /\ unacked \in Nat /\ unacked' \in Nat /\ Len(asked) \in Nat /\ Len(asked') \in Nat
      /\ Len(toClient) \in Nat
  BY DEF TypeOK
<1> SUFFICES ASSUME NEW k \in 1..(Len(toClient) + 1)
             PROVE  unacked' + Count({Ack}, k)' <= Len(asked') + Count(AnswerMessage, k)'
  BY DEF Balanced
<1>2. k \in Nat
  BY <1>1
<1>3. Count({Ack}, k) \in Nat /\ Count(AnswerMessage, k) \in Nat
  BY <1>1, <1>2, AtFinite DEF Count
<1>4. Count({Ack}, k)' = Count({Ack}, k) /\ Count(AnswerMessage, k)' = Count(AnswerMessage, k)
  BY DEF Count
<1>5. unacked + Count({Ack}, k) <= Len(asked) + Count(AnswerMessage, k)
  BY DEF Balanced
<1> QED
  BY <1>1, <1>3, <1>4, <1>5

\* Nothing on its way is in balance.
LEMMA NothingBalances ==
    ASSUME toClient' = << >>, asked' = << >>, unacked' = 0 PROVE Balanced'
<1> SUFFICES ASSUME NEW k \in 1..(Len(toClient') + 1)
             PROVE  unacked' + Count({Ack}, k)' <= Len(asked') + Count(AnswerMessage, k)'
  BY DEF Balanced
<1>1. k \in Nat /\ Len(toClient') = 0 /\ k > Len(toClient') /\ Len(toClient') \in Nat
  OBVIOUS
<1>2. Cardinality(At(toClient', {Ack}, k)) = 0 /\ Cardinality(At(toClient', AnswerMessage, k)) = 0
  BY <1>1, AtEnd
<1>3. Len(asked') = 0
  OBVIOUS
<1> QED
  BY <1>2, <1>3 DEF Count

\* Every step keeps the balance, an answer that overtakes aside.
LEMMA AcksFirstNext ==
    TypeOK /\ TypeOK' /\ StartInv /\ AcksFirst /\ [Next]_vars => AcksFirst'
<1> SUFFICES ASSUME TypeOK, TypeOK', StartInv, AcksFirst, [Next]_vars,
                    stage' = "loop", happened'["overtake"] = 0
             PROVE  Balanced'
  BY DEF AcksFirst
<1>1. happened["overtake"] = 0 /\ "overtake" \in Event
  <2>1. "overtake" \in Event
    BY DEF Event
  <2> QED
    BY <2>1, EventsGrow
<1>2. stage = "loop" => Balanced
  BY <1>1 DEF AcksFirst
<1>3. /\ unacked \in Nat /\ Len(asked) \in Nat /\ unacked' \in Nat /\ Len(asked') \in Nat
  BY DEF TypeOK
<1>4. CASE tpMQTTCreate
  BY <1>4, NothingBalances DEF tpMQTTCreate, StartInv, wire
<1>5. CASE Leave \/ LinkFails
  BY <1>5, NothingBalances DEF Leave, LinkFails
<1>6. CASE MainLoop \/ SecondSlot \/ HandlerReturns \/ TimedOut \/ DeadlinePasses \/ UNCHANGED vars
  <2>1. UNCHANGED <<stage, toClient, unacked, asked>>
    BY <1>6 DEF MainLoop, SecondSlot, MQTTMessageArrived, HandlerReturns, TimedOut, PublishReturns, DeadlinePasses, vars, wire
  <2>2. unacked' + Len(asked) <= unacked + Len(asked')
    BY <1>3, <2>1
  <2> QED
    BY <1>2, <2>1, <2>2, BalanceKept
<1>7. CASE Publish
  <2>1. stage' = stage /\ toClient' = toClient
    BY <1>7, PublishCalls
  <2>2. unacked' + Len(asked) <= unacked + Len(asked')
    <3>1. CASE link
      <4>1. asked' = Append(asked, next) /\ unacked' = unacked + 1
        BY <1>7, <3>1, PublishCalls
      <4>2. Len(asked') = Len(asked) + 1
        BY <4>1 DEF TypeOK
      <4> QED
        BY <1>3, <4>1, <4>2
    <3>2. CASE ~link
      BY <1>3, <1>7, <3>2, PublishCalls
    <3> QED
      BY <3>1, <3>2
  <2> QED
    BY <1>2, <2>1, <2>2, BalanceKept
<1>8. CASE Duplicate \/ ProcessCMD \/ Response \/ Acknowledged
  <2>1. toClient # << >> /\ toClient' = Tail(toClient) /\ UNCHANGED <<unacked, asked>>
    BY <1>8 DEF Duplicate, ProcessCMD, Response, readPacket, Acknowledged, PublishReturns
  <2>2. stage = "loop"
    BY <1>8 DEF Duplicate, ProcessCMD, Response, MQTTMessageArrived, readPacket, Acknowledged,
       PublishReturns
  <2> QED
    BY <1>2, <2>1, <2>2, BalanceRead
<1>9. CASE BrokerAcks
  <2>1. /\ toClient' = Append(toClient, Ack) /\ unacked' = unacked - 1
        /\ UNCHANGED <<stage, asked>>
    BY <1>9 DEF BrokerAcks, Outside
  <2>2. unacked <= Len(asked)
    BY <1>2, <2>1, OwedBalance
  <2>3. Ack \notin AnswerMessage
    BY AckMessage DEF AnswerMessage, FreshMessage
  <2>4. unacked' <= Len(asked') /\ unacked' + 1 + Len(asked) <= unacked + Len(asked') + 0
    BY <1>3, <2>1, <2>2
  <2> QED
    BY <1>2, <2>1, <2>3, <2>4, BalanceArrives
<1>10. CASE PlatformAnswers
  <2>1. asked # << >> /\ asked' = Tail(asked) /\ UNCHANGED <<stage, unacked>>
    BY <1>10 DEF PlatformAnswers, Outside
  <2>2. Len(asked) = Len(asked') + 1 /\ Head(asked) \in Request
    BY <2>1 DEF TypeOK
  <2>3. PICK ok \in BOOLEAN :
          /\ Happen((IF ok THEN {} ELSE {"error"})
                     \cup (IF unacked < Len(asked) THEN {} ELSE {"overtake"}))
          /\ toClient' = Append(toClient, [kind |-> Head(asked), pc |-> ok, dup |-> FALSE])
    BY <1>10, <2>1 DEF PlatformAnswers
  <2>4. unacked < Len(asked)
    <3> SUFFICES ASSUME ~(unacked < Len(asked)) PROVE FALSE
      OBVIOUS
    <3> DEFINE E == (IF ok THEN {} ELSE {"error"})
                     \cup (IF unacked < Len(asked) THEN {} ELSE {"overtake"})
    <3>1. "overtake" \in E /\ Happen(E)
      BY <2>3
    <3> HIDE DEF E
    <3>2. happened \in [Event -> Nat]
      BY DEF TypeOK
    <3>3. happened'["overtake"] = happened["overtake"] + 1
      BY <1>1, <3>1, <3>2, HappenCounts
    <3> QED
      BY <1>1, <3>3
  <2> DEFINE m == [kind |-> Head(asked), pc |-> ok, dup |-> FALSE]
  <2>5. m \in AnswerMessage
    BY <2>2 DEF AnswerMessage, FreshMessage, Message
  <2>6. toClient' = Append(toClient, m)
    BY <2>3
  <2>7. m \in Message /\ m # Ack
    BY <2>5, AckMessage DEF AnswerMessage, FreshMessage
  <2>8. unacked' <= Len(asked') /\ unacked' + 0 + Len(asked) <= unacked + Len(asked') + 1
    BY <1>3, <2>1, <2>2, <2>4
  <2> HIDE DEF m
  <2> QED
    BY <1>2, <2>1, <2>5, <2>6, <2>7, <2>8, BalanceArrives
<1>11. CASE PlatformCommands \/ BrokerRepeats
  <2>1. UNCHANGED <<stage, unacked, asked>>
    BY <1>11 DEF PlatformCommands, BrokerRepeats, Outside
  <2>2. PICK m \in Message : m \notin AnswerMessage /\ toClient' = Append(toClient, m)
    <3>1. CASE PlatformCommands
      <4>1. [kind |-> "command", pc |-> TRUE, dup |-> FALSE] \in Message \ AnswerMessage
        BY DEF Message, AnswerMessage, Request, Resource
      <4> QED
        BY <3>1, <4>1 DEF PlatformCommands
    <3>2. CASE BrokerRepeats
      <4>1. \A m \in Message : [m EXCEPT !.dup = TRUE] \in Message \ AnswerMessage
        BY DEF Message, AnswerMessage, FreshMessage
      <4> QED
        BY <3>2, <4>1 DEF BrokerRepeats
    <3> QED
      BY <1>11, <3>1, <3>2
  <2>3. unacked' <= Len(asked') /\ unacked' + 0 + Len(asked) <= unacked + Len(asked') + 0
    BY <1>2, <1>3, <2>1, OwedBalance
  <2>4. m # Ack
    BY AckMessage
  <2> QED
    BY <1>2, <2>1, <2>2, <2>3, <2>4, BalanceArrives
<1> QED
  BY <1>4, <1>5, <1>6, <1>7, <1>8, <1>9, <1>10, <1>11 DEF Next, Task, Read

\* The handler's turn to publish, now or in a second slot: room is left for one more call.
RoomInv ==
    happened["overtake"] = 0 =>
        /\ next # "none" => Len(frames) <= 1 + Added
        /\ \A i \in slotsLeft : i <= 1 + Added

\* The inductive invariant of the stack.
StackInv ==
    /\ ChainInv
    /\ LinkInv /\ QuietInv /\ YieldFirst /\ AcksAhead /\ AcksFirst
    /\ RoomInv /\ StackIsShallow

\* A message is handled: the publishes under way have their acknowledgements behind it,
\* these have their answers, and these are in one chain with the message itself.
LEMMA RoomToHandle ==
    ASSUME StackInv, TypeOK', happened["overtake"] = 0, stage # "fault",
           toClient # << >>, Head(toClient) \in FreshMessage, toClient' = Tail(toClient)
    PROVE  Len(frames) <= 1 + Added
<1>1. TypeOK /\ Head(toClient) # Ack
  BY AckMessage DEF StackInv, ChainInv, FreshMessage
<1>2. /\ unacked \in Nat /\ Len(asked) \in Nat /\ Len(frames) \in Nat /\ link \in BOOLEAN
      /\ happened \in [Event -> Nat]
      /\ stage \in {"create", "loop", "exit", "ended", "fault"}
  BY <1>1 DEF TypeOK
<1>3. Added \in Nat /\ Unanswered <= 1 + Added
  BY ChainBounded DEF StackInv, OneChain
<1>4. /\ Cardinality(Fresh) = Count(FreshMessage, 1) /\ Cardinality(Fresh) \in Nat
      /\ Cardinality(Fresh) = Cardinality(Fresh') + 1 /\ Cardinality(Fresh') \in Nat
  BY <1>1, FreshCounted, FreshRead
<1>5. stage = "loop" /\ link
  BY <1>2, <1>4 DEF StackInv, QuietInv, LinkInv
<1>6. Len(frames) <= unacked + Count({Ack}, 1) + 1
  <2>1. Len(frames) <= unacked + Count({Ack}, 1) + Yields
    BY <1>5 DEF StackInv, AcksAhead
  <2>2. Yields \in {0, 1}
    BY DEF Yields
  <2>3. Count({Ack}, 1) \in Nat
    BY <1>1, AcksRead
  <2> QED
    BY <1>2, <2>1, <2>2, <2>3
<1>7. 2 \in 1..(Len(toClient) + 1) /\ Len(toClient) \in Nat \ {0}
  BY <1>1, PacketRead
<1>8. unacked + Count({Ack}, 2) <= Len(asked) + Count(AnswerMessage, 2)
  BY <1>5, <1>7 DEF StackInv, AcksFirst, Balanced
<1>9. Count({Ack}, 1) = Count({Ack}, 2) /\ Count({Ack}, 2) \in Nat
  <2>1. /\ Count({Ack}, 1) = Count({Ack}, 2) + IF Head(toClient) \in {Ack} THEN 1 ELSE 0
        /\ Count({Ack}, 2) \in Nat
    BY <1>1, PacketRead
  <2> QED
    BY <1>1, <2>1
<1>10. Count(AnswerMessage, 2) \in Nat /\ Count(AnswerMessage, 2) <= Cardinality(Fresh')
  <2>1. Cardinality(Fresh') = Count(FreshMessage, 2)
    <3>1. /\ Count(FreshMessage, 1) = Count(FreshMessage, 2)
               + IF Head(toClient) \in FreshMessage THEN 1 ELSE 0
          /\ Count(FreshMessage, 2) \in Nat
      BY <1>1, PacketRead
    <3> QED
      BY <1>4, <3>1
  <2>2. At(toClient, AnswerMessage, 2) \subseteq At(toClient, FreshMessage, 2)
    BY DEF At, AnswerMessage
  <2>3. IsFiniteSet(At(toClient, FreshMessage, 2)) /\ Count(AnswerMessage, 2) \in Nat
    BY <1>7, AtFinite DEF Count
  <2>4. Count(AnswerMessage, 2) <= Count(FreshMessage, 2)
    BY <2>2, <2>3, FS_Subset DEF Count
  <2> QED
    BY <2>1, <2>3, <2>4
<1>11. Len(asked) + Cardinality(Fresh) + (IF next = "none" THEN 0 ELSE 1) <= 1 + Added
  BY <1>3 DEF Unanswered
<1>12. Len(asked) + Cardinality(Fresh) <= 1 + Added
  BY <1>2, <1>3, <1>4, <1>11
<1> QED
  BY <1>2, <1>3, <1>4, <1>6, <1>8, <1>9, <1>10, <1>12

\* Every step that gives a handler its turn finds room for its call.
LEMMA RoomNext == StackInv /\ TypeOK' /\ [Next]_vars => RoomInv'
<1> SUFFICES ASSUME StackInv, TypeOK', [Next]_vars, happened'["overtake"] = 0
             PROVE  /\ next' # "none" => Len(frames') <= 1 + Added'
                    /\ \A i \in slotsLeft' : i <= 1 + Added'
  BY DEF RoomInv
<1>1. TypeOK /\ StartInv /\ CallsOK /\ OutsideOK
  BY TypeParts DEF StackInv, ChainInv
<1>2. happened["overtake"] = 0 /\ Added \in Nat /\ Added' \in Nat /\ Added <= Added'
  <2>1. "overtake" \in Event
    BY DEF Event
  <2> QED
    BY <1>1, <2>1, EventsGrow, AddedGrows
<1>3. /\ next # "none" => Len(frames) <= 1 + Added
      /\ \A i \in slotsLeft : i \in Nat /\ i <= 1 + Added
  <2>1. slotsLeft \subseteq Nat
    BY <1>1 DEF TypeOK
  <2> QED
    BY <1>2, <2>1 DEF StackInv, RoomInv
<1>4. Len(frames) \in Nat /\ Len(frames') \in Nat
  BY <1>1 DEF TypeOK
<1>5. \A i \in slotsLeft : i <= 1 + Added'
  BY <1>2, <1>3
<1>6. CASE MainLoop \/ Publish
  <2>1. next' = "none" /\ slotsLeft' = slotsLeft
    BY <1>6 DEF MainLoop, Publish, agent
  <2> QED
    BY <1>5, <2>1
<1>7. ASSUME ~MainLoop, ~Publish PROVE Len(frames') <= Len(frames)
  BY <1>1, <1>4, <1>7, StackMoves DEF CallsGoOn, StackShrinks
<1>8. CASE tpMQTTCreate
  <2>1. Len(frames') = 0 /\ slotsLeft' = slotsLeft
    BY <1>1, <1>8 DEF tpMQTTCreate, StartInv, client, calls
  <2>2. \A n \in Nat : 0 <= 1 + n
    OBVIOUS
  <2> QED
    BY <1>2, <1>5, <2>1, <2>2
<1>9. CASE ProcessCMD \/ Response
  <2>1. toClient # << >> /\ toClient' = Tail(toClient) /\ stage # "fault"
    BY <1>9 DEF ProcessCMD, Response, readPacket
  <2>2. Head(toClient) \in FreshMessage
    BY <1>1, <1>9, <2>1, ReadType DEF ProcessCMD, Response, FreshMessage
  <2>3. Len(frames) <= 1 + Added
    BY <1>2, <2>1, <2>2, RoomToHandle
  <2>4. slotsLeft' \subseteq slotsLeft \cup {Len(frames)}
    BY <1>9 DEF ProcessCMD, Response
  <2>5. Len(frames') = Len(frames)
    BY <1>1, <1>9, <2>1, ReadType, CallBegins DEF ProcessCMD, Response, CallsGoOn
  <2>6. Len(frames) <= 1 + Added'
    BY <1>2, <1>4, <2>3
  <2> QED
    BY <1>5, <2>4, <2>5, <2>6
<1>10. CASE SecondSlot
  <2>1. frames' = frames /\ slotsLeft' \subseteq slotsLeft /\ Len(frames) \in slotsLeft
    BY <1>10 DEF SecondSlot, SlotsEnd, calls
  <2> QED
    BY <1>5, <2>1
<1>11. CASE ~MainLoop /\ ~Publish /\ ~tpMQTTCreate /\ ~ProcessCMD /\ ~Response /\ ~SecondSlot
  <2>1. UNCHANGED next /\ slotsLeft' \subseteq slotsLeft
    BY <1>11 DEF Next, Task, Read, Leave, Duplicate, Acknowledged, PublishReturns,
       HandlerReturns, SlotsEnd, TimedOut, DeadlinePasses, BrokerAcks, PlatformAnswers,
       PlatformCommands, BrokerRepeats, LinkFails, Outside, vars, agent, client
  <2>2. next # "none" => Len(frames') <= 1 + Added'
    BY <1>2, <1>3, <1>4, <1>7, <1>11
  <2> QED
    BY <1>5, <2>1, <2>2
<1> QED
  BY <1>6, <1>8, <1>9, <1>10, <1>11

\* Every step keeps the stack shallow.
LEMMA ShallowNext == StackInv /\ TypeOK' /\ [Next]_vars => StackIsShallow'
<1> SUFFICES ASSUME StackInv, TypeOK', [Next]_vars, happened'["overtake"] = 0
             PROVE  Len(frames') <= 2 + Added'
  BY DEF StackIsShallow
<1>1. TypeOK /\ Len(frames) \in Nat /\ Len(frames') \in Nat
  BY DEF StackInv, ChainInv, TypeOK
<1>2. happened["overtake"] = 0 /\ Added \in Nat /\ Added' \in Nat /\ Added <= Added'
  <2>1. "overtake" \in Event
    BY DEF Event
  <2> QED
    BY <1>1, <2>1, EventsGrow, AddedGrows
<1>3. Len(frames) <= 2 + Added
  BY <1>2 DEF StackInv, StackIsShallow
<1>4. CASE MainLoop
  <2>1. Len(frames') = 1
    BY <1>1, <1>4, MainLoopCalls DEF StackGrows
  <2>2. \A n \in Nat : 1 <= 2 + n
    OBVIOUS
  <2> QED
    BY <1>2, <2>1, <2>2
<1>5. CASE Publish
  <2>1. Len(frames) <= 1 + Added
    BY <1>2, <1>5 DEF StackInv, RoomInv, Publish
  <2>2. Len(frames') <= Len(frames) + 1
    BY <1>1, <1>5, PublishCalls DEF StackGrows, CallsGoOn
  <2> QED
    BY <1>1, <1>2, <2>1, <2>2
<1>6. CASE ~MainLoop /\ ~Publish
  <2>1. Len(frames') <= Len(frames)
    BY <1>1, <1>6, StackMoves DEF CallsGoOn, StackShrinks
  <2> QED
    BY <1>1, <1>2, <1>3, <2>1
<1> QED
  BY <1>4, <1>5, <1>6

\* The two facts of the induction.
LEMMA StackInvInit == Init => StackInv
<1> SUFFICES ASSUME Init PROVE StackInv
  OBVIOUS
<1>1. ChainInv
  BY ChainInvInit
<1>2. frames = << >> /\ Len(frames) = 0 /\ link = TRUE /\ stage = "create" /\ next = "none"
      /\ unacked = 0 /\ Added = 0 /\ slotsLeft = {}
  <2>1. happened["command"] = 0
    BY DEF Init, Event
  <2> QED
    BY <2>1 DEF Init, Client!CallsInit, Added
<1>3. Cardinality(Fresh) = 0
  <2>1. Fresh = {}
    BY DEF Init, Fresh
  <2> QED
    BY <2>1, FS_EmptySet
<1>4. Count({Ack}, 1) \in Nat
  <2>1. Len(toClient) = 0
    BY DEF Init
  <2> QED
    BY <2>1, AtFinite DEF Count
<1>5. LinkInv /\ QuietInv /\ YieldFirst /\ AcksFirst
  BY <1>2, <1>3 DEF LinkInv, QuietInv, YieldFirst, AcksFirst
<1>6. AcksAhead
  <2>1. Yields = 0
    BY <1>2 DEF Yields
  <2> QED
    BY <1>2, <1>4, <2>1 DEF AcksAhead
<1>7. RoomInv /\ StackIsShallow
  BY <1>2 DEF RoomInv, StackIsShallow
<1> QED
  BY <1>1, <1>5, <1>6, <1>7 DEF StackInv

\* Every step keeps the stack shallow, with what this rests on.
LEMMA StackInvNext == StackInv /\ [Next]_vars => StackInv'
<1> SUFFICES ASSUME StackInv, [Next]_vars PROVE StackInv'
  OBVIOUS
<1>1. ChainInv' /\ TypeOK' /\ TypeOK /\ StartInv
  BY ChainInvNext DEF StackInv, ChainInv
<1>2. LinkInv' /\ QuietInv' /\ YieldFirst' /\ AcksAhead' /\ AcksFirst'
  BY <1>1, LinkNext, QuietNext, YieldNext, AheadNext, AcksFirstNext DEF StackInv
<1>3. RoomInv' /\ StackIsShallow'
  BY <1>1, RoomNext, ShallowNext
<1> QED
  BY <1>1, <1>2, <1>3 DEF StackInv

\* While no answer overtakes the acknowledgement of its request, the task's stack holds
\* two calls and one more for each chain that a command has added at most, whatever the
\* number of messages and however the calls end.
THEOREM StackIsShallowCorrect == Spec => []StackIsShallow
<1>1. StackInv => StackIsShallow
  BY DEF StackInv
<1> QED
  BY <1>1, StackInvInit, StackInvNext, PTL DEF Spec
=============================================================================
