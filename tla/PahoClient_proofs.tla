-------------------------- MODULE PahoClient_proofs --------------------------
(***************************************************************************)
(* Type correctness of the FreeRTOS MQTT client, proved part by part: one  *)
(* lemma for each conjunct of TypeOK, one step in it for each action that   *)
(* can disturb the conjunct.                                               *)
(*                                                                         *)
(* Then its calls nest: it implements NestedCalls, on which FreeRTOSAgent   *)
(* is built.  Each action is matched with the one step of NestedCalls it    *)
(* takes, or with none; type correctness is the only invariant that this    *)
(* needs.  And what the innermost call delivers: a message is acknowledged  *)
(* only after it was handled, and a handler is given the bytes of another   *)
(* message only after its own, and from a second slot.                      *)
(***************************************************************************)
EXTENDS PahoClient, TLAPS, SequenceTheorems

\* A prefix of a sequence, element by element.
LEMMA Prefix ==
    ASSUME NEW S, NEW s \in Seq(S), NEW k \in 0..Len(s)
    PROVE  /\ SubSeq(s, 1, k) \in Seq(S)
           /\ Len(SubSeq(s, 1, k)) = k
           /\ \A i \in 1..k : SubSeq(s, 1, k)[i] = s[i]
<1>1. \A i \in 1..k : s[i] \in S
  BY ElementOfSeq
<1> QED
  BY <1>1, SubSeqProperties

\* The innermost call, and the message its handler runs for.
LEMMA TopType ==
    ASSUME CallsOK, ~Idle
    PROVE  /\ Top \in Frame
           /\ Top.msg \in Messages \cup {NoMessage}
           /\ Top.msg # NoMessage => readbuf # NoMessage
           /\ Top.op = "publish" => Top.pub \in Publish
<1>1. stack \in Seq(Frame) /\ stack # << >>
  BY DEF CallsOK, Idle
<1>2. Len(stack) \in 1..Len(stack)
  BY <1>1
<1>3. Top \in Frame
  BY <1>1, <1>2, ElementOfSeq DEF Top
<1>4. Top.msg \in Messages \cup {NoMessage}
  BY <1>3 DEF Frame
<1> QED
  BY <1>2, <1>3, <1>4 DEF CallsOK, Top

\* Every step keeps the flags boolean: isconnected, ping_outstanding, the link.
LEMMA FlagsStep == TypeOK /\ Next => FlagsOK'
<1> SUFFICES ASSUME TypeOK, Next PROVE FlagsOK'
  OBVIOUS
<1> USE DEF vars, client, calls, wire, broker, ledger, inbox, grants, FlagsOK, TypeOK, keepalive, Spend, Send, Reply
<1>1. CASE App
  BY <1>1 DEF App, MQTTConnect, MQTTYield, MQTTDisconnect, MQTTSubscribe, MQTTUnsubscribe, MQTTPublish
<1>2. CASE Connected
  <2>1. Head(toClient) \in ToClient
    BY <1>2 DEF Connected, readPacket, WireOK
  <2>2. Head(toClient).ok \in BOOLEAN
    BY <1>2, <2>1 DEF Connected, readPacket, ToClient
  <2> QED BY <1>2, <2>2 DEF Connected
<1>3. CASE DropAck \/ Subscribed \/ Unsubscribed \/ Published \/ Release
           \/ PingAnswered \/ TimedOut
  BY <1>3 DEF DropAck, Subscribed, Unsubscribed, Published, Release,  PingAnswered, TimedOut
<1>4. CASE Deliver \/ HandlerReturns
  BY <1>4 DEF Deliver, HandlerReturns, RunHandler, Acknowledge
<1>5. CASE Tick \/ LinkFails \/ NetworkReconnect
  BY <1>5 DEF Tick, LinkFails, NetworkReconnect
<1>6. CASE Broker
  BY <1>6 DEF Broker, BrokerConnect, BrokerSubscribe, BrokerUnsubscribe, BrokerTakesPublish,
     BrokerCompletes, BrokerTakesAck, BrokerReleases, BrokerPongs, BrokerDisconnect,
     BrokerPublish, BrokerRetries, BrokerReads, BrokerSends
<1> QED
  BY <1>1, <1>2, <1>3, <1>4, <1>5, <1>6 DEF Next, Cycle

\* What the broker keeps are topics and messages.
LEMMA BrokerStep == TypeOK /\ Next => BrokerOK'
<1> SUFFICES ASSUME TypeOK, Next PROVE BrokerOK'
  OBVIOUS
<1> USE DEF vars, client, calls, wire, broker, ledger, inbox, grants, BrokerOK, TypeOK
<1>1. CASE App
  BY <1>1 DEF App, MQTTConnect, MQTTYield, MQTTDisconnect, MQTTSubscribe, MQTTUnsubscribe, MQTTPublish
<1>2. CASE Cycle \/ HandlerReturns
  BY <1>2 DEF Cycle, HandlerReturns, DropAck, Connected, Subscribed, Unsubscribed, Published, Release,
     PingAnswered, TimedOut, Deliver
<1>3. CASE Tick \/ LinkFails \/ NetworkReconnect
  BY <1>3 DEF Tick, LinkFails, NetworkReconnect
<1>4. CASE BrokerSubscribe
  <2>1. Head(toBroker) \in ToBroker
    BY <1>4 DEF BrokerSubscribe, BrokerReads, WireOK
  <2>2. Head(toBroker).topic \in Topics
    BY <1>4, <2>1 DEF BrokerSubscribe, BrokerReads, ToBroker
  <2> QED BY <1>4, <2>2 DEF BrokerSubscribe, BrokerReads
<1>5. CASE BrokerConnect \/ BrokerUnsubscribe \/ BrokerTakesPublish \/ BrokerCompletes
           \/ BrokerTakesAck \/ BrokerReleases \/ BrokerPongs \/ BrokerDisconnect
  BY <1>5 DEF BrokerConnect, BrokerUnsubscribe, BrokerTakesPublish,
     BrokerCompletes, BrokerTakesAck, BrokerReleases, BrokerPongs, BrokerDisconnect,
     BrokerReads
<1>6. CASE \E m \in Messages : BrokerPublish(m) \/ BrokerRetries(m)
  BY <1>6 DEF BrokerPublish, BrokerRetries, BrokerSends
<1> QED
  BY <1>1, <1>2, <1>3, <1>4, <1>5, <1>6 DEF Next, Broker

\* Spending an event counts that event down and leaves the others.
LEMMA SpendType ==
    ASSUME BudgetOK, NEW event \in {"publish", "subscribe", "connect", "ping", "down"},
           Spend(event)
    PROVE  /\ BudgetOK'
           /\ budget'.publish = IF event = "publish" THEN budget.publish - 1 ELSE budget.publish
BY ConstantsOK DEF BudgetOK, Spend

\* No step makes a budget negative or enlarges the number of publishes.
LEMMA BudgetStep == TypeOK /\ Next => BudgetOK'
<1> SUFFICES ASSUME TypeOK, Next PROVE BudgetOK'
  OBVIOUS
<1>1. BudgetOK /\ (UNCHANGED budget => BudgetOK')
  BY DEF TypeOK, BudgetOK
<1>2. /\ Spend("publish") => BudgetOK'
      /\ Spend("subscribe") => BudgetOK'
      /\ Spend("connect") => BudgetOK'
      /\ Spend("ping") => BudgetOK'
      /\ Spend("down") => BudgetOK'
  BY <1>1, SpendType
<1>3. CASE App
  BY <1>1, <1>2, <1>3 DEF App, MQTTConnect, MQTTYield, MQTTDisconnect, MQTTSubscribe,
     MQTTUnsubscribe, MQTTPublish
<1>4. CASE Cycle \/ HandlerReturns
  BY <1>1, <1>2, <1>4 DEF Cycle, HandlerReturns, DropAck, Connected, Subscribed, Unsubscribed,
     Published, Release, PingAnswered, TimedOut, Deliver, RunHandler, Acknowledge, keepalive
<1>5. CASE Tick \/ LinkFails \/ NetworkReconnect
  BY <1>1, <1>2, <1>5 DEF Tick, LinkFails, NetworkReconnect
<1>6. CASE Broker
  BY <1>1, <1>6 DEF Broker, BrokerConnect, BrokerSubscribe, BrokerUnsubscribe, BrokerTakesPublish,
     BrokerCompletes, BrokerTakesAck, BrokerReleases, BrokerPongs, BrokerDisconnect,
     BrokerPublish, BrokerRetries, BrokerReads, BrokerSends
<1> QED
  BY <1>3, <1>4, <1>5, <1>6 DEF Next

\* What a handler is given, and what is acknowledged, are messages that arrived:
\* the head of toClient, or what readbuf holds while a handler runs.
LEMMA InboxStep == TypeOK /\ Next => InboxOK'
<1> SUFFICES ASSUME TypeOK, Next PROVE InboxOK'
  OBVIOUS
<1>1. InboxOK /\ (UNCHANGED inbox => InboxOK')
  BY DEF TypeOK, InboxOK, inbox
<1>2. CASE App
  BY <1>1, <1>2 DEF App, MQTTConnect, MQTTYield, MQTTDisconnect, MQTTSubscribe,
     MQTTUnsubscribe, MQTTPublish
<1>3. CASE DropAck \/ Connected \/ Subscribed \/ Unsubscribed \/ Published \/ Release
           \/ PingAnswered
  BY <1>1, <1>3 DEF DropAck, Connected, Subscribed, Unsubscribed, Published, Release, PingAnswered
<1>4. CASE TimedOut
  BY <1>1, <1>4 DEF TimedOut
<1>5. CASE Deliver
  <2>1. Head(toClient) \in ToClient
    BY <1>5 DEF Deliver, readPacket, TypeOK, WireOK
  <2>2. Head(toClient).msg \in Messages
    BY <1>5, <2>1 DEF Deliver, readPacket, ToClient
  <2> QED
    BY <1>1, <1>5, <2>2 DEF Deliver, RunHandler, Acknowledge, InboxOK
<1>6. CASE HandlerReturns
  <2>1. ~Idle /\ Top.msg # NoMessage
    BY <1>6 DEF HandlerReturns, InHandler
  <2>2. Top.msg \in Messages
    BY <2>1, TopType DEF TypeOK
  <2>3. readbuf \in Messages
    BY <2>1, TopType DEF TypeOK, ClientOK
  <2> QED
    BY <1>1, <1>6, <2>2, <2>3 DEF HandlerReturns, RunHandler, Acknowledge, InboxOK
<1>7. CASE Tick \/ LinkFails \/ NetworkReconnect
  BY <1>1, <1>7 DEF Tick, LinkFails, NetworkReconnect
<1>8. CASE Broker
  BY <1>1, <1>8 DEF Broker, BrokerConnect, BrokerSubscribe, BrokerUnsubscribe, BrokerTakesPublish,
     BrokerCompletes, BrokerTakesAck, BrokerReleases, BrokerPongs, BrokerDisconnect,
     BrokerPublish, BrokerRetries, BrokerReads, BrokerSends, inbox
<1> QED
  BY <1>2, <1>3, <1>4, <1>5, <1>6, <1>7, <1>8 DEF Next, Cycle

\* A call is made: a frame with no delivery under way.
LEMMA EnterType ==
    ASSUME CallsOK, NEW f \in Frame, f.msg = NoMessage, f.op = "publish" => f.pub \in Publish,
           Enter(f), UNCHANGED readbuf
    PROVE  CallsOK'
BY DEF CallsOK, Enter

\* A call returns; those that have run out of time are still calls in progress.
LEMMA ReturnType ==
    ASSUME CallsOK, ~Idle, Return, readbuf' = readbuf \/ readbuf' # NoMessage
    PROVE  CallsOK'
<1>1. stack \in Seq(Frame) /\ stack # << >> /\ expired \in 0..Len(stack)
  BY DEF CallsOK, Idle
<1>2. Len(stack) - 1 \in 0..Len(stack)
  BY <1>1
<1>3. /\ stack' \in Seq(Frame) /\ Len(stack') = Len(stack) - 1
      /\ \A i \in 1..Len(stack') : stack'[i] = stack[i]
  BY <1>1, <1>2, Prefix DEF Return, Pop
<1>4. expired' \in 0..(Len(stack) - 1)
  BY <1>1 DEF Return, TimerIsExpired
<1>5. \A i \in 1..Len(stack') : i \in 1..Len(stack)
  BY <1>1, <1>3
<1>6. expired' \in 0..Len(stack')
  BY <1>3, <1>4
<1>7. \A i \in 1..Len(stack') : /\ stack'[i].msg # NoMessage => readbuf' # NoMessage
                                /\ stack'[i].op = "publish" => stack'[i].pub \in Publish
  BY <1>3, <1>5 DEF CallsOK
<1> QED
  BY <1>3, <1>6, <1>7 DEF CallsOK

\* A delivery starts, goes on with the next slot, or ends.
LEMMA DeliveryType ==
    ASSUME CallsOK, ~Idle,
           NEW m \in Messages \cup {NoMessage}, NEW slot \in 0..MAX_MESSAGE_HANDLERS,
           stack' = [stack EXCEPT ![Len(stack)].msg = m, ![Len(stack)].slot = slot],
           expired' = expired,
           readbuf' # NoMessage \/ (m = NoMessage /\ readbuf' = readbuf)
    PROVE  CallsOK'
<1>1. stack \in Seq(Frame) /\ Len(stack) \in 1..Len(stack)
  BY DEF CallsOK, Idle
<1>2. [Top EXCEPT !.msg = m, !.slot = slot] \in Frame
  <2>1. Top \in Frame
    BY TopType
  <2> QED
    BY <2>1 DEF Frame
<1>3. stack' = [stack EXCEPT ![Len(stack)] = [Top EXCEPT !.msg = m, !.slot = slot]]
  BY <1>1 DEF Top
<1>4. /\ stack' \in Seq(Frame) /\ Len(stack') = Len(stack)
      /\ \A i \in 1..Len(stack) :
            stack'[i] = IF i = Len(stack) THEN [Top EXCEPT !.msg = m, !.slot = slot] ELSE stack[i]
  <2> DEFINE f == [Top EXCEPT !.msg = m, !.slot = slot]
  <2>1. f \in Frame /\ stack' = [stack EXCEPT ![Len(stack)] = f]
    BY <1>2, <1>3
  <2> HIDE DEF f
  <2>2. stack' \in Seq(Frame) /\ Len(stack') = Len(stack)
    BY <1>1, <2>1
  <2>3. \A i \in 1..Len(stack) : stack'[i] = IF i = Len(stack) THEN f ELSE stack[i]
    BY <1>1, <2>1
  <2> QED
    BY <2>2, <2>3 DEF f
<1>5. LET f == [Top EXCEPT !.msg = m, !.slot = slot]
      IN  f.msg = m /\ f.op = Top.op /\ f.pub = Top.pub
  BY <1>1, TopType DEF Frame
<1>6. \A i \in 1..Len(stack') : /\ stack'[i].msg # NoMessage => readbuf' # NoMessage
                                /\ stack'[i].op = "publish" => stack'[i].pub \in Publish
  BY <1>1, <1>4, <1>5, TopType DEF CallsOK
<1> QED
  BY <1>4, <1>6 DEF CallsOK

\* After the last handler the call goes on or, for MQTTYield, may return.
LEMMA AcknowledgeType ==
    ASSUME CallsOK, ~Idle, NEW m \in Messages, Acknowledge(m),
           readbuf' = readbuf \/ readbuf' # NoMessage
    PROVE  CallsOK'
<1>1. EndDelivery => CallsOK'
  <2>1. NoMessage \in Messages \cup {NoMessage} /\ 0 \in 0..MAX_MESSAGE_HANDLERS
    BY ConstantsOK
  <2> QED
    BY <2>1, DeliveryType DEF EndDelivery
<1>2. Return => CallsOK'
  BY ReturnType
<1> QED
  BY <1>1, <1>2 DEF Acknowledge

\* The innermost call runs out of time while it reads: all that are left have.
LEMMA TimeRunsOutType ==
    ASSUME CallsOK, ~Idle, TimeRunsOut, readbuf' = readbuf \/ readbuf' # NoMessage
    PROVE  CallsOK'
<1>1. Return => CallsOK'
  BY ReturnType
<1>2. UNCHANGED stack /\ expired' = Len(stack) => CallsOK'
  BY DEF CallsOK
<1> QED
  BY <1>1, <1>2 DEF TimeRunsOut

\* The call stack holds frames, and the calls that ran out of time are among them.
LEMMA CallsStep == TypeOK /\ Next => CallsOK'
<1> SUFFICES ASSUME TypeOK, Next PROVE CallsOK'
  OBVIOUS
<1>1. CallsOK /\ (UNCHANGED <<calls, readbuf>> => CallsOK')
  BY DEF TypeOK, CallsOK, calls
<1>2. getNextPacketId \in PacketId
  BY ConstantsOK DEF getNextPacketId, TypeOK, ClientOK, PacketId
<1>3. CASE MQTTConnect \/ MQTTYield
  <2>1. \A op \in {"connect", "yield"} : /\ Call(op, NoTopic, 0, 0, 0) \in Frame
                                         /\ Call(op, NoTopic, 0, 0, 0).msg = NoMessage
                                         /\ Call(op, NoTopic, 0, 0, 0).op # "publish"
    BY ConstantsOK DEF Call, Frame
  <2> QED
    BY <1>1, <1>3, <2>1, EnterType DEF MQTTConnect, MQTTYield, Send, client, calls
<1>4. ASSUME NEW t \in Topics, MQTTSubscribe(t) \/ MQTTUnsubscribe(t) PROVE CallsOK'
  <2>1. \A op \in {"subscribe", "unsubscribe"} :
            /\ Call(op, t, 0, 0, getNextPacketId) \in Frame
            /\ Call(op, t, 0, 0, getNextPacketId).msg = NoMessage
            /\ Call(op, t, 0, 0, getNextPacketId).op # "publish"
    BY <1>2, ConstantsOK DEF Call, Frame
  <2> QED
    BY <1>1, <1>4, <2>1, EnterType DEF MQTTSubscribe, MQTTUnsubscribe, Send, calls
<1>5. ASSUME NEW qos \in PublishQoS, MQTTPublish(qos) PROVE CallsOK'
  <2> DEFINE pub == MaxPublishes - budget.publish + 1
             frame == Call("publish", NoTopic, pub, qos, getNextPacketId)
  <2>0. budget.publish \in 1..MaxPublishes /\ MaxPublishes \in Nat
    <3>1. budget.publish \in Nat /\ budget.publish <= MaxPublishes
      BY DEF TypeOK, BudgetOK
    <3>2. budget.publish > 0
      BY <1>5 DEF MQTTPublish, Spend
    <3> QED
      BY <3>1, <3>2, ConstantsOK
  <2>1. pub \in Publish
    BY <2>0 DEF Publish
  <2>2. frame \in Frame /\ frame.msg = NoMessage /\ frame.pub \in Publish
    BY <1>2, <2>1, ConstantsOK DEF Call, Frame
  <2>3. CASE qos = 0
    BY <1>1, <1>5, <2>3 DEF MQTTPublish
  <2>4. CASE qos # 0
    BY <1>1, <1>5, <2>2, <2>4, EnterType DEF MQTTPublish, Send, calls
  <2> QED
    BY <2>3, <2>4
<1>6. CASE MQTTDisconnect
  BY <1>1, <1>6 DEF MQTTDisconnect
<1>7. CASE DropAck \/ Connected \/ Subscribed \/ Unsubscribed \/ Published \/ Release
           \/ PingAnswered \/ TimedOut
  BY <1>1, <1>7, ReturnType, TimeRunsOutType DEF DropAck, Connected, Subscribed, Unsubscribed,
     Published, Release, PingAnswered, TimedOut, readPacket, InCycle, CycleFails, client
<1>8. CASE Deliver
  <2>1. Head(toClient) \in ToClient
    BY <1>8 DEF Deliver, readPacket, TypeOK, WireOK
  <2>2. Head(toClient).msg \in Messages
    BY <1>8, <2>1 DEF Deliver, readPacket, ToClient
  <2>3. ~Idle /\ readbuf' # NoMessage
    BY <1>8, <2>2, ConstantsOK DEF Deliver, readPacket, InCycle
  <2> QED
    BY <1>1, <1>8, <2>2, <2>3, DeliveryType, AcknowledgeType, TimeRunsOutType, ConstantsOK
    DEF Deliver, RunHandler, NextSlot
<1>9. CASE HandlerReturns
  <2>1. ~Idle /\ Top.msg # NoMessage
    BY <1>9 DEF HandlerReturns, InHandler
  <2>2. Top.msg \in Messages /\ readbuf # NoMessage /\ readbuf' = readbuf
    BY <1>1, <1>9, <2>1, TopType DEF HandlerReturns
  <2> QED
    BY <1>1, <1>9, <2>1, <2>2, DeliveryType, AcknowledgeType, ConstantsOK
    DEF HandlerReturns, RunHandler, NextSlot
<1>10. CASE Tick
  BY <1>10 DEF Tick, TypeOK, CallsOK, client
<1>11. CASE LinkFails \/ NetworkReconnect
  BY <1>1, <1>11 DEF LinkFails, NetworkReconnect, client
<1>12. CASE Broker
  BY <1>1, <1>12 DEF Broker, BrokerConnect, BrokerSubscribe, BrokerUnsubscribe, BrokerTakesPublish,
     BrokerCompletes, BrokerTakesAck, BrokerReleases, BrokerPongs, BrokerDisconnect,
     BrokerPublish, BrokerRetries, BrokerReads, BrokerSends, client
<1> QED
  BY <1>3, <1>4, <1>5, <1>6, <1>7, <1>8, <1>9, <1>10, <1>11, <1>12 DEF Next, App, Cycle

\* Packet ids wrap to 1 and never to 0; slots hold topics.
LEMMA ClientStep == TypeOK /\ Next => ClientOK'
<1> SUFFICES ASSUME TypeOK, Next PROVE ClientOK'
  OBVIOUS
<1>1. ClientOK /\ (UNCHANGED <<next_packetid, messageHandlers, readbuf>> => ClientOK')
  BY DEF TypeOK, ClientOK
<1>2. CASE App
  <2>1. getNextPacketId \in PacketId
    BY ConstantsOK DEF getNextPacketId, TypeOK, ClientOK, PacketId
  <2> QED
    BY <1>1, <1>2, <2>1 DEF App, MQTTConnect, MQTTYield, MQTTDisconnect, MQTTSubscribe,
       MQTTUnsubscribe, MQTTPublish, ClientOK, client
<1>3. CASE DropAck \/ Connected \/ Unsubscribed \/ Published \/ Release \/ PingAnswered
           \/ TimedOut \/ HandlerReturns
  BY <1>1, <1>3 DEF DropAck, Connected, Unsubscribed, Published, Release, PingAnswered,
     TimedOut, HandlerReturns, client
<1>4. CASE Subscribed
  <2>1. Top \in Frame
    BY <1>4, TopType DEF Subscribed, readPacket, InCycle, TypeOK
  <2>2. Top.topic \in Topics \cup {NoTopic}
    BY <2>1 DEF Frame
  <2> QED
    BY <1>1, <1>4, <2>2 DEF Subscribed, InstallHandler, ClientOK
<1>5. CASE Deliver
  <2>1. Head(toClient) \in ToClient
    BY <1>5 DEF Deliver, readPacket, TypeOK, WireOK
  <2>2. Head(toClient).msg \in Messages
    BY <1>5, <2>1 DEF Deliver, readPacket, ToClient
  <2> QED
    BY <1>1, <1>5, <2>2 DEF Deliver, ClientOK
<1>6. CASE Tick \/ LinkFails \/ NetworkReconnect
  BY <1>1, <1>6 DEF Tick, LinkFails, NetworkReconnect, client
<1>7. CASE Broker
  BY <1>1, <1>7 DEF Broker, BrokerConnect, BrokerSubscribe, BrokerUnsubscribe, BrokerTakesPublish,
     BrokerCompletes, BrokerTakesAck, BrokerReleases, BrokerPongs, BrokerDisconnect,
     BrokerPublish, BrokerRetries, BrokerReads, BrokerSends, client
<1> QED
  BY <1>2, <1>3, <1>4, <1>5, <1>6, <1>7 DEF Next, Cycle

\* Results and acknowledgements are those of publishes that were made.
LEMMA ResultsStep == TypeOK /\ Next => ResultsOK'
<1> SUFFICES ASSUME TypeOK, Next PROVE ResultsOK'
  OBVIOUS
<1>1. ResultsOK /\ (UNCHANGED <<accepted, backing, failed>> => ResultsOK')
  BY DEF TypeOK, ResultsOK
<1>2. CASE App
  BY <1>1, <1>2 DEF App, MQTTConnect, MQTTYield, MQTTDisconnect, MQTTSubscribe,
     MQTTUnsubscribe, MQTTPublish, ledger
<1>3. CASE DropAck \/ Connected \/ Subscribed \/ Unsubscribed \/ Release \/ PingAnswered
           \/ Deliver \/ HandlerReturns
  BY <1>1, <1>3 DEF DropAck, Connected, Subscribed, Unsubscribed, Release, PingAnswered,
     Deliver, HandlerReturns, ledger
<1>4. CASE Published
  <2>1. Head(toClient) \in ToClient /\ Top.pub \in Publish
    BY <1>4, TopType DEF Published, readPacket, InCycle, TypeOK, WireOK
  <2>2. Head(toClient).pub \in Publish
    BY <1>4, <2>1 DEF Published, readPacket, ToClient
  <2> QED
    BY <1>1, <1>4, <2>1, <2>2 DEF Published, ResultsOK
<1>5. CASE TimedOut
  <2>1. Top.op = "publish" => Top.pub \in Publish
    BY <1>5, TopType DEF TimedOut, InCycle, TypeOK
  <2> QED
    BY <1>1, <1>5, <2>1 DEF TimedOut, ResultsOK
<1>6. CASE Tick \/ LinkFails \/ NetworkReconnect
  BY <1>1, <1>6 DEF Tick, LinkFails, NetworkReconnect, ledger
<1>7. CASE BrokerTakesPublish \/ BrokerCompletes
  <2>1. Head(toBroker) \in ToBroker
    BY <1>7 DEF BrokerTakesPublish, BrokerCompletes, BrokerReads, TypeOK, WireOK
  <2>2. Head(toBroker).pub \in Publish
    BY <1>7, <2>1 DEF BrokerTakesPublish, BrokerCompletes, BrokerReads, ToBroker
  <2> QED
    BY <1>1, <1>7, <2>2 DEF BrokerTakesPublish, BrokerCompletes, BrokerReads, ResultsOK
<1>8. CASE BrokerConnect \/ BrokerSubscribe \/ BrokerUnsubscribe \/ BrokerTakesAck
           \/ BrokerReleases \/ BrokerPongs \/ BrokerDisconnect
           \/ \E m \in Messages : BrokerPublish(m) \/ BrokerRetries(m)
  BY <1>1, <1>8 DEF BrokerConnect, BrokerSubscribe, BrokerUnsubscribe, BrokerTakesAck,
     BrokerReleases, BrokerPongs, BrokerDisconnect, BrokerPublish, BrokerRetries,
     BrokerReads, BrokerSends, ledger
<1> QED
  BY <1>2, <1>3, <1>4, <1>5, <1>6, <1>7, <1>8 DEF Next, Cycle, Broker

\* The packets either side writes are packets.
LEMMA ToBrokerType ==
    /\ \A type \in {"CONNECT", "DISCONNECT", "PINGREQ"} : [type |-> type] \in ToBroker
    /\ \A type \in {"SUBSCRIBE", "UNSUBSCRIBE"}, t \in Topics :
            [type |-> type, topic |-> t] \in ToBroker
    /\ \A pub \in Publish :
            [type |-> "PUBLISH", qos |-> 0, id |-> 0, pub |-> pub] \in ToBroker
    /\ \A qos \in 1..2, id \in PacketId, pub \in Publish :
            [type |-> "PUBLISH", qos |-> qos, id |-> id, pub |-> pub] \in ToBroker
    /\ \A id \in PacketId, pub \in Publish :
            [type |-> "PUBREL", id |-> id, pub |-> pub] \in ToBroker
    /\ \A type \in {"PUBACK", "PUBREC"}, m \in Messages :
            [type |-> type, msg |-> m] \in ToBroker
BY DEF ToBroker

\* Likewise for what the broker writes.
LEMMA ToClientType ==
    /\ \A type \in {"CONNACK", "SUBACK"}, ok \in BOOLEAN :
            [type |-> type, ok |-> ok] \in ToClient
    /\ \A type \in {"UNSUBACK", "PINGRESP"} : [type |-> type] \in ToClient
    /\ \A type \in {"PUBACK", "PUBREC", "PUBCOMP"}, id \in PacketId, pub \in Publish :
            [type |-> type, id |-> id, pub |-> pub] \in ToClient
    /\ \A m \in Messages, dup \in BOOLEAN :
            [type |-> "PUBLISH", msg |-> m, dup |-> dup] \in ToClient
    /\ \A m \in Messages : [type |-> "PUBREL", msg |-> m] \in ToClient
BY DEF ToClient

\* What the fields of a packet hold, by its type.
LEMMA FromBrokerType ==
    ASSUME NEW p \in ToClient
    PROVE  /\ p.type \in {"CONNACK", "SUBACK"} => p.ok \in BOOLEAN
           /\ p.type \in {"PUBACK", "PUBREC", "PUBCOMP"} => p.id \in PacketId /\ p.pub \in Publish
           /\ p.type \in {"PUBLISH", "PUBREL"} => p.msg \in Messages
BY DEF ToClient

\* Likewise for what the client wrote.
LEMMA FromClientType ==
    ASSUME NEW p \in ToBroker
    PROVE  /\ p.type \in {"SUBSCRIBE", "UNSUBSCRIBE"} => p.topic \in Topics
           /\ p.type = "PUBLISH" =>
                p.qos \in 0..2 /\ p.pub \in Publish /\ (p.qos # 0 => p.id \in PacketId)
           /\ p.type = "PUBREL" => p.id \in PacketId /\ p.pub \in Publish
           /\ p.type \in {"PUBACK", "PUBREC"} => p.msg \in Messages
BY DEF ToBroker

\* Only packets are written; reads and lost connections leave packets.
LEMMA WireStep == TypeOK /\ Next => WireOK'
<1> SUFFICES ASSUME TypeOK, Next PROVE WireOK'
  OBVIOUS
<1>1. WireOK
  BY DEF TypeOK
<1>2. UNCHANGED <<toBroker, toClient>> => WireOK'
  BY <1>1 DEF WireOK
<1>3. toBroker # << >> => /\ Head(toBroker) \in ToBroker
                          /\ Tail(toBroker) \in Seq(ToBroker)
  BY <1>1 DEF WireOK
<1>4. toClient # << >> => /\ Head(toClient) \in ToClient
                          /\ Tail(toClient) \in Seq(ToClient)
  BY <1>1 DEF WireOK
<1>5. \A p \in ToBroker : Append(toBroker, p) \in Seq(ToBroker)
  BY <1>1 DEF WireOK
<1>6. \A p \in ToClient : Append(toClient, p) \in Seq(ToClient)
  BY <1>1 DEF WireOK
<1>7. << >> \in Seq(ToBroker) /\ << >> \in Seq(ToClient)
  OBVIOUS
<1>8. toBroker \in Seq(ToBroker) /\ toClient \in Seq(ToClient)
  BY <1>1 DEF WireOK
<1>9. keepalive => toBroker' \in Seq(ToBroker)
  BY <1>5, <1>8, ToBrokerType DEF keepalive
<1>10. CASE MQTTConnect \/ MQTTYield \/ MQTTDisconnect
  BY <1>5, <1>8, <1>10, ToBrokerType
  DEF MQTTConnect, MQTTYield, MQTTDisconnect, Send, wire, WireOK
<1>11. ASSUME NEW t \in Topics, MQTTSubscribe(t) \/ MQTTUnsubscribe(t) PROVE WireOK'
  BY <1>5, <1>8, <1>11, ToBrokerType DEF MQTTSubscribe, MQTTUnsubscribe, Send, WireOK
<1>12. ASSUME NEW qos \in PublishQoS, MQTTPublish(qos) PROVE WireOK'
  <2> DEFINE pub == MaxPublishes - budget.publish + 1
  <2>0. budget.publish \in 1..MaxPublishes /\ MaxPublishes \in Nat
    <3>1. budget.publish \in Nat /\ budget.publish <= MaxPublishes
      BY DEF TypeOK, BudgetOK
    <3>2. budget.publish > 0
      BY <1>12 DEF MQTTPublish, Spend
    <3> QED
      BY <3>1, <3>2, ConstantsOK
  <2>1. pub \in Publish
    BY <2>0 DEF Publish
  <2>2. getNextPacketId \in PacketId
    BY ConstantsOK DEF getNextPacketId, TypeOK, ClientOK, PacketId
  <2>3. toClient' = toClient
    BY <1>12 DEF MQTTPublish
  <2>4. CASE qos = 0
    BY <1>5, <1>8, <1>12, <2>1, <2>3, <2>4, ToBrokerType DEF MQTTPublish, WireOK
  <2>5. CASE qos # 0
    <3>1. qos \in 1..2
      BY <2>5, ConstantsOK
    <3> QED
      BY <1>5, <1>8, <1>12, <2>1, <2>2, <2>3, <2>5, <3>1, ToBrokerType
      DEF MQTTPublish, Send, WireOK
  <2> QED
    BY <2>4, <2>5
<1>13. CASE DropAck \/ Connected \/ Subscribed \/ Unsubscribed \/ Published
  BY <1>4, <1>9, <1>13 DEF DropAck, Connected, Subscribed, Unsubscribed, Published,
     readPacket, WireOK
<1>14. CASE Release
  <2>1. Head(toClient).id \in PacketId /\ Head(toClient).pub \in Publish
    BY <1>4, <1>14, FromBrokerType DEF Release, readPacket
  <2> QED
    BY <1>4, <1>5, <1>8, <1>14, <2>1, ToBrokerType DEF Release, readPacket, WireOK
<1>15. CASE PingAnswered \/ TimedOut
  BY <1>4, <1>5, <1>8, <1>9, <1>15, ToBrokerType DEF PingAnswered, TimedOut, readPacket, WireOK
<1>16. \A m \in Messages : Acknowledge(m) => toBroker' \in Seq(ToBroker)
  BY <1>5, <1>8, <1>9, ToBrokerType DEF Acknowledge
<1>17. CASE Deliver
  <2>1. Head(toClient).msg \in Messages
    BY <1>4, <1>17, FromBrokerType DEF Deliver, readPacket
  <2> QED
    BY <1>4, <1>8, <1>16, <1>17, <2>1 DEF Deliver, readPacket, RunHandler, WireOK
<1>18. CASE HandlerReturns
  <2>1. Top.msg \in Messages
    BY <1>18, TopType DEF HandlerReturns, InHandler, TypeOK
  <2> QED
    BY <1>8, <1>16, <1>18, <2>1 DEF HandlerReturns, RunHandler, WireOK
<1>19. CASE Tick \/ NetworkReconnect
  BY <1>2, <1>7, <1>19 DEF Tick, NetworkReconnect, wire, WireOK
<1>20. CASE LinkFails
  BY <1>7, <1>8, <1>20, Prefix DEF LinkFails, WireOK
<1>21. CASE BrokerConnect \/ BrokerSubscribe \/ BrokerUnsubscribe \/ BrokerTakesAck
            \/ BrokerPongs \/ BrokerDisconnect
  BY <1>3, <1>6, <1>8, <1>21, ToClientType
  DEF BrokerConnect, BrokerSubscribe, BrokerUnsubscribe, BrokerTakesAck, BrokerPongs,
      BrokerDisconnect, BrokerReads, Reply, WireOK
<1>22. CASE BrokerTakesPublish \/ BrokerCompletes \/ BrokerReleases
  BY <1>3, <1>6, <1>8, <1>22, ToClientType, FromClientType
  DEF BrokerTakesPublish, BrokerCompletes, BrokerReleases, BrokerReads, Reply, WireOK
<1>23. CASE \E m \in Messages : BrokerPublish(m) \/ BrokerRetries(m)
  BY <1>6, <1>8, <1>23, ToClientType DEF BrokerPublish, BrokerRetries, BrokerSends, Reply, WireOK
<1> QED
  BY <1>10, <1>11, <1>12, <1>13, <1>14, <1>15, <1>17, <1>18, <1>19, <1>20, <1>21, <1>22, <1>23
  DEF Next, App, Cycle, Broker

\* The two facts of the induction: the types hold at the start, and every step,
\* part of TypeOK by part, keeps them.
LEMMA InitType == Init => TypeOK
<1> SUFFICES ASSUME Init PROVE TypeOK
  OBVIOUS
<1>1. FlagsOK
  BY DEF Init, FlagsOK
<1>2. ClientOK
  BY ConstantsOK DEF Init, ClientOK, PacketId
<1>3. CallsOK
  BY DEF Init, CallsOK
<1>4. WireOK
  BY DEF Init, WireOK
<1>5. BrokerOK /\ ResultsOK /\ InboxOK
  BY DEF Init, BrokerOK, ResultsOK, InboxOK
<1>6. BudgetOK
  BY ConstantsOK DEF Init, BudgetOK
<1> QED
  BY <1>1, <1>2, <1>3, <1>4, <1>5, <1>6 DEF TypeOK

\* Every step keeps every part of TypeOK.
LEMMA NextType == TypeOK /\ [Next]_vars => TypeOK'
<1>1. TypeOK /\ Next => TypeOK'
  BY FlagsStep, ClientStep, CallsStep, WireStep, BrokerStep, BudgetStep, ResultsStep, InboxStep
  DEF TypeOK
<1>2. TypeOK /\ UNCHANGED vars => TypeOK'
  BY DEF TypeOK, FlagsOK, ClientOK, CallsOK, WireOK, BrokerOK, BudgetOK, ResultsOK, InboxOK,
     vars, client, calls, wire, broker, ledger, inbox, grants
<1> QED
  BY <1>1, <1>2

\* Every variable keeps its type in every reachable state.
THEOREM TypeCorrect == Spec => []TypeOK
BY InitType, NextType, PTL DEF Spec

-----------------------------------------------------------------------------
(* The calls nest.                                                           *)

\* The stack as NestedCalls sees it: which call, and what it delivers.
Entry(f)    == [call |-> f.op, msg |-> f.msg]
FramesOf(s) == [i \in 1..Len(s) |-> Entry(s[i])]
Frames      == FramesOf(stack)
NestedFrame == [call : {"connect", "subscribe", "unsubscribe", "publish", "yield"},
                msg : Messages \cup {NoMessage}]

\* The abstract stack has an entry for each frame.
LEMMA FramesOfType ==
    ASSUME NEW s \in Seq(Frame)
    PROVE  /\ FramesOf(s) \in Seq(NestedFrame) /\ Len(FramesOf(s)) = Len(s)
           /\ \A i \in 1..Len(s) : FramesOf(s)[i] = Entry(s[i])
<1>1. Len(s) \in Nat /\ \A i \in 1..Len(s) : s[i] \in Frame
  BY ElementOfSeq
<1>2. \A f \in Frame : Entry(f) \in NestedFrame
  BY DEF Frame, Entry, NestedFrame
<1>3. \A i \in 1..Len(s) : FramesOf(s)[i] = Entry(s[i])
  BY DEF FramesOf
<1>4. FramesOf(s) \in [1..Len(s) -> NestedFrame]
  BY <1>1, <1>2 DEF FramesOf
<1>5. FramesOf(s) \in Seq(NestedFrame) /\ Len(FramesOf(s)) = Len(s)
  BY <1>1, <1>4
<1> QED
  BY <1>3, <1>5

\* The same, of the stack before and after a step.
LEMMA FramesType ==
    ASSUME CallsOK
    PROVE  /\ stack \in Seq(Frame) /\ Len(stack) \in Nat
           /\ Frames \in Seq(NestedFrame) /\ Len(Frames) = Len(stack)
           /\ \A i \in 1..Len(stack) : Frames[i] = Entry(stack[i])
<1>1. stack \in Seq(Frame) /\ Len(stack) \in Nat
  BY DEF CallsOK
<1> QED
  BY <1>1, FramesOfType DEF Frames

\* The abstract stack after a step.
LEMMA FramesNext ==
    ASSUME CallsOK'
    PROVE  /\ stack' \in Seq(Frame) /\ Len(stack') \in Nat
           /\ Frames' \in Seq(NestedFrame) /\ Len(Frames') = Len(stack')
           /\ \A i \in 1..Len(stack') : Frames'[i] = Entry(stack'[i])
<1>1. stack' \in Seq(Frame) /\ Len(stack') \in Nat
  BY DEF CallsOK
<1> QED
  BY <1>1, FramesOfType DEF Frames

\* Both levels agree on what is idle, innermost and late.
LEMMA SameGuards ==
    ASSUME CallsOK
    PROVE  /\ Nested!NoCalls <=> Idle
           /\ Nested!Reading <=> InCycle
           /\ Nested!InDelivery <=> InHandler
           /\ Nested!IsLate <=> TimerIsExpired
<1>1. Frames \in Seq(NestedFrame) /\ Len(Frames) = Len(stack) /\ stack \in Seq(Frame)
  BY FramesType
<1>2. Nested!NoCalls <=> Idle
  BY <1>1 DEF Nested!NoCalls, Idle, Frames, FramesOf, Entry
<1>3. ~Idle => Frames[Len(stack)] = Entry(Top)
  BY <1>1, FramesType DEF Idle, Top
<1>4. ~Idle => Nested!Inner.msg = Top.msg
  BY <1>1, <1>3 DEF Nested!Inner, Frames, FramesOf, Entry
<1>5. Nested!IsLate <=> TimerIsExpired
  BY <1>1 DEF Nested!IsLate, TimerIsExpired, Frames, FramesOf, Entry
<1> QED
  BY <1>2, <1>4, <1>5 DEF Nested!Reading, Nested!InDelivery, InCycle, InHandler

\* A blocking call is made: by the main loop, or a publish by a handler.
LEMMA EnterNested ==
    ASSUME CallsOK, CallsOK', NEW f, Enter(f), f.msg = NoMessage,
           \/ Idle /\ f.op \in {"connect", "subscribe", "unsubscribe", "publish", "yield"}
           \/ InHandler /\ f.op = "publish"
    PROVE  Nested!CallsNext
<1>1. /\ Frames \in Seq(NestedFrame) /\ Len(Frames) = Len(stack) /\ Len(stack) \in Nat
      /\ Frames' \in Seq(NestedFrame) /\ Len(Frames') = Len(stack') /\ Len(stack') \in Nat
  BY FramesType, FramesNext
<1>2. stack' = Append(stack, f) /\ expired' = expired
  BY DEF Enter
<1>3. /\ Len(stack') = Len(stack) + 1
      /\ stack'[Len(stack) + 1] = f
      /\ \A i \in 1..Len(stack) : stack'[i] = stack[i]
  BY <1>2, FramesType
<1>4. \A i \in 1..Len(stack') : Frames'[i] = Entry(stack'[i])
  BY FramesType, FramesNext
<1>5. [call |-> f.op, msg |-> NoMessage] \in NestedFrame
  BY DEF NestedFrame
<1>6. Frames' = Append(Frames, [call |-> f.op, msg |-> NoMessage])
  <2> DEFINE e == [call |-> f.op, msg |-> NoMessage]
             s == Append(Frames, e)
  <2>0. Entry(f) = e
    BY DEF Entry
  <2>1. e \in NestedFrame
    BY <1>5
  <2> HIDE DEF e
  <2>2. /\ s \in Seq(NestedFrame) /\ Len(s) = Len(Frames) + 1
        /\ \A i \in 1..Len(Frames) : s[i] = Frames[i]
        /\ s[Len(Frames) + 1] = e
    BY <1>1, <2>1, AppendProperties
  <2>3. \A i \in 1..Len(stack') : i \in 1..Len(stack) \/ i = Len(stack) + 1
    BY <1>1, <1>3
  <2>4. \A i \in 1..Len(stack) : Frames[i] = Entry(stack[i])
    BY FramesType, FramesNext
  <2>5. \A i \in 1..Len(Frames') : Frames'[i] = s[i]
    BY <1>1, <1>3, <1>4, <2>0, <2>2, <2>3, <2>4
  <2>6. Len(Frames') = Len(s)
    BY <1>1, <1>3, <2>2
  <2> HIDE DEF s
  <2>7. Frames' = s
    BY <1>1, <2>2, <2>5, <2>6, SeqEqual
  <2> QED
    BY <2>7 DEF s, e
<1>7. Nested!Call(f.op)
  BY <1>2, <1>6, SameGuards DEF Nested!Call, Frames, FramesOf, Entry
<1> QED
  BY <1>7 DEF Nested!CallsNext

\* The innermost call returns.
LEMMA ReturnNested ==
    ASSUME CallsOK, CallsOK', ~Idle, Return
    PROVE  Nested!CallsNext
<1>1. /\ Frames \in Seq(NestedFrame) /\ Len(Frames) = Len(stack) /\ Len(stack) \in Nat
      /\ Frames' \in Seq(NestedFrame) /\ Len(Frames') = Len(stack') /\ stack \in Seq(Frame)
  BY FramesType, FramesNext
<1>2. Len(stack) - 1 \in 0..Len(stack)
  BY <1>1 DEF Idle
<1>3. /\ Len(stack') = Len(stack) - 1
      /\ \A i \in 1..(Len(stack) - 1) : stack'[i] = stack[i]
  BY <1>1, <1>2, Prefix DEF Return, Pop
<1>4. /\ SubSeq(Frames, 1, Len(stack) - 1) \in Seq(NestedFrame)
      /\ Len(SubSeq(Frames, 1, Len(stack) - 1)) = Len(stack) - 1
      /\ \A i \in 1..(Len(stack) - 1) : SubSeq(Frames, 1, Len(stack) - 1)[i] = Frames[i]
  BY <1>1, <1>2, Prefix
<1>5. /\ \A i \in 1..Len(stack) : Frames[i] = Entry(stack[i])
      /\ \A i \in 1..Len(stack') : Frames'[i] = Entry(stack'[i])
  BY FramesType, FramesNext
<1>6. Frames' = SubSeq(Frames, 1, Len(stack) - 1)
  <2> DEFINE s == SubSeq(Frames, 1, Len(stack) - 1)
  <2>1. \A i \in 1..(Len(stack) - 1) : i \in 1..Len(stack)
    BY <1>1
  <2>2. \A i \in 1..Len(Frames') : Frames'[i] = s[i]
    BY <1>1, <1>3, <1>4, <1>5, <2>1
  <2>3. s \in Seq(NestedFrame) /\ Len(Frames') = Len(s)
    BY <1>1, <1>3, <1>4
  <2> HIDE DEF s
  <2>4. Frames' = s
    BY <1>1, <2>2, <2>3, SeqEqual
  <2> QED
    BY <2>4 DEF s
<1>7. expired' = IF TimerIsExpired THEN Len(stack) - 1 ELSE expired
  BY DEF Return
<1>8. Nested!Return
  BY <1>1, <1>6, <1>7, SameGuards DEF Nested!Return, Frames, FramesOf, Entry
<1> QED
  BY <1>8 DEF Nested!CallsNext

\* The innermost call's delivery changes: its entry, and no other.
LEMMA DeliveryFrames ==
    ASSUME CallsOK, CallsOK', ~Idle, NEW m \in Messages \cup {NoMessage}, NEW slot,
           stack' = [stack EXCEPT ![Len(stack)].msg = m, ![Len(stack)].slot = slot]
    PROVE  /\ Frames' = [Frames EXCEPT ![Len(Frames)] = [call |-> @.call, msg |-> m]]
           /\ m = Top.msg => Frames' = Frames
<1>1. /\ Frames \in Seq(NestedFrame) /\ Len(Frames) = Len(stack) /\ Len(stack) \in Nat
      /\ Frames' \in Seq(NestedFrame) /\ Len(Frames') = Len(stack') /\ stack \in Seq(Frame)
      /\ Len(stack) \in 1..Len(stack)
  BY FramesType, FramesNext DEF Idle
<1>2. /\ \A i \in 1..Len(stack) : Frames[i] = Entry(stack[i])
      /\ \A i \in 1..Len(stack') : Frames'[i] = Entry(stack'[i])
  BY FramesType, FramesNext
<1> DEFINE f == [Top EXCEPT !.msg = m, !.slot = slot]
           e == [call |-> Frames[Len(Frames)].call, msg |-> m]
           t == [Frames EXCEPT ![Len(Frames)] = e]
<1>3. Entry(f) = [call |-> Top.op, msg |-> m]
  BY <1>1, TopType DEF Frame, Entry
<1>4. Frames[Len(Frames)] = Entry(Top)
  BY <1>1, <1>2 DEF Top
<1>5. Entry(f) = e
  BY <1>3, <1>4 DEF Entry
<1>6. e \in NestedFrame
  <2>1. Frames[Len(Frames)] \in NestedFrame
    BY <1>1, ElementOfSeq
  <2> QED
    BY <2>1 DEF NestedFrame
<1>7. stack' = [stack EXCEPT ![Len(stack)] = f]
  BY <1>1 DEF Top
<1> HIDE DEF f, e
<1>8. /\ Len(stack') = Len(stack)
      /\ \A i \in 1..Len(stack) : stack'[i] = IF i = Len(stack) THEN f ELSE stack[i]
  BY <1>1, <1>7
<1>9. /\ t \in Seq(NestedFrame) /\ Len(t) = Len(Frames)
      /\ \A i \in 1..Len(Frames) : t[i] = IF i = Len(Frames) THEN e ELSE Frames[i]
  BY <1>1, <1>6, ExceptSeq
<1>10. \A i \in 1..Len(Frames') : Frames'[i] = t[i]
  BY <1>1, <1>2, <1>5, <1>8, <1>9
<1>11. Frames' = t
  <2> HIDE DEF t
  <2> QED
    BY <1>1, <1>8, <1>9, <1>10, SeqEqual
<1>12. m = Top.msg => Frames' = Frames
  <2> SUFFICES ASSUME m = Top.msg PROVE Frames' = Frames
    OBVIOUS
  <2>1. Entry(f) = Entry(Top)
    BY <1>3 DEF Entry
  <2>2. e = Frames[Len(Frames)]
    BY <1>4, <1>5, <2>1
  <2> HIDE DEF t
  <2>3. \A i \in 1..Len(Frames') : Frames'[i] = Frames[i]
    BY <1>1, <1>8, <1>9, <1>10, <2>2
  <2> QED
    BY <1>1, <1>8, <2>3, SeqEqual
<1> QED
  BY <1>11, <1>12 DEF e

\* A message is read and its first handler runs.
LEMMA BeginNested ==
    ASSUME CallsOK, CallsOK', InCycle, ~TimerIsExpired, NEW m \in Messages, NEW slot,
           stack' = [stack EXCEPT ![Len(stack)].msg = m, ![Len(stack)].slot = slot],
           expired' = expired
    PROVE  Nested!CallsNext
<1>1. Frames' = [Frames EXCEPT ![Len(Frames)] = [call |-> @.call, msg |-> m]]
  BY DeliveryFrames DEF InCycle
<1>2. Nested!BeginDelivery(m)
  BY <1>1, SameGuards DEF Nested!BeginDelivery, Frames, FramesOf, Entry
<1> QED
  BY <1>2 DEF Nested!CallsNext

\* The next handler of the same message runs, or a message had none: nothing that
\* NestedCalls sees.  After the last handler the delivery is over.
LEMMA EndNested ==
    ASSUME CallsOK, CallsOK', ~Idle, EndDelivery
    PROVE  IF InHandler THEN Nested!CallsNext ELSE UNCHANGED Nested!callVars
<1>1. NoMessage \in Messages \cup {NoMessage}
  OBVIOUS
<1>2. /\ Frames' = [Frames EXCEPT ![Len(Frames)] = [call |-> @.call, msg |-> NoMessage]]
      /\ NoMessage = Top.msg => Frames' = Frames
      /\ expired' = expired
  BY <1>1, DeliveryFrames DEF EndDelivery
<1>3. InHandler => Nested!FinishDelivery
  BY <1>2, SameGuards DEF Nested!FinishDelivery, Frames, FramesOf, Entry
<1>4. ~InHandler => UNCHANGED Nested!callVars
  BY <1>2 DEF InHandler, Nested!callVars, Frames, FramesOf, Entry
<1> QED
  BY <1>3, <1>4 DEF Nested!CallsNext

\* One more deadline passes.
LEMMA DeadlineNested ==
    ASSUME CallsOK, expired < Len(stack), expired' = expired + 1, stack' = stack
    PROVE  Nested!CallsNext
<1>1. Len(Frames) = Len(stack) /\ Frames' = Frames
  BY FramesType DEF Frames, FramesOf
<1>2. Nested!DeadlinePasses
  BY <1>1 DEF Nested!DeadlinePasses, Frames, FramesOf, Entry
<1> QED
  BY <1>2 DEF Nested!CallsNext

\* The innermost call runs out of time while it reads: it returns, or its deadline is
\* the one that passes next.
LEMMA TimeRunsOutNested ==
    ASSUME CallsOK, CallsOK', ~Idle, TimeRunsOut
    PROVE  Nested!CallsNext
<1>1. Return => Nested!CallsNext
  BY ReturnNested
<1>2. stack' = stack /\ expired' = Len(stack) => Nested!CallsNext
  <2>1. expired < Len(stack) /\ Len(stack) = expired + 1
    BY DEF TimeRunsOut, CallsOK
  <2> QED
    BY <2>1, DeadlineNested
<1> QED
  BY <1>1, <1>2 DEF TimeRunsOut

\* A step that leaves the stack and the deadlines alone is none of NestedCalls'.
LEMMA StutterNested == UNCHANGED calls => UNCHANGED Nested!callVars
BY DEF calls, Nested!callVars

\* Each step of the client is one of NestedCalls, or none that it sees.
LEMMA StepNested == TypeOK /\ TypeOK' /\ [Next]_vars => [Nested!CallsNext]_(Nested!callVars)
<1> SUFFICES ASSUME TypeOK, TypeOK', [Next]_vars PROVE [Nested!CallsNext]_(Nested!callVars)
  OBVIOUS
<1>1. CallsOK /\ CallsOK'
  BY DEF TypeOK
<1>2. CASE UNCHANGED calls
  BY <1>2, StutterNested
<1>3. ASSUME ~Idle, Return PROVE Nested!CallsNext
  BY <1>1, <1>3, ReturnNested
<1>4. ASSUME Idle, NEW op \in {"connect", "subscribe", "unsubscribe", "yield"},
             NEW t, NEW id, Enter(Call(op, t, 0, 0, id))
      PROVE  Nested!CallsNext
  <2>1. Call(op, t, 0, 0, id).op = op /\ Call(op, t, 0, 0, id).msg = NoMessage
    BY DEF Call
  <2> QED
    BY <1>1, <1>4, <2>1, EnterNested
<1>5. CASE MQTTConnect \/ MQTTYield \/ MQTTDisconnect
  BY <1>2, <1>4, <1>5 DEF MQTTConnect, MQTTYield, MQTTDisconnect, Send
<1>6. ASSUME NEW t \in Topics, MQTTSubscribe(t) \/ MQTTUnsubscribe(t)
      PROVE  [Nested!CallsNext]_(Nested!callVars)
  BY <1>2, <1>4, <1>6 DEF MQTTSubscribe, MQTTUnsubscribe, Send
<1>7. ASSUME NEW qos \in PublishQoS, MQTTPublish(qos)
      PROVE  [Nested!CallsNext]_(Nested!callVars)
  <2> DEFINE f == Call("publish", NoTopic, MaxPublishes - budget.publish + 1, qos, getNextPacketId)
  <2>1. f.op = "publish" /\ f.msg = NoMessage
    BY DEF Call
  <2>2. UNCHANGED calls \/ (qos # 0 /\ Enter(f))
    BY <1>7 DEF MQTTPublish, Send
  <2>3. Idle \/ InHandler
    BY <1>7 DEF MQTTPublish
  <2> HIDE DEF f
  <2> QED
    BY <1>1, <1>2, <2>1, <2>2, <2>3, EnterNested
<1>8. CASE DropAck \/ Connected \/ Subscribed \/ Unsubscribed \/ Published \/ Release
           \/ PingAnswered \/ TimedOut
  BY <1>1, <1>2, <1>3, <1>8, TimeRunsOutNested DEF DropAck, Connected, Subscribed, Unsubscribed,
     Published, Release, PingAnswered, TimedOut, CycleFails, readPacket, InCycle, calls
<1>9. \A m : ~Idle /\ Acknowledge(m) => [Nested!CallsNext]_(Nested!callVars)
  BY <1>1, <1>3, EndNested DEF Acknowledge
<1>10. CASE Deliver
  <2>1. InCycle /\ ~TimerIsExpired /\ ~Idle
    BY <1>10 DEF Deliver, readPacket, InCycle
  <2>2. Head(toClient).msg \in Messages
    BY <1>10, FromBrokerType DEF Deliver, readPacket, TypeOK, WireOK
  <2>3. \A m \in Messages : \A slot, bytes : RunHandler(m, slot, bytes) => Nested!CallsNext
    BY <1>1, <2>1, BeginNested DEF RunHandler
  <2>4. TimeRunsOut => Nested!CallsNext
    BY <1>1, <2>1, TimeRunsOutNested
  <2> QED
    BY <1>9, <1>10, <2>1, <2>2, <2>3, <2>4 DEF Deliver
<1>11. CASE HandlerReturns
  <2>1. ~Idle
    BY <1>11 DEF HandlerReturns, InHandler
  <2>2. Top.msg \in Messages \cup {NoMessage}
    BY <1>1, <2>1, TopType
  <2>3. \A slot, bytes : RunHandler(Top.msg, slot, bytes) => UNCHANGED Nested!callVars
    <3> SUFFICES ASSUME NEW slot, NEW bytes, RunHandler(Top.msg, slot, bytes)
                 PROVE  UNCHANGED Nested!callVars
      OBVIOUS
    <3>1. Frames' = Frames /\ expired' = expired
      BY <1>1, <2>1, <2>2, DeliveryFrames DEF RunHandler
    <3> QED
      BY <3>1 DEF Nested!callVars, Frames, FramesOf, Entry
  <2> QED
    BY <1>9, <1>11, <2>1, <2>3 DEF HandlerReturns
<1>12. CASE Tick
  <2>1. expired < Len(stack) /\ expired' = expired + 1 /\ stack' = stack
    BY <1>12 DEF Tick
  <2> QED
    BY <1>1, <2>1, DeadlineNested
<1>13. CASE LinkFails \/ NetworkReconnect
  BY <1>2, <1>13 DEF LinkFails, NetworkReconnect
<1>14. CASE Broker
  BY <1>2, <1>14 DEF Broker, BrokerConnect, BrokerSubscribe, BrokerUnsubscribe, BrokerTakesPublish,
     BrokerCompletes, BrokerTakesAck, BrokerReleases, BrokerPongs, BrokerDisconnect,
     BrokerPublish, BrokerRetries, BrokerReads, BrokerSends
<1>15. CASE UNCHANGED vars
  BY <1>2, <1>15 DEF vars
<1> QED
  BY <1>5, <1>6, <1>7, <1>8, <1>10, <1>11, <1>12, <1>13, <1>14, <1>15 DEF Next, App, Cycle

\* The client's blocking calls nest, as FreeRTOSAgent takes for granted: whatever is
\* read, sent, lost or refused, for any number of calls, messages and failures.
THEOREM ImplementsNestedCallsCorrect == Spec => ImplementsNestedCalls
<1>1. Init => Nested!CallsInit
  BY DEF Init, Nested!CallsInit
<1> QED
  BY <1>1, TypeCorrect, StepNested, PTL DEF Spec, ImplementsNestedCalls, Nested!CallsSpec

-----------------------------------------------------------------------------
(* What is delivered.                                                        *)

\* The inductive invariant: the messages under delivery were handed to a handler, and
\* what is acknowledged was, or had no handler.
Handled    == \A i \in 1..Len(stack) : stack[i].msg \in offered \cup {NoMessage}
HandledInv == ConfirmedAfterHandled /\ Handled

\* A call is made or returns: what the others deliver stays as it was.
LEMMA CallsHandled ==
    ASSUME CallsOK, Handled, offered \subseteq offered',
           \/ UNCHANGED stack
           \/ \E f : Enter(f) /\ f.msg = NoMessage
           \/ ~Idle /\ Return
    PROVE  Handled'
<1>1. stack \in Seq(Frame) /\ Len(stack) \in Nat
  BY DEF CallsOK
<1>2. CASE UNCHANGED stack
  BY <1>2 DEF Handled
<1>3. ASSUME NEW f, Enter(f), f.msg = NoMessage PROVE Handled'
  <2>1. \A i \in 1..Len(stack') : \/ i \in 1..Len(stack) /\ stack'[i] = stack[i]
                                  \/ stack'[i] = f
    BY <1>1, <1>3 DEF Enter
  <2> QED
    BY <1>3, <2>1 DEF Handled
<1>4. CASE ~Idle /\ Return
  <2>1. Len(stack) - 1 \in 0..Len(stack)
    BY <1>1, <1>4 DEF Idle
  <2>2. \A i \in 1..Len(stack') : i \in 1..Len(stack) /\ stack'[i] = stack[i]
    BY <1>1, <1>4, <2>1, Prefix DEF Return, Pop
  <2> QED
    BY <2>2 DEF Handled
<1> QED
  BY <1>2, <1>3, <1>4

\* The innermost call delivers a message that a handler was given, or none.
LEMMA DeliveryHandled ==
    ASSUME CallsOK, ~Idle, Handled, offered \subseteq offered',
           NEW m \in offered' \cup {NoMessage}, NEW slot,
           stack' = [stack EXCEPT ![Len(stack)].msg = m, ![Len(stack)].slot = slot]
    PROVE  Handled'
<1>1. stack \in Seq(Frame) /\ Len(stack) \in 1..Len(stack)
  BY DEF CallsOK, Idle
<1> DEFINE f == [Top EXCEPT !.msg = m, !.slot = slot]
<1>2. f.msg = m
  BY TopType DEF Frame
<1>3. stack' = [stack EXCEPT ![Len(stack)] = f]
  BY <1>1 DEF Top
<1> HIDE DEF f
<1>4. \A i \in 1..Len(stack') : /\ i \in 1..Len(stack)
                                /\ stack'[i] = IF i = Len(stack) THEN f ELSE stack[i]
  BY <1>1, <1>3
<1> QED
  BY <1>2, <1>4 DEF Handled

\* A message acknowledged was handled: the delivery that ends is its own.
LEMMA AcknowledgeHandled ==
    ASSUME CallsOK, ~Idle, Handled, offered \subseteq offered', NEW m, Acknowledge(m)
    PROVE  Handled' /\ confirmed' \subseteq confirmed \cup {m}
<1>1. NoMessage \in offered' \cup {NoMessage}
  OBVIOUS
<1>2. EndDelivery => Handled'
  BY <1>1, DeliveryHandled DEF EndDelivery
<1>3. Return => Handled'
  BY CallsHandled
<1> QED
  BY <1>2, <1>3 DEF Acknowledge

\* Every step keeps HandledInv: only a delivery offers, and only its end confirms.
LEMMA HandledStep == TypeOK /\ HandledInv /\ [Next]_vars => HandledInv'
<1> SUFFICES ASSUME TypeOK, HandledInv, [Next]_vars PROVE HandledInv'
  OBVIOUS
<1>1. CallsOK /\ Handled /\ confirmed \subseteq offered \cup unrouted
  BY DEF TypeOK, HandledInv, ConfirmedAfterHandled
<1>2. UNCHANGED inbox /\ Handled' => HandledInv'
  BY <1>1 DEF HandledInv, ConfirmedAfterHandled, inbox
<1>3. UNCHANGED <<inbox, stack>> => HandledInv'
  BY <1>1, <1>2, CallsHandled DEF inbox
<1>4. UNCHANGED inbox /\ ~Idle /\ Return => HandledInv'
  BY <1>1, <1>2, CallsHandled DEF inbox
<1>5. \A op, t, pub, qos, id : UNCHANGED inbox /\ Enter(Call(op, t, pub, qos, id)) => HandledInv'
  <2>1. \A op, t, pub, qos, id : Call(op, t, pub, qos, id).msg = NoMessage
    BY DEF Call
  <2> QED
    BY <1>1, <1>2, <2>1, CallsHandled DEF inbox
<1>6. CASE App
  BY <1>3, <1>5, <1>6 DEF App, MQTTConnect, MQTTYield, MQTTDisconnect, MQTTSubscribe,
     MQTTUnsubscribe, MQTTPublish, Send, calls
<1>7. CASE DropAck \/ Connected \/ Subscribed \/ Unsubscribed \/ Published \/ Release
           \/ PingAnswered \/ TimedOut
  BY <1>3, <1>4, <1>7 DEF DropAck, Connected, Subscribed, Unsubscribed, Published, Release,
     PingAnswered, TimedOut, CycleFails, TimeRunsOut, readPacket, InCycle, calls
<1>8. CASE Deliver
  <2> DEFINE m == Head(toClient).msg
  <2>1. ~Idle
    BY <1>8 DEF Deliver, readPacket, InCycle
  <2>2. ASSUME NEW slot, RunHandler(m, slot, m), UNCHANGED unrouted PROVE HandledInv'
    <3>1. offered' = offered \cup {m} /\ confirmed' = confirmed
      BY <2>2 DEF RunHandler
    <3>2. Handled'
      BY <1>1, <2>1, <2>2, <3>1, DeliveryHandled DEF RunHandler
    <3> QED
      BY <1>1, <2>2, <3>1, <3>2 DEF HandledInv, ConfirmedAfterHandled
  <2>3. ASSUME Acknowledge(m), unrouted' = unrouted \cup {m}, UNCHANGED offered PROVE HandledInv'
    <3>1. Handled' /\ confirmed' \subseteq confirmed \cup {m}
      BY <1>1, <2>1, <2>3, AcknowledgeHandled
    <3> QED
      BY <1>1, <2>3, <3>1 DEF HandledInv, ConfirmedAfterHandled
  <2>4. ASSUME TimeRunsOut, unrouted' = unrouted \cup {m}, UNCHANGED <<offered, confirmed>>
        PROVE  HandledInv'
    <3>1. Handled'
      BY <1>1, <2>1, <2>4, CallsHandled DEF TimeRunsOut
    <3> QED
      BY <1>1, <2>4, <3>1 DEF HandledInv, ConfirmedAfterHandled
  <2> QED
    BY <1>8, <2>2, <2>3, <2>4 DEF Deliver
<1>9. CASE HandlerReturns
  <2>1. ~Idle /\ Top.msg \in offered /\ unrouted' = unrouted
    BY <1>1, <1>9 DEF HandlerReturns, InHandler, Idle, Handled, Top, CallsOK
  <2>2. ASSUME NEW slot, RunHandler(Top.msg, slot, readbuf) PROVE HandledInv'
    <3>1. offered \subseteq offered' /\ confirmed' = confirmed
      BY <2>2 DEF RunHandler
    <3>2. Handled'
      BY <1>1, <2>1, <2>2, <3>1, DeliveryHandled DEF RunHandler
    <3> QED
      BY <1>1, <2>1, <3>1, <3>2 DEF HandledInv, ConfirmedAfterHandled
  <2>3. ASSUME Acknowledge(Top.msg), UNCHANGED offered PROVE HandledInv'
    <3>1. Handled' /\ confirmed' \subseteq confirmed \cup {Top.msg}
      BY <1>1, <2>1, <2>3, AcknowledgeHandled
    <3> QED
      BY <1>1, <2>1, <2>3, <3>1 DEF HandledInv, ConfirmedAfterHandled
  <2> QED
    BY <1>9, <2>2, <2>3 DEF HandlerReturns
<1>10. CASE Tick \/ LinkFails \/ NetworkReconnect \/ Broker \/ UNCHANGED vars
  BY <1>3, <1>10 DEF Tick, LinkFails, NetworkReconnect, Broker, BrokerConnect, BrokerSubscribe,
     BrokerUnsubscribe, BrokerTakesPublish, BrokerCompletes, BrokerTakesAck, BrokerReleases,
     BrokerPongs, BrokerDisconnect, BrokerPublish, BrokerRetries, BrokerReads, BrokerSends,
     calls, vars
<1> QED
  BY <1>6, <1>7, <1>8, <1>9, <1>10 DEF Next, Cycle

\* No message is acknowledged to the broker before the application's handler had it,
\* unless no handler was registered for its topic.
THEOREM ConfirmedAfterHandledCorrect == Spec => []ConfirmedAfterHandled
<1>1. Init => HandledInv
  BY DEF Init, HandledInv, Handled, ConfirmedAfterHandled
<1>2. HandledInv => ConfirmedAfterHandled
  BY DEF HandledInv
<1> QED
  BY <1>1, <1>2, TypeCorrect, HandledStep, PTL DEF Spec

-----------------------------------------------------------------------------
(* What a handler is given.                                                  *)

\* A filter keeps the slot it has.
SlotsKept == \A i \in 1..MAX_MESSAGE_HANDLERS :
                messageHandlers[i] # NoTopic => messageHandlers'[i] = messageHandlers[i]

\* The slot a frame's delivery has come to is in use.
OwnSlot(frame) ==
    frame.msg # NoMessage => /\ frame.slot \in 1..MAX_MESSAGE_HANDLERS
                             /\ messageHandlers[frame.slot] # NoTopic

\* The inductive invariant, with the types.
Delivering == \A i \in 1..Len(stack) : OwnSlot(stack[i])
SlotInv    == MixedAfterOwn /\ Delivering

\* A frame's slot stays its own.
LEMMA OwnSlotKept ==
    ASSUME SlotsKept, NEW f \in Frame, OwnSlot(f)
    PROVE  OwnSlot(f)'
BY DEF OwnSlot, SlotsKept

\* A call is made or returns.
LEMMA CallsDelivering ==
    ASSUME CallsOK, Delivering, SlotsKept,
           \/ UNCHANGED stack
           \/ \E f : Enter(f) /\ f.msg = NoMessage
           \/ ~Idle /\ Return
    PROVE  Delivering'
<1>1. stack \in Seq(Frame) /\ Len(stack) \in Nat
  BY DEF CallsOK
<1>2. \A i \in 1..Len(stack) : OwnSlot(stack[i]) /\ stack[i] \in Frame
  BY <1>1, ElementOfSeq DEF Delivering
<1>3. CASE UNCHANGED stack
  BY <1>2, <1>3, OwnSlotKept DEF Delivering, OwnSlot
<1>4. ASSUME NEW f, Enter(f), f.msg = NoMessage PROVE Delivering'
  <2>1. \A i \in 1..Len(stack') : \/ i \in 1..Len(stack) /\ stack'[i] = stack[i]
                                  \/ stack'[i] = f
    BY <1>1, <1>4 DEF Enter
  <2> QED
    BY <1>2, <1>4, <2>1, OwnSlotKept DEF Delivering, OwnSlot
<1>5. CASE ~Idle /\ Return
  <2>1. Len(stack) - 1 \in 0..Len(stack)
    BY <1>1, <1>5 DEF Idle
  <2>2. \A i \in 1..Len(stack') : i \in 1..Len(stack) /\ stack'[i] = stack[i]
    BY <1>1, <1>5, <2>1, Prefix DEF Return, Pop
  <2> QED
    BY <1>2, <2>2, OwnSlotKept DEF Delivering, OwnSlot
<1> QED
  BY <1>3, <1>4, <1>5

\* The innermost call delivers to a slot in use, or no longer.
LEMMA DeliveryDelivering ==
    ASSUME CallsOK, ~Idle, Delivering, UNCHANGED messageHandlers, NEW m, NEW slot,
           m # NoMessage => /\ slot \in 1..MAX_MESSAGE_HANDLERS
                            /\ messageHandlers[slot] # NoTopic,
           stack' = [stack EXCEPT ![Len(stack)].msg = m, ![Len(stack)].slot = slot]
    PROVE  Delivering'
<1>1. stack \in Seq(Frame) /\ Len(stack) \in 1..Len(stack)
  BY DEF CallsOK, Idle
<1> DEFINE f == [Top EXCEPT !.msg = m, !.slot = slot]
<1>2. f.msg = m /\ f.slot = slot
  BY TopType DEF Frame
<1>3. stack' = [stack EXCEPT ![Len(stack)] = f]
  BY <1>1 DEF Top
<1> HIDE DEF f
<1>4. \A i \in 1..Len(stack') : /\ i \in 1..Len(stack)
                                /\ stack'[i] = IF i = Len(stack) THEN f ELSE stack[i]
  BY <1>1, <1>3
<1> QED
  BY <1>2, <1>4 DEF Delivering, OwnSlot

\* A delivery ends, in any of three ways.
LEMMA AcknowledgeDelivering ==
    ASSUME CallsOK, ~Idle, Delivering, UNCHANGED messageHandlers, NEW m, Acknowledge(m)
    PROVE  Delivering'
<1>1. EndDelivery => Delivering'
  BY DeliveryDelivering DEF EndDelivery
<1>2. SlotsKept
  BY DEF SlotsKept
<1>3. Return => Delivering'
  BY <1>2, CallsDelivering
<1> QED
  BY <1>1, <1>3 DEF Acknowledge

\* What MixedAfterOwn says stays true while slots only fill.
LEMMA MixedKept ==
    ASSUME MixedAfterOwn, SlotsKept, UNCHANGED mixed, offered \subseteq offered'
    PROVE  MixedAfterOwn'
BY DEF MixedAfterOwn, SlotsKept

\* Every step keeps SlotInv: a handler is given other bytes only on the way from one
\* slot in use to the next, under a message it was given before.
LEMMA SlotStep == TypeOK /\ HandledInv /\ SlotInv /\ [Next]_vars => SlotInv'
<1> SUFFICES ASSUME TypeOK, HandledInv, SlotInv, [Next]_vars PROVE SlotInv'
  OBVIOUS
<1>1. CallsOK /\ Delivering /\ MixedAfterOwn /\ Handled
  BY DEF TypeOK, SlotInv, HandledInv
<1>2. UNCHANGED messageHandlers => SlotsKept
  BY DEF SlotsKept
<1>3. UNCHANGED <<mixed, offered, messageHandlers, stack>> => SlotInv'
  BY <1>1, <1>2, CallsDelivering, MixedKept DEF SlotInv
<1>4. UNCHANGED <<mixed, offered>> /\ SlotsKept /\ ~Idle /\ Return => SlotInv'
  BY <1>1, CallsDelivering, MixedKept DEF SlotInv
<1>5. \A op, t, pub, qos, id :
        UNCHANGED <<mixed, offered, messageHandlers>> /\ Enter(Call(op, t, pub, qos, id)) => SlotInv'
  <2>1. \A op, t, pub, qos, id : Call(op, t, pub, qos, id).msg = NoMessage
    BY DEF Call
  <2> QED
    BY <1>1, <1>2, <2>1, CallsDelivering, MixedKept DEF SlotInv
<1>6. CASE App
  BY <1>3, <1>5, <1>6 DEF App, MQTTConnect, MQTTYield, MQTTDisconnect, MQTTSubscribe,
     MQTTUnsubscribe, MQTTPublish, Send, calls, client, inbox
<1>7. CASE DropAck \/ Connected \/ Unsubscribed \/ Published \/ Release \/ PingAnswered \/ TimedOut
  BY <1>2, <1>3, <1>4, <1>7 DEF DropAck, Connected, Unsubscribed, Published, Release,
     PingAnswered, TimedOut, CycleFails, TimeRunsOut, readPacket, InCycle, calls, client, inbox
<1>8. CASE Subscribed
  <2>1. SlotsKept
    BY <1>2, <1>8 DEF Subscribed, InstallHandler, SlotsKept
  <2> QED
    BY <1>4, <1>8, <2>1 DEF Subscribed, readPacket, InCycle, inbox
<1>9. CASE Deliver
  <2> DEFINE m == Head(toClient).msg
  <2>1. ~Idle /\ UNCHANGED messageHandlers
    BY <1>9 DEF Deliver, readPacket, InCycle
  <2>2. TopicOf[m] # NoTopic
    <3>1. Head(toClient) \in ToClient
      BY <1>9 DEF Deliver, readPacket, TypeOK, WireOK
    <3>2. m \in Messages
      BY <1>9, <3>1 DEF Deliver, readPacket, ToClient
    <3> QED
      BY <3>2, ConstantsOK
  <2>3. ASSUME NEW slot \in NextSlot(TopicOf[m], 0), RunHandler(m, slot, m) PROVE SlotInv'
    <3>1. slot \in 1..MAX_MESSAGE_HANDLERS /\ messageHandlers[slot] # NoTopic
      BY <2>2, <2>3 DEF NextSlot
    <3>2. Delivering'
      BY <1>1, <2>1, <2>3, <3>1, DeliveryDelivering DEF RunHandler
    <3> QED
      BY <1>1, <1>2, <2>1, <2>3, <3>2, MixedKept DEF SlotInv, RunHandler
  <2>4. ASSUME Acknowledge(m), UNCHANGED <<mixed, offered>> PROVE SlotInv'
    BY <1>1, <1>2, <2>1, <2>4, AcknowledgeDelivering, MixedKept DEF SlotInv
  <2>5. ASSUME TimeRunsOut, UNCHANGED <<mixed, offered>> PROVE SlotInv'
    BY <1>2, <1>3, <1>4, <2>1, <2>5 DEF TimeRunsOut
  <2> QED
    BY <1>9, <2>3, <2>4, <2>5 DEF Deliver
<1>10. CASE HandlerReturns
  <2>1. ~Idle /\ UNCHANGED messageHandlers /\ Top.msg # NoMessage
    BY <1>10 DEF HandlerReturns, InHandler
  <2>2. /\ Top.slot \in 1..MAX_MESSAGE_HANDLERS
        /\ messageHandlers[Top.slot] # NoTopic
        /\ Top.msg \in offered
    BY <1>1, <2>1 DEF Delivering, OwnSlot, Handled, Top, Idle, CallsOK
  <2>3. TopicOf[readbuf] # NoTopic
    <3>1. readbuf \in Messages
      BY <1>1, <2>1, TopType DEF TypeOK, ClientOK
    <3> QED
      BY <3>1, ConstantsOK
  <2>4. ASSUME NEW slot \in NextSlot(TopicOf[readbuf], Top.slot),
               RunHandler(Top.msg, slot, readbuf)
        PROVE  SlotInv'
    <3>1. /\ slot \in 1..MAX_MESSAGE_HANDLERS /\ slot > Top.slot
          /\ messageHandlers[slot] # NoTopic
      BY <2>3, <2>4 DEF NextSlot
    <3>2. Delivering'
      BY <1>1, <2>1, <2>4, <3>1, DeliveryDelivering DEF RunHandler
    <3>3. slot # Top.slot
      BY <2>2, <3>1
    <3>4. mixed' \subseteq offered'
      BY <1>1, <2>2, <2>4 DEF RunHandler, MixedAfterOwn
    <3>5. MixedAfterOwn'
      BY <2>1, <2>2, <3>1, <3>3, <3>4 DEF MixedAfterOwn
    <3> QED
      BY <3>2, <3>5 DEF SlotInv
  <2>5. ASSUME Acknowledge(Top.msg), UNCHANGED <<mixed, offered>> PROVE SlotInv'
    BY <1>1, <1>2, <2>1, <2>5, AcknowledgeDelivering, MixedKept DEF SlotInv
  <2> QED
    BY <1>10, <2>4, <2>5 DEF HandlerReturns
<1>11. CASE Tick \/ LinkFails \/ NetworkReconnect \/ Broker \/ UNCHANGED vars
  BY <1>3, <1>11 DEF Tick, LinkFails, NetworkReconnect, Broker, BrokerConnect, BrokerSubscribe,
     BrokerUnsubscribe, BrokerTakesPublish, BrokerCompletes, BrokerTakesAck, BrokerReleases,
     BrokerPongs, BrokerDisconnect, BrokerPublish, BrokerRetries, BrokerReads, BrokerSends,
     calls, client, inbox, vars
<1> QED
  BY <1>6, <1>7, <1>8, <1>9, <1>10, <1>11 DEF Next, Cycle

\* A message's handler is given its own bytes before those of another one, and those
\* only with a second filter in use: for any number of messages, filters and calls.
THEOREM MixedAfterOwnCorrect == Spec => []MixedAfterOwn
<1>1. Init => HandledInv /\ SlotInv
  BY DEF Init, HandledInv, ConfirmedAfterHandled, Handled, SlotInv, Delivering, MixedAfterOwn
<1>2. SlotInv => MixedAfterOwn
  BY DEF SlotInv
<1> QED
  BY <1>1, <1>2, TypeCorrect, HandledStep, SlotStep, PTL DEF Spec
=============================================================================
