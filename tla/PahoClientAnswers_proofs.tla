---------------------- MODULE PahoClientAnswers_proofs ----------------------
(***************************************************************************)
(* Whose answer a call returns on, although the client compares no packet    *)
(* id.  MQTTPublish: as long as no publish is made while another waits and    *)
(* none has failed, one publish waits at most, and every token in flight is   *)
(* its own.  MQTTSubscribe and keepalive: one request or one answer is in     *)
(* flight, as long as no subscribe has run out of time.                      *)
(***************************************************************************)
EXTENDS PahoClientLedger_proofs, FiniteSetTheorems

\* A publish of QoS 0, which nothing answers.
Unanswered(p) == p.type = "PUBLISH" /\ p.qos = 0

\* One publish waits at most, and each token in flight belongs to one that waits.
Alone    == \A i, j \in Waiting : i = j
Own(pub) == \E k \in Waiting : stack[k].pub = pub
OwnOut   == \A i \in Out : Unanswered(toBroker[i]) \/ Own(toBroker[i].pub)
OwnIn    == \A i \in In : Own(toClient[i].pub)
OwnAck   == \A b \in backing : b[1] = b[2]

\* The inductive invariant, together with LedgerInv.
Orderly == ~overlapped /\ failed = {}
OwnInv  == Orderly => Alone /\ OwnOut /\ OwnIn /\ OwnAck

-----------------------------------------------------------------------------
(* Waiting calls.                                                            *)

\* The publishes that wait are those that did.
SameWaiting == Waiting' = Waiting /\ \A k \in Waiting : stack'[k].pub = stack[k].pub

\* Nothing is called and nothing returns.
LEMMA SameStack == UNCHANGED stack => SameWaiting
BY DEF SameWaiting, Waiting

\* A call that is not a publish is made.
LEMMA SameEnter ==
    ASSUME CallsOK, NEW op, op # "publish", NEW t, NEW pub, NEW qos, NEW id,
           Enter(Call(op, t, pub, qos, id))
    PROVE  SameWaiting
<1>1. Call(op, t, pub, qos, id).op # "publish"
  BY DEF Call
<1> QED
  BY <1>1 DEF CallsOK, Enter, SameWaiting, Waiting

\* A call that is not a publish returns.
LEMMA SameReturn ==
    ASSUME CallsOK, ~Idle, Return, Top.op # "publish"
    PROVE  SameWaiting
<1>1. /\ Len(stack) \in Nat /\ Len(stack') = Len(stack) - 1 /\ Len(stack) # 0
      /\ \A i \in 1..Len(stack') : stack'[i].op = stack[i].op /\ stack'[i].pub = stack[i].pub
  BY ReturnKeeps DEF KeepsCalls, CallsOK, Idle
<1>2. \A i \in 1..Len(stack) : stack[i].op = "publish" => i \in 1..Len(stack')
  BY <1>1 DEF Top
<1>3. Waiting' = Waiting
  BY <1>1, <1>2 DEF Waiting
<1> QED
  BY <1>1, <1>3 DEF SameWaiting, Waiting

\* A delivery starts, goes on or ends.
LEMMA SameDelivery ==
    ASSUME CallsOK, ~Idle, NEW m, NEW slot,
           stack' = [stack EXCEPT ![Len(stack)].msg = m, ![Len(stack)].slot = slot]
    PROVE  SameWaiting
<1>1. Len(stack') = Len(stack)
  BY DEF CallsOK
<1>2. \A i \in 1..Len(stack) : stack'[i].op = stack[i].op /\ stack'[i].pub = stack[i].pub
  BY <1>1, DeliveryKeeps DEF KeepsCalls
<1> QED
  BY <1>1, <1>2 DEF SameWaiting, Waiting

\* What a delivery does to the calls when it ends, in all three ways.
LEMMA SameAcknowledge ==
    ASSUME CallsOK, ~Idle, NEW m, Acknowledge(m)
    PROVE  SameWaiting
<1>1. EndDelivery => SameWaiting
  BY SameDelivery DEF EndDelivery
<1>2. Top.op = "yield" /\ Return => SameWaiting
  BY SameReturn
<1> QED
  BY <1>1, <1>2 DEF Acknowledge

\* The time runs out while reading: a yield returns, another call goes on.
LEMMA SameTimeRunsOut ==
    ASSUME CallsOK, ~Idle, TimeRunsOut
    PROVE  SameWaiting
<1>1. Top.op = "yield" /\ Return => SameWaiting
  BY SameReturn
<1>2. UNCHANGED stack => SameWaiting
  BY SameStack
<1> QED
  BY <1>1, <1>2 DEF TimeRunsOut

-----------------------------------------------------------------------------
(* Tokens.                                                                   *)

\* A token keeps its owner as long as the owner waits.
LEMMA SameOwn ==
    ASSUME SameWaiting
    PROVE  /\ Alone => Alone'
           /\ \A pub : Own(pub) => Own(pub)'
<1>1. Alone => Alone'
  BY DEF SameWaiting, Alone
<1>2. ASSUME NEW pub, Own(pub) PROVE Own(pub)'
  BY <1>2 DEF SameWaiting, Own
<1> QED
  BY <1>1, <1>2

\* Tokens are kept or lost.
LEMMA OwnKept ==
    ASSUME OwnInv, SameWaiting, Orderly' => Orderly, OutKept, InKept, UNCHANGED backing
    PROVE  OwnInv'
<1> SUFFICES ASSUME Orderly' PROVE (Alone /\ OwnOut /\ OwnIn /\ OwnAck)'
  BY DEF OwnInv
<1>1. Alone /\ OwnOut /\ OwnIn /\ OwnAck
  BY DEF OwnInv
<1>2. OwnOut'
  BY <1>1, SameOwn DEF OwnOut, OutKept, Unanswered
<1>3. OwnIn'
  BY <1>1, SameOwn DEF OwnIn, InKept
<1> QED
  BY <1>1, <1>2, <1>3, SameOwn DEF OwnAck

\* PUBREC is read and PUBREL written for the same publish.
LEMMA OwnReleased ==
    ASSUME OwnInv, SameWaiting, Orderly' => Orderly, UNCHANGED backing,
           InRead, NEW p, p.pub = toClient[1].pub, OutWritten(p)
    PROVE  OwnInv'
<1> SUFFICES ASSUME Orderly' PROVE (Alone /\ OwnOut /\ OwnIn /\ OwnAck)'
  BY DEF OwnInv
<1>1. Alone /\ OwnOut /\ OwnIn /\ OwnAck
  BY DEF OwnInv
<1>2. Own(p.pub)
  BY <1>1 DEF OwnIn, InRead
<1>3. OwnOut'
  BY <1>1, <1>2, SameOwn DEF OwnOut, OutWritten, Unanswered
<1>4. OwnIn'
  BY <1>1, SameOwn DEF OwnIn, InRead
<1> QED
  BY <1>1, <1>3, <1>4, SameOwn DEF OwnAck

\* The broker reads a token and answers it.
LEMMA OwnAnswered ==
    ASSUME OwnInv, SameWaiting, Orderly' => Orderly, UNCHANGED backing,
           OutRead, ~Unanswered(toBroker[1]), NEW q, q.pub = toBroker[1].pub, InWritten(q)
    PROVE  OwnInv'
<1> SUFFICES ASSUME Orderly' PROVE (Alone /\ OwnOut /\ OwnIn /\ OwnAck)'
  BY DEF OwnInv
<1>1. Alone /\ OwnOut /\ OwnIn /\ OwnAck
  BY DEF OwnInv
<1>2. Own(q.pub)
  BY <1>1 DEF OwnOut, OutRead
<1>3. OwnOut'
  BY <1>1, SameOwn DEF OwnOut, OutRead, Unanswered
<1>4. OwnIn'
  BY <1>1, <1>2, SameOwn DEF OwnIn, InWritten
<1> QED
  BY <1>1, <1>3, <1>4, SameOwn DEF OwnAck

\* A publish is made while none waits: it waits alone.
LEMMA OwnMade ==
    ASSUME CallsOK, OwnInv, Orderly' => Orderly /\ Waiting = {}, UNCHANGED backing,
           NEW f, f.op = "publish", Enter(f), NEW p, p.pub = f.pub, OutWritten(p), InKept
    PROVE  OwnInv'
<1> SUFFICES ASSUME Orderly' PROVE (Alone /\ OwnOut /\ OwnIn /\ OwnAck)'
  BY DEF OwnInv
<1>1. Alone /\ OwnOut /\ OwnIn /\ OwnAck /\ Waiting = {}
  BY DEF OwnInv
<1>2. stack \in Seq(Frame) /\ stack' = Append(stack, f)
  BY DEF CallsOK, Enter
<1>3. Waiting' = {Len(stack) + 1} /\ stack'[Len(stack) + 1] = f
  <2>1. /\ Len(stack) \in Nat /\ Len(stack') = Len(stack) + 1 /\ stack'[Len(stack) + 1] = f
        /\ \A i \in 1..Len(stack) : stack'[i] = stack[i]
    BY <1>2
  <2> QED
    BY <1>1, <2>1 DEF Waiting
<1>4. Alone' /\ Own(p.pub)'
  BY <1>3 DEF Alone, Own
<1>5. \A i \in Out : Unanswered(toBroker[i])
  BY <1>1 DEF OwnOut, Own
<1>6. OwnOut'
  BY <1>4, <1>5 DEF OwnOut, OutWritten, Unanswered
<1>7. OwnIn'
  BY <1>1 DEF OwnIn, Own, InKept
<1> QED
  BY <1>1, <1>4, <1>6, <1>7 DEF OwnAck

\* A publish of QoS 0 is written.
LEMMA OwnUnanswered ==
    ASSUME OwnInv, SameWaiting, Orderly' => Orderly, UNCHANGED backing,
           NEW p, Unanswered(p), OutWritten(p), InKept
    PROVE  OwnInv'
<1> SUFFICES ASSUME Orderly' PROVE (Alone /\ OwnOut /\ OwnIn /\ OwnAck)'
  BY DEF OwnInv
<1>1. Alone /\ OwnOut /\ OwnIn /\ OwnAck
  BY DEF OwnInv
<1>2. OwnOut'
  BY <1>1, SameOwn DEF OwnOut, OutWritten, Unanswered
<1>3. OwnIn'
  BY <1>1, SameOwn DEF OwnIn, InKept
<1> QED
  BY <1>1, <1>2, <1>3, SameOwn DEF OwnAck

\* The acknowledgement is spent on the one publish that waits, and no token is left.
LEMMA OwnSpent ==
    ASSUME CallsOK, TokenInv, OwnInv, Orderly' => Orderly, ~Idle, Top.op = "publish", Return,
           OutKept, InRead, backing' = backing \cup {<<Top.pub, toClient[1].pub>>}
    PROVE  OwnInv'
<1> SUFFICES ASSUME Orderly' PROVE (Alone /\ OwnOut /\ OwnIn /\ OwnAck)'
  BY DEF OwnInv
<1>1. Alone /\ OwnOut /\ OwnIn /\ OwnAck
  BY DEF OwnInv
<1>2. Len(stack) \in Waiting
  BY DEF Waiting, Top, Idle, CallsOK
<1>3. \A pub : Own(pub) => pub = Top.pub
  BY <1>1, <1>2 DEF Own, Alone, Top
<1>4. toClient[1].pub = Top.pub
  BY <1>1, <1>3 DEF OwnIn, InRead
<1>5. \A i \in Out : Unanswered(toBroker[i])
  <2> SUFFICES ASSUME NEW i \in Out, Own(toBroker[i].pub) PROVE FALSE
    BY <1>1 DEF OwnOut
  <2>1. toBroker[i].pub = toClient[1].pub
    BY <1>3, <1>4
  <2> QED
    BY <2>1 DEF TokenInv, InRead
<1>6. \A i \in In : i = 1
  BY <1>1, <1>3, <1>4 DEF OwnIn, TokenInv, InRead
<1>7. In' = {}
  BY <1>6 DEF InRead
<1>8. OwnOut'
  BY <1>5 DEF OwnOut, OutKept, Unanswered
<1>9. Alone'
  <2>1. KeepsCalls
    BY ReturnKeeps
  <2>2. Waiting' \subseteq Waiting
    BY <2>1 DEF KeepsCalls, Waiting, CallsOK
  <2> QED
    BY <1>1, <2>2 DEF Alone
<1>10. OwnAck'
  BY <1>1, <1>4 DEF OwnAck
<1> QED
  BY <1>7, <1>8, <1>9, <1>10 DEF OwnIn

-----------------------------------------------------------------------------
(* The steps.                                                                *)

\* Neither an overlap nor a failure is ever forgotten.
LEMMA OrderlyBefore == Next => (Orderly' => Orderly)
<1> SUFFICES ASSUME Next PROVE Orderly' => Orderly
  OBVIOUS
<1>1. CASE UNCHANGED <<overlapped, failed>>
  BY <1>1 DEF Orderly
<1>2. CASE App
  BY <1>1, <1>2 DEF App, MQTTConnect, MQTTYield, MQTTDisconnect, MQTTSubscribe,
     MQTTUnsubscribe, MQTTPublish, ledger, Orderly
<1>3. CASE TimedOut
  BY <1>3 DEF TimedOut, Orderly
<1>4. CASE \/ DropAck \/ Connected \/ Subscribed \/ Unsubscribed \/ Published \/ Release
           \/ PingAnswered \/ Deliver \/ HandlerReturns \/ Tick \/ LinkFails \/ NetworkReconnect
  BY <1>1, <1>4 DEF DropAck, Connected, Subscribed, Unsubscribed, Published, Release,
     PingAnswered, Deliver, HandlerReturns, Tick, LinkFails, NetworkReconnect, ledger
<1>5. CASE Broker
  BY <1>1, <1>5 DEF Broker, BrokerConnect, BrokerSubscribe, BrokerUnsubscribe,
     BrokerTakesPublish, BrokerCompletes, BrokerTakesAck, BrokerReleases, BrokerPongs,
     BrokerDisconnect, BrokerPublish, BrokerRetries, BrokerReads, BrokerSends, ledger
<1> QED
  BY <1>2, <1>3, <1>4, <1>5 DEF Next, Cycle

\* Every step keeps each token with the publish that waits for it.
LEMMA OwnStep == TypeOK /\ TypeOK' /\ TokenInv /\ OwnInv /\ Next => OwnInv'
<1> SUFFICES ASSUME TypeOK, TypeOK', TokenInv, OwnInv, Next PROVE OwnInv'
  OBVIOUS
<1>1. WireOK /\ WireOK' /\ CallsOK
  BY DEF TypeOK
<1>2. toBroker \in Seq(ToBroker) /\ toClient \in Seq(ToClient)
  BY <1>1 DEF WireOK
<1>3. UNCHANGED toBroker \/ toBroker' = << >> => OutKept
  BY <1>1, <1>2, ShrinksSame, OutShrinks
<1>4. UNCHANGED toClient \/ toClient' = << >> => InKept
  BY <1>1, <1>2, ShrinksSame, InShrinks
<1>5. \A p \in ToBroker : p.type \notin OutToken /\ toBroker' = Append(toBroker, p) => OutKept
  BY <1>1, <1>2, ShrinksAppend, OutShrinks
<1>6. \A p \in ToClient : p.type \notin InToken /\ toClient' = Append(toClient, p) => InKept
  BY <1>1, <1>2, ShrinksAppend, InShrinks
<1>7. toClient # << >> /\ toClient' = Tail(toClient) => InKept
  BY <1>1, <1>2, ShrinksTail, InShrinks
<1>8. toBroker # << >> /\ toBroker' = Tail(toBroker) => OutKept
  BY <1>1, <1>2, ShrinksTail, OutShrinks
<1>9. Orderly' => Orderly
  BY OrderlyBefore
<1>10. UNCHANGED calls => SameWaiting
  BY SameStack DEF calls
<1>11. CASE MQTTConnect \/ MQTTYield \/ MQTTDisconnect
  <2>1. OutKept /\ InKept
    BY <1>3, <1>4, <1>5, <1>11, ToBrokerType
    DEF MQTTConnect, MQTTYield, MQTTDisconnect, Send, wire, OutToken
  <2>2. SameWaiting
    BY <1>1, <1>10, <1>11, SameEnter DEF MQTTConnect, MQTTYield, MQTTDisconnect, Send
  <2> QED
    BY <1>9, <1>11, <2>1, <2>2, OwnKept DEF MQTTConnect, MQTTYield, MQTTDisconnect, ledger
<1>12. ASSUME NEW t \in Topics, MQTTSubscribe(t) \/ MQTTUnsubscribe(t) PROVE OwnInv'
  <2>1. OutKept /\ InKept
    BY <1>3, <1>4, <1>5, <1>12, ToBrokerType DEF MQTTSubscribe, MQTTUnsubscribe, Send, OutToken
  <2>2. SameWaiting
    BY <1>1, <1>10, <1>12, SameEnter DEF MQTTSubscribe, MQTTUnsubscribe, Send
  <2> QED
    BY <1>9, <1>12, <2>1, <2>2, OwnKept DEF MQTTSubscribe, MQTTUnsubscribe, ledger
<1>13. ASSUME NEW qos \in PublishQoS, MQTTPublish(qos) PROVE OwnInv'
  <2> DEFINE pub == MaxPublishes - budget.publish + 1
             packet == [type |-> "PUBLISH", qos |-> qos,
                        id |-> IF qos = 0 THEN 0 ELSE getNextPacketId, pub |-> pub]
             f == Call("publish", NoTopic, pub, qos, getNextPacketId)
  <2>1. /\ InKept /\ UNCHANGED backing
        /\ \/ UNCHANGED <<toBroker, calls>>
           \/ qos = 0 /\ UNCHANGED calls /\ toBroker' = Append(toBroker, packet)
           \/ qos # 0 /\ Enter(f) /\ toBroker' = Append(toBroker, packet)
        /\ qos # 0 /\ ~overlapped' => \A i \in 1..Len(stack) : stack[i].op # "publish"
    BY <1>4, <1>13 DEF MQTTPublish, Send
  <2>2. /\ f.op = "publish" /\ packet.pub = f.pub
        /\ qos = 0 => Unanswered(packet)
    BY DEF Call, Unanswered
  <2> HIDE DEF packet, f
  <2>3. CASE UNCHANGED <<toBroker, calls>>
    BY <1>3, <1>9, <1>10, <2>1, <2>3, OwnKept
  <2>4. CASE qos = 0 /\ UNCHANGED calls /\ toBroker' = Append(toBroker, packet)
    BY <1>1, <1>9, <1>10, <2>1, <2>2, <2>4, OutAppend, OwnUnanswered
  <2>5. CASE qos # 0 /\ Enter(f) /\ toBroker' = Append(toBroker, packet)
    <3>1. Orderly' => Waiting = {}
      BY <2>1, <2>5 DEF Orderly, Waiting
    <3> QED
      BY <1>1, <1>9, <2>1, <2>2, <2>5, <3>1, OutAppend, OwnMade
  <2> QED
    BY <2>1, <2>3, <2>4, <2>5
<1>14. CASE DropAck \/ Connected \/ Subscribed \/ Unsubscribed
  <2>1. OutKept /\ InKept
    BY <1>1, <1>7, <1>14, KeepaliveStep DEF DropAck, Connected, Subscribed, Unsubscribed, readPacket
  <2>2. SameWaiting
    BY <1>1, <1>10, <1>14, SameReturn
    DEF DropAck, Connected, Subscribed, Unsubscribed, readPacket, InCycle
  <2> QED
    BY <1>9, <1>14, <2>1, <2>2, OwnKept DEF DropAck, Connected, Subscribed, Unsubscribed, ledger
<1>15. CASE Published
  <2>1. OutKept
    BY <1>1, <1>15, KeepaliveStep DEF Published
  <2>2. /\ toClient # << >> /\ toClient' = Tail(toClient)
        /\ Head(toClient).type \in {"PUBACK", "PUBCOMP"}
        /\ backing' = backing \cup {<<Top.pub, Head(toClient).pub>>}
        /\ ~Idle /\ Top.op = "publish" /\ Return
    BY <1>15 DEF Published, readPacket, InCycle
  <2>3. InRead /\ toClient[1] = Head(toClient)
    BY <1>1, <2>2, InTail DEF InToken
  <2> QED
    BY <1>1, <1>9, <2>1, <2>2, <2>3, OwnSpent
<1>16. CASE Release
  <2> DEFINE packet == [type |-> "PUBREL", id |-> Head(toClient).id, pub |-> Head(toClient).pub]
  <2>1. /\ toClient # << >> /\ toClient' = Tail(toClient) /\ Head(toClient).type = "PUBREC"
        /\ ~Idle /\ UNCHANGED backing
        /\ \/ toBroker' = Append(toBroker, packet) /\ UNCHANGED calls
           \/ (CycleFails \/ TimeRunsOut) /\ UNCHANGED toBroker
    BY <1>16 DEF Release, readPacket, InCycle, ledger
  <2>2. InRead /\ toClient[1] = Head(toClient)
    BY <1>1, <2>1, InTail DEF InToken
  <2>3. packet.pub = toClient[1].pub
    BY <2>2
  <2> HIDE DEF packet
  <2>4. CASE (CycleFails \/ TimeRunsOut) /\ UNCHANGED toBroker
    <3>1. SameWaiting
      BY <1>1, <1>10, <2>1, <2>4, SameReturn, SameTimeRunsOut DEF CycleFails
    <3> QED
      BY <1>3, <1>7, <1>9, <2>1, <2>4, <3>1, OwnKept
  <2>5. CASE toBroker' = Append(toBroker, packet) /\ UNCHANGED calls
    BY <1>1, <1>9, <1>10, <2>1, <2>2, <2>3, <2>5, OutAppend, OwnReleased
  <2> QED
    BY <2>1, <2>4, <2>5
<1>17. CASE PingAnswered
  <2>1. OutKept /\ InKept
    BY <1>3, <1>5, <1>7, <1>17, ToBrokerType DEF PingAnswered, readPacket, OutToken
  <2> QED
    BY <1>9, <1>10, <1>17, <2>1, OwnKept DEF PingAnswered, ledger
<1>18. CASE TimedOut
  <2>1. CASE Top.op = "publish"
    <3>1. ~Orderly'
      BY <1>18, <2>1 DEF TimedOut, Orderly
    <3> QED
      BY <3>1 DEF OwnInv
  <2>2. CASE Top.op # "publish"
    <3>1. OutKept /\ InKept /\ UNCHANGED backing
      BY <1>1, <1>4, <1>18, KeepaliveStep DEF TimedOut
    <3>2. SameWaiting
      BY <1>1, <1>18, <2>2, SameReturn DEF TimedOut, InCycle
    <3> QED
      BY <1>9, <3>1, <3>2, OwnKept
  <2> QED
    BY <2>1, <2>2
<1>19. CASE Deliver \/ HandlerReturns
  <2>1. \A m \in Messages : Acknowledge(m) => OutKept
    BY <1>1, <1>3, <1>5, ToBrokerType, KeepaliveStep DEF Acknowledge, OutToken
  <2>2. \A m, slot, bytes : RunHandler(m, slot, bytes) => OutKept
    BY <1>3 DEF RunHandler
  <2>3. ~Idle /\ UNCHANGED backing
    BY <1>19 DEF Deliver, HandlerReturns, readPacket, InCycle, InHandler, ledger
  <2>4. SameWaiting
    BY <1>1, <1>19, <2>3, SameDelivery, SameAcknowledge, SameTimeRunsOut
    DEF Deliver, HandlerReturns, RunHandler
  <2>5. CASE Deliver
    <3>1. Head(toClient).msg \in Messages
      BY <1>2, <2>5, FromBrokerType DEF Deliver, readPacket
    <3>2. OutKept /\ InKept
      BY <1>3, <1>7, <2>1, <2>2, <2>5, <3>1 DEF Deliver, readPacket
    <3> QED
      BY <1>9, <2>3, <2>4, <3>2, OwnKept
  <2>6. CASE HandlerReturns
    <3>1. Top.msg \in Messages
      BY <1>1, <2>6, TopType DEF HandlerReturns, InHandler
    <3>2. OutKept /\ InKept
      BY <1>4, <2>1, <2>2, <2>6, <3>1 DEF HandlerReturns
    <3> QED
      BY <1>9, <2>3, <2>4, <3>2, OwnKept
  <2> QED
    BY <1>19, <2>5, <2>6
<1>20. CASE Tick \/ NetworkReconnect
  <2>1. OutKept /\ InKept /\ SameWaiting
    BY <1>3, <1>4, <1>10, <1>20, SameStack DEF Tick, NetworkReconnect, wire
  <2> QED
    BY <1>9, <1>20, <2>1, OwnKept DEF Tick, NetworkReconnect, ledger
<1>21. CASE LinkFails
  <2>1. PICK k \in 0..Len(toClient) : toClient' = SubSeq(toClient, 1, k)
    BY <1>21 DEF LinkFails
  <2>2. InKept
    BY <1>1, <1>2, <2>1, ShrinksPrefix, InShrinks
  <2> QED
    BY <1>3, <1>9, <1>10, <1>21, <2>2, OwnKept DEF LinkFails, ledger
<1>22. CASE BrokerTakesPublish \/ BrokerCompletes
  <2>1. /\ toBroker # << >> /\ toBroker' = Tail(toBroker) /\ Head(toBroker).type \in OutToken
        /\ UNCHANGED <<calls, backing>>
    BY <1>22 DEF BrokerTakesPublish, BrokerCompletes, BrokerReads, OutToken
  <2>2. OutRead /\ toBroker[1] = Head(toBroker)
    BY <1>1, <2>1, OutTail
  <2>3. CASE BrokerTakesPublish /\ Head(toBroker).qos = 0
    <3>1. UNCHANGED toClient
      BY <2>3 DEF BrokerTakesPublish
    <3> QED
      BY <1>4, <1>8, <1>9, <1>10, <2>1, <3>1, OwnKept
  <2>4. CASE BrokerCompletes \/ (BrokerTakesPublish /\ Head(toBroker).qos # 0)
    <3>1. ~Unanswered(toBroker[1])
      BY <2>2, <2>4 DEF BrokerCompletes, BrokerReads, Unanswered
    <3>2. \E type : toClient' = Append(toClient, [type |-> type, id |-> Head(toBroker).id,
                                                  pub |-> Head(toBroker).pub])
      BY <2>4 DEF BrokerCompletes, BrokerTakesPublish, Reply
    <3>3. PICK type : toClient' = Append(toClient, [type |-> type, id |-> Head(toBroker).id,
                                                    pub |-> Head(toBroker).pub])
      BY <3>2
    <3> DEFINE q == [type |-> type, id |-> Head(toBroker).id, pub |-> Head(toBroker).pub]
    <3>4. q.pub = toBroker[1].pub /\ toClient' = Append(toClient, q)
      BY <2>2, <3>3
    <3> HIDE DEF q
    <3> QED
      BY <1>1, <1>9, <1>10, <2>1, <2>2, <3>1, <3>4, InAppend, OwnAnswered
  <2> QED
    BY <1>22, <2>3, <2>4
<1>23. CASE \/ BrokerConnect \/ BrokerSubscribe \/ BrokerUnsubscribe \/ BrokerTakesAck
            \/ BrokerReleases \/ BrokerPongs \/ BrokerDisconnect
  <2>1. OutKept /\ UNCHANGED <<calls, backing>>
    BY <1>8, <1>23 DEF BrokerConnect, BrokerSubscribe, BrokerUnsubscribe, BrokerTakesAck,
       BrokerReleases, BrokerPongs, BrokerDisconnect, BrokerReads
  <2>2. BrokerReleases => Head(toBroker).msg \in Messages
    BY <1>2, FromClientType DEF BrokerReleases, BrokerReads
  <2>3. InKept
    BY <1>4, <1>6, <1>23, <2>2, ToClientType
    DEF BrokerConnect, BrokerSubscribe, BrokerUnsubscribe, BrokerTakesAck,
        BrokerReleases, BrokerPongs, BrokerDisconnect, Reply, InToken
  <2> QED
    BY <1>9, <1>10, <2>1, <2>3, OwnKept
<1>24. ASSUME NEW m \in Messages, BrokerPublish(m) \/ BrokerRetries(m) PROVE OwnInv'
  <2>1. InKept
    BY <1>6, <1>24, ToClientType DEF BrokerPublish, BrokerRetries, BrokerSends, Reply, InToken
  <2> QED
    BY <1>3, <1>9, <1>10, <1>24, <2>1, OwnKept DEF BrokerPublish, BrokerRetries, BrokerSends, ledger
<1> QED
  BY <1>11, <1>12, <1>13, <1>14, <1>15, <1>16, <1>17, <1>18, <1>19, <1>20, <1>21, <1>22,
     <1>23, <1>24 DEF Next, App, Cycle, Broker

\* With the ledger, one more step of the induction: the system may also stand still.
LEMMA OwnNext == LedgerInv /\ LedgerInv' /\ OwnInv /\ [Next]_vars => OwnInv'
<1> SUFFICES ASSUME LedgerInv, LedgerInv', OwnInv, [Next]_vars PROVE OwnInv'
  OBVIOUS
<1>1. CASE Next
  BY <1>1, OwnStep DEF LedgerInv
<1>2. CASE UNCHANGED vars
  BY <1>2 DEF vars, calls, wire, ledger, OwnInv, Orderly, Alone, OwnOut, OwnIn, OwnAck, Own,
     Waiting, Out, In, Unanswered
<1> QED
  BY <1>1, <1>2

\* Although MQTTPublish does not compare packet ids, it returns SUCCESS on its own
\* acknowledgement as long as no publish is made while another waits and none fails.
THEOREM OwnAckCorrect == Spec => []OwnAckUnlessNestedOrFailed
<1>1. Init => OwnInv
  BY DEF Init, OwnInv, Alone, OwnOut, OwnIn, OwnAck, Waiting, Out, In
<1>2. OwnInv => OwnAckUnlessNestedOrFailed
  BY DEF OwnInv, Orderly, OwnAck, OwnAckUnlessNestedOrFailed
<1> QED
  BY <1>1, <1>2, LedgerCorrect, OwnNext, PTL DEF Spec

-----------------------------------------------------------------------------
(* One request, one answer.                                                  *)

Of(s, type) == {i \in 1..Len(s) : s[i].type = type}

\* Among packets to the broker and to the client, one request or one answer at most.
Single(out, in, request, answer) ==
    /\ \A i, j \in Of(out, request) : i = j
    /\ \A i, j \in Of(in, answer) : i = j
    /\ Of(out, request) = {} \/ Of(in, answer) = {}

Nothing(out, in, request, answer) == Of(out, request) = {} /\ Of(in, answer) = {}

\* Where there is nothing, there is not more than one.
LEMMA NothingSingle ==
    ASSUME NEW out, NEW in, NEW request, NEW answer, Nothing(out, in, request, answer)
    PROVE  Single(out, in, request, answer)
BY DEF Nothing, Single

\* Packets that are read or lost: those that remain were there.
LEMMA OfShrinks ==
    ASSUME NEW s, NEW t, NEW type, Shrinks(s, t, {type})
    PROVE  /\ \A i \in Of(t, type) : \E j \in Of(s, type) : t[i] = s[j]
           /\ (\A i, j \in Of(s, type) : i = j) => \A i, j \in Of(t, type) : i = j
<1>1. PICK d \in 0..1 : \A i \in 1..Len(t) :
        t[i].type \in {type} => i + d \in 1..Len(s) /\ t[i] = s[i + d]
  BY DEF Shrinks
<1>2. \A i \in Of(t, type) : i + d \in Of(s, type) /\ t[i] = s[i + d] /\ i \in Nat
  BY <1>1 DEF Of
<1>3. ASSUME \A i, j \in Of(s, type) : i = j, NEW i \in Of(t, type), NEW j \in Of(t, type)
      PROVE  i = j
  <2>1. i + d = j + d
    BY <1>2, <1>3
  <2> QED
    BY <1>2, <2>1
<1> QED
  BY <1>2, <1>3

\* Both directions shrink.
LEMMA SingleShrinks ==
    ASSUME NEW out, NEW out2, NEW in, NEW in2, NEW request, NEW answer,
           Shrinks(out, out2, {request}), Shrinks(in, in2, {answer})
    PROVE  /\ Single(out, in, request, answer) => Single(out2, in2, request, answer)
           /\ Nothing(out, in, request, answer) => Nothing(out2, in2, request, answer)
<1>1. /\ \A i \in Of(out2, request) : \E j \in Of(out, request) : out2[i] = out[j]
      /\ (\A i, j \in Of(out, request) : i = j) => \A i, j \in Of(out2, request) : i = j
  BY OfShrinks
<1>2. /\ \A i \in Of(in2, answer) : \E j \in Of(in, answer) : in2[i] = in[j]
      /\ (\A i, j \in Of(in, answer) : i = j) => \A i, j \in Of(in2, answer) : i = j
  BY OfShrinks
<1>3. /\ Of(out, request) = {} => Of(out2, request) = {}
      /\ Of(in, answer) = {} => Of(in2, answer) = {}
  BY <1>1, <1>2
<1> QED
  BY <1>1, <1>2, <1>3 DEF Single, Nothing

\* The answer is read: nothing is left.
LEMMA SingleRead ==
    ASSUME NEW S, NEW T, NEW out \in Seq(S), NEW in \in Seq(T), NEW request, NEW answer,
           Single(out, in, request, answer), in # << >>, Head(in).type = answer
    PROVE  Nothing(out, Tail(in), request, answer) /\ 1 \in Of(in, answer)
<1>1. 1 \in Of(in, answer)
  BY DEF Of
<1>2. \A i \in Of(Tail(in), answer) : i + 1 \in Of(in, answer) /\ i \in Nat \ {0}
  BY DEF Of
<1>3. Of(Tail(in), answer) = {}
  BY <1>1, <1>2 DEF Single
<1> QED
  BY <1>1, <1>3 DEF Single, Nothing

\* A request is written where there was nothing.
LEMMA SingleAsked ==
    ASSUME NEW S, NEW T, NEW out \in Seq(S), NEW in \in Seq(T), NEW request, NEW answer, NEW p,
           Nothing(out, in, request, answer)
    PROVE  Single(Append(out, p), in, request, answer)
<1>1. \A i \in Of(Append(out, p), request) :
         \/ i \in Of(out, request)
         \/ i = Len(out) + 1
  BY DEF Of
<1> QED
  BY <1>1 DEF Single, Nothing

\* A request is read and answered.
LEMMA SingleAnswered ==
    ASSUME NEW S, NEW T, NEW out \in Seq(S), NEW in \in Seq(T), NEW request, NEW answer, NEW q,
           Single(out, in, request, answer), out # << >>, Head(out).type = request
    PROVE  /\ Single(Tail(out), Append(in, q), request, answer)
           /\ Of(Tail(out), request) = {}
           /\ 1 \in Of(out, request)
<1>1. 1 \in Of(out, request)
  BY DEF Of
<1>2. \A i \in Of(Tail(out), request) : i + 1 \in Of(out, request) /\ i \in Nat \ {0}
  BY DEF Of
<1>3. Of(Tail(out), request) = {} /\ Of(in, answer) = {}
  BY <1>1, <1>2 DEF Single
<1>4. \A i \in Of(Append(in, q), answer) :
         \/ i \in Of(in, answer)
         \/ i = Len(in) + 1
  BY DEF Of
<1> QED
  BY <1>1, <1>3, <1>4 DEF Single

\* What a step may do to one direction without adding a packet of a type.
LEMMA QuietOut ==
    ASSUME WireOK, NEW type
    PROVE  /\ UNCHANGED toBroker => Shrinks(toBroker, toBroker', {type})
           /\ toBroker' = << >> => Shrinks(toBroker, toBroker', {type})
           /\ \A p : p.type # type /\ toBroker' = Append(toBroker, p)
                     => Shrinks(toBroker, toBroker', {type})
           /\ toBroker # << >> /\ toBroker' = Tail(toBroker) => Shrinks(toBroker, toBroker', {type})
<1>1. toBroker \in Seq(ToBroker)
  BY DEF WireOK
<1>2. \A p : p.type # type => p.type \notin {type}
  OBVIOUS
<1> QED
  BY <1>1, <1>2, ShrinksSame, ShrinksAppend, ShrinksTail

\* The same of the other direction, where a lost connection cuts off the end.
LEMMA QuietIn ==
    ASSUME WireOK, NEW type
    PROVE  /\ UNCHANGED toClient => Shrinks(toClient, toClient', {type})
           /\ toClient' = << >> => Shrinks(toClient, toClient', {type})
           /\ \A p : p.type # type /\ toClient' = Append(toClient, p)
                     => Shrinks(toClient, toClient', {type})
           /\ toClient # << >> /\ toClient' = Tail(toClient) => Shrinks(toClient, toClient', {type})
           /\ \A k \in 0..Len(toClient) : toClient' = SubSeq(toClient, 1, k)
                     => Shrinks(toClient, toClient', {type})
<1>1. toClient \in Seq(ToClient)
  BY DEF WireOK
<1>2. \A p : p.type # type => p.type \notin {type}
  OBVIOUS
<1> QED
  BY <1>1, <1>2, ShrinksSame, ShrinksAppend, ShrinksTail, ShrinksPrefix

\* Neither a request nor an answer of one kind is added.
Quiet(request, answer) ==
    Shrinks(toBroker, toBroker', {request}) /\ Shrinks(toClient, toClient', {answer})

\* The application's calls add no answer, and but for MQTTSubscribe no request.
LEMMA AppQuiet ==
    ASSUME TypeOK, App, NEW request \in {"SUBSCRIBE", "PINGREQ"}, NEW answer,
           request = "SUBSCRIBE" => \A t \in Topics : ~MQTTSubscribe(t)
    PROVE  Quiet(request, answer)
<1>1. /\ UNCHANGED toBroker => Shrinks(toBroker, toBroker', {request})
      /\ \A p : p.type # request /\ toBroker' = Append(toBroker, p)
               => Shrinks(toBroker, toBroker', {request})
      /\ UNCHANGED toClient => Shrinks(toClient, toClient', {answer})
  BY QuietOut, QuietIn DEF TypeOK
<1>2. CASE MQTTConnect \/ MQTTYield \/ MQTTDisconnect
  BY <1>1, <1>2 DEF MQTTConnect, MQTTYield, MQTTDisconnect, Send, wire, Quiet
<1>3. ASSUME NEW t \in Topics, MQTTSubscribe(t) \/ MQTTUnsubscribe(t) PROVE Quiet(request, answer)
  BY <1>1, <1>3 DEF MQTTSubscribe, MQTTUnsubscribe, Send, Quiet
<1>4. ASSUME NEW qos \in PublishQoS, MQTTPublish(qos) PROVE Quiet(request, answer)
  <2> DEFINE packet == [type |-> "PUBLISH", qos |-> qos,
                        id |-> IF qos = 0 THEN 0 ELSE getNextPacketId,
                        pub |-> MaxPublishes - budget.publish + 1]
  <2>1. toBroker' = toBroker \/ toBroker' = Append(toBroker, packet)
    BY <1>4 DEF MQTTPublish, Send
  <2>2. packet.type # request /\ toClient' = toClient
    BY <1>4 DEF MQTTPublish
  <2> HIDE DEF packet
  <2> QED
    BY <1>1, <2>1, <2>2 DEF Quiet
<1> QED
  BY <1>2, <1>3, <1>4 DEF App

\* What a cycle() does to the requests, its keepalive() with them.
PingStep ==
    \/ keepalive
    \/ UNCHANGED ping_outstanding /\ Shrinks(toBroker, toBroker', {"PINGREQ"})

\* cycle() and the end of a handler read one packet, and write a ping at most.
LEMMA CycleQuiet ==
    ASSUME TypeOK, Cycle \/ HandlerReturns
    PROVE  /\ Quiet("SUBSCRIBE", "SUBACK")
           /\ Shrinks(toClient, toClient', {"PINGRESP"})
           /\ PingStep \/ PingAnswered
<1> DEFINE Reads == /\ Shrinks(toClient, toClient', {"SUBACK"})
                    /\ Shrinks(toClient, toClient', {"PINGRESP"})
           NoSubscribe == Shrinks(toBroker, toBroker', {"SUBSCRIBE"})
           NoPing == Shrinks(toBroker, toBroker', {"PINGREQ"})
<1>1. /\ UNCHANGED toBroker => NoSubscribe /\ NoPing
      /\ \A p : p.type # "SUBSCRIBE" /\ toBroker' = Append(toBroker, p) => NoSubscribe
      /\ \A p : p.type # "PINGREQ" /\ toBroker' = Append(toBroker, p) => NoPing
  BY QuietOut DEF TypeOK
<1>2. /\ UNCHANGED toClient => Reads
      /\ toClient # << >> /\ toClient' = Tail(toClient) => Reads
  BY QuietIn DEF TypeOK
<1>3. keepalive => NoSubscribe
  BY <1>1 DEF keepalive
<1>4. Quiet("SUBSCRIBE", "SUBACK") /\ Shrinks(toClient, toClient', {"PINGRESP"}) <=> NoSubscribe /\ Reads
  BY DEF Quiet
<1>5. PingStep <=> keepalive \/ (UNCHANGED ping_outstanding /\ NoPing)
  BY DEF PingStep
<1> HIDE DEF Reads, NoSubscribe, NoPing
<1>6. CASE DropAck \/ Connected \/ Subscribed \/ Unsubscribed \/ Published \/ TimedOut
  BY <1>2, <1>3, <1>6, <1>4, <1>5 DEF DropAck, Connected, Subscribed, Unsubscribed, Published,
     TimedOut, readPacket
<1>7. CASE PingAnswered
  BY <1>1, <1>2, <1>7, <1>4 DEF PingAnswered, readPacket
<1>8. CASE Release
  <2> DEFINE packet == [type |-> "PUBREL", id |-> Head(toClient).id, pub |-> Head(toClient).pub]
  <2>1. /\ toBroker' = toBroker \/ toBroker' = Append(toBroker, packet)
        /\ toClient # << >> /\ toClient' = Tail(toClient) /\ UNCHANGED ping_outstanding
    BY <1>8 DEF Release, readPacket, client
  <2>2. packet.type = "PUBREL"
    OBVIOUS
  <2> HIDE DEF packet
  <2> QED
    BY <1>1, <1>2, <1>4, <1>5, <2>1, <2>2
<1>9. \A m : Acknowledge(m) => PingStep /\ NoSubscribe
  <2> SUFFICES ASSUME NEW m, Acknowledge(m)
               PROVE  PingStep /\ NoSubscribe
    OBVIOUS
  <2> DEFINE packet == [type |-> IF QoSOf[m] = 1 THEN "PUBACK" ELSE "PUBREC", msg |-> m]
  <2>1. \/ keepalive
        \/ UNCHANGED ping_outstanding /\ (toBroker' = toBroker \/ toBroker' = Append(toBroker, packet))
    BY DEF Acknowledge
  <2>2. packet.type # "SUBSCRIBE" /\ packet.type # "PINGREQ"
    OBVIOUS
  <2> HIDE DEF packet
  <2> QED
    BY <1>1, <1>3, <1>5, <2>1, <2>2
<1>10. \A m, slot, bytes : RunHandler(m, slot, bytes)
                              => PingStep /\ NoSubscribe
  BY <1>1, <1>5 DEF RunHandler
<1>11. CASE Deliver \/ HandlerReturns
  <2>1. PingStep /\ NoSubscribe
    BY <1>1, <1>5, <1>9, <1>10, <1>11 DEF Deliver, HandlerReturns
  <2> QED
    BY <1>2, <1>4, <1>11, <2>1 DEF Deliver, HandlerReturns, readPacket
<1> QED
  BY <1>6, <1>7, <1>8, <1>11 DEF Cycle

\* The network and the broker add no request, and answer a request only.
LEMMA OutsideQuiet ==
    ASSUME TypeOK, Tick \/ LinkFails \/ NetworkReconnect \/ Broker,
           NEW request \in {"SUBSCRIBE", "PINGREQ"},
           NEW answer \in {"SUBACK", "PINGRESP"},
           answer = "SUBACK" => ~BrokerSubscribe,
           answer = "PINGRESP" => ~BrokerPongs
    PROVE  Quiet(request, answer)
<1>1. /\ UNCHANGED toBroker => Shrinks(toBroker, toBroker', {request})
      /\ toBroker' = << >> => Shrinks(toBroker, toBroker', {request})
      /\ toBroker # << >> /\ toBroker' = Tail(toBroker) => Shrinks(toBroker, toBroker', {request})
  BY QuietOut DEF TypeOK
<1>2. /\ UNCHANGED toClient => Shrinks(toClient, toClient', {answer})
      /\ toClient' = << >> => Shrinks(toClient, toClient', {answer})
      /\ \A p : p.type # answer /\ toClient' = Append(toClient, p)
               => Shrinks(toClient, toClient', {answer})
      /\ \A k \in 0..Len(toClient) : toClient' = SubSeq(toClient, 1, k)
               => Shrinks(toClient, toClient', {answer})
  BY QuietIn DEF TypeOK
<1>3. CASE Tick \/ LinkFails \/ NetworkReconnect
  BY <1>1, <1>2, <1>3 DEF Tick, LinkFails, NetworkReconnect, wire, Quiet
<1>4. CASE \/ BrokerConnect \/ BrokerSubscribe \/ BrokerUnsubscribe \/ BrokerTakesAck
           \/ BrokerReleases \/ BrokerPongs \/ BrokerDisconnect
  <2>1. Shrinks(toBroker, toBroker', {request})
    BY <1>1, <1>4 DEF BrokerConnect, BrokerSubscribe, BrokerUnsubscribe, BrokerTakesAck,
       BrokerReleases, BrokerPongs, BrokerDisconnect, BrokerReads
  <2>2. Shrinks(toClient, toClient', {answer})
    BY <1>2, <1>4 DEF BrokerConnect, BrokerSubscribe, BrokerUnsubscribe, BrokerTakesAck,
       BrokerReleases, BrokerPongs, BrokerDisconnect, Reply
  <2> QED
    BY <2>1, <2>2 DEF Quiet
<1>5. CASE BrokerTakesPublish \/ BrokerCompletes
  <2>1. Shrinks(toBroker, toBroker', {request})
    BY <1>1, <1>5 DEF BrokerTakesPublish, BrokerCompletes, BrokerReads
  <2>2. ASSUME NEW type, NEW q, q = [type |-> type, id |-> Head(toBroker).id, pub |-> Head(toBroker).pub],
               type # answer, toClient' = Append(toClient, q)
        PROVE  Shrinks(toClient, toClient', {answer})
    <3>1. q.type # answer
      BY <2>2
    <3> QED
      BY <1>2, <2>2, <3>1
  <2>3. \/ UNCHANGED toClient
        \/ \E type \in {"PUBACK", "PUBREC", "PUBCOMP"} :
             toClient' = Append(toClient, [type |-> type, id |-> Head(toBroker).id,
                                           pub |-> Head(toBroker).pub])
    BY <1>5 DEF BrokerTakesPublish, BrokerCompletes, Reply
  <2>4. Shrinks(toClient, toClient', {answer})
    BY <1>2, <2>2, <2>3
  <2> QED
    BY <2>1, <2>4 DEF Quiet
<1>6. ASSUME NEW m \in Messages, BrokerPublish(m) \/ BrokerRetries(m) PROVE Quiet(request, answer)
  <2>1. \E dup : toClient' = Append(toClient, [type |-> "PUBLISH", msg |-> m, dup |-> dup])
    BY <1>6 DEF BrokerPublish, BrokerRetries, BrokerSends, Reply
  <2>2. PICK dup : toClient' = Append(toClient, [type |-> "PUBLISH", msg |-> m, dup |-> dup])
    BY <2>1
  <2> DEFINE q == [type |-> "PUBLISH", msg |-> m, dup |-> dup]
  <2>3. q.type # answer /\ toClient' = Append(toClient, q)
    BY <2>2
  <2> HIDE DEF q
  <2>4. UNCHANGED toBroker
    BY <1>6 DEF BrokerPublish, BrokerRetries, BrokerSends
  <2> QED
    BY <1>1, <1>2, <2>3, <2>4 DEF Quiet
<1> QED
  BY <1>3, <1>4, <1>5, <1>6 DEF Broker

-----------------------------------------------------------------------------
(* Pings.                                                                    *)

\* The inductive invariant: one ping or one answer, and none that the flag denies.
PingInv ==
    /\ Single(toBroker, toClient, "PINGREQ", "PINGRESP")
    /\ ~ping_outstanding => Nothing(toBroker, toClient, "PINGREQ", "PINGRESP")

\* keepalive() after a read.
LEMMA PingKept ==
    ASSUME TypeOK, PingInv, Shrinks(toClient, toClient', {"PINGRESP"}), PingStep
    PROVE  PingInv'
<1>1. Single(toBroker, toClient, "PINGREQ", "PINGRESP") /\ WireOK
  BY DEF PingInv, TypeOK
<1>2. CASE UNCHANGED ping_outstanding /\ Shrinks(toBroker, toBroker', {"PINGREQ"})
  <2>1. /\ Single(toBroker', toClient', "PINGREQ", "PINGRESP")
        /\ Nothing(toBroker, toClient, "PINGREQ", "PINGRESP")
              => Nothing(toBroker', toClient', "PINGREQ", "PINGRESP")
    BY <1>1, <1>2, SingleShrinks
  <2> QED
    BY <1>2, <2>1 DEF PingInv
<1>3. CASE ~ping_outstanding /\ ping_outstanding'
           /\ toBroker' = Append(toBroker, [type |-> "PINGREQ"])
  <2>1. Nothing(toBroker, toClient, "PINGREQ", "PINGRESP")
    BY <1>3 DEF PingInv
  <2>2. Shrinks(toBroker, toBroker, {"PINGREQ"})
    BY <1>1, ShrinksSame DEF WireOK
  <2>3. Nothing(toBroker, toClient', "PINGREQ", "PINGRESP")
    BY <2>1, <2>2, SingleShrinks
  <2>4. \A i \in Of(Append(toBroker, [type |-> "PINGREQ"]), "PINGREQ") : i = Len(toBroker) + 1
    BY <1>1, <2>3 DEF Of, Nothing, WireOK
  <2>5. Single(toBroker', toClient', "PINGREQ", "PINGRESP")
    BY <1>3, <2>3, <2>4 DEF Single, Nothing
  <2> QED
    BY <1>3, <2>5 DEF PingInv
<1>4. keepalive => \/ UNCHANGED <<ping_outstanding, toBroker>>
                   \/ ~ping_outstanding /\ ping_outstanding'
                      /\ toBroker' = Append(toBroker, [type |-> "PINGREQ"])
  BY DEF keepalive
<1>5. UNCHANGED toBroker => Shrinks(toBroker, toBroker', {"PINGREQ"})
  BY <1>1, QuietOut
<1> QED
  BY <1>2, <1>3, <1>4, <1>5 DEF PingStep

\* Every step keeps PingInv: a ping is written where there is none, answered once, and
\* its answer is the only one when it is read.
LEMMA PingNext == TypeOK /\ TypeOK' /\ PingInv /\ [Next]_vars => PingInv'
<1> SUFFICES ASSUME TypeOK, TypeOK', PingInv, [Next]_vars PROVE PingInv'
  OBVIOUS
<1>1. /\ toBroker \in Seq(ToBroker) /\ toClient \in Seq(ToClient)
      /\ Single(toBroker, toClient, "PINGREQ", "PINGRESP")
  BY DEF TypeOK, WireOK, PingInv
<1>2. UNCHANGED ping_outstanding /\ Quiet("PINGREQ", "PINGRESP") => PingInv'
  BY PingKept DEF Quiet, PingStep
<1>3. CASE App
  <2>1. UNCHANGED ping_outstanding
    BY <1>3 DEF App, MQTTConnect, MQTTYield, MQTTDisconnect, MQTTSubscribe, MQTTUnsubscribe,
       MQTTPublish, client
  <2> QED
    BY <1>2, <1>3, <2>1, AppQuiet
<1>4. CASE PingAnswered
  <2>1. toClient # << >> /\ Head(toClient).type = "PINGRESP" /\ toClient' = Tail(toClient)
    BY <1>4 DEF PingAnswered, readPacket
  <2>2. Nothing(toBroker, toClient', "PINGREQ", "PINGRESP")
    BY <1>1, <2>1, SingleRead
  <2>3. CASE ~ping_outstanding' /\ UNCHANGED toBroker
    BY <2>2, <2>3, NothingSingle DEF PingInv
  <2>4. CASE ping_outstanding' /\ toBroker' = Append(toBroker, [type |-> "PINGREQ"])
    <3>1. toClient' \in Seq(ToClient)
      BY DEF TypeOK, WireOK
    <3>2. Single(toBroker', toClient', "PINGREQ", "PINGRESP")
      BY <1>1, <2>2, <2>4, <3>1, SingleAsked
    <3> QED
      BY <2>4, <3>2 DEF PingInv
  <2> QED
    BY <1>4, <2>3, <2>4 DEF PingAnswered
<1>5. CASE (Cycle \/ HandlerReturns) /\ ~PingAnswered
  BY <1>5, CycleQuiet, PingKept
<1>6. CASE BrokerPongs
  <2>1. /\ toBroker # << >> /\ Head(toBroker).type = "PINGREQ" /\ toBroker' = Tail(toBroker)
        /\ toClient' = Append(toClient, [type |-> "PINGRESP"]) /\ UNCHANGED ping_outstanding
    BY <1>6 DEF BrokerPongs, BrokerReads, Reply, client
  <2>2. /\ Single(toBroker', toClient', "PINGREQ", "PINGRESP")
        /\ 1 \in Of(toBroker, "PINGREQ")
    BY <1>1, <2>1, SingleAnswered
  <2>3. ping_outstanding
    BY <2>2 DEF PingInv, Nothing
  <2> QED
    BY <2>1, <2>2, <2>3 DEF PingInv
<1>7. CASE (Tick \/ LinkFails \/ NetworkReconnect \/ Broker) /\ ~BrokerPongs
  <2>1. UNCHANGED ping_outstanding
    BY <1>7 DEF Tick, LinkFails, NetworkReconnect, Broker, BrokerConnect, BrokerSubscribe,
       BrokerUnsubscribe, BrokerTakesPublish, BrokerCompletes, BrokerTakesAck, BrokerReleases,
       BrokerDisconnect, BrokerPublish, BrokerRetries, BrokerReads, BrokerSends, client
  <2> QED
    BY <1>2, <1>7, <2>1, OutsideQuiet
<1>8. CASE UNCHANGED vars
  BY <1>8 DEF vars, client, wire, PingInv
<1> QED
  BY <1>3, <1>4, <1>5, <1>6, <1>7, <1>8 DEF Next

\* At most one ping is ever unanswered, and only while ping_outstanding says so.
THEOREM OnePingCorrect == Spec => []OnePing
<1>1. Init => PingInv
  BY DEF Init, PingInv, Single, Nothing, Of
<1>2. PingInv => OnePing
  <2> SUFFICES ASSUME PingInv PROVE OnePing
    OBVIOUS
  <2>1. Requested = Of(toBroker, "PINGREQ") /\ Answered = Of(toClient, "PINGRESP")
    BY DEF Requested, Answered, Of
  <2>2. \A S : (\A i, j \in S : i = j) => S = {} \/ \E i : S = {i}
    OBVIOUS
  <2>3. Cardinality({}) = 0 /\ \A i : Cardinality({i}) = 1
    BY FS_EmptySet, FS_Singleton
  <2>4. /\ Requested = {} \/ \E i : Requested = {i}
        /\ Answered = {} \/ \E i : Answered = {i}
        /\ Requested = {} \/ Answered = {}
    BY <2>1, <2>2 DEF PingInv, Single
  <2>5. /\ Cardinality(Requested) \in 0..1 /\ Cardinality(Answered) \in 0..1
        /\ Requested = {} => Cardinality(Requested) = 0
        /\ Answered = {} => Cardinality(Answered) = 0
    <3>1. \A S : S = {} \/ (\E i : S = {i}) => Cardinality(S) = 0 \/ Cardinality(S) = 1
      BY <2>3, Zenon
    <3>2. Cardinality(Requested) = 0 \/ Cardinality(Requested) = 1
      BY <2>4, <3>1, Zenon
    <3>3. Cardinality(Answered) = 0 \/ Cardinality(Answered) = 1
      BY <2>4, <3>1, Zenon
    <3>4. Requested = {} => Cardinality(Requested) = 0
      BY <2>3, Zenon
    <3>5. Answered = {} => Cardinality(Answered) = 0
      BY <2>3, Zenon
    <3> QED
      BY <3>2, <3>3, <3>4, <3>5
  <2>6. ~ping_outstanding => Requested = {} /\ Answered = {}
    BY <2>1 DEF PingInv, Nothing
  <2>7. PingsInFlight \in 0..1 /\ (~ping_outstanding => PingsInFlight = 0)
    BY <2>4, <2>5, <2>6 DEF PingsInFlight
  <2> QED
    BY <2>7 DEF OnePing
<1>3. TypeOK /\ PingInv /\ [Next]_vars => (TypeOK' => PingInv')
  BY PingNext
<1> QED
  BY <1>1, <1>2, <1>3, TypeCorrect, PTL DEF Spec

-----------------------------------------------------------------------------
(* Subscriptions.                                                            *)

\* MQTTSubscribe is called by the main loop only, so it waits at the bottom of the stack.
Subscribing == ~Idle /\ stack[1].op = "subscribe"
Nesting     == \A i \in 2..Len(stack) : stack[i].op = "publish"

\* While no subscribe has run out of time, what is in flight belongs to the one that
\* waits, and an answer that grants speaks of its topic.
SubscribeInv ==
    /\ Nesting
    /\ ~subscribeLate =>
        /\ Single(toBroker, toClient, "SUBSCRIBE", "SUBACK")
        /\ \A i \in Of(toBroker, "SUBSCRIBE") : Subscribing /\ toBroker[i].topic = stack[1].topic
        /\ \A i \in Of(toClient, "SUBACK") :
              Subscribing /\ (toClient[i].ok => stack[1].topic \in everGranted)
        /\ HandlerOnlyIfGranted

\* A subscribe that waits goes on waiting.
SameSubscribe == /\ Subscribing => Subscribing' /\ stack'[1].topic = stack[1].topic
                 /\ Nesting'

\* A call is made by the main loop, or a publish by a handler.
LEMMA SubscribeEnter ==
    ASSUME CallsOK, Nesting, NEW f, Enter(f), Idle \/ f.op = "publish"
    PROVE  SameSubscribe
BY DEF CallsOK, Nesting, Enter, Idle, SameSubscribe, Subscribing

\* A call returns that is no subscribe.
LEMMA SubscribeReturn ==
    ASSUME CallsOK, Nesting, ~Idle, Return
    PROVE  Nesting' /\ (Top.op # "subscribe" => SameSubscribe)
<1>1. stack \in Seq(Frame) /\ Len(stack) \in Nat \ {0} /\ Len(stack) - 1 \in 0..Len(stack)
  BY DEF CallsOK, Idle
<1>2. /\ Len(stack') = Len(stack) - 1
      /\ \A i \in 1..Len(stack') : stack'[i] = stack[i]
  BY <1>1, Prefix DEF Return, Pop
<1>3. Nesting'
  BY <1>1, <1>2 DEF Nesting
<1>4. ASSUME Subscribing, Top.op # "subscribe"
      PROVE  Subscribing' /\ stack'[1].topic = stack[1].topic
  <2>1. Len(stack) # 1
    BY <1>4 DEF Subscribing, Top
  <2>2. Len(stack') # 0 /\ stack'[1] = stack[1]
    BY <1>1, <1>2, <2>1
  <2> QED
    BY <1>4, <2>2 DEF Subscribing, Idle
<1> QED
  BY <1>3, <1>4 DEF SameSubscribe

\* A delivery begins, goes on or ends.
LEMMA SubscribeDelivery ==
    ASSUME CallsOK, Nesting, ~Idle, NEW m, NEW slot,
           stack' = [stack EXCEPT ![Len(stack)].msg = m, ![Len(stack)].slot = slot]
    PROVE  SameSubscribe
<1>1. stack \in Seq(Frame) /\ Len(stack) \in 1..Len(stack)
  BY DEF CallsOK, Idle
<1> DEFINE f == [Top EXCEPT !.msg = m, !.slot = slot]
<1>2. f.op = Top.op /\ f.topic = Top.topic
  BY TopType DEF Frame
<1>3. stack' = [stack EXCEPT ![Len(stack)] = f]
  BY <1>1 DEF Top
<1> HIDE DEF f
<1>4. /\ Len(stack') = Len(stack)
      /\ \A i \in 1..Len(stack) : stack'[i] = IF i = Len(stack) THEN f ELSE stack[i]
  BY <1>1, <1>3
<1>5. \A i \in 1..Len(stack) : stack'[i].op = stack[i].op /\ stack'[i].topic = stack[i].topic
  BY <1>2, <1>4 DEF Top
<1> QED
  BY <1>1, <1>4, <1>5 DEF SameSubscribe, Subscribing, Nesting, Idle

\* What is in flight stays or goes while the subscribe it belongs to waits.
LEMMA SubscribeKept ==
    ASSUME SubscribeInv, SameSubscribe, Quiet("SUBSCRIBE", "SUBACK"),
           subscribeLate \in BOOLEAN, subscribeLate => subscribeLate',
           UNCHANGED messageHandlers, everGranted \subseteq everGranted'
    PROVE  SubscribeInv'
<1> SUFFICES ASSUME ~subscribeLate'
             PROVE  /\ Single(toBroker', toClient', "SUBSCRIBE", "SUBACK")
                    /\ \A i \in Of(toBroker', "SUBSCRIBE") :
                          Subscribing' /\ toBroker'[i].topic = stack'[1].topic
                    /\ \A i \in Of(toClient', "SUBACK") :
                          Subscribing' /\ (toClient'[i].ok => stack'[1].topic \in everGranted')
                    /\ HandlerOnlyIfGranted'
  BY DEF SubscribeInv, SameSubscribe
<1>1. /\ Single(toBroker, toClient, "SUBSCRIBE", "SUBACK")
      /\ \A i \in Of(toBroker, "SUBSCRIBE") : Subscribing /\ toBroker[i].topic = stack[1].topic
      /\ \A i \in Of(toClient, "SUBACK") :
            Subscribing /\ (toClient[i].ok => stack[1].topic \in everGranted)
      /\ HandlerOnlyIfGranted /\ ~subscribeLate
  BY DEF SubscribeInv
<1>2. Single(toBroker', toClient', "SUBSCRIBE", "SUBACK")
  BY <1>1, SingleShrinks DEF Quiet
<1>3. \A i \in Of(toBroker', "SUBSCRIBE") : \E j \in Of(toBroker, "SUBSCRIBE") : toBroker'[i] = toBroker[j]
  BY OfShrinks DEF Quiet
<1>4. \A i \in Of(toClient', "SUBACK") : \E j \in Of(toClient, "SUBACK") : toClient'[i] = toClient[j]
  BY OfShrinks DEF Quiet
<1>5. HandlerOnlyIfGranted'
  BY <1>1 DEF HandlerOnlyIfGranted
<1> QED
  BY <1>1, <1>2, <1>3, <1>4, <1>5 DEF SameSubscribe

\* A subscribe is sent when nothing of an earlier one is in flight.
LEMMA SubscribeAsked ==
    ASSUME TypeOK, SubscribeInv, NEW t \in Topics, MQTTSubscribe(t)
    PROVE  SubscribeInv'
<1> DEFINE p == [type |-> "SUBSCRIBE", topic |-> t]
           f == Call("subscribe", t, 0, 0, getNextPacketId)
<1>1. /\ f.op = "subscribe" /\ f.topic = t /\ p.topic = t
      /\ Idle /\ UNCHANGED <<toClient, messageHandlers, subscribeLate, everGranted>>
      /\ \/ UNCHANGED <<toBroker, calls>>
         \/ toBroker' = Append(toBroker, p) /\ Enter(f)
  BY DEF MQTTSubscribe, Send, Call, grants
<1> HIDE DEF p, f
<1>2. toBroker \in Seq(ToBroker) /\ toClient \in Seq(ToClient) /\ CallsOK /\ FlagsOK
  BY DEF TypeOK, WireOK
<1>3. CASE UNCHANGED <<toBroker, calls>>
  BY <1>1, <1>3 DEF SubscribeInv, Nesting, Subscribing, Idle, HandlerOnlyIfGranted, calls
<1>4. CASE toBroker' = Append(toBroker, p) /\ Enter(f)
  <2>1. SameSubscribe /\ stack' = <<f>>
    BY <1>1, <1>2, <1>4, SubscribeEnter DEF SubscribeInv, Enter, Idle
  <2>2. Subscribing' /\ stack'[1].topic = t /\ Nesting'
    BY <1>1, <2>1 DEF Subscribing, Idle, SameSubscribe
  <2> SUFFICES ASSUME ~subscribeLate
               PROVE  /\ Single(toBroker', toClient', "SUBSCRIBE", "SUBACK")
                      /\ \A i \in Of(toBroker', "SUBSCRIBE") : toBroker'[i].topic = t
                      /\ Of(toClient', "SUBACK") = {}
                      /\ HandlerOnlyIfGranted'
    BY <1>1, <2>2 DEF SubscribeInv
  <2>3. Nothing(toBroker, toClient, "SUBSCRIBE", "SUBACK") /\ HandlerOnlyIfGranted
    BY <1>1 DEF SubscribeInv, Subscribing, Nothing
  <2>4. /\ Single(Append(toBroker, p), toClient, "SUBSCRIBE", "SUBACK")
        /\ Of(toClient, "SUBACK") = {}
        /\ \A i \in Of(Append(toBroker, p), "SUBSCRIBE") : Append(toBroker, p)[i] = p
    <3>1. Single(Append(toBroker, p), toClient, "SUBSCRIBE", "SUBACK")
      BY <1>2, <2>3, SingleAsked
    <3>2. \A i \in Of(Append(toBroker, p), "SUBSCRIBE") : Append(toBroker, p)[i] = p
      BY <1>2, <2>3 DEF Of, Nothing
    <3> QED
      BY <2>3, <3>1, <3>2 DEF Nothing
  <2> QED
    BY <1>1, <1>4, <2>3, <2>4 DEF HandlerOnlyIfGranted
<1> QED
  BY <1>1, <1>3, <1>4

\* The broker answers, and grants the topic of the subscribe that waits.
LEMMA SubscribeAnswered ==
    ASSUME TypeOK, SubscribeInv, BrokerSubscribe
    PROVE  SubscribeInv'
<1>1. PICK ok \in BOOLEAN :
        /\ granted' = IF ok THEN granted \cup {Head(toBroker).topic} ELSE granted
        /\ everGranted' = everGranted \cup granted'
        /\ toClient' = Append(toClient, [type |-> "SUBACK", ok |-> ok])
  BY DEF BrokerSubscribe, Reply
<1> DEFINE q == [type |-> "SUBACK", ok |-> ok]
<1>2. /\ toBroker # << >> /\ Head(toBroker).type = "SUBSCRIBE" /\ toBroker' = Tail(toBroker)
      /\ toClient' = Append(toClient, q) /\ q.ok = ok
      /\ UNCHANGED <<stack, messageHandlers, subscribeLate>>
  BY <1>1 DEF BrokerSubscribe, BrokerReads, calls, client
<1> HIDE DEF q
<1>3. toBroker \in Seq(ToBroker) /\ toClient \in Seq(ToClient)
  BY DEF TypeOK, WireOK
<1>4. Nesting'
  BY <1>2 DEF SubscribeInv, Nesting
<1> SUFFICES ASSUME ~subscribeLate
             PROVE  /\ Single(toBroker', toClient', "SUBSCRIBE", "SUBACK")
                    /\ Of(toBroker', "SUBSCRIBE") = {}
                    /\ \A i \in Of(toClient', "SUBACK") :
                          Subscribing' /\ (toClient'[i].ok => stack'[1].topic \in everGranted')
                    /\ HandlerOnlyIfGranted'
  BY <1>2, <1>4 DEF SubscribeInv
<1>5. Single(toBroker, toClient, "SUBSCRIBE", "SUBACK") /\ HandlerOnlyIfGranted
  BY DEF SubscribeInv
<1>6. /\ Single(Tail(toBroker), Append(toClient, q), "SUBSCRIBE", "SUBACK")
      /\ Of(Tail(toBroker), "SUBSCRIBE") = {}
      /\ 1 \in Of(toBroker, "SUBSCRIBE")
      /\ \A i \in Of(Append(toClient, q), "SUBACK") : Append(toClient, q)[i] = q
  <2>1. /\ Single(Tail(toBroker), Append(toClient, q), "SUBSCRIBE", "SUBACK")
        /\ Of(Tail(toBroker), "SUBSCRIBE") = {}
        /\ 1 \in Of(toBroker, "SUBSCRIBE")
    BY <1>2, <1>3, <1>5, SingleAnswered
  <2>2. Of(toClient, "SUBACK") = {}
    BY <1>5, <2>1 DEF Single
  <2>3. \A i \in Of(Append(toClient, q), "SUBACK") : Append(toClient, q)[i] = q
    BY <1>3, <2>2 DEF Of
  <2> QED
    BY <2>1, <2>3
<1>7. Subscribing /\ Head(toBroker).topic = stack[1].topic
  BY <1>2, <1>3, <1>6 DEF SubscribeInv
<1>8. Subscribing' /\ (ok => stack'[1].topic \in everGranted')
  BY <1>1, <1>2, <1>7 DEF Subscribing, Idle
<1>9. HandlerOnlyIfGranted'
  BY <1>1, <1>2, <1>5 DEF HandlerOnlyIfGranted
<1> QED
  BY <1>2, <1>6, <1>8, <1>9

\* The answer is read: it is the only one, and a granted topic gets its handler.
LEMMA SubscribeSettled ==
    ASSUME TypeOK, SubscribeInv, Subscribed
    PROVE  SubscribeInv'
<1>1. /\ ~Idle /\ Return /\ Top.op = "subscribe"
      /\ toClient # << >> /\ Head(toClient).type = "SUBACK" /\ toClient' = Tail(toClient)
      /\ UNCHANGED <<subscribeLate, everGranted>>
  BY DEF Subscribed, readPacket, InCycle, grants
<1>2. /\ toBroker \in Seq(ToBroker) /\ toClient \in Seq(ToClient)
      /\ CallsOK /\ messageHandlers \in [1..MAX_MESSAGE_HANDLERS -> Topics \cup {NoTopic}]
  BY DEF TypeOK, WireOK, ClientOK
<1>3. Nesting /\ Nesting'
  BY <1>1, <1>2, SubscribeReturn DEF SubscribeInv
<1>4. Shrinks(toBroker, toBroker', {"SUBSCRIBE"})
  BY CycleQuiet DEF Cycle, Quiet
<1> SUFFICES ASSUME ~subscribeLate
             PROVE  /\ Nothing(toBroker', toClient', "SUBSCRIBE", "SUBACK")
                    /\ HandlerOnlyIfGranted'
  BY <1>1, <1>3, NothingSingle DEF SubscribeInv, Nothing
<1>5. /\ Single(toBroker, toClient, "SUBSCRIBE", "SUBACK") /\ HandlerOnlyIfGranted
      /\ \A i \in Of(toClient, "SUBACK") :
            Subscribing /\ (toClient[i].ok => stack[1].topic \in everGranted)
  BY DEF SubscribeInv
<1>6. Nothing(toBroker, toClient', "SUBSCRIBE", "SUBACK") /\ 1 \in Of(toClient, "SUBACK")
  BY <1>1, <1>2, <1>5, SingleRead
<1>7. Nothing(toBroker', toClient', "SUBSCRIBE", "SUBACK")
  <2>1. \A i \in Of(toBroker', "SUBSCRIBE") : \E j \in Of(toBroker, "SUBSCRIBE") : toBroker'[i] = toBroker[j]
    BY <1>4, OfShrinks
  <2> QED
    BY <1>6, <2>1 DEF Nothing
<1>8. Top = stack[1]
  BY <1>1, <1>2, <1>3 DEF Nesting, Top, CallsOK, Idle
<1>9. Head(toClient).ok => Top.topic \in everGranted
  BY <1>1, <1>2, <1>5, <1>6, <1>8
<1>10. \A i \in 1..MAX_MESSAGE_HANDLERS :
          messageHandlers'[i] \in {messageHandlers[i]} \cup (IF Head(toClient).ok THEN {Top.topic} ELSE {})
  BY DEF Subscribed, InstallHandler
<1>11. HandlerOnlyIfGranted'
  BY <1>1, <1>5, <1>9, <1>10 DEF HandlerOnlyIfGranted
<1> QED
  BY <1>7, <1>11

\* What no step but the broker's answer and the end of a subscribe changes.
GrantsKept ==
    /\ subscribeLate => subscribeLate'
    /\ UNCHANGED messageHandlers
    /\ everGranted \subseteq everGranted'

\* Every step keeps SubscribeInv.
LEMMA SubscribeNext == TypeOK /\ SubscribeInv /\ [Next]_vars => SubscribeInv'
<1> SUFFICES ASSUME TypeOK, SubscribeInv, [Next]_vars PROVE SubscribeInv'
  OBVIOUS
<1>1. CallsOK /\ Nesting /\ subscribeLate \in BOOLEAN
  BY DEF TypeOK, FlagsOK, SubscribeInv
<1>2. GrantsKept /\ SameSubscribe /\ Quiet("SUBSCRIBE", "SUBACK") => SubscribeInv'
  BY <1>1, SubscribeKept DEF GrantsKept
<1>3. UNCHANGED stack => SameSubscribe
  BY <1>1 DEF SameSubscribe, Subscribing, Idle, Nesting
<1>4. UNCHANGED <<messageHandlers, subscribeLate, everGranted>> => GrantsKept
  BY DEF GrantsKept
<1>5. CASE App
  <2>1. CASE \E t \in Topics : MQTTSubscribe(t)
    BY <2>1, SubscribeAsked
  <2>2. CASE \A t \in Topics : ~MQTTSubscribe(t)
    <3>1. Quiet("SUBSCRIBE", "SUBACK")
      BY <1>5, <2>2, AppQuiet
    <3>2. CASE MQTTConnect \/ MQTTYield \/ MQTTDisconnect \/ \E t \in Topics : MQTTUnsubscribe(t)
      <4>1. UNCHANGED stack \/ (Idle /\ \E frame : Enter(frame))
        BY <3>2 DEF MQTTConnect, MQTTYield, MQTTDisconnect, MQTTUnsubscribe, Send, calls
      <4>2. SameSubscribe
        BY <1>1, <1>3, <4>1, SubscribeEnter
      <4>3. UNCHANGED <<messageHandlers, subscribeLate, everGranted>>
        BY <3>2 DEF MQTTConnect, MQTTYield, MQTTDisconnect, MQTTUnsubscribe, grants, client
      <4> QED
        BY <1>2, <1>4, <3>1, <4>2, <4>3
    <3>3. ASSUME NEW qos \in PublishQoS, MQTTPublish(qos) PROVE SubscribeInv'
      <4> DEFINE f == Call("publish", NoTopic, MaxPublishes - budget.publish + 1, qos,
                           IF qos = 0 THEN 0 ELSE getNextPacketId)
      <4>1. f.op = "publish"
        BY DEF Call
      <4>2. UNCHANGED stack \/ Enter(f)
        BY <3>3 DEF MQTTPublish, Send, calls
      <4> HIDE DEF f
      <4>3. SameSubscribe
        BY <1>1, <1>3, <4>1, <4>2, SubscribeEnter
      <4>4. GrantsKept
        BY <3>3 DEF MQTTPublish, GrantsKept, grants
      <4> QED
        BY <1>2, <3>1, <4>3, <4>4
    <3> QED
      BY <1>5, <2>2, <3>2, <3>3 DEF App
  <2> QED
    BY <2>1, <2>2
<1>6. CASE Subscribed
  BY <1>6, SubscribeSettled
<1>7. CASE (Cycle \/ HandlerReturns) /\ ~Subscribed
  <2>1. Quiet("SUBSCRIBE", "SUBACK")
    BY <1>7, CycleQuiet
  <2>2. CASE DropAck \/ PingAnswered
    BY <1>2, <1>3, <2>1, <2>2 DEF DropAck, PingAnswered, GrantsKept, grants, calls
  <2>3. CASE Connected \/ Unsubscribed \/ Published \/ Release
    <3>1. GrantsKept
      BY <2>3 DEF Connected, Unsubscribed, Published, Release, GrantsKept, grants, client
    <3>2. UNCHANGED stack \/ (~Idle /\ Return /\ Top.op # "subscribe")
      BY <2>3 DEF Connected, Unsubscribed, Published, Release, CycleFails, TimeRunsOut,
         readPacket, InCycle, calls
    <3> QED
      BY <1>1, <1>2, <1>3, <2>1, <3>1, <3>2, SubscribeReturn
  <2>4. CASE TimedOut
    <3>1. ~Idle /\ Return /\ GrantsKept /\ (Top.op = "subscribe" => subscribeLate')
      BY <2>4 DEF TimedOut, InCycle, GrantsKept
    <3>2. Nesting' /\ (Top.op # "subscribe" => SameSubscribe)
      BY <1>1, <3>1, SubscribeReturn
    <3> QED
      BY <1>2, <2>1, <3>1, <3>2 DEF SubscribeInv
  <2>5. CASE Deliver \/ HandlerReturns
    <3>1. GrantsKept
      BY <2>5 DEF Deliver, HandlerReturns, GrantsKept, grants
    <3>2. ~Idle
      BY <2>5 DEF Deliver, HandlerReturns, readPacket, InCycle, InHandler
    <3>3. \A m, slot, bytes : RunHandler(m, slot, bytes) => SameSubscribe
      BY <1>1, <3>2, SubscribeDelivery DEF RunHandler
    <3>4. \A m : Acknowledge(m) => SameSubscribe
      BY <1>1, <3>2, SubscribeDelivery, SubscribeReturn DEF Acknowledge, EndDelivery
    <3>5. TimeRunsOut => SameSubscribe
      BY <1>1, <1>3, <3>2, SubscribeReturn DEF TimeRunsOut
    <3>6. SameSubscribe
      BY <2>5, <3>3, <3>4, <3>5 DEF Deliver, HandlerReturns
    <3> QED
      BY <1>2, <2>1, <3>1, <3>6
  <2> QED
    BY <1>7, <2>2, <2>3, <2>4, <2>5 DEF Cycle
<1>8. CASE BrokerSubscribe
  BY <1>8, SubscribeAnswered
<1>9. CASE (Tick \/ LinkFails \/ NetworkReconnect \/ Broker) /\ ~BrokerSubscribe
  <2>1. UNCHANGED <<stack, messageHandlers, subscribeLate, everGranted>>
    BY <1>9 DEF Tick, LinkFails, NetworkReconnect, Broker, BrokerConnect, BrokerUnsubscribe,
       BrokerTakesPublish, BrokerCompletes, BrokerTakesAck, BrokerReleases, BrokerPongs,
       BrokerDisconnect, BrokerPublish, BrokerRetries, BrokerReads, BrokerSends,
       client, calls, grants
  <2>2. Quiet("SUBSCRIBE", "SUBACK")
    BY <1>9, OutsideQuiet
  <2> QED
    BY <1>2, <1>3, <1>4, <2>1, <2>2
<1>10. CASE UNCHANGED vars
  <2>1. UNCHANGED stack /\ GrantsKept /\ UNCHANGED <<toBroker, toClient>>
    BY <1>10 DEF vars, client, calls, wire, grants, GrantsKept
  <2>2. Quiet("SUBSCRIBE", "SUBACK")
    BY <2>1, QuietOut, QuietIn DEF TypeOK, Quiet
  <2> QED
    BY <1>2, <1>3, <2>1, <2>2
<1> QED
  BY <1>5, <1>6, <1>7, <1>8, <1>9, <1>10 DEF Next

\* A filter holds a handler only if the broker granted it, as long as no subscribe ran
\* out of time: then each SUBACK that is read answers the subscribe that waits.
THEOREM HandlerOnlyIfGrantedCorrect == Spec => []HandlerOnlyIfGranted
<1>1. Init => SubscribeInv
  BY DEF Init, SubscribeInv, Nesting, Single, Of, HandlerOnlyIfGranted
<1>2. SubscribeInv => HandlerOnlyIfGranted
  BY DEF SubscribeInv, HandlerOnlyIfGranted
<1> QED
  BY <1>1, <1>2, SubscribeNext, TypeCorrect, PTL DEF Spec
=============================================================================
