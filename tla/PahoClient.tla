----------------------------- MODULE PahoClient -----------------------------
(***************************************************************************)
(* The embedded MQTT client of the FreeRTOS port,                          *)
(* src/FreeRTOS/Library/Mqtt_Paho/MQTTClient.c, built without MQTT_TASK:    *)
(* one task, no mutex.  Every blocking call (MQTTConnect, MQTTSubscribe,    *)
(* MQTTUnsubscribe, MQTTPublish, MQTTYield) loops in cycle(), cycle() runs  *)
(* the application's message handler, and that handler publishes, which    *)
(* loops in cycle() again.  The C call stack is the variable stack: one     *)
(* frame for every blocking call that has not returned.                    *)
(*                                                                         *)
(* The network and the broker are external: they are modelled from the     *)
(* packets this code sends and expects.                                    *)
(***************************************************************************)
EXTENDS Naturals, Sequences, FiniteSets

CONSTANTS
    MAX_PACKET_ID,         \* MQTTClient.h: 65535, smaller in the runs
    MAX_MESSAGE_HANDLERS,  \* MQTTClient.h: 5
    Topics,                \* topic filters the application may subscribe to
    Messages,              \* messages the broker may send, each once
    TopicOf,               \* [Messages -> Topics]
    QoSOf,                 \* [Messages -> 0..2], QoS of each broker message
    PublishQoS,            \* the QoS values MQTTPublish is called with
    NoTopic, NoMessage,    \* a null pointer: free slot, no delivery
    MaxPublishes, MaxSubscribes, MaxConnects, MaxPings, MaxLinkFailures  \* bounds

ASSUME ConstantsOK ==
    /\ MAX_PACKET_ID \in Nat \ {0}
    /\ MAX_MESSAGE_HANDLERS \in Nat \ {0}
    /\ TopicOf \in [Messages -> Topics]
    /\ QoSOf \in [Messages -> 0..2]
    /\ PublishQoS \subseteq 0..2
    /\ NoTopic \notin Topics
    /\ NoMessage \notin Messages
    /\ {MaxPublishes, MaxSubscribes, MaxConnects, MaxPings, MaxLinkFailures} \subseteq Nat

VARIABLES
    isconnected, ping_outstanding, next_packetid, messageHandlers,  \* struct MQTTClient
    readbuf,      \* the last PUBLISH that readPacket put in c->readbuf
    stack,        \* the blocking calls in progress, the innermost last
    expired,      \* how many of them, from the outermost, have a timer that ran out
    link,         \* TRUE while the TCP connection carries bytes
    toBroker, toClient,             \* bytes in flight, as packets
    session, granted, unacked,      \* broker: connected, subscriptions, unacknowledged
    sent, retried,                  \* broker: messages sent once, and sent again
    budget        \* how often each bounded event may still happen

\* What happened, for the properties: nothing below reads these to decide a step.
VARIABLES
    accepted,   \* publishes whose last acknowledgement the broker has sent
    backing,    \* <<p, a>>: publish p returned SUCCESS on the acknowledgement of a
    failed,     \* publishes that returned FAILURE after their packet was sent
    overlapped, \* a publish was made while another one was waiting
    offered,    \* messages handed to the application's handler
    mixed,      \* messages whose handler was given the bytes of another message
    unrouted,   \* messages that matched no handler
    confirmed,  \* messages this client acknowledged to the broker
    everGranted,   \* topics the broker has granted at some time
    subscribeLate  \* a subscribe ran out of time after its packet was sent

client == <<isconnected, ping_outstanding, next_packetid, messageHandlers, readbuf>>
calls  == <<stack, expired>>
wire   == <<link, toBroker, toClient>>
broker == <<session, granted, unacked, sent, retried>>
ledger == <<accepted, backing, failed, overlapped>>
inbox  == <<offered, mixed, unrouted, confirmed>>
grants == <<everGranted, subscribeLate>>
vars   == <<client, calls, wire, broker, budget, ledger, inbox, grants>>

-----------------------------------------------------------------------------
(* Packets.  pub is not on the wire: it names the MQTTPublish call the       *)
(* packet belongs to, where packet ids may repeat.                          *)

PacketId == 1..MAX_PACKET_ID
Publish  == 1..MaxPublishes

ToBroker ==
    [type : {"CONNECT", "DISCONNECT", "PINGREQ"}]
    \cup [type : {"SUBSCRIBE", "UNSUBSCRIBE"}, topic : Topics]
    \cup [type : {"PUBLISH"}, qos : {0}, id : {0}, pub : Publish]
    \cup [type : {"PUBLISH"}, qos : 1..2, id : PacketId, pub : Publish]
    \cup [type : {"PUBREL"}, id : PacketId, pub : Publish]
    \cup [type : {"PUBACK", "PUBREC"}, msg : Messages]

ToClient ==
    [type : {"CONNACK", "SUBACK"}, ok : BOOLEAN]
    \cup [type : {"UNSUBACK", "PINGRESP"}]
    \cup [type : {"PUBACK", "PUBREC", "PUBCOMP"}, id : PacketId, pub : Publish]
    \cup [type : {"PUBLISH"}, msg : Messages, dup : BOOLEAN]
    \cup [type : {"PUBREL"}, msg : Messages]

\* A blocking call; msg and slot say where its cycle() is inside deliverMessage.
Frame ==
    [op : {"yield", "connect", "subscribe", "unsubscribe", "publish"},
     topic : Topics \cup {NoTopic}, pub : {0} \cup Publish, qos : 0..2,
     id : {0} \cup PacketId,
     msg : Messages \cup {NoMessage}, slot : 0..MAX_MESSAGE_HANDLERS]

Call(op, topic, pub, qos, id) ==
    [op |-> op, topic |-> topic, pub |-> pub, qos |-> qos, id |-> id,
     msg |-> NoMessage, slot |-> 0]

Top       == stack[Len(stack)]
Pop(s)    == SubSeq(s, 1, Len(s) - 1)
Idle      == stack = << >>
InCycle   == ~Idle /\ Top.msg = NoMessage
InHandler == ~Idle /\ Top.msg # NoMessage

\* TimerIsExpired of the innermost call.  Calls nest, and a call's timer is set when
\* it starts, to command_timeout_ms or the time MQTTYield is given.  While that time
\* is no longer (the agent yields for 1000 ms, and its commands take 30000), timers
\* run out from the outermost call inwards.
TimerIsExpired == expired >= Len(stack)

\* Return from the innermost call.
Return ==
    /\ stack' = Pop(stack)
    /\ expired' = IF TimerIsExpired THEN Len(stack) - 1 ELSE expired

Enter(frame) ==
    /\ stack' = Append(stack, frame)
    /\ UNCHANGED expired

\* The packet type that ends the innermost call: the argument of waitfor().
Awaited ==
    CASE Top.op = "connect"     -> "CONNACK"
      [] Top.op = "subscribe"   -> "SUBACK"
      [] Top.op = "unsubscribe" -> "UNSUBACK"
      [] Top.op = "publish"     -> IF Top.qos = 1 THEN "PUBACK" ELSE "PUBCOMP"
      [] Top.op = "yield"       -> "none"

\* Mutant: the counter is not wrapped.
getNextPacketId_NoWrap == next_packetid + 1

getNextPacketId == IF next_packetid = MAX_PACKET_ID THEN 1 ELSE next_packetid + 1

Spend(event) == /\ budget[event] > 0
                /\ budget' = [budget EXCEPT ![event] = @ - 1]

-----------------------------------------------------------------------------
Init ==
    /\ isconnected = FALSE /\ ping_outstanding = FALSE /\ next_packetid = 1
    /\ messageHandlers = [i \in 1..MAX_MESSAGE_HANDLERS |-> NoTopic]
    /\ readbuf = NoMessage
    /\ stack = << >> /\ expired = 0
    /\ link = TRUE /\ toBroker = << >> /\ toClient = << >>
    /\ session = FALSE /\ granted = {} /\ unacked = {} /\ sent = {} /\ retried = {}
    /\ budget = [publish |-> MaxPublishes, subscribe |-> MaxSubscribes,
                 connect |-> MaxConnects, ping |-> MaxPings, down |-> MaxLinkFailures]
    /\ accepted = {} /\ backing = {} /\ failed = {} /\ overlapped = FALSE
    /\ offered = {} /\ mixed = {} /\ unrouted = {} /\ confirmed = {}
    /\ everGranted = {} /\ subscribeLate = FALSE

-----------------------------------------------------------------------------
(* The application's calls.                                                  *)

\* Mutant: a PUBLISH is written twice.
Send_Twice(packet, frame) ==
    IF link
    THEN /\ toBroker' = toBroker \o IF packet.type = "PUBLISH" THEN <<packet, packet>>
                                                             ELSE <<packet>>
         /\ Enter(frame)
    ELSE UNCHANGED <<toBroker, calls>>

\* sendPacket: the write goes out while the connection lives, else FAILURE.
\* A call that fails to send returns at once and leaves only the packet id used.
Send(packet, frame) ==
    IF link
    THEN toBroker' = Append(toBroker, packet) /\ Enter(frame)
    ELSE UNCHANGED <<toBroker, calls>>

MQTTConnect ==
    /\ Idle /\ ~isconnected
    /\ Spend("connect")
    /\ Send([type |-> "CONNECT"], Call("connect", NoTopic, 0, 0, 0))
    /\ UNCHANGED <<client, link, toClient, broker, ledger, inbox, grants>>

MQTTSubscribe(t) ==
    /\ Idle /\ isconnected
    /\ Spend("subscribe")
    /\ next_packetid' = getNextPacketId
    /\ Send([type |-> "SUBSCRIBE", topic |-> t],
            Call("subscribe", t, 0, 0, getNextPacketId))
    /\ UNCHANGED <<isconnected, ping_outstanding, messageHandlers, readbuf,
                   link, toClient, broker, ledger, inbox, grants>>

MQTTUnsubscribe(t) ==
    /\ Idle /\ isconnected
    /\ Spend("subscribe")
    /\ next_packetid' = getNextPacketId
    /\ Send([type |-> "UNSUBSCRIBE", topic |-> t],
            Call("unsubscribe", t, 0, 0, getNextPacketId))
    /\ UNCHANGED <<isconnected, ping_outstanding, messageHandlers, readbuf,
                   link, toClient, broker, ledger, inbox, grants>>

\* Called by the main loop or by the message handler of a call in progress.
MQTTPublish(qos) ==
    LET pub == MaxPublishes - budget.publish + 1
        id  == IF qos = 0 THEN 0 ELSE getNextPacketId
        packet == [type |-> "PUBLISH", qos |-> qos, id |-> id, pub |-> pub]
    IN
    /\ Idle \/ InHandler
    /\ isconnected
    /\ Spend("publish")
    /\ next_packetid' = IF qos = 0 THEN next_packetid ELSE getNextPacketId
    /\ IF qos = 0
       THEN /\ toBroker' = IF link THEN Append(toBroker, packet) ELSE toBroker
            /\ UNCHANGED calls
       ELSE Send(packet, Call("publish", NoTopic, pub, qos, id))
    /\ overlapped' = (overlapped \/ (qos # 0 /\ \E i \in 1..Len(stack) : stack[i].op = "publish"))
    /\ UNCHANGED <<isconnected, ping_outstanding, messageHandlers, readbuf,
                   link, toClient, broker, accepted, backing, failed, inbox, grants>>

MQTTYield ==
    /\ Idle /\ isconnected
    /\ Enter(Call("yield", NoTopic, 0, 0, 0))
    /\ UNCHANGED <<client, wire, broker, budget, ledger, inbox, grants>>

\* isconnected is cleared whether or not DISCONNECT could be sent.
MQTTDisconnect ==
    /\ Idle /\ isconnected
    /\ isconnected' = FALSE
    /\ toBroker' = IF link THEN Append(toBroker, [type |-> "DISCONNECT"]) ELSE toBroker
    /\ UNCHANGED <<ping_outstanding, next_packetid, messageHandlers, readbuf, calls,
                   link, toClient, broker, budget, ledger, inbox, grants>>

-----------------------------------------------------------------------------
(* cycle(): one packet is read and acted on, then keepalive().               *)

\* Mutant: a ping is sent although one is outstanding.
keepalive_Again ==
    \/ UNCHANGED <<ping_outstanding, toBroker, budget>>
    \/ /\ link /\ Spend("ping")
       /\ ping_outstanding' = TRUE
       /\ toBroker' = Append(toBroker, [type |-> "PINGREQ"])

\* keepalive: ping_timer may have run out, except just after a send restarted it.
\* The result is ignored by cycle(), and an unanswered ping is never noticed.
keepalive ==
    \/ UNCHANGED <<ping_outstanding, toBroker, budget>>
    \/ /\ ~ping_outstanding /\ link
       /\ Spend("ping")
       /\ ping_outstanding' = TRUE
       /\ toBroker' = Append(toBroker, [type |-> "PINGREQ"])

readPacket(types) ==
    /\ InCycle /\ ~TimerIsExpired
    /\ toClient # << >>
    /\ Head(toClient).type \in types
    /\ toClient' = Tail(toClient)

\* The first free slot is taken; when all are in use the filter is dropped.
InstallHandler(t) ==
    LET free == {i \in 1..MAX_MESSAGE_HANDLERS : messageHandlers[i] = NoTopic} IN
    messageHandlers' =
        [i \in 1..MAX_MESSAGE_HANDLERS |->
            IF i \in free /\ \A j \in free : i <= j THEN t ELSE messageHandlers[i]]

\* An acknowledgement that the innermost call does not wait for is dropped,
\* even when an outer call waits for it.
DropAck ==
    /\ readPacket({"CONNACK", "SUBACK", "UNSUBACK", "PUBACK", "PUBCOMP", "PUBREL"})
    /\ Head(toClient).type # Awaited
    /\ keepalive
    /\ UNCHANGED <<isconnected, next_packetid, messageHandlers, readbuf, calls,
                   link, broker, ledger, inbox, grants>>

Connected ==
    /\ readPacket({"CONNACK"}) /\ Top.op = "connect"
    /\ isconnected' = Head(toClient).ok
    /\ keepalive
    /\ Return
    /\ UNCHANGED <<next_packetid, messageHandlers, readbuf, link, broker, ledger, inbox, grants>>

\* Mutant: a refused filter gets a handler.
Subscribed_Refused ==
    /\ readPacket({"SUBACK"}) /\ Top.op = "subscribe"
    /\ InstallHandler(Top.topic)
    /\ keepalive
    /\ Return
    /\ UNCHANGED <<isconnected, next_packetid, readbuf, link, broker, ledger, inbox, grants>>

Subscribed ==
    /\ readPacket({"SUBACK"}) /\ Top.op = "subscribe"
    /\ IF Head(toClient).ok THEN InstallHandler(Top.topic) ELSE UNCHANGED messageHandlers
    /\ keepalive
    /\ Return
    /\ UNCHANGED <<isconnected, next_packetid, readbuf, link, broker, ledger, inbox, grants>>

Unsubscribed ==
    /\ readPacket({"UNSUBACK"}) /\ Top.op = "unsubscribe"
    /\ keepalive
    /\ Return
    /\ UNCHANGED <<isconnected, next_packetid, messageHandlers, readbuf,
                   link, broker, ledger, inbox, grants>>

\* Mutant: PUBREC ends a QoS 2 publish.
Published_OnPubrec ==
    /\ readPacket({"PUBACK", "PUBREC"})
    /\ Top.op = "publish"
    /\ backing' = backing \cup {<<Top.pub, Head(toClient).pub>>}
    /\ keepalive
    /\ Return
    /\ UNCHANGED <<isconnected, next_packetid, messageHandlers, readbuf, link, broker,
                   accepted, failed, overlapped, inbox, grants>>

\* Mutant: the acknowledgement stays in the buffer for the next reader.
Published_NotConsumed ==
    /\ InCycle /\ ~TimerIsExpired /\ toClient # << >>
    /\ Top.op = "publish" /\ Head(toClient).type = Awaited
    /\ backing' = backing \cup {<<Top.pub, Head(toClient).pub>>}
    /\ Return
    /\ UNCHANGED <<client, toClient, toBroker, budget, link, broker,
                   accepted, failed, overlapped, inbox, grants>>

\* The id in the acknowledgement is read and not compared with the publish's.
Published ==
    /\ readPacket({"PUBACK", "PUBCOMP"})
    /\ Top.op = "publish" /\ Head(toClient).type = Awaited
    /\ backing' = backing \cup {<<Top.pub, Head(toClient).pub>>}
    /\ keepalive
    /\ Return
    /\ UNCHANGED <<isconnected, next_packetid, messageHandlers, readbuf, link, broker,
                   accepted, failed, overlapped, inbox, grants>>

\* MQTTYield returns as soon as cycle() could not send what it had to.
CycleFails == IF Top.op = "yield" THEN Return ELSE UNCHANGED calls

\* Reading took all the time the innermost call had left, and sendPacket sends
\* nothing: a yield returns, another call finds its timer expired.
TimeRunsOut ==
    /\ expired = Len(stack) - 1
    /\ IF Top.op = "yield" THEN Return ELSE UNCHANGED stack /\ expired' = Len(stack)

\* QoS 2, outbound: PUBREC is answered with PUBREL.
Release ==
    /\ readPacket({"PUBREC"})
    /\ \/ /\ link
          /\ toBroker' = Append(toBroker, [type |-> "PUBREL", id |-> Head(toClient).id,
                                           pub |-> Head(toClient).pub])
          /\ UNCHANGED calls
       \/ ~link /\ CycleFails /\ UNCHANGED toBroker
       \/ TimeRunsOut /\ UNCHANGED toBroker
    /\ UNCHANGED <<client, link, broker, budget, ledger, inbox, grants>>

PingAnswered ==
    /\ readPacket({"PINGRESP"})
    /\ \/ ping_outstanding' = FALSE /\ UNCHANGED <<toBroker, budget>>
       \/ /\ link /\ Spend("ping")
          /\ ping_outstanding' = TRUE
          /\ toBroker' = Append(toBroker, [type |-> "PINGREQ"])
    /\ UNCHANGED <<isconnected, next_packetid, messageHandlers, readbuf, calls,
                   link, broker, ledger, inbox, grants>>

\* Mutant: waitfor() never looks at its timer.
TimedOut_OnlyYield ==
    /\ InCycle /\ TimerIsExpired /\ Top.op = "yield"
    /\ keepalive
    /\ Return
    /\ UNCHANGED <<isconnected, next_packetid, messageHandlers, readbuf,
                   link, toClient, broker, ledger, inbox, grants>>

\* The timer of the innermost call ran out, before or while reading.
\* waitfor() fails; MQTTYield() returns.
TimedOut ==
    /\ InCycle /\ TimerIsExpired
    /\ keepalive
    /\ Return
    /\ failed' = IF Top.op = "publish" THEN failed \cup {Top.pub} ELSE failed
    /\ subscribeLate' = (subscribeLate \/ Top.op = "subscribe")
    /\ UNCHANGED <<isconnected, next_packetid, messageHandlers, readbuf,
                   link, toClient, broker, accepted, backing, overlapped, inbox, everGranted>>

-----------------------------------------------------------------------------
(* deliverMessage(): every slot whose filter matches, in slot order.  The    *)
(* topic name points into c->readbuf: a later slot is compared with, and its *)
(* handler given, what a nested call has read into the buffer by then.       *)

\* The next slot after this one that holds filter t: one slot, or none.
NextSlot(t, after) ==
    {i \in 1..MAX_MESSAGE_HANDLERS :
        /\ i > after /\ messageHandlers[i] = t
        /\ \A j \in 1..MAX_MESSAGE_HANDLERS : after < j /\ j < i => messageHandlers[j] # t}

\* Mutant: what is under delivery is kept once for the client, not for each call.
EndDelivery_Shared ==
    /\ stack' = [i \in 1..Len(stack) |-> [stack[i] EXCEPT !.msg = NoMessage, !.slot = 0]]
    /\ UNCHANGED expired

\* The delivery of the innermost call's message is over.
EndDelivery ==
    /\ stack' = [stack EXCEPT ![Len(stack)].msg = NoMessage, ![Len(stack)].slot = 0]
    /\ UNCHANGED expired

\* After the last handler: QoS 1 is acknowledged with PUBACK, QoS 2 with PUBREC,
\* if the timer of this call has not run out while the handlers ran.
Acknowledge(m) ==
    \/ /\ QoSOf[m] = 0
       /\ keepalive /\ EndDelivery
       /\ UNCHANGED confirmed
    \/ /\ QoSOf[m] # 0 /\ link /\ ~TimerIsExpired
       /\ toBroker' = Append(toBroker,
                             [type |-> IF QoSOf[m] = 1 THEN "PUBACK" ELSE "PUBREC", msg |-> m])
       /\ confirmed' = confirmed \cup {m}
       /\ EndDelivery
       /\ UNCHANGED <<ping_outstanding, budget>>
    \/ /\ QoSOf[m] # 0 /\ (~link \/ TimerIsExpired)
       /\ IF Top.op = "yield" THEN Return ELSE EndDelivery
       /\ UNCHANGED <<ping_outstanding, toBroker, budget, confirmed>>

\* The handler is given what c->readbuf holds now: bytes, if not m's own.
RunHandler(m, slot, bytes) ==
    /\ stack' = [stack EXCEPT ![Len(stack)].msg = m, ![Len(stack)].slot = slot]
    /\ offered' = offered \cup {bytes}
    /\ mixed' = IF bytes = m THEN mixed ELSE mixed \cup {m}
    /\ UNCHANGED <<expired, ping_outstanding, toBroker, budget, confirmed>>

\* Mutant: the message is acknowledged and no handler is looked for.
Deliver_NoHandler ==
    /\ readPacket({"PUBLISH"})
    /\ readbuf' = Head(toClient).msg
    /\ Acknowledge(Head(toClient).msg)
    /\ UNCHANGED <<isconnected, next_packetid, messageHandlers, link, broker, ledger, grants,
                   offered, mixed, unrouted>>

\* Mutant: the handler is given what the buffer held before.
Deliver_Stale ==
    /\ readPacket({"PUBLISH"})
    /\ LET m == Head(toClient).msg
       IN /\ readbuf' = m
          /\ \E slot \in NextSlot(TopicOf[m], 0) : RunHandler(m, slot, readbuf)
    /\ UNCHANGED <<isconnected, next_packetid, messageHandlers, link, broker, ledger, grants,
                   unrouted>>

Deliver ==
    /\ readPacket({"PUBLISH"})
    /\ LET m == Head(toClient).msg
           slots == NextSlot(TopicOf[m], 0)
       IN /\ readbuf' = m
          /\ \/ \E slot \in slots : RunHandler(m, slot, m) /\ UNCHANGED unrouted
             \/ /\ slots = {}
                /\ \/ Acknowledge(m)
                   \/ /\ QoSOf[m] # 0 /\ TimeRunsOut
                      /\ UNCHANGED <<ping_outstanding, toBroker, budget, confirmed>>
                /\ unrouted' = unrouted \cup {m}
                /\ UNCHANGED <<offered, mixed>>
    /\ UNCHANGED <<isconnected, next_packetid, messageHandlers, link, broker, ledger, grants>>

\* The application's handler returns to deliverMessage.  Of another message the bytes
\* are read at the place and length of the first one's topic, so its own slot is
\* found, or, where that cuts the topic short or runs on behind it, none.
HandlerReturns ==
    /\ InHandler
    /\ LET m == Top.msg
           slots == NextSlot(TopicOf[readbuf], Top.slot)
       IN \/ \E slot \in slots : RunHandler(m, slot, readbuf)
          \/ /\ slots = {} \/ readbuf # m
             /\ Acknowledge(m) /\ UNCHANGED <<offered, mixed>>
    /\ UNCHANGED <<isconnected, next_packetid, messageHandlers, readbuf, link, toClient,
                   broker, ledger, unrouted, grants>>

-----------------------------------------------------------------------------
(* Time, the network and the broker.                                         *)

Tick ==
    /\ expired < Len(stack)
    /\ expired' = expired + 1
    /\ UNCHANGED <<client, stack, wire, broker, budget, ledger, inbox, grants>>

\* The connection dies; what was in flight may be lost.
LinkFails ==
    /\ link /\ Spend("down")
    /\ link' = FALSE
    /\ toBroker' = << >>
    /\ \E k \in 0..Len(toClient) : toClient' = SubSeq(toClient, 1, k)
    /\ session' = FALSE
    /\ UNCHANGED <<client, calls, granted, unacked, sent, retried, ledger, inbox, grants>>

\* NetworkDisconnect and NetworkConnect by the caller: a new connection, and the
\* broker drops the session (cleansession).  The MQTTClient struct is kept.
NetworkReconnect ==
    /\ Idle /\ ~isconnected
    /\ budget.connect > 0
    /\ link' = TRUE
    /\ toBroker' = << >> /\ toClient' = << >>
    /\ session' = FALSE /\ granted' = {} /\ unacked' = {}
    /\ UNCHANGED <<client, calls, sent, retried, budget, ledger, inbox, grants>>

Reply(packet) == toClient' = Append(toClient, packet)

BrokerReads(type) ==
    /\ link /\ toBroker # << >> /\ Head(toBroker).type = type
    /\ toBroker' = Tail(toBroker)
    /\ UNCHANGED <<client, calls, sent, retried, budget, backing, failed,
                   overlapped, inbox, subscribeLate>>

\* A refused client and one that connects twice are cut off.
BrokerConnect ==
    /\ BrokerReads("CONNECT")
    /\ \E ok \in BOOLEAN :
         /\ session' = (ok /\ ~session)
         /\ link' = (ok /\ ~session)
         /\ IF session THEN UNCHANGED toClient ELSE Reply([type |-> "CONNACK", ok |-> ok])
    /\ UNCHANGED <<granted, unacked, accepted, everGranted>>

BrokerSubscribe ==
    /\ BrokerReads("SUBSCRIBE")
    /\ \E ok \in BOOLEAN :
         /\ granted' = IF ok THEN granted \cup {Head(toBroker).topic} ELSE granted
         /\ everGranted' = everGranted \cup granted'
         /\ Reply([type |-> "SUBACK", ok |-> ok])
    /\ UNCHANGED <<link, session, unacked, accepted>>

BrokerUnsubscribe ==
    /\ BrokerReads("UNSUBSCRIBE")
    /\ granted' = granted \ {Head(toBroker).topic}
    /\ Reply([type |-> "UNSUBACK"])
    /\ UNCHANGED <<link, session, unacked, accepted, everGranted>>

\* QoS 1 is answered with PUBACK; QoS 2 with PUBREC, and its PUBREL with PUBCOMP.
BrokerTakesPublish ==
    /\ BrokerReads("PUBLISH")
    /\ LET p == Head(toBroker) IN
         /\ accepted' = IF p.qos = 1 THEN accepted \cup {p.pub} ELSE accepted
         /\ IF p.qos = 0
            THEN UNCHANGED toClient
            ELSE Reply([type |-> IF p.qos = 1 THEN "PUBACK" ELSE "PUBREC",
                        id |-> p.id, pub |-> p.pub])
    /\ UNCHANGED <<link, session, granted, unacked, everGranted>>

BrokerCompletes ==
    /\ BrokerReads("PUBREL")
    /\ accepted' = accepted \cup {Head(toBroker).pub}
    /\ Reply([type |-> "PUBCOMP", id |-> Head(toBroker).id, pub |-> Head(toBroker).pub])
    /\ UNCHANGED <<link, session, granted, unacked, everGranted>>

BrokerTakesAck ==
    /\ BrokerReads("PUBACK")
    /\ unacked' = unacked \ {Head(toBroker).msg}
    /\ UNCHANGED <<link, toClient, session, granted, accepted, everGranted>>

\* PUBREL for a QoS 2 message: this client has no case for it in cycle().
BrokerReleases ==
    /\ BrokerReads("PUBREC")
    /\ unacked' = unacked \ {Head(toBroker).msg}
    /\ Reply([type |-> "PUBREL", msg |-> Head(toBroker).msg])
    /\ UNCHANGED <<link, session, granted, accepted, everGranted>>

BrokerPongs ==
    /\ BrokerReads("PINGREQ")
    /\ Reply([type |-> "PINGRESP"])
    /\ UNCHANGED <<link, session, granted, unacked, accepted, everGranted>>

BrokerDisconnect ==
    /\ BrokerReads("DISCONNECT")
    /\ session' = FALSE /\ granted' = {} /\ unacked' = {}
    /\ link' = FALSE
    /\ UNCHANGED <<toClient, accepted, everGranted>>

BrokerSends(m, dup) ==
    /\ link /\ session
    /\ Reply([type |-> "PUBLISH", msg |-> m, dup |-> dup])
    /\ UNCHANGED <<client, calls, link, toBroker, session, granted, budget, ledger, inbox, grants>>

BrokerPublish(m) ==
    /\ m \notin sent /\ TopicOf[m] \in granted
    /\ BrokerSends(m, FALSE)
    /\ sent' = sent \cup {m}
    /\ unacked' = IF QoSOf[m] = 0 THEN unacked ELSE unacked \cup {m}
    /\ UNCHANGED retried

\* MQTT 3.1, the version handleMQTTCreate asks for, lets the broker repeat an
\* unacknowledged message with DUP set.
BrokerRetries(m) ==
    /\ m \in unacked /\ m \notin retried
    /\ BrokerSends(m, TRUE)
    /\ retried' = retried \cup {m}
    /\ UNCHANGED <<sent, unacked>>

-----------------------------------------------------------------------------
App ==
    \/ MQTTConnect \/ MQTTYield \/ MQTTDisconnect
    \/ \E t \in Topics : MQTTSubscribe(t) \/ MQTTUnsubscribe(t)
    \/ \E qos \in PublishQoS : MQTTPublish(qos)

Cycle ==
    \/ DropAck \/ Connected \/ Subscribed \/ Unsubscribed \/ Published
    \/ Release \/ PingAnswered \/ TimedOut \/ Deliver

Broker ==
    \/ BrokerConnect \/ BrokerSubscribe \/ BrokerUnsubscribe \/ BrokerTakesPublish
    \/ BrokerCompletes \/ BrokerTakesAck \/ BrokerReleases \/ BrokerPongs
    \/ BrokerDisconnect
    \/ \E m \in Messages : BrokerPublish(m) \/ BrokerRetries(m)

Next ==
    \/ App \/ Cycle \/ HandlerReturns
    \/ Tick \/ LinkFails \/ NetworkReconnect \/ Broker

Spec == Init /\ [][Next]_vars

\* The task runs, handlers return, clocks advance.
Fairness == WF_vars(Cycle) /\ WF_vars(HandlerReturns) /\ WF_vars(Tick)

FairSpec == Spec /\ Fairness

-----------------------------------------------------------------------------
(* Properties.                                                               *)

FlagsOK ==
    /\ isconnected \in BOOLEAN /\ ping_outstanding \in BOOLEAN
    /\ link \in BOOLEAN /\ session \in BOOLEAN
    /\ overlapped \in BOOLEAN /\ subscribeLate \in BOOLEAN

ClientOK ==
    /\ next_packetid \in PacketId
    /\ messageHandlers \in [1..MAX_MESSAGE_HANDLERS -> Topics \cup {NoTopic}]
    /\ readbuf \in Messages \cup {NoMessage}

\* While a handler runs the buffer holds a message.
CallsOK ==
    /\ stack \in Seq(Frame)
    /\ expired \in 0..Len(stack)
    /\ \A i \in 1..Len(stack) : /\ stack[i].msg # NoMessage => readbuf # NoMessage
                                /\ stack[i].op = "publish" => stack[i].pub \in Publish

WireOK == toBroker \in Seq(ToBroker) /\ toClient \in Seq(ToClient)

BrokerOK ==
    /\ granted \subseteq Topics /\ everGranted \subseteq Topics
    /\ unacked \subseteq Messages /\ sent \subseteq Messages /\ retried \subseteq Messages

BudgetOK ==
    /\ budget \in [{"publish", "subscribe", "connect", "ping", "down"} -> Nat]
    /\ budget.publish <= MaxPublishes

ResultsOK ==
    /\ accepted \subseteq Publish /\ failed \subseteq Publish
    /\ backing \subseteq Publish \X Publish

InboxOK ==
    /\ offered \subseteq Messages /\ mixed \subseteq Messages
    /\ unrouted \subseteq Messages /\ confirmed \subseteq Messages

\* Every variable keeps its type; in particular a packet id is never 0, the calls
\* that have run out of time are calls in progress, and what a handler is given is
\* a message that arrived.
TypeOK ==
    FlagsOK /\ ClientOK /\ CallsOK /\ WireOK /\ BrokerOK /\ BudgetOK /\ ResultsOK /\ InboxOK

\* MQTTPublish reports SUCCESS at most once for each acknowledgement the broker
\* sent: no acknowledgement backs two successes, and no success is invented,
\* whatever calls nest, time out or lose their connection.
BackedOnce ==
    /\ \A b \in backing : b[2] \in accepted
    /\ \A b, c \in backing : b[2] = c[2] \/ b[1] = c[1] => b = c

\* The client implements the ledger of acknowledgements: whatever calls nest, time
\* out or lose their connection, each step leaves the ledger alone, enters an
\* acknowledgement, or spends one that was never spent on a publish that has not
\* returned before.
Ledger == INSTANCE AckLedger WITH Publish <- Publish, accepted <- accepted, backing <- backing
ImplementsLedger == Ledger!Spec

\* The client's calls nest as NestedCalls says, which is all that FreeRTOSAgent is
\* told of them: whatever is read, sent, lost or refused, only the innermost call
\* reads, delivers or returns, and the deadline that passes next is its caller's first.
Nested == INSTANCE NestedCalls
          WITH MainCalls <- {"connect", "subscribe", "unsubscribe", "publish", "yield"},
               HandlerCalls <- {"publish"}, Message <- Messages,
               frames <- [i \in 1..Len(stack) |-> [call |-> stack[i].op, msg |-> stack[i].msg]],
               late <- expired
ImplementsNestedCalls == Nested!CallsSpec

\* What MQTTClient.h says of MQTTPublish: "wait for all acks to complete".
\* A publish that returns SUCCESS has been acknowledged itself.
SuccessIsOwn == \A b \in backing : b[1] \in accepted

\* An acknowledgement is taken for another publish only when a publish was made
\* from the handler of a message that arrived while another publish waited, or
\* after one was given up: otherwise MQTTPublish does return on its own.
OwnAckUnlessNestedOrFailed ==
    ~overlapped /\ failed = {} => \A b \in backing : b[1] = b[2]

\* A message is acknowledged to the broker only after it was handed to the
\* application's handler, or when no handler was registered for its topic.
ConfirmedAfterHandled == confirmed \subseteq offered \cup unrouted

\* A filter gets a handler only if the broker granted it, unless an earlier
\* subscribe ran out of time: its late SUBACK then answers for the next one.
HandlerOnlyIfGranted ==
    ~subscribeLate =>
        \A i \in 1..MAX_MESSAGE_HANDLERS : messageHandlers[i] \in everGranted \cup {NoTopic}

\* A message is never lost to another one: its handler is given its own bytes first,
\* and those of a message a nested call has read only after that, from a second slot.
\* So a client with one filter never hands over the wrong bytes.
MixedAfterOwn ==
    /\ mixed \subseteq offered
    /\ mixed # {} =>
         \E i, j \in 1..MAX_MESSAGE_HANDLERS :
             i # j /\ NoTopic \notin {messageHandlers[i], messageHandlers[j]}

\* Pings on the wire: requests not yet seen by the broker, answers not yet read.
Requested == {i \in 1..Len(toBroker) : toBroker[i].type = "PINGREQ"}
Answered  == {i \in 1..Len(toClient) : toClient[i].type = "PINGRESP"}
PingsInFlight == Cardinality(Requested) + Cardinality(Answered)

\* At most one ping is ever unanswered, and only while the client knows of it.
OnePing == PingsInFlight <= IF ping_outstanding THEN 1 ELSE 0

\* keepalive() can rely on its flag: while the connection that isconnected speaks
\* of is alive, a ping marked outstanding is one whose answer is still to come.
PingFlagCurrent == isconnected /\ link /\ session /\ ping_outstanding => PingsInFlight = 1

\* Why the ledger is kept.  A publish is one call that waits, then one result; its
\* packets are one token: PUBLISH or PUBREL on the way to the broker, PUBREC on the
\* way back, and at last the PUBACK or PUBCOMP that is spent.
Issued  == 1..(MaxPublishes - budget.publish)
Waiting == {i \in 1..Len(stack) : stack[i].op = "publish"}

OutToken == {"PUBLISH", "PUBREL"}
InToken  == {"PUBREC", "PUBACK", "PUBCOMP"}
Out == {i \in 1..Len(toBroker) : toBroker[i].type \in OutToken}
In  == {i \in 1..Len(toClient) : toClient[i].type \in InToken}

\* A publish that still waits has no result, and waits once.
WaitingInv ==
    /\ failed \subseteq Issued
    /\ \A b \in backing : b[1] \in Issued
    /\ \A i \in Waiting : /\ stack[i].pub \in Issued
                          /\ stack[i].pub \notin failed
                          /\ \A b \in backing : b[1] # stack[i].pub
    /\ \A i, j \in Waiting : stack[i].pub = stack[j].pub => i = j

\* A publish has one token in flight at most, and an unspent acknowledgement is
\* one the broker has entered.
TokenInv ==
    /\ accepted \subseteq Issued
    /\ \A i \in Out : toBroker[i].pub \in Issued \ accepted
    /\ \A i, j \in Out : toBroker[i].pub = toBroker[j].pub => i = j
    /\ \A i \in In : /\ toClient[i].pub \in Issued
                     /\ toClient[i].type = "PUBREC" <=> toClient[i].pub \notin accepted
                     /\ \A b \in backing : b[2] # toClient[i].pub
    /\ \A i, j \in In : toClient[i].pub = toClient[j].pub => i = j
    /\ \A i \in Out, j \in In : toBroker[i].pub # toClient[j].pub

\* The inductive invariant behind BackedOnce and ImplementsLedger: every publish has
\* one token, which nothing on the way duplicates, and none once it has succeeded.
LedgerInv == TypeOK /\ BackedOnce /\ WaitingInv /\ TokenInv

\* Every blocking call returns: the task comes back to the application's loop.  The
\* clock that ends a call is that of sockets which honour their time-out; one of the
\* WIZnet driver ends it at the next packet, if there is one (PacketStream).
CallsReturn == ~Idle ~> Idle
=============================================================================
