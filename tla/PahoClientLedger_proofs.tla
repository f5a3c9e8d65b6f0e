----------------------- MODULE PahoClientLedger_proofs -----------------------
(***************************************************************************)
(* The acknowledgement ledger of the FreeRTOS MQTT client, proved: LedgerInv *)
(* is inductive, so no two publishes ever succeed on one acknowledgement,    *)
(* and the client implements AckLedger.                                      *)
(***************************************************************************)
EXTENDS PahoClient_proofs

-----------------------------------------------------------------------------
(* Waiting calls.                                                            *)

\* Calls returned or went on; none was made.
KeepsCalls ==
    /\ Len(stack') \in 0..Len(stack)
    /\ \A i \in 1..Len(stack') : stack'[i].op = stack[i].op /\ stack'[i].pub = stack[i].pub

\* The innermost call returns, the others stay.
LEMMA ReturnKeeps ==
    ASSUME CallsOK, ~Idle, Return
    PROVE  KeepsCalls /\ Len(stack') = Len(stack) - 1
<1>1. stack \in Seq(Frame) /\ Len(stack) - 1 \in 0..Len(stack)
  BY DEF CallsOK, Idle
<1>2. /\ Len(stack') = Len(stack) - 1
      /\ \A i \in 1..Len(stack') : stack'[i] = stack[i]
  BY <1>1, Prefix DEF Return, Pop
<1> QED
  BY <1>1, <1>2 DEF KeepsCalls

\* A delivery changes where the innermost call is, not what it is.
LEMMA DeliveryKeeps ==
    ASSUME CallsOK, ~Idle,
           NEW m, NEW slot,
           stack' = [stack EXCEPT ![Len(stack)].msg = m, ![Len(stack)].slot = slot]
    PROVE  KeepsCalls
<1>1. stack \in Seq(Frame) /\ Len(stack) \in 1..Len(stack)
  BY DEF CallsOK, Idle
<1>2. Len(stack') = Len(stack)
  BY <1>1
<1>3. LET f == [Top EXCEPT !.msg = m, !.slot = slot]
      IN  f.op = Top.op /\ f.pub = Top.pub
  BY TopType DEF Frame
<1>4. stack' = [stack EXCEPT ![Len(stack)] = [Top EXCEPT !.msg = m, !.slot = slot]]
  BY <1>1 DEF Top
<1>5. \A i \in 1..Len(stack) :
            stack'[i] = IF i = Len(stack) THEN [Top EXCEPT !.msg = m, !.slot = slot] ELSE stack[i]
  BY <1>1, <1>4
<1> QED
  BY <1>1, <1>2, <1>3, <1>5 DEF KeepsCalls, Top

\* Calls that return or go on, with no new result, keep WaitingInv.
LEMMA WaitingKept ==
    ASSUME WaitingInv, CallsOK, KeepsCalls, Issued \subseteq Issued', UNCHANGED <<backing, failed>>
    PROVE  WaitingInv'
<1>1. Waiting' \subseteq Waiting /\ \A i \in Waiting' : stack'[i].pub = stack[i].pub
  BY DEF Waiting, KeepsCalls, CallsOK
<1> QED
  BY <1>1 DEF WaitingInv

-----------------------------------------------------------------------------
(* Tokens on the wire.                                                       *)

\* Packets of these types were read, lost or left alone; none was added.
Shrinks(s, t, types) ==
    \E d \in 0..1 : \A i \in 1..Len(t) :
        t[i].type \in types => i + d \in 1..Len(s) /\ t[i] = s[i + d]

\* An unchanged direction, and one cleared.
LEMMA ShrinksSame ==
    ASSUME NEW S, NEW s \in Seq(S), NEW types
    PROVE  Shrinks(s, s, types) /\ Shrinks(s, << >>, types)
BY DEF Shrinks

\* One packet of another type is written.
LEMMA ShrinksAppend ==
    ASSUME NEW S, NEW s \in Seq(S), NEW p, NEW types, p.type \notin types
    PROVE  Shrinks(s, Append(s, p), types)
BY DEF Shrinks

\* The first packet is read.
LEMMA ShrinksTail ==
    ASSUME NEW S, NEW s \in Seq(S), s # << >>, NEW types
    PROVE  Shrinks(s, Tail(s), types)
BY DEF Shrinks

\* The last packets are lost.
LEMMA ShrinksPrefix ==
    ASSUME NEW S, NEW s \in Seq(S), NEW k \in 0..Len(s), NEW types
    PROVE  Shrinks(s, SubSeq(s, 1, k), types)
BY Prefix DEF Shrinks

\* How the tokens of one direction change: kept or lost, the first one read, one
\* written at the end.
OutKept == \E d \in 0..1 :
    /\ \A i \in Out' : i + d \in Out /\ toBroker'[i] = toBroker[i + d]
    /\ \A i, j \in Out' : i + d = j + d => i = j

OutRead ==
    /\ 1 \in Out
    /\ \A i \in Out' : i + 1 \in Out /\ i + 1 # 1 /\ toBroker'[i] = toBroker[i + 1]
    /\ \A i, j \in Out' : i + 1 = j + 1 => i = j

OutWritten(p) ==
    \A i \in Out' : \/ i \in Out /\ toBroker'[i] = toBroker[i]
                    \/ i = Len(toBroker) + 1 /\ toBroker'[i] = p

InKept == \E d \in 0..1 :
    /\ \A i \in In' : i + d \in In /\ toClient'[i] = toClient[i + d]
    /\ \A i, j \in In' : i + d = j + d => i = j

InRead ==
    /\ 1 \in In
    /\ \A i \in In' : i + 1 \in In /\ i + 1 # 1 /\ toClient'[i] = toClient[i + 1]
    /\ \A i, j \in In' : i + 1 = j + 1 => i = j

InWritten(p) ==
    \A i \in In' : \/ i \in In /\ toClient'[i] = toClient[i]
                   \/ i = Len(toClient) + 1 /\ toClient'[i] = p

\* If PUBLISH and PUBREL only shrink, the tokens to the broker are kept or lost.
LEMMA OutShrinks ==
    ASSUME WireOK, WireOK', Shrinks(toBroker, toBroker', OutToken)
    PROVE  OutKept
<1>1. PICK d \in 0..1 : \A i \in 1..Len(toBroker') :
        toBroker'[i].type \in OutToken => i + d \in 1..Len(toBroker) /\ toBroker'[i] = toBroker[i + d]
  BY DEF Shrinks
<1>2. \A i \in Out' : i + d \in Out /\ toBroker'[i] = toBroker[i + d]
  BY <1>1 DEF Out
<1>3. \A i, j \in Out' : i + d = j + d => i = j
  BY DEF Out, WireOK
<1> QED
  BY <1>2, <1>3 DEF OutKept

\* If PUBREC, PUBACK and PUBCOMP only shrink, the tokens to the client are.
LEMMA InShrinks ==
    ASSUME WireOK, WireOK', Shrinks(toClient, toClient', InToken)
    PROVE  InKept
<1>1. PICK d \in 0..1 : \A i \in 1..Len(toClient') :
        toClient'[i].type \in InToken => i + d \in 1..Len(toClient) /\ toClient'[i] = toClient[i + d]
  BY DEF Shrinks
<1>2. \A i \in In' : i + d \in In /\ toClient'[i] = toClient[i + d]
  BY <1>1 DEF In
<1>3. \A i, j \in In' : i + d = j + d => i = j
  BY DEF In, WireOK
<1> QED
  BY <1>2, <1>3 DEF InKept

\* The broker reads a token.
LEMMA OutTail ==
    ASSUME WireOK, toBroker # << >>, Head(toBroker).type \in OutToken, toBroker' = Tail(toBroker)
    PROVE  OutRead /\ toBroker[1] = Head(toBroker)
BY DEF OutRead, Out, WireOK

\* The client reads a token.
LEMMA InTail ==
    ASSUME WireOK, toClient # << >>, Head(toClient).type \in InToken, toClient' = Tail(toClient)
    PROVE  InRead /\ toClient[1] = Head(toClient)
BY DEF InRead, In, WireOK

\* The client writes a packet, a token or not.
LEMMA OutAppend ==
    ASSUME WireOK, NEW p, toBroker' = Append(toBroker, p)
    PROVE  OutWritten(p)
BY DEF OutWritten, Out, WireOK

\* The broker writes a packet, a token or not.
LEMMA InAppend ==
    ASSUME WireOK, NEW p, toClient' = Append(toClient, p)
    PROVE  InWritten(p)
BY DEF InWritten, In, WireOK

\* Tokens kept or lost, with nothing accepted or backed, keep TokenInv.
LEMMA TokensKept ==
    ASSUME TokenInv, Issued \subseteq Issued', UNCHANGED <<accepted, backing>>, OutKept, InKept
    PROVE  TokenInv'
<1>1. PICK d \in 0..1 : /\ \A i \in Out' : i + d \in Out /\ toBroker'[i] = toBroker[i + d]
                        /\ \A i, j \in Out' : i + d = j + d => i = j
  BY DEF OutKept
<1>2. PICK e \in 0..1 : /\ \A i \in In' : i + e \in In /\ toClient'[i] = toClient[i + e]
                        /\ \A i, j \in In' : i + e = j + e => i = j
  BY DEF InKept
<1>4. (accepted \subseteq Issued)'
  BY DEF TokenInv
<1>5. (\A i \in Out : toBroker[i].pub \in Issued \ accepted)'
  BY <1>1 DEF TokenInv
<1>6. (\A i, j \in Out : toBroker[i].pub = toBroker[j].pub => i = j)'
  BY <1>1 DEF TokenInv
<1>7. (\A i \in In : /\ toClient[i].pub \in Issued
                     /\ toClient[i].type = "PUBREC" <=> toClient[i].pub \notin accepted
                     /\ \A b \in backing : b[2] # toClient[i].pub)'
  BY <1>2 DEF TokenInv
<1>8. (\A i, j \in In : toClient[i].pub = toClient[j].pub => i = j)'
  BY <1>2 DEF TokenInv
<1>9. (\A i \in Out, j \in In : toBroker[i].pub # toClient[j].pub)'
  BY <1>1, <1>2 DEF TokenInv
<1> QED
  BY <1>4, <1>5, <1>6, <1>7, <1>8, <1>9 DEF TokenInv

\* A publish token reaches the broker and its answer, of the same publish, leaves:
\* PUBREC, or the final acknowledgement, which the broker enters.
LEMMA TokenAnswered ==
    ASSUME TokenInv, BackedOnce, Issued' = Issued, UNCHANGED backing,
           OutRead, NEW q, q.pub = toBroker[1].pub, InWritten(q),
           accepted' = IF q.type = "PUBREC" THEN accepted ELSE accepted \cup {q.pub}
    PROVE  TokenInv' /\ q.pub \notin accepted
<1>2. q.pub \in Issued \ accepted
  BY DEF TokenInv, OutRead
<1>5. \A i \in Out' : toBroker'[i].pub # q.pub
  BY DEF TokenInv, OutRead
<1>7. \A i \in In : toClient[i].pub # q.pub
  BY DEF TokenInv, OutRead
<1>8. \A b \in backing : b[2] # q.pub
  BY <1>2 DEF BackedOnce
<1>9. (accepted \subseteq Issued)'
  BY <1>2 DEF TokenInv
<1>10. (\A i \in Out : toBroker[i].pub \in Issued \ accepted)'
  BY <1>5 DEF TokenInv, OutRead
<1>11. (\A i, j \in Out : toBroker[i].pub = toBroker[j].pub => i = j)'
  BY DEF TokenInv, OutRead
<1>12. (\A i \in In : /\ toClient[i].pub \in Issued
                      /\ toClient[i].type = "PUBREC" <=> toClient[i].pub \notin accepted
                      /\ \A b \in backing : b[2] # toClient[i].pub)'
  BY <1>2, <1>7, <1>8 DEF TokenInv, InWritten
<1>13. (\A i, j \in In : toClient[i].pub = toClient[j].pub => i = j)'
  BY <1>7 DEF TokenInv, InWritten
<1>14. (\A i \in Out, j \in In : toBroker[i].pub # toClient[j].pub)'
  BY <1>5 DEF TokenInv, OutRead, InWritten
<1> QED
  BY <1>2, <1>9, <1>10, <1>11, <1>12, <1>13, <1>14 DEF TokenInv

\* A new publish, which no packet names yet, is written.
LEMMA TokenMade ==
    ASSUME TokenInv, UNCHANGED <<accepted, backing>>, Issued \subseteq Issued',
           NEW p, p.pub \in Issued' \ Issued, OutWritten(p), InKept
    PROVE  TokenInv'
<1>1. PICK e \in 0..1 : /\ \A i \in In' : i + e \in In /\ toClient'[i] = toClient[i + e]
                        /\ \A i, j \in In' : i + e = j + e => i = j
  BY DEF InKept
<1>2. /\ \A i \in Out : toBroker[i].pub # p.pub
      /\ \A i \in In : toClient[i].pub # p.pub
      /\ p.pub \notin accepted
  BY DEF TokenInv
<1>3. (accepted \subseteq Issued)'
  BY DEF TokenInv
<1>4. (\A i \in Out : toBroker[i].pub \in Issued \ accepted)'
  BY <1>2 DEF TokenInv, OutWritten
<1>5. (\A i, j \in Out : toBroker[i].pub = toBroker[j].pub => i = j)'
  BY <1>2 DEF TokenInv, OutWritten
<1>6. (\A i \in In : /\ toClient[i].pub \in Issued
                     /\ toClient[i].type = "PUBREC" <=> toClient[i].pub \notin accepted
                     /\ \A b \in backing : b[2] # toClient[i].pub)'
  BY <1>1 DEF TokenInv
<1>7. (\A i, j \in In : toClient[i].pub = toClient[j].pub => i = j)'
  BY <1>1 DEF TokenInv
<1>8. (\A i \in Out, j \in In : toBroker[i].pub # toClient[j].pub)'
  BY <1>1, <1>2 DEF TokenInv, OutWritten
<1> QED
  BY <1>3, <1>4, <1>5, <1>6, <1>7, <1>8 DEF TokenInv

\* PUBREC is read and PUBREL written for the same publish.
LEMMA TokenReleased ==
    ASSUME TokenInv, Issued' = Issued, UNCHANGED <<accepted, backing>>,
           InRead, toClient[1].type = "PUBREC", NEW p, p.pub = toClient[1].pub, OutWritten(p)
    PROVE  TokenInv'
<1>1. p.pub \in Issued \ accepted /\ \A i \in Out : toBroker[i].pub # p.pub
  BY DEF TokenInv, InRead
<1>2. \A i \in In' : toClient'[i].pub # p.pub
  BY DEF TokenInv, InRead
<1>3. (accepted \subseteq Issued)'
  BY DEF TokenInv
<1>4. (\A i \in Out : toBroker[i].pub \in Issued \ accepted)'
  BY <1>1 DEF TokenInv, OutWritten
<1>5. (\A i, j \in Out : toBroker[i].pub = toBroker[j].pub => i = j)'
  BY <1>1 DEF TokenInv, OutWritten
<1>6. (\A i \in In : /\ toClient[i].pub \in Issued
                     /\ toClient[i].type = "PUBREC" <=> toClient[i].pub \notin accepted
                     /\ \A b \in backing : b[2] # toClient[i].pub)'
  BY DEF TokenInv, InRead
<1>7. (\A i, j \in In : toClient[i].pub = toClient[j].pub => i = j)'
  BY DEF TokenInv, InRead
<1>8. (\A i \in Out, j \in In : toBroker[i].pub # toClient[j].pub)'
  BY <1>2 DEF TokenInv, InRead, OutWritten
<1> QED
  BY <1>3, <1>4, <1>5, <1>6, <1>7, <1>8 DEF TokenInv

\* The final acknowledgement is read and spent.
LEMMA TokenSpent ==
    ASSUME TokenInv, Issued \subseteq Issued', UNCHANGED accepted, OutKept, InRead,
           toClient[1].type # "PUBREC", NEW p, backing' = backing \cup {<<p, toClient[1].pub>>}
    PROVE  /\ TokenInv'
           /\ toClient[1].pub \in accepted
           /\ \A b \in backing : b[2] # toClient[1].pub
<1>1. toClient[1].pub \in accepted /\ \A b \in backing : b[2] # toClient[1].pub
  BY DEF TokenInv, InRead
<1>2. \A i \in In' : toClient'[i].pub # toClient[1].pub
  BY DEF TokenInv, InRead
<1>3. PICK d \in 0..1 : /\ \A i \in Out' : i + d \in Out /\ toBroker'[i] = toBroker[i + d]
                        /\ \A i, j \in Out' : i + d = j + d => i = j
  BY DEF OutKept
<1>4. (accepted \subseteq Issued)'
  BY DEF TokenInv
<1>5. (\A i \in Out : toBroker[i].pub \in Issued \ accepted)'
  BY <1>3 DEF TokenInv
<1>6. (\A i, j \in Out : toBroker[i].pub = toBroker[j].pub => i = j)'
  BY <1>3 DEF TokenInv
<1>7. (\A i \in In : /\ toClient[i].pub \in Issued
                     /\ toClient[i].type = "PUBREC" <=> toClient[i].pub \notin accepted
                     /\ \A b \in backing : b[2] # toClient[i].pub)'
  BY <1>2 DEF TokenInv, InRead
<1>8. (\A i, j \in In : toClient[i].pub = toClient[j].pub => i = j)'
  BY DEF TokenInv, InRead
<1>9. (\A i \in Out, j \in In : toBroker[i].pub # toClient[j].pub)'
  BY <1>3 DEF TokenInv, InRead
<1> QED
  BY <1>1, <1>4, <1>5, <1>6, <1>7, <1>8, <1>9 DEF TokenInv

-----------------------------------------------------------------------------
(* The steps.                                                                *)

\* Publishes are only added to those issued; MQTTPublish adds the next one.
LEMMA IssuedStep ==
    ASSUME TypeOK
    PROVE  /\ UNCHANGED budget => Issued' = Issued
           /\ \A event \in {"subscribe", "connect", "ping", "down"} :
                Spend(event) => Issued' = Issued
           /\ Spend("publish") =>
                /\ Issued \subseteq Issued'
                /\ MaxPublishes - budget.publish + 1 \in Issued' \ Issued
<1>1. BudgetOK /\ MaxPublishes \in Nat /\ budget.publish \in Nat
  BY ConstantsOK DEF TypeOK, BudgetOK
<1>2. UNCHANGED budget => Issued' = Issued
  BY DEF Issued
<1>3. \A event \in {"subscribe", "connect", "ping", "down"} : Spend(event) => Issued' = Issued
  BY <1>1, SpendType DEF Issued
<1>4. Spend("publish") => /\ Issued \subseteq Issued'
                          /\ MaxPublishes - budget.publish + 1 \in Issued' \ Issued
  <2>1. Spend("publish") => budget'.publish = budget.publish - 1 /\ budget.publish > 0
    BY <1>1, SpendType DEF Spend
  <2> SUFFICES ASSUME Spend("publish")
               PROVE  /\ Issued \subseteq Issued'
                      /\ MaxPublishes - budget.publish + 1 \in Issued' \ Issued
    OBVIOUS
  <2>2. budget.publish \in 1..MaxPublishes
    BY <1>1, <2>1 DEF BudgetOK
  <2>3. Issued = 1..(MaxPublishes - budget.publish)
        /\ Issued' = 1..(MaxPublishes - (budget.publish - 1))
    BY <2>1 DEF Issued
  <2> QED
    BY <1>1, <2>2, <2>3
<1> QED
  BY <1>2, <1>3, <1>4

\* keepalive() writes a PINGREQ at most: no token, no publish.
LEMMA KeepaliveStep ==
    ASSUME TypeOK, WireOK', keepalive
    PROVE  Issued' = Issued /\ OutKept
<1>1. toBroker \in Seq(ToBroker) /\ [type |-> "PINGREQ"] \in ToBroker
  BY ToBrokerType DEF TypeOK, WireOK
<1>2. Shrinks(toBroker, toBroker', OutToken)
  BY <1>1, ShrinksSame, ShrinksAppend DEF keepalive, OutToken
<1>3. Issued' = Issued
  BY IssuedStep DEF keepalive
<1> QED
  BY <1>2, <1>3, OutShrinks DEF TypeOK

\* Every step keeps a waiting publish without a result: MQTTPublish adds a frame of
\* its own, and the frame goes when Published or TimedOut gives it a result.
LEMMA WaitingStep == TypeOK /\ TypeOK' /\ WaitingInv /\ Next => WaitingInv'
<1> SUFFICES ASSUME TypeOK, TypeOK', WaitingInv, Next PROVE WaitingInv'
  OBVIOUS
<1>1. CallsOK /\ WireOK /\ WireOK'
  BY DEF TypeOK
<1>2. UNCHANGED stack => KeepsCalls
  BY <1>1 DEF KeepsCalls, CallsOK
<1>3. ~Idle /\ Return => KeepsCalls
  BY <1>1, ReturnKeeps
<1>4. \A op, t, qos, id : op # "publish" /\ Enter(Call(op, t, 0, qos, id))
          /\ Issued' = Issued /\ UNCHANGED <<backing, failed>> => WaitingInv'
  <2> SUFFICES ASSUME NEW op, NEW t, NEW qos, NEW id, op # "publish",
                      Enter(Call(op, t, 0, qos, id)),
                      Issued' = Issued, UNCHANGED <<backing, failed>>
               PROVE  WaitingInv'
    OBVIOUS
  <2>1. Call(op, t, 0, qos, id).op # "publish"
    BY DEF Call
  <2>2. Waiting' = Waiting /\ \A i \in Waiting : stack'[i] = stack[i]
    BY <1>1, <2>1 DEF Enter, Waiting, CallsOK
  <2> QED
    BY <2>2 DEF WaitingInv
<1>5. CASE MQTTConnect \/ MQTTYield \/ MQTTDisconnect
  BY <1>1, <1>2, <1>4, <1>5, IssuedStep, WaitingKept
  DEF MQTTConnect, MQTTYield, MQTTDisconnect, Send, ledger, calls
<1>6. ASSUME NEW t \in Topics, MQTTSubscribe(t) \/ MQTTUnsubscribe(t) PROVE WaitingInv'
  BY <1>1, <1>2, <1>4, <1>6, IssuedStep, WaitingKept
  DEF MQTTSubscribe, MQTTUnsubscribe, Send, ledger, calls
<1>7. ASSUME NEW qos \in PublishQoS, MQTTPublish(qos) PROVE WaitingInv'
  <2> DEFINE pub == MaxPublishes - budget.publish + 1
             frame == Call("publish", NoTopic, pub, qos, getNextPacketId)
  <2>1. Issued \subseteq Issued' /\ pub \in Issued' \ Issued /\ UNCHANGED <<backing, failed>>
    BY <1>7, IssuedStep DEF MQTTPublish
  <2>2. CASE UNCHANGED calls
    BY <1>1, <1>2, <2>1, <2>2, WaitingKept DEF calls
  <2>3. CASE qos # 0 /\ Enter(frame)
    <3>1. stack' = Append(stack, frame) /\ frame.op = "publish" /\ frame.pub = pub
      BY <2>3 DEF Enter, Call
    <3> HIDE DEF pub, frame
    <3>2. \A i \in Waiting' : \/ i \in Waiting /\ stack'[i] = stack[i]
                              \/ i = Len(stack) + 1 /\ stack'[i] = frame
      BY <1>1, <3>1 DEF Waiting, CallsOK
    <3>3. /\ pub \notin failed /\ \A b \in backing : b[1] # pub
          /\ \A i \in Waiting : stack[i].pub # pub
      BY <2>1 DEF WaitingInv
    <3>4. (failed \subseteq Issued /\ \A b \in backing : b[1] \in Issued)'
      BY <2>1 DEF WaitingInv
    <3>5. (\A i \in Waiting : /\ stack[i].pub \in Issued
                              /\ stack[i].pub \notin failed
                              /\ \A b \in backing : b[1] # stack[i].pub)'
      BY <2>1, <3>1, <3>2, <3>3 DEF WaitingInv
    <3>6. (\A i, j \in Waiting : stack[i].pub = stack[j].pub => i = j)'
      BY <3>1, <3>2, <3>3 DEF WaitingInv
    <3> QED
      BY <3>4, <3>5, <3>6 DEF WaitingInv
  <2> QED
    BY <1>7, <2>2, <2>3 DEF MQTTPublish, Send
<1>8. CASE DropAck \/ Connected \/ Subscribed \/ Unsubscribed \/ Release \/ PingAnswered
  <2>1. Issued' = Issued
    BY <1>1, <1>8, KeepaliveStep, IssuedStep
    DEF DropAck, Connected, Subscribed, Unsubscribed, Release, PingAnswered
  <2>2. KeepsCalls
    BY <1>2, <1>3, <1>8 DEF DropAck, Connected, Subscribed, Unsubscribed, Release,
       PingAnswered, readPacket, InCycle, CycleFails, TimeRunsOut, calls
  <2>3. UNCHANGED <<backing, failed>>
    BY <1>8 DEF DropAck, Connected, Subscribed, Unsubscribed, Release, PingAnswered, ledger
  <2> QED
    BY <1>1, <2>1, <2>2, <2>3, WaitingKept
<1>9. CASE Published \/ TimedOut
  <2>1. Issued' = Issued /\ ~Idle /\ Return
    BY <1>1, <1>9, KeepaliveStep DEF Published, TimedOut, readPacket, InCycle
  <2>2. /\ Len(stack) \in Nat /\ Len(stack') = Len(stack) - 1
        /\ \A i \in 1..Len(stack') : stack'[i].op = stack[i].op /\ stack'[i].pub = stack[i].pub
    BY <1>1, <2>1, ReturnKeeps DEF KeepsCalls, CallsOK
  <2>3. \A i \in Waiting' : /\ i \in Waiting /\ i # Len(stack)
                            /\ stack'[i].pub = stack[i].pub
    BY <2>2 DEF Waiting
  <2>4. Top.op = "publish" => Len(stack) \in Waiting
    BY <2>1, <1>1 DEF Top, Waiting, Idle, CallsOK
  <2>5. Top.op = "publish" => /\ Top.pub \in Issued
                              /\ \A i \in Waiting' : stack[i].pub # Top.pub
    BY <2>3, <2>4 DEF WaitingInv, Top
  <2>6. CASE Published
    <3>1. Top.op = "publish" /\ failed' = failed
          /\ \A b \in backing' : b \in backing \/ b[1] = Top.pub
      BY <2>6 DEF Published
    <3> QED
      BY <2>1, <2>3, <2>5, <3>1 DEF WaitingInv
  <2>7. CASE TimedOut
    <3>1. /\ backing' = backing
          /\ failed' = failed \/ (Top.op = "publish" /\ failed' = failed \cup {Top.pub})
      BY <2>7 DEF TimedOut
    <3> QED
      BY <2>1, <2>3, <2>5, <3>1 DEF WaitingInv
  <2> QED
    BY <1>9, <2>6, <2>7
<1>10. CASE Deliver \/ HandlerReturns
  <2>1. ~Idle
    BY <1>10 DEF Deliver, HandlerReturns, readPacket, InCycle, InHandler
  <2>2. KeepsCalls
    BY <1>1, <1>2, <1>3, <1>10, <2>1, DeliveryKeeps
    DEF Deliver, HandlerReturns, RunHandler, Acknowledge, EndDelivery, TimeRunsOut
  <2>3. Issued' = Issued
    BY <1>1, <1>10, KeepaliveStep, IssuedStep
    DEF Deliver, HandlerReturns, RunHandler, Acknowledge
  <2> QED
    BY <1>1, <1>10, <2>2, <2>3, WaitingKept DEF Deliver, HandlerReturns, ledger
<1>11. CASE Tick \/ LinkFails \/ NetworkReconnect
  <2>1. KeepsCalls
    BY <1>1, <1>2, <1>11 DEF calls, Tick, LinkFails, NetworkReconnect, KeepsCalls, CallsOK
  <2> QED
    BY <1>1, <1>11, <2>1, IssuedStep, WaitingKept DEF Tick, LinkFails, NetworkReconnect, ledger
<1>12. CASE Broker
  <2>1. UNCHANGED <<calls, budget, backing, failed>>
    BY <1>12 DEF Broker, BrokerConnect, BrokerSubscribe, BrokerUnsubscribe, BrokerTakesPublish,
       BrokerCompletes, BrokerTakesAck, BrokerReleases, BrokerPongs, BrokerDisconnect,
       BrokerPublish, BrokerRetries, BrokerReads, BrokerSends, ledger
  <2> QED
    BY <1>1, <1>2, <2>1, IssuedStep, WaitingKept DEF calls
<1> QED
  BY <1>5, <1>6, <1>7, <1>8, <1>9, <1>10, <1>11, <1>12 DEF Next, App, Cycle

\* Every step keeps each publish to one token.
LEMMA TokenStep == TypeOK /\ TypeOK' /\ BackedOnce /\ TokenInv /\ Next => TokenInv'
<1> SUFFICES ASSUME TypeOK, TypeOK', BackedOnce, TokenInv, Next PROVE TokenInv'
  OBVIOUS
<1>1. WireOK /\ WireOK'
  BY DEF TypeOK
<1>2. toBroker \in Seq(ToBroker) /\ toClient \in Seq(ToClient)
  BY <1>1 DEF WireOK
<1>3. UNCHANGED toBroker => OutKept
  BY <1>1, <1>2, ShrinksSame, OutShrinks
<1>4. UNCHANGED toClient => InKept
  BY <1>1, <1>2, ShrinksSame, InShrinks
<1>5. toBroker' = << >> => OutKept
  BY <1>1, <1>2, ShrinksSame, OutShrinks
<1>6. \A p \in ToBroker : p.type \notin OutToken /\ toBroker' = Append(toBroker, p) => OutKept
  BY <1>1, <1>2, ShrinksAppend, OutShrinks
<1>7. \A p \in ToClient : p.type \notin InToken /\ toClient' = Append(toClient, p) => InKept
  BY <1>1, <1>2, ShrinksAppend, InShrinks
<1>8. toClient # << >> /\ toClient' = Tail(toClient) => InKept
  BY <1>1, <1>2, ShrinksTail, InShrinks
<1>9. toBroker # << >> /\ toBroker' = Tail(toBroker) => OutKept
  BY <1>1, <1>2, ShrinksTail, OutShrinks
<1>10. CASE MQTTConnect \/ MQTTYield \/ MQTTDisconnect
  <2>1. OutKept
    BY <1>3, <1>6, <1>10, ToBrokerType
    DEF MQTTConnect, MQTTYield, MQTTDisconnect, Send, wire, OutToken
  <2> QED
    BY <1>4, <1>10, <2>1, IssuedStep, TokensKept
    DEF MQTTConnect, MQTTYield, MQTTDisconnect, wire, ledger
<1>11. ASSUME NEW t \in Topics, MQTTSubscribe(t) \/ MQTTUnsubscribe(t) PROVE TokenInv'
  <2>1. OutKept
    BY <1>3, <1>6, <1>11, ToBrokerType DEF MQTTSubscribe, MQTTUnsubscribe, Send, OutToken
  <2> QED
    BY <1>4, <1>11, <2>1, IssuedStep, TokensKept DEF MQTTSubscribe, MQTTUnsubscribe, ledger
<1>12. ASSUME NEW qos \in PublishQoS, MQTTPublish(qos) PROVE TokenInv'
  <2> DEFINE pub == MaxPublishes - budget.publish + 1
             packet == [type |-> "PUBLISH", qos |-> qos,
                        id |-> IF qos = 0 THEN 0 ELSE getNextPacketId, pub |-> pub]
  <2>1. /\ Issued \subseteq Issued' /\ pub \in Issued' \ Issued
        /\ UNCHANGED <<accepted, backing, toClient>>
    BY <1>12, IssuedStep DEF MQTTPublish
  <2>2. toBroker' = toBroker \/ toBroker' = Append(toBroker, packet)
    BY <1>12 DEF MQTTPublish, Send
  <2>3. packet.pub = pub
    OBVIOUS
  <2> HIDE DEF pub, packet
  <2>4. CASE toBroker' = toBroker
    BY <1>3, <1>4, <2>1, <2>4, TokensKept
  <2>5. CASE toBroker' = Append(toBroker, packet)
    BY <1>1, <1>4, <2>1, <2>3, <2>5, OutAppend, TokenMade
  <2> QED
    BY <2>2, <2>4, <2>5
<1>13. CASE DropAck \/ Connected \/ Subscribed \/ Unsubscribed
  <2>1. Issued' = Issued /\ OutKept
    BY <1>1, <1>13, KeepaliveStep DEF DropAck, Connected, Subscribed, Unsubscribed
  <2>2. InKept
    BY <1>8, <1>13 DEF DropAck, Connected, Subscribed, Unsubscribed, readPacket
  <2> QED
    BY <1>13, <2>1, <2>2, TokensKept DEF DropAck, Connected, Subscribed, Unsubscribed, ledger
<1>14. CASE Published
  <2>1. Issued' = Issued /\ OutKept
    BY <1>1, <1>14, KeepaliveStep DEF Published
  <2>2. /\ toClient # << >> /\ toClient' = Tail(toClient)
        /\ Head(toClient).type \in {"PUBACK", "PUBCOMP"}
        /\ accepted' = accepted
        /\ backing' = backing \cup {<<Top.pub, Head(toClient).pub>>}
    BY <1>14 DEF Published, readPacket
  <2>3. InRead /\ toClient[1] = Head(toClient)
    BY <1>1, <2>2, InTail DEF InToken
  <2> QED
    BY <2>1, <2>2, <2>3, TokenSpent
<1>15. CASE Release
  <2>1. /\ toClient # << >> /\ toClient' = Tail(toClient) /\ Head(toClient).type = "PUBREC"
        /\ UNCHANGED <<budget, accepted, backing>>
    BY <1>15 DEF Release, readPacket, ledger
  <2>2. InRead /\ toClient[1] = Head(toClient)
    BY <1>1, <2>1, InTail DEF InToken
  <2>3. Issued' = Issued
    BY <2>1, IssuedStep
  <2>4. CASE toBroker' = toBroker
    BY <1>3, <1>8, <2>1, <2>3, <2>4, TokensKept
  <2> DEFINE packet == [type |-> "PUBREL", id |-> Head(toClient).id, pub |-> Head(toClient).pub]
  <2>5. CASE toBroker' = Append(toBroker, packet)
    <3>1. packet.pub = toClient[1].pub
      BY <2>2
    <3> HIDE DEF packet
    <3> QED
      BY <1>1, <2>1, <2>2, <2>3, <2>5, <3>1, OutAppend, TokenReleased
  <2> QED
    BY <1>15, <2>4, <2>5 DEF Release
<1>16. CASE PingAnswered
  <2>1. OutKept
    BY <1>3, <1>6, <1>16, ToBrokerType DEF PingAnswered, OutToken
  <2>2. InKept
    BY <1>8, <1>16 DEF PingAnswered, readPacket
  <2> QED
    BY <1>16, <2>1, <2>2, IssuedStep, TokensKept DEF PingAnswered, ledger
<1>17. CASE TimedOut
  <2>1. Issued' = Issued /\ OutKept
    BY <1>1, <1>17, KeepaliveStep DEF TimedOut
  <2> QED
    BY <1>4, <1>17, <2>1, TokensKept DEF TimedOut
<1>18. CASE Deliver \/ HandlerReturns
  <2>1. \A m \in Messages : Acknowledge(m) => Issued' = Issued /\ OutKept
    BY <1>1, <1>3, <1>6, ToBrokerType, KeepaliveStep, IssuedStep DEF Acknowledge, OutToken
  <2>2. \A m, slot, bytes : RunHandler(m, slot, bytes) => Issued' = Issued /\ OutKept
    BY <1>3, IssuedStep DEF RunHandler
  <2>3. CASE Deliver
    <3>1. Head(toClient).msg \in Messages
      BY <1>2, <2>3, FromBrokerType DEF Deliver, readPacket
    <3>2. Issued' = Issued /\ OutKept
      BY <1>3, <2>1, <2>2, <2>3, <3>1, IssuedStep DEF Deliver
    <3>3. InKept
      BY <1>8, <2>3 DEF Deliver, readPacket
    <3> QED
      BY <2>3, <3>2, <3>3, TokensKept DEF Deliver, ledger
  <2>4. CASE HandlerReturns
    <3>1. Top.msg \in Messages
      BY <2>4, TopType DEF HandlerReturns, InHandler, Frame, TypeOK
    <3>2. Issued' = Issued /\ OutKept
      BY <2>1, <2>2, <2>4, <3>1 DEF HandlerReturns
    <3> QED
      BY <1>4, <2>4, <3>2, TokensKept DEF HandlerReturns, ledger
  <2> QED
    BY <1>18, <2>3, <2>4
<1>19. CASE Tick \/ NetworkReconnect
  <2>1. OutKept /\ InKept
    <3>1. toClient' = << >> => InKept
      BY <1>1, <1>2, ShrinksSame, InShrinks
    <3> QED
      BY <1>3, <1>4, <1>5, <1>19, <3>1 DEF Tick, NetworkReconnect, wire
  <2> QED
    BY <1>19, <2>1, IssuedStep, TokensKept DEF Tick, NetworkReconnect, ledger
<1>20. CASE LinkFails
  <2>1. PICK k \in 0..Len(toClient) : toClient' = SubSeq(toClient, 1, k)
    BY <1>20 DEF LinkFails
  <2>2. Shrinks(toClient, toClient', InToken)
    BY <1>2, <2>1, ShrinksPrefix
  <2> QED
    BY <1>1, <1>5, <1>20, <2>2, InShrinks, IssuedStep, TokensKept DEF LinkFails, ledger
<1>21. CASE BrokerTakesPublish \/ BrokerCompletes
  <2> DEFINE type == IF BrokerCompletes THEN "PUBCOMP"
                     ELSE IF Head(toBroker).qos = 1 THEN "PUBACK" ELSE "PUBREC"
             q == [type |-> type, id |-> Head(toBroker).id, pub |-> Head(toBroker).pub]
  <2>1. /\ toBroker # << >> /\ toBroker' = Tail(toBroker) /\ Head(toBroker).type \in OutToken
        /\ UNCHANGED <<budget, backing>>
    BY <1>21 DEF BrokerTakesPublish, BrokerCompletes, BrokerReads, OutToken
  <2>2. OutRead /\ toBroker[1] = Head(toBroker)
    BY <1>1, <2>1, OutTail
  <2>3. Issued' = Issued
    BY <2>1, IssuedStep
  <2>4. CASE BrokerTakesPublish /\ Head(toBroker).qos = 0
    <3>1. UNCHANGED <<accepted, toClient>>
      BY <2>4 DEF BrokerTakesPublish
    <3> QED
      BY <1>4, <1>9, <2>1, <2>3, <3>1, TokensKept
  <2>5. ASSUME NEW a \in {"PUBACK", "PUBREC", "PUBCOMP"}, NEW p,
               p = [type |-> a, id |-> Head(toBroker).id, pub |-> Head(toBroker).pub],
               toClient' = Append(toClient, p),
               accepted' = IF a = "PUBREC" THEN accepted ELSE accepted \cup {p.pub}
        PROVE  TokenInv'
    <3>1. p.type = a /\ p.pub = toBroker[1].pub
      BY <2>2, <2>5
    <3> QED
      BY <1>1, <2>1, <2>2, <2>3, <2>5, <3>1, InAppend, TokenAnswered
  <2>6. CASE BrokerCompletes
    BY <2>5, <2>6 DEF BrokerCompletes, Reply
  <2>7. CASE BrokerTakesPublish /\ Head(toBroker).qos # 0
    BY <2>5, <2>7 DEF BrokerTakesPublish, Reply
  <2> QED
    BY <1>21, <2>4, <2>6, <2>7
<1>22. CASE \/ BrokerConnect \/ BrokerSubscribe \/ BrokerUnsubscribe \/ BrokerTakesAck
            \/ BrokerReleases \/ BrokerPongs \/ BrokerDisconnect
  <2>1. OutKept /\ UNCHANGED budget
    BY <1>9, <1>22 DEF BrokerConnect, BrokerSubscribe, BrokerUnsubscribe, BrokerTakesAck,
       BrokerReleases, BrokerPongs, BrokerDisconnect, BrokerReads
  <2>2. BrokerReleases => Head(toBroker).msg \in Messages
    BY <1>2, FromClientType DEF BrokerReleases, BrokerReads
  <2>3. InKept
    BY <1>4, <1>7, <1>22, <2>2, ToClientType
    DEF BrokerConnect, BrokerSubscribe, BrokerUnsubscribe, BrokerTakesAck,
        BrokerReleases, BrokerPongs, BrokerDisconnect, Reply, InToken
  <2>4. UNCHANGED <<accepted, backing>>
    BY <1>22 DEF BrokerConnect, BrokerSubscribe, BrokerUnsubscribe, BrokerTakesAck,
       BrokerReleases, BrokerPongs, BrokerDisconnect, BrokerReads
  <2> QED
    BY <2>1, <2>3, <2>4, IssuedStep, TokensKept
<1>23. ASSUME NEW m \in Messages, BrokerPublish(m) \/ BrokerRetries(m) PROVE TokenInv'
  <2>1. InKept
    BY <1>7, <1>23, ToClientType DEF BrokerPublish, BrokerRetries, BrokerSends, Reply, InToken
  <2> QED
    BY <1>3, <1>23, <2>1, IssuedStep, TokensKept
    DEF BrokerPublish, BrokerRetries, BrokerSends, ledger
<1> QED
  BY <1>10, <1>11, <1>12, <1>13, <1>14, <1>15, <1>16, <1>17, <1>18, <1>19, <1>20, <1>21,
     <1>22, <1>23 DEF Next, App, Cycle, Broker

\* No step returns SUCCESS on an acknowledgement spent before.
LEMMA ResultStep == TypeOK /\ WaitingInv /\ TokenInv /\ BackedOnce /\ Next => BackedOnce'
<1> SUFFICES ASSUME TypeOK, WaitingInv, TokenInv, BackedOnce, Next PROVE BackedOnce'
  OBVIOUS
<1>1. CASE Published \/ TimedOut
  <2>1. ~Idle /\ (Top.op = "publish" => Len(stack) \in Waiting)
    BY <1>1 DEF Published, TimedOut, readPacket, InCycle, Idle, Waiting, Top, TypeOK, CallsOK
  <2>2. Top.op = "publish" => \A b \in backing : b[1] # Top.pub
    BY <2>1 DEF WaitingInv, Top
  <2>3. CASE Published
    <3>1. /\ toClient # << >> /\ toClient' = Tail(toClient)
          /\ Head(toClient).type \in {"PUBACK", "PUBCOMP"} /\ Top.op = "publish"
          /\ backing' = backing \cup {<<Top.pub, Head(toClient).pub>>}
          /\ UNCHANGED accepted
      BY <2>3 DEF Published, readPacket
    <3>2. InRead /\ toClient[1] = Head(toClient)
      BY <3>1, InTail DEF InToken, TypeOK
    <3>3. toClient[1].pub \in accepted /\ \A b \in backing : b[2] # toClient[1].pub
      BY <3>1, <3>2 DEF TokenInv, InRead
    <3>4. \A b \in backing' :
            b \in backing \/ (b[1] = Top.pub /\ b[2] = toClient[1].pub
                              /\ b = <<Top.pub, toClient[1].pub>>)
      BY <3>1, <3>2
    <3> QED
      BY <2>2, <3>1, <3>3, <3>4 DEF BackedOnce
  <2>4. CASE TimedOut
    BY <2>4 DEF TimedOut, BackedOnce
  <2> QED
    BY <1>1, <2>3, <2>4
<1>2. CASE UNCHANGED backing /\ accepted \subseteq accepted'
  BY <1>2 DEF BackedOnce
<1>3. CASE App
  BY <1>2, <1>3 DEF App, MQTTConnect, MQTTYield, MQTTDisconnect, MQTTSubscribe,
     MQTTUnsubscribe, MQTTPublish, ledger
<1>4. CASE \/ DropAck \/ Connected \/ Subscribed \/ Unsubscribed \/ Release \/ PingAnswered
           \/ Deliver \/ HandlerReturns \/ Tick \/ LinkFails \/ NetworkReconnect
  BY <1>2, <1>4 DEF DropAck, Connected, Subscribed, Unsubscribed, Release, PingAnswered,
     Deliver, HandlerReturns, Tick, LinkFails, NetworkReconnect, ledger
<1>5. CASE Broker
  BY <1>2, <1>5 DEF Broker, BrokerConnect, BrokerSubscribe, BrokerUnsubscribe,
     BrokerTakesPublish, BrokerCompletes, BrokerTakesAck, BrokerReleases, BrokerPongs,
     BrokerDisconnect, BrokerPublish, BrokerRetries, BrokerReads, BrokerSends, ledger
<1> QED
  BY <1>1, <1>3, <1>4, <1>5 DEF Next, Cycle

-----------------------------------------------------------------------------
(* The theorems.                                                             *)

\* The two facts of the induction.
LEMMA LedgerInit == Init => LedgerInv
<1> SUFFICES ASSUME Init PROVE LedgerInv
  OBVIOUS
<1>1. TypeOK
  BY InitType
<1>2. BackedOnce
  BY DEF Init, BackedOnce
<1>3. WaitingInv
  BY DEF Init, WaitingInv, Waiting
<1>4. TokenInv
  BY DEF Init, TokenInv, Out, In
<1> QED
  BY <1>1, <1>2, <1>3, <1>4 DEF LedgerInv

\* Every step keeps the ledger, with the invariants that hold it together.
LEMMA LedgerNext == LedgerInv /\ [Next]_vars => LedgerInv'
<1> SUFFICES ASSUME LedgerInv, [Next]_vars PROVE LedgerInv'
  OBVIOUS
<1>1. TypeOK'
  BY NextType DEF LedgerInv
<1>2. CASE Next
  BY <1>1, <1>2, WaitingStep, TokenStep, ResultStep DEF LedgerInv
<1>3. CASE UNCHANGED vars
  <2>1. UNCHANGED <<stack, toBroker, toClient, budget, accepted, backing, failed>>
    BY <1>3 DEF vars, calls, wire, ledger
  <2> QED
    BY <1>1, <2>1 DEF LedgerInv, BackedOnce, WaitingInv, TokenInv, Issued, Waiting,
       Out, In
<1> QED
  BY <1>2, <1>3

\* The acknowledgement ledger is kept in every reachable state, for any number of
\* publishes, slots, packet ids, messages and link failures: one token for each
\* MQTTPublish call, and none for a call that has returned SUCCESS.
THEOREM LedgerCorrect == Spec => []LedgerInv
<1> QED
  BY LedgerInit, LedgerNext, PTL DEF Spec

\* MQTTPublish never reports SUCCESS twice on one acknowledgement, nor on none.
THEOREM BackedOnceCorrect == Spec => []BackedOnce
<1>1. LedgerInv => BackedOnce
  BY DEF LedgerInv
<1> QED
  BY <1>1, LedgerCorrect, PTL

\* Each step of the client is a step of the ledger or leaves the ledger alone.
LEMMA LedgerRefines == LedgerInv /\ LedgerInv' /\ [Next]_vars => [Ledger!Next]_(Ledger!vars)
<1> SUFFICES ASSUME LedgerInv, LedgerInv', [Next]_vars PROVE [Ledger!Next]_(Ledger!vars)
  OBVIOUS
<1>1. CASE UNCHANGED <<accepted, backing>>
  BY <1>1 DEF Ledger!vars
<1>2. CASE Published
  <2>1. /\ toClient # << >> /\ toClient' = Tail(toClient)
        /\ Head(toClient).type \in {"PUBACK", "PUBCOMP"} /\ Top.op = "publish" /\ ~Idle
        /\ backing' = backing \cup {<<Top.pub, Head(toClient).pub>>}
        /\ UNCHANGED accepted
    BY <1>2 DEF Published, readPacket, InCycle
  <2>2. InRead /\ toClient[1] = Head(toClient)
    BY <2>1, InTail DEF InToken, LedgerInv, TypeOK
  <2>3. toClient[1].pub \in accepted /\ \A b \in backing : b[2] # toClient[1].pub
    BY <2>1, <2>2 DEF LedgerInv, TokenInv, InRead
  <2>4. Len(stack) \in Waiting
    BY <2>1 DEF Idle, Waiting, Top, LedgerInv, TypeOK, CallsOK
  <2>5. \A b \in backing : b[1] # Top.pub
    BY <2>4 DEF LedgerInv, WaitingInv, Top
  <2>6. Top.pub \in Publish /\ Head(toClient).pub \in Publish
    BY <2>2, <2>3, <2>4 DEF LedgerInv, TypeOK, CallsOK, ResultsOK, Waiting, Top
  <2>7. Ledger!Succeed(Top.pub, Head(toClient).pub)
    BY <2>1, <2>2, <2>3, <2>5 DEF Ledger!Succeed
  <2> QED
    BY <2>6, <2>7 DEF Ledger!Next
<1>3. CASE BrokerTakesPublish \/ BrokerCompletes
  <2>1. /\ toBroker # << >> /\ toBroker' = Tail(toBroker) /\ Head(toBroker).type \in OutToken
        /\ UNCHANGED backing
    BY <1>3 DEF BrokerTakesPublish, BrokerCompletes, BrokerReads, OutToken
  <2>2. OutRead /\ toBroker[1] = Head(toBroker)
    BY <2>1, OutTail DEF LedgerInv, TypeOK
  <2>3. Head(toBroker).pub \notin accepted
    BY <2>2 DEF LedgerInv, TokenInv, OutRead
  <2>4. accepted' = accepted \/ accepted' = accepted \cup {Head(toBroker).pub}
    BY <1>3 DEF BrokerTakesPublish, BrokerCompletes
  <2>5. CASE accepted' = accepted \cup {Head(toBroker).pub}
    <3>1. Head(toBroker).pub \in Publish
      BY <2>5 DEF LedgerInv, TypeOK, ResultsOK
    <3>2. Ledger!Accept(Head(toBroker).pub)
      BY <2>1, <2>3, <2>5 DEF Ledger!Accept
    <3> QED
      BY <3>1, <3>2 DEF Ledger!Next
  <2> QED
    BY <1>1, <2>1, <2>4, <2>5
<1>4. CASE App
  BY <1>1, <1>4 DEF App, MQTTConnect, MQTTYield, MQTTDisconnect, MQTTSubscribe,
     MQTTUnsubscribe, MQTTPublish, ledger
<1>5. CASE \/ DropAck \/ Connected \/ Subscribed \/ Unsubscribed \/ Release \/ PingAnswered
           \/ TimedOut \/ Deliver \/ HandlerReturns \/ Tick \/ LinkFails \/ NetworkReconnect
  BY <1>1, <1>5 DEF DropAck, Connected, Subscribed, Unsubscribed, Release, PingAnswered,
     TimedOut, Deliver, HandlerReturns, Tick, LinkFails, NetworkReconnect, ledger
<1>6. CASE \/ BrokerConnect \/ BrokerSubscribe \/ BrokerUnsubscribe \/ BrokerTakesAck
           \/ BrokerReleases \/ BrokerPongs \/ BrokerDisconnect
           \/ \E m \in Messages : BrokerPublish(m) \/ BrokerRetries(m)
  BY <1>1, <1>6 DEF BrokerConnect, BrokerSubscribe, BrokerUnsubscribe, BrokerTakesAck,
     BrokerReleases, BrokerPongs, BrokerDisconnect, BrokerPublish, BrokerRetries,
     BrokerReads, BrokerSends, ledger
<1>7. CASE UNCHANGED vars
  BY <1>1, <1>7 DEF vars, ledger
<1> QED
  BY <1>2, <1>3, <1>4, <1>5, <1>6, <1>7 DEF Next, Cycle, Broker

\* The client implements the ledger: the acknowledgements of the broker and the
\* results of MQTTPublish behave as AckLedger says.
THEOREM ImplementsLedgerCorrect == Spec => ImplementsLedger
<1>1. Init => Ledger!Init
  BY DEF Init, Ledger!Init
<1> QED
  BY <1>1, LedgerCorrect, LedgerRefines, PTL DEF Spec, ImplementsLedger, Ledger!Spec
=============================================================================
