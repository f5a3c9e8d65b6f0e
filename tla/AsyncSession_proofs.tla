------------------------- MODULE AsyncSession_proofs -------------------------
(***************************************************************************)
(* Theorems about the Linux session: for every set of topics and every      *)
(* number of sessions, losses and requests, the application hears of a      *)
(* success at most once for each subscription it asked for, and a           *)
(* connection at rest has its subscriptions.  The inductive invariant is    *)
(* SessionInv: one lemma for each of its conjuncts, one step in it for      *)
(* each action.                                                            *)
(***************************************************************************)
EXTENDS AsyncSession, TLAPS, SequenceTheorems

\* Spending an event leaves every budget a number.
LEMMA UseType ==
    ASSUME SessionTypeOK, NEW event \in {"create", "subscribe", "loss", "connectFailure"},
           Use(event)
    PROVE  left' \in [{"create", "subscribe", "loss", "connectFailure"} -> Nat]
BY DEF SessionTypeOK, Use

\* What telling the application adds.
LEMMA TellType ==
    ASSUME SessionTypeOK, NEW ok \in Nat, NEW failed \in Nat, Tell(ok, failed)
    PROVE  /\ told' \in [ok : Nat, failed : Nat]
           /\ told'.ok = told.ok + ok
BY DEF SessionTypeOK, Tell

\* A request is at the end of the queue, if the connection takes it.
LEMMA RequestType ==
    ASSUME SessionTypeOK, NEW topics \in SUBSET Topic, Request(topics)
    PROVE  /\ pending' \in Seq(SUBSET Topic)
           /\ conn # "up" => pending' = pending
           /\ conn = "up" => Len(pending') = Len(pending) + 1
           /\ conn = "up" => pending'[Len(pending')] = topics
           /\ \A i \in 1..Len(pending) : pending'[i] = pending[i]
<1>1. pending \in Seq(SUBSET Topic) /\ Len(pending) \in Nat
  BY DEF SessionTypeOK
<1>2. CASE conn = "up"
  <2>1. pending' = Append(pending, topics)
    BY <1>2 DEF Request
  <2> QED
    BY <1>1, <1>2, <2>1, AppendProperties
<1>3. CASE conn # "up"
  BY <1>1, <1>3 DEF Request
<1> QED
  BY <1>2, <1>3

\* The queue without its head.
LEMMA TailType ==
    ASSUME SessionTypeOK, pending # << >>
    PROVE  /\ Head(pending) \in SUBSET Topic
           /\ Head(pending) = pending[1]
           /\ Tail(pending) \in Seq(SUBSET Topic)
           /\ Len(pending) \in Nat \ {0}
           /\ Len(Tail(pending)) = Len(pending) - 1
           /\ \A i \in 1..(Len(pending) - 1) : Tail(pending)[i] = pending[i + 1]
BY HeadTailProperties DEF SessionTypeOK

\* Forgetting the client leaves no connection, no request and no callback.
LEMMA ForgetType ==
    ASSUME SessionTypeOK, Forget
    PROVE  /\ told' \in [ok : Nat, failed : Nat] /\ told'.ok = told.ok
           /\ conn' = "down" /\ onSuccess' = FALSE /\ upcall' = "none"
           /\ pending' = << >> /\ pending' \in Seq(SUBSET Topic) /\ granted' = {}
<1>1. PICK failed \in {0, Len(pending)} : Tell(0, failed)
  BY DEF Forget
<1>2. failed \in Nat
  BY DEF SessionTypeOK
<1>3. told' \in [ok : Nat, failed : Nat] /\ told'.ok = told.ok + 0
  BY <1>1, <1>2, TellType
<1> QED
  BY <1>3 DEF Forget, SessionTypeOK

\* Nothing changed leaves the invariant alone.
LEMMA StutterInv == SessionInv /\ UNCHANGED sessionVars => SessionInv'
  BY DEF SessionInv, SessionTypeOK, ToldAtMostAsked, CountInv, GoneInv, SubscribedInv,
         Armed, Hidden, sessionVars, library, news

\* The initial state satisfies the invariant.
LEMMA SessionInitInv == SessionInit => SessionInv
<1> SUFFICES ASSUME SessionInit PROVE SessionInv
  OBVIOUS
<1>1. left \in [{"create", "subscribe", "loss", "connectFailure"} -> Nat]
  BY SessionConstantsOK DEF SessionInit
<1>2. told \in [ok : Nat, failed : Nat] /\ told.ok = 0
  BY DEF SessionInit
<1>3. pending \in Seq(SUBSET Topic) /\ Len(pending) = 0
  BY DEF SessionInit
<1>4. SessionTypeOK
  BY <1>1, <1>2, <1>3 DEF SessionInit, SessionTypeOK
<1>5. Armed = 0 /\ Hidden = 0 /\ asked = 0
  BY DEF SessionInit, Armed, Hidden
<1>6. ToldAtMostAsked /\ CountInv
  BY <1>2, <1>3, <1>5 DEF ToldAtMostAsked, CountInv
<1> QED
  BY <1>4, <1>6 DEF SessionInit, SessionInv, GoneInv, SubscribedInv

\* Each action keeps every variable in its type.
LEMMA TypeNext == SessionInv /\ SessionNext => SessionTypeOK'
<1> SUFFICES ASSUME SessionTypeOK, SessionNext PROVE SessionTypeOK'
  BY DEF SessionInv
<1> DEFINE Event == {"create", "subscribe", "loss", "connectFailure"}
<1>1. CASE MQTTAsyncCreate
  <2>1. left' \in [Event -> Nat]
    BY <1>1, UseType DEF MQTTAsyncCreate
  <2>2. /\ mClient' \in BOOLEAN /\ mReconnected' \in BOOLEAN
        /\ onSuccess' \in BOOLEAN /\ lost' \in BOOLEAN
    BY <1>1 DEF MQTTAsyncCreate, SessionTypeOK
  <2>3. asked' \in Nat /\ conn' \in {"down", "connecting", "up"}
    BY <1>1 DEF MQTTAsyncCreate, SessionTypeOK
  <2> QED
    BY <1>1, <2>1, <2>2, <2>3 DEF MQTTAsyncCreate, SessionTypeOK
<1>2. CASE MQTTAsyncDisconnect
  <2>1. CASE Forget
    BY <1>2, <2>1, ForgetType DEF MQTTAsyncDisconnect, SessionTypeOK
  <2>2. CASE UNCHANGED <<onSuccess, upcall, pending, granted, told>> /\ conn' \in {"connecting", "down"}
    BY <1>2, <2>2 DEF MQTTAsyncDisconnect, SessionTypeOK
  <2> QED
    BY <1>2, <2>1, <2>2 DEF MQTTAsyncDisconnect
<1>3. CASE MQTTAsyncDestroy
  BY <1>3, ForgetType DEF MQTTAsyncDestroy, SessionTypeOK
<1>4. ASSUME NEW t \in OtherTopics, MQTTAsyncSubscribe(t) PROVE SessionTypeOK'
  <2>1. left' \in [Event -> Nat]
    BY <1>4, UseType DEF MQTTAsyncSubscribe
  <2>2. pending' \in Seq(SUBSET Topic)
    BY <1>4, RequestType DEF MQTTAsyncSubscribe, Topic
  <2> QED
    BY <1>4, <2>1, <2>2 DEF MQTTAsyncSubscribe, SessionTypeOK
<1>5. CASE OnConnect
  <2>1. CASE conn = "up"
    <3>1. pending' \in Seq(SUBSET Topic)
      BY <1>5, <2>1, RequestType DEF OnConnect, MQTTAsyncSubscribeMany, Topic
    <3> QED
      BY <1>5, <2>1, <3>1 DEF OnConnect, SessionTypeOK
  <2>2. CASE conn # "up"
    BY <1>5, <2>2, ForgetType DEF OnConnect, SessionTypeOK
  <2> QED
    BY <2>1, <2>2
<1>6. CASE OnConnected
  <2>1. pending' \in Seq(SUBSET Topic)
    BY <1>6, RequestType DEF OnConnected, MQTTAsyncSubscribeMany, Topic, SessionTypeOK
  <2>2. mReconnected' \in BOOLEAN
    BY <1>6 DEF OnConnected, SessionTypeOK
  <2>3. /\ upcall' \in {"none", "onSuccess", "connect", "reconnect"}
        /\ UNCHANGED <<mClient, conn, onSuccess, granted, left, asked, told, refused, lost>>
    BY <1>6 DEF OnConnected, news
  <2> QED
    BY <2>1, <2>2, <2>3 DEF SessionTypeOK
<1>7. CASE OnSubscribe
  <2>1. PICK grants \in SUBSET Head(pending) : Answer(grants)
    BY <1>7 DEF OnSubscribe
  <2>2. Head(pending) \in SUBSET Topic /\ pending' \in Seq(SUBSET Topic)
    BY <1>7, <2>1, TailType DEF OnSubscribe, Answer
  <2>3. told' \in [ok : Nat, failed : Nat]
    BY <1>7, TellType DEF OnSubscribe
  <2> QED
    BY <1>7, <2>1, <2>2, <2>3 DEF OnSubscribe, Answer, SessionTypeOK
<1>8. CASE OnSubscribeFailure
  <2>1. Head(pending) \in SUBSET Topic /\ pending' \in Seq(SUBSET Topic)
    BY <1>8, TailType DEF OnSubscribeFailure, Answer
  <2>2. told' \in [ok : Nat, failed : Nat]
    BY <1>8, TellType DEF OnSubscribeFailure
  <2> QED
    BY <1>8, <2>1, <2>2 DEF OnSubscribeFailure, Answer, SessionTypeOK
<1>9. CASE OnConnectFailure
  <2>1. left' \in [Event -> Nat]
    BY <1>9, UseType DEF OnConnectFailure
  <2> QED
    BY <1>9, <2>1 DEF OnConnectFailure, SessionTypeOK
<1>10. CASE ConnectSucceeds
  BY <1>10 DEF ConnectSucceeds, SessionTypeOK
<1>11. CASE ConnectionLostCallback
  <2>1. left' \in [Event -> Nat]
    BY <1>11, UseType DEF ConnectionLostCallback
  <2>2. PICK failed \in {0, Len(pending)} : Tell(0, failed)
    BY <1>11 DEF ConnectionLostCallback
  <2>3. told' \in [ok : Nat, failed : Nat]
    BY <2>2, TellType DEF SessionTypeOK
  <2>4. pending' \in Seq(SUBSET Topic)
    BY <1>11 DEF ConnectionLostCallback
  <2> QED
    BY <1>11, <2>1, <2>3, <2>4 DEF ConnectionLostCallback, SessionTypeOK
<1> QED
  BY <1>1, <1>2, <1>3, <1>4, <1>5, <1>6, <1>7, <1>8, <1>9, <1>10, <1>11
  DEF SessionNext, App, Library, Receive

\* The terms of the count.
LEMMA CountTerms ==
    ASSUME SessionInv
    PROVE  /\ SessionTypeOK
           /\ told.ok \in Nat /\ asked \in Nat /\ Len(pending) \in Nat
           /\ Armed \in {0, 1} /\ Hidden \in {0, 1}
           /\ told.ok <= asked
           /\ told.ok + Len(pending) + Armed <= asked + Hidden
           /\ upcall = "reconnect" => told.ok + Len(pending) <= asked
           /\ conn # "up" => Len(pending) = 0
BY DEF SessionInv, SessionTypeOK, ToldAtMostAsked, CountInv, GoneInv, Armed, Hidden

\* What has to hold of the terms after a step.
LEMMA CountStep ==
    ASSUME told'.ok <= asked', told'.ok + Len(pending') + Armed' <= asked' + Hidden',
           upcall' = "reconnect" => told'.ok + Len(pending') <= asked'
    PROVE  ToldAtMostAsked' /\ CountInv'
BY DEF ToldAtMostAsked, CountInv

\* A step that adds nothing to the count keeps it.
LEMMA CountKept ==
    ASSUME SessionInv,
           told'.ok = told.ok, asked' = asked, Hidden' = Hidden,
           \/ Armed' = Armed /\ pending' = pending /\ upcall' \in {upcall, "none"}
           \/ Armed' = 0 /\ pending' = << >> /\ upcall' \in {upcall, "none"}
    PROVE  ToldAtMostAsked' /\ CountInv'
BY CountTerms, CountStep

\* Each action keeps the count of promised, pending and hidden subscriptions.
LEMMA CountNext == SessionInv /\ SessionNext => ToldAtMostAsked' /\ CountInv'
<1> SUFFICES ASSUME SessionInv, SessionNext PROVE ToldAtMostAsked' /\ CountInv'
  OBVIOUS
<1> USE CountTerms
<1>1. CASE MQTTAsyncCreate
  <2>1. pending' = pending /\ told' = told /\ Len(pending) = 0 /\ Armed = 0
        /\ upcall' = "none"
    BY <1>1 DEF MQTTAsyncCreate, SessionInv, GoneInv, Armed
  <2>2. Hidden' = 0
    BY <1>1 DEF MQTTAsyncCreate, Hidden
  <2>3. (Armed' = 1 /\ asked' = asked + 1) \/ (Armed' = Armed /\ asked' = asked)
    BY <1>1 DEF MQTTAsyncCreate, Armed
  <2> QED
    BY <2>1, <2>2, <2>3, CountStep
<1>2. CASE MQTTAsyncDisconnect
  <2>1. Hidden' = Hidden /\ asked' = asked
    BY <1>2 DEF MQTTAsyncDisconnect, Hidden
  <2>2. CASE Forget
    <3>1. Armed' = 0 /\ pending' = << >> /\ upcall' = "none" /\ told'.ok = told.ok
      BY <2>2, ForgetType DEF Armed
    <3> QED
      BY <2>1, <3>1, CountKept
  <2>3. CASE UNCHANGED <<onSuccess, upcall, pending, granted, told>>
    <3>1. Armed' = Armed /\ pending' = pending /\ told' = told /\ upcall' = upcall
      BY <2>3 DEF Armed
    <3> QED
      BY <2>1, <3>1, CountKept
  <2> QED
    BY <1>2, <2>2, <2>3 DEF MQTTAsyncDisconnect
<1>3. CASE MQTTAsyncDestroy
  <2>1. Armed' = 0 /\ pending' = << >> /\ upcall' = "none" /\ told'.ok = told.ok
    BY <1>3, ForgetType DEF MQTTAsyncDestroy, Armed
  <2>2. Hidden' = Hidden /\ asked' = asked
    BY <1>3 DEF MQTTAsyncDestroy, Hidden
  <2> QED
    BY <2>1, <2>2, CountKept
<1>4. ASSUME NEW t \in OtherTopics, MQTTAsyncSubscribe(t) PROVE ToldAtMostAsked' /\ CountInv'
  <2>1. Armed' = Armed /\ Hidden' = Hidden /\ told' = told /\ upcall' = upcall
    BY <1>4 DEF MQTTAsyncSubscribe, Armed, Hidden
  <2>2. \/ Len(pending') = Len(pending) + 1 /\ asked' = asked + 1
        \/ pending' = pending /\ asked' = asked
    BY <1>4, RequestType DEF MQTTAsyncSubscribe, Topic
  <2> QED
    BY <2>1, <2>2, CountStep
<1>5. CASE OnConnect
  <2>1. Hidden' = Hidden /\ asked' = asked
    BY <1>5 DEF OnConnect, Hidden
  <2>2. CASE conn = "up"
    <3>1. Armed = 1 /\ Armed' = 0 /\ upcall' = "connect"
      BY <1>5, <2>2 DEF OnConnect, Armed, SessionInv, GoneInv
    <3>2. Len(pending') = Len(pending) + 1 /\ told' = told
      BY <1>5, <2>2, RequestType DEF OnConnect, MQTTAsyncSubscribeMany, Topic
    <3> QED
      BY <2>1, <3>1, <3>2, CountStep
  <2>3. CASE conn # "up"
    <3>1. Armed' = 0 /\ pending' = << >> /\ upcall' = "none" /\ told'.ok = told.ok
      BY <1>5, <2>3, ForgetType DEF OnConnect, Armed
    <3> QED
      BY <2>1, <3>1, CountKept
  <2> QED
    BY <2>2, <2>3
<1>6. CASE OnConnected
  <2>1. asked' = asked /\ told' = told /\ upcall' = "none"
    BY <1>6 DEF OnConnected, news
  <2>2. CASE upcall = "connect"
    <3>1. Armed' = Armed /\ Hidden' = Hidden /\ pending' = pending
      BY <1>6, <2>2 DEF OnConnected, Armed, Hidden
    <3> QED
      BY <2>1, <3>1, CountKept
  <2>3. CASE upcall = "reconnect"
    <3>1. Armed = 0 /\ Armed' = 0 /\ Hidden' = 1
      BY <1>6, <2>3 DEF OnConnected, Armed, Hidden, SessionInv, GoneInv
    <3>2. Len(pending') = Len(pending) + 1 \/ pending' = pending
      BY <1>6, <2>3, RequestType DEF OnConnected, MQTTAsyncSubscribeMany, Topic
    <3> QED
      BY <2>1, <2>3, <3>1, <3>2, CountStep
  <2> QED
    BY <1>6, <2>2, <2>3 DEF OnConnected
<1>7. CASE OnSubscribe
  <2>1. PICK grants \in SUBSET Head(pending) : Answer(grants)
    BY <1>7 DEF OnSubscribe
  <2>2. /\ Len(pending) >= 1 /\ Len(pending') = Len(pending) - 1
        /\ asked' = asked /\ upcall' = "none"
    BY <1>7, <2>1, TailType DEF OnSubscribe, Answer
  <2>3. Armed' = Armed /\ Hidden' = 0
    BY <1>7, <2>1 DEF OnSubscribe, Answer, Armed, Hidden
  <2>4. told'.ok = told.ok + (1 - Hidden)
    BY <1>7, TellType DEF OnSubscribe, Hidden
  <2> QED
    BY <2>2, <2>3, <2>4, CountStep
<1>8. CASE OnSubscribeFailure
  <2>1. /\ Len(pending) >= 1 /\ Len(pending') = Len(pending) - 1
        /\ asked' = asked /\ upcall' = "none"
    BY <1>8, TailType DEF OnSubscribeFailure, Answer
  <2>2. Armed' = Armed /\ Hidden' = Hidden
    BY <1>8 DEF OnSubscribeFailure, Answer, Armed, Hidden
  <2>3. told'.ok = told.ok + 0
    BY <1>8, TellType DEF OnSubscribeFailure
  <2> QED
    BY <2>1, <2>2, <2>3, CountStep
<1>9. CASE OnConnectFailure
  <2>1. Armed' = Armed /\ Hidden' = Hidden
    BY <1>9 DEF OnConnectFailure, Armed, Hidden
  <2> QED
    BY <1>9, <2>1, CountKept DEF OnConnectFailure
<1>10. CASE ConnectSucceeds
  <2>1. /\ Hidden' = Hidden /\ asked' = asked /\ told' = told
        /\ pending' = pending /\ Len(pending) = 0
    BY <1>10 DEF ConnectSucceeds, Hidden
  <2>2. Armed' = Armed
    BY <1>10 DEF ConnectSucceeds, Armed
  <2> QED
    BY <2>1, <2>2, CountStep
<1>11. CASE ConnectionLostCallback
  <2>1. PICK failed \in {0, Len(pending)} : Tell(0, failed)
    BY <1>11 DEF ConnectionLostCallback
  <2>2. told'.ok = told.ok + 0
    BY <2>1, TellType
  <2>3. /\ Armed' = Armed /\ Hidden' = Hidden /\ asked' = asked
        /\ Len(pending') = 0 /\ upcall' = upcall
    BY <1>11 DEF ConnectionLostCallback, Armed, Hidden
  <2> QED
    BY <2>2, <2>3, CountStep
<1> QED
  BY <1>1, <1>2, <1>3, <1>4, <1>5, <1>6, <1>7, <1>8, <1>9, <1>10, <1>11
  DEF SessionNext, App, Library, Receive

\* Each action leaves nothing behind of a connection or a client that is gone.
LEMMA GoneNext == SessionInv /\ SessionNext => GoneInv'
<1> SUFFICES ASSUME SessionTypeOK, GoneInv, SessionNext PROVE GoneInv'
  BY DEF SessionInv
<1> USE DEF GoneInv
<1>1. CASE MQTTAsyncCreate
  BY <1>1 DEF MQTTAsyncCreate
<1>2. CASE MQTTAsyncDisconnect
  BY <1>2 DEF MQTTAsyncDisconnect, Forget
<1>3. CASE MQTTAsyncDestroy
  BY <1>3 DEF MQTTAsyncDestroy, Forget
<1>4. CASE \E t \in OtherTopics : MQTTAsyncSubscribe(t)
  BY <1>4 DEF MQTTAsyncSubscribe, Request
<1>5. CASE OnConnect
  BY <1>5 DEF OnConnect, MQTTAsyncSubscribeMany, Request, Forget
<1>6. CASE OnConnected
  BY <1>6 DEF OnConnected, MQTTAsyncSubscribeMany, Request
<1>7. CASE OnSubscribe
  BY <1>7 DEF OnSubscribe, Answer
<1>8. CASE OnSubscribeFailure
  BY <1>8 DEF OnSubscribeFailure, Answer
<1>9. CASE OnConnectFailure
  BY <1>9 DEF OnConnectFailure
<1>10. CASE ConnectSucceeds
  BY <1>10 DEF ConnectSucceeds
<1>11. CASE ConnectionLostCallback
  BY <1>11 DEF ConnectionLostCallback
<1> QED
  BY <1>1, <1>2, <1>3, <1>4, <1>5, <1>6, <1>7, <1>8, <1>9, <1>10, <1>11
  DEF SessionNext, App, Library, Receive

\* A request at the end of the queue is in the queue, and those before it stay.
LEMMA RequestedStays ==
    ASSUME SessionTypeOK, NEW topics \in SUBSET Topic, Request(topics), conn = "up",
           topics = mSubscribeTopic \/ \E i \in 1..Len(pending) : pending[i] = mSubscribeTopic
    PROVE  \E i \in 1..Len(pending') : pending'[i] = mSubscribeTopic
<1>1. Len(pending) \in Nat /\ Len(pending') = Len(pending) + 1
  BY RequestType DEF SessionTypeOK
<1>2. CASE topics = mSubscribeTopic
  BY <1>1, <1>2, RequestType
<1>3. CASE \E i \in 1..Len(pending) : pending[i] = mSubscribeTopic
  <2>1. PICK i \in 1..Len(pending) : pending[i] = mSubscribeTopic
    BY <1>3
  <2>2. i \in 1..Len(pending') /\ pending'[i] = mSubscribeTopic
    BY <1>1, <2>1, RequestType
  <2> QED
    BY <2>2
<1> QED
  BY <1>2, <1>3

\* An answer to the request brings its topics; one to another request leaves it queued.
LEMMA AnswerStays ==
    ASSUME SessionTypeOK, pending # << >>, SubscribedInv,
           NEW grants \in SUBSET Head(pending), Answer(grants)
    PROVE  SubscribedInv'
<1>1. granted' \cup refused' = granted \cup refused \cup Head(pending)
  BY DEF Answer
<1>2. CASE mSubscribeTopic \subseteq granted \cup refused
  BY <1>1, <1>2 DEF SubscribedInv
<1>3. CASE \E i \in 1..Len(pending) : pending[i] = mSubscribeTopic
  <2>1. PICK i \in 1..Len(pending) : pending[i] = mSubscribeTopic
    BY <1>3
  <2>2. CASE i = 1
    BY <1>1, <2>1, <2>2, TailType DEF SubscribedInv
  <2>3. CASE i # 1
    <3>1. Len(pending) \in Nat \ {0} /\ i - 1 \in 1..(Len(pending) - 1) /\ (i - 1) + 1 = i
      BY <2>1, <2>3, TailType
    <3>2. pending' = Tail(pending) /\ Len(pending') = Len(pending) - 1
      BY TailType DEF Answer
    <3>3. pending'[i - 1] = mSubscribeTopic
      BY <2>1, <3>1, <3>2, TailType
    <3> QED
      BY <3>1, <3>2, <3>3 DEF SubscribedInv
  <2> QED
    BY <2>2, <2>3
<1>4. conn = "up" /\ upcall = "none"
  BY DEF Answer
<1> QED
  BY <1>2, <1>3, <1>4 DEF SubscribedInv

\* Each action leaves a connection its subscriptions, or what will bring them.
LEMMA SubscribedNext == SessionInv /\ SessionNext => SubscribedInv'
<1> SUFFICES ASSUME SessionTypeOK, GoneInv, SubscribedInv, SessionNext PROVE SubscribedInv'
  BY DEF SessionInv
<1>1. CASE MQTTAsyncCreate
  BY <1>1 DEF MQTTAsyncCreate, SubscribedInv, GoneInv
<1>2. CASE MQTTAsyncDisconnect
  BY <1>2 DEF MQTTAsyncDisconnect, Forget, SubscribedInv
<1>3. CASE MQTTAsyncDestroy
  BY <1>3 DEF MQTTAsyncDestroy, Forget, SubscribedInv
<1>4. ASSUME NEW t \in OtherTopics, MQTTAsyncSubscribe(t) PROVE SubscribedInv'
  <2>1. UNCHANGED <<conn, upcall, granted, refused>> /\ Request({t}) /\ {t} \in SUBSET Topic
    BY <1>4 DEF MQTTAsyncSubscribe, Topic
  <2>2. CASE conn = "up" /\ \E i \in 1..Len(pending) : pending[i] = mSubscribeTopic
    BY <2>1, <2>2, RequestedStays DEF SubscribedInv
  <2> QED
    BY <2>1, <2>2 DEF SubscribedInv
<1>5. CASE OnConnect
  <2>1. CASE conn = "up"
    BY <1>5, <2>1, RequestedStays DEF OnConnect, MQTTAsyncSubscribeMany, Topic, SubscribedInv
  <2>2. CASE conn # "up"
    BY <1>5, <2>2 DEF OnConnect, Forget, SubscribedInv
  <2> QED
    BY <2>1, <2>2
<1>6. CASE OnConnected
  <2>1. CASE upcall = "connect"
    BY <1>6, <2>1 DEF OnConnected, news, SubscribedInv
  <2>2. CASE upcall = "reconnect" /\ conn = "up"
    BY <1>6, <2>2, RequestedStays DEF OnConnected, MQTTAsyncSubscribeMany, Topic, SubscribedInv
  <2>3. CASE conn # "up"
    BY <1>6, <2>3 DEF OnConnected, SubscribedInv
  <2> QED
    BY <1>6, <2>1, <2>2, <2>3 DEF OnConnected
<1>7. CASE OnSubscribe
  BY <1>7, AnswerStays DEF OnSubscribe
<1>8. CASE OnSubscribeFailure
  BY <1>8, AnswerStays DEF OnSubscribeFailure
<1>9. CASE OnConnectFailure
  BY <1>9 DEF OnConnectFailure, SubscribedInv
<1>10. CASE ConnectSucceeds
  BY <1>10 DEF ConnectSucceeds, SubscribedInv
<1>11. CASE ConnectionLostCallback
  BY <1>11 DEF ConnectionLostCallback, SubscribedInv
<1> QED
  BY <1>1, <1>2, <1>3, <1>4, <1>5, <1>6, <1>7, <1>8, <1>9, <1>10, <1>11
  DEF SessionNext, App, Library, Receive

\* The invariant holds in every reachable state of the session.
THEOREM SessionCorrect == SessionSpec => []SessionInv
<1>1. SessionInv /\ SessionNext => SessionInv'
  BY TypeNext, CountNext, GoneNext, SubscribedNext DEF SessionInv
<1>2. SessionInv /\ [SessionNext]_sessionVars => SessionInv'
  BY <1>1, StutterInv
<1> QED
  BY <1>2, SessionInitInv, PTL DEF SessionSpec

\* The application hears of a success at most once for each subscription it asked
\* for: MQTTClient.c hides every re-subscription and reports nothing twice.
THEOREM ToldAtMostAskedCorrect == SessionSpec => []ToldAtMostAsked
<1>1. SessionInv => ToldAtMostAsked
  BY DEF SessionInv
<1> QED
  BY <1>1, SessionCorrect, PTL

\* A connection with no callback due and no request pending has every topic it was
\* created with, or the broker's refusal for it.
THEOREM SubscribedWhenQuietCorrect == SessionSpec => []SubscribedWhenQuiet
<1>1. SessionInv => SubscribedWhenQuiet
  BY DEF SessionInv, SessionTypeOK, SubscribedInv, SubscribedWhenQuiet
<1> QED
  BY <1>1, SessionCorrect, PTL
=============================================================================
