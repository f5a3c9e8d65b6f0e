------------------------ MODULE ManagementAgent_proofs ------------------------
(***************************************************************************)
(* The Linux management agent, proved.  Its session is a behaviour of        *)
(* AsyncSession.  It is told of its first subscription once, and of no       *)
(* other, as long as no subscribe fails (FirstInv, StartInv); so the         *)
(* registration is run through once (OnceInv), one request or response is    *)
(* under way at a time (FlightInv), and what a request names was created     *)
(* by a request before it (NamesInv).                                       *)
(***************************************************************************)
EXTENDS ManagementAgent, AsyncSession_proofs, FiniteSetTheorems

-----------------------------------------------------------------------------
(* The session.                                                              *)

\* A step of the agent's session is a step of the session.
LEMMA MovesSession == SessionMoves => (MQTTAsyncCreate \/ Library) /\ SessionNext
BY DEF SessionMoves, SessionNext

\* The handler and the platform leave the session alone.
LEMMA RestsSession ==
    ProcessCMD \/ MQTTMessageArrived \/ PlatformAnswers \/ PlatformCommands \/ BrokerRepeats
        \/ UNCHANGED allVars
        => UNCHANGED sessionVars
BY DEF ProcessCMD, MQTTMessageArrived, Arrives, PlatformAnswers, PlatformCommands,
       BrokerRepeats, allVars

\* Whatever the agent does, its session is one that MQTTClient.c promises.
THEOREM AgentSession == Spec => SessionSpec
<1>1. Init => SessionInit
  BY DEF Init
<1>2. [Next]_allVars => [SessionNext]_sessionVars
  BY MovesSession, RestsSession DEF Next
<1> QED
  BY <1>1, <1>2, PTL DEF Spec, SessionSpec

\* So all that is proved of the session holds of the agent's: SessionInv, step by step.
LEMMA SessionInvNext == SessionInv /\ [Next]_allVars => SessionInv'
<1>1. SessionInv /\ SessionNext => SessionInv'
  BY TypeNext, CountNext, GoneNext, SubscribedNext DEF SessionInv
<1> QED
  BY <1>1, MovesSession, RestsSession, StutterInv DEF Next

-----------------------------------------------------------------------------
(* Types.                                                                    *)

Kind      == Resource \cup {"result"}
ToAgent   == [kind : Kind \cup {"command"}, pc : BOOLEAN]
Trials    == [{"error", "between"} -> Nat]

\* The agent's part of TypeOK.
AgentTypeOK ==
    /\ ONEM2M_V1_12 \in Builds /\ running \in BOOLEAN
    /\ disturbed \subseteq {"command", "repeat"}
    /\ mStep \in Resource /\ created \subseteq Resource
    /\ held \in [Identity -> Resource \cup {"none", "result"}]
    /\ toPlatform \in Seq(Kind)
    /\ toAgent \in Seq(ToAgent)
    /\ sent \subseteq ToAgent
    /\ trials \in Trials
    /\ posted \in [Resource -> Nat]
    /\ answeredBy \in [Resource -> SUBSET Kind]

\* TypeOK is the session's part and the agent's.
LEMMA TypeParts == TypeOK <=> SessionTypeOK /\ AgentTypeOK
BY DEF TypeOK, AgentTypeOK, Kind, ToAgent, Trials

\* Requests are counted by a number.
LEMMA ForType ==
    ASSUME NEW r, NEW requests, Len(requests) \in Nat
    PROVE  For(r, requests) \in Nat
<1> DEFINE S == {i \in 1..Len(requests) : requests[i] = r}
<1>1. IsFiniteSet(1..Len(requests)) /\ S \subseteq 1..Len(requests)
  BY FS_Interval
<1>2. Cardinality(S) \in Nat
  BY <1>1, FS_Subset, FS_CardinalityType
<1> QED
  BY <1>2 DEF For

\* One request is one for its resource.
LEMMA ForOne == ASSUME NEW r, NEW q PROVE For(r, <<q>>) = IF r = q THEN 1 ELSE 0
<1> DEFINE S == {i \in 1..Len(<<q>>) : <<q>>[i] = r}
<1>1. 1..Len(<<q>>) = {1} /\ <<q>>[1] = q
  OBVIOUS
<1>2. S = IF r = q THEN {1} ELSE {}
  BY <1>1
<1>3. Cardinality({1}) = 1 /\ Cardinality({}) = 0
  BY FS_Singleton, FS_EmptySet
<1> HIDE DEF S
<1>4. Cardinality(S) = IF r = q THEN 1 ELSE 0
  BY <1>2, <1>3
<1> QED
  BY <1>4 DEF For, S

\* No request is for no resource.
LEMMA ForNone == ASSUME NEW r PROVE For(r, << >>) = 0
<1>1. {i \in 1..Len(<< >>) : << >>[i] = r} = {}
  OBVIOUS
<1> QED
  BY <1>1, FS_EmptySet DEF For

\* The five commands are five requests for one resource.
LEMMA ForAll == ASSUME NEW r PROVE For(r, AllMgmtCmds) = IF r = "mgmtCmd" THEN 5 ELSE 0
<1> DEFINE S == {i \in 1..Len(AllMgmtCmds) : AllMgmtCmds[i] = r}
<1>1. Len(AllMgmtCmds) = 5 /\ \A i \in 1..5 : AllMgmtCmds[i] = "mgmtCmd"
  BY DEF AllMgmtCmds
<1>2. S = IF r = "mgmtCmd" THEN 1..5 ELSE {}
  BY <1>1
<1>3. Cardinality(1..5) = 5
  <2>1. Cardinality(1..5) = IF 1 > 5 THEN 0 ELSE 5 - 1 + 1
    BY FS_Interval, 1 \in Int, 5 \in Int, Zenon
  <2> QED
    BY <2>1
<1>4. Cardinality({}) = 0
  BY FS_EmptySet
<1> HIDE DEF S
<1>5. Cardinality(S) = IF r = "mgmtCmd" THEN 5 ELSE 0
  BY <1>2, <1>3, <1>4
<1> QED
  BY <1>5 DEF For, S

\* What follows a step: nothing, one request, or five for commands.
LEMMA FollowIs ==
    ASSUME NEW step \in Resource, NEW h
    PROVE  \/ Follow(step, h) = << >>
           \/ \E r \in Resource : Follow(step, h) = <<r>>
           \/ Follow(step, h) = AllMgmtCmds /\ ~ONEM2M_V1_12 /\ step = "contentInstance"
BY DEF Follow, Resource

\* What follows a step is a sequence of resources.
LEMMA FollowType ==
    ASSUME NEW step \in Resource, NEW h
    PROVE  Follow(step, h) \in Seq(Resource)
<1>1. AllMgmtCmds \in Seq(Resource)
  <2>1. AllMgmtCmds \in [1..5 -> Resource]
    BY DEF AllMgmtCmds, Resource
  <2> QED
    BY <2>1, SeqDef
<1>2. << >> \in Seq(Resource) /\ \A r \in Resource : <<r>> \in Seq(Resource)
  OBVIOUS
<1> QED
  BY <1>1, <1>2, FollowIs

\* What a request leaves: the step is the last of them, and each is counted.
LEMMA CreateType ==
    ASSUME AgentTypeOK, NEW requests \in Seq(Resource), Create(requests)
    PROVE  mStep' \in Resource /\ posted' \in [Resource -> Nat]
<1>1. Len(requests) \in Nat /\ \A i \in 1..Len(requests) : requests[i] \in Resource
  BY ElementOfSeq
<1>2. mStep' \in Resource
  BY <1>1 DEF Create, AgentTypeOK
<1>3. posted' \in [Resource -> Nat]
  BY <1>1, ForType DEF Create, AgentTypeOK
<1> QED
  BY <1>2, <1>3

\* What is published is behind the other requests, or nowhere.
LEMMA PublishType ==
    ASSUME AgentTypeOK, NEW requests \in Seq(Kind), Publish(requests)
    PROVE  /\ toPlatform' \in Seq(Kind)
           /\ toPlatform' = toPlatform \/ toPlatform' = toPlatform \o requests
<1>1. toPlatform \o requests \in Seq(Kind)
  BY ConcatProperties DEF AgentTypeOK
<1> QED
  BY <1>1 DEF Publish, AgentTypeOK

\* The first of a sequence.
LEMMA FirstOnes ==
    ASSUME NEW A, NEW s \in Seq(A), NEW k \in 0..Len(s)
    PROVE  /\ SubSeq(s, 1, k) \in Seq(A)
           /\ Len(SubSeq(s, 1, k)) = k
           /\ \A i \in 1..k : SubSeq(s, 1, k)[i] = s[i]
<1>1. \A i \in 1..k : s[i] \in A
  BY ElementOfSeq
<1> QED
  BY <1>1, SubSeqProperties

\* The requests that are left: all, or those that were first.
FewerRequests ==
    \/ toPlatform' = toPlatform
    \/ \E k \in 0..Len(toPlatform) : toPlatform' = SubSeq(toPlatform, 1, k)

\* What is left of the requests.
LEMMA RequestsLeft ==
    ASSUME NEW A, toPlatform \in Seq(A), FewerRequests
    PROVE  /\ toPlatform' \in Seq(A) /\ Len(toPlatform') <= Len(toPlatform)
           /\ \A i \in 1..Len(toPlatform') : toPlatform'[i] = toPlatform[i]
<1>1. CASE toPlatform' = toPlatform
  BY <1>1
<1>2. ASSUME NEW k \in 0..Len(toPlatform), toPlatform' = SubSeq(toPlatform, 1, k)
      PROVE  /\ toPlatform' \in Seq(A) /\ Len(toPlatform') <= Len(toPlatform)
             /\ \A i \in 1..Len(toPlatform') : toPlatform'[i] = toPlatform[i]
  BY <1>2, FirstOnes
<1> QED
  BY <1>1, <1>2 DEF FewerRequests

\* What the session's steps leave of the agent.
LEMMA MovesAgent ==
    ASSUME AgentTypeOK, SessionMoves
    PROVE  /\ UNCHANGED <<ONEM2M_V1_12, running, trials, created, answeredBy, disturbed, held>>
           /\ \/ told' # told /\ Create(<<"node">>)
              \/ told' = told /\ UNCHANGED agent
           /\ \/ FewerRequests
              \/ /\ told' # told /\ ~(conn = "up" /\ conn' # "up")
                 /\ toPlatform' = toPlatform \o <<"node">>
           /\ toAgent' \in Seq(ToAgent) /\ Len(toAgent') <= Len(toAgent)
           /\ \A i \in 1..Len(toAgent') : toAgent'[i] = toAgent[i]
           /\ sent' \subseteq sent
<1>1. UNCHANGED <<ONEM2M_V1_12, running, trials, created, answeredBy, disturbed, held>>
  BY DEF SessionMoves, record
<1>2. \/ told' # told /\ Create(<<"node">>)
      \/ told' = told /\ UNCHANGED agent
  <2>1. CASE told' # told
    BY <2>1 DEF SessionMoves
  <2>2. CASE told' = told
    <3>1. Create(<< >>)
      BY <2>2 DEF SessionMoves
    <3>2. mStep' = mStep /\ posted' = [r \in Resource |-> posted[r] + For(r, << >>)]
      BY <3>1 DEF Create
    <3>3. posted' = posted
      BY <3>2, ForNone DEF AgentTypeOK
    <3> QED
      BY <1>1, <2>2, <3>2, <3>3 DEF agent
  <2> QED
    BY <2>1, <2>2
<1>3. \/ FewerRequests
      \/ /\ told' # told /\ ~(conn = "up" /\ conn' # "up")
         /\ toPlatform' = toPlatform \o <<"node">>
  <2>1. toPlatform \o << >> = toPlatform
    BY ConcatEmptySeq DEF AgentTypeOK
  <2>2. CASE conn = "up" /\ conn' # "up"
    BY <2>2 DEF SessionMoves, ConnectionGoes, FewerRequests
  <2>3. CASE ~(conn = "up" /\ conn' # "up")
    BY <2>1, <2>3 DEF SessionMoves, Publish, FewerRequests
  <2> QED
    BY <2>2, <2>3
<1>4. sent' \subseteq sent
  BY DEF SessionMoves, ConnectionGoes
<1>5. \/ toAgent' = toAgent
      \/ \E k \in 0..Len(toAgent) : toAgent' = SubSeq(toAgent, 1, k)
  BY DEF SessionMoves, ConnectionGoes
<1>6. /\ toAgent' \in Seq(ToAgent) /\ Len(toAgent') <= Len(toAgent)
      /\ \A i \in 1..Len(toAgent') : toAgent'[i] = toAgent[i]
  <2>1. CASE toAgent' = toAgent
    BY <2>1 DEF AgentTypeOK
  <2>2. ASSUME NEW k \in 0..Len(toAgent), toAgent' = SubSeq(toAgent, 1, k)
        PROVE  /\ toAgent' \in Seq(ToAgent) /\ Len(toAgent') <= Len(toAgent)
               /\ \A i \in 1..Len(toAgent') : toAgent'[i] = toAgent[i]
    BY <2>2, FirstOnes DEF AgentTypeOK
  <2> QED
    BY <1>5, <2>1, <2>2
<1> QED
  BY <1>1, <1>2, <1>3, <1>4, <1>6

\* What the handler finds: a message that is one less on its way.
LEMMA ArrivesType ==
    ASSUME AgentTypeOK, NEW kinds, Arrives(kinds)
    PROVE  /\ toAgent # << >> /\ toAgent' = Tail(toAgent) /\ Head(toAgent) = toAgent[1]
           /\ Head(toAgent) \in ToAgent /\ toAgent' \in Seq(ToAgent)
           /\ Len(toAgent) \in Nat \ {0} /\ Len(toAgent') = Len(toAgent) - 1
           /\ \A i \in 1..Len(toAgent') : toAgent'[i] = toAgent[i + 1]
           /\ UNCHANGED <<sessionVars, ONEM2M_V1_12, sent, trials, created>>
<1>1. toAgent \in Seq(ToAgent) /\ toAgent # << >> /\ toAgent' = Tail(toAgent)
  BY DEF Arrives, AgentTypeOK
<1> QED
  BY <1>1, HeadTailProperties DEF Arrives

\* What is delivered is behind all the rest, or nowhere.
LEMMA DeliverType ==
    ASSUME AgentTypeOK, NEW topic, NEW m \in ToAgent, Deliver(topic, m)
    PROVE  /\ toAgent' \in Seq(ToAgent) /\ Len(toAgent) \in Nat
           /\ \/ topic \notin granted /\ toAgent' = toAgent
              \/ /\ topic \in granted /\ Len(toAgent') = Len(toAgent) + 1
                 /\ toAgent'[Len(toAgent) + 1] = m
           /\ \A i \in 1..Len(toAgent) : toAgent'[i] = toAgent[i]
           /\ sent' \subseteq ToAgent
<1>1. toAgent \in Seq(ToAgent) /\ Len(toAgent) \in Nat /\ sent \subseteq ToAgent
  BY DEF AgentTypeOK
<1>2. CASE topic \in granted
  <2>1. toAgent' = Append(toAgent, m) /\ sent' = sent \cup {m}
    BY <1>2 DEF Deliver
  <2> QED
    BY <1>1, <1>2, <2>1, AppendProperties
<1>3. CASE topic \notin granted
  BY <1>1, <1>3 DEF Deliver
<1> QED
  BY <1>2, <1>3

\* The oldest request.
LEMMA AnswerType ==
    ASSUME AgentTypeOK, PlatformAnswers
    PROVE  /\ Head(toPlatform) \in Kind /\ Head(toPlatform) = toPlatform[1]
           /\ toPlatform' = Tail(toPlatform) /\ toPlatform' \in Seq(Kind)
           /\ Len(toPlatform) \in Nat \ {0} /\ Len(toPlatform') = Len(toPlatform) - 1
           /\ \A i \in 1..Len(toPlatform') : toPlatform'[i] = toPlatform[i + 1]
           /\ \A p \in BOOLEAN : [kind |-> Head(toPlatform), pc |-> p] \in ToAgent
<1>1. toPlatform \in Seq(Kind) /\ toPlatform # << >> /\ toPlatform' = Tail(toPlatform)
  BY DEF PlatformAnswers, AgentTypeOK
<1>2. Head(toPlatform) \in Kind
  BY <1>1
<1> QED
  BY <1>1, <1>2, HeadTailProperties DEF ToAgent

\* A trial of the platform is one less; of its errors, if it is an error.
LEMMA TryType ==
    ASSUME trials \in Trials, NEW event \in {"error", "between"}, Try(event)
    PROVE  /\ trials' \in Trials /\ trials'["error"] <= trials["error"]
           /\ event = "error" => trials'["error"] < trials["error"]
BY DEF Trials, Try

\* Every step keeps the agent's variables typed.
LEMMA AgentTypeNext == AgentTypeOK /\ [Next]_allVars => AgentTypeOK'
<1> SUFFICES ASSUME AgentTypeOK, [Next]_allVars PROVE AgentTypeOK'
  OBVIOUS
<1>1. CASE SessionMoves
  <2>1. /\ UNCHANGED <<ONEM2M_V1_12, running, trials, created, answeredBy, disturbed, held>>
        /\ toAgent' \in Seq(ToAgent) /\ sent' \subseteq sent
    BY <1>1, MovesAgent
  <2>2. <<"node">> \in Seq(Resource) /\ <<"node">> \in Seq(Kind)
    BY DEF Resource, Kind
  <2>3. mStep' \in Resource /\ posted' \in [Resource -> Nat]
    <3>1. CASE Create(<<"node">>)
      BY <2>2, <3>1, CreateType
    <3>2. CASE UNCHANGED agent
      BY <3>2 DEF agent, AgentTypeOK
    <3> QED
      BY <1>1, <3>1, <3>2, MovesAgent
  <2>4. toPlatform' \in Seq(Kind)
    <3>1. CASE FewerRequests
      BY <3>1, RequestsLeft DEF AgentTypeOK
    <3>2. CASE toPlatform' = toPlatform \o <<"node">>
      BY <2>2, <3>2, ConcatProperties DEF AgentTypeOK
    <3> QED
      BY <1>1, <3>1, <3>2, MovesAgent
  <2> QED
    BY <2>1, <2>3, <2>4 DEF AgentTypeOK
<1>2. CASE ProcessCMD
  <2>1. /\ toAgent' \in Seq(ToAgent)
        /\ UNCHANGED <<ONEM2M_V1_12, running, sent, trials, created, agent, answeredBy>>
        /\ disturbed' = disturbed \cup {"command"}
    BY <1>2, ArrivesType DEF ProcessCMD
  <2>2. toPlatform' \in Seq(Kind)
    <3>1. <<"result">> \in Seq(Kind)
      BY DEF Kind
    <3> QED
      BY <1>2, <3>1, PublishType DEF ProcessCMD
  <2> QED
    BY <2>1, <2>2 DEF AgentTypeOK, agent
<1>3. CASE MQTTMessageArrived
  <2> DEFINE m == Head(toAgent)
             found == {i \in Reads(mStep) : m.pc /\ Carries(m.kind, i)}
  <2>1. /\ toAgent' \in Seq(ToAgent) /\ m \in ToAgent /\ m.kind \in Kind
        /\ UNCHANGED <<ONEM2M_V1_12, sent, trials, created, disturbed>>
    BY <1>3, ArrivesType DEF MQTTMessageArrived, Arrives, Kind
  <2>2. CASE running' = FALSE /\ UNCHANGED <<agent, toPlatform, answeredBy>>
    BY <2>1, <2>2 DEF AgentTypeOK, agent
  <2>3. CASE /\ held' = [i \in Identity |-> IF i \in found THEN m.kind ELSE held[i]]
             /\ Create(Follow(mStep, held')) /\ Publish(Follow(mStep, held'))
             /\ answeredBy' = [answeredBy EXCEPT ![mStep] = @ \cup {m.kind}]
             /\ UNCHANGED running
    <3> HIDE DEF m, found
    <3>1. held' \in [Identity -> Resource \cup {"none", "result"}]
      BY <2>1, <2>3 DEF AgentTypeOK, Kind
    <3>2. Follow(mStep, held') \in Seq(Resource) /\ Follow(mStep, held') \in Seq(Kind)
      BY FollowType DEF AgentTypeOK, Kind
    <3>3. mStep' \in Resource /\ posted' \in [Resource -> Nat] /\ toPlatform' \in Seq(Kind)
      BY <2>3, <3>2, CreateType, PublishType
    <3>4. answeredBy' \in [Resource -> SUBSET Kind]
      BY <2>1, <2>3 DEF AgentTypeOK
    <3> QED
      BY <2>1, <2>3, <3>1, <3>3, <3>4 DEF AgentTypeOK
  <2> QED
    BY <1>3, <2>2, <2>3 DEF MQTTMessageArrived
<1>4. CASE PlatformAnswers
  <2>1. /\ toPlatform' \in Seq(Kind)
        /\ UNCHANGED <<ONEM2M_V1_12, running, agent, answeredBy, disturbed>>
    BY <1>4, AnswerType DEF PlatformAnswers
  <2>2. \/ /\ Deliver(RespTopic, [kind |-> Head(toPlatform), pc |-> TRUE])
           /\ created' = created \cup ({Head(toPlatform)} \cap Resource)
           /\ UNCHANGED trials
        \/ /\ Try("error")
           /\ Deliver(RespTopic, [kind |-> Head(toPlatform), pc |-> FALSE])
           /\ UNCHANGED created
    BY <1>4 DEF PlatformAnswers
  <2>3. toAgent' \in Seq(ToAgent) /\ sent' \subseteq ToAgent
    BY <1>4, <2>2, AnswerType, DeliverType
  <2>4. created' \subseteq Resource /\ trials' \in Trials
    BY <2>2, TryType DEF AgentTypeOK
  <2> QED
    BY <2>1, <2>3, <2>4 DEF AgentTypeOK, agent
<1>5. CASE PlatformCommands
  <2>1. /\ UNCHANGED <<ONEM2M_V1_12, running, agent, toPlatform, record>>
        /\ Deliver(ReqTopic, [kind |-> "command", pc |-> TRUE]) /\ Try("between")
    BY <1>5 DEF PlatformCommands
  <2>2. [kind |-> "command", pc |-> TRUE] \in ToAgent
    BY DEF ToAgent
  <2>3. toAgent' \in Seq(ToAgent) /\ sent' \subseteq ToAgent /\ trials' \in Trials
    BY <2>1, <2>2, DeliverType, TryType DEF AgentTypeOK
  <2> QED
    BY <2>1, <2>3 DEF AgentTypeOK, agent, record
<1>6. CASE BrokerRepeats
  <2>1. /\ UNCHANGED <<ONEM2M_V1_12, running, agent, toPlatform, created, answeredBy>>
        /\ disturbed' = disturbed \cup {"repeat"} /\ Try("between")
    BY <1>6 DEF BrokerRepeats
  <2>2. PICK m \in sent, topic \in {ReqTopic, RespTopic} : Deliver(topic, m)
    BY <1>6 DEF BrokerRepeats
  <2>3. toAgent' \in Seq(ToAgent) /\ sent' \subseteq ToAgent /\ trials' \in Trials
    BY <2>1, <2>2, DeliverType, TryType DEF AgentTypeOK
  <2> QED
    BY <2>1, <2>3 DEF AgentTypeOK, agent
<1>7. CASE UNCHANGED allVars
  BY <1>7 DEF allVars, agentVars, agent, traffic, record, AgentTypeOK
<1> QED
  BY <1>1, <1>2, <1>3, <1>4, <1>5, <1>6, <1>7 DEF Next

\* The first state has the types.
LEMMA InitTypes == Init => SessionInv /\ AgentTypeOK
<1> SUFFICES ASSUME Init PROVE SessionInv /\ AgentTypeOK
  OBVIOUS
<1>1. SessionInv
  BY SessionInitInv DEF Init
<1>2. trials \in Trials
  BY AgentConstantsOK DEF Init, Trials
<1>3. << >> \in Seq(Kind) /\ << >> \in Seq(ToAgent)
  OBVIOUS
<1>4. "node" \in Resource
  BY DEF Resource
<1> QED
  BY <1>1, <1>2, <1>3, <1>4 DEF Init, AgentTypeOK

\* Types, and all that is proved of the session.
TypeInv == SessionInv /\ AgentTypeOK

\* Every step keeps the types and the session's invariant.
LEMMA TypeInvNext == TypeInv /\ [Next]_allVars => TypeInv'
BY SessionInvNext, AgentTypeNext DEF TypeInv

\* Every variable of the agent and of its session keeps its type.
THEOREM AgentTypeCorrect == Spec => []TypeOK
<1>1. TypeInv => TypeOK
  BY TypeParts DEF TypeInv, SessionInv
<1>2. Init => TypeInv
  BY InitTypes DEF TypeInv
<1> QED
  BY <1>1, <1>2, TypeInvNext, PTL DEF Spec

-----------------------------------------------------------------------------
(* Told once.                                                                *)

\* The application subscribes to nothing itself: one request at most is pending, for all
\* of its topics, on a connection that has no subscription yet.
FirstInv ==
    /\ pending \in {<< >>, <<mSubscribeTopic>>}
    /\ conn = "up" => ~onSuccess
    /\ upcall \in {"onSuccess", "reconnect"} => pending = << >> /\ granted = {}
    /\ pending # << >> => granted = {}
    /\ conn # "up" => granted = {}

\* The application may still be told of its first subscription, or of a new one.
MayTell == \/ ~mClient \/ onSuccess \/ upcall = "onSuccess"
           \/ pending # << >> /\ ~mReconnected

\* What tells the application: the first subscription, or a failure, which comes with
\* the loss of the connection only, as the broker does not refuse several topics at once.
ToldStep ==
    /\ MayTell' => MayTell /\ told' = told /\ granted' = {}
    /\ told'.failed >= told.failed
    /\ told'.failed > told.failed => conn = "up" /\ conn' # "up"
    /\ told' # told => MayTell \/ told'.failed > told.failed

\* The one pending request is the last, and is for more than one topic.
LEMMA PendingOne ==
    ASSUME FirstInv, pending # << >>
    PROVE  Tail(pending) = << >> /\ Head(pending) = mSubscribeTopic
<1>1. pending = <<mSubscribeTopic>>
  BY DEF FirstInv
<1>2. Tail(<<mSubscribeTopic>>) = << >> /\ Head(<<mSubscribeTopic>>) = mSubscribeTopic
  OBVIOUS
<1> QED
  BY <1>1, <1>2

\* The agent subscribes to more than one topic.
LEMMA TwoTopics == Cardinality(mSubscribeTopic) # 1
<1>1. /\ IsFiniteSet(mSubscribeTopic) /\ {ReqTopic, RespTopic} \subseteq mSubscribeTopic
      /\ ReqTopic # RespTopic
  BY AgentConstantsOK
<1>2. IsFiniteSet({ReqTopic}) /\ Cardinality({ReqTopic}) = 1
  BY FS_Singleton
<1>3. IsFiniteSet({ReqTopic} \cup {RespTopic}) /\ Cardinality({ReqTopic} \cup {RespTopic}) = 2
  BY <1>1, <1>2, FS_AddElement
<1>4. {ReqTopic} \cup {RespTopic} \subseteq mSubscribeTopic
  BY <1>1
<1>5. Cardinality({ReqTopic} \cup {RespTopic}) <= Cardinality(mSubscribeTopic)
  BY <1>1, <1>4, FS_Subset
<1> QED
  BY <1>3, <1>5

\* The application is told of nothing.
LEMMA ToldSame ==
    ASSUME SessionTypeOK, Tell(0, 0) PROVE told' = told
BY DEF SessionTypeOK, Tell

\* A step of the session.
LEMMA FirstNext ==
    SessionInv /\ FirstInv /\ (MQTTAsyncCreate \/ Library) => FirstInv' /\ ToldStep
<1> SUFFICES ASSUME SessionInv, FirstInv, MQTTAsyncCreate \/ Library PROVE FirstInv' /\ ToldStep
  OBVIOUS
<1>1. SessionTypeOK /\ GoneInv /\ told \in [ok : Nat, failed : Nat] /\ Len(pending) \in Nat
  BY DEF SessionInv, SessionTypeOK
<1>2. told' = told => told'.failed >= told.failed /\ ~(told'.failed > told.failed)
  BY <1>1
<1>3. CASE MQTTAsyncCreate
  BY <1>1, <1>2, <1>3 DEF MQTTAsyncCreate, FirstInv, ToldStep, MayTell, GoneInv
<1>4. CASE OnConnect
  <2>1. CASE conn = "up"
    <3>1. pending' = Append(pending, mSubscribeTopic) /\ pending = << >> /\ granted = {}
      BY <1>4, <2>1 DEF OnConnect, MQTTAsyncSubscribeMany, Request, FirstInv
    <3>2. pending' = <<mSubscribeTopic>>
      BY <3>1
    <3>3. FirstInv'
      BY <1>4, <2>1, <3>1, <3>2 DEF OnConnect, FirstInv
    <3> QED
      BY <1>2, <1>4, <2>1, <3>1, <3>3 DEF OnConnect, ToldStep, MayTell
  <2>2. CASE conn # "up"
    <3>1. pending = << >> /\ Len(pending) = 0
      BY <1>1, <2>2 DEF GoneInv
    <3>2. Tell(0, 0)
      BY <1>4, <2>2, <3>1 DEF OnConnect, Forget
    <3>3. told' = told
      BY <1>1, <3>2, ToldSame
    <3>4. FirstInv'
      BY <1>4, <2>2 DEF OnConnect, Forget, FirstInv
    <3>5. MayTell /\ granted' = {}
      BY <1>4, <2>2 DEF OnConnect, Forget, MayTell
    <3> QED
      BY <1>2, <3>3, <3>4, <3>5 DEF ToldStep
  <2> QED
    BY <2>1, <2>2
<1>5. CASE OnConnected
  <2>1. /\ upcall' = "none"
        /\ UNCHANGED <<mClient, conn, onSuccess, granted, told>>
    BY <1>5 DEF OnConnected, news
  <2>2. CASE upcall = "connect" /\ UNCHANGED <<mReconnected, pending>>
    BY <1>1, <1>2, <2>1, <2>2 DEF FirstInv, ToldStep, MayTell, GoneInv
  <2>3. CASE upcall = "reconnect" /\ mReconnected' = TRUE /\ MQTTAsyncSubscribeMany
    <3>1. pending = << >> /\ granted = {}
      BY <2>3 DEF FirstInv
    <3>2. pending' \in {<< >>, <<mSubscribeTopic>>} /\ (conn # "up" => pending' = << >>)
      BY <2>3, <3>1 DEF MQTTAsyncSubscribeMany, Request
    <3> QED
      BY <1>2, <2>1, <2>3, <3>1, <3>2 DEF FirstInv, ToldStep, MayTell
  <2> QED
    BY <1>5, <2>2, <2>3 DEF OnConnected
<1>6. CASE OnSubscribe
  <2>1. /\ conn = "up" /\ upcall = "none" /\ pending # << >> /\ pending' = Tail(pending)
        /\ UNCHANGED <<mClient, conn, onSuccess, upcall>>
    BY <1>6 DEF OnSubscribe, Answer
  <2>2. pending' = << >>
    BY <2>1, PendingOne
  <2>3. FirstInv'
    BY <2>1, <2>2 DEF FirstInv
  <2>4. ~MayTell'
    BY <1>1, <2>1, <2>2 DEF MayTell, FirstInv, GoneInv
  <2>5. CASE mReconnected
    <3>1. told' = told
      BY <1>1, <1>6, <2>5, ToldSame DEF OnSubscribe
    <3> QED
      BY <1>2, <2>1, <2>3, <2>4, <3>1 DEF ToldStep
  <2>6. CASE ~mReconnected
    <3>1. told'.failed = told.failed + 0
      BY <1>6, <2>6 DEF OnSubscribe, Tell
    <3>2. MayTell
      BY <2>1, <2>6 DEF MayTell
    <3> QED
      BY <1>1, <2>3, <2>4, <3>1, <3>2 DEF ToldStep
  <2> QED
    BY <2>5, <2>6
<1>10. CASE OnSubscribeFailure
  <2>1. pending # << >> /\ Cardinality(Head(pending)) = 1
    BY <1>10 DEF OnSubscribeFailure
  <2> QED
    BY <2>1, PendingOne, TwoTopics
<1>7. CASE OnConnectFailure
  BY <1>2, <1>7 DEF OnConnectFailure, FirstInv, ToldStep, MayTell
<1>8. CASE ConnectSucceeds
  BY <1>1, <1>2, <1>8 DEF ConnectSucceeds, FirstInv, ToldStep, MayTell, GoneInv
<1>9. CASE ConnectionLostCallback
  <2>1. /\ conn = "up" /\ conn' = "connecting" /\ pending' = << >> /\ granted' = {}
        /\ UNCHANGED <<mClient, mReconnected, onSuccess, upcall>>
    BY <1>9 DEF ConnectionLostCallback
  <2>2. FirstInv'
    BY <2>1 DEF FirstInv
  <2>3. PICK failed \in {0, Len(pending)} : Tell(0, failed)
    BY <1>9 DEF ConnectionLostCallback
  <2>4. CASE failed = 0
    <3>1. told' = told
      BY <1>1, <2>3, <2>4, ToldSame
    <3>2. MayTell' => MayTell
      BY <2>1 DEF MayTell
    <3> QED
      BY <1>2, <2>1, <2>2, <3>1, <3>2 DEF ToldStep
  <2>5. CASE failed # 0
    <3>1. told'.failed = told.failed + failed
      BY <2>3 DEF Tell
    <3>2. failed \in Nat /\ pending # << >>
      BY <1>1, <2>3, <2>5
    <3>3. told'.failed > told.failed /\ told'.failed >= told.failed /\ conn = "up" /\ conn' # "up"
      BY <1>1, <2>1, <2>5, <3>1, <3>2
    <3>4. ~MayTell'
      BY <1>1, <2>1, <3>2 DEF FirstInv, MayTell, GoneInv
    <3> QED
      BY <2>2, <3>3, <3>4 DEF ToldStep
  <2> QED
    BY <2>4, <2>5
<1> QED
  BY <1>3, <1>4, <1>5, <1>6, <1>7, <1>8, <1>9, <1>10 DEF Library, Receive

\* Before the application is told, nothing is requested, under way or subscribed.
Untouched ==
    /\ granted = {} /\ toPlatform = << >> /\ toAgent = << >>
    /\ \A r \in Resource : posted[r] = 0

StartInv == MayTell => Untouched

\* A queue that was empty has nothing left.
LEMMA NothingLeft ==
    ASSUME AgentTypeOK, SessionMoves
    PROVE  /\ toAgent = << >> => toAgent' = << >>
           /\ toPlatform = << >> /\ FewerRequests => toPlatform' = << >>
<1>1. ASSUME toAgent = << >> PROVE toAgent' = << >>
  <2>1. toAgent' \in Seq(ToAgent) /\ Len(toAgent') <= Len(toAgent) /\ Len(toAgent) = 0
    BY <1>1, MovesAgent
  <2>2. Len(toAgent') = 0
    BY <2>1
  <2> QED
    BY <2>1, <2>2, EmptySeq
<1>2. ASSUME toPlatform = << >>, FewerRequests PROVE toPlatform' = << >>
  <2>1. toPlatform \in Seq(Kind)
    BY DEF AgentTypeOK
  <2>2. toPlatform' \in Seq(Kind) /\ Len(toPlatform') <= Len(toPlatform) /\ Len(toPlatform) = 0
    BY <1>2, <2>1, RequestsLeft
  <2>3. Len(toPlatform') = 0
    BY <2>2
  <2> QED
    BY <2>2, <2>3, EmptySeq
<1> QED
  BY <1>1, <1>2

\* Every step leaves the beginning untouched until the application is told.
LEMMA StartNext ==
    TypeInv /\ FirstInv /\ StartInv /\ [Next]_allVars => StartInv'
<1> SUFFICES ASSUME TypeInv, FirstInv, StartInv, [Next]_allVars, MayTell' PROVE Untouched'
  BY DEF StartInv
<1>1. SessionInv /\ AgentTypeOK
  BY DEF TypeInv
<1>2. UNCHANGED sessionVars => granted' = granted /\ MayTell' = MayTell
  BY DEF sessionVars, library, MayTell
<1>3. CASE SessionMoves
  <2>1. told' = told /\ granted' = {} /\ Untouched
    BY <1>1, <1>3, MovesSession, FirstNext DEF ToldStep, StartInv
  <2>2. posted' = posted /\ FewerRequests
    BY <1>1, <1>3, <2>1, MovesAgent DEF agent
  <2>3. toPlatform' = << >> /\ toAgent' = << >>
    BY <1>1, <1>3, <2>1, <2>2, NothingLeft DEF Untouched
  <2> QED
    BY <2>1, <2>2, <2>3 DEF Untouched
<1>4. CASE ProcessCMD \/ MQTTMessageArrived
  <2>1. toAgent # << >> /\ MayTell' = MayTell
    BY <1>2, <1>4, RestsSession DEF ProcessCMD, MQTTMessageArrived, Arrives
  <2> QED
    BY <2>1 DEF StartInv, Untouched
<1>5. CASE PlatformAnswers \/ PlatformCommands
  <2>1. MayTell' = MayTell /\ (toPlatform # << >> \/ granted # {})
    BY <1>2, <1>5, RestsSession DEF PlatformAnswers, PlatformCommands
  <2> QED
    BY <2>1 DEF StartInv, Untouched
<1>6. CASE BrokerRepeats
  <2>1. MayTell' = MayTell /\ UNCHANGED <<granted, agent, toPlatform>>
    BY <1>2, <1>6, RestsSession DEF BrokerRepeats
  <2>2. toAgent' = toAgent \/ granted # {}
    BY <1>6 DEF BrokerRepeats, Deliver
  <2> QED
    BY <2>1, <2>2 DEF StartInv, Untouched, agent
<1>7. CASE UNCHANGED allVars
  BY <1>2, <1>7 DEF allVars, agentVars, agent, traffic, StartInv, Untouched
<1> QED
  BY <1>3, <1>4, <1>5, <1>6, <1>7 DEF Next

\* The inductive invariant of the beginning.
BeginInv == TypeInv /\ FirstInv /\ StartInv

\* Nothing is told, requested or subscribed at first.
LEMMA BeginInit == Init => BeginInv
<1> SUFFICES ASSUME Init PROVE BeginInv
  OBVIOUS
<1>1. TypeInv
  BY InitTypes DEF TypeInv
<1>2. FirstInv
  BY DEF Init, SessionInit, FirstInv
<1>3. StartInv
  BY DEF Init, SessionInit, StartInv, Untouched
<1> QED
  BY <1>1, <1>2, <1>3 DEF BeginInv

\* Every step keeps the invariant of the beginning.
LEMMA BeginNext == BeginInv /\ [Next]_allVars => BeginInv'
<1> SUFFICES ASSUME BeginInv, [Next]_allVars PROVE BeginInv'
  OBVIOUS
<1>1. UNCHANGED sessionVars => FirstInv'
  BY DEF BeginInv, FirstInv, sessionVars, library, news
<1>2. FirstInv'
  BY <1>1, MovesSession, RestsSession, FirstNext DEF BeginInv, TypeInv, Next
<1> QED
  BY <1>2, TypeInvNext, StartNext DEF BeginInv

-----------------------------------------------------------------------------
(* Requested once.                                                           *)

\* The order in which a release creates the resources.
Rank(r) ==
    CASE r = "node" -> 0
      [] r \in {"remoteCSE", "AE"} -> 1
      [] r = "container" -> 2
      [] r = "mgmtCmd" -> IF ONEM2M_V1_12 THEN 3 ELSE 4
      [] r = "contentInstance" -> IF ONEM2M_V1_12 THEN 4 ELSE 3

\* What follows a step is one resource, of a higher rank, requested as often as one
\* registration does.
LEMMA FollowHigher ==
    ASSUME NEW step \in Resource, NEW h, Follow(step, h) # << >>
    PROVE  \E r \in Resource :
              /\ Rank(r) > Rank(step)
              /\ Follow(step, h)[Len(Follow(step, h))] = r
              /\ For(r, Follow(step, h)) = Times(r)
              /\ \A s \in Resource \ {r} : For(s, Follow(step, h)) = 0
              /\ Follow(step, h) = <<r>> \/ (r = "mgmtCmd" /\ ~ONEM2M_V1_12)
<1> DEFINE q == Follow(step, h)
<1>1. ASSUME q = AllMgmtCmds, ~ONEM2M_V1_12, step = "contentInstance"
      PROVE  /\ "mgmtCmd" \in Resource /\ Rank("mgmtCmd") > Rank(step)
             /\ q[Len(q)] = "mgmtCmd" /\ For("mgmtCmd", q) = Times("mgmtCmd")
             /\ \A s \in Resource \ {"mgmtCmd"} : For(s, q) = 0
  <2>1. Len(AllMgmtCmds) = 5 /\ AllMgmtCmds[5] = "mgmtCmd"
    BY DEF AllMgmtCmds
  <2>2. Rank("mgmtCmd") > Rank("contentInstance") /\ Times("mgmtCmd") = 5
    BY <1>1 DEF Rank, Times
  <2>3. /\ For("mgmtCmd", AllMgmtCmds) = 5
        /\ \A s \in Resource \ {"mgmtCmd"} : For(s, AllMgmtCmds) = 0
    BY ForAll
  <2> QED
    BY <1>1, <2>1, <2>2, <2>3 DEF Resource
<1>2. ASSUME NEW r \in Resource, q = <<r>> PROVE
        /\ Rank(r) > Rank(step) /\ Times(r) = 1
  BY <1>2 DEF Follow, Rank, Times, Resource, AllMgmtCmds
<1>3. ASSUME NEW r \in Resource PROVE
        /\ Len(<<r>>) = 1 /\ <<r>>[1] = r
        /\ For(r, <<r>>) = 1 /\ \A s \in Resource \ {r} : For(s, <<r>>) = 0
  BY ForOne
<1>4. \/ q = << >> \/ \E r \in Resource : q = <<r>>
      \/ q = AllMgmtCmds /\ ~ONEM2M_V1_12 /\ step = "contentInstance"
  BY FollowIs
<1>5. ASSUME NEW r \in Resource, q = <<r>>
      PROVE  /\ Rank(r) > Rank(step) /\ q[Len(q)] = r /\ For(r, q) = Times(r)
             /\ \A s \in Resource \ {r} : For(s, q) = 0
  <2>1. /\ Len(<<r>>) = 1 /\ <<r>>[1] = r
        /\ For(r, <<r>>) = 1 /\ \A s \in Resource \ {r} : For(s, <<r>>) = 0
    BY <1>3
  <2>2. Rank(r) > Rank(step) /\ Times(r) = 1
    BY <1>2, <1>5
  <2> HIDE DEF q
  <2> QED
    BY <1>5, <2>1, <2>2
<1> HIDE DEF q
<1>6. \E r \in Resource :
        /\ Rank(r) > Rank(step) /\ q[Len(q)] = r /\ For(r, q) = Times(r)
        /\ \A s \in Resource \ {r} : For(s, q) = 0
        /\ q = <<r>> \/ (r = "mgmtCmd" /\ ~ONEM2M_V1_12)
  <2>1. q # << >>
    BY DEF q
  <2>2. CASE q = AllMgmtCmds /\ ~ONEM2M_V1_12 /\ step = "contentInstance"
    BY <1>1, <2>2
  <2>3. CASE \E r \in Resource : q = <<r>>
    BY <1>5, <2>3
  <2> QED
    BY <1>4, <2>1, <2>2, <2>3
<1> QED
  BY <1>6 DEF q

\* What the handler's request leaves.
LEMMA FollowCreated ==
    ASSUME AgentTypeOK, NEW h, Create(Follow(mStep, h))
    PROVE  \/ Follow(mStep, h) = << >> /\ mStep' = mStep /\ posted' = posted
           \/ /\ Follow(mStep, h) # << >> /\ Rank(mStep') > Rank(mStep)
              /\ posted'[mStep'] = posted[mStep'] + Times(mStep')
              /\ \A r \in Resource \ {mStep'} : posted'[r] = posted[r]
              /\ Follow(mStep, h) = <<mStep'>> \/ (mStep' = "mgmtCmd" /\ ~ONEM2M_V1_12)
<1> DEFINE q == Follow(mStep, h)
<1>1. mStep \in Resource /\ posted \in [Resource -> Nat]
  BY DEF AgentTypeOK
<1>2. /\ mStep' = IF q = << >> THEN mStep ELSE q[Len(q)]
      /\ posted' = [r \in Resource |-> posted[r] + For(r, q)]
  BY DEF Create
<1>3. CASE q = << >>
  <2>1. \A r \in Resource : For(r, q) = 0
    BY <1>3, ForNone
  <2>2. posted' = posted
    BY <1>1, <1>2, <2>1
  <2> QED
    BY <1>2, <1>3, <2>2
<1>4. CASE q # << >>
  <2>1. PICK r \in Resource :
          /\ Rank(r) > Rank(mStep) /\ q[Len(q)] = r
          /\ For(r, q) = Times(r) /\ \A s \in Resource \ {r} : For(s, q) = 0
          /\ q = <<r>> \/ (r = "mgmtCmd" /\ ~ONEM2M_V1_12)
    BY <1>1, <1>4, FollowHigher
  <2>2. mStep' = r
    BY <1>2, <1>4, <2>1
  <2>3. posted'[r] = posted[r] + Times(r) /\ \A s \in Resource \ {r} : posted'[s] = posted[s]
    <3> HIDE DEF q
    <3> QED
      BY <1>1, <1>2, <2>1
  <2> QED
    BY <1>4, <2>1, <2>2, <2>3
<1> QED
  BY <1>3, <1>4

\* The application's request, and what its first request finds.
LEMMA NodeCreated ==
    ASSUME AgentTypeOK, Create(<<"node">>)
    PROVE  /\ mStep' = "node" /\ posted'["node"] = posted["node"] + 1
           /\ \A r \in Resource \ {"node"} : posted'[r] = posted[r]
<1>1. /\ mStep' = "node"
      /\ posted' = [r \in Resource |-> posted[r] + For(r, <<"node">>)]
  BY DEF Create
<1>2. /\ For("node", <<"node">>) = 1
      /\ \A r \in Resource \ {"node"} : For(r, <<"node">>) = 0
  BY ForOne
<1> QED
  BY <1>1, <1>2 DEF AgentTypeOK, Resource

\* Told of its subscription, the agent has done nothing yet, or a subscribe has failed.
LEMMA ToldOnce ==
    BeginInv /\ SessionMoves
        => /\ told.failed >= 0 /\ (told'.failed = 0 => told.failed = 0)
           /\ told' # told => Untouched \/ told'.failed > told.failed
<1> SUFFICES ASSUME BeginInv, SessionMoves
             PROVE  /\ told.failed >= 0 /\ (told'.failed = 0 => told.failed = 0)
                    /\ told' # told => Untouched \/ told'.failed > told.failed
  OBVIOUS
<1>1. ToldStep /\ StartInv
  BY MovesSession, FirstNext DEF BeginInv, TypeInv
<1>2. told \in [ok : Nat, failed : Nat] /\ told' \in [ok : Nat, failed : Nat]
  BY TypeInvNext DEF BeginInv, TypeInv, SessionInv, SessionTypeOK, Next
<1> QED
  BY <1>1, <1>2 DEF ToldStep, StartInv

\* No resource is requested more often than by one registration, and none beyond the
\* step under way.
OnceInv == told.failed = 0 =>
    \A r \in Resource : posted[r] <= Times(r) /\ (Rank(r) > Rank(mStep) => posted[r] = 0)

\* Every step keeps the count: the first request finds nothing requested, a later one its rank free.
LEMMA OnceNext == BeginInv /\ OnceInv /\ [Next]_allVars => OnceInv'
<1> SUFFICES ASSUME BeginInv, OnceInv, [Next]_allVars, told'.failed = 0 PROVE OnceInv'
  BY DEF OnceInv
<1>1. AgentTypeOK /\ AgentTypeOK'
  BY AgentTypeNext DEF BeginInv, TypeInv
<1>2. ASSUME UNCHANGED <<ONEM2M_V1_12, mStep, posted>>, told.failed = 0 PROVE OnceInv'
  BY <1>2 DEF OnceInv, Rank, Times
<1>3. CASE SessionMoves
  <2>1. told.failed = 0 /\ ONEM2M_V1_12' = ONEM2M_V1_12
    BY <1>1, <1>3, ToldOnce, MovesAgent
  <2>2. CASE told' = told
    BY <1>1, <1>2, <1>3, <2>1, <2>2, MovesAgent DEF agent
  <2>3. CASE told' # told
    <3>1. Untouched
      BY <1>3, <2>1, <2>3, ToldOnce DEF BeginInv, TypeInv, SessionInv, SessionTypeOK
    <3>2. /\ mStep' = "node" /\ posted'["node"] = 1
          /\ \A r \in Resource \ {"node"} : posted'[r] = 0
      <4>1. Create(<<"node">>)
        BY <1>1, <1>3, <2>3, MovesAgent
      <4> QED
        BY <1>1, <3>1, <4>1, NodeCreated DEF Untouched, Resource
    <3>3. \A r \in Resource : posted'[r] <= Times(r)' /\ (Rank(r)' > Rank(mStep)' => posted'[r] = 0)
      BY <3>2 DEF Times, Rank, Resource
    <3> QED
      BY <3>3 DEF OnceInv
  <2> QED
    BY <2>2, <2>3
<1>4. CASE MQTTMessageArrived
  <2>1. UNCHANGED <<ONEM2M_V1_12, told>>
    BY <1>1, <1>4, ArrivesType DEF MQTTMessageArrived, sessionVars, library, news
  <2>2. CASE UNCHANGED agent
    BY <1>2, <2>1, <2>2 DEF agent
  <2>3. CASE Create(Follow(mStep, held'))
    <3>1. CASE mStep' = mStep /\ posted' = posted
      BY <1>2, <2>1, <3>1
    <3>2. CASE /\ Rank(mStep') > Rank(mStep)
               /\ posted'[mStep'] = posted[mStep'] + Times(mStep')
               /\ \A r \in Resource \ {mStep'} : posted'[r] = posted[r]
      <4>1. mStep \in Resource /\ mStep' \in Resource /\ posted \in [Resource -> Nat]
            /\ \A r \in Resource : Rank(r) \in Nat /\ Times(r) \in Nat
        BY <1>1 DEF AgentTypeOK, Rank, Times, Resource
      <4>2. /\ Times(mStep') \in Nat /\ Rank(mStep') \in Nat /\ Rank(mStep) \in Nat
            /\ posted[mStep'] = 0
        BY <2>1, <3>2, <4>1 DEF OnceInv
      <4>3. \A r \in Resource : posted'[r] <= Times(r) /\ (Rank(r) > Rank(mStep') => posted'[r] = 0)
        <5> TAKE r \in Resource
        <5>1. CASE r = mStep'
          BY <3>2, <4>1, <4>2, <5>1
        <5>2. CASE r # mStep'
          BY <2>1, <3>2, <4>1, <4>2, <5>2 DEF OnceInv
        <5> QED
          BY <5>1, <5>2
      <4> QED
        BY <2>1, <4>3 DEF OnceInv, Rank, Times
    <3> QED
      BY <1>1, <2>3, <3>1, <3>2, FollowCreated
  <2> QED
    BY <1>4, <2>2, <2>3 DEF MQTTMessageArrived
<1>5. CASE \/ ProcessCMD \/ PlatformAnswers \/ PlatformCommands \/ BrokerRepeats
         \/ UNCHANGED allVars
  <2>1. UNCHANGED <<ONEM2M_V1_12, told, mStep, posted>>
    BY <1>5, RestsSession
       DEF ProcessCMD, Arrives, PlatformAnswers, PlatformCommands, BrokerRepeats,
           allVars, agentVars, agent, sessionVars, library, news
  <2> QED
    BY <1>2, <2>1
<1> QED
  BY <1>3, <1>4, <1>5 DEF Next

\* The registration is run through once, whatever connection is lost and whatever
\* message comes twice: a resource is requested a second time only after a subscribe
\* has failed.
THEOREM RequestedOnceCorrect == Spec => []RequestedOnce
<1>1. OnceInv => RequestedOnce
  BY DEF OnceInv, RequestedOnce
<1>2. Init => OnceInv
  BY DEF Init, OnceInv, Times, Rank
<1>3. Init => BeginInv /\ OnceInv
  BY <1>2, BeginInit
<1>4. BeginInv /\ OnceInv /\ [Next]_allVars => (BeginInv /\ OnceInv)'
  BY BeginNext, OnceNext
<1> QED
  BY <1>1, <1>3, <1>4, PTL DEF Spec

-----------------------------------------------------------------------------
(* One at a time.                                                            *)

\* The responses on their way.
Responses == {i \in 1..Len(toAgent) : toAgent[i].kind # "command"}

\* Release 1.0 requests its five commands at once.
Many == ~ONEM2M_V1_12 /\ posted["mgmtCmd"] > 0

\* Until then one request or response is under way at a time; it belongs to the step
\* under way, unless a subscribe failed and the agent began again.
Single ==
    /\ \A i, j \in Responses : i = j
    /\ Len(toPlatform) <= 1 /\ (toPlatform # << >> => Responses = {})

Own ==
    /\ \A i \in Responses : toAgent[i].kind = mStep
    /\ \A i \in 1..Len(toPlatform) : toPlatform[i] = mStep

FlightInv == disturbed = {} =>
    /\ ~Many => Single
    /\ (~Many /\ mStep # "node") \/ told.failed = 0 => Own

\* What a step that requests nothing, and leaves fewer on their way or the same, keeps.
LEMMA FewerInFlight ==
    ASSUME AgentTypeOK, FewerRequests,
           Responses' \subseteq Responses, \A i \in Responses' : toAgent'[i] = toAgent[i]
    PROVE  /\ Single => Single'
           /\ Own /\ mStep' = mStep => Own'
<1>1. /\ Len(toPlatform') <= Len(toPlatform) /\ Len(toPlatform) \in Nat
      /\ Len(toPlatform') \in Nat
      /\ \A i \in 1..Len(toPlatform') : toPlatform'[i] = toPlatform[i]
  BY RequestsLeft DEF AgentTypeOK
<1>2. toPlatform = << >> => toPlatform' = << >>
  <2> SUFFICES ASSUME toPlatform = << >> PROVE toPlatform' = << >>
    OBVIOUS
  <2>1. toPlatform' \in Seq(Kind) /\ Len(toPlatform') = 0
    BY <1>1, RequestsLeft DEF AgentTypeOK
  <2> QED
    BY <2>1, EmptySeq
<1>3. Single => Single'
  BY <1>1, <1>2 DEF Single
<1>4. Own /\ mStep' = mStep => Own'
  <2> SUFFICES ASSUME Own, mStep' = mStep PROVE Own'
    OBVIOUS
  <2>1. \A i \in 1..Len(toPlatform') : i \in 1..Len(toPlatform)
    BY <1>1
  <2>2. \A i \in 1..Len(toPlatform') : toPlatform'[i] = mStep'
    BY <1>1, <2>1 DEF Own
  <2> QED
    BY <2>2 DEF Own
<1> QED
  BY <1>3, <1>4

\* Such a step keeps the invariant, if it leaves the agent where it is.
LEMMA RestsInFlight ==
    ASSUME AgentTypeOK, FlightInv, FewerRequests,
           UNCHANGED <<ONEM2M_V1_12, mStep, posted, told, disturbed>>,
           Responses' \subseteq Responses, \A i \in Responses' : toAgent'[i] = toAgent[i]
    PROVE  FlightInv'
<1>1. Many' = Many
  BY DEF Many
<1> QED
  BY <1>1, FewerInFlight DEF FlightInv

\* A message that arrives is a response: the others move up, and had there to be one
\* only, none is left.
LEMMA ResponseArrives ==
    ASSUME AgentTypeOK, Arrives(Kind)
    PROVE  /\ 1 \in Responses /\ toAgent[1] = Head(toAgent)
           /\ \A i \in Responses' : i + 1 \in Responses /\ toAgent'[i] = toAgent[i + 1] /\ i + 1 # 1
<1>1. Head(toAgent).kind \in Kind
  BY DEF Arrives
<1>2. Head(toAgent).kind # "command"
  BY <1>1 DEF Kind, Resource
<1> QED
  BY <1>2, ArrivesType DEF Responses

\* Once five commands were requested, release 1.0 is at its last step.
LEMMA LastStep ==
    ASSUME AgentTypeOK, OnceInv, Many, told.failed = 0, NEW h
    PROVE  mStep = "mgmtCmd" /\ Follow(mStep, h) = << >>
<1>1. ~(Rank("mgmtCmd") > Rank(mStep))
  BY DEF OnceInv, Many, AgentTypeOK, Resource
<1>2. mStep = "mgmtCmd"
  BY <1>1 DEF Rank, Many, AgentTypeOK, Resource
<1> QED
  BY <1>2 DEF Follow, Many

\* Requests for one resource.
LEMMA FollowAll ==
    ASSUME NEW step \in Resource, NEW h, Follow(step, h) # << >>
    PROVE  \A i \in 1..Len(Follow(step, h)) :
              Follow(step, h)[i] = Follow(step, h)[Len(Follow(step, h))]
<1> DEFINE q == Follow(step, h)
<1>1. CASE q = AllMgmtCmds
  <2>1. Len(AllMgmtCmds) = 5 /\ \A i \in 1..5 : AllMgmtCmds[i] = "mgmtCmd"
    BY DEF AllMgmtCmds
  <2> HIDE DEF q
  <2>2. Len(q) = 5 /\ \A i \in 1..5 : q[i] = "mgmtCmd"
    BY <1>1, <2>1
  <2>3. \A i \in 1..Len(q) : q[i] = q[Len(q)]
    BY <2>2
  <2> QED
    BY <2>3 DEF q
<1>2. ASSUME NEW r \in Resource, q = <<r>>
      PROVE  \A i \in 1..Len(q) : q[i] = q[Len(q)]
  <2> HIDE DEF q
  <2> QED
    BY <1>2
<1> QED
  BY <1>1, <1>2, FollowIs

\* A queue of one or none.
LEMMA ShortQueue ==
    ASSUME NEW q, NEW r, q = << >> \/ q = <<r>>
    PROVE  Len(q) <= 1 /\ \A i \in 1..Len(q) : q[i] = r
<1>1. Len(<< >>) = 0 /\ Len(<<r>>) = 1 /\ <<r>>[1] = r
  OBVIOUS
<1>2. CASE q = << >>
  BY <1>1, <1>2
<1>3. CASE q = <<r>>
  <2>1. Len(q) = 1 /\ q[1] = r
    BY <1>1, <1>3
  <2> QED
    BY <2>1
<1> QED
  BY <1>2, <1>3

\* Every step keeps one request or response under way.
LEMMA FlightNext == BeginInv /\ OnceInv /\ FlightInv /\ [Next]_allVars => FlightInv'
<1> SUFFICES ASSUME BeginInv, OnceInv, FlightInv, [Next]_allVars PROVE FlightInv'
  OBVIOUS
<1>1. AgentTypeOK /\ AgentTypeOK' /\ toPlatform \in Seq(Kind) /\ mStep \in Resource
      /\ posted \in [Resource -> Nat] /\ posted' \in [Resource -> Nat] /\ "mgmtCmd" \in Resource
  BY AgentTypeNext DEF BeginInv, TypeInv, AgentTypeOK, Resource
<1>2. CASE SessionMoves
  <2>1. /\ UNCHANGED <<ONEM2M_V1_12, disturbed>>
        /\ Len(toAgent') <= Len(toAgent) /\ Len(toAgent) \in Nat /\ Len(toAgent') \in Nat
        /\ \A i \in 1..Len(toAgent') : toAgent'[i] = toAgent[i]
    <3>1. Len(toAgent) \in Nat /\ Len(toAgent') \in Nat
      BY <1>1 DEF AgentTypeOK
    <3> QED
      BY <1>1, <1>2, <3>1, MovesAgent
  <2>2. /\ Responses' \subseteq Responses
        /\ \A i \in Responses' : toAgent'[i] = toAgent[i]
    BY <2>1 DEF Responses
  <2>3. CASE told' = told
    <3>1. UNCHANGED <<mStep, posted>> /\ FewerRequests
      BY <1>1, <1>2, <2>3, MovesAgent DEF agent
    <3> QED
      BY <1>1, <2>1, <2>2, <2>3, <3>1, RestsInFlight
  <2>4. CASE told' # told
    <3>1. Create(<<"node">>)
      BY <1>1, <1>2, <2>4, MovesAgent
    <3>2. mStep' = "node" /\ posted'["mgmtCmd"] = posted["mgmtCmd"]
      BY <1>1, <3>1, NodeCreated
    <3>3. CASE told'.failed > told.failed
      <4>1. told'.failed # 0
        BY <1>2, <3>3, TypeInvNext DEF BeginInv, TypeInv, SessionInv, SessionTypeOK, Next
      <4>2. conn = "up" /\ conn' # "up"
        BY <1>2, <3>3, MovesSession, FirstNext DEF ToldStep, BeginInv, TypeInv
      <4>3. FewerRequests
        BY <1>1, <1>2, <4>2, MovesAgent
      <4>4. Many' = Many
        BY <2>1, <3>2 DEF Many
      <4>5. Single => Single'
        BY <1>1, <2>2, <4>3, FewerInFlight
      <4> QED
        BY <2>1, <3>2, <4>1, <4>4, <4>5 DEF FlightInv
    <3>4. CASE Untouched
      <4>1. Responses' = {}
        BY <2>1, <3>4 DEF Untouched, Responses
      <4>2. toPlatform' = << >> \/ toPlatform' = <<"node">>
        <5>1. toPlatform = << >> /\ << >> \o <<"node">> = <<"node">>
          BY <3>4 DEF Untouched
        <5> QED
          BY <1>1, <1>2, <5>1, MovesAgent, NothingLeft
      <4>3. Len(toPlatform') <= 1 /\ \A i \in 1..Len(toPlatform') : toPlatform'[i] = "node"
        BY <4>2, ShortQueue
      <4>4. Single'
        BY <4>1, <4>3 DEF Single
      <4>5. Own'
        BY <3>2, <4>1, <4>3 DEF Own
      <4> QED
        BY <4>4, <4>5 DEF FlightInv
    <3> QED
      BY <1>2, <2>4, <3>3, <3>4, ToldOnce
  <2> QED
    BY <2>3, <2>4
<1>3. CASE ProcessCMD
  BY <1>3 DEF ProcessCMD, FlightInv
<1>4. CASE MQTTMessageArrived
  <2>1. UNCHANGED <<ONEM2M_V1_12, told, disturbed>> /\ Arrives(Kind)
    BY <1>1, <1>4, ArrivesType DEF MQTTMessageArrived, sessionVars, library, news, Kind
  <2>2. 1 \in Responses /\ \A i \in Responses' :
          i + 1 \in Responses /\ toAgent'[i] = toAgent[i + 1] /\ i + 1 # 1
    BY <1>1, <2>1, ResponseArrives
  <2>3. Single => Responses' = {} /\ toPlatform = << >>
    BY <2>2 DEF Single
  <2>4. CASE UNCHANGED <<agent, toPlatform, answeredBy>>
    <3>1. UNCHANGED <<mStep, posted, toPlatform>> /\ Many' = Many
      BY <2>1, <2>4 DEF agent, Many
    <3>2. Single => Single'
      BY <2>1, <2>3, <3>1 DEF Single
    <3>3. Own => Own'
      BY <2>1, <2>2, <3>1 DEF Own
    <3> QED
      BY <2>1, <3>1, <3>2, <3>3 DEF FlightInv
  <2>5. CASE Create(Follow(mStep, held')) /\ Publish(Follow(mStep, held'))
    <3> DEFINE q == Follow(mStep, held')
    <3>1. toPlatform' = toPlatform \/ toPlatform' = toPlatform \o q
      BY <2>5 DEF Publish
    <3>2. CASE q = << >>
      <4>1. UNCHANGED <<mStep, posted>>
        BY <1>1, <2>5, <3>2, FollowCreated
      <4>2. toPlatform' = toPlatform
        BY <1>1, <3>1, <3>2, ConcatEmptySeq
      <4>3. Many' = Many
        BY <2>1, <4>1 DEF Many
      <4>4. Single => Single'
        BY <2>1, <2>3, <4>2 DEF Single
      <4>5. Own => Own'
        BY <2>1, <2>2, <4>1, <4>2 DEF Own
      <4> QED
        BY <2>1, <4>1, <4>3, <4>4, <4>5 DEF FlightInv
    <3>3. CASE q # << >>
      <4>1. /\ mStep' = q[Len(q)] /\ \A i \in 1..Len(q) : q[i] = mStep'
            /\ q = <<mStep'>> \/ (mStep' = "mgmtCmd" /\ ~ONEM2M_V1_12)
            /\ posted'[mStep'] = posted[mStep'] + Times(mStep')
            /\ \A r \in Resource \ {mStep'} : posted'[r] = posted[r]
            /\ q \in Seq(Resource)
        BY <1>1, <2>5, <3>3, FollowCreated, FollowAll, FollowType DEF Create
      <4>2. posted'["mgmtCmd"] >= posted["mgmtCmd"]
            /\ (mStep' = "mgmtCmd" => posted'["mgmtCmd"] > 0)
        BY <1>1, <4>1 DEF Times
      <4>3. Many => Many'
        BY <1>1, <2>1, <4>2 DEF Many
      <4> HIDE DEF q
      <4>4. ASSUME disturbed = {}, ~Many PROVE Own' /\ (~Many' => Single')
        <5>1. Responses' = {} /\ toPlatform = << >>
          BY <2>1, <2>3, <4>4 DEF FlightInv
        <5>2. toPlatform' = << >> \/ toPlatform' = q
          BY <3>1, <4>1, <5>1
        <5>3. Own'
          BY <4>1, <5>1, <5>2 DEF Own
        <5>4. ~Many' => q = <<mStep'>>
          BY <2>1, <4>1, <4>2 DEF Many
        <5>5. ~Many' => Len(toPlatform') <= 1
          BY <5>2, <5>4, ShortQueue
        <5>6. ~Many' => Single'
          BY <5>1, <5>5 DEF Single
        <5> QED
          BY <5>3, <5>6
      <4>5. ~(told.failed = 0 /\ Many)
        BY <1>1, <3>3, LastStep DEF q
      <4> QED
        BY <2>1, <4>3, <4>4, <4>5 DEF FlightInv
    <3> QED
      BY <3>2, <3>3
  <2> QED
    BY <1>4, <2>4, <2>5 DEF MQTTMessageArrived
<1>5. CASE PlatformAnswers
  <2>1. UNCHANGED <<ONEM2M_V1_12, mStep, posted, told, disturbed>>
    BY <1>5 DEF PlatformAnswers, agent, sessionVars, library, news
  <2> DEFINE kind == Head(toPlatform)
  <2>2. /\ kind \in Kind /\ kind = toPlatform[1]
        /\ Len(toPlatform) \in Nat \ {0} /\ Len(toPlatform') = Len(toPlatform) - 1
        /\ \A i \in 1..Len(toPlatform') : toPlatform'[i] = toPlatform[i + 1]
        /\ \A p \in BOOLEAN : [kind |-> kind, pc |-> p] \in ToAgent
        /\ toPlatform' \in Seq(Kind)
    BY <1>1, <1>5, AnswerType
  <2>3. PICK p \in BOOLEAN : Deliver(RespTopic, [kind |-> kind, pc |-> p])
    BY <1>5 DEF PlatformAnswers
  <2> DEFINE m == [kind |-> kind, pc |-> p]
  <2>4. m \in ToAgent /\ m.kind = kind /\ kind # "command"
    BY <2>2 DEF Kind, Resource
  <2> HIDE DEF m
  <2>5. /\ Len(toAgent) \in Nat /\ toAgent' \in Seq(ToAgent)
        /\ \/ RespTopic \notin granted /\ toAgent' = toAgent
           \/ /\ RespTopic \in granted /\ Len(toAgent') = Len(toAgent) + 1
              /\ toAgent'[Len(toAgent) + 1] = m
        /\ \A i \in 1..Len(toAgent) : toAgent'[i] = toAgent[i]
    BY <1>1, <2>3, <2>4, DeliverType DEF m
  <2>6. \/ Responses' = Responses
        \/ /\ Responses' = Responses \cup {Len(toAgent) + 1}
           /\ toAgent'[Len(toAgent) + 1].kind = kind
    BY <2>4, <2>5 DEF Responses
  <2>7. \A i \in Responses : toAgent'[i] = toAgent[i]
    BY <2>5 DEF Responses
  <2> HIDE DEF kind
  <2>8. Single => Single'
    <3>1. Single => Len(toPlatform) = 1 /\ Responses = {}
      BY <2>2 DEF Single
    <3>2. Len(toPlatform) = 1 => Len(toPlatform') = 0
      BY <2>2
    <3>3. Single => toPlatform' = << >>
      BY <2>2, <3>1, <3>2, EmptySeq
    <3> QED
      BY <2>1, <2>6, <3>1, <3>2, <3>3 DEF Single
  <2>9. Own => Own'
    <3>1. Own => \A i \in Responses' : toAgent'[i].kind = mStep
      BY <2>2, <2>6, <2>7 DEF Own
    <3>2. Own => \A i \in 1..Len(toPlatform') : toPlatform'[i] = mStep
      BY <2>2 DEF Own
    <3> QED
      BY <2>1, <3>1, <3>2 DEF Own
  <2>10. Many' = Many
    BY <2>1 DEF Many
  <2> QED
    BY <2>1, <2>8, <2>9, <2>10 DEF FlightInv
<1>6. CASE PlatformCommands
  <2>1. /\ UNCHANGED <<ONEM2M_V1_12, mStep, posted, told, disturbed>> /\ FewerRequests
        /\ Deliver(ReqTopic, [kind |-> "command", pc |-> TRUE])
    BY <1>6 DEF PlatformCommands, agent, record, sessionVars, library, news, FewerRequests
  <2>2. [kind |-> "command", pc |-> TRUE] \in ToAgent
    BY DEF ToAgent
  <2>3. /\ Responses' \subseteq Responses
        /\ \A i \in Responses' : toAgent'[i] = toAgent[i]
    BY <1>1, <2>1, <2>2, DeliverType DEF Responses
  <2> QED
    BY <1>1, <2>1, <2>3, RestsInFlight
<1>7. CASE BrokerRepeats
  BY <1>7 DEF BrokerRepeats, FlightInv
<1>8. CASE UNCHANGED allVars
  <2>1. /\ UNCHANGED <<ONEM2M_V1_12, mStep, posted, told, disturbed, toAgent>>
        /\ FewerRequests /\ Responses' = Responses
    BY <1>8 DEF allVars, agentVars, agent, traffic, record, sessionVars, library, news,
                FewerRequests, Responses
  <2> QED
    BY <1>1, <2>1, RestsInFlight
<1> QED
  BY <1>2, <1>3, <1>4, <1>5, <1>6, <1>7, <1>8 DEF Next

\* A step acts on a response that is of its own kind, as the head of those on their way.
LEMMA OwnNext == BeginInv /\ FlightInv /\ OwnResponses /\ [Next]_allVars => OwnResponses'
<1> SUFFICES ASSUME BeginInv, FlightInv, OwnResponses, [Next]_allVars,
                    disturbed' = {}, told'.failed = 0
             PROVE  \A r \in Resource : answeredBy'[r] \subseteq {r}
  BY DEF OwnResponses
<1>1. AgentTypeOK
  BY DEF BeginInv, TypeInv
<1>2. ASSUME disturbed = {}, told.failed = 0, answeredBy' = answeredBy
      PROVE  \A r \in Resource : answeredBy'[r] \subseteq {r}
  BY <1>2 DEF OwnResponses
<1>3. CASE SessionMoves
  BY <1>1, <1>2, <1>3, ToldOnce, MovesAgent
<1>4. CASE ProcessCMD \/ BrokerRepeats
  BY <1>4 DEF ProcessCMD, BrokerRepeats
<1>5. CASE MQTTMessageArrived
  <2>1. UNCHANGED <<told, disturbed>> /\ Arrives(Kind)
    BY <1>1, <1>5, ArrivesType DEF MQTTMessageArrived, sessionVars, news, Kind
  <2>2. Head(toAgent).kind = mStep
    BY <1>1, <2>1, ResponseArrives DEF FlightInv, Own
  <2>3. \/ answeredBy' = answeredBy
        \/ answeredBy' = [answeredBy EXCEPT ![mStep] = @ \cup {mStep}]
    BY <1>5, <2>2 DEF MQTTMessageArrived
  <2> QED
    BY <1>1, <2>1, <2>3 DEF OwnResponses, AgentTypeOK
<1>6. CASE PlatformAnswers \/ PlatformCommands \/ UNCHANGED allVars
  <2>1. UNCHANGED <<told, disturbed, answeredBy>>
    BY <1>6 DEF PlatformAnswers, PlatformCommands, allVars, agentVars, record, sessionVars, news
  <2> QED
    BY <1>2, <2>1
<1> QED
  BY <1>3, <1>4, <1>5, <1>6 DEF Next

\* All of it, of the requests and the responses.
CourseInv == BeginInv /\ OnceInv /\ FlightInv

\* Nothing was requested, and nothing is under way at first.
LEMMA CourseInit == Init => CourseInv
<1>1. Init => OnceInv
  BY DEF Init, OnceInv, Times, Rank
<1>2. Init => FlightInv
  BY DEF Init, SessionInit, FlightInv, Single, Own, Responses
<1> QED
  BY <1>1, <1>2, BeginInit DEF CourseInv

\* Every step keeps the course of the registration.
LEMMA CourseNext == CourseInv /\ [Next]_allVars => CourseInv'
BY BeginNext, OnceNext, FlightNext DEF CourseInv

\* As long as no command was answered, no message came twice and no subscribe failed, a
\* step of the registration takes no response but its own for the answer, however late
\* that comes.
THEOREM OwnResponsesCorrect == Spec => []OwnResponses
<1>1. Init => CourseInv /\ OwnResponses
  BY CourseInit DEF Init, OwnResponses
<1>2. CourseInv /\ OwnResponses /\ [Next]_allVars => (CourseInv /\ OwnResponses)'
  BY CourseNext, OwnNext DEF CourseInv
<1> QED
  BY <1>1, <1>2, PTL DEF Spec

-----------------------------------------------------------------------------
(* What a request names.                                                     *)

\* What must have been created before a resource is requested: the steps before it.
Need(r) ==
    CASE r \in {"remoteCSE", "AE"} -> {"node"}
      [] r = "container" -> {"node", IF ONEM2M_V1_12 THEN "AE" ELSE "remoteCSE"}
      [] r \in {"contentInstance", "mgmtCmd"} ->
            {"node", "container", IF ONEM2M_V1_12 THEN "AE" ELSE "remoteCSE"}
      [] OTHER -> {}

Requested == {r \in Resource : posted[r] > 0}
Known     == created \cup Presumed

\* Each release has steps of its own, and only an error response lacks <pc>.
ReleaseInv ==
    /\ trials["error"] <= MaxErrors
    /\ mStep = "remoteCSE" => ~ONEM2M_V1_12
    /\ mStep = "AE" => ONEM2M_V1_12
    /\ disturbed = {} => \A i \in Responses : ~toAgent[i].pc => trials["error"] < MaxErrors

\* Until a command is answered or a message comes twice, what is under way was requested, what a response or an
\* identity speaks of was created, and so was all that a request stands on.
NamesInv == disturbed = {} =>
    /\ mStep # "node" => mStep \in Requested
    /\ toPlatform \in Seq(Requested)
    /\ \A i \in Responses : /\ toAgent[i].kind \in Requested
                            /\ toAgent[i].pc => toAgent[i].kind \in created
    /\ held["mNodeLink"] # "none" => "node" \in created
    /\ held["mAEID"] # "none" => "AE" \in created
    /\ held["mDeviceKey"] # "none" => "remoteCSE" \in created
    /\ \A r \in Requested : Need(r) \subseteq Known

\* A sequence over a set is one over a larger set.
LEMMA SeqGrows == ASSUME NEW A, NEW B, A \subseteq B, NEW s \in Seq(A) PROVE s \in Seq(B)
<1>1. Len(s) \in Nat /\ s = [i \in 1..Len(s) |-> s[i]] /\ \A i \in 1..Len(s) : s[i] \in A
  BY ElementOfSeq
<1>2. s \in [1..Len(s) -> B]
  BY <1>1
<1> QED
  BY <1>1, <1>2, SeqDef

\* Two sequences over a set, joined.
LEMMA SeqJoins == ASSUME NEW A, NEW s \in Seq(A), NEW t \in Seq(A)
                  PROVE  s \o t \in Seq(A) /\ s \o << >> = s
BY ConcatProperties, ConcatEmptySeq

\* Nothing that was requested, created or presumed is taken back.
LEMMA Grows ==
    ASSUME AgentTypeOK, AgentTypeOK', ONEM2M_V1_12' = ONEM2M_V1_12,
           \A r \in Resource : posted'[r] >= posted[r],
           created \subseteq created', trials'["error"] <= trials["error"]
    PROVE  /\ Requested \subseteq Requested' /\ Known \subseteq Known'
           /\ \A r : Need(r)' = Need(r)
           /\ Seq(Requested) \subseteq Seq(Requested')
<1>1. Requested \subseteq Requested'
  BY DEF Requested, AgentTypeOK
<1>2. Known \subseteq Known'
  <2>1. trials["error"] \in Nat /\ trials'["error"] \in Nat /\ MaxErrors \in Nat
    BY AgentConstantsOK DEF AgentTypeOK, Trials
  <2>2. Presumed \subseteq Presumed'
    BY <2>1 DEF Presumed
  <2> QED
    BY <2>2 DEF Known
<1>3. \A r : Need(r)' = Need(r)
  BY DEF Need
<1> QED
  BY <1>1, <1>2, <1>3, SeqGrows

\* The first of the responses, as the handler finds it: what it lacks or carries.
LEMMA FoundKnown ==
    ASSUME CourseInv, ReleaseInv, NamesInv, MQTTMessageArrived, disturbed = {}
    PROVE  /\ toAgent[1].kind \in Requested /\ Head(toAgent) = toAgent[1]
           /\ toAgent[1].pc => toAgent[1].kind \in created /\ "node" \in created
           /\ ~toAgent[1].pc => trials["error"] < MaxErrors
           /\ ~Many /\ mStep # "node" => toAgent[1].kind = mStep
<1>1. AgentTypeOK
  BY DEF CourseInv, BeginInv, TypeInv
<1>2. 1 \in Responses /\ Head(toAgent) = toAgent[1]
  BY <1>1, ResponseArrives DEF MQTTMessageArrived, Kind
<1>3. toAgent[1].kind # "node" => "node" \in Need(toAgent[1].kind)
  BY <1>2 DEF NamesInv, Requested, Resource, Need
<1>4. "node" \in Known => "node" \in created
  BY DEF Known, Presumed
<1>5. toAgent[1].pc => "node" \in created
  BY <1>2, <1>3, <1>4 DEF NamesInv
<1>6. ~Many /\ mStep # "node" => toAgent[1].kind = mStep
  BY <1>2 DEF CourseInv, FlightInv, Own
<1> QED
  BY <1>2, <1>5, <1>6 DEF NamesInv, ReleaseInv

\* What the handler reads is of a resource that was created.
LEMMA ReadKnown ==
    ASSUME CourseInv, ReleaseInv, NamesInv, MQTTMessageArrived, disturbed = {},
           held' = [i \in Identity |->
                      IF i \in Reads(mStep) /\ toAgent[1].pc /\ Carries(toAgent[1].kind, i)
                      THEN toAgent[1].kind ELSE held[i]]
    PROVE  /\ held'["mNodeLink"] # "none" => "node" \in created
           /\ held'["mAEID"] # "none" => "AE" \in created
           /\ held'["mDeviceKey"] # "none" => "remoteCSE" \in created
<1>1. toAgent[1].pc => toAgent[1].kind \in created /\ "node" \in created
  BY FoundKnown
<1>2. /\ held["mNodeLink"] # "none" => "node" \in created
      /\ held["mAEID"] # "none" => "AE" \in created
      /\ held["mDeviceKey"] # "none" => "remoteCSE" \in created
  BY DEF NamesInv
<1>3. {"mNodeLink", "mAEID", "mDeviceKey"} \subseteq Identity
  BY DEF Identity
<1>4. /\ Carries(toAgent[1].kind, "mDeviceKey") => toAgent[1].kind = "remoteCSE"
      /\ Carries(toAgent[1].kind, "mAEID") => toAgent[1].kind = "AE"
  BY DEF Carries
<1> QED
  BY <1>1, <1>2, <1>3, <1>4

\* What the handler requests stands on what was created, or is presumed to have been.
LEMMA FollowKnown ==
    ASSUME CourseInv, ReleaseInv, NamesInv, MQTTMessageArrived, disturbed = {},
           NeedsPc(mStep) => toAgent[1].pc, NEW r \in Resource, NEW h,
           h["mNodeLink"] # "none" => "node" \in created,
           h["mAEID"] # "none" => "AE" \in created,
           h["mDeviceKey"] # "none" => "remoteCSE" \in created,
           Follow(mStep, h) = <<r>> \/ (Follow(mStep, h) = AllMgmtCmds /\ r = "mgmtCmd")
    PROVE  Need(r) \subseteq Known
<1>1. mStep \in Resource
  BY DEF CourseInv, BeginInv, TypeInv, AgentTypeOK
<1>2. /\ toAgent[1].pc => toAgent[1].kind \in created
      /\ ~toAgent[1].pc => trials["error"] < MaxErrors
      /\ ~Many /\ mStep # "node" => toAgent[1].kind = mStep
  BY FoundKnown
<1>3. mStep # "node" => Need(mStep) \subseteq Known
  BY DEF NamesInv
<1>4. created \subseteq Known
  BY DEF Known
<1>5. /\ AllMgmtCmds # << >> /\ \A q : AllMgmtCmds # <<q>>
      /\ \A q, s : <<q>> = <<s>> => q = s
  <2>1. Len(AllMgmtCmds) = 5
    BY DEF AllMgmtCmds
  <2>2. AllMgmtCmds # << >>
    BY <2>1
  <2>3. ASSUME NEW q PROVE AllMgmtCmds # <<q>>
    <3>1. Len(<<q>>) = 1
      OBVIOUS
    <3> QED
      BY <2>1, <3>1
  <2>4. ASSUME NEW q, NEW s, <<q>> = <<s>> PROVE q = s
    BY <2>4
  <2> QED
    BY <2>2, <2>3, <2>4
<1>6. CASE mStep = "node"
  <2>1. h["mNodeLink"] # "none" /\ r \in {"AE", "remoteCSE"}
    BY <1>5, <1>6 DEF Follow
  <2> QED
    BY <1>4, <2>1 DEF Need
<1>7. CASE mStep = "remoteCSE"
  <2>1. h["mDeviceKey"] # "none" /\ r = "container"
    BY <1>5, <1>7 DEF Follow
  <2> QED
    BY <1>3, <1>4, <1>7, <2>1 DEF Need, ReleaseInv
<1>8. CASE mStep = "AE"
  <2>1. h["mAEID"] # "none" /\ r = "container"
    BY <1>5, <1>8 DEF Follow
  <2> QED
    BY <1>3, <1>4, <1>8, <2>1 DEF Need, ReleaseInv
<1>9. CASE mStep = "container" /\ ONEM2M_V1_12
  <2>1. r = "mgmtCmd"
    BY <1>9 DEF Follow
  <2>2. "container" \in Known
    BY <1>2, <1>9 DEF Known, Presumed, Many
  <2> QED
    BY <1>3, <1>9, <2>1, <2>2 DEF Need
<1>10. CASE mStep = "container" /\ ~ONEM2M_V1_12
  <2>1. r = "contentInstance" /\ toAgent[1].pc
    BY <1>5, <1>10 DEF Follow, NeedsPc
  <2>2. CASE Many
    <3>1. "mgmtCmd" \in Requested
      BY <2>2 DEF Many, Requested, Resource
    <3>2. Need("mgmtCmd") = Need(r)
      BY <2>1 DEF Need
    <3> QED
      BY <3>1, <3>2 DEF NamesInv
  <2>3. CASE ~Many
    <3>1. "container" \in Known
      BY <1>2, <1>4, <1>10, <2>1, <2>3
    <3> QED
      BY <1>3, <1>10, <2>1, <3>1 DEF Need
  <2> QED
    BY <2>2, <2>3
<1>11. CASE mStep \in {"contentInstance", "mgmtCmd"}
  <2>1. r \in {"contentInstance", "mgmtCmd"}
    BY <1>5, <1>11 DEF Follow
  <2>2. Need(r) = Need(mStep)
    BY <1>11, <2>1 DEF Need
  <2> QED
    BY <1>3, <1>11, <2>2
<1> QED
  BY <1>1, <1>6, <1>7, <1>8, <1>9, <1>10, <1>11 DEF Resource

\* What has been disturbed stays so.
LEMMA StaysDisturbed ==
    ASSUME AgentTypeOK, [Next]_allVars, disturbed' = {}
    PROVE  disturbed = {} /\ ~ProcessCMD /\ ~BrokerRepeats
BY MovesAgent
   DEF Next, ProcessCMD, MQTTMessageArrived, PlatformAnswers, PlatformCommands, BrokerRepeats,
       record, allVars, agentVars

\* A response on its way was so before, or is the platform's answer of this step.
LEMMA ResponsesStep ==
    ASSUME AgentTypeOK, [Next]_allVars, disturbed' = {}
    PROVE  \A j \in Responses' :
              \/ \E i \in Responses : toAgent'[j] = toAgent[i]
              \/ /\ PlatformAnswers /\ toAgent'[j].kind = Head(toPlatform)
                 /\ toAgent'[j].pc => created' = created \cup ({Head(toPlatform)} \cap Resource)
                 /\ ~toAgent'[j].pc => trials'["error"] < trials["error"]
<1> TAKE j \in Responses'
<1>1. Len(toAgent) \in Nat /\ j \in 1..Len(toAgent') /\ toAgent'[j].kind # "command"
  BY DEF AgentTypeOK, Responses
<1>2. CASE SessionMoves
  <2>1. /\ Len(toAgent') <= Len(toAgent) /\ toAgent' \in Seq(ToAgent)
        /\ \A i \in 1..Len(toAgent') : toAgent'[i] = toAgent[i]
    BY <1>2, MovesAgent
  <2>2. Len(toAgent') \in Nat /\ toAgent'[j] = toAgent[j]
    BY <1>1, <2>1
  <2> QED
    BY <1>1, <2>1, <2>2 DEF Responses
<1>3. CASE ProcessCMD \/ MQTTMessageArrived
  <2>1. PICK kinds : Arrives(kinds)
    BY <1>3 DEF ProcessCMD, MQTTMessageArrived
  <2>2. /\ Len(toAgent') = Len(toAgent) - 1
        /\ \A i \in 1..Len(toAgent') : toAgent'[i] = toAgent[i + 1]
    BY <2>1, ArrivesType
  <2>3. toAgent'[j] = toAgent[j + 1] /\ j + 1 \in 1..Len(toAgent)
    BY <1>1, <2>2
  <2> QED
    BY <1>1, <2>3 DEF Responses
<1>4. CASE PlatformAnswers
  <2> DEFINE kind == Head(toPlatform)
  <2>1. PICK p \in BOOLEAN :
          /\ Deliver(RespTopic, [kind |-> kind, pc |-> p])
          /\ p => created' = created \cup ({kind} \cap Resource)
          /\ ~p => Try("error")
    BY <1>4 DEF PlatformAnswers
  <2>2. ~p => trials'["error"] < trials["error"]
    BY <2>1, TryType DEF AgentTypeOK
  <2> DEFINE m == [kind |-> kind, pc |-> p]
  <2>3. m \in ToAgent /\ m.kind = kind /\ m.pc = p
    BY <1>4, AnswerType
  <2> HIDE DEF m
  <2>4. /\ \/ toAgent' = toAgent
           \/ Len(toAgent') = Len(toAgent) + 1 /\ toAgent'[Len(toAgent) + 1] = m
        /\ \A i \in 1..Len(toAgent) : toAgent'[i] = toAgent[i]
    BY <2>1, <2>3, DeliverType DEF m
  <2>5. CASE j \in 1..Len(toAgent)
    BY <1>1, <2>4, <2>5 DEF Responses
  <2>6. CASE j \notin 1..Len(toAgent)
    <3>1. toAgent'[j] = m
      BY <1>1, <2>4, <2>6
    <3> QED
      BY <1>4, <2>1, <2>2, <2>3, <3>1
  <2> QED
    BY <2>5, <2>6
<1>5. CASE PlatformCommands
  <2>1. Deliver(ReqTopic, [kind |-> "command", pc |-> TRUE])
    BY <1>5 DEF PlatformCommands
  <2>2. [kind |-> "command", pc |-> TRUE] \in ToAgent
    BY DEF ToAgent
  <2>3. j \in 1..Len(toAgent) /\ toAgent'[j] = toAgent[j]
    BY <1>1, <2>1, <2>2, DeliverType
  <2> QED
    BY <1>1, <2>3 DEF Responses
<1>6. CASE UNCHANGED allVars
  BY <1>1, <1>6 DEF allVars, agentVars, traffic, Responses
<1> QED
  BY <1>2, <1>3, <1>4, <1>5, <1>6, StaysDisturbed DEF Next

\* The platform's trials only get fewer, its resources more, the requests more.
LEMMA StepGrows ==
    ASSUME AgentTypeOK, [Next]_allVars
    PROVE  /\ ONEM2M_V1_12' = ONEM2M_V1_12 /\ created \subseteq created'
           /\ \A r \in Resource : posted'[r] >= posted[r]
           /\ trials'["error"] <= trials["error"]
<1>1. posted \in [Resource -> Nat] /\ trials \in Trials /\ trials["error"] \in Nat
  BY DEF AgentTypeOK, Trials
<1>2. (posted' = posted => \A r \in Resource : posted'[r] >= posted[r])
      /\ (trials' = trials => trials'["error"] <= trials["error"])
  BY <1>1
<1>3. CASE SessionMoves
  <2>1. UNCHANGED <<ONEM2M_V1_12, trials, created>>
        /\ (posted' = posted \/ Create(<<"node">>))
    BY <1>3, MovesAgent DEF agent
  <2>2. Create(<<"node">>) => \A r \in Resource : posted'[r] >= posted[r]
    BY <1>1, NodeCreated
  <2> QED
    BY <1>2, <2>1, <2>2
<1>4. CASE ProcessCMD
  BY <1>2, <1>4 DEF ProcessCMD, Arrives, agent
<1>5. CASE MQTTMessageArrived
  <2>1. UNCHANGED <<ONEM2M_V1_12, trials, created>>
        /\ (posted' = posted \/ Create(Follow(mStep, held')))
    BY <1>5 DEF MQTTMessageArrived, Arrives, agent
  <2>2. Create(Follow(mStep, held')) => \A r \in Resource : posted'[r] >= posted[r]
    <3>1. \A r \in Resource : Times(r) \in Nat
      BY DEF Times
    <3> QED
      BY <1>1, <3>1, FollowCreated
  <2> QED
    BY <1>2, <2>1, <2>2
<1>6. CASE PlatformAnswers
  <2>1. UNCHANGED <<ONEM2M_V1_12, posted>> /\ created \subseteq created'
        /\ (trials' = trials \/ Try("error"))
    BY <1>6 DEF PlatformAnswers, agent
  <2> QED
    BY <1>1, <1>2, <2>1, TryType
<1>7. CASE PlatformCommands
  <2>1. UNCHANGED <<ONEM2M_V1_12, posted, created>> /\ Try("between")
    BY <1>7 DEF PlatformCommands, agent, record
  <2> QED
    BY <1>1, <1>2, <2>1, TryType
<1>9. CASE BrokerRepeats
  <2>1. UNCHANGED <<ONEM2M_V1_12, posted, created>> /\ Try("between")
    BY <1>9 DEF BrokerRepeats, agent
  <2> QED
    BY <1>1, <1>2, <2>1, TryType
<1>8. CASE UNCHANGED allVars
  BY <1>2, <1>8 DEF allVars, agentVars, agent, traffic, record
<1> QED
  BY <1>3, <1>4, <1>5, <1>6, <1>7, <1>8, <1>9 DEF Next

\* Every step keeps to the release, and an error is counted before its response is there.
LEMMA ReleaseNext == BeginInv /\ ReleaseInv /\ [Next]_allVars => ReleaseInv'
<1> SUFFICES ASSUME BeginInv, ReleaseInv, [Next]_allVars PROVE ReleaseInv'
  OBVIOUS
<1>1. AgentTypeOK /\ mStep \in Resource /\ AgentTypeOK'
  BY AgentTypeNext DEF BeginInv, TypeInv, AgentTypeOK
<1>2. /\ ONEM2M_V1_12' = ONEM2M_V1_12 /\ trials'["error"] <= trials["error"]
      /\ trials["error"] \in Nat /\ trials'["error"] \in Nat /\ MaxErrors \in Nat
  BY <1>1, StepGrows, AgentConstantsOK DEF AgentTypeOK, Trials
<1>3. trials'["error"] <= MaxErrors
  BY <1>2 DEF ReleaseInv
<1>4. ASSUME disturbed' = {}, NEW j \in Responses', ~toAgent'[j].pc
      PROVE  trials'["error"] < MaxErrors
  <2>1. \/ \E i \in Responses : toAgent'[j] = toAgent[i]
        \/ trials'["error"] < trials["error"]
    BY <1>1, <1>4, ResponsesStep
  <2>2. trials["error"] <= MaxErrors
        /\ \A i \in Responses : ~toAgent[i].pc => trials["error"] < MaxErrors
    BY <1>1, <1>4, StaysDisturbed DEF ReleaseInv
  <2> QED
    BY <1>2, <1>4, <2>1, <2>2
<1>5. /\ mStep' = "remoteCSE" => ~ONEM2M_V1_12
      /\ mStep' = "AE" => ONEM2M_V1_12
  <2>1. CASE mStep' = mStep
    BY <2>1 DEF ReleaseInv
  <2>2. CASE MQTTMessageArrived /\ mStep' # mStep
    <3>1. Create(Follow(mStep, held'))
      BY <2>2 DEF MQTTMessageArrived, agent
    <3>2. /\ Follow(mStep, held') = <<mStep'>> \/ mStep' = "mgmtCmd"
      BY <1>1, <2>2, <3>1, FollowCreated
    <3>3. /\ AllMgmtCmds[1] = "mgmtCmd"
          /\ \A q, s : <<q>> = <<s>> => q = s
          /\ \A q : <<q>> # << >> /\ <<q>>[1] = q
      BY DEF AllMgmtCmds
    <3> QED
      BY <3>2, <3>3 DEF Follow
  <2>3. CASE SessionMoves /\ mStep' # mStep
    <3>1. Create(<<"node">>)
      BY <1>1, <2>3, MovesAgent DEF agent
    <3>2. mStep' = "node"
      BY <1>1, <3>1, NodeCreated
    <3> QED
      BY <3>2
  <2>4. CASE \/ ProcessCMD \/ PlatformAnswers \/ PlatformCommands \/ BrokerRepeats
           \/ UNCHANGED allVars
    BY <2>1, <2>4 DEF ProcessCMD, PlatformAnswers, PlatformCommands, BrokerRepeats, agent, allVars, agentVars
  <2> QED
    BY <2>1, <2>2, <2>3, <2>4 DEF Next
<1> QED
  BY <1>2, <1>3, <1>4, <1>5 DEF ReleaseInv

\* What the handler does to the registration.
LEMMA NamesHandled ==
    ASSUME CourseInv, ReleaseInv, NamesInv, [Next]_allVars, MQTTMessageArrived, disturbed = {}
    PROVE  /\ held'["mNodeLink"] # "none" => "node" \in created
           /\ held'["mAEID"] # "none" => "AE" \in created
           /\ held'["mDeviceKey"] # "none" => "remoteCSE" \in created
           /\ mStep' = mStep \/ mStep' \in Requested'
           /\ toPlatform' \in Seq(Requested')
           /\ \A r \in Requested' : r \in Requested \/ Need(r) \subseteq Known
<1>1. AgentTypeOK /\ AgentTypeOK' /\ mStep \in Resource /\ mStep' \in Resource
      /\ posted \in [Resource -> Nat] /\ posted' \in [Resource -> Nat]
  BY AgentTypeNext DEF CourseInv, BeginInv, TypeInv, AgentTypeOK
<1>2. Seq(Requested) \subseteq Seq(Requested') /\ toPlatform \in Seq(Requested)
  BY <1>1, StepGrows, Grows DEF NamesInv
<1>3. CASE UNCHANGED <<agent, toPlatform, answeredBy>>
  BY <1>2, <1>3 DEF agent, NamesInv, Requested
<1>4. CASE /\ NeedsPc(mStep) => toAgent[1].pc
           /\ Create(Follow(mStep, held')) /\ Publish(Follow(mStep, held'))
           /\ held' = [i \in Identity |->
                         IF i \in Reads(mStep) /\ toAgent[1].pc /\ Carries(toAgent[1].kind, i)
                         THEN toAgent[1].kind ELSE held[i]]
  <2>1. /\ held'["mNodeLink"] # "none" => "node" \in created
        /\ held'["mAEID"] # "none" => "AE" \in created
        /\ held'["mDeviceKey"] # "none" => "remoteCSE" \in created
    BY <1>4, ReadKnown
  <2> DEFINE q == Follow(mStep, held')
  <2>2. toPlatform' = toPlatform \/ toPlatform' = toPlatform \o q
    BY <1>4 DEF Publish
  <2>3. CASE mStep' = mStep /\ posted' = posted /\ q = << >>
    <3>1. toPlatform' \in Seq(Requested')
      <4>1. toPlatform \in Seq(Requested')
        BY <1>2
      <4>2. toPlatform \o << >> = toPlatform
        BY <1>2, SeqJoins
      <4> QED
        BY <2>2, <2>3, <4>1, <4>2
    <3> QED
      BY <2>1, <2>3, <3>1 DEF Requested
  <2>4. CASE /\ q # << >>
             /\ posted'[mStep'] = posted[mStep'] + Times(mStep')
             /\ \A r \in Resource \ {mStep'} : posted'[r] = posted[r]
             /\ q = <<mStep'>> \/ (mStep' = "mgmtCmd" /\ ~ONEM2M_V1_12)
    <3>1. mStep' \in Requested'
      BY <1>1, <2>4 DEF Times, Requested
    <3>2. mStep' = q[Len(q)] /\ \A i \in 1..Len(q) : q[i] = mStep'
      <4>1. mStep' = q[Len(q)]
        BY <1>4, <2>4 DEF Create
      <4> QED
        BY <1>1, <2>4, <4>1, FollowAll
    <3>3. q = <<mStep'>> \/ (q = AllMgmtCmds /\ mStep' = "mgmtCmd")
      <4>1. \/ \E r \in Resource : q = <<r>>
            \/ q = AllMgmtCmds
        BY <1>1, <2>4, FollowIs
      <4>2. \A r \in Resource : q = <<r>> => r = mStep'
        <5>1. \A r : Len(<<r>>) = 1 /\ <<r>>[1] = r
          OBVIOUS
        <5> HIDE DEF q
        <5> QED
          BY <3>2, <5>1
      <4>3. q = AllMgmtCmds => mStep' = "mgmtCmd"
        <5>1. Len(AllMgmtCmds) = 5 /\ AllMgmtCmds[5] = "mgmtCmd"
          BY DEF AllMgmtCmds
        <5> HIDE DEF q
        <5> QED
          BY <3>2, <5>1
      <4> QED
        BY <4>1, <4>2, <4>3
    <3>4. Need(mStep') \subseteq Known
      <4>1. ASSUME NEW r \in Resource, r = mStep' PROVE Need(r) \subseteq Known
        BY <1>4, <2>1, <3>3, <4>1, FollowKnown
      <4> QED
        BY <1>1, <4>1
    <3>5. toPlatform' \in Seq(Requested')
      <4>1. q \in Seq(Requested')
        <5>1. q \in Seq(Resource)
          BY <1>1, FollowType
        <5> HIDE DEF q
        <5>2. Len(q) \in Nat /\ q = [i \in 1..Len(q) |-> q[i]]
          BY <5>1
        <5>3. q \in [1..Len(q) -> Requested']
          BY <3>1, <3>2, <5>2
        <5> QED
          BY <5>2, <5>3, SeqDef
      <4>2. toPlatform \in Seq(Requested') /\ << >> \in Seq(Requested')
        BY <1>2
      <4> HIDE DEF q
      <4>3. toPlatform \o q \in Seq(Requested')
        BY <4>1, <4>2, SeqJoins
      <4> QED
        BY <2>2, <4>2, <4>3
    <3>6. \A r \in Requested' : r \in Requested \/ r = mStep'
      BY <1>1, <2>4 DEF Requested
    <3> QED
      BY <2>1, <3>1, <3>4, <3>5, <3>6
  <2> QED
    BY <1>1, <1>4, <2>3, <2>4, FollowCreated
<1>5. Head(toAgent) = toAgent[1]
  BY FoundKnown
<1> QED
  BY <1>3, <1>4, <1>5 DEF MQTTMessageArrived

\* Every step keeps what is known to be created ahead of what is requested.
LEMMA NamesNext ==
    CourseInv /\ ReleaseInv /\ NamesInv /\ [Next]_allVars => NamesInv'
<1> SUFFICES ASSUME CourseInv, ReleaseInv, NamesInv, [Next]_allVars, disturbed' = {}
             PROVE  NamesInv'
  BY DEF NamesInv
<1>1. AgentTypeOK /\ AgentTypeOK' /\ posted \in [Resource -> Nat] /\ posted' \in [Resource -> Nat]
      /\ "node" \in Resource
  BY AgentTypeNext DEF CourseInv, BeginInv, TypeInv, AgentTypeOK, Resource
<1>2. /\ Requested \subseteq Requested' /\ Known \subseteq Known'
      /\ \A r : Need(r)' = Need(r)
      /\ Seq(Requested) \subseteq Seq(Requested')
      /\ created \subseteq created'
  BY <1>1, StepGrows, Grows
<1>3. disturbed = {} /\ ~ProcessCMD /\ ~BrokerRepeats
  BY <1>1, StaysDisturbed
<1>4. /\ mStep # "node" => mStep \in Requested
      /\ toPlatform \in Seq(Requested)
      /\ \A i \in Responses : /\ toAgent[i].kind \in Requested
                              /\ toAgent[i].pc => toAgent[i].kind \in created
      /\ held["mNodeLink"] # "none" => "node" \in created
      /\ held["mAEID"] # "none" => "AE" \in created
      /\ held["mDeviceKey"] # "none" => "remoteCSE" \in created
      /\ \A r \in Requested : Need(r) \subseteq Known
  BY <1>3 DEF NamesInv
<1>5. ASSUME NEW j \in Responses'
      PROVE  /\ toAgent'[j].kind \in Requested'
             /\ toAgent'[j].pc => toAgent'[j].kind \in created'
  <2>1. CASE \E i \in Responses : toAgent'[j] = toAgent[i]
    BY <1>2, <1>4, <2>1
  <2>2. CASE /\ PlatformAnswers /\ toAgent'[j].kind = Head(toPlatform)
             /\ toAgent'[j].pc => created' = created \cup ({Head(toPlatform)} \cap Resource)
    <3>1. Head(toPlatform) \in Requested
      BY <1>4, <2>2 DEF PlatformAnswers
    <3> QED
      BY <1>2, <2>2, <3>1 DEF Requested
  <2> QED
    BY <1>1, <2>1, <2>2, ResponsesStep
<1>6. /\ mStep' # "node" => mStep' \in Requested'
      /\ toPlatform' \in Seq(Requested')
      /\ held'["mNodeLink"] # "none" => "node" \in created'
      /\ held'["mAEID"] # "none" => "AE" \in created'
      /\ held'["mDeviceKey"] # "none" => "remoteCSE" \in created'
      /\ \A r \in Requested' : Need(r) \subseteq Known'
  <2>1. CASE MQTTMessageArrived
    BY <1>2, <1>3, <1>4, <2>1, NamesHandled
  <2>2. ASSUME UNCHANGED <<held, mStep, posted>>, toPlatform' \in Seq(Requested)
        PROVE  <1>6
    <3>1. Requested' = Requested
      BY <2>2 DEF Requested
    <3> QED
      BY <1>2, <1>4, <2>2, <3>1
  <2>3. CASE SessionMoves
    <3>1. CASE UNCHANGED agent /\ FewerRequests
      <4>1. toPlatform' \in Seq(Requested)
        BY <1>4, <3>1, RequestsLeft
      <4> QED
        BY <2>2, <3>1, <4>1 DEF agent
    <3>2. CASE /\ Create(<<"node">>)
               /\ FewerRequests \/ toPlatform' = toPlatform \o <<"node">>
      <4>1. /\ mStep' = "node" /\ posted'["node"] = posted["node"] + 1
            /\ \A r \in Resource \ {"node"} : posted'[r] = posted[r]
        BY <1>1, <3>2, NodeCreated
      <4>2. "node" \in Requested' /\ \A r \in Requested' : r \in Requested \/ r = "node"
        BY <1>1, <4>1 DEF Requested
      <4>3. <<"node">> \in Seq(Requested')
        BY <4>2
      <4>4. toPlatform' \in Seq(Requested')
        <5>1. toPlatform \in Seq(Requested')
          BY <1>2, <1>4
        <5>2. toPlatform \o <<"node">> \in Seq(Requested')
          BY <4>3, <5>1, SeqJoins
        <5>3. FewerRequests => toPlatform' \in Seq(Requested')
          BY <5>1, RequestsLeft
        <5> QED
          BY <3>2, <5>2, <5>3
      <4>5. Need("node") = {}
        BY DEF Need
      <4>6. held' = held
        BY <1>1, <2>3, MovesAgent
      <4> QED
        BY <1>2, <1>4, <4>1, <4>2, <4>4, <4>5, <4>6
    <3> QED
      BY <1>1, <2>3, <3>1, <3>2, MovesAgent
  <2>4. CASE PlatformAnswers
    <3>1. toPlatform' \in Seq(Requested)
      BY <1>4, <2>4 DEF PlatformAnswers
    <3> QED
      BY <2>2, <2>4, <3>1 DEF PlatformAnswers, agent
  <2>5. CASE PlatformCommands \/ UNCHANGED allVars
    BY <1>4, <2>2, <2>5 DEF PlatformCommands, agent, allVars, agentVars, traffic
  <2> QED
    BY <1>3, <2>1, <2>3, <2>4, <2>5 DEF Next
<1>7. \A r \in Requested' : Need(r)' \subseteq Known'
  BY <1>2, <1>6
<1> QED
  BY <1>5, <1>6, <1>7 DEF NamesInv

\* Unless a command was answered or a message came twice, what a request names has been
\* created before, but for a container that release 1.12 presumes.
THEOREM NamesOnlyCreatedCorrect == Spec => []NamesOnlyCreated
<1>1. ASSUME NamesInv, AgentTypeOK, ReleaseInv PROVE NamesOnlyCreated
  <2> SUFFICES ASSUME disturbed = {}, NEW r \in Resource, posted[r] > 0
               PROVE  Names(r) \subseteq created \cup Presumed
    BY DEF NamesOnlyCreated
  <2>1. Need(r) \subseteq created \cup Presumed
    BY <1>1 DEF NamesInv, Requested, Known
  <2>2. Names(r) \subseteq Need(r)
    BY DEF Names, Need, Resource
  <2> QED
    BY <2>1, <2>2
<1>2. Init => CourseInv /\ ReleaseInv /\ NamesInv
  <2> SUFFICES ASSUME Init PROVE CourseInv /\ ReleaseInv /\ NamesInv
    OBVIOUS
  <2>1. CourseInv
    BY CourseInit
  <2>2. Responses = {} /\ Requested = {}
    BY DEF Init, Responses, Requested
  <2>3. ReleaseInv
    BY <2>2, AgentConstantsOK DEF Init, ReleaseInv
  <2>4. NamesInv
    <3>1. /\ held = [i \in Identity |-> "none"]
          /\ toPlatform = << >> /\ mStep = "node"
      BY DEF Init
    <3> QED
      BY <2>2, <3>1 DEF NamesInv, Identity
  <2> QED
    BY <2>1, <2>3, <2>4
<1>3. CourseInv /\ ReleaseInv /\ NamesInv /\ [Next]_allVars => (CourseInv /\ ReleaseInv /\ NamesInv)'
  BY CourseNext, ReleaseNext, NamesNext DEF CourseInv
<1>4. CourseInv /\ ReleaseInv /\ NamesInv => NamesOnlyCreated
  BY <1>1 DEF CourseInv, BeginInv, TypeInv
<1> QED
  BY <1>2, <1>3, <1>4, PTL DEF Spec
=============================================================================
