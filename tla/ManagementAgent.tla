-------------------------- MODULE ManagementAgent --------------------------
(***************************************************************************)
(* The management agent of the Linux port, src/linux/samples/MA/MA.c, on    *)
(* top of AsyncSession.  When it is told of its subscription it registers   *)
(* the device with the ThingPlug platform: it creates one resource after    *)
(* the other, each from the response to the one before, and reports the     *)
(* results of commands the platform sends meanwhile.                        *)
(*                                                                         *)
(* A response is known only by the step the agent is in (mStep): the        *)
(* request id and the result code are not looked at.  The platform is       *)
(* external, from the requests this code sends and the attributes it reads. *)
(***************************************************************************)
EXTENDS AsyncSession

CONSTANTS
    Builds,                \* values of the switch ONEM2M_V1_12: release 1.12 and/or 1.0
    ReqTopic, RespTopic,   \* topics of commands and of responses
    \* Bounds: error responses of the platform; messages that come in between, which are
    \* its commands and what the broker sends a second time.
    MaxErrors, MaxBetween

ASSUME AgentConstantsOK ==
    /\ Builds \subseteq BOOLEAN
    /\ {ReqTopic, RespTopic} \subseteq mSubscribeTopic /\ ReqTopic # RespTopic
    /\ IsFiniteSet(mSubscribeTopic)
    /\ {MaxErrors, MaxBetween} \subseteq Nat

Resource == {"node", "remoteCSE", "AE", "container", "contentInstance", "mgmtCmd"}
Identity == {"mNodeLink", "mDeviceKey", "mRemoteCSEResourceName",
             "mContainerResourceName", "mAEID"}

VARIABLES
    ONEM2M_V1_12, \* the oneM2M release this agent was built for: 1.12 or 1.0
    running,     \* the process has not crashed
    mStep,       \* the resource whose creation is under way
    held,        \* [Identity -> the resource whose response it was read from, or "none"]
    toPlatform,  \* requests in flight: a resource, or "result" of a command
    toAgent,     \* messages in flight: a response or a command, with or without <pc>
    sent,        \* messages sent to the agent on this connection
    trials       \* how often errors, and messages in between, may still come

\* What happened, for the properties.
VARIABLES
    posted,      \* [Resource -> how often its creation was requested]
    created,     \* resources the platform has created
    answeredBy,  \* [Resource -> kinds of the responses its step acted on]
    disturbed    \* what came in between: a "command" answered, a message's "repeat"

agent     == <<mStep, held, posted>>
traffic   == <<toPlatform, toAgent, sent, trials>>
record    == <<created, answeredBy, disturbed>>
agentVars == <<ONEM2M_V1_12, running, agent, traffic, record>>
allVars   == <<sessionVars, agentVars>>

Init ==
    /\ SessionInit
    /\ ONEM2M_V1_12 \in Builds
    /\ running = TRUE /\ mStep = "node" /\ held = [i \in Identity |-> "none"]
    /\ toPlatform = << >> /\ toAgent = << >> /\ sent = {}
    /\ trials = [error |-> MaxErrors, between |-> MaxBetween]
    /\ posted = [r \in Resource |-> 0] /\ created = {}
    /\ answeredBy = [r \in Resource |-> {}] /\ disturbed = {}

Try(event) == trials[event] > 0 /\ trials' = [trials EXCEPT ![event] = @ - 1]

-----------------------------------------------------------------------------
(* Requests: mStep is set first, and a failure to publish is ignored.        *)

\* MQTTAsyncPublishMessage: the library refuses it while it is not connected.
Publish(requests) ==
    toPlatform' = IF conn = "up" THEN toPlatform \o requests ELSE toPlatform

\* How many of these requests are for one resource.
For(r, requests) == Cardinality({i \in 1..Len(requests) : requests[i] = r})

\* Mutant: the step is not advanced with the request.
Create_KeepsStep(requests) ==
    /\ mStep' = mStep
    /\ posted' = [r \in Resource |-> posted[r] + For(r, requests)]

\* CreateNode, CreateRemoteCSE, CreateAE, CreateContainer, CreateMgmtCmd and
\* CreateContentInstance, called one after the other; each publishes its request.
Create(requests) ==
    /\ mStep' = IF requests = << >> THEN mStep ELSE requests[Len(requests)]
    /\ posted' = [r \in Resource |-> posted[r] + For(r, requests)]

\* Five commands, CMT_DEVRESET to CMT_LEDCONTROL.
AllMgmtCmds == [i \in 1..5 |-> "mgmtCmd"]

\* Mutant: the identities are not looked at.
Follow_Unchecked(step, h) ==
    CASE step = "node" /\ ONEM2M_V1_12 -> <<"AE">>
      [] step = "node" /\ ~ONEM2M_V1_12 -> <<"remoteCSE">>
      [] step \in {"remoteCSE", "AE"} -> <<"container">>
      [] step = "container" /\ ONEM2M_V1_12 -> <<"mgmtCmd">>
      [] step = "container" /\ ~ONEM2M_V1_12 -> <<"contentInstance">>
      [] step = "contentInstance" /\ ~ONEM2M_V1_12 -> AllMgmtCmds
      [] step = "mgmtCmd" /\ ONEM2M_V1_12 -> <<"contentInstance">>
      [] OTHER -> << >>

\* What the step does next, once the response's attributes are read into h.
Follow(step, h) ==
    CASE step = "node" /\ h["mNodeLink"] # "none" ->
            IF ONEM2M_V1_12 THEN <<"AE">> ELSE <<"remoteCSE">>
      [] step = "remoteCSE" /\ h["mDeviceKey"] # "none"
                            /\ h["mRemoteCSEResourceName"] # "none" -> <<"container">>
      [] step = "AE" /\ h["mAEID"] # "none" -> <<"container">>
      [] step = "container" /\ ONEM2M_V1_12 -> <<"mgmtCmd">>
      [] step = "container" /\ ~ONEM2M_V1_12
                            /\ h["mContainerResourceName"] # "none" -> <<"contentInstance">>
      [] step = "contentInstance" /\ ~ONEM2M_V1_12 -> AllMgmtCmds
      [] step = "mgmtCmd" /\ ONEM2M_V1_12 -> <<"contentInstance">>
      [] OTHER -> << >>

\* Mutant: the device key and the AE id are not read.
Reads_NoKey(step) ==
    CASE step = "node"      -> {"mNodeLink"}
      [] step = "remoteCSE" -> {"mRemoteCSEResourceName"}
      [] step = "container" /\ ~ONEM2M_V1_12 -> {"mContainerResourceName"}
      [] OTHER -> {}

\* The identities a step reads, and whether a response of some kind carries them:
\* every resource has ri and rn, dKey and aei come with one kind only.
Reads(step) ==
    CASE step = "node"      -> {"mNodeLink"}
      [] step = "remoteCSE" -> {"mDeviceKey", "mRemoteCSEResourceName"}
      [] step = "AE"        -> {"mAEID"}
      [] step = "container" /\ ~ONEM2M_V1_12 -> {"mContainerResourceName"}
      [] OTHER -> {}

Carries(kind, identity) ==
    /\ identity = "mDeviceKey" => kind = "remoteCSE"
    /\ identity = "mAEID" => kind = "AE"

\* SimpleXmlParser with isPC: the step looks inside <pc>, and does not survive
\* a response without it (strstr on a null pointer).
NeedsPc(step) ==
    IF ONEM2M_V1_12 THEN step \in {"node", "AE"} ELSE step # "remoteCSE"

-----------------------------------------------------------------------------
\* A connection that goes takes along what is in flight, but for requests that the
\* platform has already and messages that the library has received.
ConnectionGoes ==
    /\ \E k \in 0..Len(toPlatform) : toPlatform' = SubSeq(toPlatform, 1, k)
    /\ \E k \in 0..Len(toAgent) : toAgent' = SubSeq(toAgent, 1, k)
    /\ sent' = {}

\* The session moves; MQTTSubscribed calls CreateNode whatever the result is.
SessionMoves ==
    /\ running
    /\ MQTTAsyncCreate \/ Library
    /\ LET requests == IF told' # told THEN <<"node">> ELSE << >>
       IN /\ Create(requests)
          /\ IF conn = "up" /\ conn' # "up"
             THEN ConnectionGoes
             ELSE Publish(requests) /\ UNCHANGED <<toAgent, sent>>
    /\ UNCHANGED <<ONEM2M_V1_12, running, trials, record, held>>

Arrives(kind) ==
    /\ running /\ upcall = "none"
    /\ toAgent # << >> /\ Head(toAgent).kind \in kind
    /\ toAgent' = Tail(toAgent)
    /\ UNCHANGED <<sessionVars, ONEM2M_V1_12, sent, trials, created>>

\* Mutant: the result becomes the step under way.
ProcessCMD_SetsStep ==
    /\ Arrives({"command"})
    /\ Publish(<<"result">>)
    /\ mStep' = "result"
    /\ disturbed' = disturbed \cup {"command"}
    /\ UNCHANGED <<running, held, posted, answeredBy>>

\* ProcessCMD: the command is acknowledged with a result; mStep stays.
ProcessCMD ==
    /\ Arrives({"command"})
    /\ Publish(<<"result">>)
    /\ disturbed' = disturbed \cup {"command"}
    /\ UNCHANGED <<running, agent, answeredBy>>

\* A response is taken for the answer to the step the agent is in: nothing tells the
\* handler that it is a copy.
MQTTMessageArrived ==
    /\ Arrives(Resource \cup {"result"})
    /\ LET m == Head(toAgent)
           found == {i \in Reads(mStep) : m.pc /\ Carries(m.kind, i)}
       IN IF NeedsPc(mStep) /\ ~m.pc
          THEN running' = FALSE /\ UNCHANGED <<agent, toPlatform, answeredBy>>
          ELSE /\ held' = [i \in Identity |-> IF i \in found THEN m.kind ELSE held[i]]
               /\ Create(Follow(mStep, held')) /\ Publish(Follow(mStep, held'))
               /\ answeredBy' = [answeredBy EXCEPT ![mStep] = @ \cup {m.kind}]
               /\ UNCHANGED running
    /\ UNCHANGED disturbed

-----------------------------------------------------------------------------
(* The platform and the broker.                                              *)

\* A message reaches the agent if it is subscribed to it.
Deliver(topic, message) ==
    IF topic \in granted
    THEN toAgent' = Append(toAgent, message) /\ sent' = sent \cup {message}
    ELSE UNCHANGED <<toAgent, sent>>

\* Requests are answered in the order they come in, with the resource or an error.
PlatformAnswers ==
    /\ running /\ toPlatform # << >>
    /\ toPlatform' = Tail(toPlatform)
    /\ LET kind == Head(toPlatform)
       IN \/ /\ Deliver(RespTopic, [kind |-> kind, pc |-> TRUE])
             /\ created' = created \cup ({kind} \cap Resource)
             /\ UNCHANGED trials
          \/ /\ Try("error")
             /\ Deliver(RespTopic, [kind |-> kind, pc |-> FALSE])
             /\ UNCHANGED created
    /\ UNCHANGED <<sessionVars, ONEM2M_V1_12, running, agent, answeredBy, disturbed>>

PlatformCommands ==
    /\ running /\ conn = "up" /\ ReqTopic \in granted
    /\ Try("between")
    /\ Deliver(ReqTopic, [kind |-> "command", pc |-> TRUE])
    /\ UNCHANGED <<sessionVars, ONEM2M_V1_12, running, agent, toPlatform, record>>

\* The subscriptions are of QoS 1: on the same connection the broker may send a message
\* again, and the library hands it over again.
BrokerRepeats ==
    /\ running
    /\ Try("between")
    /\ \E m \in sent : Deliver(IF m.kind = "command" THEN ReqTopic ELSE RespTopic, m)
    /\ disturbed' = disturbed \cup {"repeat"}
    /\ UNCHANGED <<sessionVars, ONEM2M_V1_12, running, agent, toPlatform, created, answeredBy>>

-----------------------------------------------------------------------------
Next ==
    \/ SessionMoves \/ ProcessCMD \/ MQTTMessageArrived
    \/ PlatformAnswers \/ PlatformCommands \/ BrokerRepeats

Spec == Init /\ [][Next]_allVars

\* The library's threads run, the broker and the platform answer.
Fairness ==
    /\ WF_allVars(SessionMoves /\ (OnConnect \/ OnConnected \/ OnSubscribe \/ ConnectSucceeds))
    /\ WF_allVars(ProcessCMD) /\ WF_allVars(MQTTMessageArrived) /\ WF_allVars(PlatformAnswers)

FairSpec == Spec /\ Fairness

-----------------------------------------------------------------------------
(* Properties.                                                               *)

\* Every variable keeps its type.
TypeOK ==
    /\ SessionTypeOK
    /\ ONEM2M_V1_12 \in Builds /\ running \in BOOLEAN
    /\ disturbed \subseteq {"command", "repeat"}
    /\ mStep \in Resource /\ created \subseteq Resource
    /\ held \in [Identity -> Resource \cup {"none", "result"}]
    /\ toPlatform \in Seq(Resource \cup {"result"})
    /\ toAgent \in Seq([kind : Resource \cup {"result", "command"}, pc : BOOLEAN])
    /\ sent \subseteq [kind : Resource \cup {"result", "command"}, pc : BOOLEAN]
    /\ trials \in [{"error", "between"} -> Nat]
    /\ posted \in [Resource -> Nat]
    /\ answeredBy \in [Resource -> SUBSET (Resource \cup {"result"})]

\* How often one registration requests a resource.
Times(r) == IF r = "mgmtCmd" /\ ~ONEM2M_V1_12 THEN 5 ELSE 1

\* However often the connection is lost and made again, and whatever message comes
\* twice, the registration is run through once: a resource is requested a second time
\* only if a subscribe failed, which the agent takes for a subscription.
RequestedOnce == told.failed = 0 => \A r \in Resource : posted[r] <= Times(r)

\* A step acts on the response to its own request and on no other, also when that comes
\* late, on another connection, unless a command was answered, a message came twice or
\* a subscribe failed: the response to a result and the copy of a response are each
\* taken for the answer to the step under way.
OwnResponses ==
    disturbed = {} /\ told.failed = 0 => \A r \in Resource : answeredBy[r] \subseteq {r}

\* What a request names as already created.
Names(r) ==
    CASE r = "remoteCSE" -> {"node"}
      [] r = "container" -> IF ONEM2M_V1_12 THEN {"AE"} ELSE {"remoteCSE"}
      [] r = "contentInstance" -> IF ONEM2M_V1_12 THEN {"AE", "container"} ELSE {"remoteCSE", "container"}
      [] r = "mgmtCmd" -> IF ONEM2M_V1_12 THEN {"node"} ELSE {"node", "remoteCSE"}
      [] OTHER -> {}

\* In release 1.12 the container's response is not looked at: after an error the
\* registration goes on, and reports into a container that may not exist.
Presumed == IF ONEM2M_V1_12 /\ trials.error < MaxErrors THEN {"container"} ELSE {}

\* A request names only what the platform has created, or is presumed to have, unless
\* a command was answered or a message came twice: in release 1.0 the copy of the
\* remoteCSE's response has a resource name that the container's step takes for its own.
NamesOnlyCreated ==
    disturbed = {} => \A r \in Resource : posted[r] > 0 => Names(r) \subseteq created \cup Presumed

\* The last step of the registration has its answer.
Registered == answeredBy[IF ONEM2M_V1_12 THEN "contentInstance" ELSE "mgmtCmd"] # {}

\* A registration that was started completes, unless the connection was lost or not
\* made, the broker refused a topic, or the platform answered with an error.
RegistrationCompletes ==
    mClient ~> Registered \/ lost \/ ~mClient \/ refused # {} \/ trials.error < MaxErrors
=============================================================================
