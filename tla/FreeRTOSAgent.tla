--------------------------- MODULE FreeRTOSAgent ----------------------------
(***************************************************************************)
(* The management agent of the FreeRTOS port,                              *)
(* src/FreeRTOS/Src/oneM2M/MA/MA.c, on top of calls that nest.  Its one     *)
(* task yields to the MQTT client, which delivers a message in the middle   *)
(* of the call that read it; the agent's handler then publishes its next    *)
(* request with QoS 1, and waits for the acknowledgement in a call of its   *)
(* own, in which the next message may be delivered.                        *)
(*                                                                         *)
(* Release 1.0 reports again on each answer to its report; release 1.12     *)
(* ends with the answer to its first one.  What is reported is collected    *)
(* by tpAddData in one buffer, gContent, which tpReport frees only after    *)
(* its publish has returned.                                               *)
(*                                                                         *)
(* The client is taken as NestedCalls says; the broker and the platform     *)
(* are external.                                                           *)
(***************************************************************************)
EXTENDS Naturals, Sequences, FiniteSets, FiniteSetsExt

CONSTANTS
    Builds,       \* values of the switch ONEM2M_V1_12: release 1.12 and/or 1.0
    MaxOfEach, MaxEvents  \* bounds: events of one kind, and altogether

ASSUME AgentConstantsOK ==
    /\ Builds \subseteq BOOLEAN
    /\ MaxOfEach \in Nat /\ MaxEvents \in Nat

Resource == {"node", "remoteCSE", "AE", "container", "mgmtCmd", "contentInstance"}
Request  == Resource \cup {"result"}
Identity == {"mNodeLink", "mDeviceKey", "mRemoteCSEResourceName",
             "mContainerResourceName", "mAEID"}

\* What the world outside does only so often: a command arrives, a request fails, a
\* message is repeated, the connection is lost, an answer is delivered before the
\* acknowledgement of its request.
Event == {"command", "error", "repeat", "loss", "overtake"}

\* What the client reads: an acknowledgement, a command, or the response to a request.
Message   == [kind : Request \cup {"command"}, pc : BOOLEAN, dup : BOOLEAN]
NoMessage == [kind |-> "none", pc |-> FALSE, dup |-> FALSE]
Ack       == [kind |-> "ack", pc |-> FALSE, dup |-> FALSE]

\* A publish, with the samplings a report carries; and the yield of the main loop.
Publication(request, samplings) == [request |-> request, samplings |-> samplings]
Publications == [request : Request, samplings : Nat]
Yield        == [request |-> "yield", samplings |-> 0]

VARIABLES
    ONEM2M_V1_12, \* the oneM2M release this agent was built for: 1.12 or 1.0
    stage,        \* where MARun is: "create", "loop", "exit", "ended", or "fault"
    frames, late, \* the client's calls in progress and their deadlines
    slotsLeft,    \* the calls, by depth, whose deliverMessage has a slot ahead that may match
    readbuf,      \* what such a slot is compared with: the kind of message last read
    mStep,        \* the resource whose creation is under way, or "end"
    held,         \* [Identity -> the resource whose response it was read from, or "none"]
    gContent,     \* samplings collected and not freed; 0: a null pointer
    next,         \* the request the running code is about to publish, or "none"
    link,         \* the TCP connection lives
    toClient,     \* packets on their way to the client
    unacked,      \* publishes the broker has taken and not acknowledged yet
    asked,        \* requests the platform has not answered, in order
    happened,     \* [Event -> how often it has happened]
    answeredBy    \* for the properties: [Resource -> kinds of response its step acted on]

calls  == <<frames, late>>
client == <<calls, slotsLeft, readbuf>>
agent  == <<mStep, held, next>>
wire   == <<link, toClient, unacked, asked>>
record == <<happened, answeredBy>>
vars   == <<ONEM2M_V1_12, stage, client, agent, gContent, wire, record>>

Client == INSTANCE NestedCalls
          WITH MainCalls <- Publications \cup {Yield}, HandlerCalls <- Publications

Init ==
    /\ ONEM2M_V1_12 \in Builds /\ stage = "create"
    /\ Client!CallsInit /\ slotsLeft = {} /\ readbuf = "none"
    /\ mStep = "node" /\ held = [i \in Identity |-> "none"] /\ next = "none"
    /\ gContent = 0
    /\ link = TRUE /\ toClient = << >> /\ unacked = 0 /\ asked = << >>
    /\ happened = [e \in Event |-> 0] /\ answeredBy = [r \in Resource |-> {}]

Happen(events) ==
    /\ happened' = [e \in Event |-> IF e \in events THEN happened[e] + 1 ELSE happened[e]]
    /\ \A e \in events : happened'[e] <= MaxOfEach
    /\ events # {} => MapThenSumSet(LAMBDA e : happened'[e], Event) <= MaxEvents

-----------------------------------------------------------------------------
(* MARun: create, yield until mStep is PROCESS_END, disconnect and destroy.  *)

\* tpMQTTCreate: once it has come to its topics it calls MQTTSubscribed, and so
\* CreateNode, whatever the result; a create that failed goes to exit.
tpMQTTCreate ==
    /\ stage = "create"
    /\ \/ stage' \in {"loop", "exit"} /\ next' = "node"
       \/ stage' = "exit" /\ next' = "none"
    /\ UNCHANGED <<ONEM2M_V1_12, client, mStep, held, gContent, wire, record>>

MainLoop ==
    /\ stage = "loop" /\ frames = << >> /\ next = "none" /\ mStep # "end"
    /\ Client!Call(Yield)
    /\ UNCHANGED <<ONEM2M_V1_12, stage, slotsLeft, readbuf, agent, gContent, wire, record>>

\* tpMQTTDisconnect and tpMQTTDestory: the content is freed, the connection closed.
Leave ==
    /\ stage = "exit" \/ (stage = "loop" /\ mStep = "end")
    /\ frames = << >> /\ next = "none"
    /\ stage' = "ended"
    /\ gContent' = 0
    /\ link' = FALSE /\ toClient' = << >> /\ unacked' = 0 /\ asked' = << >>
    /\ UNCHANGED <<ONEM2M_V1_12, client, agent, record>>

-----------------------------------------------------------------------------
(* The handler, MQTTMessageArrived.                                          *)

\* The step that follows, once the response's attributes are read into h.
Follow(step, h) ==
    CASE step = "node" /\ h["mNodeLink"] # "none" ->
            IF ONEM2M_V1_12 THEN "AE" ELSE "remoteCSE"
      [] step = "AE" /\ h["mAEID"] # "none" -> "container"
      [] step = "remoteCSE" /\ h["mDeviceKey"] # "none"
                            /\ h["mRemoteCSEResourceName"] # "none" -> "container"
      [] step = "container" /\ ONEM2M_V1_12 -> "mgmtCmd"
      [] step = "container" /\ ~ONEM2M_V1_12
                            /\ h["mContainerResourceName"] # "none" -> "contentInstance"
      [] step = "mgmtCmd" /\ ONEM2M_V1_12 -> "contentInstance"
      [] step = "contentInstance" -> IF ONEM2M_V1_12 THEN "end" ELSE "contentInstance"
      [] OTHER -> "none"


Reads(step) ==
    CASE step = "node"      -> {"mNodeLink"}
      [] step = "remoteCSE" -> {"mDeviceKey", "mRemoteCSEResourceName"}
      [] step = "AE"        -> {"mAEID"}
      [] step = "container" /\ ~ONEM2M_V1_12 -> {"mContainerResourceName"}
      [] OTHER -> {}

\* The device key and the AE id come with one kind of response, other names with all.
Carries(kind, identity) ==
    /\ identity = "mDeviceKey" => kind = "remoteCSE"
    /\ identity = "mAEID" => kind = "AE"

\* SimpleXmlParser with isPC, where the response has no <pc>.
NeedsPc(step) ==
    IF ONEM2M_V1_12 THEN step \in {"node", "AE"}
                    ELSE step \in {"node", "container", "contentInstance", "mgmtCmd"}

readPacket ==
    /\ stage # "fault" /\ toClient # << >> /\ Client!Reading /\ ~Client!IsLate
    /\ toClient' = Tail(toClient)
    /\ readbuf' = IF slotsLeft = {} THEN "none" ELSE Head(toClient).kind
    /\ UNCHANGED <<ONEM2M_V1_12, gContent, link, unacked, asked, happened>>

\* Mutant: a repeated message is handled again.
Duplicate_Handled ==
    /\ readPacket /\ Head(toClient).dup
    /\ Client!BeginDelivery(Head(toClient))
    /\ next' = mStep
    /\ UNCHANGED <<stage, slotsLeft, mStep, held, answeredBy>>

\* CallMessageArrivedCallback drops a message that carries DUP.
Duplicate ==
    /\ readPacket /\ Head(toClient).dup
    /\ UNCHANGED <<stage, calls, slotsLeft, agent, answeredBy>>

\* Commands have the first slot and responses the second.  The filters of release 1.0
\* end in, or contain, a +; those of release 1.12 match a topic of their length only.
ProcessCMD ==
    /\ readPacket /\ Head(toClient).kind = "command" /\ ~Head(toClient).dup
    /\ Client!BeginDelivery(Head(toClient))
    /\ slotsLeft' = IF ONEM2M_V1_12 THEN slotsLeft ELSE slotsLeft \cup {Len(frames)}
    /\ next' = "result"
    /\ UNCHANGED <<stage, mStep, held, answeredBy>>

\* A response is taken for the answer to the step the agent is in.  Without <pc> the
\* parser reads through a null pointer: it faults, or finds nothing there.
MQTTMessageArrived(kind, pc) ==
    LET found == {i \in Reads(mStep) : pc /\ Carries(kind, i)}
        step == Follow(mStep, held')
    IN \/ /\ NeedsPc(mStep) /\ ~pc
          /\ stage' = "fault"
          /\ UNCHANGED <<agent, answeredBy>>
       \/ /\ UNCHANGED stage
          /\ held' = [i \in Identity |-> IF i \in found THEN kind ELSE held[i]]
          /\ mStep' = IF step = "none" THEN mStep ELSE step
          /\ next' = IF step \in Resource THEN step ELSE "none"
          /\ answeredBy' = IF mStep \in Resource
                           THEN [answeredBy EXCEPT ![mStep] = @ \cup {kind}]
                           ELSE answeredBy

Response ==
    /\ readPacket /\ Head(toClient).kind \in Request /\ ~Head(toClient).dup
    /\ Client!BeginDelivery(Head(toClient))
    /\ MQTTMessageArrived(Head(toClient).kind, Head(toClient).pc)
    /\ UNCHANGED slotsLeft

\* The innermost call's delivery has no slot ahead any more.
SlotsEnd ==
    /\ slotsLeft' = slotsLeft \ {Len(frames)}
    /\ readbuf' = IF slotsLeft' = {} THEN "none" ELSE readbuf

\* Mutant: the slots are looked through again from the first.
SecondSlot_Again ==
    /\ stage # "fault" /\ Client!InDelivery /\ next = "none"
    /\ Len(frames) \in slotsLeft /\ readbuf \in Request
    /\ \E pc \in BOOLEAN : MQTTMessageArrived(readbuf, pc)
    /\ UNCHANGED <<ONEM2M_V1_12, calls, slotsLeft, readbuf, gContent, wire, happened>>

\* deliverMessage goes on to the second slot with what the command's handler has left
\* in readbuf, and finds a response there that was handled or dropped as repeated.
\* The handler is given the bytes at the command's place and length: the response cut
\* short, or with the end of the command behind it, so with a <pc> or without.
SecondSlot ==
    /\ stage # "fault" /\ Client!InDelivery /\ next = "none"
    /\ Len(frames) \in slotsLeft /\ readbuf \in Request
    /\ \E pc \in BOOLEAN : MQTTMessageArrived(readbuf, pc)
    /\ SlotsEnd
    /\ UNCHANGED <<ONEM2M_V1_12, calls, gContent, wire, happened>>

\* The handlers are through: no further slot, or none that matches at the place and
\* length of the message's own topic.  A yield that has run out of time by then could
\* not acknowledge the message, and returns.
HandlerReturns ==
    /\ stage # "fault" /\ Client!InDelivery /\ next = "none"
    /\ \/ Client!FinishDelivery
       \/ Client!Inner.call = Yield /\ Client!IsLate /\ Client!Return
    /\ SlotsEnd
    /\ UNCHANGED <<ONEM2M_V1_12, stage, agent, gContent, wire, record>>

-----------------------------------------------------------------------------
(* Requests: CreateNode .. CreateContentInstance and UpdateExecInstance.     *)

\* Mutant: a report that could not be sent keeps its content.
Report_KeepsContent(sent) == gContent' = gContent + 1

\* CreateContentInstance: a sampling (the time and four sensors) is added to gContent,
\* and tpReport frees it once handleMQTTPublishMessage is back: at once, if not sent.
Report(sent) == gContent' = IF sent THEN gContent + 1 ELSE 0

\* handleMQTTPublishMessage: the result is looked at by nobody.
Publish ==
    /\ next # "none" /\ stage # "fault"
    /\ LET samplings == IF next = "contentInstance" THEN gContent + 1 ELSE 0
       IN IF link
          THEN /\ Client!Call(Publication(next, samplings))
               /\ asked' = Append(asked, next) /\ unacked' = unacked + 1
          ELSE UNCHANGED <<calls, asked, unacked>>
    /\ IF next = "contentInstance" THEN Report(link) ELSE UNCHANGED gContent
    /\ next' = "none"
    /\ UNCHANGED <<ONEM2M_V1_12, stage, slotsLeft, readbuf, mStep, held, link, toClient, record>>

\* Mutant: the step is set when the publish has returned.
PublishReturns_SetsStep ==
    /\ Client!Return
    /\ gContent' = IF Client!Inner.call.request = "contentInstance" THEN 0 ELSE gContent
    /\ mStep' = IF Client!Inner.call.request \in Resource THEN Client!Inner.call.request
                                                          ELSE mStep
    /\ UNCHANGED <<ONEM2M_V1_12, stage, slotsLeft, readbuf, held, next, link, unacked, asked,
                   record>>

\* Mutant: a deadline that has passed outlives its publish.
PublishReturns_DeadlineStays ==
    /\ frames # << >> /\ frames' = SubSeq(frames, 1, Len(frames) - 1) /\ UNCHANGED late
    /\ gContent' = IF Client!Inner.call.request = "contentInstance" THEN 0 ELSE gContent
    /\ UNCHANGED <<ONEM2M_V1_12, stage, slotsLeft, readbuf, agent, link, unacked, asked, record>>

\* MQTTPublish is back, tpReport frees what is collected by now.
PublishReturns ==
    /\ Client!Return
    /\ gContent' = IF Client!Inner.call.request = "contentInstance" THEN 0 ELSE gContent
    /\ UNCHANGED <<ONEM2M_V1_12, stage, slotsLeft, readbuf, agent, link, unacked, asked, record>>

\* An acknowledgement ends the innermost publish, or is dropped by a yield.
Acknowledged ==
    /\ stage # "fault" /\ toClient # << >> /\ Head(toClient) = Ack
    /\ Client!Reading /\ ~Client!IsLate
    /\ toClient' = Tail(toClient)
    /\ \/ Client!Inner.call # Yield /\ PublishReturns
       \/ /\ Client!Inner.call = Yield
          /\ UNCHANGED <<ONEM2M_V1_12, stage, client, agent, gContent,
                         link, unacked, asked, record>>

\* The innermost call runs out of time.
TimedOut ==
    /\ stage # "fault" /\ Client!Reading /\ Client!IsLate
    /\ PublishReturns
    /\ UNCHANGED toClient

DeadlinePasses ==
    /\ stage # "fault" /\ Client!DeadlinePasses
    /\ UNCHANGED <<ONEM2M_V1_12, stage, slotsLeft, readbuf, agent, gContent, wire, record>>

-----------------------------------------------------------------------------
(* The broker and the platform.                                              *)

Outside == UNCHANGED <<ONEM2M_V1_12, stage, client, agent, gContent, answeredBy>>

BrokerAcks ==
    /\ unacked > 0
    /\ unacked' = unacked - 1
    /\ toClient' = Append(toClient, Ack)
    /\ Outside /\ UNCHANGED <<link, asked, happened>>

\* Requests are answered in order, with the resource or an error, once the topic of
\* responses is subscribed.  An answer may overtake the acknowledgement of its request.
PlatformAnswers ==
    /\ asked # << >>
    /\ asked' = Tail(asked)
    /\ \E ok \in BOOLEAN :
         /\ Happen((IF ok THEN {} ELSE {"error"})
                    \cup (IF unacked < Len(asked) THEN {} ELSE {"overtake"}))
         /\ toClient' = IF stage = "loop"
                        THEN Append(toClient, [kind |-> Head(asked), pc |-> ok, dup |-> FALSE])
                        ELSE toClient
    /\ Outside /\ UNCHANGED <<link, unacked>>

PlatformCommands ==
    /\ link /\ stage = "loop" /\ Happen({"command"})
    /\ toClient' = Append(toClient, [kind |-> "command", pc |-> TRUE, dup |-> FALSE])
    /\ Outside /\ UNCHANGED <<link, unacked, asked>>

\* A message still to be read or under delivery is not acknowledged, and may be
\* repeated with DUP set.
BrokerRepeats ==
    /\ link /\ Happen({"repeat"})
    /\ \E m \in {toClient[i] : i \in 1..Len(toClient)} \cup {frames[i].msg : i \in 1..Len(frames)} :
         /\ m \in Message
         /\ toClient' = Append(toClient, [m EXCEPT !.dup = TRUE])
    /\ Outside /\ UNCHANGED <<link, unacked, asked>>

\* The connection goes, and all that was on its way; the agent has no way to make a
\* new one.
LinkFails ==
    /\ link /\ Happen({"loss"})
    /\ link' = FALSE
    /\ toClient' = << >> /\ unacked' = 0 /\ asked' = << >>
    /\ Outside

-----------------------------------------------------------------------------
Read == Duplicate \/ ProcessCMD \/ Response \/ Acknowledged

Task ==
    \/ tpMQTTCreate \/ MainLoop \/ Leave
    \/ Read \/ SecondSlot \/ HandlerReturns \/ Publish \/ TimedOut

Next ==
    \/ Task \/ DeadlinePasses
    \/ BrokerAcks \/ PlatformAnswers \/ PlatformCommands \/ BrokerRepeats \/ LinkFails

Spec == Init /\ [][Next]_vars

\* The task runs; a call that has something to read reads it before its deadline at
\* least now and then; the broker and the platform answer.  No deadline need ever
\* pass: the WIZnet sockets wait for the next byte whatever the time (PacketStream).
Fairness ==
    /\ WF_vars(Task) /\ SF_vars(Read)
    /\ WF_vars(BrokerAcks) /\ WF_vars(PlatformAnswers)

FairSpec == Spec /\ Fairness

-----------------------------------------------------------------------------
(* Properties.                                                               *)

\* Every variable keeps its type.
TypeOK ==
    /\ ONEM2M_V1_12 \in Builds /\ stage \in {"create", "loop", "exit", "ended", "fault"}
    /\ frames \in Seq([call : Publications \cup {Yield}, msg : Message \cup {NoMessage}])
    /\ late \in 0..Len(frames)
    /\ readbuf \in Request \cup {"command", "none"}
    /\ slotsLeft \subseteq {i \in 1..Len(frames) : frames[i].msg.kind = "command"}
    /\ mStep \in Resource \cup {"end"} /\ next \in Request \cup {"none"}
    /\ held \in [Identity -> Request \cup {"none"}]
    /\ gContent \in Nat /\ unacked \in Nat
    /\ link \in BOOLEAN /\ happened \in [Event -> Nat]
    /\ toClient \in Seq(Message \cup {Ack}) /\ asked \in Seq(Request)
    /\ answeredBy \in [Resource -> SUBSET Request]

Reports == {i \in 1..Len(frames) : frames[i].call.request = "contentInstance"}

\* A report carries its own sampling, and besides at most one of each report it
\* interrupts: tpAddData appends to what the interrupted ones have not freed yet.
\* When no report is under way nothing is left for the next one, whether the last one
\* was acknowledged, timed out or could not be sent.
OwnSampling ==
    /\ \A i \in Reports : frames[i].call.samplings <= 1 + Cardinality({j \in Reports : j < i})
    /\ gContent <= Cardinality(Reports)

\* The chains of requests that commands have added: the result is answered too, and in
\* release 1.0 a response may be handled again in the second slot of the command.
Added == (IF ONEM2M_V1_12 THEN 1 ELSE 2) * happened["command"]

\* The one task's stack: while no answer overtakes the acknowledgement of its request,
\* a yield, a publish and one more for each chain a command has added is all that nests.
StackIsShallow == happened["overtake"] = 0 => Len(frames) <= 2 + Added

\* Requests, and what will lead to one: but for the second slot of a command each
\* message is handled once, repeated or not, so there is one chain of requests and
\* those that commands add.  (Release 1.0 then reports that many times a second.)
Fresh      == {i \in 1..Len(toClient) : toClient[i] # Ack /\ ~toClient[i].dup}
Unanswered == Len(asked) + Cardinality(Fresh) + IF next = "none" THEN 0 ELSE 1
OneChain == Unanswered <= 1 + Added

Order == [s \in Resource \cup {"end"} |->
            CASE s = "node" -> 0 [] s \in {"remoteCSE", "AE"} -> 1 [] s = "container" -> 2
              [] s = "mgmtCmd" -> 3 [] s = "contentInstance" -> 4 [] s = "end" -> 5]

\* The registration never steps back, though a handler that began before another one
\* ends after it.
NeverBack == [][Order[mStep] <= Order[mStep']]_vars

\* A step acts on the response to its own request and on no other, unless a command
\* was answered.
OwnResponses == happened["command"] = 0 => \A r \in Resource : answeredBy[r] \subseteq {r}

\* What stops the agent: a create that failed, a connection lost, an error response.
Stopped == stage \in {"exit", "fault"} \/ ~link \/ happened["error"] > 0

=============================================================================
