---------------------------- MODULE AsyncSession ----------------------------
(***************************************************************************)
(* The MQTT session of the Linux port, src/linux/src/net/MQTTClient.c: a    *)
(* wrapper that connects, subscribes to the topics given at creation and    *)
(* subscribes again after every automatic reconnect, hiding the second      *)
(* subscription from the application with the flag mReconnected.            *)
(*                                                                         *)
(* The callbacks run on the receive thread of the Paho asynchronous         *)
(* library; API calls come from the application's thread, and the           *)
(* connection may go at any moment.  Library and broker are external: the   *)
(* connection is made with cleansession, so a new one has no subscription,  *)
(* and requests that were not answered are dropped with the connection.     *)
(***************************************************************************)
EXTENDS Naturals, Sequences, FiniteSets

CONSTANTS
    mSubscribeTopic,   \* the topics given to tpSDKCreate
    OtherTopics,       \* topics given to MQTTAsyncSubscribe
    MaxCreates, MaxSubscribes, MaxLosses, MaxConnectFailures   \* bounds

ASSUME SessionConstantsOK ==
    {MaxCreates, MaxSubscribes, MaxLosses, MaxConnectFailures} \subseteq Nat

VARIABLES
    mClient,       \* TRUE while mClient is not NULL
    mReconnected,
    conn,          \* library: "down", "connecting" or "up"
    onSuccess,     \* library: OnConnect has still to be called for this client
    upcall,        \* library: the callback due for the connection just made, or "none"
    pending,       \* library: subscribe requests not answered yet, in order
    granted,       \* broker: what this connection is subscribed to
    left           \* how often each bounded event may still happen

\* What happened, for the properties.
VARIABLES
    asked,     \* subscriptions the application was promised a callback for
    told,      \* calls of mSubscribedCallback: [ok : successes, failed : failures]
    refused,   \* topics the broker refused on this connection
    lost       \* the connection was lost or could not be made since the creation

library     == <<conn, onSuccess, upcall, pending, granted>>
news        == <<asked, told, refused, lost>>
sessionVars == <<mClient, mReconnected, library, left, news>>

Topic == mSubscribeTopic \cup OtherTopics

Use(event) == left[event] > 0 /\ left' = [left EXCEPT ![event] = @ - 1]

SessionInit ==
    /\ mClient = FALSE /\ mReconnected = FALSE
    /\ conn = "down" /\ onSuccess = FALSE /\ upcall = "none"
    /\ pending = << >> /\ granted = {}
    /\ left = [create |-> MaxCreates, subscribe |-> MaxSubscribes,
               loss |-> MaxLosses, connectFailure |-> MaxConnectFailures]
    /\ asked = 0 /\ told = [ok |-> 0, failed |-> 0] /\ refused = {} /\ lost = FALSE

\* mSubscribedCallback is called with these results.
Tell(ok, failed) == told' = [ok |-> told.ok + ok, failed |-> told.failed + failed]

-----------------------------------------------------------------------------
(* The application's calls.                                                  *)

\* The library forgets the client: requests not answered end in their failure
\* callback or in nothing, which the header of the library leaves open.
Forget ==
    /\ conn' = "down" /\ onSuccess' = FALSE /\ upcall' = "none"
    /\ pending' = << >> /\ granted' = {}
    /\ \E failed \in {0, Len(pending)} : Tell(0, failed)

MQTTAsyncDestroy ==
    /\ mClient /\ mClient' = FALSE
    /\ Forget
    /\ UNCHANGED <<mReconnected, left, asked, refused, lost>>

\* Mutant: the flag of an earlier session is kept.
MQTTAsyncCreate_KeepsFlag ==
    /\ ~mClient /\ mClient' = TRUE
    /\ Use("create")
    /\ conn' = "connecting" /\ onSuccess' = TRUE
    /\ asked' = asked + 1
    /\ refused' = {} /\ lost' = FALSE
    /\ UNCHANGED <<mReconnected, upcall, pending, granted, told>>

\* MQTTAsync_connect accepts the request, or the client is destroyed again.  The code
\* does not look whether there is a client: that a program has one at a time, as all
\* those of the repository do, is an assumption about the application.
MQTTAsyncCreate ==
    /\ ~mClient
    /\ Use("create")
    /\ mReconnected' = FALSE
    /\ refused' = {} /\ lost' = FALSE
    /\ \/ /\ mClient' = TRUE /\ conn' = "connecting" /\ onSuccess' = TRUE
          /\ asked' = asked + 1
       \/ UNCHANGED <<mClient, conn, onSuccess, asked>>
    /\ UNCHANGED <<upcall, pending, granted, told>>

\* Only an established connection is closed.  While the library retries, it
\* reports that it is not connected, and may or may not go on trying.
MQTTAsyncDisconnect ==
    /\ mClient /\ conn # "down"
    /\ \/ conn = "up" /\ Forget
       \/ conn = "connecting" /\ conn' \in {"connecting", "down"}
          /\ UNCHANGED <<onSuccess, upcall, pending, granted, told>>
    /\ lost' = TRUE
    /\ UNCHANGED <<mClient, mReconnected, left, asked, refused>>

\* The library takes a subscribe request only while it is connected.
Request(topics) ==
    pending' = IF conn = "up" THEN Append(pending, topics) ELSE pending

MQTTAsyncSubscribe(t) ==
    /\ mClient
    /\ Use("subscribe")
    /\ Request({t})
    /\ asked' = IF conn = "up" THEN asked + 1 ELSE asked
    /\ UNCHANGED <<mClient, mReconnected, conn, onSuccess, upcall, granted, told, refused, lost>>

-----------------------------------------------------------------------------
(* Callbacks, on the receive thread.                                         *)

MQTTAsyncSubscribeMany == Request(mSubscribeTopic)

\* The connection may have gone since: then there is nothing to subscribe on, and
\* the client is destroyed although the library would have connected again.
OnConnect ==
    /\ upcall = "onSuccess"
    /\ IF conn = "up"
       THEN /\ MQTTAsyncSubscribeMany
            /\ upcall' = "connect"
            /\ UNCHANGED <<mClient, conn, onSuccess, granted, told>>
       ELSE mClient' = FALSE /\ Forget
    /\ UNCHANGED <<mReconnected, left, asked, refused, lost>>

\* Mutant: only the flag is set.
OnConnected_NoSubscribe ==
    /\ \/ upcall = "connect" /\ UNCHANGED mReconnected
       \/ upcall = "reconnect" /\ mReconnected' = TRUE
    /\ upcall' = "none"
    /\ UNCHANGED <<mClient, conn, onSuccess, pending, granted, left, news>>

\* Mutant: the flag is not set.
OnConnected_NoFlag ==
    /\ \/ upcall = "connect" /\ UNCHANGED pending
       \/ upcall = "reconnect" /\ MQTTAsyncSubscribeMany
    /\ upcall' = "none"
    /\ UNCHANGED <<mClient, mReconnected, conn, onSuccess, granted, left, news>>

\* Mutant: the first connection is taken for a reconnect and the other way round.
OnConnected_Swapped ==
    /\ \/ upcall = "reconnect" /\ UNCHANGED <<mReconnected, pending>>
       \/ upcall = "connect" /\ mReconnected' = TRUE /\ MQTTAsyncSubscribeMany
    /\ upcall' = "none"
    /\ UNCHANGED <<mClient, conn, onSuccess, granted, left, news>>

\* The cause given to OnConnected names a reconnect or the first connection; the
\* result of subscribing is ignored.
OnConnected ==
    /\ \/ upcall = "connect" /\ UNCHANGED <<mReconnected, pending>>
       \/ upcall = "reconnect" /\ mReconnected' = TRUE /\ MQTTAsyncSubscribeMany
    /\ upcall' = "none"
    /\ UNCHANGED <<mClient, conn, onSuccess, granted, left, news>>

OnConnectFailure ==
    /\ conn = "connecting" /\ upcall = "none"
    /\ Use("connectFailure")
    /\ conn' \in {"connecting", "down"}
    /\ lost' = TRUE
    /\ UNCHANGED <<mClient, mReconnected, onSuccess, upcall, pending, granted, asked, told, refused>>

\* The broker answers the oldest request, granting some of its topics.
Answer(grants) ==
    /\ conn = "up" /\ upcall = "none"
    /\ pending' = Tail(pending)
    /\ granted' = granted \cup grants
    /\ refused' = (refused \ grants) \cup (Head(pending) \ grants)
    /\ UNCHANGED <<mClient, conn, onSuccess, upcall, left, asked, lost>>

\* A success for several topics, whatever the broker granted of them; the first
\* success after a reconnect is kept from the application.
OnSubscribe ==
    /\ pending # << >>
    /\ \E grants \in SUBSET Head(pending) :
         /\ Cardinality(Head(pending)) = 1 => grants # {}
         /\ Answer(grants)
    /\ Tell(IF mReconnected THEN 0 ELSE 1, 0)
    /\ mReconnected' = FALSE

\* A refused request for one topic.  The flag stays as it is.
OnSubscribeFailure ==
    /\ pending # << >> /\ Cardinality(Head(pending)) = 1
    /\ Answer({})
    /\ Tell(0, 1)
    /\ UNCHANGED mReconnected

-----------------------------------------------------------------------------
(* The library.                                                              *)

\* CONNACK: onSuccess once per client, then connected with its cause.
ConnectSucceeds ==
    /\ conn = "connecting" /\ upcall = "none"
    /\ conn' = "up" /\ onSuccess' = FALSE
    /\ upcall' = IF onSuccess THEN "onSuccess" ELSE "reconnect"
    /\ refused' = {}
    /\ UNCHANGED <<mClient, mReconnected, pending, granted, left, asked, told, lost>>

\* automaticReconnect: the library goes on connecting.
ConnectionLostCallback ==
    /\ conn = "up"
    /\ Use("loss")
    /\ conn' = "connecting"
    /\ pending' = << >> /\ granted' = {}
    /\ \E failed \in {0, Len(pending)} : Tell(0, failed)
    /\ lost' = TRUE
    /\ UNCHANGED <<mClient, mReconnected, onSuccess, upcall, asked, refused>>

-----------------------------------------------------------------------------
App == MQTTAsyncDisconnect \/ MQTTAsyncDestroy \/ \E t \in OtherTopics : MQTTAsyncSubscribe(t)

Receive == OnConnect \/ OnConnected \/ OnSubscribe \/ OnSubscribeFailure

Library == Receive \/ OnConnectFailure \/ ConnectSucceeds \/ ConnectionLostCallback

SessionNext == MQTTAsyncCreate \/ App \/ Library

SessionSpec == SessionInit /\ [][SessionNext]_sessionVars

\* The library's threads run, and the broker takes connections and answers.
SessionFairness ==
    WF_sessionVars(OnConnect) /\ WF_sessionVars(OnConnected)
    /\ WF_sessionVars(OnSubscribe \/ OnSubscribeFailure) /\ WF_sessionVars(ConnectSucceeds)

FairSessionSpec == SessionSpec /\ SessionFairness

-----------------------------------------------------------------------------
(* Properties.                                                               *)

\* Every variable keeps its type.
SessionTypeOK ==
    /\ mClient \in BOOLEAN /\ mReconnected \in BOOLEAN
    /\ onSuccess \in BOOLEAN /\ lost \in BOOLEAN
    /\ conn \in {"down", "connecting", "up"}
    /\ upcall \in {"none", "onSuccess", "connect", "reconnect"}
    /\ pending \in Seq(SUBSET Topic)
    /\ granted \subseteq Topic /\ refused \subseteq Topic
    /\ left \in [{"create", "subscribe", "loss", "connectFailure"} -> Nat]
    /\ asked \in Nat /\ told \in [ok : Nat, failed : Nat]

\* The application hears of a success at most once for each subscription it asked
\* for, however often the connection is lost and made again: the hidden
\* re-subscriptions never count.
ToldAtMostAsked == told.ok <= asked

\* A connection with nothing left to run or to answer has all its topics, but for
\* those the broker refused on it: no reconnect is forgotten.
SubscribedWhenQuiet ==
    conn = "up" /\ upcall = "none" /\ pending = << >> => mSubscribeTopic \subseteq granted \cup refused

\* More often than this the application is never told: once for each request, its own
\* or one after a loss.
MaxTold == MaxCreates + MaxSubscribes + MaxLosses

\* Every client, not only the first, comes to tell the application something it was
\* not told before that client was created, unless the connection was lost or not made
\* first, or the client is gone.
AppIsTold ==
    \A n \in 0..MaxTold :
        mClient /\ onSuccess /\ told.ok + told.failed = n
            ~> told.ok + told.failed > n \/ lost \/ ~mClient

\* A connection that lasts gets its subscriptions, or a refusal for them.
Resubscribes == conn = "up" ~> mSubscribeTopic \subseteq granted \cup refused \/ conn # "up"

\* Why they hold.  A request on its way is one the application asked for or one
\* that a set flag will keep from it; nothing is left of a connection that is gone;
\* and a connection has its subscriptions, or the request for them, or the callback
\* that will make it.
Armed  == IF onSuccess \/ upcall = "onSuccess" THEN 1 ELSE 0
Hidden == IF mReconnected THEN 1 ELSE 0

CountInv ==
    /\ told.ok + Len(pending) + Armed <= asked + Hidden
    /\ upcall = "reconnect" => told.ok + Len(pending) <= asked

GoneInv ==
    /\ conn # "up" => pending = << >>
    /\ ~mClient => conn = "down" /\ upcall = "none" /\ ~onSuccess
    /\ upcall # "none" => ~onSuccess

SubscribedInv ==
    conn = "up" => \/ upcall \in {"onSuccess", "reconnect"}
                   \/ \E i \in 1..Len(pending) : pending[i] = mSubscribeTopic
                   \/ mSubscribeTopic \subseteq granted \cup refused

\* The inductive invariant behind ToldAtMostAsked and SubscribedWhenQuiet.
SessionInv == SessionTypeOK /\ ToldAtMostAsked /\ CountInv /\ GoneInv /\ SubscribedInv
=============================================================================
