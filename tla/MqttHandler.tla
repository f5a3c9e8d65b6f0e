---------------------------- MODULE MqttHandler ----------------------------
(***************************************************************************)
(* The life of a connection on FreeRTOS: MQTT_handler.c creates the client, *)
(* connects the network, connects MQTT and subscribes, each with retries;   *)
(* NetworkConnect (MQTTFreeRTOS.c) takes a block and a socket from the pool  *)
(* of wizSystem.c, and a disconnect gives them back.  No TLS; one task.      *)
(*                                                                         *)
(* The W5500 chip, its DNS and DHCP code and the broker are external: a     *)
(* name may not resolve, a socket may not open, a connection may be refused *)
(* or lost, a CONNECT may be refused or answered late, and a broker that is *)
(* silent keeps a call in recv(), which waits for a byte.  The calls        *)
(* of MQTTClient.c are whole here; PahoClient has their inside.             *)
(***************************************************************************)
EXTENDS Naturals

CONSTANTS
    Blocks,                \* the blocks of NetMemPool: 3 in wizSystem.c
    NumSockets,            \* _WIZCHIP_SOCK_NUM_: 8
    NoBlock,               \* a null pointer
    MQTT_RETRY_CNT,        \* oneM2MConfig.h: 3
    MAX_MESSAGE_HANDLERS,  \* MQTTClient.h: 5
    subscribeTopicCnt,     \* topics given to tpMQTTCreate: 2
    MaxCreates, MaxLosses  \* bounds

ASSUME HandlerConstantsOK ==
    /\ Blocks # {} /\ NoBlock \notin Blocks
    /\ {NumSockets, MQTT_RETRY_CNT, subscribeTopicCnt} \subseteq Nat \ {0}
    /\ {MAX_MESSAGE_HANDLERS, MaxCreates, MaxLosses} \subseteq Nat

VARIABLES
    g_pMQTTClient,  \* TRUE while it is not NULL
    isconnected,    \* MQTTClient: MQTTConnect succeeded, MQTTDisconnect was not called
    slots,          \* MQTTClient: message handlers in use
    pSockPool, my_socket,       \* Network: block, perhaps freed already, and socket
    used, sockNo, SockStatus,   \* the pool: blocks taken, their sockets, sockets taken
    established,    \* sockets with a TCP connection
    session,        \* sockets with an MQTT session at the broker
    connack,        \* the CONNACK of a CONNECT that was given up is still to be read
    stage,          \* how far handleMQTTCreate is, "idle" outside
    count,          \* its loop variable: retry, or nLoop1
    waiting,        \* its call of MQTTClient.c is in recv(), with no byte to read
    crashed,        \* a null pointer was followed
    left            \* how often each bounded event may still happen

\* What happened, for the properties.
VARIABLES
    result,      \* of the last handleMQTTCreate: "none", "ok" or the stage that failed
    overLive,    \* it was called while isconnected was set
    recreated    \* one was called on a client that was not disconnected

client   == <<g_pMQTTClient, isconnected, slots>>
network  == <<pSockPool, my_socket>>
pool     == <<used, sockNo, SockStatus>>
outside  == <<established, session, connack>>
call     == <<stage, count, waiting>>
outcome  == <<result, overLive, recreated>>
vars     == <<client, network, pool, outside, call, crashed, left, outcome>>

Sockets == 0..(NumSockets - 1)
Stages  == {"dns", "network", "mqtt", "subscribe"}

Init ==
    /\ g_pMQTTClient = FALSE /\ isconnected = FALSE /\ slots = 0
    /\ pSockPool = NoBlock /\ my_socket = 0
    /\ used = {} /\ sockNo = [b \in Blocks |-> 0] /\ SockStatus = {}
    /\ established = {} /\ session = {} /\ connack = FALSE
    /\ stage = "idle" /\ count = 0 /\ waiting = FALSE /\ crashed = FALSE
    /\ left = [create |-> MaxCreates, loss |-> MaxLosses]
    /\ result = "none" /\ overLive = FALSE /\ recreated = FALSE

Use(event) == left[event] > 0 /\ left' = [left EXCEPT ![event] = @ - 1]

\* These sockets are closed, by this side or the other.
Closed(sockets) ==
    /\ established' = established \ sockets
    /\ session' = session \ sockets
    /\ connack' = (connack /\ my_socket \notin sockets)

-----------------------------------------------------------------------------
(* The socket pool.                                                          *)

Free == Sockets \ SockStatus

\* sockPoolAlloc: the first free socket.  When there is none, the block is freed
\* again and returned all the same, cleared: its socket is 0.
NextSocket == IF Free = {} THEN {0} ELSE {s \in Free : \A t \in Free : s <= t}

\* Mutant: the socket is not marked as taken.
Keep_NoBit(b, s) ==
    /\ used' = IF Free = {} THEN used ELSE used \cup {b}
    /\ sockNo' = [sockNo EXCEPT ![b] = s]
    /\ UNCHANGED SockStatus

\* The block and the socket that a call allocates and keeps.
Keep(b, s) ==
    /\ used' = IF Free = {} THEN used ELSE used \cup {b}
    /\ SockStatus' = SockStatus \cup {s}
    /\ sockNo' = [sockNo EXCEPT ![b] = s]

\* Mutant: sockPoolFree leaves the socket's bit.
Borrow_KeepsBit(b, s) ==
    /\ sockNo' = [sockNo EXCEPT ![b] = s]
    /\ SockStatus' = SockStatus \cup {s}
    /\ Closed({s})
    /\ UNCHANGED used

\* sockPoolAlloc, and sockPoolFree in the same call: the block's bit is cleared, and
\* its socket closed, whoever else has them.
Borrow(b, s) ==
    /\ sockNo' = [sockNo EXCEPT ![b] = s]
    /\ SockStatus' = SockStatus \ {s}
    /\ Closed({s})
    /\ UNCHANGED used

\* No block is free: sockPoolAlloc returns NULL, which nobody checks.
NullBlock ==
    /\ used = Blocks
    /\ crashed' = TRUE
    /\ UNCHANGED <<client, network, pool, outside, call, left, outcome>>

-----------------------------------------------------------------------------
(* handleMQTTCreate.                                                         *)

Running(s) == ~crashed /\ stage = s

\* A client that exists is used as it is.  A new one gets a new pool from
\* tskEthernetManager, which leaves SockStatus alone and borrows a block for DHCP.
handleMQTTCreate ==
    /\ Running("idle") /\ Use("create")
    /\ stage' = "dns" /\ count' = 0
    /\ result' = "none"
    /\ g_pMQTTClient' = TRUE
    /\ IF g_pMQTTClient
       THEN /\ overLive' = isconnected
            /\ recreated' = (recreated \/ pSockPool # NoBlock)
            /\ UNCHANGED <<isconnected, slots, network, pool, outside>>
       ELSE /\ isconnected' = FALSE /\ slots' = 0
            /\ pSockPool' = NoBlock /\ my_socket' = 0
            /\ used' = {}
            /\ \E b \in Blocks, s \in NextSocket :
                 /\ sockNo' = [sockNo EXCEPT ![b] = s]
                 /\ SockStatus' = SockStatus \ {s}
                 /\ Closed({s})
            /\ overLive' = FALSE /\ UNCHANGED recreated
    /\ UNCHANGED <<waiting, crashed>>

Return(r) == stage' = "idle" /\ count' = 0 /\ result' = r

\* Mutant: the loop variable is not counted.
Again_NotCounted(loop, next) ==
    stage' = next /\ UNCHANGED <<count, result>>

\* An attempt of this loop failed: the next attempt starts at stage next, or
\* handleMQTTCreate returns.
Again(loop, next) ==
    IF count + 1 < MQTT_RETRY_CNT
    THEN stage' = next /\ count' = count + 1 /\ UNCHANGED result
    ELSE Return(loop)

\* DNSTimeOut, which borrows a block unless the host is an address.
DNSTimeOut ==
    /\ Running("dns")
    /\ \/ NullBlock
       \/ /\ \/ UNCHANGED <<pool, outside>>
             \/ \E b \in Blocks \ used, s \in NextSocket : Borrow(b, s)
          /\ \/ stage' = "network" /\ UNCHANGED <<count, result>>
             \/ Again("network", "dns")
          /\ UNCHANGED <<client, network, waiting, crashed, left, overLive, recreated>>

\* socket() and connect().  When one of them fails the block is freed, and pSockPool
\* goes on pointing at it.  A block held before is forgotten.
NetworkConnect ==
    /\ Running("network")
    /\ \/ NullBlock
       \/ /\ \E b \in Blocks \ used, s \in NextSocket :
               /\ pSockPool' = b
               /\ \/ /\ Borrow(b, s)
                     /\ my_socket' \in {my_socket, s}
                     /\ Again("network", "dns")
                  \/ /\ Keep(b, s)
                     /\ my_socket' = s
                     /\ established' = established \cup {s} /\ session' = session \ {s}
                     /\ connack' = FALSE
                     /\ stage' = "mqtt" /\ count' = 0 /\ UNCHANGED result
          /\ UNCHANGED <<client, waiting, crashed, left, overLive, recreated>>

Live == my_socket \in established

\* MQTTConnect or MQTTSubscribe has written its packet and reads.  The socket is opened
\* in blocking mode: recv() waits for a byte, or for the end of the connection, and the
\* time-out of the call is looked at only then.
WaitForByte ==
    /\ \/ Running("mqtt") /\ ~isconnected
       \/ Running("subscribe")
    /\ Live /\ ~waiting
    /\ waiting' = TRUE
    /\ UNCHANGED <<client, network, pool, outside, stage, count, crashed, left, outcome>>

\* MQTTConnect fails at once on a client that is connected already, and where the
\* CONNECT cannot be written; or it is refused, or the answer does not come in time.
\* A broker that gets a second CONNECT on a connection closes it.
MQTTConnectFails ==
    /\ Running("mqtt")
    /\ \/ (isconnected \/ ~Live) /\ UNCHANGED outside
       \/ ~isconnected /\ Live /\ Closed({my_socket})
       \/ /\ ~isconnected /\ Live /\ my_socket \notin session
          /\ session' = session \cup {my_socket} /\ connack' = TRUE
          /\ UNCHANGED established
    /\ Again("mqtt", "mqtt") /\ waiting' = FALSE
    /\ UNCHANGED <<client, network, pool, crashed, left, overLive, recreated>>

\* Mutant: a client that is connected already connects once more.
MQTTConnected_Again ==
    /\ Running("mqtt") /\ Live
    /\ session' = session \cup {my_socket}
    /\ isconnected' = TRUE
    /\ stage' = "subscribe" /\ count' = 0 /\ waiting' = FALSE
    /\ UNCHANGED <<g_pMQTTClient, slots, network, pool, established, connack, crashed, left,
                   outcome>>

\* MQTTConnect succeeds on its own CONNACK, or on one of an attempt given up before,
\* while the broker closes the connection over the second CONNECT.
MQTTConnected ==
    /\ Running("mqtt") /\ ~isconnected /\ Live
    /\ \/ /\ my_socket \notin session
          /\ session' = session \cup {my_socket}
          /\ UNCHANGED <<established, connack>>
       \/ connack /\ Closed({my_socket})
    /\ isconnected' = TRUE
    /\ stage' = "subscribe" /\ count' = 0 /\ waiting' = FALSE
    /\ UNCHANGED <<g_pMQTTClient, slots, network, pool, crashed, left, outcome>>

\* The handler that a granted topic gets, never given back: with none left there is
\* nobody to call, and the QoS granted is the result, which is SUCCESS when it is 0.
TakeSlot == slots' = IF slots < MAX_MESSAGE_HANDLERS THEN slots + 1 ELSE slots

\* MQTTSubscribe, topic after topic, until one is refused, lost or not answered.
Subscribe ==
    /\ Running("subscribe")
    /\ \/ /\ Live /\ my_socket \in session
          /\ TakeSlot
          /\ IF count + 1 < subscribeTopicCnt
             THEN stage' = stage /\ count' = count + 1 /\ UNCHANGED result
             ELSE Return("ok")
       \/ Return("subscribe") /\ UNCHANGED slots
    /\ waiting' = FALSE
    /\ UNCHANGED <<g_pMQTTClient, isconnected, network, pool, outside, crashed, left,
                   overLive, recreated>>

-----------------------------------------------------------------------------
(* The other calls.                                                          *)

IsNetworkConnected == pSockPool # NoBlock

\* Mutant: isconnected is not cleared.
CloseNetwork_KeepsFlag ==
    /\ used' = used \ {pSockPool}
    /\ SockStatus' = SockStatus \ {sockNo[pSockPool]}
    /\ Closed({my_socket, sockNo[pSockPool]})
    /\ pSockPool' = NoBlock
    /\ UNCHANGED isconnected

\* MQTTDisconnect, disconnect() and sockPoolFree, of a block that may be free.
CloseNetwork ==
    /\ isconnected' = FALSE
    /\ used' = used \ {pSockPool}
    /\ SockStatus' = SockStatus \ {sockNo[pSockPool]}
    /\ Closed({my_socket, sockNo[pSockPool]})
    /\ pSockPool' = NoBlock

handleMQTTDisconnect ==
    /\ Running("idle") /\ g_pMQTTClient /\ IsNetworkConnected
    /\ CloseNetwork
    /\ result' = "none"
    /\ UNCHANGED <<g_pMQTTClient, slots, my_socket, sockNo, call, crashed, left,
                   overLive, recreated>>

handleMQTTDestroy ==
    /\ Running("idle") /\ g_pMQTTClient
    /\ IF IsNetworkConnected
       THEN CloseNetwork
       ELSE UNCHANGED <<isconnected, used, SockStatus, outside, pSockPool>>
    /\ g_pMQTTClient' = FALSE
    /\ result' = "none"
    /\ UNCHANGED <<slots, my_socket, sockNo, call, crashed, left,
                   overLive, recreated>>

\* handleMQTTSubscribe of a granted topic; other results change nothing here.
handleMQTTSubscribe ==
    /\ Running("idle") /\ g_pMQTTClient /\ IsNetworkConnected
    /\ isconnected /\ Live /\ my_socket \in session
    /\ TakeSlot
    /\ UNCHANGED <<g_pMQTTClient, isconnected, network, pool, outside, call, crashed, left, outcome>>

LinkLost(s) ==
    /\ ~crashed /\ s \in established
    /\ Use("loss")
    /\ Closed({s})
    /\ waiting' = (waiting /\ s # my_socket)
    /\ UNCHANGED <<client, network, pool, stage, count, crashed, result, overLive, recreated>>

-----------------------------------------------------------------------------
Create == DNSTimeOut \/ NetworkConnect \/ MQTTConnectFails \/ MQTTConnected \/ Subscribe

Next ==
    \/ handleMQTTCreate \/ Create \/ WaitForByte
    \/ handleMQTTDisconnect \/ handleMQTTDestroy \/ handleMQTTSubscribe
    \/ \E s \in Sockets : LinkLost(s)

Spec == Init /\ [][Next]_vars

\* The task runs.  DNSTimeOut and connect() have time-outs of their own, and MQTTConnect
\* and MQTTSubscribe look at theirs whenever a read has returned.  A read that waits for
\* a byte owes nothing: only the broker, or the end of the connection, can end it.
FairSpec == Spec /\ WF_vars(~waiting /\ Create)

-----------------------------------------------------------------------------
(* Properties.                                                               *)

\* Every variable keeps its type.
TypeOK ==
    /\ g_pMQTTClient \in BOOLEAN /\ isconnected \in BOOLEAN /\ connack \in BOOLEAN
    /\ crashed \in BOOLEAN /\ overLive \in BOOLEAN /\ recreated \in BOOLEAN
    /\ slots \in 0..MAX_MESSAGE_HANDLERS /\ count \in Nat /\ waiting \in BOOLEAN
    /\ pSockPool \in Blocks \cup {NoBlock} /\ my_socket \in Sockets
    /\ used \subseteq Blocks /\ sockNo \in [Blocks -> Sockets] /\ SockStatus \subseteq Sockets
    /\ established \subseteq Sockets /\ session \subseteq established
    /\ stage \in Stages \cup {"idle"} /\ result \in Stages \cup {"none", "ok"}
    /\ left \in [{"create", "loss"} -> Nat]

\* An application that disconnects before it creates again leaves nothing behind,
\* whatever failed: the pool holds its one block and its one socket at most, and
\* never runs out.
NothingLeftBehind ==
    ~recreated => /\ used \subseteq {pSockPool}
                  /\ SockStatus = {sockNo[b] : b \in used}
                  /\ ~crashed

\* A client that thinks it is connected has a session on its connection, while that
\* lasts: unless it was created again over the old one, nothing is ever written to a
\* connection whose broker expects CONNECT.
SessionOnConnection == ~recreated /\ isconnected /\ Live => my_socket \in session

\* Creating again does not repair a lost connection: while isconnected is set it
\* always fails, and only a disconnect clears it.
OverLiveFails == overLive => result # "ok"

\* "true : connected": a network that IsNetworkConnected reports has a block of the
\* pool that was not given back.
ConnectedHasBlock == stage = "idle" /\ g_pMQTTClient /\ IsNetworkConnected => pSockPool \in used

\* handleMQTTCreate returns, or follows a null pointer, unless the broker is silent: its
\* retries end, however its calls fail, but a call in recv() waits with it.
CreateReturns == stage # "idle" ~> stage = "idle" \/ crashed \/ waiting

\* Why they hold.  A client that thinks it is connected has a network to disconnect;
\* as long as no create came over another, a connection has its socket to itself,
\* and one that is being made finds the pool full and the client not connected.
FlagInv ==
    /\ isconnected => IsNetworkConnected
    /\ IsNetworkConnected \/ stage # "idle" => g_pMQTTClient
    /\ stage \in {"mqtt", "subscribe"} => IsNetworkConnected
    /\ overLive /\ stage # "idle" => isconnected /\ stage # "subscribe"

FreshInv ==
    ~recreated => /\ established \subseteq SockStatus
                  /\ used # {} => sockNo[pSockPool] = my_socket
                  /\ stage \in {"dns", "network"} => used = {}
                  /\ stage \in {"dns", "network", "mqtt"} => ~isconnected

\* The inductive invariant behind NothingLeftBehind, SessionOnConnection and
\* OverLiveFails.
HandlerInv ==
    TypeOK /\ NothingLeftBehind /\ SessionOnConnection /\ OverLiveFails /\ FlagInv /\ FreshInv
=============================================================================
