------------------------- MODULE MqttHandler_proofs -------------------------
(***************************************************************************)
(* Proofs about MqttHandler: HandlerInv is inductive, so an application     *)
(* that disconnects before it creates again never leaks a block or a        *)
(* socket, whatever fails on the way, and creating again over a connected   *)
(* client never succeeds.                                                   *)
(***************************************************************************)
EXTENDS MqttHandler, TLAPS

\* sockPoolAlloc returns a socket of the chip: a free one, or 0.
LEMMA NextSocketType == \A s \in NextSocket : s \in Sockets
  BY HandlerConstantsOK, SMT DEF NextSocket, Free, Sockets

\* Losing and using an event keeps the counters of the bounds.
LEMMA UseType ==
  ASSUME left \in [{"create", "loss"} -> Nat], NEW e \in {"create", "loss"}, Use(e)
  PROVE  left' \in [{"create", "loss"} -> Nat]
  BY SMT DEF Use

\* A socket that closes leaves the sessions among the connections.
LEMMA ClosedType ==
  ASSUME established \subseteq Sockets, session \subseteq established, connack \in BOOLEAN,
         NEW S, Closed(S)
  PROVE  established' \subseteq Sockets /\ session' \subseteq established'
         /\ connack' \in BOOLEAN
  BY DEF Closed

\* A retry that is counted, or the return of the create.
LEMMA AgainType ==
  ASSUME count \in Nat, result \in Stages \cup {"none", "ok"},
         NEW loop \in Stages, NEW next \in Stages, Again(loop, next)
  PROVE  /\ count' \in Nat /\ result' \in Stages \cup {"none", "ok"}
         /\ stage' \in {next, "idle"}
  <1>1. MQTT_RETRY_CNT \in Nat
    BY HandlerConstantsOK
  <1> QED BY <1>1, SMT DEF Again, Return

\* A topic takes a handler slot while there is one.
LEMMA TakeSlotType ==
  ASSUME slots \in 0..MAX_MESSAGE_HANDLERS, TakeSlot
  PROVE  slots' \in 0..MAX_MESSAGE_HANDLERS
  <1>1. MAX_MESSAGE_HANDLERS \in Nat
    BY HandlerConstantsOK
  <1> QED BY <1>1, SMT DEF TakeSlot

\* An allocation freed within the call leaves the pool of its type.
LEMMA BorrowType ==
  ASSUME TypeOK, NEW b \in Blocks, NEW s \in NextSocket, Borrow(b, s)
  PROVE  /\ used' \subseteq Blocks /\ sockNo' \in [Blocks -> Sockets]
         /\ SockStatus' \subseteq Sockets /\ established' \subseteq Sockets
         /\ session' \subseteq established' /\ connack' \in BOOLEAN
  <1>1. s \in Sockets
    BY NextSocketType
  <1>2. Closed({s})
    BY DEF Borrow
  <1>3. /\ established' \subseteq Sockets /\ session' \subseteq established'
        /\ connack' \in BOOLEAN
    BY <1>2, ClosedType DEF TypeOK
  <1> QED BY <1>1, <1>3 DEF Borrow, TypeOK

-----------------------------------------------------------------------------
\* The first state has the types.
LEMMA TypeInit == Init => TypeOK
  <1> SUFFICES ASSUME Init PROVE TypeOK
    OBVIOUS
  <1>1. 0 \in Sockets
    BY HandlerConstantsOK, SMT DEF Sockets
  <1>2. slots \in 0..MAX_MESSAGE_HANDLERS
    BY HandlerConstantsOK, SMT DEF Init
  <1>3. left \in [{"create", "loss"} -> Nat]
    BY HandlerConstantsOK, SMT DEF Init
  <1> QED BY <1>1, <1>2, <1>3 DEF Init, TypeOK, Stages

\* Every step keeps them.
LEMMA TypeNext == TypeOK /\ [Next]_vars => TypeOK'
  <1> SUFFICES ASSUME TypeOK, [Next]_vars PROVE TypeOK'
    OBVIOUS
  <1> USE DEF TypeOK
  <1>1. CASE UNCHANGED vars
    BY <1>1 DEF vars, client, network, pool, outside, call, outcome
  <1>2. CASE handleMQTTCreate
    <2>1. left' \in [{"create", "loss"} -> Nat]
      BY <1>2, UseType DEF handleMQTTCreate
    <2>2. 0 \in Sockets /\ 0 \in 0..MAX_MESSAGE_HANDLERS
      BY HandlerConstantsOK, SMT DEF Sockets
    <2>3. CASE g_pMQTTClient
      BY <1>2, <2>1, <2>3
         DEF handleMQTTCreate, Stages, network, pool, outside
    <2>4. CASE ~g_pMQTTClient
      <3>1. PICK b \in Blocks, s \in NextSocket :
              /\ sockNo' = [sockNo EXCEPT ![b] = s]
              /\ SockStatus' = SockStatus \ {s}
              /\ Closed({s})
        BY <1>2, <2>4 DEF handleMQTTCreate
      <3>2. s \in Sockets
        BY NextSocketType
      <3>3. /\ established' \subseteq Sockets /\ session' \subseteq established'
            /\ connack' \in BOOLEAN
        BY <3>1, ClosedType
      <3>4. /\ isconnected' = FALSE /\ slots' = 0 /\ pSockPool' = NoBlock
            /\ my_socket' = 0 /\ used' = {} /\ overLive' = FALSE
            /\ stage' = "dns" /\ count' = 0 /\ result' = "none"
            /\ g_pMQTTClient' = TRUE /\ UNCHANGED <<recreated, waiting, crashed>>
        BY <1>2, <2>4 DEF handleMQTTCreate
      <3> QED BY <2>1, <2>2, <3>1, <3>2, <3>3, <3>4 DEF Stages
    <2> QED BY <2>3, <2>4
  <1>3. CASE DNSTimeOut
    <2>1. CASE NullBlock
      BY <2>1 DEF NullBlock, client, network, pool, outside, call, outcome
    <2>2. CASE ~NullBlock
      <3>1. UNCHANGED <<client, network, waiting, crashed, left, overLive, recreated>>
        BY <1>3, <2>2 DEF DNSTimeOut
      <3>2. /\ used' \subseteq Blocks /\ sockNo' \in [Blocks -> Sockets]
            /\ SockStatus' \subseteq Sockets /\ established' \subseteq Sockets
            /\ session' \subseteq established' /\ connack' \in BOOLEAN
        BY <1>3, <2>2, BorrowType DEF DNSTimeOut, pool, outside
      <3>3. /\ count' \in Nat /\ result' \in Stages \cup {"none", "ok"}
            /\ stage' \in Stages \cup {"idle"}
        BY <1>3, <2>2, AgainType DEF DNSTimeOut, Stages
      <3> QED BY <3>1, <3>2, <3>3 DEF client, network
    <2> QED BY <2>1, <2>2
  <1>4. CASE NetworkConnect
    <2>1. CASE NullBlock
      BY <2>1 DEF NullBlock, client, network, pool, outside, call, outcome
    <2>2. CASE ~NullBlock
      <3>1. UNCHANGED <<client, waiting, crashed, left, overLive, recreated>>
        BY <1>4, <2>2 DEF NetworkConnect
      <3>2. PICK b \in Blocks \ used, s \in NextSocket :
              /\ pSockPool' = b
              /\ \/ /\ Borrow(b, s)
                    /\ my_socket' \in {my_socket, s}
                    /\ Again("network", "dns")
                 \/ /\ Keep(b, s)
                    /\ my_socket' = s
                    /\ established' = established \cup {s} /\ session' = session \ {s}
                    /\ connack' = FALSE
                    /\ stage' = "mqtt" /\ count' = 0 /\ UNCHANGED result
        BY <1>4, <2>2 DEF NetworkConnect
      <3>3. s \in Sockets
        BY NextSocketType
      <3>4. CASE Borrow(b, s) /\ my_socket' \in {my_socket, s} /\ Again("network", "dns")
        <4>1. /\ used' \subseteq Blocks /\ sockNo' \in [Blocks -> Sockets]
              /\ SockStatus' \subseteq Sockets /\ established' \subseteq Sockets
              /\ session' \subseteq established' /\ connack' \in BOOLEAN
          BY <3>4, BorrowType
        <4>2. /\ count' \in Nat /\ result' \in Stages \cup {"none", "ok"}
              /\ stage' \in {"dns", "idle"}
          BY <3>4, AgainType DEF Stages
        <4> QED BY <3>1, <3>2, <3>3, <3>4, <4>1, <4>2 DEF client, Stages
      <3>5. CASE /\ Keep(b, s)
                 /\ my_socket' = s
                 /\ established' = established \cup {s} /\ session' = session \ {s}
                 /\ connack' = FALSE
                 /\ stage' = "mqtt" /\ count' = 0 /\ UNCHANGED result
        <4>1. /\ used' \subseteq Blocks /\ sockNo' \in [Blocks -> Sockets]
              /\ SockStatus' \subseteq Sockets
          BY <3>3, <3>5 DEF Keep
        <4> QED BY <3>1, <3>2, <3>3, <3>5, <4>1 DEF client, Stages
      <3> QED BY <3>2, <3>4, <3>5
    <2> QED BY <2>1, <2>2
  <1>5. CASE MQTTConnectFails
    <2>1. /\ count' \in Nat /\ result' \in Stages \cup {"none", "ok"}
          /\ stage' \in {"mqtt", "idle"}
      BY <1>5, AgainType DEF MQTTConnectFails, Stages
    <2>2. /\ established' \subseteq Sockets /\ session' \subseteq established'
          /\ connack' \in BOOLEAN
      BY <1>5, ClosedType DEF MQTTConnectFails, outside, Live
    <2> QED BY <1>5, <2>1, <2>2 DEF MQTTConnectFails, client, network, pool, Stages
  <1>6. CASE MQTTConnected
    <2>1. /\ established' \subseteq Sockets /\ session' \subseteq established'
          /\ connack' \in BOOLEAN
      BY <1>6, ClosedType DEF MQTTConnected, Live
    <2> QED BY <1>6, <2>1 DEF MQTTConnected, network, pool, outcome, Stages
  <1>7. CASE Subscribe
    <2>1. slots' \in 0..MAX_MESSAGE_HANDLERS
      BY <1>7, TakeSlotType DEF Subscribe
    <2>2. count' \in Nat
      BY <1>7, SMT DEF Subscribe, Return
    <2>3. stage' \in Stages \cup {"idle"} /\ result' \in Stages \cup {"none", "ok"}
      BY <1>7 DEF Subscribe, Return, Stages
    <2> QED BY <1>7, <2>1, <2>2, <2>3 DEF Subscribe, network, pool, outside
  <1>8. CASE handleMQTTDisconnect
    <2>1. /\ established' \subseteq Sockets /\ session' \subseteq established'
          /\ connack' \in BOOLEAN
      BY <1>8, ClosedType DEF handleMQTTDisconnect, CloseNetwork
    <2> QED BY <1>8, <2>1 DEF handleMQTTDisconnect, CloseNetwork, call
  <1>9. CASE handleMQTTDestroy
    <2>1. CASE IsNetworkConnected
      <3>1. /\ established' \subseteq Sockets /\ session' \subseteq established'
            /\ connack' \in BOOLEAN
        BY <1>9, <2>1, ClosedType DEF handleMQTTDestroy, CloseNetwork
      <3> QED BY <1>9, <2>1, <3>1 DEF handleMQTTDestroy, CloseNetwork, call
    <2>2. CASE ~IsNetworkConnected
      BY <1>9, <2>2 DEF handleMQTTDestroy, outside, call
    <2> QED BY <2>1, <2>2
  <1>10. CASE handleMQTTSubscribe
    <2>1. slots' \in 0..MAX_MESSAGE_HANDLERS
      BY <1>10, TakeSlotType DEF handleMQTTSubscribe
    <2> QED BY <1>10, <2>1 DEF handleMQTTSubscribe, network, pool, outside, call, outcome
  <1>11. CASE \E s \in Sockets : LinkLost(s)
    <2>1. PICK s \in Sockets : LinkLost(s)
      BY <1>11
    <2>2. left' \in [{"create", "loss"} -> Nat]
      BY <2>1, UseType DEF LinkLost
    <2>3. /\ established' \subseteq Sockets /\ session' \subseteq established'
          /\ connack' \in BOOLEAN
      BY <2>1, ClosedType DEF LinkLost
    <2> QED BY <2>1, <2>2, <2>3 DEF LinkLost, client, network, pool
  <1>12. CASE WaitForByte
    BY <1>12 DEF WaitForByte, client, network, pool, outside, outcome
  <1> QED
    BY <1>1, <1>2, <1>3, <1>4, <1>5, <1>6, <1>7, <1>8, <1>9, <1>10, <1>11, <1>12
       DEF Next, Create

\* Every variable keeps its type: the handles of MQTT_handler.c, the blocks and the
\* sockets of the pool, the loop variables.
THEOREM TypeCorrect == Spec => []TypeOK
  BY TypeInit, TypeNext, PTL DEF Spec

-----------------------------------------------------------------------------
(* Flags that agree: a connected client has a network, and a create over a   *)
(* connected client stays before the subscriptions until it has failed.      *)

\* No client is connected and no create under way at first.
LEMMA FlagInit == Init => FlagInv /\ OverLiveFails
  BY DEF Init, FlagInv, OverLiveFails, IsNetworkConnected

\* Every step keeps the flags in agreement.
LEMMA FlagNext == TypeOK /\ FlagInv /\ OverLiveFails /\ [Next]_vars => FlagInv' /\ OverLiveFails'
  <1> SUFFICES ASSUME TypeOK, FlagInv, OverLiveFails, [Next]_vars
               PROVE  FlagInv' /\ OverLiveFails'
    OBVIOUS
  <1> USE DEF FlagInv, OverLiveFails, IsNetworkConnected, Running
  <1>1. CASE UNCHANGED vars
    BY <1>1 DEF vars, client, network, pool, outside, call, outcome
  <1>2. CASE handleMQTTCreate
    <2>1. stage' = "dns" /\ result' = "none" /\ g_pMQTTClient' = TRUE
      BY <1>2 DEF handleMQTTCreate
    <2>2. CASE g_pMQTTClient
      <3>1. overLive' = isconnected /\ isconnected' = isconnected /\ pSockPool' = pSockPool
        BY <1>2, <2>2 DEF handleMQTTCreate, network
      <3> QED BY <2>1, <3>1
    <2>3. CASE ~g_pMQTTClient
      <3>1. overLive' = FALSE /\ isconnected' = FALSE /\ pSockPool' = NoBlock
        BY <1>2, <2>3 DEF handleMQTTCreate
      <3> QED BY <2>1, <3>1
    <2> QED BY <2>2, <2>3
  <1>3. CASE NullBlock
    BY <1>3 DEF NullBlock, client, network, call, outcome
  <1>4. CASE DNSTimeOut /\ ~NullBlock
    <2>1. UNCHANGED <<g_pMQTTClient, isconnected, pSockPool, overLive>> /\ stage = "dns"
      BY <1>4 DEF DNSTimeOut, client, network
    <2>2. stage' \in {"network", "dns", "idle"} /\ (result' = result \/ result' = "network")
      BY <1>4 DEF DNSTimeOut, Again, Return
    <2> QED BY <2>1, <2>2
  <1>5. CASE NetworkConnect /\ ~NullBlock
    <2>1. UNCHANGED <<g_pMQTTClient, isconnected, overLive>> /\ stage = "network"
      BY <1>5 DEF NetworkConnect, client
    <2>2. pSockPool' \in Blocks
      BY <1>5 DEF NetworkConnect
    <2>3. stage' \in {"mqtt", "dns", "idle"} /\ (result' = result \/ result' = "network")
      BY <1>5 DEF NetworkConnect, Again, Return
    <2>4. pSockPool' # NoBlock
      BY <2>2, HandlerConstantsOK
    <2> QED BY <2>1, <2>3, <2>4
  <1>6. CASE MQTTConnectFails
    <2>1. UNCHANGED <<g_pMQTTClient, isconnected, pSockPool, overLive>> /\ stage = "mqtt"
      BY <1>6 DEF MQTTConnectFails, client, network
    <2>2. stage' \in {"mqtt", "idle"} /\ (result' = result \/ result' = "mqtt")
      BY <1>6 DEF MQTTConnectFails, Again, Return
    <2> QED BY <2>1, <2>2
  <1>7. CASE MQTTConnected
    BY <1>7 DEF MQTTConnected, network, outcome
  <1>8. CASE Subscribe
    <2>1. UNCHANGED <<g_pMQTTClient, isconnected, pSockPool, overLive>> /\ stage = "subscribe"
      BY <1>8 DEF Subscribe, network
    <2>2. stage' \in {"subscribe", "idle"}
      BY <1>8 DEF Subscribe, Return
    <2> QED BY <2>1, <2>2
  <1>9. CASE handleMQTTDisconnect
    BY <1>9 DEF handleMQTTDisconnect, CloseNetwork, call
  <1>10. CASE handleMQTTDestroy
    BY <1>10 DEF handleMQTTDestroy, CloseNetwork, call
  <1>11. CASE handleMQTTSubscribe
    BY <1>11 DEF handleMQTTSubscribe, network, call, outcome
  <1>12. CASE \E s \in Sockets : LinkLost(s)
    BY <1>12 DEF LinkLost, client, network
  <1>13. CASE WaitForByte
    BY <1>13 DEF WaitForByte, client, network, outcome
  <1> QED
    BY <1>1, <1>2, <1>3, <1>4, <1>5, <1>6, <1>7, <1>8, <1>9, <1>10, <1>11, <1>12, <1>13
       DEF Next, Create, DNSTimeOut, NetworkConnect

-----------------------------------------------------------------------------
(* One owner: while no create came over a network that was not disconnected, *)
(* the pool holds what pSockPool points at, or nothing.                       *)

PoolInv == NothingLeftBehind /\ FreshInv

\* A block borrowed from an empty pool leaves it empty.
LEMMA BorrowKeeps ==
  ASSUME used = {}, SockStatus = {}, established = {},
         NEW b \in Blocks, NEW s \in NextSocket, Borrow(b, s)
  PROVE  used' = {} /\ SockStatus' = {} /\ established' = {}
  BY DEF Borrow, Closed

\* A block kept from an empty pool is the only one.
LEMMA KeepOne ==
  ASSUME TypeOK, used = {}, SockStatus = {}, NEW b \in Blocks, NEW s \in NextSocket, Keep(b, s)
  PROVE  used' = {b} /\ SockStatus' = {s} /\ sockNo'[b] = s
  <1>1. 0 \in Sockets
    BY HandlerConstantsOK, SMT DEF Sockets
  <1>2. Free # {}
    BY <1>1 DEF Free
  <1>3. sockNo'[b] = s
    BY DEF Keep, TypeOK
  <1> QED BY <1>2, <1>3 DEF Keep

\* A disconnect empties the pool.
LEMMA CloseEmpties ==
  ASSUME TypeOK, PoolInv, ~recreated, IsNetworkConnected, CloseNetwork
  PROVE  used' = {} /\ SockStatus' = {} /\ established' = {}
  <1>1. used' = {}
    BY DEF PoolInv, NothingLeftBehind, CloseNetwork
  <1>2. SockStatus' = {}
    BY DEF PoolInv, NothingLeftBehind, CloseNetwork
  <1>3. established' = {}
    BY DEF PoolInv, NothingLeftBehind, FreshInv, CloseNetwork, Closed
  <1> QED BY <1>1, <1>2, <1>3

\* The pool is empty at first.
LEMMA PoolInit == Init => PoolInv
  BY DEF Init, PoolInv, NothingLeftBehind, FreshInv

\* What an empty pool without a crash shows.
LEMMA EmptyPool ==
  ASSUME used' = {}, SockStatus' = {}, established' = {}, ~crashed',
         stage' \in {"dns", "network", "mqtt"} => ~isconnected'
  PROVE  PoolInv'
  BY DEF PoolInv, NothingLeftBehind, FreshInv

\* What PoolInv says of an empty pool.
LEMMA EmptyBefore ==
  ASSUME PoolInv, ~recreated, used = {}
  PROVE  SockStatus = {} /\ established = {} /\ ~crashed
  BY DEF PoolInv, NothingLeftBehind, FreshInv

\* Connections that end and flags that are cleared disturb nothing.
LEMMA PoolKept ==
  ASSUME PoolInv, ~recreated, UNCHANGED <<used, SockStatus, sockNo, pSockPool, my_socket>>,
         established' \subseteq established, ~crashed',
         stage' \in {"dns", "network"} => stage \in {"dns", "network"},
         stage' \in {"dns", "network", "mqtt"} => ~isconnected'
  PROVE  PoolInv'
  BY DEF PoolInv, NothingLeftBehind, FreshInv

\* Every step keeps the pool: a step empties it, makes its one entry or leaves it alone.
LEMMA PoolNext == TypeOK /\ FlagInv /\ PoolInv /\ [Next]_vars => PoolInv'
  <1> SUFFICES ASSUME TypeOK, FlagInv, PoolInv, [Next]_vars PROVE PoolInv'
    OBVIOUS
  <1>0. CASE recreated'
    BY <1>0 DEF PoolInv, NothingLeftBehind, FreshInv
  <1> SUFFICES ASSUME ~recreated' PROVE PoolInv'
    BY <1>0
  <1>a. ~recreated
    BY DEF Next, Create, handleMQTTCreate, DNSTimeOut, NetworkConnect, NullBlock,
           MQTTConnectFails, MQTTConnected, Subscribe, WaitForByte, handleMQTTDisconnect,
           handleMQTTDestroy, handleMQTTSubscribe, LinkLost, outcome, vars
  <1>b. ~crashed
    BY <1>a DEF PoolInv, NothingLeftBehind
  <1>c. stage \in {"dns", "network"} => used = {} /\ ~isconnected
    BY <1>a DEF PoolInv, FreshInv
  <1>1. CASE UNCHANGED vars
    BY <1>1, <1>a, <1>b DEF vars, client, network, pool, outside, call, outcome,
                            PoolInv, NothingLeftBehind, FreshInv
  <1>2. CASE handleMQTTCreate
    <2>1. pSockPool = NoBlock
      BY <1>2 DEF handleMQTTCreate, FlagInv, IsNetworkConnected
    <2>2. used = {}
      BY <2>1, <1>a, HandlerConstantsOK DEF PoolInv, NothingLeftBehind, TypeOK
    <2>3. SockStatus = {} /\ established = {}
      BY <1>a, <2>2, EmptyBefore
    <2>4. used' = {} /\ SockStatus' = {} /\ established' = {}
      BY <1>2, <2>2, <2>3 DEF handleMQTTCreate, pool, outside, Closed
    <2>5. ~isconnected'
      BY <1>2, <2>1 DEF handleMQTTCreate, FlagInv, IsNetworkConnected
    <2>6. ~crashed'
      BY <1>2, <1>b DEF handleMQTTCreate
    <2> QED BY <2>4, <2>5, <2>6, EmptyPool
  <1>3. CASE NullBlock /\ stage \in {"dns", "network"}
    BY <1>3, <1>c, HandlerConstantsOK DEF NullBlock
  <1>4. CASE DNSTimeOut /\ ~NullBlock
    <2>1. used = {} /\ ~isconnected
      BY <1>4, <1>c DEF DNSTimeOut, Running
    <2>2. SockStatus = {} /\ established = {}
      BY <1>a, <2>1, EmptyBefore
    <2>3. used' = {} /\ SockStatus' = {} /\ established' = {}
      BY <1>4, <2>1, <2>2, BorrowKeeps DEF DNSTimeOut, pool, outside
    <2>4. ~isconnected' /\ ~crashed'
      BY <1>4, <1>b, <2>1 DEF DNSTimeOut, client
    <2> QED BY <2>3, <2>4, EmptyPool
  <1>5. CASE NetworkConnect /\ ~NullBlock
    <2>1. used = {} /\ ~isconnected
      BY <1>5, <1>c DEF NetworkConnect, Running
    <2>2. SockStatus = {} /\ established = {}
      BY <1>a, <2>1, EmptyBefore
    <2>3. ~isconnected' /\ ~crashed'
      BY <1>5, <1>b, <2>1 DEF NetworkConnect, client
    <2>4. PICK b \in Blocks \ used, s \in NextSocket :
            /\ pSockPool' = b
            /\ \/ Borrow(b, s)
               \/ /\ Keep(b, s) /\ my_socket' = s /\ stage' = "mqtt"
                  /\ established' = established \cup {s}
      BY <1>5 DEF NetworkConnect
    <2>5. CASE Borrow(b, s)
      BY <2>1, <2>2, <2>3, <2>5, BorrowKeeps, EmptyPool
    <2>6. CASE /\ Keep(b, s) /\ my_socket' = s /\ stage' = "mqtt"
               /\ established' = established \cup {s}
      <3>1. used' = {b} /\ SockStatus' = {s} /\ sockNo'[b] = s
        BY <2>1, <2>2, <2>6, KeepOne
      <3> QED BY <2>2, <2>3, <2>4, <2>6, <3>1 DEF PoolInv, NothingLeftBehind, FreshInv
    <2> QED BY <2>4, <2>5, <2>6
  <1>6. CASE MQTTConnectFails
    <2>1. ~isconnected /\ stage = "mqtt"
      BY <1>6, <1>a DEF MQTTConnectFails, Running, PoolInv, FreshInv
    <2>2. established' \subseteq established
      BY <1>6 DEF MQTTConnectFails, outside, Closed
    <2>3. stage' \in {"mqtt", "idle"}
      BY <1>6 DEF MQTTConnectFails, Again, Return
    <2>4. /\ UNCHANGED <<used, SockStatus, sockNo, pSockPool, my_socket>>
          /\ ~crashed' /\ ~isconnected'
      BY <1>6, <1>b, <2>1 DEF MQTTConnectFails, client, network, pool
    <2> QED BY <1>a, <2>2, <2>3, <2>4, PoolKept
  <1>7. CASE MQTTConnected
    <2>1. established' \subseteq established
      BY <1>7 DEF MQTTConnected, Closed
    <2>2. /\ UNCHANGED <<used, SockStatus, sockNo, pSockPool, my_socket>>
          /\ ~crashed' /\ stage' = "subscribe"
      BY <1>7, <1>b DEF MQTTConnected, network, pool
    <2> QED BY <1>a, <2>1, <2>2, PoolKept
  <1>8. CASE Subscribe
    <2>1. stage' \in {"subscribe", "idle"}
      BY <1>8 DEF Subscribe, Return, Running
    <2>2. /\ UNCHANGED <<used, SockStatus, sockNo, pSockPool, my_socket, established>>
          /\ ~crashed'
      BY <1>8, <1>b DEF Subscribe, network, pool, outside
    <2> QED BY <1>a, <2>1, <2>2, PoolKept
  <1>9. CASE handleMQTTDisconnect
    <2>1. used' = {} /\ SockStatus' = {} /\ established' = {}
      BY <1>9, <1>a, CloseEmpties DEF handleMQTTDisconnect
    <2>2. ~crashed' /\ ~isconnected'
      BY <1>9, <1>b DEF handleMQTTDisconnect, CloseNetwork
    <2> QED BY <2>1, <2>2, EmptyPool
  <1>10. CASE handleMQTTDestroy
    <2>1. ~crashed' /\ stage' = "idle"
      BY <1>10, <1>b DEF handleMQTTDestroy, call, Running
    <2>2. CASE IsNetworkConnected
      <3>1. used' = {} /\ SockStatus' = {} /\ established' = {}
        BY <1>10, <2>2, <1>a, CloseEmpties DEF handleMQTTDestroy
      <3> QED BY <2>1, <3>1, EmptyPool
    <2>3. CASE ~IsNetworkConnected
      BY <1>10, <2>1, <2>3, <1>a, PoolKept DEF handleMQTTDestroy, outside
    <2> QED BY <2>2, <2>3
  <1>11. CASE handleMQTTSubscribe
    <2>1. /\ UNCHANGED <<used, SockStatus, sockNo, pSockPool, my_socket, established>>
          /\ ~crashed' /\ stage' = "idle"
      BY <1>11, <1>b DEF handleMQTTSubscribe, network, pool, outside, call, Running
    <2> QED BY <1>a, <2>1, PoolKept
  <1>12. CASE \E s \in Sockets : LinkLost(s)
    <2>1. /\ UNCHANGED <<used, SockStatus, sockNo, pSockPool, my_socket, stage, isconnected>>
          /\ ~crashed'
      BY <1>12, <1>b DEF LinkLost, client, network, pool
    <2>2. established' \subseteq established
      BY <1>12 DEF LinkLost, Closed
    <2>3. stage \in {"dns", "network", "mqtt"} => ~isconnected
      BY <1>a DEF PoolInv, FreshInv
    <2> QED BY <1>a, <2>1, <2>2, <2>3, PoolKept
  <1>13. CASE WaitForByte
    <2>1. /\ UNCHANGED <<used, SockStatus, sockNo, pSockPool, my_socket, established, stage,
                        isconnected>>
          /\ ~crashed'
      BY <1>13, <1>b DEF WaitForByte, client, network, pool, outside
    <2>2. stage \in {"dns", "network", "mqtt"} => ~isconnected
      BY <1>a DEF PoolInv, FreshInv
    <2> QED BY <1>a, <2>1, <2>2, PoolKept
  <1> QED
    BY <1>1, <1>2, <1>3, <1>4, <1>5, <1>6, <1>7, <1>8, <1>9, <1>10, <1>11, <1>12, <1>13
       DEF Next, Create, DNSTimeOut, NetworkConnect, Running

-----------------------------------------------------------------------------
(* The session of a client that thinks it is connected.                      *)

\* No client thinks it is connected at first.
LEMMA SessionInit == Init => SessionOnConnection
  BY DEF Init, SessionOnConnection

\* Sessions go with their connections.
LEMMA ClosedKeeps ==
  ASSUME SessionOnConnection, NEW S, Closed(S),
         UNCHANGED <<isconnected, my_socket, recreated>>
  PROVE  SessionOnConnection'
  BY DEF SessionOnConnection, Closed, Live

\* Every step keeps the session with the connection.
LEMMA SessionNext ==
  TypeOK /\ FlagInv /\ PoolInv /\ SessionOnConnection /\ [Next]_vars => SessionOnConnection'
  <1> SUFFICES ASSUME TypeOK, FlagInv, PoolInv, SessionOnConnection, [Next]_vars
               PROVE  SessionOnConnection'
    OBVIOUS
  <1>1. CASE UNCHANGED vars
    BY <1>1 DEF vars, client, network, outside, outcome, SessionOnConnection, Live
  <1>2. CASE handleMQTTCreate
    <2>1. CASE g_pMQTTClient
      <3>1. UNCHANGED <<isconnected, my_socket, established, session>>
        BY <1>2, <2>1 DEF handleMQTTCreate, network, outside
      <3>2. recreated => recreated'
        BY <1>2, <2>1 DEF handleMQTTCreate
      <3> QED BY <3>1, <3>2 DEF SessionOnConnection, Live
    <2>2. CASE ~g_pMQTTClient
      BY <1>2, <2>2 DEF handleMQTTCreate, SessionOnConnection
    <2> QED BY <2>1, <2>2
  <1>3. CASE NullBlock
    BY <1>3 DEF NullBlock, client, network, outside, outcome, SessionOnConnection, Live
  <1>4. CASE DNSTimeOut \/ NetworkConnect
    <2>1. CASE NullBlock
      BY <1>3, <2>1
    <2>2. CASE ~NullBlock
      <3>1. recreated \/ ~isconnected
        BY <1>4 DEF DNSTimeOut, NetworkConnect, Running, PoolInv, FreshInv
      <3>2. recreated' = recreated /\ isconnected' = isconnected
        BY <1>4, <2>2 DEF DNSTimeOut, NetworkConnect, client
      <3> QED BY <3>1, <3>2 DEF SessionOnConnection
    <2> QED BY <2>1, <2>2
  <1>5. CASE MQTTConnectFails
    <2>1. recreated \/ ~isconnected
      BY <1>5 DEF MQTTConnectFails, Running, PoolInv, FreshInv
    <2>2. recreated' = recreated /\ isconnected' = isconnected
      BY <1>5 DEF MQTTConnectFails, client
    <2> QED BY <2>1, <2>2 DEF SessionOnConnection
  <1>6. CASE MQTTConnected
    BY <1>6 DEF MQTTConnected, network, SessionOnConnection, Live, Closed
  <1>7. CASE Subscribe
    BY <1>7 DEF Subscribe, network, outside, SessionOnConnection, Live
  <1>8. CASE handleMQTTDisconnect
    BY <1>8 DEF handleMQTTDisconnect, CloseNetwork, SessionOnConnection
  <1>9. CASE handleMQTTDestroy
    <2>1. CASE IsNetworkConnected
      BY <1>9, <2>1 DEF handleMQTTDestroy, CloseNetwork, SessionOnConnection
    <2>2. CASE ~IsNetworkConnected
      BY <1>9, <2>2 DEF handleMQTTDestroy, outside, SessionOnConnection, Live
    <2> QED BY <2>1, <2>2
  <1>10. CASE handleMQTTSubscribe
    BY <1>10 DEF handleMQTTSubscribe, network, outside, outcome, SessionOnConnection, Live
  <1>11. CASE \E s \in Sockets : LinkLost(s)
    BY <1>11, ClosedKeeps DEF LinkLost, client, network
  <1>12. CASE WaitForByte
    BY <1>12 DEF WaitForByte, client, network, outside, outcome, SessionOnConnection, Live
  <1> QED
    BY <1>1, <1>2, <1>3, <1>4, <1>5, <1>6, <1>7, <1>8, <1>9, <1>10, <1>11, <1>12
       DEF Next, Create

-----------------------------------------------------------------------------
\* The parts of the invariant depend on each other: PoolInv needs to know which
\* flags agree, SessionOnConnection that no connection is made while one is believed in.
THEOREM HandlerCorrect == Spec => []HandlerInv
  <1>1. Init => HandlerInv
    BY TypeInit, FlagInit, PoolInit, SessionInit DEF HandlerInv, PoolInv
  <1>2. HandlerInv /\ [Next]_vars => HandlerInv'
    BY TypeNext, FlagNext, PoolNext, SessionNext DEF HandlerInv, PoolInv
  <1> QED BY <1>1, <1>2, PTL DEF Spec

\* Whatever fails in handleMQTTCreate, an application that disconnects before it
\* creates again never leaks a block or a socket of the pool, and the pool never runs out.
THEOREM NothingLeftBehindCorrect == Spec => []NothingLeftBehind
  <1>1. HandlerInv => NothingLeftBehind
    BY DEF HandlerInv
  <1> QED BY <1>1, HandlerCorrect, PTL

\* isconnected and the broker agree, while the connection lasts and no create came
\* over a network still connected.
THEOREM SessionOnConnectionCorrect == Spec => []SessionOnConnection
  <1>1. HandlerInv => SessionOnConnection
    BY DEF HandlerInv
  <1> QED BY <1>1, HandlerCorrect, PTL

\* handleMQTTCreate never succeeds on a client that is still marked connected.
THEOREM OverLiveFailsCorrect == Spec => []OverLiveFails
  <1>1. HandlerInv => OverLiveFails
    BY DEF HandlerInv
  <1> QED BY <1>1, HandlerCorrect, PTL
=============================================================================
