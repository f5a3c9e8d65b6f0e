---------------------------- MODULE PacketStream ----------------------------
(***************************************************************************)
(* Packets on the byte stream of one connection of the FreeRTOS port: how  *)
(* readPacket, decodePacket and sendPacket of                              *)
(* src/FreeRTOS/Library/Mqtt_Paho/MQTTClient.c use mqttread and mqttwrite, *)
(* and how MQTTFreeRTOS.c and MQTTFreeRTOSTLS.c read and write sockets.     *)
(*                                                                         *)
(* There are three of them.  "rtos": a FreeRTOS socket, whose recv gives up *)
(* at its time-out (built without USE_ETHERNET_LIB).  "wiznet": a socket of *)
(* the WIZnet driver, opened in blocking mode, whose recv waits for the     *)
(* next byte whatever the time.  "tls": mbedTLS on top of "wiznet", whose   *)
(* read gives what is left of one record.                                  *)
(*                                                                         *)
(* One call, MQTTYield, reads packet after packet; calls that nest in its   *)
(* handler read the same stream one after the other (module PahoClient).    *)
(***************************************************************************)
EXTENDS Naturals, Sequences

CONSTANTS
    Transports,   \* of "rtos", "wiznet", "tls": the sockets an instance may use
    Shapes,       \* packets: bytes of the remaining length, and bytes that follow it
    Garbage,      \* a packet put together from a stream out of step
    OutSize,      \* bytes of a packet the client sends
    MaxPackets    \* bound: packets each way

ASSUME StreamConstantsOK ==
    /\ Transports \subseteq {"rtos", "wiznet", "tls"}
    /\ Shapes \subseteq [length : Nat \ {0}, rest : Nat]
    /\ Garbage \notin Shapes
    /\ OutSize \in Nat \ {0} /\ MaxPackets \in Nat

VARIABLES
    transport, link,   \* the kind of socket; its connection is alive
    sent,      \* packets of the broker, in the order of the stream
    phase,     \* what the yield reads: "header", "length", "rest"; or "cycle", "idle"
    read,      \* bytes read of the packet under way
    late,      \* the yield's time is over
    acted,     \* packets cycle() has acted on
    torn,      \* a read stopped inside a packet: its bytes so far are gone
    wired,     \* bytes on the wire of each packet sendPacket was given
    result,    \* what sendPacket said of each, "none" while it is at work
    held,      \* the packet mbedTLS holds in its output buffer, or 0
    stalled    \* mbedTLS once took a write that timed out for a write

in   == <<sent, phase, read, late, acted, torn>>
out  == <<wired, result, held, stalled>>
vars == <<transport, link, in, out>>

Packet == Shapes \cup {Garbage}

Init ==
    /\ transport \in Transports /\ link = TRUE
    /\ sent = << >> /\ phase = "idle" /\ read = 0 /\ late = FALSE
    /\ acted = << >> /\ torn = FALSE
    /\ wired = << >> /\ result = << >> /\ held = 0 /\ stalled = FALSE

\* The packet under way, the next one not yet acted on, while the stream is in step.
Current  == sent[Len(acted) + 1]
Arriving == Len(acted) < Len(sent)
Left     == 1 + Current.length + Current.rest - read

Sending == result # << >> /\ result[Len(result)] = "none"
Reading == phase \in {"header", "length", "rest"}

-----------------------------------------------------------------------------
(* Reading: MQTTYield, cycle, readPacket.                                    *)

MQTTYield ==
    /\ phase = "idle" /\ ~Sending
    /\ phase' = "header" /\ late' = FALSE /\ read' = 0
    /\ UNCHANGED <<transport, link, sent, acted, torn, out>>

\* readPacket is done with a packet, and cycle() acts on it.
Act(p) == phase' = "cycle" /\ acted' = Append(acted, p) /\ read' = 0

\* readPacket gives up: cycle() has nothing to act on.
GiveUp == phase' = "cycle" /\ read' = 0 /\ UNCHANGED acted

InStep == Reading /\ ~torn /\ link /\ Arriving

ReadHeader ==
    /\ InStep /\ phase = "header"
    /\ phase' = "length" /\ read' = 1
    /\ UNCHANGED <<transport, link, sent, late, acted, torn, out>>

\* Mutant: a length of 0 is waited for like any other.
DecodeLength_NoEmpty ==
    /\ InStep /\ phase = "length"
    /\ read' = read + 1
    /\ phase' = IF read < Current.length THEN "length" ELSE "rest"
    /\ UNCHANGED <<transport, link, sent, late, acted, torn, out>>

\* decodePacket: one byte of the remaining length; a length of 0 ends the packet.
DecodeLength ==
    /\ InStep /\ phase = "length"
    /\ \/ /\ read < Current.length
          /\ read' = read + 1 /\ UNCHANGED <<phase, acted>>
       \/ /\ read = Current.length /\ Current.rest > 0
          /\ read' = read + 1 /\ phase' = "rest" /\ UNCHANGED acted
       \/ /\ read = Current.length /\ Current.rest = 0
          /\ Act(Current)
    /\ UNCHANGED <<transport, link, sent, late, torn, out>>

\* Mutant: FreeRTOS_read returns what the first recv gave.
ReadRest_Once ==
    /\ InStep /\ phase = "rest"
    /\ \E k \in 1..Left :
          IF k = Left THEN Act(Current) /\ UNCHANGED torn ELSE GiveUp /\ torn' = TRUE
    /\ UNCHANGED <<transport, link, sent, late, out>>

\* Mutant: readPacket does not compare what it read with the remaining length.
ReadRest_Unchecked ==
    /\ InStep /\ phase = "rest"
    /\ \E k \in 1..Left : Act(IF k = Left THEN Current ELSE Garbage)
    /\ UNCHANGED <<transport, link, sent, late, torn, out>>

\* mqttread of what remains: k bytes have arrived.  FreeRTOS_read reads on, unless its
\* time is over; EthernetTLS_read returns what one record held.  A short read is dropped.
ReadRest ==
    /\ InStep /\ phase = "rest"
    /\ \E k \in 1..Left :
          \/ /\ k = Left
             /\ Act(Current) /\ UNCHANGED torn
          \/ /\ k < Left /\ transport # "tls"
             /\ read' = read + k /\ UNCHANGED <<phase, acted, torn>>
          \/ /\ k < Left /\ (transport = "tls" \/ late)
             /\ GiveUp /\ torn' = TRUE
    /\ UNCHANGED <<transport, link, sent, late, out>>

\* A read ends without its bytes: in time only on a socket that honours its time-out,
\* or because the connection is gone.
ReadEnds == Reading /\ ~torn /\ (~link \/ (transport = "rtos" /\ late))

\* Mutant: the read is begun again, its time over or not.
NothingRead_Again ==
    /\ ReadEnds /\ phase = "header" /\ link
    /\ UNCHANGED vars

\* Before the header byte nothing is lost.
NothingRead ==
    /\ ReadEnds /\ phase = "header"
    /\ GiveUp
    /\ UNCHANGED <<transport, link, sent, late, torn, out>>

\* In the length: readPacket does not look at the result, and goes on with what was
\* decoded, a packet without a rest or one with a wrong rest.
LengthCut ==
    /\ ReadEnds /\ phase = "length"
    /\ torn' = TRUE
    /\ \/ Act(Garbage)
       \/ read > 1 /\ phase' = "rest" /\ UNCHANGED <<read, acted>>
    /\ UNCHANGED <<transport, link, sent, late, out>>

RestCut ==
    /\ ReadEnds /\ phase = "rest"
    /\ torn' = TRUE /\ GiveUp
    /\ UNCHANGED <<transport, link, sent, late, out>>

\* Out of step, any byte is taken for a header: a packet comes of it, or nothing.
ReadOutOfStep ==
    /\ Reading /\ torn
    /\ \/ Len(acted) < MaxPackets /\ Act(Garbage)
       \/ GiveUp
    /\ UNCHANGED <<transport, link, sent, late, torn, out>>

\* cycle() returns; MQTTYield reads the next packet, unless its time is over.
EndCycle ==
    /\ phase = "cycle" /\ ~Sending
    /\ phase' = IF late THEN "idle" ELSE "header"
    /\ UNCHANGED <<transport, link, sent, read, late, acted, torn, out>>

Tick ==
    /\ phase # "idle" /\ ~late
    /\ late' = TRUE
    /\ UNCHANGED <<transport, link, sent, phase, read, acted, torn, out>>

-----------------------------------------------------------------------------
(* Writing: sendPacket, from a handler or between two yields.                *)

sendPacket ==
    /\ phase \in {"idle", "cycle"} /\ ~Sending
    /\ Len(result) < MaxPackets
    /\ wired' = Append(wired, 0) /\ result' = Append(result, "none")
    /\ UNCHANGED <<transport, link, in, held, stalled>>

Newest == Len(result)
Says(value) == result' = [result EXCEPT ![Newest] = value]

\* Mutant: sendPacket takes any write for the whole packet.
Write_Any ==
    /\ Sending /\ link /\ transport # "tls"
    /\ \E k \in IF transport = "rtos" THEN 1..(OutSize - wired[Newest]) ELSE {OutSize} :
          /\ wired' = [wired EXCEPT ![Newest] = @ + k]
          /\ Says("SUCCESS")
    /\ UNCHANGED <<transport, link, in, held, stalled>>

\* FreeRTOS_write: the WIZnet driver takes a packet of this size whole, or not at all.
Write ==
    /\ Sending /\ link /\ transport # "tls"
    /\ \E k \in IF transport = "rtos" THEN 1..(OutSize - wired[Newest]) ELSE {OutSize} :
          /\ wired' = [wired EXCEPT ![Newest] = @ + k]
          /\ IF wired'[Newest] = OutSize THEN Says("SUCCESS") ELSE UNCHANGED result
    /\ UNCHANGED <<transport, link, in, held, stalled>>

\* EthernetTLS_write.  SSLSendCB returns 0 when the write timed out, which mbedTLS takes
\* for no error: it keeps the record, and says the packet is written.  Its next write
\* sends the record it has kept, not the packet it is given.
WriteTLS ==
    /\ Sending /\ link /\ transport = "tls"
    /\ \/ /\ wired' = [wired EXCEPT ![IF held = 0 THEN Newest ELSE held] = OutSize]
          /\ held' = 0 /\ UNCHANGED stalled
       \/ /\ held' = IF held = 0 THEN Newest ELSE held
          /\ stalled' = TRUE /\ UNCHANGED wired
    /\ Says("SUCCESS")
    /\ UNCHANGED <<transport, link, in>>

\* The time is over, or the connection gone.  When cycle() could not send its
\* acknowledgement MQTTYield returns.
WriteFails ==
    /\ Sending /\ (~link \/ transport # "tls")
    /\ Says("FAILURE")
    /\ phase' = "idle" \/ UNCHANGED phase
    /\ UNCHANGED <<transport, link, sent, read, late, acted, torn, wired, held, stalled>>

-----------------------------------------------------------------------------
BrokerSends ==
    /\ link /\ Len(sent) < MaxPackets
    /\ \E p \in Shapes : sent' = Append(sent, p)
    /\ UNCHANGED <<transport, link, phase, read, late, acted, torn, out>>

LinkFails ==
    /\ link /\ link' = FALSE
    /\ UNCHANGED <<transport, in, out>>

Task ==
    \/ ReadHeader \/ DecodeLength \/ ReadRest
    \/ NothingRead \/ LengthCut \/ RestCut \/ ReadOutOfStep \/ EndCycle
    \/ Write \/ WriteTLS \/ WriteFails

Next == MQTTYield \/ sendPacket \/ Task \/ Tick \/ BrokerSends \/ LinkFails

Spec == Init /\ [][Next]_vars

\* The task runs when it has something to do, and time passes.
Fairness == WF_vars(Task) /\ WF_vars(Tick)

FairSpec == Spec /\ Fairness

-----------------------------------------------------------------------------
(* Properties.                                                               *)

\* Every variable keeps its type; a read under way is inside the packet it reads.
TypeOK ==
    /\ transport \in Transports /\ {link, late, torn, stalled} \subseteq BOOLEAN
    /\ sent \in Seq(Shapes) /\ acted \in Seq(Packet)
    /\ phase \in {"idle", "header", "length", "rest", "cycle"}
    /\ read \in Nat
    /\ ~torn /\ phase = "length" => Arriving /\ read \in 1..Current.length
    /\ ~torn /\ phase = "rest" => Arriving /\ read > Current.length /\ Left > 0
    /\ Len(wired) = Len(result)
    /\ wired \in Seq(0..OutSize) /\ result \in Seq({"none", "SUCCESS", "FAILURE"})
    /\ held \in 0..Len(result)

\* The client reads packets as FramedChannel promises: whatever arrives in pieces, and
\* whatever times out, cycle() acts on the broker's packets in order and whole, until a
\* read stops in the middle of one.
Framed == INSTANCE FramedChannel
          WITH Packet <- Packet, sent <- sent, taken <- acted, broken <- torn
ImplementsFramedChannel == Framed!ChannelSpec

\* A plain socket gets out of step only when the yield's time was over in the middle of
\* a packet, or the connection is gone: no way in which bytes arrive in time does it.
\* (With TLS it takes no more than a packet in two records.)
TornOnlyLate ==
    [][~torn /\ torn' /\ transport # "tls" => late \/ ~link]_vars

\* When sendPacket says SUCCESS the packet is on the wire, each of its bytes once,
\* unless a TLS write has timed out: from then on every packet is said to be sent
\* while another one is.
SuccessMeansSent ==
    ~stalled => \A p \in 1..Len(result) : result[p] = "SUCCESS" => wired[p] = OutSize

\* MQTTYield returns, on sockets that honour their time-out.
YieldReturns == transport = "rtos" => (phase # "idle" ~> phase = "idle")

\* What MQTTClient.h says of MQTTYield: "the time, in milliseconds, to yield for".
\* When its time is over it returns.
YieldTakesItsTime == late ~> phase = "idle"
=============================================================================
