---------------------------- MODULE FramedChannel ----------------------------
(* What a reader of packets on a byte stream is promised: it takes the packets *)
(* that were put on the stream, whole and in order, until it stops in the      *)
(* middle of one.  From then on it is out of step, and takes anything.         *)
EXTENDS Naturals, Sequences

CONSTANT Packet

VARIABLES sent,    \* the packets put on the stream
          taken,   \* the packets the reader has taken
          broken   \* the reader is out of step

channelVars == <<sent, taken, broken>>

ChannelInit == sent = << >> /\ taken = << >> /\ broken = FALSE

Put(p) == sent' = Append(sent, p) /\ UNCHANGED <<taken, broken>>

Take ==
    /\ ~broken /\ Len(taken) < Len(sent)
    /\ taken' = Append(taken, sent[Len(taken) + 1])
    /\ UNCHANGED <<sent, broken>>

\* Only a packet that is there can be stopped in.
Break ==
    /\ ~broken /\ Len(taken) < Len(sent)
    /\ broken' = TRUE
    /\ \/ UNCHANGED taken
       \/ \E p \in Packet : taken' = Append(taken, p)
    /\ UNCHANGED sent

OutOfStep ==
    /\ broken
    /\ \E p \in Packet : taken' = Append(taken, p)
    /\ UNCHANGED <<sent, broken>>

ChannelNext == (\E p \in Packet : Put(p)) \/ Take \/ Break \/ OutOfStep

ChannelSpec == ChannelInit /\ [][ChannelNext]_channelVars
=============================================================================
