---------------------------- MODULE MCPahoClient ----------------------------
(* Small instances of PahoClient: two broker messages, for one topic or two. *)
EXTENDS PahoClient, TLC

CONSTANTS t1, t2, m1, m2

OneTopic  == [m \in Messages |-> t1]
TwoTopics == [m \in Messages |-> IF m = m1 THEN t1 ELSE t2]
AllQoS1   == [m \in Messages |-> 1]
MixedQoS  == [m \in Messages |-> IF m = m1 THEN 2 ELSE 0]

\* Sound where all messages have one topic and one QoS.
SameMessages == Permutations(Messages)
=============================================================================
