----------------------------- MODULE AckLedger ------------------------------
(* What MQTTPublish promises to its callers, all together: a success is paid *)
(* for with one final acknowledgement (PUBACK, PUBCOMP) of the broker, and   *)
(* each acknowledgement pays once.  It does not promise that the publish     *)
(* that succeeds is the one acknowledged: MQTTClient.c compares no ids.      *)
CONSTANT Publish      \* the publishes ever made

VARIABLES accepted,   \* publishes the broker has acknowledged
          backing     \* <<p, a>>: p returned SUCCESS on the acknowledgement of a

vars == <<accepted, backing>>

Init == accepted = {} /\ backing = {}

Accept(a) ==
    /\ a \notin accepted
    /\ accepted' = accepted \cup {a}
    /\ UNCHANGED backing

Succeed(p, a) ==
    /\ a \in accepted
    /\ \A b \in backing : b[1] # p /\ b[2] # a
    /\ backing' = backing \cup {<<p, a>>}
    /\ UNCHANGED accepted

Next == \E a \in Publish : Accept(a) \/ \E p \in Publish : Succeed(p, a)

Spec == Init /\ [][Next]_vars
=============================================================================
