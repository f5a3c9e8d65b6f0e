----------------------------- MODULE NestedCalls -----------------------------
(* What the FreeRTOS MQTT client promises of its blocking calls: they nest.   *)
(* The main loop has one call in progress at most; a call that has read a     *)
(* message runs the application's handler, which may make a call of its own;  *)
(* nothing but the innermost call moves; and, since a call that starts later  *)
(* has the later deadline, deadlines pass from the outermost call inwards.    *)
EXTENDS Naturals, Sequences

CONSTANTS MainCalls, HandlerCalls,  \* the calls made by the main loop, by a handler
          Message, NoMessage        \* what is delivered; none is under delivery

VARIABLES frames,   \* the calls in progress, the innermost last
          late      \* how many of them, from the outermost, have passed their deadline

callVars == <<frames, late>>

NoCalls    == frames = << >>
Inner      == frames[Len(frames)]
Reading    == ~NoCalls /\ Inner.msg = NoMessage
InDelivery == ~NoCalls /\ Inner.msg # NoMessage
IsLate     == late >= Len(frames)

CallsInit == frames = << >> /\ late = 0

Call(c) ==
    /\ \/ NoCalls /\ c \in MainCalls
       \/ InDelivery /\ c \in HandlerCalls
    /\ frames' = Append(frames, [call |-> c, msg |-> NoMessage])
    /\ UNCHANGED late

BeginDelivery(m) ==
    /\ Reading /\ ~IsLate
    /\ frames' = [frames EXCEPT ![Len(frames)] = [call |-> @.call, msg |-> m]]
    /\ UNCHANGED late

FinishDelivery ==
    /\ InDelivery
    /\ frames' = [frames EXCEPT ![Len(frames)] = [call |-> @.call, msg |-> NoMessage]]
    /\ UNCHANGED late

Return ==
    /\ ~NoCalls
    /\ frames' = SubSeq(frames, 1, Len(frames) - 1)
    /\ late' = IF IsLate THEN Len(frames) - 1 ELSE late

DeadlinePasses ==
    /\ late < Len(frames)
    /\ late' = late + 1
    /\ UNCHANGED frames

CallsNext ==
    \/ \E c \in MainCalls \cup HandlerCalls : Call(c)
    \/ \E m \in Message : BeginDelivery(m)
    \/ FinishDelivery \/ Return \/ DeadlinePasses

CallsSpec == CallsInit /\ [][CallsNext]_callVars
=============================================================================
