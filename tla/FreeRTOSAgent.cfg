\* Both releases; any two of a command, an error, a repeated message, a lost connection
\* and an answer that overtakes an acknowledgement.
CONSTANTS
    Builds = {TRUE, FALSE}
    MaxOfEach = 1  MaxEvents = 2
SPECIFICATION FairSpec
INVARIANTS TypeOK OwnSampling StackIsShallow OneChain OwnResponses
PROPERTIES NeverBack 
\* The agent ends.
CHECK_DEADLOCK FALSE
