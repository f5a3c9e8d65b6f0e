\* A network reported as connected after every attempt to connect it failed.
CONSTANTS
    b1 = b1  b2 = b2
    Blocks = {b1, b2}
    NoBlock = NoBlock
    NumSockets = 3
    MQTT_RETRY_CNT = 2
    MAX_MESSAGE_HANDLERS = 3
    subscribeTopicCnt = 2
    MaxCreates = 4  MaxLosses = 1
SPECIFICATION Spec
INVARIANT ConnectedHasBlock
\* The bounds run out, and a null pointer ends the program.
CHECK_DEADLOCK FALSE
