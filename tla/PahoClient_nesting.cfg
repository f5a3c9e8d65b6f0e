\* Publishes that nest in handlers, time out and are retried; one connection.
CONSTANTS
    t1 = t1  t2 = t2  m1 = m1  m2 = m2
    Topics = {t1}
    Messages = {m1, m2}
    TopicOf <- OneTopic
    QoSOf <- AllQoS1
    PublishQoS = {1}
    NoTopic = NoTopic  NoMessage = NoMessage
    MAX_PACKET_ID = 3
    MAX_MESSAGE_HANDLERS = 2
    MaxPublishes = 3  MaxSubscribes = 1  MaxConnects = 1  MaxPings = 0  MaxLinkFailures = 0
SYMMETRY SameMessages
SPECIFICATION Spec
INVARIANTS LedgerInv OwnAckUnlessNestedOrFailed
PROPERTIES ImplementsLedger ImplementsNestedCalls
\* The bounds run out: the application may be left with nothing it may still do.
CHECK_DEADLOCK FALSE
