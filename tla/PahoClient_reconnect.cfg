\* Connections that fail, are refused and are made again; pings; every call returns.
CONSTANTS
    t1 = t1  t2 = t2  m1 = m1  m2 = m2
    Topics = {t1}
    Messages = {m1}
    TopicOf <- OneTopic
    QoSOf <- AllQoS1
    PublishQoS = {1}
    NoTopic = NoTopic  NoMessage = NoMessage
    MAX_PACKET_ID = 3
    MAX_MESSAGE_HANDLERS = 1
    MaxPublishes = 2  MaxSubscribes = 1  MaxConnects = 2  MaxPings = 2  MaxLinkFailures = 1
SPECIFICATION FairSpec
INVARIANTS OnePing BackedOnce
PROPERTY CallsReturn
\* The bounds run out: the application may be left with nothing it may still do.
CHECK_DEADLOCK FALSE
