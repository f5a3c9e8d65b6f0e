\* QoS 2 both ways, QoS 0, two topics, two slots, messages that interrupt publishes.
CONSTANTS
    t1 = t1  t2 = t2  m1 = m1  m2 = m2
    Topics = {t1, t2}
    Messages = {m1, m2}
    TopicOf <- TwoTopics
    QoSOf <- MixedQoS
    PublishQoS = {0, 2}
    NoTopic = NoTopic  NoMessage = NoMessage
    MAX_PACKET_ID = 3
    MAX_MESSAGE_HANDLERS = 2
    MaxPublishes = 2  MaxSubscribes = 2  MaxConnects = 1  MaxPings = 0  MaxLinkFailures = 0
SPECIFICATION Spec
INVARIANTS MixedAfterOwn BackedOnce ConfirmedAfterHandled HandlerOnlyIfGranted
\* The bounds run out: the application may be left with nothing it may still do.
CHECK_DEADLOCK FALSE
