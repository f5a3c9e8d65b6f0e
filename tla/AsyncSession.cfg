CONSTANTS
    req = req  resp = resp  extra = extra
    mSubscribeTopic = {req, resp}
    OtherTopics = {extra}
    MaxCreates = 2  MaxSubscribes = 1  MaxLosses = 2  MaxConnectFailures = 1
SPECIFICATION FairSessionSpec
INVARIANTS SessionInv ToldAtMostAsked SubscribedWhenQuiet
PROPERTIES AppIsTold Resubscribes
\* The bounds run out: a destroyed client may not be created again.
CHECK_DEADLOCK FALSE
