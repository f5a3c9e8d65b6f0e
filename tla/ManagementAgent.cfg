\* One session of the agent, in both releases.
CONSTANTS
    req = req  resp = resp
    mSubscribeTopic = {req, resp}
    ReqTopic = req  RespTopic = resp
    OtherTopics = {}
    Builds = {TRUE, FALSE}
    MaxCreates = 1  MaxSubscribes = 0  MaxLosses = 2  MaxConnectFailures = 0
    MaxErrors = 1  MaxBetween = 1
SPECIFICATION FairSpec
INVARIANTS TypeOK RequestedOnce OwnResponses NamesOnlyCreated
PROPERTY RegistrationCompletes
\* The registration ends, or stops for good where an answer was lost.
CHECK_DEADLOCK FALSE
