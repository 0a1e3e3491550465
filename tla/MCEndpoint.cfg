\* Seven pieces are read of a request: all of the usual ones, not of the longest.
SPECIFICATION Spec
CONSTANTS
    Addrs <- SomeAddrs
    Digits <- Numbers
    TooLong <- Long
    MaxResults = 2
    Requests <- SomeRequests
    ReqSize = 8
    MaxBody = 3
    MaxConns = 2
    MaxSignals = 1
INVARIANTS TypeOK DescriptorsOwned AnswerFits StreamExact
