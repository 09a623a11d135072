\* A responder that may be faulty and a transport that may fail, with a
\* requester session table of one, which the second call finds full.
CONSTANTS
    None = None
    RetryTimes = 2
    MaxCalls = 2
    MaxSessions = 1
    RspIds <- MCRspIds
    ResponderFaults = TRUE
    TransportFaults = TRUE
SPECIFICATION Spec
INVARIANT TypeOK
PROPERTY RefinesSessionTable
\* The library is idle once the embedding stops calling it (MaxCalls).
CHECK_DEADLOCK FALSE
