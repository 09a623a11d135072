\* An honest responder and a reliable transport; the requester's session
\* table holds one session, so the second call finds it full.
CONSTANTS
    None = None
    RetryTimes = 0
    MaxCalls = 2
    MaxSessions = 1
    RspIds <- MCRspIds
    ResponderFaults = FALSE
    TransportFaults = FALSE
SPECIFICATION Spec
INVARIANT ReqIdValidInFlight
CHECK_DEADLOCK FALSE
