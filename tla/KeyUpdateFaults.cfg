\* Sends that fail, receives that fail or time out, responses lost or
\* delivered after their receive gave up.
CONSTANTS
    t1 = t1
    t2 = t2
    Tags <- MCTags
    None = None
    RetryTimes = 2
    MaxCalls = 2
    SendFaults = TRUE
    RecvFaults = TRUE
SPECIFICATION Spec
INVARIANT TypeOK
INVARIANT RequestKeyNotAhead
INVARIANT RetryBound
PROPERTY RotatesOncePerSuccess
PROPERTY CallReturns
\* The library is idle once the embedding stops calling it (MaxCalls).
CHECK_DEADLOCK FALSE
