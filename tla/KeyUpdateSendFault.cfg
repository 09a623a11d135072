\* Sends and receives may fail (spec scenario 3: a transport error on the
\* request send).  The shortest counterexample is the failed send of line
\* 108; the receive timeout of line 119 and the wrong-version response of
\* line 137 reach the same disagreement in longer traces.
CONSTANTS
    t1 = t1
    t2 = t2
    Tags <- MCTags
    None = None
    RetryTimes = 1
    MaxCalls = 2
    SendFaults = TRUE
    RecvFaults = TRUE
SPECIFICATION Spec
INVARIANT KeysAgreeWhenIdle
\* The library is idle once the embedding stops calling it (MaxCalls).
CHECK_DEADLOCK FALSE
