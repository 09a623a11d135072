\* Two callers of the clock, against the spec's contract.
CONSTANTS
    c1 = c1
    c2 = c2
    None = None
    Clients <- MCTwoClients
    Timeouts = {0, 3}
    MaxTime = 8
SPECIFICATION Spec
INVARIANT CheckTimerExact
