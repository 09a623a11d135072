\* Every version, slot 0 and 0xFF, a responder that may err or fail a
\* check, and a transport that may fail.
CONSTANTS
    None = None
    RetryTimes = 1
    MaxCalls = 2
    Versions = {10, 11, 12}
    SlotIds <- MCSlotIds
    PeerSlots <- MCPeerSlots
    ResponderErrors = TRUE
    ResponderFaults = TRUE
    TransportFaults = TRUE
SPECIFICATION Spec
INVARIANT TypeOK
PROPERTY AcceptsOnlySpecSlotFields
PROPERTY CallReturns
\* The library is idle once the embedding stops calling it (MaxCalls).
CHECK_DEADLOCK FALSE
