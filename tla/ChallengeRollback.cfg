\* A responder that may fail a check, at every version.
CONSTANTS
    None = None
    RetryTimes = 1
    MaxCalls = 2
    Versions = {10, 11, 12}
    SlotIds <- MCSlotIds
    PeerSlots <- MCPeerSlots
    ResponderErrors = TRUE
    ResponderFaults = TRUE
    TransportFaults = TRUE
SPECIFICATION Spec
INVARIANT TranscriptCRolledBack
CHECK_DEADLOCK FALSE
