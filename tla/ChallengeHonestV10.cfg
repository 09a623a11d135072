\* A responder that answers as the spec prescribes over a reliable transport, at v1.0.
CONSTANTS
    None = None
    RetryTimes = 1
    MaxCalls = 2
    Versions = {10}
    SlotIds <- MCSlotIds
    PeerSlots <- MCPeerSlots
    ResponderErrors = FALSE
    ResponderFaults = FALSE
    TransportFaults = FALSE
SPECIFICATION Spec
INVARIANT HonestChallengeSucceeds
CHECK_DEADLOCK FALSE
