---------------------------- MODULE MCChallenge ----------------------------
EXTENDS Challenge, TLC

\* Slot arguments: slot 0, which the responder holds, and 0xFF.
MCSlotIds == {0, 255}
MCPeerSlots == {0}
====
