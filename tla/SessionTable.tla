---------------------------- MODULE SessionTable ----------------------------
(***************************************************************************)
(* What a PSK_EXCHANGE call promises about the session tables of the two   *)
(* sides, with no messages, retries or checks.  The responder opens        *)
(* sessions of its own accord.  A call of the requester is one atomic step *)
(* of failing, which leaves the requester's table as it was, or of         *)
(* succeeding, which adopts one session the responder holds, in the state *)
(* the responder holds it, under an id the requester does not use yet and *)
(* within the requester's capacity.  Every call returns.                   *)
(***************************************************************************)
EXTENDS Naturals, FiniteSets

CONSTANTS
    SessionIds,     \* session ids
    States,         \* session states
    MaxSessions,    \* capacity of the requester's table
    FailStatuses    \* what a failing call may return

VARIABLES
    reqTable,   \* the requester's sessions: set of [id, state]
    rspTable,   \* the responder's sessions
    busy,       \* a call is in progress
    result      \* what the last call returned

vars == <<reqTable, rspTable, busy, result>>

TableIds(T) == {x.id : x \in T}

Init ==
    /\ reqTable = {} /\ rspTable = {}
    /\ busy = FALSE /\ result = "SUCCESS"

Call ==
    /\ busy = FALSE /\ busy' = TRUE
    /\ UNCHANGED <<reqTable, rspTable, result>>

Open(x) ==
    /\ x.id \notin TableIds(rspTable)
    /\ rspTable' = rspTable \cup {x}
    /\ UNCHANGED <<reqTable, busy, result>>

Fail ==
    /\ busy = TRUE /\ busy' = FALSE
    /\ result' \in FailStatuses
    /\ UNCHANGED <<reqTable, rspTable>>

Succeed ==
    /\ busy = TRUE /\ busy' = FALSE
    /\ Cardinality(reqTable) < MaxSessions
    /\ \E x \in rspTable :
          /\ x.id \notin TableIds(reqTable)
          /\ reqTable' = reqTable \cup {x}
    /\ result' = "SUCCESS"
    /\ UNCHANGED rspTable

Next ==
    \/ Call \/ Fail \/ Succeed
    \/ \E x \in [id : SessionIds, state : States] : Open(x)

Spec == Init /\ [][Next]_vars /\ WF_vars(Fail \/ Succeed)
====
