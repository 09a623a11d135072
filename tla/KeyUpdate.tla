----------------------------- MODULE KeyUpdate -----------------------------
(***************************************************************************)
(* KEY_UPDATE on an established SPDM session, requester side, as written  *)
(* in src/library/spdm_requester_lib/libspdm_req_key_update.c:            *)
(* libspdm_key_update (the retry loop) around try_spdm_key_update (the    *)
(* UPDATE_KEY / UPDATE_ALL_KEYS exchange followed by VERIFY_NEW_KEY).      *)
(*                                                                         *)
(* Keys are abstracted to epochs: a key is the number of updates applied  *)
(* to it.  The requester keeps the key it encrypts requests with (reqKey),*)
(* the key it decrypts responses with (rspKey) and the backup that        *)
(* libspdm_create_update_session_data_key leaves behind (rspBackup).      *)
(* The responder is modelled from the spec: it rotates its request key on *)
(* UPDATE_KEY, both keys on UPDATE_ALL_KEYS, echoes op and param2 in the  *)
(* ACK, or answers ERROR (Busy, ResponseNotReady, any other code).        *)
(* Messages travel through a one-slot request channel and a response set; *)
(* with the fault switches on, a send can fail, a receive can fail or     *)
(* time out, and a response can be lost or arrive after its receive gave  *)
(* up.                                                                    *)
(***************************************************************************)
EXTENDS Naturals

CONSTANTS
    RetryTimes,     \* spdm_context->retry_times
    MaxCalls,       \* bound on calls of libspdm_key_update
    Tags,           \* values of the random param2 byte
    SendFaults,     \* TRUE: spdm_send_spdm_request may fail
    RecvFaults,     \* TRUE: receives may fail, time out, responses be lost
    None

ASSUME RetryTimes \in Nat /\ MaxCalls \in Nat /\ Tags # {}
ASSUME SendFaults \in BOOLEAN /\ RecvFaults \in BOOLEAN

VARIABLES
    reqKey, rspKey, rspBackup,          \* requester secured_message_context
    peerReqKey, peerRspKey, peerPending,\* responder
    reqNet, rspNet,                     \* transport
    pc,          \* where the requester is inside libspdm_key_update
    single,      \* single_direction argument
    keyUpdated,  \* key_updated, local of libspdm_key_update
    retry,       \* retry, local of libspdm_key_update
    tag,         \* param2 of the request in flight
    status,      \* value the last call returned
    tries,       \* try_spdm_key_update calls of the current call, counted
                 \* up to RetryTimes + 2
    start,       \* requester keys when the current call began
    calls,
    usable       \* KEY_UPD_CAP on both sides, connection negotiated and the
                 \* session established (the checks of lines 48-69)

vars == <<usable, reqKey, rspKey, rspBackup, peerReqKey, peerRspKey, peerPending,
          reqNet, rspNet, pc, single, keyUpdated, retry, tag, status,
          tries, start, calls>>

keyVars  == <<reqKey, rspKey, rspBackup>>
peerVars == <<peerReqKey, peerRspKey, peerPending>>
callVars == <<single, start, calls, usable>>

Ops == {"UpdateKey", "UpdateAllKeys", "VerifyNewKey", "RespondIfReady"}
Statuses == {"SUCCESS", "DEVICE_ERROR", "TIMEOUT", "NO_RESPONSE", "UNSUPPORTED"}
ErrorCodes == {"Busy", "NotReady", "Other"}
PCs == {"idle", "try", "u_recv", "u_poll", "u_pollrecv",
        "verify", "v_recv", "v_poll", "v_pollrecv"}

Request(op, t) == [op |-> op, tag |-> t]
Ack(op, t) == [type |-> "ACK", code |-> None, op |-> op, tag |-> t]
Error(c) == [type |-> "ERROR", code |-> c, op |-> None, tag |-> None]
\* A response whose spdm_version differs from the request's.
BadVersion == [type |-> "BADVER", code |-> None, op |-> None, tag |-> None]

Messages == {Ack(o, t) : o \in Ops, t \in Tags} \cup {Error(c) : c \in ErrorCodes}
              \cup {BadVersion}

-----------------------------------------------------------------------------
(* Requester                                                               *)

\* spdm_handle_error_response_main, from the spec: Busy becomes NO_RESPONSE
\* (the only status the retry loop retries), every other code DEVICE_ERROR.
ErrorStatus(code) == IF code = "Busy" THEN "NO_RESPONSE" ELSE "DEVICE_ERROR"

\* Mutant of Finish: the loop written while (retry-- >= 0); on the
\* unsigned retry the test always holds, so a NO_RESPONSE is retried
\* without end.
Finish_retryForever(st) ==
    \/ /\ st = "NO_RESPONSE"
       /\ pc' = "try" /\ retry' = retry - 1
       /\ UNCHANGED status
    \/ /\ st # "NO_RESPONSE"
       /\ pc' = "idle" /\ status' = st
       /\ UNCHANGED retry

\* Mutant of Finish: the counter is never decremented.
Finish_noDecrement(st) ==
    \/ /\ st = "NO_RESPONSE" /\ retry # 0
       /\ pc' = "try" /\ UNCHANGED <<retry, status>>
    \/ /\ st # "NO_RESPONSE" \/ retry = 0
       /\ pc' = "idle" /\ status' = st
       /\ UNCHANGED retry

\* The do { status = try(...); if (status != NO_RESPONSE) return status; }
\* while (retry-- != 0) loop of libspdm_key_update, entered when a try
\* returns st.
Finish(st) ==
    \/ /\ st = "NO_RESPONSE" /\ retry # 0
       /\ pc' = "try" /\ retry' = retry - 1
       /\ UNCHANGED status
    \/ /\ st # "NO_RESPONSE" \/ retry = 0
       /\ pc' = "idle" /\ status' = st
       /\ UNCHANGED retry

\* libspdm_activate_update_session_data_key(RESPONDER, FALSE), made only
\* when both directions are being updated: back to the old response key.
RollbackRspKey ==
    IF single
    THEN UNCHANGED <<rspKey, rspBackup>>
    ELSE /\ rspKey' = rspBackup
         /\ rspBackup' = None

\* spdm_send_spdm_request: the request is handed to the transport, or the
\* send fails and the try returns TIMEOUT or DEVICE_ERROR at once.
SendRequest(op, t, next) ==
    \/ /\ reqNet' = Request(op, t)
       /\ pc' = next
       /\ UNCHANGED <<status, retry>>
    \/ /\ SendFaults
       /\ UNCHANGED reqNet
       /\ \E st \in {"TIMEOUT", "DEVICE_ERROR"} : Finish(st)

\* One more try, the history counter saturating once past the bound.
CountTry == IF tries > RetryTimes THEN RetryTimes + 2 ELSE tries + 1

\* The operation of the KEY_UPDATE request (param1).
UpdateOp == IF single THEN "UpdateKey" ELSE "UpdateAllKeys"

\* libspdm_key_update is called.
KeyUpdateCall ==
    /\ pc = "idle" /\ calls < MaxCalls
    /\ \E s \in BOOLEAN : single' = s
    /\ keyUpdated' = FALSE
    /\ retry' = RetryTimes
    /\ tries' = 0
    /\ start' = [req |-> reqKey, rsp |-> rspKey]
    /\ calls' = calls + 1
    /\ pc' = "try"
    /\ UNCHANGED <<keyVars, peerVars, reqNet, rspNet, tag, status, usable>>

\* Mutant of KeysAlreadyUpdated: key_updated a local of each try, so a
\* retry after the keys were updated updates them again.
KeysAlreadyUpdated_perTry == FALSE

\* if (!(*key_updated)), line 74: key_updated lives in libspdm_key_update
\* and survives the retries of one call.
KeysAlreadyUpdated == keyUpdated

\* libspdm_create_update_session_data_key(RESPONDER), lines 93-104, made
\* only when both directions are updated: the old response key is kept as
\* the backup.
CreateRspKey ==
    IF single
    THEN UNCHANGED <<rspKey, rspBackup>>
    ELSE /\ rspBackup' = rspKey
         /\ rspKey' = rspKey + 1

\* try_spdm_key_update up to the first send.  Without the capability, a
\* negotiated connection or an established session it returns UNSUPPORTED
\* (lines 48-69).  When the keys are not yet updated: a random param2, the
\* new response key created when both directions are updated, and
\* KEY_UPDATE sent.  Otherwise straight on to VERIFY_NEW_KEY.
TryKeyUpdate ==
    /\ pc = "try"
    /\ tries' = CountTry
    /\ \/ /\ ~usable
          /\ Finish("UNSUPPORTED")
          /\ UNCHANGED <<keyVars, reqNet, tag>>
       \/ /\ usable /\ KeysAlreadyUpdated
          /\ pc' = "verify"
          /\ UNCHANGED <<keyVars, reqNet, tag, status, retry>>
       \/ /\ usable /\ ~KeysAlreadyUpdated
          /\ \E t \in Tags :
                /\ tag' = t
                /\ SendRequest(UpdateOp, t, "u_recv")
          /\ CreateRspKey
          /\ UNCHANGED reqKey
    /\ UNCHANGED <<peerVars, rspNet, keyUpdated, callVars>>

\* Mutant of AckMatches: param1 is not compared.
AckMatches_tagOnly(m, op) == m.tag = tag

\* Lines 163-166 and 263-266: the ACK echoes the operation (param1) and
\* the random param2 of the request.
AckMatches(m, op) == m.op = op /\ m.tag = tag

\* The KEY_UPDATE_ACK echoes the operation and param2: activate the new
\* response key, create and activate the new request key, mark the keys
\* updated and go on to VERIFY_NEW_KEY.  Anything else: roll back.
UpdateAck(m) ==
    \/ /\ AckMatches(m, UpdateOp)
       /\ rspBackup' = None
       /\ reqKey' = reqKey + 1
       /\ keyUpdated' = TRUE
       /\ pc' = "verify"
       /\ UNCHANGED <<rspKey, status, retry>>
    \/ /\ ~AckMatches(m, UpdateOp)
       /\ RollbackRspKey
       /\ Finish("DEVICE_ERROR")
       /\ UNCHANGED <<reqKey, keyUpdated>>

\* Receive the answer to KEY_UPDATE.  A receive that times out returns
\* TIMEOUT as it is, and so does a response of the wrong version
\* (lines 137-139); a receive that fails rolls the response key back.
RecvUpdate ==
    /\ pc = "u_recv"
    /\ \/ \E m \in rspNet :
            /\ rspNet' = rspNet \ {m}
            /\ \/ /\ m.type = "ACK"
                  /\ UpdateAck(m)
               \/ /\ m = Error("NotReady")
                  /\ pc' = "u_poll"
                  /\ UNCHANGED <<keyVars, keyUpdated, status, retry>>
               \/ /\ m.type = "ERROR" /\ m.code # "NotReady"
                  /\ RollbackRspKey
                  /\ Finish(ErrorStatus(m.code))
                  /\ UNCHANGED <<reqKey, keyUpdated>>
               \/ /\ m = BadVersion
                  /\ Finish("DEVICE_ERROR")
                  /\ UNCHANGED <<keyVars, keyUpdated>>
       \/ /\ RecvFaults
          /\ UNCHANGED <<rspNet, keyUpdated, reqKey>>
          /\ \/ UNCHANGED <<rspKey, rspBackup>> /\ Finish("TIMEOUT")
             \/ RollbackRspKey /\ Finish("DEVICE_ERROR")
    /\ UNCHANGED <<peerVars, reqNet, tag, tries, callVars>>

\* ResponseNotReady inside spdm_handle_error_response_main: RESPOND_IF_READY
\* is sent; if that fails the handler's error takes the rollback path.
PollUpdate ==
    /\ pc = "u_poll"
    /\ \/ /\ reqNet' = Request("RespondIfReady", tag)
          /\ pc' = "u_pollrecv"
          /\ UNCHANGED <<rspKey, rspBackup, status, retry>>
       \/ /\ SendFaults
          /\ UNCHANGED reqNet
          /\ RollbackRspKey
          /\ \E st \in {"TIMEOUT", "DEVICE_ERROR"} : Finish(st)
    /\ UNCHANGED <<reqKey, peerVars, rspNet, keyUpdated, tag, tries, callVars>>

\* The answer to RESPOND_IF_READY: an ACK is checked as above; any other
\* answer, or a failed receive, is an error of the handler and rolls back.
PollRecvUpdate ==
    /\ pc = "u_pollrecv"
    /\ \/ \E m \in rspNet :
            /\ rspNet' = rspNet \ {m}
            /\ \/ m.type = "ACK" /\ UpdateAck(m)
               \/ /\ m.type \in {"ERROR", "BADVER"}
                  /\ RollbackRspKey
                  /\ Finish("DEVICE_ERROR")
                  /\ UNCHANGED <<reqKey, keyUpdated>>
       \/ /\ RecvFaults
          /\ UNCHANGED <<rspNet, reqKey, keyUpdated>>
          /\ RollbackRspKey
          /\ \E st \in {"TIMEOUT", "DEVICE_ERROR"} : Finish(st)
    /\ UNCHANGED <<peerVars, reqNet, tag, tries, callVars>>

\* VERIFY_NEW_KEY with a fresh random param2 (lines 218-234).
SendVerify ==
    /\ pc = "verify"
    /\ \E t \in Tags : tag' = t /\ SendRequest("VerifyNewKey", t, "v_recv")
    /\ UNCHANGED <<keyVars, peerVars, rspNet, keyUpdated, tries, callVars>>

\* The ACK to VERIFY_NEW_KEY must echo param1 and param2.  No failure of
\* this phase touches the keys: they are committed on both sides.
VerifyAck(m) ==
    Finish(IF AckMatches(m, "VerifyNewKey") THEN "SUCCESS" ELSE "DEVICE_ERROR")

RecvVerify ==
    /\ pc = "v_recv"
    /\ \/ \E m \in rspNet :
            /\ rspNet' = rspNet \ {m}
            /\ \/ m.type = "ACK" /\ VerifyAck(m)
               \/ /\ m = Error("NotReady")
                  /\ pc' = "v_poll"
                  /\ UNCHANGED <<status, retry>>
               \/ /\ m.type = "ERROR" /\ m.code # "NotReady"
                  /\ Finish(ErrorStatus(m.code))
               \/ m = BadVersion /\ Finish("DEVICE_ERROR")
       \/ /\ RecvFaults
          /\ UNCHANGED rspNet
          /\ \E st \in {"TIMEOUT", "DEVICE_ERROR"} : Finish(st)
    /\ UNCHANGED <<keyVars, peerVars, reqNet, keyUpdated, tag, tries, callVars>>

PollVerify ==
    /\ pc = "v_poll"
    /\ \/ /\ reqNet' = Request("RespondIfReady", tag)
          /\ pc' = "v_pollrecv"
          /\ UNCHANGED <<status, retry>>
       \/ /\ SendFaults
          /\ UNCHANGED reqNet
          /\ \E st \in {"TIMEOUT", "DEVICE_ERROR"} : Finish(st)
    /\ UNCHANGED <<keyVars, peerVars, rspNet, keyUpdated, tag, tries, callVars>>

PollRecvVerify ==
    /\ pc = "v_pollrecv"
    /\ \/ \E m \in rspNet :
            /\ rspNet' = rspNet \ {m}
            /\ \/ m.type = "ACK" /\ VerifyAck(m)
               \/ m.type \in {"ERROR", "BADVER"} /\ Finish("DEVICE_ERROR")
       \/ /\ RecvFaults
          /\ UNCHANGED rspNet
          /\ \E st \in {"TIMEOUT", "DEVICE_ERROR"} : Finish(st)
    /\ UNCHANGED <<keyVars, peerVars, reqNet, keyUpdated, tag, tries, callVars>>

-----------------------------------------------------------------------------
(* Responder (from the spec) and transport                                 *)

\* The responder performs a request: KEY_UPDATE rotates its request key,
\* UPDATE_ALL_KEYS also its response key; the ACK echoes op and param2.
Serve(m) ==
    /\ peerReqKey' = IF m.op \in {"UpdateKey", "UpdateAllKeys"}
                     THEN peerReqKey + 1 ELSE peerReqKey
    /\ peerRspKey' = IF m.op = "UpdateAllKeys" THEN peerRspKey + 1 ELSE peerRspKey
    /\ rspNet' = rspNet \cup {Ack(m.op, m.tag)}

\* A request arrives: it is performed, refused with an error, or answered
\* with ResponseNotReady and kept until RESPOND_IF_READY.
Respond ==
    /\ reqNet # None /\ reqNet.op # "RespondIfReady"
    /\ reqNet' = None
    /\ \/ Serve(reqNet) /\ UNCHANGED peerPending
       \/ /\ \E c \in {"Busy", "Other"} : rspNet' = rspNet \cup {Error(c)}
          /\ UNCHANGED peerVars
       \/ /\ peerPending' = reqNet
          /\ rspNet' = rspNet \cup {Error("NotReady")}
          /\ UNCHANGED <<peerReqKey, peerRspKey>>
    /\ UNCHANGED <<keyVars, pc, keyUpdated, retry, tag, status, tries, callVars>>

RespondIfReady ==
    /\ reqNet # None /\ reqNet.op = "RespondIfReady" /\ peerPending # None
    /\ reqNet' = None
    /\ Serve(peerPending)
    /\ peerPending' = None
    /\ UNCHANGED <<keyVars, pc, keyUpdated, retry, tag, status, tries, callVars>>

\* A response is lost in the transport, or corrupted so that its version
\* no longer matches.
LoseResponse ==
    /\ RecvFaults
    /\ \E m \in rspNet :
          \/ rspNet' = rspNet \ {m}
          \/ m # BadVersion /\ rspNet' = (rspNet \ {m}) \cup {BadVersion}
    /\ UNCHANGED <<keyVars, peerVars, reqNet, pc, keyUpdated, retry, tag,
                   status, tries, callVars>>

-----------------------------------------------------------------------------

Init ==
    /\ usable \in BOOLEAN
    /\ reqKey = 0 /\ rspKey = 0 /\ rspBackup = None
    /\ peerReqKey = 0 /\ peerRspKey = 0 /\ peerPending = None
    /\ reqNet = None /\ rspNet = {}
    /\ pc = "idle" /\ single = FALSE /\ keyUpdated = FALSE
    /\ retry = 0 /\ tag = None /\ status = "SUCCESS" /\ tries = 0
    /\ start = [req |-> 0, rsp |-> 0] /\ calls = 0

Requester ==
    \/ KeyUpdateCall \/ TryKeyUpdate \/ RecvUpdate \/ PollUpdate
    \/ PollRecvUpdate \/ SendVerify \/ RecvVerify \/ PollVerify \/ PollRecvVerify

Responder == Respond \/ RespondIfReady

Next == Requester \/ Responder \/ LoseResponse

\* The requester code is one sequential function and the responder answers
\* every request it receives (or the transport's receive times out).
Fairness == WF_vars(Requester /\ pc # "idle") /\ WF_vars(Responder)

Spec == Init /\ [][Next]_vars /\ Fairness

-----------------------------------------------------------------------------
(* Properties                                                              *)

TypeOK ==
    /\ reqKey \in Nat /\ rspKey \in Nat /\ rspBackup \in Nat \cup {None}
    /\ peerReqKey \in Nat /\ peerRspKey \in Nat
    /\ peerPending \in {None} \cup [op : Ops, tag : Tags]
    /\ reqNet \in {None} \cup [op : Ops, tag : Tags]
    /\ rspNet \subseteq Messages
    /\ pc \in PCs /\ single \in BOOLEAN /\ keyUpdated \in BOOLEAN
    /\ retry \in 0..RetryTimes /\ tag \in Tags \cup {None}
    /\ status \in Statuses /\ tries \in 0..RetryTimes + 2 /\ calls \in 0..MaxCalls

\* P3: when libspdm_key_update has returned, whatever it returned, the
\* requester and the responder hold the same key in each direction: a
\* failed update leaves both on the old key, a successful one both on the
\* new key, never one side on each.
KeysAgreeWhenIdle ==
    pc = "idle" => reqKey = peerReqKey /\ rspKey = peerRspKey

\* The requester never encrypts requests with a key the responder has not
\* yet derived: the new request key is activated only after the responder
\* acknowledged KEY_UPDATE, whatever the transport lost or delayed.
RequestKeyNotAhead == reqKey <= peerReqKey

\* However many times the retry loop runs try_spdm_key_update, a call that
\* returns SUCCESS has rotated the request key exactly once, and the
\* response key once if and only if both directions were updated: a retry
\* after the keys were updated only verifies them (key_updated).
RotatesOncePerSuccess ==
    [][ (pc # "idle" /\ pc' = "idle" /\ status' = "SUCCESS")
          => /\ reqKey' = start.req + 1
             /\ rspKey' = start.rsp + (IF single THEN 0 ELSE 1) ]_vars

\* P4: a call runs try_spdm_key_update at most retry_times + 1 times.
RetryBound == tries <= RetryTimes + 1

\* Every call of libspdm_key_update returns.
CallReturns == (pc # "idle") ~> (pc = "idle")
=============================================================================
