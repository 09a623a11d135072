---------------------------- MODULE PskExchange ----------------------------
(***************************************************************************)
(* PSK_EXCHANGE, requester side, as written in                             *)
(* src/library/spdm_requester_lib/libspdm_req_psk_exchange.c:              *)
(* spdm_send_receive_psk_exchange(_ex) (the retry loop) around             *)
(* try_spdm_send_receive_psk_exchange.                                     *)
(*                                                                         *)
(* A session id is the pair <<req_session_id, rsp_session_id>>; 0 is the   *)
(* invalid requester half that spdm_allocate_req_session_id returns when   *)
(* the session table is full.  The session table, its allocation and       *)
(* libspdm_assign_session_id / libspdm_free_session_id are not in this     *)
(* repository and are modelled from the spec.  The responder is modelled   *)
(* from the spec too: it accepts a PSK_EXCHANGE while it has a free        *)
(* session, answers ERROR otherwise or when busy, and, with                *)
(* ResponderFaults, may send a response that fails one of the requester's  *)
(* checks.  The negotiated capabilities and algorithms are chosen in Init. *)
(***************************************************************************)
EXTENDS Naturals, FiniteSets

CONSTANTS
    RetryTimes,       \* spdm_context->retry_times
    MaxCalls,         \* bound on calls of spdm_send_receive_psk_exchange
    MaxSessions,      \* LIBSPDM_MAX_SESSION_COUNT of the requester
    RspIds,           \* rsp_session_id values of the responder (its table)
    ResponderFaults,  \* TRUE: the responder may send defective responses
    TransportFaults,  \* TRUE: sends and receives may fail or time out
    None

ASSUME RetryTimes \in Nat /\ MaxCalls \in Nat /\ MaxSessions \in Nat \ {0}
ASSUME ResponderFaults \in BOOLEAN /\ TransportFaults \in BOOLEAN

InvalidReqId == 0
ReqIds == 1..MaxSessions

VARIABLES
    pskCap,       \* PSK_CAP on both sides
    hbeatCap,     \* HBEAT_CAP on both sides
    withContext,  \* responder's PSK_CAP_RESPONDER_WITH_CONTEXT
    algOK,        \* measurement spec, hash size and key schedule provisioned
    connState,    \* connection_info.connection_state
    sessions,     \* requester's session table: set of [id, state]
    peerSessions, \* responder's session table
    peerPending,  \* request the responder answered with ResponseNotReady
    reqNet, rspNet,
    pc, retry, reqId,
    sent,         \* requester contexts drawn: names the latest request's
    contextIn,    \* the call passed requester_context_in (the _ex variant)
    status, calls

vars == <<pskCap, hbeatCap, withContext, algOK, connState, sessions,
          peerSessions, peerPending, reqNet, rspNet, pc, retry, reqId, sent,
          contextIn, status, calls>>

capVars  == <<pskCap, hbeatCap, withContext, algOK>>
peerVars == <<peerSessions, peerPending>>
callVars == <<contextIn, calls>>

\* The most requester contexts a run of MaxCalls calls uses: each try of
\* spdm_send_receive_psk_exchange draws one, a call of the _ex variant with
\* requester_context_in brings one.
MaxNonce == MaxCalls * (RetryTimes + 1)

SessionStates == {"NotStarted", "Handshaking", "Established"}
Statuses == {"SUCCESS", "DEVICE_ERROR", "TIMEOUT", "NO_RESPONSE",
             "UNSUPPORTED", "SECURITY_VIOLATION"}
\* Checks of PSK_EXCHANGE_RSP a defective response can fail, in code order:
\* Malformed fails the size, version or code checks of lines 211-235.
Defects == {"Malformed", "Length", "Opaque", "OpaqueTooLong"}
ErrorCodes == {"Busy", "NotReady", "RequestResync", "Other"}

\* A request: its code, req_session_id and requester context (line 170).
Request(kind, r, n) == [kind |-> kind, req |-> r, ctx |-> n]
\* PSK_EXCHANGE_RSP: rsp_session_id, heartbeat period (param1), a defect or
\* None, and the requester context its verify_data is computed over: the
\* HMAC covers transcript K, which holds the request it answers.
Rsp(s, hb, d, n) ==
    [type |-> "RSP", code |-> None, rsp |-> s, hb |-> hb, defect |-> d, hmac |-> n]
Error(c) ==
    [type |-> "ERROR", code |-> c, rsp |-> None, hb |-> 0, defect |-> None, hmac |-> None]

LiveIds == {x.id : x \in sessions}
FreeReqIds == ReqIds \ {x.id[1] : x \in sessions}

\* The state the responder's session reaches once it answers PSK_EXCHANGE:
\* with context it waits in Handshaking for PSK_FINISH, otherwise it is
\* Established at once.
SessionStateAfterPsk == IF withContext THEN "Handshaking" ELSE "Established"

-----------------------------------------------------------------------------
(* Requester                                                               *)

\* spdm_handle_error_response_main, from the spec.
ErrorStatus(code) ==
    CASE code = "Busy"          -> "NO_RESPONSE"
      [] code = "RequestResync" -> "UNSUPPORTED"
      [] OTHER                  -> "DEVICE_ERROR"

\* What try_spdm_send_receive_psk_exchange returns for a defect found after
\* the session was assigned (lines 260-353).
DefectStatus(d) ==
    CASE d = "Length"  -> "DEVICE_ERROR"
      [] d = "Opaque"  -> "UNSUPPORTED"
      [] OTHER         -> "SECURITY_VIOLATION"

\* Mutant of the retry loop: a NO_RESPONSE is retried even with no retries
\* left.
Finish_retryForever(st) ==
    \/ /\ st = "NO_RESPONSE"
       /\ pc' = "try" /\ retry' = retry - 1
       /\ UNCHANGED status
    \/ /\ st # "NO_RESPONSE"
       /\ pc' = "idle" /\ status' = st
       /\ UNCHANGED retry

\* The retry loop of spdm_send_receive_psk_exchange.
Finish(st) ==
    \/ /\ st = "NO_RESPONSE" /\ retry # 0
       /\ pc' = "try" /\ retry' = retry - 1
       /\ UNCHANGED status
    \/ /\ st # "NO_RESPONSE" \/ retry = 0
       /\ pc' = "idle" /\ status' = st
       /\ UNCHANGED retry

\* spdm_send_spdm_request / spdm_receive_spdm_response failing or timing out.
TransportFailure ==
    /\ TransportFaults
    /\ \E st \in {"TIMEOUT", "DEVICE_ERROR"} : Finish(st)

\* libspdm_assign_session_id succeeds: the id is not live and a slot is free.
Assignable(sid) == sid \notin LiveIds /\ Cardinality(sessions) < MaxSessions

\* The entry of either retry loop: retry = retry_times.
StartCall ==
    /\ pc = "idle" /\ calls < MaxCalls
    /\ pc' = "try" /\ retry' = RetryTimes
    /\ calls' = calls + 1
    /\ UNCHANGED <<capVars, connState, sessions, peerVars, reqNet, rspNet,
                   reqId, status>>

\* spdm_send_receive_psk_exchange: every try draws its own context.
PskCall == StartCall /\ contextIn' = FALSE /\ UNCHANGED sent

\* spdm_send_receive_psk_exchange_ex with requester_context_in: every try
\* of the call sends the caller's context, taken to be fresh and numbered
\* like a drawn one.
PskExCall ==
    /\ StartCall /\ contextIn' = TRUE
    /\ sent < MaxNonce /\ sent' = sent + 1

\* try_spdm_send_receive_psk_exchange up to the send: the capability,
\* connection-state and algorithm checks, then spdm_allocate_req_session_id
\* (whose result is not checked) and the send.
TryPsk ==
    /\ pc = "try"
    /\ \/ ~pskCap /\ Finish("UNSUPPORTED") /\ UNCHANGED <<reqNet, reqId, sent>>
       \/ /\ pskCap /\ connState # "Negotiated"
          /\ Finish("UNSUPPORTED") /\ UNCHANGED <<reqNet, reqId, sent>>
       \/ /\ pskCap /\ connState = "Negotiated" /\ ~algOK
          /\ Finish("DEVICE_ERROR") /\ UNCHANGED <<reqNet, reqId, sent>>
       \/ /\ pskCap /\ connState = "Negotiated" /\ algOK
          /\ \/ FreeReqIds = {} /\ reqId' = InvalidReqId
             \/ \E r \in FreeReqIds : reqId' = r
          /\ \/ ~contextIn /\ sent < MaxNonce /\ sent' = sent + 1
             \/ contextIn /\ UNCHANGED sent
          /\ \/ /\ reqNet' = Request("PSK_EXCHANGE", reqId', sent')
                /\ pc' = "recv" /\ UNCHANGED <<status, retry>>
             \/ TransportFailure /\ UNCHANGED reqNet
    /\ UNCHANGED <<capVars, connState, sessions, peerVars, rspNet, callVars>>

\* Mutant of FreeSessionId: a failure path returns without
\* libspdm_free_session_id; the session stays assigned, NotStarted.
FreeSessionId_missing(sid) ==
    sessions' = sessions \cup {[id |-> sid, state |-> "NotStarted"]}

\* libspdm_assign_session_id followed, on a failure, by
\* libspdm_free_session_id (lines 250-353): the table is as before.
FreeSessionId(sid) == UNCHANGED sessions

\* Lines 368-396: HANDSHAKING, then, when the responder does not support
\* context, the data keys and ESTABLISHED at once.
RequesterStateAfterPsk == IF withContext THEN "Handshaking" ELSE "Established"

\* Lines 230-399 on a PSK_EXCHANGE_RSP, in code order: the heartbeat check,
\* libspdm_assign_session_id, the length and opaque checks, the HMAC over
\* transcript K (this try's request and the response), every failure after
\* the assignment freeing the session again, and the session state.  The
\* key derivations from TH1 and TH2 are not modelled.
AcceptPskResponse(m) ==
    LET sid == <<reqId, m.rsp>>
        headerOK == m.defect # "Malformed" /\ (hbeatCap \/ m.hb = 0)
    IN
    \/ ~headerOK /\ Finish("DEVICE_ERROR") /\ UNCHANGED sessions
    \/ headerOK /\ ~Assignable(sid) /\ Finish("DEVICE_ERROR") /\ UNCHANGED sessions
    \/ /\ headerOK /\ Assignable(sid) /\ m.defect # None
       /\ FreeSessionId(sid) /\ Finish(DefectStatus(m.defect))
    \/ /\ headerOK /\ Assignable(sid) /\ m.defect = None /\ m.hmac # sent
       /\ FreeSessionId(sid) /\ Finish("SECURITY_VIOLATION")
    \/ /\ headerOK /\ Assignable(sid) /\ m.defect = None /\ m.hmac = sent
       /\ sessions' = sessions \cup {[id |-> sid, state |-> RequesterStateAfterPsk]}
       /\ Finish("SUCCESS")

\* The answer to PSK_EXCHANGE; ERROR goes through the error handler.
RecvPsk ==
    /\ pc = "recv"
    /\ \/ \E m \in rspNet :
            /\ rspNet' = rspNet \ {m}
            /\ \/ m.type = "RSP" /\ AcceptPskResponse(m) /\ UNCHANGED connState
               \/ /\ m = Error("NotReady")
                  /\ pc' = "poll"
                  /\ UNCHANGED <<connState, sessions, status, retry>>
               \/ /\ m = Error("RequestResync")
                  /\ connState' = "NotStarted"
                  /\ Finish(ErrorStatus(m.code)) /\ UNCHANGED sessions
               \/ /\ m.type = "ERROR" /\ m.code \in {"Busy", "Other"}
                  /\ Finish(ErrorStatus(m.code))
                  /\ UNCHANGED <<connState, sessions>>
       \/ TransportFailure /\ UNCHANGED <<rspNet, connState, sessions>>
    /\ UNCHANGED <<capVars, peerVars, reqNet, reqId, sent, callVars>>

\* ResponseNotReady: the error handler sends RESPOND_IF_READY.
PollPsk ==
    /\ pc = "poll"
    /\ \/ /\ reqNet' = Request("RESPOND_IF_READY", reqId, sent)
          /\ pc' = "pollrecv" /\ UNCHANGED <<status, retry>>
       \/ TransportFailure /\ UNCHANGED reqNet
    /\ UNCHANGED <<capVars, connState, sessions, peerVars, rspNet, reqId,
                   sent, callVars>>

\* The answer to RESPOND_IF_READY must be the PSK_EXCHANGE_RSP itself.
PollRecvPsk ==
    /\ pc = "pollrecv"
    /\ \/ \E m \in rspNet :
            /\ rspNet' = rspNet \ {m}
            /\ \/ m.type = "RSP" /\ AcceptPskResponse(m)
               \/ m.type = "ERROR" /\ Finish("DEVICE_ERROR") /\ UNCHANGED sessions
       \/ TransportFailure /\ UNCHANGED <<rspNet, sessions>>
    /\ UNCHANGED <<capVars, connState, peerVars, reqNet, reqId, sent, callVars>>

-----------------------------------------------------------------------------
(* Responder (from the spec)                                               *)

\* Heartbeat periods an honest responder may announce in param1.
Heartbeats == IF hbeatCap THEN {0, 1} ELSE {0}

\* The responder accepts: it takes a free rsp_session_id, creates its side
\* of the session and answers PSK_EXCHANGE_RSP.
Accept(q) ==
    \E s \in RspIds \ {x.id[2] : x \in peerSessions}, hb \in Heartbeats :
        /\ peerSessions' = peerSessions \cup
                             {[id |-> <<q.req, s>>, state |-> SessionStateAfterPsk]}
        /\ rspNet' = rspNet \cup {Rsp(s, hb, None, q.ctx)}

\* Any answer but ResponseNotReady: acceptance, an error, or, from a faulty
\* responder, a response that fails one of the requester's checks: a
\* heartbeat period without HBEAT_CAP, a defect, or a wrong HMAC.
Answer(q) ==
    \/ Accept(q)
    \/ /\ \E c \in {"Busy", "RequestResync", "Other"} : rspNet' = rspNet \cup {Error(c)}
       /\ UNCHANGED peerSessions
    \/ /\ ResponderFaults
       /\ \E s \in RspIds :
             \/ ~hbeatCap /\ rspNet' = rspNet \cup {Rsp(s, 1, None, q.ctx)}
             \/ \E d \in Defects : rspNet' = rspNet \cup {Rsp(s, 0, d, q.ctx)}
             \/ rspNet' = rspNet \cup {Rsp(s, 0, None, None)}
       /\ UNCHANGED peerSessions

RespondPsk ==
    /\ reqNet # None /\ reqNet.kind = "PSK_EXCHANGE"
    /\ reqNet' = None
    /\ \/ Answer(reqNet) /\ UNCHANGED peerPending
       \/ /\ peerPending' = reqNet
          /\ rspNet' = rspNet \cup {Error("NotReady")}
          /\ UNCHANGED peerSessions
    /\ UNCHANGED <<capVars, connState, sessions, pc, retry, reqId, status,
                   sent, callVars>>

RespondIfReady ==
    /\ reqNet # None /\ reqNet.kind = "RESPOND_IF_READY" /\ peerPending # None
    /\ reqNet' = None
    /\ Answer(peerPending)
    /\ peerPending' = None
    /\ UNCHANGED <<capVars, connState, sessions, pc, retry, reqId, status,
                   sent, callVars>>

-----------------------------------------------------------------------------

Init ==
    /\ pskCap \in BOOLEAN /\ hbeatCap \in BOOLEAN
    /\ withContext \in BOOLEAN /\ algOK \in BOOLEAN
    /\ connState \in {"AfterCapabilities", "Negotiated"}
    /\ sessions = {} /\ peerSessions = {} /\ peerPending = None
    /\ reqNet = None /\ rspNet = {}
    /\ pc = "idle" /\ retry = 0 /\ reqId = InvalidReqId /\ sent = 0
    /\ contextIn = FALSE
    /\ status = "SUCCESS" /\ calls = 0

Requester == PskCall \/ PskExCall \/ TryPsk \/ RecvPsk \/ PollPsk \/ PollRecvPsk

Responder == RespondPsk \/ RespondIfReady

Next == Requester \/ Responder

Fairness == WF_vars(Requester /\ pc # "idle") /\ WF_vars(Responder)

Spec == Init /\ [][Next]_vars /\ Fairness

\* The refinement mapping to SessionTable: the two tables as they are, and
\* a call in progress while the requester is inside the retry loop.
Abstract == INSTANCE SessionTable WITH
    SessionIds   <- ({InvalidReqId} \cup ReqIds) \X RspIds,
    States       <- SessionStates,
    FailStatuses <- Statuses \ {"SUCCESS"},
    reqTable     <- sessions,
    rspTable     <- peerSessions,
    busy         <- pc # "idle",
    result       <- status

-----------------------------------------------------------------------------
(* Properties                                                              *)

TypeOK ==
    /\ pskCap \in BOOLEAN /\ hbeatCap \in BOOLEAN
    /\ withContext \in BOOLEAN /\ algOK \in BOOLEAN
    /\ connState \in {"NotStarted", "AfterCapabilities", "Negotiated"}
    /\ sessions \subseteq [id : ({InvalidReqId} \cup ReqIds) \X RspIds,
                           state : SessionStates]
    /\ Cardinality(sessions) <= MaxSessions
    /\ peerSessions \subseteq [id : ({InvalidReqId} \cup ReqIds) \X RspIds,
                               state : SessionStates]
    /\ pc \in {"idle", "try", "recv", "poll", "pollrecv"}
    /\ reqId \in {InvalidReqId} \cup ReqIds /\ retry \in 0..RetryTimes
    /\ sent \in 0..MaxNonce /\ contextIn \in BOOLEAN /\ status \in Statuses
    /\ calls \in 0..MaxCalls

\* The PSK_EXCHANGE in flight carries a req_session_id that
\* spdm_allocate_req_session_id found free: the spec's allocator "returns
\* a fresh 16-bit id not currently in use".
ReqIdValidInFlight ==
    pc \in {"recv", "poll", "pollrecv"} => reqId \in FreeReqIds

\* P2 and the session phases: spdm_send_receive_psk_exchange implements
\* SessionTable.  Every call returns; one that fails leaves the requester's
\* table as it found it (the session assigned on the way is freed on every
\* failure path); one that succeeds adds exactly one session, which the
\* responder holds in the same state (Handshaking or Established, by
\* PSK_CAP_RESPONDER_WITH_CONTEXT), whatever late or faulty responses arrive.
RefinesSessionTable == Abstract!Spec
====
