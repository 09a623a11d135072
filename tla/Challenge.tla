----------------------------- MODULE Challenge -----------------------------
(***************************************************************************)
(* CHALLENGE, requester side, as written in                                *)
(* src/library/spdm_requester_lib/libspdm_req_challenge.c:                 *)
(* libspdm_challenge and libspdm_challenge_ex (the retry loops) around    *)
(* try_spdm_challenge.                                                      *)
(*                                                                         *)
(* Transcript C is a sequence of messages: the CHALLENGE request and the   *)
(* CHALLENGE_AUTH response without its signature.  A request carries its  *)
(* nonce, a fresh value per try (line 100); a response carries the nonce   *)
(* its signature covers, since the responder signs its own transcript C,   *)
(* which holds the request it answers.  Sizes, hashes and opaque data are  *)
(* abstracted to the one check each of them can fail.  The reset of C on   *)
(* sending CHALLENGE, the error handler and the encapsulated request loop  *)
(* of mutual authentication are not in this repository and are modelled   *)
(* from the spec, as is the responder.                                     *)
(***************************************************************************)
EXTENDS Naturals, Sequences

CONSTANTS
    RetryTimes,       \* spdm_context->retry_times
    MaxCalls,         \* bound on calls of libspdm_challenge
    Versions,         \* negotiated SPDM versions: 10, 11, 12
    SlotIds,          \* slot_id arguments: 0..7 or 255 (0xFF)
    PeerSlots,        \* slots the responder holds a certificate chain in
    ResponderErrors,  \* TRUE: the responder may answer ERROR
    ResponderFaults,  \* TRUE: the responder may fail one requester check
    TransportFaults,  \* TRUE: sends and receives may fail or time out
    None

ASSUME RetryTimes \in Nat /\ MaxCalls \in Nat
ASSUME Versions \subseteq {10, 11, 12} /\ SlotIds \subseteq (0..7) \cup {255}
ASSUME PeerSlots \subseteq 0..7
ASSUME {ResponderErrors, ResponderFaults, TransportFaults} \subseteq BOOLEAN

VARIABLES
    chalCap,      \* responder's CHAL_CAP
    mutCap,       \* MUT_AUTH_CAP on both sides
    provisioned,  \* peer_cert_chain_provision_size # 0
    version,      \* the negotiated version
    connState,    \* connection_info.connection_state
    messageC,     \* transcript C
    peerPending,  \* request the responder answered with ResponseNotReady
    reqNet, rspNet,
    pc, retry, slot,
    sent,         \* nonces drawn: names the nonce of the latest request
    nonceIn,      \* the call passed requester_nonce_in (libspdm_challenge_ex)
    status, tries, start, calls

vars == <<chalCap, mutCap, provisioned, version, connState, messageC,
          peerPending, reqNet, rspNet, pc, retry, slot, sent, nonceIn, status,
          tries, start, calls>>

capVars  == <<chalCap, mutCap, provisioned, version>>
callVars == <<slot, nonceIn, start, calls>>

\* The most nonces a run of MaxCalls calls uses: each try of
\* libspdm_challenge draws one, a call of libspdm_challenge_ex brings one.
MaxNonce == MaxCalls * (RetryTimes + 1)

ConnStates == {"NotStarted", "AfterCapabilities", "Negotiated", "Authenticated"}
Statuses == {"SUCCESS", "DEVICE_ERROR", "TIMEOUT", "NO_RESPONSE",
             "UNSUPPORTED", "SECURITY_VIOLATION", "INVALID_PARAMETER"}
\* Checks of CHALLENGE_AUTH a faulty response can fail besides the slot
\* fields and the signature: the size checks (lines 149-154, 187-192), the
\* certificate chain hash (201-207), opaque_length (227-229), the size
\* once opaque_length is known (239-244), and the append of the response
\* to transcript C (249-254).
Defects == {"Short", "CertHash", "OpaqueTooLong", "Truncated", "Huge"}

\* SPDM_CHALLENGE_AUTH_RESPONSE_ATTRIBUTE_BASIC_MUT_AUTH_REQ is bit 7 and
\* SLOT_ID_MASK the low nibble of param1.
MutBit == 128
SlotNibble(attr) == attr % 16
MutAuthReq(attr) == attr >= MutBit

Request(kind, s, n) == [kind |-> kind, slot |-> s, nonce |-> n]
\* CHALLENGE_AUTH: param1 (attr), param2 as the set of its bits, a defect
\* or None, and the nonce its signature covers.
Auth(attr, p2, d, n) ==
    [type |-> "AUTH", code |-> None, attr |-> attr, p2 |-> p2, defect |-> d, sig |-> n]
Error(c) ==
    [type |-> "ERROR", code |-> c, attr |-> 0, p2 |-> {}, defect |-> None, sig |-> None]

-----------------------------------------------------------------------------
(* Requester                                                               *)

\* The bits of 1 << s as an int.  A shift by 32 or more (slot_id 0xFF on
\* the v1.0 path, line 168) is undefined; the builds either mask the count
\* to five bits (x86) or shift everything out (ARM).
ShiftBits(s) == IF s < 32 THEN {{s}} ELSE {{s % 32}, {}}

\* Mutant of the slot check: the v1.1 nibble comparison missing.
SlotCheck_noNibble(v, s, attr, p2, bits) ==
    IF v >= 11 /\ s = 255
    THEN SlotNibble(attr) = 15 /\ p2 = {}
    ELSE /\ ~(v = 10 /\ attr # s)
         /\ p2 \cap bits # {}

\* Lines 156-171: the slot fields of CHALLENGE_AUTH, with bits the outcome
\* of 1 << slot_id.
SlotCheck(v, s, attr, p2, bits) ==
    IF v >= 11 /\ s = 255
    THEN SlotNibble(attr) = 15 /\ p2 = {}
    ELSE /\ ~(v >= 11 /\ SlotNibble(attr) # s)
         /\ ~(v = 10 /\ attr # s)
         /\ p2 \cap bits # {}

\* spdm_handle_error_response_main, from the spec.
ErrorStatus(code) ==
    CASE code = "Busy"          -> "NO_RESPONSE"
      [] code = "RequestResync" -> "UNSUPPORTED"
      [] OTHER                  -> "DEVICE_ERROR"

CountTry == IF tries > RetryTimes THEN RetryTimes + 2 ELSE tries + 1

\* Mutants of the retry loop: one that retries a NO_RESPONSE even with no
\* retries left, and one that never counts a retry down.
Finish_retryForever(st) ==
    \/ /\ st = "NO_RESPONSE"
       /\ pc' = "try" /\ retry' = retry - 1
       /\ UNCHANGED status
    \/ /\ st # "NO_RESPONSE"
       /\ pc' = "idle" /\ status' = st
       /\ UNCHANGED retry

Finish_noDecrement(st) ==
    \/ /\ st = "NO_RESPONSE" /\ retry # 0
       /\ pc' = "try"
       /\ UNCHANGED <<status, retry>>
    \/ /\ st # "NO_RESPONSE" \/ retry = 0
       /\ pc' = "idle" /\ status' = st
       /\ UNCHANGED retry

\* The retry loop of libspdm_challenge and libspdm_challenge_ex.
Finish(st) ==
    \/ /\ st = "NO_RESPONSE" /\ retry # 0
       /\ pc' = "try" /\ retry' = retry - 1
       /\ UNCHANGED status
    \/ /\ st # "NO_RESPONSE" \/ retry = 0
       /\ pc' = "idle" /\ status' = st
       /\ UNCHANGED retry

\* spdm_send_spdm_request / spdm_receive_spdm_response failing or timing out.
TransportFailure ==
    /\ TransportFaults
    /\ \E st \in {"TIMEOUT", "DEVICE_ERROR"} : Finish(st)

\* The entry of either retry loop: retry = retry_times, the slot argument.
StartCall ==
    /\ pc = "idle" /\ calls < MaxCalls
    /\ \E s \in SlotIds : slot' = s
    /\ pc' = "try" /\ retry' = RetryTimes /\ tries' = 0
    /\ start' = connState /\ calls' = calls + 1
    /\ UNCHANGED <<capVars, connState, messageC, peerPending, reqNet, rspNet,
                   status>>

\* libspdm_challenge: every try draws its own nonce.
ChallengeCall == StartCall /\ nonceIn' = FALSE /\ UNCHANGED sent

\* libspdm_challenge_ex with requester_nonce_in: every try of the call
\* sends the caller's nonce.  The caller's nonce is taken to be fresh: it
\* is numbered like a drawn one.
ChallengeExCall ==
    /\ StartCall /\ nonceIn' = TRUE
    /\ sent < MaxNonce /\ sent' = sent + 1

\* spdm_reset_message_buffer_via_request_code(CHALLENGE), lines 76-77,
\* from the spec: sending CHALLENGE resets transcript C.
ResetMessageC == messageC' = <<>>

\* try_spdm_challenge up to the send (lines 76-119): the reset of transcript
\* C, the CHAL_CAP, connection-state and provisioned-chain checks, the
\* nonce (random, or copied from requester_nonce_in) and the send.
TryChallenge ==
    /\ pc = "try"
    /\ ResetMessageC
    /\ tries' = CountTry
    /\ \/ ~chalCap /\ Finish("UNSUPPORTED") /\ UNCHANGED <<reqNet, sent>>
       \/ /\ chalCap /\ connState \in {"NotStarted", "AfterCapabilities"}
          /\ Finish("UNSUPPORTED") /\ UNCHANGED <<reqNet, sent>>
       \/ /\ chalCap /\ connState \in {"Negotiated", "Authenticated"}
          /\ slot = 255 /\ ~provisioned
          /\ Finish("INVALID_PARAMETER") /\ UNCHANGED <<reqNet, sent>>
       \/ /\ chalCap /\ connState \in {"Negotiated", "Authenticated"}
          /\ slot # 255 \/ provisioned
          /\ \/ ~nonceIn /\ sent < MaxNonce /\ sent' = sent + 1
             \/ nonceIn /\ UNCHANGED sent
          /\ \/ /\ reqNet' = Request("CHALLENGE", slot, sent')
                /\ pc' = "recv" /\ UNCHANGED <<status, retry>>
             \/ TransportFailure /\ UNCHANGED reqNet
    /\ UNCHANGED <<capVars, connState, peerPending, rspNet, callVars>>

\* The request try_spdm_challenge sent in this try, as appended to C.
ThisRequest == Request("CHALLENGE", slot, sent)

\* The encapsulated request loop of mutual authentication (line 285), from
\* the spec: it fails only when the responder rejects the requester.
EncapFails == IF ResponderFaults THEN BOOLEAN ELSE {FALSE}

\* spdm_verify_challenge_auth_signature over transcript C, lines 261-271:
\* the signature verifies iff the responder signed the request this try
\* appended, whose nonce is fresh.
VerifySignature(m) == m.defect = None /\ m.sig = sent

\* Lines 149-300 on a CHALLENGE_AUTH, in code order: the size and slot
\* checks and the mutual-authentication capability (DEVICE_ERROR, C
\* untouched), the chain hash and opaque_length (SECURITY_VIOLATION, C
\* untouched), the request appended to C, the size once opaque_length is
\* known (DEVICE_ERROR with the request left in C), the response appended
\* to C, the signature over C and the encapsulated request (each failure
\* resetting C), and the connection state.
AcceptChallengeAuth(m) ==
    \E bits \in ShiftBits(slot), encapFails \in EncapFails :
    LET checked == /\ SlotCheck(version, slot, m.attr, m.p2, bits)
                   /\ mutCap \/ ~MutAuthReq(m.attr)
                   /\ m.defect # "Short"
        signed  == VerifySignature(m)
    IN
    \/ /\ ~checked
       /\ Finish("DEVICE_ERROR") /\ UNCHANGED <<messageC, connState>>
    \/ /\ checked /\ m.defect \in {"CertHash", "OpaqueTooLong"}
       /\ Finish("SECURITY_VIOLATION") /\ UNCHANGED <<messageC, connState>>
    \/ /\ checked /\ m.defect = "Truncated"
       /\ messageC' = Append(messageC, ThisRequest)
       /\ Finish("DEVICE_ERROR") /\ UNCHANGED connState
    \/ /\ checked
       /\ \/ m.defect = "Huge"
          \/ m.defect = None /\ ~signed
          \/ signed /\ MutAuthReq(m.attr) /\ encapFails
       /\ messageC' = <<>>
       /\ Finish("SECURITY_VIOLATION") /\ UNCHANGED connState
    \/ /\ checked /\ signed /\ ~(MutAuthReq(m.attr) /\ encapFails)
       /\ messageC' = messageC \o <<ThisRequest, m>>
       /\ connState' = "Authenticated"
       /\ Finish("SUCCESS")

\* The answer to CHALLENGE; ERROR goes through the error handler.
RecvChallenge ==
    /\ pc = "recv"
    /\ \/ \E m \in rspNet :
            /\ rspNet' = rspNet \ {m}
            /\ \/ m.type = "AUTH" /\ AcceptChallengeAuth(m)
               \/ /\ m = Error("NotReady")
                  /\ pc' = "poll"
                  /\ UNCHANGED <<connState, messageC, status, retry>>
               \/ /\ m = Error("RequestResync")
                  /\ connState' = "NotStarted"
                  /\ Finish(ErrorStatus(m.code)) /\ UNCHANGED messageC
               \/ /\ m.type = "ERROR" /\ m.code \in {"Busy", "Other"}
                  /\ Finish(ErrorStatus(m.code))
                  /\ UNCHANGED <<connState, messageC>>
       \/ TransportFailure /\ UNCHANGED <<rspNet, connState, messageC>>
    /\ UNCHANGED <<capVars, peerPending, reqNet, sent, tries, callVars>>

\* ResponseNotReady: the error handler sends RESPOND_IF_READY.
PollChallenge ==
    /\ pc = "poll"
    /\ \/ /\ reqNet' = Request("RESPOND_IF_READY", slot, sent)
          /\ pc' = "pollrecv" /\ UNCHANGED <<status, retry>>
       \/ TransportFailure /\ UNCHANGED reqNet
    /\ UNCHANGED <<capVars, connState, messageC, peerPending, rspNet, sent,
                   tries, callVars>>

\* The answer to RESPOND_IF_READY must be the CHALLENGE_AUTH itself.
PollRecvChallenge ==
    /\ pc = "pollrecv"
    /\ \/ \E m \in rspNet :
            /\ rspNet' = rspNet \ {m}
            /\ \/ m.type = "AUTH" /\ AcceptChallengeAuth(m)
               \/ /\ m.type = "ERROR" /\ Finish("DEVICE_ERROR")
                  /\ UNCHANGED <<connState, messageC>>
       \/ TransportFailure /\ UNCHANGED <<rspNet, connState, messageC>>
    /\ UNCHANGED <<capVars, peerPending, reqNet, sent, tries, callVars>>

-----------------------------------------------------------------------------
(* Responder (from the spec)                                               *)

\* The CHALLENGE_AUTH the spec prescribes for slot s: the low nibble of
\* param1 is the slot (0xF for 0xFF) with the mutual-authentication bit,
\* and param2 is the slot mask (0 for 0xFF).
HonestAttr(s, mut) == (IF s = 255 THEN 15 ELSE s) + (IF mut THEN MutBit ELSE 0)
HonestMask(s) == IF s = 255 THEN {} ELSE PeerSlots

\* The answer to a CHALLENGE q: the prescribed CHALLENGE_AUTH, an ERROR,
\* or, from a faulty responder, a CHALLENGE_AUTH that differs from it in
\* one field.
Answer(q) ==
    \E mut \in (IF mutCap THEN BOOLEAN ELSE {FALSE}) :
    LET attr == HonestAttr(q.slot, mut)
        p2   == HonestMask(q.slot)
    IN
    \/ rspNet' = rspNet \cup {Auth(attr, p2, None, q.nonce)}
    \/ /\ ResponderErrors
       /\ \E c \in {"Busy", "RequestResync", "Other"} : rspNet' = rspNet \cup {Error(c)}
    \/ /\ ResponderFaults
       /\ \/ \E a \in {0, 15, 255, attr + MutBit * (1 - attr \div MutBit)} :
                rspNet' = rspNet \cup {Auth(a, p2, None, q.nonce)}
          \/ rspNet' = rspNet \cup {Auth(attr, {}, None, q.nonce)}
          \/ \E d \in Defects : rspNet' = rspNet \cup {Auth(attr, p2, d, q.nonce)}
          \/ rspNet' = rspNet \cup {Auth(attr, p2, None, None)}

RespondChallenge ==
    /\ reqNet # None /\ reqNet.kind = "CHALLENGE"
    /\ reqNet' = None
    /\ \/ Answer(reqNet) /\ UNCHANGED peerPending
       \/ /\ ResponderErrors
          /\ peerPending' = reqNet
          /\ rspNet' = rspNet \cup {Error("NotReady")}
    /\ UNCHANGED <<capVars, connState, messageC, pc, retry, sent, status,
                   tries, callVars>>

RespondIfReady ==
    /\ reqNet # None /\ reqNet.kind = "RESPOND_IF_READY" /\ peerPending # None
    /\ reqNet' = None
    /\ Answer(peerPending)
    /\ peerPending' = None
    /\ UNCHANGED <<capVars, connState, messageC, pc, retry, sent, status,
                   tries, callVars>>

-----------------------------------------------------------------------------

Init ==
    /\ chalCap \in BOOLEAN /\ mutCap \in BOOLEAN /\ provisioned \in BOOLEAN
    /\ version \in Versions
    /\ connState \in {"AfterCapabilities", "Negotiated"}
    /\ messageC = <<>> /\ peerPending = None
    /\ reqNet = None /\ rspNet = {}
    /\ pc = "idle" /\ retry = 0 /\ slot = 0 /\ sent = 0 /\ nonceIn = FALSE
    /\ status = "SUCCESS" /\ tries = 0 /\ start = "NotStarted" /\ calls = 0

Requester == ChallengeCall \/ ChallengeExCall \/ TryChallenge \/ RecvChallenge \/ PollChallenge
             \/ PollRecvChallenge

Responder == RespondChallenge \/ RespondIfReady

Next == Requester \/ Responder

Fairness == WF_vars(Requester /\ pc # "idle") /\ WF_vars(Responder)

Spec == Init /\ [][Next]_vars /\ Fairness

-----------------------------------------------------------------------------
(* Properties                                                              *)

TypeOK ==
    /\ {chalCap, mutCap, provisioned} \subseteq BOOLEAN
    /\ version \in Versions /\ connState \in ConnStates
    /\ \A i \in 1..Len(messageC) :
          IF "kind" \in DOMAIN messageC[i] THEN messageC[i].kind = "CHALLENGE"
                                           ELSE messageC[i].type = "AUTH"
    /\ pc \in {"idle", "try", "recv", "poll", "pollrecv"}
    /\ retry \in 0..RetryTimes /\ slot \in SlotIds \cup {0} /\ sent \in 0..MaxNonce
    /\ nonceIn \in BOOLEAN
    /\ status \in Statuses /\ tries \in 0..RetryTimes + 2
    /\ start \in ConnStates /\ calls \in 0..MaxCalls

\* The slot rule of the spec (section 5, CHALLENGE): for slot_id 0xFF the
\* low nibble of param1 is 0xF and param2 is 0; for a slot below 8 the bit
\* of the slot is set in param2 and, from v1.1, the low nibble of param1 is
\* the slot.
SpecSlotRule(v, s, attr, p2) ==
    IF s = 255 THEN SlotNibble(attr) = 15 /\ p2 = {}
    ELSE /\ s \in p2
         /\ v >= 11 => SlotNibble(attr) = s

\* A call that returns SUCCESS accepted a CHALLENGE_AUTH whose param1 and
\* param2 obey the spec's slot rule for the slot it challenged (the checks
\* of lines 156-171).
AcceptsOnlySpecSlotFields ==
    [][ (pc # "idle" /\ pc' = "idle" /\ status' = "SUCCESS")
          => SpecSlotRule(version, slot, messageC'[2].attr, messageC'[2].p2) ]_vars

\* With a responder that answers as the spec prescribes and a reliable
\* transport, a call that may challenge (CHAL_CAP, negotiated, a chain for
\* 0xFF) returns SUCCESS.
HonestChallengeSucceeds ==
    (/\ pc = "idle" /\ calls > 0 /\ chalCap
     /\ start \in {"Negotiated", "Authenticated"}
     /\ slot # 255 \/ provisioned)
    => status = "SUCCESS"

\* Spec I2 and the error policy: a call that does not succeed leaves
\* transcript C as it was before the exchange, with no tentative append.
TranscriptCRolledBack ==
    (pc = "idle" /\ status # "SUCCESS") => messageC = <<>>

\* Every call of libspdm_challenge returns.
CallReturns == (pc # "idle") ~> (pc = "idle")
====
