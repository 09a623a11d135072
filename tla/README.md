# TLA+ models of the libspdm requester and time library

These modules model the code under `src/` of this repository:

- three requester operations of libspdm:
  - KEY_UPDATE;
  - PSK_EXCHANGE;
  - CHALLENGE;
- the Windows time library: the timer and the heartbeat watchdog.

Each module translates the C control flow: every check, early return, error
path and retry. The data is abstracted to what the properties tell apart.
The responder, `spdm_handle_error_response_main`, the session table and the
transcript buffers are not in this repository. They are modelled from the
specification, as far as the requester code depends on them.

## The system and its parts

| Part | Source | Module | Status |
|---|---|---|---|
| KEY_UPDATE requester | `src/library/spdm_requester_lib/libspdm_req_key_update.c` | `KeyUpdate`, `MCKeyUpdate` | modelled |
| PSK_EXCHANGE requester | `src/library/spdm_requester_lib/libspdm_req_psk_exchange.c` | `PskExchange`, `MCPskExchange`, `SessionTable` | modelled |
| CHALLENGE requester | `src/library/spdm_requester_lib/libspdm_req_challenge.c` | `Challenge`, `MCChallenge` | modelled |
| settimer / checktimer | `src/os_stub/timelib/time_win.c` 29-48 | `Timer`, `MCTimer` | modelled |
| heartbeat watchdog | `src/os_stub/timelib/time_win.c` 50-112 | `Watchdog`, `MCWatchdog` | modelled |
| responder, error handler, session table, transcripts | not in `src/` | inside the three requester modules | partly (from the spec) |
| `libspdm_sleep` | `time_win.c` 24-27 | — | not modelled: a stateless wrapper over `Sleep` |
| `timelib.h` | `src/include/hal/library/timelib.h` | — | not modelled: declarations only |
| KEY_EXCHANGE fuzz harness | `src/unit_test/fuzzing/.../key_exchange.c` | — | not modelled: drives responder code that is not in the repository, on fuzzer bytes |

How the parts interact:

- Each requester operation is a retry loop, `do { st = try(); if (st != NO_RESPONSE) return st; } while (retry-- != 0)`, around a try function.
- A try function sends one request and receives one response over the transport. An ERROR response goes to the error handler:
  - Busy becomes NO_RESPONSE, which is the only status the loop retries;
  - ResponseNotReady makes the handler send RESPOND_IF_READY;
  - RequestResync resets the connection and returns UNSUPPORTED;
  - any other code returns DEVICE_ERROR.
- PSK_EXCHANGE creates a session, which KEY_UPDATE later operates on.
- The embedding arms the watchdog with a session, and its stop callback ends that session.
- The timer is the clock the transport uses for its timeouts.

## Modules and how they correspond to the code

Every module follows the same pattern:

- the state is VARIABLES;
- each step of the C function is an action, and its guard comes from the code's conditions;
- `Finish(st)` is the retry loop, entered with the status a try returned;
- in KeyUpdate and Challenge, `tries` is a history variable that counts the tries of a call and saturates past the bound, and `start` records the state at the beginning of a call;
- responses travel in a set, so they may arrive in any order and after their receive gave up.

`PROJECT.json` ("map") names the lines behind each definition.

- **KeyUpdate**
  - Keys are epochs: a key is the number of updates applied to it.
  - `reqKey` and `rspKey` are the requester's keys, and `rspBackup` is the old response key kept by `libspdm_create_update_session_data_key`. `peerReqKey` and `peerRspKey` are the responder's keys.
  - `usable` stands for the capability, connection-state and session-state checks of lines 48-69.
  - The actions:
    - `TryKeyUpdate` covers lines 34-112: the checks, `key_updated`, param1, a random param2 (`tag`), creating the response key, and the send.
    - `RecvUpdate`, `PollUpdate` and `PollRecvUpdate` cover lines 114-179: the receive, the error handler, the ACK check and the rollbacks.
    - `UpdateAck` covers lines 181-213: activating the keys and setting `key_updated`.
    - `SendVerify`, `RecvVerify`, `PollVerify` and `PollRecvVerify` cover lines 216-272.
    - `KeyUpdateCall` and `Finish` cover `libspdm_key_update`.
  - `BadVersion` is a response whose version differs from the negotiated one. `LoseResponse` either loses a response or replaces it by `BadVersion`. The version checks of lines 137-139 and 248-250 return DEVICE_ERROR with no rollback, while the polled path of lines 173-178 rolls back.
- **PskExchange**
  - A session id is the pair `<<req_session_id, rsp_session_id>>`.
  - `sessions` and `peerSessions` are the two session tables.
  - `sent` numbers the fresh requester contexts (line 170). A response's `hmac` names the context it was computed over, which stands for transcript K.
  - `PskCall` is `spdm_send_receive_psk_exchange`, where each try draws its own context. `PskExCall` is `spdm_send_receive_psk_exchange_ex` with `requester_context_in`, where every try sends the caller's context (`contextIn`). Both enter the same loop (`StartCall`, `Finish`).
  - The actions:
    - `TryPsk` covers lines 62-200.
    - `RecvPsk`, `PollPsk` and `PollRecvPsk` cover lines 202-235.
    - `AcceptPskResponse` covers lines 237-399, in code order. Every failure after `libspdm_assign_session_id` frees the session (`FreeSessionId`). `RequesterStateAfterPsk` is the state step of lines 366-396.
  - **SessionTable** is the abstract specification of a PSK_EXCHANGE call. It has no messages, retries or checks. The responder opens sessions of its own accord. A call is `Call` followed by one atomic step:
    - `Fail` leaves the requester's table as it was;
    - `Succeed` adopts one session the responder holds, in the state it holds it, under an id the requester does not use, within `MaxSessions`.
  - `PskExchange` instantiates it as `Abstract` with this refinement mapping:
    - `reqTable <- sessions` and `rspTable <- peerSessions`;
    - `busy <- pc # "idle"`;
    - `result <- status`.
  - `RefinesSessionTable == Abstract!Spec` is checked as a PROPERTY. Since the abstract `Spec` has `WF_vars(Fail \/ Succeed)`, the refinement also says that every call returns.
- **Challenge**
  - `messageC` is transcript C.
  - `sent` numbers the fresh nonces (line 100). A response's `sig` names the nonce it was signed over.
  - `ChallengeCall` is `libspdm_challenge`, where each try draws a nonce. `ChallengeExCall` is `libspdm_challenge_ex` with `requester_nonce_in`, where every try sends the caller's nonce (`nonceIn`, line 104). The caller's nonce is taken to be fresh and is numbered like a drawn one.
  - The slot checks of lines 155-171 are `SlotCheck`. The undefined `1 << slot_id` for slot 0xFF is a choice between the outcomes of the targets (`ShiftBits`): x86 masks the count to 5 bits, and ARM shifts every bit out.
  - The actions:
    - `AcceptChallengeAuth` covers lines 149-300, in code order: the checks that return DEVICE_ERROR with C untouched; the SECURITY_VIOLATION checks; the request appended to C; the size check that returns with the request still in C; the response appended; the signature and encapsulated-request failures that reset C; Authenticated.
- **Timer**
  - `start` is the global `start`, and `now` is the counter in milliseconds.
  - `armedAt` is a ghost variable: the time of each caller's own settimer.
  - `CheckTimer` covers lines 34-48.
- **Watchdog**
  - The caller's steps are `InitWatchdog`, `InitArm`, `InitSpawn`, `InitReturn` and `ResetWatchdog`. They interleave with the steps of each thread `t`: `ThreadStart`, `ThreadLoop` (one `Sleep(10)` tick) and `ThreadFinish`.
  - `terminated`, `hThread` and `heartbeatPeriod` are the shared globals.
  - `frame` and `frameLive` are the stack slot that `&context` points to. A read after `init_watchdog` returned may give the stale value or `Garbage` (`ContextRead`).
  - The ghost variables `armedFor`, `period`, `cancelled` and `fired` record what each thread was asked to do and what it did.
  - `InitSpawn` models `_beginthreadex` (line 98) succeeding or failing. On failure `hThread` becomes 0 and `init_watchdog` still returns TRUE. A later `reset_watchdog` then sees `hThread == 0` and does not set `terminated`, so an older thread that is still waiting is not cancelled. `NoStopAfterReset` covers this path as well.
  - `Init` is the zero-initialised statics of lines 50-54. `Init` in `Timer` is the global `start` of line 15.

The abstractions:

- Messages are records of the fields the code tests.
- An ERROR response carries nothing that ties it to a request. So a Busy delivered late from an earlier call makes the current try retry while its own request is still unanswered. The model keeps this, because the code does.
- A faulty responder sends the prescribed answer with one field changed.
- Byte sizes and offsets become a `defect` field that names the first check the response fails.
- Cryptography becomes binding fields: an HMAC or signature verifies iff it was computed over this try's context or nonce.
  As a result, a late CHALLENGE_AUTH from an earlier try is rejected by this abstraction, and no run checks it. The project keeps no property that only restates the per-try reset of C and the nonce check.
- Key derivation and random-number failures are left out.

## Runs

| Run | Module / cfg | Expect | What it shows |
|---|---|---|---|
| KeyUpdateFaults | MCKeyUpdate / KeyUpdateFaults.cfg | pass | Send, receive, loss and wrong-version faults, late ACKs and errors. The requester's request key is never ahead of the responder's (`RequestKeyNotAhead`). A SUCCESS rotates the keys exactly once across retries (`RotatesOncePerSuccess`). At most retry_times+1 tries (`RetryBound`), and every call returns (`CallReturns`). |
| KeyUpdateSendFault | MCKeyUpdate / KeyUpdateSendFault.cfg | violation | `KeysAgreeWhenIdle`, with send and receive faults: a failed send after the new response key was created leaves the keys out of step. The receive timeout (line 119) and the wrong-version response (line 137) reach the same state by longer traces. |
| PskExchange | MCPskExchange / PskExchange.cfg | pass | Both entry points, a faulty responder, transport faults, late responses and a full table. The requester implements `SessionTable` (`RefinesSessionTable`). A failed call leaves the requester's sessions as it found them. A successful one adds exactly one session, which the responder holds in the same state. Every call returns. |
| PskFullTable | MCPskExchange / PskFullTable.cfg | violation | `ReqIdValidInFlight`: with the table full, req_session_id 0 is sent. |
| ChallengeFaults | MCChallenge / ChallengeFaults.cfg | pass | Both entry points, versions 1.0-1.2, slots 0 and 0xFF, every fault. Only spec-allowed slot fields are accepted (`AcceptsOnlySpecSlotFields`). Every call returns. |
| ChallengeHonestV10 | MCChallenge / ChallengeHonestV10.cfg | violation | `HonestChallengeSucceeds`: a conforming v1.0 response with the mut-auth bit, or for 0xFF, is rejected. |
| ChallengeRollback | MCChallenge / ChallengeRollback.cfg | violation | `TranscriptCRolledBack`: the truncated-response path leaves the request in C. |
| TimerExact | MCTimer / TimerExact.cfg | violation | `CheckTimerExact`, with two callers: checktimer expires 1000 times early. The same property would catch the shared `start` making a timer late. |
| Watchdog | MCWatchdog / Watchdog.cfg | pass | Two inits and two resets in any order. Every thread armed with a non-zero period ends, by the stop callback unless a reset cancelled it (`WatchdogFiresUnlessReset`). Period 0 "disables" the watchdog in the spec, so nothing is demanded of it here; `WatchdogPeriod` shows that it fires. |
| WatchdogContext | MCWatchdog / WatchdogContext.cfg | violation | `StopNamesArmedSession`: the callback reads the session through a dangling pointer. |
| WatchdogReset | MCWatchdog / WatchdogReset.cfg | violation | `NoStopAfterReset`: a cancelled thread still fires. |
| WatchdogPeriod | MCWatchdog / WatchdogPeriod.cfg | violation | `StopAfterHeartbeatPeriod`: the period is counted in milliseconds, and 0 fires. |

`PROJECT.json` lists one mutant for each property of each passing run. The
mutant is a plausible bug in a mapped definition:

- a retry loop that never counts down, or one that retries forever;
- an ACK check that ignores param1;
- `key_updated` local to each try;
- a missing `libspdm_free_session_id`;
- a missing v1.1 nibble check;
- an off-by-one or missing bound in the watchdog loop.

TLC finds each of these mutants violating its property.

### Bounds and why they suffice

- `RetryTimes = 2` in KeyUpdateFaults and PskExchange gives a call three tries, so `key_updated` and a session table must survive two retries. `RetryTimes = 1` elsewhere gives every try a retry. Three PSK calls with a table of two, three KEY_UPDATE calls, and three watchdog inits take too long for TLC, so the runs stay at the sizes listed here. `MaxCalls = 2` lets a second call meet whatever the first one left behind: late responses, a changed key, a full table, a stale C.
- Two `Tags` let a late ACK's random param2 coincide with the current one or differ from it.
- `MaxSessions = 1` makes the second PSK call find the table full.
- Versions 1.0, 1.1 and 1.2, with slots 0 and 0xFF, reach every branch of the slot checks.
- The watchdog runs two inits and two resets, with periods 0 and 10 s. That is enough for a reset to race a thread's last tick, for a re-init to race an older thread, and for a thread to outlive its `init_watchdog`.
- The timer uses two callers, timeouts 0 and 3 ms, and a clock of 8 ms.
- `CHECK_DEADLOCK FALSE` is set wherever the embedding stops calling after its bounded calls. The library then rightly does nothing.

### Fairness

- **Requester modules:** `WF_vars(Requester /\ pc # "idle")`, because a started call is one sequential C function that keeps running. Also `WF_vars(Responder)`: a request is eventually answered, or the transport's receive times out, and a receive failure is always enabled when faults are on.
- **Watchdog:** weak fairness on the caller's steps within `init_watchdog`, and on each thread, because the scheduler runs a ready thread once its `Sleep` returns.
- The caller is never forced to make a new call.

## Not modelled

- Byte-level parsing, buffer arithmetic, key derivation and cryptography. They are abstracted as described above.
- The random-number and key-derivation failure returns.
- `libspdm_sleep`, `timelib.h` and the fuzz harness. The hazards in `PROJECT.json` name what this leaves unchecked.
- The global `spdm_stop_session_func`, which a later `init_watchdog` replaces under a running thread. The model's callers pass one callback, so this is a hazard in `PROJECT.json` with no property.
- Handle leaks from `_beginthreadex` handles that are never closed. TLC has no notion of an OS handle limit.

## Plan for later work

1. A composed requester: PSK_EXCHANGE creates the session, KEY_UPDATE runs on it once it is Established, and the watchdog's stop callback frees it. `SessionTable` would be extended with the session's later phases (Established → ended). The stop callback is defined by the embedding, not by this repository.
2. An abstract retry-loop specification, which each operation's loop refines.
3. A caller of the `_ex` variants that reuses a nonce or context across calls. The library cannot tell such a reused value from a fresh one, so this is a hazard of the caller's contract, listed in `PROJECT.json`.
