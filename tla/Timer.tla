------------------------------- MODULE Timer -------------------------------
(***************************************************************************)
(* libspdm_settimer and libspdm_checktimer of                              *)
(* src/os_stub/timelib/time_win.c: settimer records the performance        *)
(* counter in the global start; checktimer converts the counts since start *)
(* to milliseconds, truncating, and compares.  Time is a millisecond       *)
(* clock; the spec's contract is that checktimer(timeout_ms) is TRUE iff   *)
(* the time since the caller's settimer exceeds timeout_ms.  Clients are   *)
(* the callers (contexts) that use the clock; armedAt records, for each,   *)
(* the time of its own last settimer, which the code does not keep.        *)
(***************************************************************************)
EXTENDS Naturals

CONSTANTS
    Clients,     \* callers of settimer / checktimer
    Timeouts,    \* timeout arguments, in milliseconds
    MaxTime,     \* bound on the clock, in milliseconds
    None

VARIABLES
    now,         \* the performance counter, in milliseconds
    start,       \* the global start
    armedAt,     \* per client: the time of its last settimer, or None
    result       \* the last checktimer: client, timeout, elapsed, value

vars == <<now, start, armedAt, result>>

-----------------------------------------------------------------------------

Tick ==
    /\ now < MaxTime
    /\ now' = now + 1
    /\ UNCHANGED <<start, armedAt, result>>

\* libspdm_settimer ignores its argument and sets the one global start.
SetTimer(c) ==
    /\ start' = now
    /\ armedAt' = [armedAt EXCEPT ![c] = now]
    /\ UNCHANGED <<now, result>>

\* Line 43: delta, in milliseconds, times 1000 against the timeout.
Expired(delta, timeout) == delta * 1000 > timeout

\* libspdm_checktimer: milliseconds since the global start (lines 38-41;
\* the clock is in whole milliseconds, so the truncation is exact), then
\* the comparison.
CheckTimer(c, timeout) ==
    /\ armedAt[c] # None
    /\ result' = [client |-> c, timeout |-> timeout,
                  elapsed |-> now - armedAt[c],
                  value |-> Expired(now - start, timeout)]
    /\ UNCHANGED <<now, start, armedAt>>

\* Line 15: start is a zero-initialised global; no client has called
\* settimer yet.
Init ==
    /\ now = 0 /\ start = 0
    /\ armedAt = [c \in Clients |-> None]
    /\ result = None

Next ==
    \/ Tick
    \/ \E c \in Clients : SetTimer(c)
    \/ \E c \in Clients, t \in Timeouts : CheckTimer(c, t)

Spec == Init /\ [][Next]_vars

-----------------------------------------------------------------------------
(* Properties                                                              *)

\* The spec's clock contract: checktimer(timeout_ms) is TRUE iff the time
\* since settimer exceeds timeout_ms.
CheckTimerExact ==
    result # None => (result.value <=> result.elapsed > result.timeout)
====
