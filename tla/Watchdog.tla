------------------------------ MODULE Watchdog ------------------------------
(***************************************************************************)
(* init_watchdog, reset_watchdog and ThreadFunc of                         *)
(* src/os_stub/timelib/time_win.c.  The embedding's thread calls          *)
(* init_watchdog(seconds, context, stop) and reset_watchdog() in any       *)
(* order; every init_watchdog starts a thread running ThreadFunc.  The    *)
(* threads and the caller share the globals terminated, hThread and       *)
(* heartbeat_period.  A thread reads its context through the pointer      *)
(* &context, the address of init_watchdog's by-value parameter: the stack  *)
(* slot frame, which holds the session of the latest init_watchdog while   *)
(* that call runs and is free memory once it returns.  One tick is the    *)
(* Sleep(10) of one loop iteration (10 ms).                                *)
(*                                                                         *)
(* The ghost variables armedFor, period and cancelled record what the      *)
(* caller asked of each watchdog thread; fired records each stop callback. *)
(***************************************************************************)
EXTENDS Naturals, FiniteSets

CONSTANTS
    Sessions,    \* session ids the caller arms a watchdog for
    Periods,     \* heartbeat periods in seconds (uint8_t)
    MaxInits,    \* bound on init_watchdog calls: thread ids are 1..MaxInits
    MaxResets,   \* bound on reset_watchdog calls
    Garbage,     \* what a read of the freed stack slot yields
    None

ASSUME Periods \subseteq 0..255 /\ MaxInits \in Nat /\ MaxResets \in Nat

Threads == 1..MaxInits
TicksPerSecond == 100

VARIABLES
    mpc,             \* the caller: "idle" or a line of init_watchdog
    argSession,      \* the context argument of the running init_watchdog
    argPeriod,       \* its seconds argument
    inits, resets,   \* calls made
    terminated,      \* the global terminated
    hThread,         \* the global hThread: a thread id or 0
    heartbeatPeriod, \* the global heartbeat_period
    frame,           \* the stack slot &context points to
    frameLive,       \* the init_watchdog owning the slot has not returned
    tpc,             \* per thread: "none", "start", "loop", "after", "done"
    total,           \* per thread: total_loop
    index,           \* per thread: index
    armedFor,        \* per thread: the session it was started for
    period,          \* per thread: the seconds it was started with
    cancelled,       \* per thread: reset_watchdog was called before it left its loop
    fired            \* stop callbacks made: set of records

vars == <<mpc, argSession, argPeriod, inits, resets, terminated, hThread,
          heartbeatPeriod, frame, frameLive, tpc, total, index, armedFor,
          period, cancelled, fired>>

threadVars == <<tpc, total, index>>
ghostVars  == <<armedFor, period, cancelled, fired>>

-----------------------------------------------------------------------------
(* The caller                                                              *)

\* init_watchdog entry and lines 91-92: the globals heartbeat_period and
\* spdm_stop_session_func; the parameter context is in the slot.
InitWatchdog(s, p) ==
    /\ mpc = "idle" /\ inits < MaxInits
    /\ mpc' = "arm" /\ argSession' = s /\ argPeriod' = p
    /\ heartbeatPeriod' = p
    /\ frame' = s /\ frameLive' = TRUE
    /\ UNCHANGED <<inits, resets, terminated, hThread, threadVars, ghostVars>>

\* Line 96.
InitArm ==
    /\ mpc = "arm"
    /\ terminated' = FALSE
    /\ mpc' = "spawn"
    /\ UNCHANGED <<argSession, argPeriod, inits, resets, hThread,
                   heartbeatPeriod, frame, frameLive, threadVars, ghostVars>>

\* Line 98: _beginthreadex with &context; its result overwrites hThread.
\* It either starts a thread and returns its handle, or fails and returns
\* 0, which init_watchdog does not test: it returns TRUE either way.
InitSpawn ==
    /\ mpc = "spawn"
    /\ LET t == inits + 1 IN
       \/ /\ tpc' = [tpc EXCEPT ![t] = "start"]
          /\ hThread' = t
          /\ armedFor' = [armedFor EXCEPT ![t] = argSession]
          /\ period' = [period EXCEPT ![t] = argPeriod]
       \/ hThread' = 0 /\ UNCHANGED <<tpc, armedFor, period>>
    /\ inits' = inits + 1
    /\ mpc' = "return"
    /\ UNCHANGED <<argSession, argPeriod, resets, terminated, heartbeatPeriod,
                   frame, frameLive, total, index, cancelled, fired>>

\* Line 100: init_watchdog returns and its frame is freed.
InitReturn ==
    /\ mpc = "return"
    /\ mpc' = "idle" /\ frameLive' = FALSE
    /\ UNCHANGED <<argSession, argPeriod, inits, resets, terminated, hThread,
                   heartbeatPeriod, frame, threadVars, ghostVars>>

\* reset_watchdog, lines 106-110: with a live handle, set terminated and
\* close the handle.  Every thread that has not left its loop yet is
\* thereby cancelled.
ResetWatchdog ==
    /\ mpc = "idle" /\ resets < MaxResets
    /\ resets' = resets + 1
    /\ \/ /\ hThread # 0
          /\ terminated' = TRUE /\ hThread' = 0
       \/ hThread = 0 /\ UNCHANGED <<terminated, hThread>>
    /\ cancelled' = [t \in Threads |-> cancelled[t] \/ tpc[t] \in {"start", "loop"}]
    /\ UNCHANGED <<mpc, argSession, argPeriod, inits, heartbeatPeriod, frame,
                   frameLive, threadVars, armedFor, period, fired>>

-----------------------------------------------------------------------------
(* ThreadFunc                                                              *)

\* Lines 63-67: total_loop from the global heartbeat_period.
ThreadStart(t) ==
    /\ tpc[t] = "start"
    /\ total' = [total EXCEPT ![t] = heartbeatPeriod \div 10 + 1]
    /\ index' = [index EXCEPT ![t] = 0]
    /\ tpc' = [tpc EXCEPT ![t] = "loop"]
    /\ UNCHANGED <<mpc, argSession, argPeriod, inits, resets, terminated,
                   hThread, heartbeatPeriod, frame, frameLive, ghostVars>>

\* Mutant: the loop tests terminated only.
ThreadLoop_noBound(t) ==
    /\ tpc[t] = "loop"
    /\ \/ /\ ~terminated
          /\ index' = [index EXCEPT ![t] = index[t] + 1]
          /\ UNCHANGED tpc
       \/ /\ terminated
          /\ tpc' = [tpc EXCEPT ![t] = "after"]
          /\ UNCHANGED index
    /\ UNCHANGED <<mpc, argSession, argPeriod, inits, resets, terminated,
                   hThread, heartbeatPeriod, frame, frameLive, total, ghostVars>>

\* Mutant: the loop runs while index < total_loop.
ThreadLoop_strict(t) ==
    /\ tpc[t] = "loop"
    /\ \/ /\ ~terminated /\ index[t] < total[t]
          /\ index' = [index EXCEPT ![t] = index[t] + 1]
          /\ UNCHANGED tpc
       \/ /\ terminated \/ index[t] >= total[t]
          /\ tpc' = [tpc EXCEPT ![t] = "after"]
          /\ UNCHANGED index
    /\ UNCHANGED <<mpc, argSession, argPeriod, inits, resets, terminated,
                   hThread, heartbeatPeriod, frame, frameLive, total, ghostVars>>

\* Lines 68-72: one iteration (a test of terminated and index, then a
\* Sleep(10) tick), or the exit from the loop.
ThreadLoop(t) ==
    /\ tpc[t] = "loop"
    /\ \/ /\ ~terminated /\ index[t] <= total[t]
          /\ index' = [index EXCEPT ![t] = index[t] + 1]
          /\ UNCHANGED tpc
       \/ /\ terminated \/ index[t] > total[t]
          /\ tpc' = [tpc EXCEPT ![t] = "after"]
          /\ UNCHANGED index
    /\ UNCHANGED <<mpc, argSession, argPeriod, inits, resets, terminated,
                   hThread, heartbeatPeriod, frame, frameLive, total, ghostVars>>

\* What the thread reads through &context: the slot while its frame is
\* live, and either the stale contents or garbage once it has returned.
ContextRead == IF frameLive THEN {frame} ELSE {frame, Garbage}

\* Lines 74-80: a thread whose loop ran out calls the stop callback with
\* the session_id read through the context pointer; then it ends.
ThreadFinish(t) ==
    /\ tpc[t] = "after"
    /\ \/ /\ index[t] > total[t]
          /\ \E sid \in ContextRead :
                fired' = fired \cup
                  {[thread |-> t, session |-> sid, ticks |-> index[t],
                    cancelled |-> cancelled[t]]}
       \/ index[t] <= total[t] /\ UNCHANGED fired
    /\ tpc' = [tpc EXCEPT ![t] = "done"]
    /\ UNCHANGED <<mpc, argSession, argPeriod, inits, resets, terminated,
                   hThread, heartbeatPeriod, frame, frameLive, total, index,
                   armedFor, period, cancelled>>

-----------------------------------------------------------------------------

\* Lines 50-54: terminated, hThread and heartbeat_period are zero-initialised
\* statics; no init_watchdog has run and no thread exists.
Init ==
    /\ mpc = "idle" /\ argSession = None /\ argPeriod = 0
    /\ inits = 0 /\ resets = 0
    /\ terminated = FALSE /\ hThread = 0 /\ heartbeatPeriod = 0
    /\ frame = Garbage /\ frameLive = FALSE
    /\ tpc = [t \in Threads |-> "none"]
    /\ total = [t \in Threads |-> 0] /\ index = [t \in Threads |-> 0]
    /\ armedFor = [t \in Threads |-> None]
    /\ period = [t \in Threads |-> 0]
    /\ cancelled = [t \in Threads |-> FALSE]
    /\ fired = {}

Caller ==
    \/ \E s \in Sessions, p \in Periods : InitWatchdog(s, p)
    \/ InitArm \/ InitSpawn \/ InitReturn
    \/ ResetWatchdog

Thread(t) == ThreadStart(t) \/ ThreadLoop(t) \/ ThreadFinish(t)

Next == Caller \/ \E t \in Threads : Thread(t)

\* The caller finishes a call it has begun, and the scheduler runs every
\* thread that is ready (Sleep returns).
Fairness ==
    /\ WF_vars(InitArm \/ InitSpawn \/ InitReturn)
    /\ \A t \in Threads : WF_vars(Thread(t))

Spec == Init /\ [][Next]_vars /\ Fairness

-----------------------------------------------------------------------------
(* Properties                                                              *)

TypeOK ==
    /\ mpc \in {"idle", "arm", "spawn", "return"}
    /\ inits \in 0..MaxInits /\ resets \in 0..MaxResets
    /\ terminated \in BOOLEAN /\ hThread \in {0} \cup Threads
    /\ heartbeatPeriod \in Periods \cup {0}
    /\ frame \in Sessions \cup {Garbage} /\ frameLive \in BOOLEAN
    /\ tpc \in [Threads -> {"none", "start", "loop", "after", "done"}]
    /\ \A t \in Threads : index[t] \in 0..total[t] + 1
    /\ cancelled \in [Threads -> BOOLEAN]
    /\ \A f \in fired : f.thread \in Threads /\ f.session \in Sessions \cup {Garbage}

\* A watchdog thread armed with a non-zero heartbeat period ends, and one
\* that no reset_watchdog cancelled while it waited ends by calling the
\* stop callback: the spec's "on expiry, invokes stop_callback". A period
\* of 0 "disables" the watchdog, so no firing is demanded of it (what the
\* code does with 0 is StopAfterHeartbeatPeriod's question). The thread
\* recomputes total_loop from the global heartbeat_period (line 64), which
\* a later init_watchdog may have changed before it starts.
WatchdogFiresUnlessReset ==
    \A t \in Threads :
        tpc[t] # "none" /\ period[t] # 0
          ~> (tpc[t] = "done" /\ (cancelled[t] \/ \E f \in fired : f.thread = t))

\* The stop callback is called with the session the watchdog was armed
\* for: the spec's "read-only snapshot of {spdm_context_ptr, session_id,
\* end_attributes}".
StopNamesArmedSession ==
    \A f \in fired : f.session = armedFor[f.thread]

\* reset_watchdog cancels: a thread that is still waiting when
\* reset_watchdog is called never calls the stop callback.
NoStopAfterReset ==
    \A f \in fired : ~f.cancelled

\* The stop callback comes no earlier than heartbeat_period seconds after
\* the watchdog started, and never for a period of 0, which disables it.
StopAfterHeartbeatPeriod ==
    \A f \in fired :
        /\ period[f.thread] # 0
        /\ f.ticks >= period[f.thread] * TicksPerSecond
====
