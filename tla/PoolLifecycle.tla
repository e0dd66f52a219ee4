--------------------------- MODULE PoolLifecycle ---------------------------
(***************************************************************************)
(* The lazy agent pool of buzz-acp (crates/buzz-acp/src/pool_lifecycle.rs) *)
(* and the arms of the main loop that drive it: with --lazy-pool no agent  *)
(* is started until an event waits; then one wake task initializes the     *)
(* pool and sends the result back with its attempt number, or dies. A      *)
(* failed wake is retried after a delay that doubles.                      *)
(***************************************************************************)
EXTENDS Naturals, Sequences, FiniteSets

CONSTANTS
    InitialRetryDelay,  \* INITIAL_RETRY_DELAY
    MaxRetryDelay,      \* MAX_RETRY_DELAY
    MaxAttempts         \* bound: the wake after this many succeeds

ASSUME LifecycleAssumption ==
    /\ InitialRetryDelay \in Nat \ {0}
    /\ MaxRetryDelay \in Nat /\ InitialRetryDelay <= MaxRetryDelay
    /\ MaxAttempts \in Nat \ {0}

VARIABLES
    state,       \* "Listening", "Waking" or "Failed"; Ready lasts no longer than
                 \* the arm that stores it and takes it out again
    attempt,     \* of Waking and Failed
    retry_at,    \* of Failed: how far ahead it still is
    pool_ready,
    work,        \* queue.has_flushable_work()
    wake_tasks,  \* attempts whose initialization task is running
    wake_rx,     \* results sent and not yet received: capacity 1
    dead         \* attempts whose task panicked, not yet joined

lifecycleVars == <<state, attempt, retry_at, pool_ready, work, wake_tasks, wake_rx, dead>>

LifecycleInit ==
    /\ state = "Listening"
    /\ attempt = 0
    /\ retry_at = 0
    /\ pool_ready = FALSE
    /\ work = FALSE
    /\ wake_tasks = {} /\ wake_rx = << >> /\ dead = {}

(* min(5 * 2^(attempt - 1), 300); the shift and the product saturate. *)
RetryDelay(n) ==
    LET delay == InitialRetryDelay * 2 ^ (n - 1) IN
    IF delay < MaxRetryDelay THEN delay ELSE MaxRetryDelay

(* An accepted event waits in the queue. *)
Arrive ==
    /\ ~work
    /\ work' = TRUE
    /\ UNCHANGED <<state, attempt, retry_at, pool_ready, wake_tasks, wake_rx,
                   dead>>

(* The channel is removed while its events wait. *)
Drained ==
    /\ work /\ ~pool_ready
    /\ work' = FALSE
    /\ UNCHANGED <<state, attempt, retry_at, pool_ready, wake_tasks, wake_rx,
                   dead>>

(* Mutant of StartWake: a wake under way does not keep a second one from   *)
(* starting.                                                               *)
StartWakeAgain ==
    /\ ~pool_ready /\ work
    /\ attempt < MaxAttempts
    /\ retry_at = 0
    /\ attempt' = attempt + 1
    /\ state' = "Waking"
    /\ wake_tasks' = wake_tasks \cup {attempt'}
    /\ UNCHANGED <<retry_at, pool_ready, work, wake_rx, dead>>

(* start_wake_if_due, at the top of the loop; the retry arm of the select! *)
(* makes the loop come round when retry_at is reached.                     *)
StartWake ==
    /\ ~pool_ready /\ work
    /\ \/ state = "Listening" /\ attempt' = 1
       \/ state = "Failed" /\ retry_at = 0 /\ attempt' = attempt + 1
    /\ state' = "Waking"
    /\ wake_tasks' = wake_tasks \cup {attempt'}
    /\ UNCHANGED <<retry_at, pool_ready, work, wake_rx, dead>>

(* The task sends its result when the channel has room. *)
WakeTaskSends(n, ok) ==
    /\ n \in wake_tasks
    /\ wake_rx = << >>
    /\ n >= MaxAttempts => ok
    /\ wake_tasks' = wake_tasks \ {n}
    /\ wake_rx' = Append(wake_rx, [attempt |-> n, ok |-> ok])
    /\ UNCHANGED <<state, attempt, retry_at, pool_ready, work, dead>>

WakeTaskPanics(n) ==
    /\ n \in wake_tasks
    /\ n < MaxAttempts
    /\ wake_tasks' = wake_tasks \ {n}
    /\ dead' = dead \cup {n}
    /\ UNCHANGED <<state, attempt, retry_at, pool_ready, work, wake_rx>>

(* complete_wake with an error. *)
Fail ==
    /\ state' = "Failed"
    /\ retry_at' = RetryDelay(attempt)

Matches(n) == state = "Waking" /\ attempt = n

(* PoolEvent::Wake: complete_wake, and take_ready on success. A result     *)
(* that does not match the current attempt is discarded, its pool with it. *)
ReceiveWake ==
    /\ ~pool_ready
    /\ wake_rx # << >>
    /\ wake_rx' = Tail(wake_rx)
    /\ IF Matches(Head(wake_rx).attempt)
       THEN IF Head(wake_rx).ok
            THEN /\ state' = "Listening"
                 /\ pool_ready' = TRUE
                 /\ UNCHANGED <<retry_at>>
            ELSE Fail /\ UNCHANGED pool_ready
       ELSE UNCHANGED <<state, retry_at, pool_ready>>
    /\ UNCHANGED <<attempt, work, wake_tasks, dead>>

(* Mutant of JoinWakeTask: the panic is logged and the wake not cancelled. *)
JoinWakeTaskOnly(n) ==
    /\ n \in dead
    /\ dead' = dead \ {n}
    /\ UNCHANGED <<state, attempt, retry_at, pool_ready, work, wake_tasks, wake_rx>>

(* The join arm: cancel_wake for whatever attempt is waking. *)
JoinWakeTask(n) ==
    /\ n \in dead
    /\ dead' = dead \ {n}
    /\ IF state = "Waking" THEN Fail ELSE UNCHANGED <<state, retry_at>>
    /\ UNCHANGED <<attempt, pool_ready, work, wake_tasks, wake_rx>>

(* dispatch_pending, once there is a pool. *)
DispatchPending ==
    /\ pool_ready /\ work
    /\ work' = FALSE
    /\ UNCHANGED <<state, attempt, retry_at, pool_ready, wake_tasks, wake_rx,
                   dead>>

RetryTick ==
    /\ retry_at > 0
    /\ retry_at' = retry_at - 1
    /\ UNCHANGED <<state, attempt, pool_ready, work, wake_tasks, wake_rx, dead>>

LifecycleNext ==
    \/ Arrive \/ Drained \/ StartWake \/ ReceiveWake \/ DispatchPending \/ RetryTick
    \/ \E n \in wake_tasks : WakeTaskPanics(n) \/ \E ok \in BOOLEAN : WakeTaskSends(n, ok)
    \/ \E n \in dead : JoinWakeTask(n)

LifecycleSpec == LifecycleInit /\ [][LifecycleNext]_lifecycleVars

(* Time passes, tasks end (initialization has a timeout per slot), and the *)
(* select! serves what is ready.                                           *)
LifecycleFairness ==
    /\ WF_lifecycleVars(StartWake) /\ WF_lifecycleVars(ReceiveWake) /\ WF_lifecycleVars(RetryTick)
    /\ WF_lifecycleVars(\E n \in wake_tasks, ok \in BOOLEAN : WakeTaskSends(n, ok))
    /\ WF_lifecycleVars(\E n \in dead : JoinWakeTask(n))

-----------------------------------------------------------------------------
(* The attempts that are still on their way, one entry per task, result or *)
(* panic.                                                                  *)
Underway == wake_tasks \cup dead \cup {wake_rx[i].attempt : i \in DOMAIN wake_rx}

(* "Returns the attempt token exactly once per transition into Waking":    *)
(* Waking has exactly one task, result or panic on its way, and it carries *)
(* the current attempt; otherwise there is none. So a result is never      *)
(* discarded as stale, which would drop a started pool without shutting    *)
(* its agents down, and a failed join never cancels somebody else's wake.  *)
OneWakeUnderway ==
    /\ Underway = IF state = "Waking" THEN {attempt} ELSE {}
    /\ Cardinality(wake_tasks) + Cardinality(dead) + Len(wake_rx)
          = Cardinality(Underway)

(* Work that stays queued gets its pool, failures and panics of earlier    *)
(* wakes notwithstanding.                                                  *)
EventuallyReady == [](work /\ ~pool_ready => <>(pool_ready \/ ~work))
=============================================================================
