---------------------------- MODULE SlotCircuit ----------------------------
(***************************************************************************)
(* The circuit breaker of one agent slot (SlotCircuit in crates/buzz-acp/  *)
(* src/lib.rs) and the slot it guards: the agent crashes, is respawned     *)
(* after a backoff or not at all, the spawn succeeds or fails, and the     *)
(* maintenance tick refills an empty slot once the circuit lets it. Time   *)
(* is a natural number. AcpHarness abstracts crash_times to a choice.      *)
(***************************************************************************)
EXTENDS Naturals, Sequences, FiniteSets

CONSTANTS
    Threshold,   \* CIRCUIT_BREAKER_THRESHOLD
    Window,      \* CIRCUIT_BREAKER_WINDOW
    Cooldown,    \* CIRCUIT_BREAKER_COOLDOWN
    MaxCircuitTime  \* bound on the clock

ASSUME CircuitAssumption ==
    /\ Threshold \in Nat \ {0} /\ Window \in Nat \ {0}
    /\ Cooldown \in Nat /\ MaxCircuitTime \in Nat
    /\ Window <= Cooldown

VARIABLES
    instant,
    crash_times, open_until,
    slot,       \* "alive", "respawning" (respawn_in_flight) or "empty"
    crashes     \* history: when the slot's agents crashed

circuitVars == <<instant, crash_times, open_until, slot, crashes>>

(* Option::None. The clock starts at 1, so no Instant is 0. *)
None == 0

(* One agent may fail to start while the rest of the pool does. *)
CircuitInit ==
    /\ instant = 1
    /\ crash_times = << >>
    /\ open_until = None
    /\ slot \in {"alive", "empty"}
    /\ crashes = << >>

(* retain. The times were pushed in their order, so it drops a prefix. *)
Recent(times) ==
    LET old == {i \in DOMAIN times : instant - times[i] >= Window}
    IN  SubSeq(times, Cardinality(old) + 1, Len(times))

CooledDown == open_until # None /\ instant >= open_until

(* The half-open probe is put on trial: one crash within the window and    *)
(* the threshold is reached.                                               *)
HalfOpen ==
    /\ crash_times' = [i \in 1 .. Threshold - 1 |-> instant]
    /\ open_until' = None
    /\ slot' = "respawning"

StaysOpen ==
    /\ slot' = "empty"
    /\ UNCHANGED <<crash_times, open_until>>

(* Mutant of CountCrash: the circuit opens one crash too late.             *)
CountCrashLate ==
    /\ crash_times' = Recent(Append(crash_times, instant))
    /\ IF Len(crash_times') > Threshold
       THEN open_until' = instant + Cooldown /\ slot' = "empty"
       ELSE open_until' = None /\ slot' = "respawning"

(* A crash of a closed circuit: respawn, or open when the threshold is hit.*)
CountCrash ==
    /\ crash_times' = Recent(Append(crash_times, instant))
    /\ IF Len(crash_times') >= Threshold
       THEN open_until' = instant + Cooldown /\ slot' = "empty"
       ELSE open_until' = None /\ slot' = "respawning"

(* record_crash, from spawn_respawn_task and recover_panicked_agent. *)
Crash ==
    /\ slot = "alive"
    /\ CASE open_until = None -> CountCrash
         [] CooledDown        -> HalfOpen
         [] OTHER             -> StaysOpen
    /\ crashes' = Append(crashes, instant)
    /\ UNCHANGED <<instant>>

(* can_refill, from the maintenance tick. *)
Refill ==
    /\ slot = "empty"
    /\ \/ CooledDown /\ HalfOpen
       \/ /\ open_until = None
          /\ slot' = "respawning"
          /\ UNCHANGED <<crash_times, open_until>>
    /\ UNCHANGED <<instant, crashes>>

SpawnSucceeds ==
    /\ slot = "respawning"
    /\ slot' = "alive"
    /\ UNCHANGED <<instant, crash_times, open_until, crashes>>

(* mark_spawn_failed. *)
SpawnFails ==
    /\ slot = "respawning"
    /\ slot' = "empty"
    /\ open_until' = instant + Cooldown
    /\ UNCHANGED <<instant, crash_times, crashes>>

CircuitTick ==
    /\ instant < MaxCircuitTime
    /\ instant' = instant + 1
    /\ UNCHANGED <<crash_times, open_until, slot, crashes>>

CircuitNext == Crash \/ Refill \/ SpawnSucceeds \/ SpawnFails \/ CircuitTick

CircuitSpec == CircuitInit /\ [][CircuitNext]_circuitVars

-----------------------------------------------------------------------------
(* No crash loop: whatever mixture of crashes, failed spawns, probes and   *)
(* refills a slot goes through, its agents crash at most Threshold times   *)
(* in any Window ("Maximum crashes in a 60-second window").                *)
CrashLoopBounded ==
    \A i \in DOMAIN crashes :
        i + Threshold \in DOMAIN crashes =>
            crashes[i + Threshold] - crashes[i] >= Window

=============================================================================
