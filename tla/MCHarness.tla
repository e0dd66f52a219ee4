----------------------------- MODULE MCHarness -----------------------------
(***************************************************************************)
(* The parts of buzz-acp that stand beside the main loop, for TLC. They    *)
(* share no variable, so their product would only multiply their states:   *)
(* a behaviour runs one of them and leaves the others in one initial state.*)
(***************************************************************************)
EXTENDS TurnClock, SlotCircuit, PoolLifecycle, RelaySubscriptions

VARIABLE focus   \* the part this behaviour runs

Init ==
    /\ ClockInit /\ CircuitInit /\ LifecycleInit /\ SubscriptionInit
    /\ focus \in {"clock", "circuit", "lifecycle", "subscriptions"}
    /\ focus # "circuit" => slot = "alive"

Next ==
    \/ /\ focus = "clock" /\ ClockNext
       /\ UNCHANGED <<circuitVars, lifecycleVars, subscriptionVars, focus>>
    \/ /\ focus = "circuit" /\ CircuitNext
       /\ UNCHANGED <<clockVars, lifecycleVars, subscriptionVars, focus>>
    \/ /\ focus = "lifecycle" /\ LifecycleNext
       /\ UNCHANGED <<clockVars, circuitVars, subscriptionVars, focus>>
    \/ /\ focus = "subscriptions" /\ SubscriptionNext
       /\ UNCHANGED <<clockVars, circuitVars, lifecycleVars, focus>>

vars == <<clockVars, circuitVars, lifecycleVars, subscriptionVars, focus>>

(* Nothing that is owed a step is enabled in the initial state of its      *)
(* part, so the fairness of a part at rest asks for nothing.               *)
Spec == Init /\ [][Next]_vars /\ LifecycleFairness /\ SubscriptionFairness
=============================================================================
