---------------------------- MODULE MCServices ----------------------------
(***************************************************************************)
(* The relay's services that several pods or workers run at once, for TLC: *)
(* huddles, push wakes, scheduled workflows and reads from replicas. They  *)
(* share no variable: a behaviour runs one of them and leaves the others   *)
(* in one initial state.                                                   *)
(***************************************************************************)
EXTENDS HuddleOwnership, PushWakes, WorkflowSchedule, ReplicaFence

VARIABLE focus   \* the part this behaviour runs

Init ==
    /\ HuddleInit /\ PushInit /\ ScheduleInit /\ FenceInit
    /\ focus \in {"huddle", "push", "schedule", "fence"}
    /\ focus # "huddle" => \A c \in Connections : conn[c].pod = CHOOSE p \in Pods : TRUE
    /\ focus # "schedule" => scheduler = [p \in Schedulers |-> Asleep(1)]

Next ==
    \/ /\ focus = "huddle" /\ HuddleNext
       /\ UNCHANGED <<pushVars, scheduleVars, fenceVars, focus>>
    \/ /\ focus = "push" /\ PushNext
       /\ UNCHANGED <<huddleVars, scheduleVars, fenceVars, focus>>
    \/ /\ focus = "schedule" /\ ScheduleNext
       /\ UNCHANGED <<huddleVars, pushVars, fenceVars, focus>>
    \/ /\ focus = "fence" /\ FenceNext
       /\ UNCHANGED <<huddleVars, pushVars, scheduleVars, focus>>

vars == <<huddleVars, pushVars, scheduleVars, fenceVars, focus>>

Spec == Init /\ [][Next]_vars
=============================================================================
