-------------------------- MODULE WorkflowSchedule --------------------------
(***************************************************************************)
(* The scheduler of buzz-workflow (WorkflowEngine::run in                  *)
(* crates/buzz-workflow/src/lib.rs) for one workflow with an interval      *)
(* trigger, on every relay process that runs it, with the claim table of   *)
(* crates/buzz-db/src/workflow.rs between them. A tick reads the clock     *)
(* once and then makes its calls one by one, each of which may fail; a     *)
(* process may restart at any of them and forgets its anchors; the owner   *)
(* of the workflow may lose the membership at any moment.                  *)
(*                                                                         *)
(* Times are in some unit of which Period is the 60 s of the loop's sleep. *)
(* A tick starts when its sleep ends and takes at most MaxLag. What the    *)
(* run then does, and cron triggers, whose instants need no anchor, are    *)
(* left out.                                                               *)
(***************************************************************************)
EXTENDS Naturals, FiniteSets, FiniteSetsExt

CONSTANTS
    Schedulers,     \* the relay processes
    Interval,       \* the trigger's interval
    Period,         \* the sleep between two ticks
    MaxLag,         \* bound on the duration of a tick
    MaxFaults,      \* bound on the failures and restarts
    MaxScheduleTime \* bound on the clock

ASSUME ScheduleAssumption ==
    /\ Schedulers # {}
    /\ Interval \in Nat \ {0} /\ Period \in Nat \ {0}
    /\ MaxLag \in Nat /\ MaxFaults \in Nat /\ MaxScheduleTime \in Nat

VARIABLES
    wallClock,       \* the time, the same for all
    scheduler,       \* what each process is at: its next tick, or the tick under way
    lastFired,       \* last_fired of each process
    fireClaims,      \* scheduled_workflow_fires: the instants that are claimed
    scheduledRuns,   \* the workflow runs created: the time and the process of their tick,
                     \* and (history) whether the owner had the role when it began
    ownerRole,       \* is the owner a member of the channel, with the role it needs?
    enabled,         \* the workflow's enabled column
    faults           \* how many calls have failed

tenancyVars == <<ownerRole, enabled>>
scheduleVars == <<wallClock, scheduler, lastFired, fireClaims, scheduledRuns, tenancyVars, faults>>

NoAnchor == MaxScheduleTime + 1

Asleep(due) == [at |-> "asleep", due |-> due]

ScheduleInit ==
    /\ wallClock = 0
    /\ scheduler \in [Schedulers -> {Asleep(due) : due \in 1 .. Period}]
    /\ lastFired = [p \in Schedulers |-> NoAnchor]
    /\ fireClaims = {}
    /\ scheduledRuns = {}
    /\ ownerRole = TRUE
    /\ enabled = TRUE
    /\ faults = 0

-----------------------------------------------------------------------------
(* One more call fails. *)
Fault == faults < MaxFaults /\ faults' = faults + 1

Underway(p) == scheduler[p].at # "asleep"

DueNow(p) == ~Underway(p) /\ scheduler[p].due <= wallClock

(* The tick of p ends, and the next sleep begins. *)
SleepAgain(p) == scheduler' = [scheduler EXCEPT ![p] = Asleep(wallClock + Period)]

GoOn(p, at) == scheduler' = [scheduler EXCEPT ![p].at = at]

(* interval_fire_instant: the start of the bucket. *)
FireInstant(t) == (t \div Interval) * Interval

Instant(p) == FireInstant(scheduler[p].tick)

(* interval_should_fire, of an anchor that is there. *)
Elapsed(anchor) == wallClock - anchor >= Interval

(* latest_scheduled_workflow_fire. *)
LatestFire == IF fireClaims = {} THEN NoAnchor ELSE Max(fireClaims)

(* Mutant of Prefilter: no anchor is kept for a workflow that never fired. *)
PrefilterUnseeded(p, anchor) ==
    /\ IF anchor # NoAnchor /\ Elapsed(anchor)
       THEN scheduler' = [scheduler EXCEPT ![p] =
                [at |-> "gate", tick |-> wallClock, may |-> ownerRole]]
       ELSE SleepAgain(p)
    /\ UNCHANGED lastFired

(* interval_prefilter_should_fire, with the anchor from memory or from the *)
(* claims: without one the tick is suppressed and the anchor is now.       *)
Prefilter(p, anchor) ==
    /\ IF anchor # NoAnchor /\ Elapsed(anchor)
       THEN scheduler' = [scheduler EXCEPT ![p] =
                [at |-> "gate", tick |-> wallClock, may |-> ownerRole]]
       ELSE SleepAgain(p)
    /\ lastFired' = IF anchor = NoAnchor THEN [lastFired EXCEPT ![p] = wallClock] ELSE lastFired

(* A tick: the enabled workflows are listed, the anchor is looked up. *)
Tick(p) ==
    /\ DueNow(p) /\ enabled
    /\ Prefilter(p, IF lastFired[p] # NoAnchor THEN lastFired[p] ELSE LatestFire)
    /\ UNCHANGED <<wallClock, fireClaims, scheduledRuns, tenancyVars, faults>>

(* The list fails: nothing happens in this tick. *)
TickFails(p) ==
    /\ DueNow(p) /\ Fault
    /\ SleepAgain(p)
    /\ UNCHANGED <<wallClock, lastFired, fireClaims, scheduledRuns, tenancyVars>>

(* latest_scheduled_workflow_fire fails, which passes for no anchor. *)
AnchorReadFails(p) ==
    /\ DueNow(p) /\ enabled /\ Fault
    /\ lastFired[p] = NoAnchor
    /\ Prefilter(p, NoAnchor)
    /\ UNCHANGED <<wallClock, fireClaims, scheduledRuns, tenancyVars>>

(* The workflow is not listed, and its anchor is pruned. *)
TickDisabled(p) ==
    /\ DueNow(p) /\ ~enabled
    /\ lastFired' = [lastFired EXCEPT ![p] = NoAnchor]
    /\ SleepAgain(p)
    /\ UNCHANGED <<wallClock, fireClaims, scheduledRuns, tenancyVars, faults>>

(* Mutant of CheckOwnerAuthority: to be listed is authority enough. *)
CheckOwnerAuthorityNot(p) ==
    /\ scheduler[p].at = "gate"
    /\ GoOn(p, "claim")
    /\ UNCHANGED <<wallClock, lastFired, fireClaims, scheduledRuns, tenancyVars, faults>>

(* check_owner_authority, before the claim. *)
CheckOwnerAuthority(p) ==
    /\ scheduler[p].at = "gate"
    /\ IF ownerRole THEN GoOn(p, "claim") ELSE SleepAgain(p)
    /\ UNCHANGED <<wallClock, lastFired, fireClaims, scheduledRuns, tenancyVars, faults>>

(* The lookup fails, which denies. *)
AuthorityFails(p) ==
    /\ scheduler[p].at = "gate" /\ Fault
    /\ SleepAgain(p)
    /\ UNCHANGED <<wallClock, lastFired, fireClaims, scheduledRuns, tenancyVars>>

(* Mutant of ClaimFire: the claim is of the tick's own time. *)
ClaimFireNow(p) ==
    /\ scheduler[p].at = "claim"
    /\ scheduler[p].tick \notin fireClaims
    /\ fireClaims' = fireClaims \cup {scheduler[p].tick}
    /\ GoOn(p, "create")
    /\ UNCHANGED <<wallClock, lastFired, scheduledRuns, tenancyVars, faults>>

(* claim_scheduled_workflow_fire, which wins ... *)
ClaimFire(p) ==
    /\ scheduler[p].at = "claim"
    /\ Instant(p) \notin fireClaims
    /\ fireClaims' = fireClaims \cup {Instant(p)}
    /\ GoOn(p, "create")
    /\ UNCHANGED <<wallClock, lastFired, scheduledRuns, tenancyVars, faults>>

(* ... or loses, and waits for the interval all the same. *)
ClaimTaken(p) ==
    /\ scheduler[p].at = "claim"
    /\ Instant(p) \in fireClaims
    /\ lastFired' = [lastFired EXCEPT ![p] = scheduler[p].tick]
    /\ SleepAgain(p)
    /\ UNCHANGED <<wallClock, fireClaims, scheduledRuns, tenancyVars, faults>>

(* It fails, with or without effect. *)
ClaimFails(p, claimed) ==
    /\ scheduler[p].at = "claim" /\ Fault
    /\ fireClaims' = IF claimed THEN fireClaims \cup {Instant(p)} ELSE fireClaims
    /\ SleepAgain(p)
    /\ UNCHANGED <<wallClock, lastFired, scheduledRuns, tenancyVars>>

(* create_workflow_run, attach_scheduled_workflow_run and the anchor. *)
CreateRun(p) ==
    /\ scheduler[p].at = "create"
    /\ scheduledRuns' = scheduledRuns \cup
           {[tick |-> scheduler[p].tick, by |-> p, may |-> scheduler[p].may]}
    /\ lastFired' = [lastFired EXCEPT ![p] = scheduler[p].tick]
    /\ SleepAgain(p)
    /\ UNCHANGED <<wallClock, fireClaims, tenancyVars, faults>>

(* It fails: the claim stays, the anchor does not move. *)
CreateRunFails(p) ==
    /\ scheduler[p].at = "create" /\ Fault
    /\ SleepAgain(p)
    /\ UNCHANGED <<wallClock, lastFired, fireClaims, scheduledRuns, tenancyVars>>

(* The process dies and is started again. *)
Restart(p) ==
    /\ Fault
    /\ lastFired' = [lastFired EXCEPT ![p] = NoAnchor]
    /\ SleepAgain(p)
    /\ UNCHANGED <<wallClock, fireClaims, scheduledRuns, tenancyVars>>

(* The owner is removed, leaves, or loses the role a webhook needs. *)
OwnerLosesRole ==
    /\ ownerRole
    /\ ownerRole' = FALSE
    /\ UNCHANGED <<wallClock, scheduler, lastFired, fireClaims, scheduledRuns, enabled, faults>>

(* disable_departed_member_workflows, at some time after that if at all. *)
DisableWorkflows ==
    /\ ~ownerRole /\ enabled
    /\ enabled' = FALSE
    /\ UNCHANGED <<wallClock, scheduler, lastFired, fireClaims, scheduledRuns, ownerRole, faults>>

(* Time passes: no sleep is overslept, no tick takes longer than MaxLag. *)
PassTime ==
    /\ wallClock < MaxScheduleTime
    /\ \A p \in Schedulers :
          IF Underway(p) THEN wallClock < scheduler[p].tick + MaxLag ELSE ~DueNow(p)
    /\ wallClock' = wallClock + 1
    /\ UNCHANGED <<scheduler, lastFired, fireClaims, scheduledRuns, tenancyVars, faults>>

ScheduleNext ==
    \/ PassTime \/ OwnerLosesRole \/ DisableWorkflows
    \/ \E p \in Schedulers :
          \/ Tick(p) \/ TickFails(p) \/ AnchorReadFails(p) \/ TickDisabled(p)
          \/ CheckOwnerAuthority(p) \/ AuthorityFails(p)
          \/ ClaimFire(p) \/ ClaimTaken(p)
          \/ \E claimed \in BOOLEAN : ClaimFails(p, claimed)
          \/ CreateRun(p) \/ CreateRunFails(p) \/ Restart(p)

ScheduleSpec == ScheduleInit /\ [][ScheduleNext]_scheduleVars

-----------------------------------------------------------------------------
(* "Only one wins and creates the run": no two ticks, of whatever          *)
(* processes and restarts, create a run for the same bucket.               *)
OneRunPerBucket ==
    \A r, s \in scheduledRuns : FireInstant(r.tick) = FireInstant(s.tick) => r = s

(* The schedule keeps up: claims never fall further behind the clock than  *)
(* two intervals and two ticks, and another interval, sleep and tick for   *)
(* every call that failed, as long as the owner may run it: a process that *)
(* restarts before the first fire sleeps, seeds its anchor and waits again *)
(* from there. "Without seeding ... the workflow suppresses forever."      *)
ScheduleKeepsUp ==
    LET last == IF fireClaims = {} THEN 0 ELSE Max(fireClaims)
        tick == Period + MaxLag
    IN ownerRole =>
          wallClock <= last + 2 * (Interval + tick) + faults * (Interval + Period + tick)

(* "A removed owner cannot cause a run": whatever the scheduler had read   *)
(* before, and even if the workflow is never disabled, no tick after the   *)
(* removal leads to a run.                                                 *)
RevokedOwnerNeverFires == \A r \in scheduledRuns : r.may

=============================================================================
