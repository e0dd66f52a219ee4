---------------------------- MODULE AcpHarness ----------------------------
(***************************************************************************)
(* The buzz-acp harness: the main loop of crates/buzz-acp/src/lib.rs over  *)
(* the EventQueue, the agent pool of pool.rs, the prompt tasks that run    *)
(* concurrently with the loop, the steer requests travelling to a running  *)
(* turn and their acks travelling back, and the respawn of dead agents.    *)
(*                                                                         *)
(* The loop is one thread. pc says where it is: "top" (is maintenance      *)
(* due?), "collect" (taking respawn results), "select" (waiting in the     *)
(* select!), "drain" (drain_ready_join_results, after a result), one of    *)
(* Dispatching (inside dispatch_pending, one flush_next per step, called   *)
(* from an arm of the select!, from maintenance or after a respawn) or     *)
(* "exited". The loop does nothing else until dispatch_pending is over;    *)
(* tasks, steer watchers, respawns and timers interleave with it, as they  *)
(* do in tokio.                                                            *)
(*                                                                         *)
(* next, fate, merged, attempts and faults are history: they record what   *)
(* became of each event and bound the run, and no guard of the code reads  *)
(* them.                                                                   *)
(***************************************************************************)
EXTENDS EventQueue, FiniteSets

CONSTANTS
    Agents,      \* slots of the pool
    NoChannel,   \* channel of a heartbeat task
    NoEvent,     \* an empty steer buffer
    Handling,    \* config.multiple_event_handling
    Timers,      \* periodic arms of the select! the configuration enables:
                 \* "heartbeat", "refresh" (typing, presence, reaper)
    TurnMayOutliveDeadline, \* see TurnClock: can a live turn be expired?
    MaxFaults    \* bound on failed turns, panics, failed respawns, commands

ASSUME HarnessAssumption ==
    /\ IsFiniteSet(Agents)
    /\ NoChannel \notin Channels
    /\ NoEvent \notin Events
    /\ Handling \in {"Queue", "Steer", "Interrupt", "OwnerInterrupt"}
    /\ Timers \subseteq {"heartbeat", "refresh"}
    /\ TurnMayOutliveDeadline \in BOOLEAN
    /\ MaxFaults \in Nat

VARIABLES
    q,          \* EventQueue
    idle,       \* slots of AgentPool.agents that hold an agent
    task,       \* task_map with what the task knows, by agent index
    acks,       \* SteerAckEvents posted by the watchers, not yet received
    circuit,    \* open_until of each SlotCircuit
    respawn_in_flight,  \* the flag of each SlotCircuit
    spawning,   \* respawn tasks running for each slot
    respawn_rx, \* RespawnResults posted and not yet collected
    removed_channels,
    heartbeat_in_flight,
    pc,
    next, fate, merged, attempts, faults

poolVars == <<idle, circuit, respawn_in_flight, spawning, respawn_rx>>
history  == <<next, fate, merged, attempts, faults>>
vars == <<q, idle, task, acks, circuit, respawn_in_flight, spawning, respawn_rx,
          removed_channels, heartbeat_in_flight, pc,
          next, fate, merged, attempts, faults>>

(* ControlSignal: Rotate discards the batch as Cancel does, SwitchModel    *)
(* keeps it as Interrupt does.                                             *)
Signal == {"Steer", "Interrupt", "Cancel"}

(* PromptOutcome, by what handle_prompt_result does with it:               *)
(*   Fatal         AgentExited, Timeout(Idle), Timeout(Hard, recently      *)
(*                 active), transport-class Error: requeue and respawn     *)
(*   HardSilent    Timeout(Hard, not recently active): dead-letter,        *)
(*                 respawn                                                 *)
(*   AppError      any other Error: requeue, agent returned                *)
(*   NonRetryable  InvalidRequest or an auth error: dead-letter, returned  *)
Outcome == {"Ok", "Cancelled", "CancelDrainTimeout", "Fatal", "HardSilent",
            "AppError", "NonRetryable"}

Ack == {"Success", "NotLanded", "Released"}

Fate == {"unseen", "live", "processed", "steered", "deadLettered", "overflow",
         "removed", "stopped", "dropped"}

NoBatch == [events |-> << >>, cancelled |-> << >>, reason |-> NoReason]

(* A task_map entry with what its task knows: the batch, whether its       *)
(* control_tx was used and for what, the steer waiting in the one-slot     *)
(* channel and the one written to the agent, how the turn ended, and       *)
(* whether the result carries the batch back. state "none": no entry.      *)
Task ==
    [ch      : Channels \cup {NoChannel},
     batch   : FlushBatch,
     control : Signal \cup {"open"},
     buf     : Events \cup {NoEvent},
     pend    : Events \cup {NoEvent},
     state   : Outcome \cup {"none", "running", "panicked"},
     ret     : BOOLEAN]

NewTask(ch, b) ==
    [ch |-> ch, batch |-> b, control |-> "open", buf |-> NoEvent,
     pend |-> NoEvent, state |-> "running", ret |-> FALSE]

NoTask == [NewTask(NoChannel, NoBatch) EXCEPT !.state = "none"]

Busy == {a \in Agents : task[a].state # "none"}

On(ch) == {a \in Busy : task[a].ch = ch}

BatchEvents(b) == Range(b.events) \cup Range(b.cancelled)

Settle(f, S, why) ==
    [e \in Events |-> IF e \in S /\ f[e] = "live" THEN why ELSE f[e]]

ExpireOverflow(qq) ==
    UNION {PutBackOverflow(qq[ch], qq[ch].withheld) :
              ch \in {d \in Channels : qq[d].deadline = "elapsed"}}

(* initialize_agent_pool: a partial pool is valid, an empty one is not. *)
StartedPool == (SUBSET Agents) \ {{}}

Init ==
    /\ q = [ch \in Channels |-> EmptyChannel]
    /\ idle \in StartedPool
    /\ task = [a \in Agents |-> NoTask]
    /\ acks = {}
    /\ circuit = [a \in Agents |-> "unset"]
    /\ respawn_in_flight = [a \in Agents |-> FALSE]
    /\ spawning = [a \in Agents |-> 0]
    /\ respawn_rx = << >>
    /\ removed_channels = {}
    /\ heartbeat_in_flight = FALSE
    /\ pc = "top"
    /\ next = 1
    /\ fate = [e \in Events |-> "unseen"]
    /\ merged = {}
    /\ attempts = [e \in Events |-> 0]
    /\ faults = 0

-----------------------------------------------------------------------------
(* The relay arm of the select!.                                           *)

(* mode_gate_signal; whether an author is the owner is the event's choice. *)
ModeGateSignal ==
    CASE Handling = "Queue"          -> {"none"}
      [] Handling = "Steer"          -> {"Steer"}
      [] Handling = "Interrupt"      -> {"Interrupt"}
      [] Handling = "OwnerInterrupt" -> {"Interrupt", "none"}

(* signal_in_flight_task: a task's control_tx is taken by the first signal *)
(* and later ones find nothing to send on.                                 *)
SignalInFlightTask(ch, s) ==
    \/ /\ On(ch) = {}
       /\ UNCHANGED task
    \/ \E a \in On(ch) :
          task' = [task EXCEPT ![a].control = IF @ = "open" THEN s ELSE @]

(* send_steer's try_send succeeds while the read loop holds its receiver   *)
(* and the one-slot buffer is free. The receiver may already be gone: an   *)
(* initial_message or a cancel drain took it.                              *)
SteerAccepted(a) == task[a].state = "running" /\ task[a].buf = NoEvent

(* push, then the mode gate. try_native_steer withholds the event if the   *)
(* read loop takes the request; otherwise the signal cancels the turn.     *)
RelayEvent(ch) ==
    /\ pc = "select"
    /\ next \in Events
    /\ LET c == q[ch]
           pushed == Push(c, next)
       IN
       IF Accepts(c)
       THEN /\ fate' = [Settle(fate, PushOverflow(c), "overflow") EXCEPT ![next] = "live"]
            /\ \/ /\ ~InFlight(c) \/ "none" \in ModeGateSignal
                  /\ q' = [q EXCEPT ![ch] = pushed]
                  /\ UNCHANGED task
               \/ /\ InFlight(c)
                  /\ "Steer" \in ModeGateSignal
                  /\ \E a \in On(ch) :
                        /\ SteerAccepted(a)
                        /\ task' = [task EXCEPT ![a].buf = next]
                  /\ q' = [q EXCEPT ![ch] = MarkNativeSteerPending(pushed, next)]
               \/ /\ InFlight(c)
                  /\ q' = [q EXCEPT ![ch] = pushed]
                  /\ \E s \in ModeGateSignal \ {"none"} : SignalInFlightTask(ch, s)
       ELSE /\ fate' = [fate EXCEPT ![next] = "dropped"]
            /\ UNCHANGED <<q, task>>
    /\ next' = next + 1
    /\ pc' = "dispatch"
    /\ UNCHANGED <<poolVars, acks, removed_channels, heartbeat_in_flight,
                   merged, attempts, faults>>

(* What the observer's cancel_turn and switch_model frames send to a turn. *)
(* (On an idle channel switch_model changes the model of an idle agent,    *)
(* which is not modelled.)                                                 *)
CommandSignal == {"Cancel", "Interrupt"}

(* The owner's !cancel and !rotate, which send Cancel, and the observer's  *)
(* frames: consumed, never queued, and without a dispatch.                 *)
OwnerCommand(ch, s) ==
    /\ pc = "select"
    /\ faults < MaxFaults
    /\ faults' = faults + 1
    /\ SignalInFlightTask(ch, s)
    /\ pc' = "top"
    /\ UNCHANGED <<q, poolVars, acks, removed_channels, heartbeat_in_flight,
                   next, fate, merged, attempts>>

ChannelRemoved(ch) ==
    /\ pc = "select"
    /\ faults < MaxFaults
    /\ faults' = faults + 1
    /\ q' = [q EXCEPT ![ch] = DrainChannel(@)]
    /\ removed_channels' = removed_channels \cup {ch}
    /\ fate' = Settle(fate, Held(q[ch]), "removed")
    /\ attempts' = [e \in Events |-> IF \E a \in On(ch) : e \in BatchEvents(task[a].batch)
                                     THEN 0 ELSE attempts[e]]
    /\ pc' = "top"
    /\ UNCHANGED <<poolVars, task, acks, heartbeat_in_flight, next, merged>>

ChannelAdded(ch) ==
    /\ pc = "select"
    /\ ch \in removed_channels
    /\ removed_channels' = removed_channels \ {ch}
    /\ pc' = "top"
    /\ UNCHANGED <<q, poolVars, task, acks, heartbeat_in_flight, history>>

-----------------------------------------------------------------------------
(* dispatch_pending, one iteration of its loop per step. try_claim prefers *)
(* an agent that holds a session for the channel; which idle agent that is *)
(* matters to no property here, so any may be claimed.                     *)

Dispatching == {"dispatch", "dispatchMaintenance", "dispatchRespawned"}

(* Where the loop goes on after dispatch_pending. *)
AfterDispatch ==
    CASE pc = "dispatch"            -> "top"
      [] pc = "dispatchMaintenance" -> "collect"
      [] pc = "dispatchRespawned"   -> "select"

DispatchNothing ==
    /\ pc \in Dispatching
    /\ FlushChoices(ExpireAll(q)) = {}
    /\ q' = ExpireAll(q)
    /\ fate' = Settle(fate, ExpireOverflow(q), "overflow")
    /\ pc' = AfterDispatch
    /\ UNCHANGED <<poolVars, task, acks, removed_channels, heartbeat_in_flight,
                   next, merged, attempts, faults>>

DispatchBatch(ch, a) ==
    /\ pc \in Dispatching
    /\ ch \in FlushChoices(ExpireAll(q))
    /\ a \in idle
    /\ \E b \in FlushBatches(ExpireAll(q)[ch]) :
          /\ task' = [task EXCEPT ![a] = NewTask(ch, b)]
          /\ merged' = merged \cup Range(b.cancelled)
    /\ q' = [ExpireAll(q) EXCEPT ![ch] = Flushed(@)]
    /\ idle' = idle \ {a}
    /\ fate' = Settle(fate, ExpireOverflow(q), "overflow")
    /\ UNCHANGED <<circuit, respawn_in_flight, spawning, respawn_rx, acks,
                   removed_channels, heartbeat_in_flight, pc, next, attempts, faults>>

(* No idle agent: the batch goes back and the loop breaks. Only its events *)
(* do: requeue_preserve_timestamps does not look at cancelled_events.      *)
PoolExhausted(ch) ==
    /\ pc \in Dispatching
    /\ ch \in FlushChoices(ExpireAll(q))
    /\ idle = {}
    /\ \E b \in FlushBatches(ExpireAll(q)[ch]) :
          LET c == Flushed(ExpireAll(q)[ch]) IN
          /\ q' = [ExpireAll(q) EXCEPT
                      ![ch] = MarkComplete(RequeuePreserveTimestamps(c, b))]
          /\ merged' = merged \cup Range(b.cancelled)
          /\ fate' = Settle(fate, ExpireOverflow(q) \cup PutBackOverflow(c, b.events),
                            "overflow")
    /\ pc' = AfterDispatch
    /\ UNCHANGED <<poolVars, task, acks, removed_channels, heartbeat_in_flight,
                   next, attempts, faults>>

-----------------------------------------------------------------------------
(* Prompt tasks and the read loop of a turn, concurrent with the main loop.*)

(* Mutant of Post: a turn that ends forgets the steer it had written.      *)
PostBufferOnly(a, evs, k) ==
    {[ch |-> task[a].ch, ev |-> e, ack |-> k] :
        e \in evs \ (IF k = "Released" THEN {NoEvent, task[a].pend} ELSE {NoEvent})}

Post(a, evs, k) ==
    {[ch |-> task[a].ch, ev |-> e, ack |-> k] : e \in evs \ {NoEvent}}

(* The read loop takes the buffered request: it writes it to the agent, or *)
(* reports that it could not be sent.                                      *)
SteerTaken(a) ==
    /\ task[a].state = "running" /\ task[a].buf # NoEvent /\ task[a].pend = NoEvent
    /\ \/ /\ task' = [task EXCEPT ![a].pend = task[a].buf, ![a].buf = NoEvent]
          /\ UNCHANGED acks
       \/ /\ task' = [task EXCEPT ![a].buf = NoEvent]
          /\ acks' = acks \cup Post(a, {task[a].buf}, "NotLanded")
    /\ UNCHANGED <<q, poolVars, removed_channels, heartbeat_in_flight, pc, history>>

SteerAnswered(a, k) ==
    /\ task[a].state = "running" /\ task[a].pend # NoEvent
    /\ task' = [task EXCEPT ![a].pend = NoEvent]
    /\ acks' = acks \cup Post(a, {task[a].pend}, k)
    /\ UNCHANGED <<q, poolVars, removed_channels, heartbeat_in_flight, pc, history>>

(* Whether a task hands its batch back, requeue_batch_if_queue: not after  *)
(* success and not in Drop mode, an invalid request excepted (an auth      *)
(* error, the other NonRetryable outcome, is not).                         *)
Returns(t, outcome) ==
    LET failed == t.ch # NoChannel /\ outcome # "Ok" IN
    {failed /\ DedupMode = "Queue",
     failed /\ (DedupMode = "Queue" \/ outcome = "NonRetryable")}

(* Mutant of ControlCancelReturns: a turn stopped by Cancel returns its    *)
(* batch too.                                                              *)
AnyCancelReturns(t) == DedupMode = "Queue"

(* requeue_cancelled_batch: nothing for a turn stopped by Cancel. *)
ControlCancelReturns(t) ==
    DedupMode = "Queue" /\ t.control \in {"Steer", "Interrupt"}

(* An event with an invalid execution request, or a session that cannot be *)
(* created, ends the turn before anything is prompted.                     *)
EndsByRejection == {"NonRetryable"}

EndsInSetup == {"Fatal", "AppError", "NonRetryable"}

(* So does an initial_message that fails or times out.                     *)
EndsInInitialMessage == {"Fatal", "HardSilent", "AppError", "NonRetryable"}

(* The control signal came after the answer: the turn counts as completed, *)
(* or fails when the completion was not kept.                              *)
EndsBeforeControl == {"Ok", "Fatal"}

(* The prompt returned. *)
EndsInPrompt == {"Ok", "Fatal", "HardSilent", "AppError", "NonRetryable"}

EndsByItself ==
    EndsByRejection \cup EndsInSetup \cup EndsInInitialMessage
        \cup EndsBeforeControl \cup EndsInPrompt

(* The control signal cancels the prompt: a clean drain, a drain timeout,  *)
(* or the failures classify_control_cancel_failure lets through.           *)
EndsByControl == {"Cancelled", "CancelDrainTimeout", "Fatal", "AppError"}

(* send_prompt_result. Either way the receiver is dropped, and every steer *)
(* it still held is released.                                              *)
TaskEnds(a, outcome, byControl) ==
    /\ task[a].state = "running"
    /\ IF byControl
       THEN task[a].control \in Signal /\ outcome \in EndsByControl
       ELSE outcome \in EndsByItself
    /\ IF outcome \in {"Ok", "Cancelled"}
       THEN UNCHANGED faults
       ELSE faults < MaxFaults /\ faults' = faults + 1
    /\ \E ret \in IF byControl THEN {ControlCancelReturns(task[a])}
                 ELSE Returns(task[a], outcome) :
          task' = [task EXCEPT ![a].state = outcome, ![a].ret = ret,
                               ![a].buf = NoEvent, ![a].pend = NoEvent]
    /\ acks' = acks \cup Post(a, {task[a].buf, task[a].pend}, "Released")
    /\ UNCHANGED <<q, poolVars, removed_channels, heartbeat_in_flight, pc,
                   next, fate, merged, attempts>>

TaskPanics(a) ==
    /\ task[a].state = "running"
    /\ faults < MaxFaults
    /\ faults' = faults + 1
    /\ task' = [task EXCEPT ![a].state = "panicked",
                            ![a].buf = NoEvent, ![a].pend = NoEvent]
    /\ acks' = acks \cup Post(a, {task[a].buf, task[a].pend}, "Released")
    /\ UNCHANGED <<q, poolVars, removed_channels, heartbeat_in_flight, pc,
                   next, fate, merged, attempts>>

-----------------------------------------------------------------------------
(* Results and panics, on the main loop.                                   *)

(* SlotCircuit.record_crash, its crash history abstracted to a choice (see *)
(* SlotCircuit for the window): a closed circuit respawns or opens, an     *)
(* open one stays open, one whose cooldown has elapsed allows one probe.   *)
RecordCrash(a) ==
    \/ /\ circuit[a] # "running"
       /\ circuit' = [circuit EXCEPT ![a] = "unset"]
       /\ respawn_in_flight' = [respawn_in_flight EXCEPT ![a] = TRUE]
       /\ spawning' = [spawning EXCEPT ![a] = @ + 1]
    \/ /\ circuit[a] # "elapsed"
       /\ circuit' = [circuit EXCEPT ![a] = "running"]
       /\ UNCHANGED <<respawn_in_flight, spawning>>

(* live_count() == 0 && !any_respawn_in_flight, after the step. *)
AllAgentsDead ==
    /\ idle' = {}
    /\ Busy' = {}
    /\ \A a \in Agents : ~respawn_in_flight'[a]

(* The channel's record after handle_prompt_result's requeue branch. *)
AfterResult(c, t) ==
    CASE ~t.ret \/ t.ch \in removed_channels -> c
      [] OTHER ->
           CASE t.state \in {"Cancelled", "CancelDrainTimeout"} ->
                    RequeueAsCancelled(c, t.batch, t.control)
             [] t.state \in {"HardSilent", "NonRetryable"} -> c
             [] OTHER -> Requeue(c, t.batch)

(* What the result says of the batch's events, for the history. *)
ResultFate(c, t) ==
    LET all == BatchEvents(t.batch) IN
    IF ~t.ret
    THEN Settle(fate, all, IF t.state = "Ok" THEN "processed"
                           ELSE IF t.control = "Cancel" THEN "stopped" ELSE "dropped")
    ELSE IF t.ch \in removed_channels
    THEN Settle(fate, all, "removed")
    ELSE IF t.state \in {"Cancelled", "CancelDrainTimeout"}
    THEN fate
    ELSE IF t.state \in {"HardSilent", "NonRetryable"} \/ Exhausted(c)
    THEN Settle(fate, all, "deadLettered")
    ELSE Settle(fate, PutBackOverflow(c, t.batch.events), "overflow")

(* Failed turns in a row, for the history: a cancel starts a new count.    *)
CountAttempts(t) ==
    [e \in Events |->
        IF e \notin BatchEvents(t.batch) THEN attempts[e]
        ELSE IF t.state \in {"Fatal", "AppError", "panicked"} THEN attempts[e] + 1
        ELSE 0]

(* The batch is put back first: mark_complete looks at the throttle.       *)
Completed(c, t) == MarkComplete(AfterResult(c, t))

(* What both handlers do with the queue and the heartbeat flag.            *)
EndTurn(t) ==
    IF t.ch = NoChannel
    THEN /\ heartbeat_in_flight' = FALSE
         /\ UNCHANGED <<q, fate, attempts>>
    ELSE /\ q' = [q EXCEPT ![t.ch] = Completed(@, t)]
         /\ fate' = ResultFate(q[t.ch], t)
         /\ attempts' = CountAttempts(t)
         /\ UNCHANGED heartbeat_in_flight

(* handle_prompt_result: the batch, mark_complete, and then the agent goes *)
(* back to its slot or is respawned.                                       *)
HandlePromptResult(a) ==
    /\ pc = "select"
    /\ task[a].state \in Outcome
    /\ LET t == task[a] IN
       /\ EndTurn(t)
       /\ task' = [task EXCEPT ![a] = NoTask]
       /\ IF t.state \in {"Ok", "Cancelled", "AppError", "NonRetryable"}
          THEN /\ idle' = idle \cup {a}
               /\ pc' = "drain"
               /\ UNCHANGED <<circuit, respawn_in_flight, spawning>>
          ELSE /\ RecordCrash(a)
               /\ UNCHANGED idle
               /\ pc' = IF AllAgentsDead THEN "exited" ELSE "drain"
    /\ UNCHANGED <<respawn_rx, acks, removed_channels, next, merged, faults>>

(* recover_panicked_agent requeues the copy kept in the task_map.          *)
RecoverPanickedAgent(a) ==
    /\ pc \in {"select", "drain"}
    /\ task[a].state = "panicked"
    /\ LET t == [task[a] EXCEPT !.ret = (DedupMode = "Queue")] IN
       /\ EndTurn(t)
       /\ task' = [task EXCEPT ![a] = NoTask]
       /\ RecordCrash(a)
       /\ UNCHANGED idle
       /\ pc' = IF AllAgentsDead THEN "exited"
                ELSE IF pc = "select" THEN "dispatch" ELSE "drain"
    /\ UNCHANGED <<respawn_rx, acks, removed_channels, next, merged, faults>>

DrainReadyJoinResults ==
    /\ pc = "drain"
    /\ \A a \in Busy : task[a].state # "panicked"
    /\ pc' = "dispatch"
    /\ UNCHANGED <<q, poolVars, task, acks, removed_channels, heartbeat_in_flight, history>>

-----------------------------------------------------------------------------
(* The SteerAck arm. Success drops the withheld event and renews the       *)
(* in-flight deadline; NotLanded (Transport, ExpectedRunIdMissing,         *)
(* OutcomeRejected, method_not_found) releases it and falls back to        *)
(* cancel+merge; Released (any other AgentError, PromptCompletedNeutral, a *)
(* dropped oneshot) only releases it.                                      *)
HandleSteerAck(m) ==
    /\ pc = "select"
    /\ m \in acks
    /\ acks' = acks \ {m}
    /\ LET c == q[m.ch] IN
       IF m.ack = "Success"
       THEN /\ q' = [q EXCEPT ![m.ch] = RemoveEvent(ExtendInFlightDeadline(@), m.ev)]
            /\ fate' = Settle(fate, {m.ev} \cap (Range(c.pending) \cup Range(c.withheld)),
                              "steered")
            /\ UNCHANGED task
       ELSE /\ q' = [q EXCEPT ![m.ch] = ReleaseNativeSteer(@, m.ev)]
            /\ fate' = Settle(fate,
                          IF m.ev \in Range(c.withheld) THEN PutBackOverflow(c, <<m.ev>>)
                          ELSE {}, "overflow")
            /\ IF m.ack = "NotLanded" THEN SignalInFlightTask(m.ch, "Steer")
               ELSE UNCHANGED task
    /\ pc' = "dispatch"
    /\ UNCHANGED <<poolVars, removed_channels, heartbeat_in_flight,
                   next, merged, attempts, faults>>

-----------------------------------------------------------------------------
(* Heartbeat, maintenance and respawn.                                     *)

(* An idle agent gets the heartbeat, unless the last one is still running. *)
DispatchHeartbeat ==
    IF heartbeat_in_flight
    THEN UNCHANGED <<idle, task, heartbeat_in_flight>>
    ELSE /\ \E a \in idle :
               /\ idle' = idle \ {a}
               /\ task' = [task EXCEPT ![a] = NewTask(NoChannel, NoBatch)]
         /\ heartbeat_in_flight' = TRUE

(* Queued work comes first. *)
HeartbeatTick ==
    /\ pc = "select"
    /\ "heartbeat" \in Timers
    /\ q' = ExpireAll(q)
    /\ fate' = Settle(fate, ExpireOverflow(q), "overflow")
    /\ IF HasFlushableWork(ExpireAll(q))
       THEN /\ pc' = "dispatch"
            /\ UNCHANGED <<idle, task, heartbeat_in_flight>>
       ELSE /\ pc' = "top"
            /\ IF idle # {} THEN DispatchHeartbeat
               ELSE UNCHANGED <<idle, task, heartbeat_in_flight>>
    /\ UNCHANGED <<circuit, respawn_in_flight, spawning, respawn_rx, acks,
                   removed_channels, next, merged, attempts, faults>>

(* The typing, presence and inactivity arms touch nothing modelled here,   *)
(* but they make the loop go round. (The inactivity arm can also end the   *)
(* process when no turn has run for the bound; that exit is left out.)     *)
RefreshTick ==
    /\ pc = "select"
    /\ "refresh" \in Timers
    /\ pc' = "top"
    /\ UNCHANGED <<q, poolVars, task, acks, removed_channels, heartbeat_in_flight, history>>

SlotAlive(a) == a \in idle \/ a \in Busy

(* Mutant of Refillable: a slot whose respawn is under way is refilled.    *)
RefillableTwice == {a \in Agents : ~SlotAlive(a) /\ circuit[a] # "running"}

(* can_refill: the circuit is closed, or its cooldown has elapsed. *)
Refillable ==
    {a \in Agents : ~SlotAlive(a) /\ ~respawn_in_flight[a] /\ circuit[a] # "running"}

(* Mutant of WorkIsDue: maintenance compacts and refills, and leaves the   *)
(* queue to the next event.                                                *)
WorkIsNeverDue(qq) == FALSE

WorkIsDue(qq) == HasFlushableWork(qq)

(* Every 30 seconds, at the top of an iteration.                           *)
Maintenance ==
    /\ pc = "top"
    /\ LET compacted == [ch \in Channels |-> CompactExpiredState(q[ch])] IN
       /\ q' = ExpireAll(compacted)
       /\ pc' = IF WorkIsDue(ExpireAll(compacted)) THEN "dispatchMaintenance" ELSE "collect"
    /\ fate' = Settle(fate, ExpireOverflow(q), "overflow")
    /\ circuit' = [a \in Agents |-> IF a \in Refillable THEN "unset" ELSE circuit[a]]
    /\ respawn_in_flight' =
          [a \in Agents |-> a \in Refillable \/ respawn_in_flight[a]]
    /\ spawning' = [a \in Agents |-> spawning[a] + (IF a \in Refillable THEN 1 ELSE 0)]
    /\ UNCHANGED <<idle, task, respawn_rx, acks, removed_channels,
                   heartbeat_in_flight, next, merged, attempts, faults>>

(* A respawn task ends. RespawnGuard posts exactly one result, a panic of  *)
(* the task included.                                                      *)
RespawnEnds(a, ok) ==
    /\ spawning[a] > 0
    /\ IF ok THEN UNCHANGED faults ELSE faults < MaxFaults /\ faults' = faults + 1
    /\ spawning' = [spawning EXCEPT ![a] = @ - 1]
    /\ respawn_rx' = Append(respawn_rx, [agent |-> a, ok |-> ok])
    /\ UNCHANGED <<q, idle, task, acks, circuit, respawn_in_flight, removed_channels,
                   heartbeat_in_flight, pc, next, fate, merged, attempts>>

MaintenanceNotDue ==
    /\ pc = "top"
    /\ pc' = "collect"
    /\ UNCHANGED <<q, poolVars, task, acks, removed_channels, heartbeat_in_flight, history>>

(* The try_recv loop takes everything posted so far. What is posted later  *)
(* waits for the next iteration: respawn_rx is no arm of the select!.      *)
CollectRespawns ==
    /\ pc = "collect"
    /\ LET results == Range(respawn_rx)
           back == {r.agent : r \in {s \in results : s.ok}}
           dead == {r.agent : r \in {s \in results : ~s.ok}}
       IN
       /\ respawn_in_flight' =
             [a \in Agents |-> respawn_in_flight[a] /\ a \notin back \cup dead]
       /\ idle' = idle \cup back
       /\ circuit' = [a \in Agents |-> IF a \in dead THEN "running" ELSE circuit[a]]
       /\ pc' = IF back # {} THEN "dispatchRespawned" ELSE "select"
    /\ respawn_rx' = << >>
    /\ UNCHANGED <<q, task, acks, spawning, removed_channels, heartbeat_in_flight, history>>

-----------------------------------------------------------------------------
(* The clock.                                                              *)

RetryElapses(ch) ==
    /\ q[ch].retry = "running"
    /\ q' = [q EXCEPT ![ch].retry = "elapsed"]
    /\ UNCHANGED <<poolVars, task, acks, removed_channels, heartbeat_in_flight, pc, history>>

(* The backstop is longer than a turn: it passes under a live turn only    *)
(* where TurnMayOutliveDeadline says that it can.                          *)
DeadlineElapses(ch) ==
    /\ q[ch].deadline = "running"
    /\ TurnMayOutliveDeadline
    /\ q' = [q EXCEPT ![ch].deadline = "elapsed"]
    /\ UNCHANGED <<poolVars, task, acks, removed_channels, heartbeat_in_flight, pc, history>>

CooldownElapses(a) ==
    /\ circuit[a] = "running"
    /\ circuit' = [circuit EXCEPT ![a] = "elapsed"]
    /\ UNCHANGED <<q, idle, task, acks, respawn_in_flight, spawning, respawn_rx,
                   removed_channels, heartbeat_in_flight, pc, history>>

(* The process has left its loop. *)
Exited == pc = "exited" /\ UNCHANGED vars

MainLoop ==
    \/ \E ch \in Channels : RelayEvent(ch) \/ ChannelRemoved(ch) \/ ChannelAdded(ch)
    \/ \E ch \in Channels, s \in CommandSignal : OwnerCommand(ch, s)
    \/ DispatchNothing
    \/ \E ch \in Channels : PoolExhausted(ch) \/ \E a \in Agents : DispatchBatch(ch, a)
    \/ \E a \in Agents : HandlePromptResult(a) \/ RecoverPanickedAgent(a)
    \/ DrainReadyJoinResults
    \/ \E m \in acks : HandleSteerAck(m)
    \/ HeartbeatTick \/ RefreshTick
    \/ Maintenance \/ MaintenanceNotDue \/ CollectRespawns

Tasks ==
    /\ pc # "exited"
    /\ \/ \E a \in Agents : SteerTaken(a) \/ \E k \in Ack : SteerAnswered(a, k)
       \/ \E a \in Agents, o \in Outcome, byControl \in BOOLEAN : TaskEnds(a, o, byControl)
       \/ \E a \in Agents : TaskPanics(a) \/ \E ok \in BOOLEAN : RespawnEnds(a, ok)

Clock ==
    /\ pc # "exited"
    /\ \/ \E ch \in Channels : RetryElapses(ch) \/ DeadlineElapses(ch)
       \/ \E a \in Agents : CooldownElapses(a)

Next == MainLoop \/ Tasks \/ Clock \/ Exited

Spec == Init /\ [][Next]_vars

-----------------------------------------------------------------------------
(* Type invariant: every variable of the harness holds a value of the kind *)
(* its Rust counterpart can hold.                                          *)
TypeOK ==
    /\ q \in [Channels -> Channel]
    /\ idle \subseteq Agents
    /\ task \in [Agents -> Task]
    /\ acks \subseteq [ch : Channels, ev : Events, ack : Ack]
    /\ circuit \in [Agents -> Timer]
    /\ respawn_in_flight \in [Agents -> BOOLEAN]
    /\ spawning \in [Agents -> Nat]
    /\ respawn_rx \in Seq([agent : Agents, ok : BOOLEAN])
    /\ removed_channels \subseteq Channels
    /\ heartbeat_in_flight \in BOOLEAN
    /\ pc \in Dispatching \cup {"top", "collect", "select", "drain", "exited"}
    /\ next \in Nat
    /\ fate \in [Events -> Fate]
    /\ merged \subseteq Events
    /\ attempts \in [Events -> Nat]
    /\ faults \in Nat

(* "Per-channel in-flight enforcement" (queue.rs): two turns never run on  *)
(* one channel at a time.                                                  *)
OneTurnPerChannel ==
    \A a, b \in Busy : task[a].ch = task[b].ch => a = b

(* in_flight_channels and the task_map agree at every step of the loop: a  *)
(* channel is in flight exactly while a task runs for it, so it is neither *)
(* wedged without a task nor open to a second one. The heartbeat flag and  *)
(* the heartbeat task agree in the same way.                               *)
InFlightMatchesTasks ==
    /\ \A ch \in Channels : InFlight(q[ch]) <=> On(ch) # {}
    /\ heartbeat_in_flight <=> On(NoChannel) # {}

Posted(a) == {i \in DOMAIN respawn_rx : respawn_rx[i].agent = a}

(* A slot is in one place: idle in the pool, checked out by one task, or   *)
(* being respawned ("BUG: return_agent called for slot ... which is        *)
(* already occupied" never happens), and an open circuit belongs to an     *)
(* empty slot only. respawn_in_flight says exactly when a respawn task     *)
(* runs or its result waits, and there is at most one, which is what lets  *)
(* RespawnGuard::send use try_send on a channel as long as the pool.       *)
SlotExclusive ==
    \A a \in Agents :
        /\ ~(a \in idle /\ a \in Busy)
        /\ SlotAlive(a) \/ circuit[a] # "unset" => ~respawn_in_flight[a]
        /\ SlotAlive(a) => circuit[a] = "unset"
        /\ spawning[a] <= 1
        /\ respawn_in_flight[a] <=> spawning[a] = 1 \/ Posted(a) # {}
        /\ Posted(a) # {} => spawning[a] = 0
        /\ \A i, j \in Posted(a) : i = j

(* The events a task's turn still holds. *)
TaskHeld(a) == BatchEvents(task[a].batch)

Placed(e) ==
    \/ \E ch \in Channels : e \in Held(q[ch])
    \/ \E a \in Busy : e \in TaskHeld(a)

(* An accepted event is never dropped on the floor: until its fate is      *)
(* settled it waits in a queue map or sits in the batch of a task. Events  *)
(* that were once merged as cancelled_events are the exception this code   *)
(* has (see NoEventLost).                                                  *)
UnmergedEventsKept ==
    \A e \in Events : fate[e] = "live" /\ e \notin merged => Placed(e)

(* requeue "prevents event loss when session creation or session/prompt    *)
(* fails transiently" (queue.rs), and a cancelled batch "must survive"     *)
(* (lib.rs): no accepted event disappears without a settled fate.          *)
NoEventLost == \A e \in Events : fate[e] = "live" => Placed(e)

(* "Maximum events queued per channel before oldest events are dropped"    *)
(* (queue.rs): whatever is pushed, put back after a failure or by an       *)
(* exhausted pool, released from a steer or recovered from an expired      *)
(* channel, no queue grows past its cap.                                   *)
QueuesBounded == \A ch \in Channels : Len(q[ch].pending) <= MaxPending

(* No event is in two places at once, and a settled event is in none: it   *)
(* cannot be prompted again after it was processed, steered in, or dead-   *)
(* lettered, nor delivered twice by two routes.                            *)
NoDuplicateDelivery ==
    /\ \A ch, d \in Channels : ch # d => Held(q[ch]) \cap Held(q[d]) = {}
    /\ \A a, b \in Busy : a # b => TaskHeld(a) \cap TaskHeld(b) = {}
    /\ \A ch \in Channels, a \in Busy : Held(q[ch]) \cap TaskHeld(a) = {}
    /\ \A ch \in Channels :
          /\ Range(q[ch].pending) \cap Range(q[ch].withheld) = {}
          /\ Range(q[ch].pending) \cap Range(q[ch].cancelled) = {}
          /\ Cardinality(Range(q[ch].pending)) = Len(q[ch].pending)
    /\ \A e \in Events : Placed(e) => fate[e] = "live"

(* An event withheld for a native steer always has an ack on its way: its  *)
(* request is in the task's buffer or pending in the read loop, or the ack *)
(* is posted. Otherwise nothing but the in-flight expiry would ever give   *)
(* it back, and a channel that is not in flight has no expiry.             *)
WithheldAwaitsAck ==
    \A ch \in Channels : \A e \in Range(q[ch].withheld) :
        \/ \E a \in On(ch) : e \in {task[a].buf, task[a].pend}
        \/ \E m \in acks : m.ch = ch /\ m.ev = e

(* A steer the agent accepted is never prompted as well: while its Success *)
(* ack is on the way, and after, the event is in no queue that flush_next  *)
(* reads and in no batch. This is the race the side table                  *)
(* withheld_native_steer closes (result first, ack second).                *)
SteeredNeverPrompted ==
    \A m \in acks : m.ack = "Success" =>
        /\ \A ch \in Channels :
              m.ev \notin Range(q[ch].pending) \cup Range(q[ch].cancelled)
        /\ \A a \in Busy : m.ev \notin TaskHeld(a)

(* flush_next's fallback for cancelled batches does not look at            *)
(* retry_after. It never overtakes a backoff, because a channel with a     *)
(* cancelled batch is neither throttled nor in flight.                     *)
CancelledNeverThrottled ==
    \A ch \in Channels : q[ch].cancelled # << >> =>
        ~InFlight(q[ch]) /\ q[ch].retry # "running"

(* Dead-lettering works: no event fails more than MaxRetries + 1 turns in  *)
(* a row, whatever maintenance compacts and whichever events join its      *)
(* batch in between.                                                       *)
AttemptsBounded == \A e \in Events : attempts[e] <= MaxRetries + 1

-----------------------------------------------------------------------------
(* The harness implements TurnDispatch: an event waits while it is live    *)
(* and in no task, and the turn of a channel is the batch of its task.     *)
InTurn(ch) == UNION {TaskHeld(a) : a \in On(ch)}

Waiting == {e \in Events : fate[e] = "live" /\ \A ch \in Channels : e \notin InTurn(ch)}

Dispatch == INSTANCE TurnDispatch WITH
    waiting <- Waiting,
    turn    <- [ch \in Channels |-> InTurn(ch)],
    settled <- {e \in Events : fate[e] \notin {"unseen", "live"}}

(* Turns start only on channels without one, take only waiting events, and *)
(* end with every event either waiting again or settled: every step of the *)
(* loop, the tasks and the clock is a step of TurnDispatch or leaves its   *)
(* variables alone.                                                        *)
ImplementsTurnDispatch == Dispatch!Spec

-----------------------------------------------------------------------------
(* Fairness. Every task is a tokio task of its own and every turn ends (its *)
(* idle and hard timeouts see to that), so do respawns; time passes. The   *)
(* select! is biased and lists results, panics and acks before the arms    *)
(* that can fire for ever, and the top of the loop is not part of the      *)
(* select!: what waits there is served whenever the loop comes by, however *)
(* often it is busy in between. No event needs to arrive, no owner to      *)
(* command, and the periodic arms fire if they are configured.             *)
Fairness ==
    /\ \A a \in Agents :
          /\ WF_vars(\E o \in Outcome, byControl \in BOOLEAN : TaskEnds(a, o, byControl))
          /\ WF_vars(\E ok \in BOOLEAN : RespawnEnds(a, ok))
          /\ WF_vars(CooldownElapses(a))
          /\ SF_vars(HandlePromptResult(a))
          /\ SF_vars(RecoverPanickedAgent(a))
    /\ \A ch \in Channels : WF_vars(RetryElapses(ch))
    /\ SF_vars(\E m \in acks : HandleSteerAck(m))
    /\ WF_vars(DispatchNothing)
    /\ WF_vars(\E ch \in Channels : PoolExhausted(ch) \/ \E a \in Agents : DispatchBatch(ch, a))
    /\ WF_vars(DrainReadyJoinResults)
    /\ SF_vars(Maintenance)
    /\ WF_vars(MaintenanceNotDue)
    /\ WF_vars(CollectRespawns)
    /\ WF_vars(HeartbeatTick)
    /\ WF_vars(RefreshTick)

FairSpec == Spec /\ Fairness

(* "Without this, a batch requeued during crash recovery can sit idle      *)
(* indefinitely on quiet channels" (lib.rs): every accepted event is       *)
(* settled in the end, crashes, panics, throttles and steers on the way    *)
(* notwithstanding, though nothing further arrives. (Unless the process    *)
(* exits, or the event was merged as cancelled_events: see NoEventLost.)   *)
EventuallySettled ==
    \A e \in Events :
        (fate[e] = "live") ~> (fate[e] # "live" \/ e \in merged \/ pc = "exited")
=============================================================================
