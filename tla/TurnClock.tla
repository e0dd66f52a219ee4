----------------------------- MODULE TurnClock -----------------------------
(***************************************************************************)
(* The clocks of one channel turn of buzz-acp: the in-flight deadline the  *)
(* EventQueue sets when it flushes a batch (queue.rs), against the hard    *)
(* deadlines, cleanup windows and steer renewals of the task that runs the *)
(* turn (pool.rs run_prompt_task, acp.rs), from the flush of the batch to  *)
(* the mark_complete that takes the deadline away. Time is a natural       *)
(* number; every wait in between has a bound, a timeout of the code or a   *)
(* CONSTANT that stands for a sequence of them, so a tick is possible only *)
(* while no running wait has used up its own.                              *)
(*                                                                         *)
(* AcpHarness assumes that the deadline does not expire under a live turn  *)
(* (TurnMayOutliveDeadline = FALSE); this module says when that is so.     *)
(***************************************************************************)
EXTENDS Naturals

CONSTANTS
    MaxTurn,       \* config.max_turn_duration
    Buffer,        \* IN_FLIGHT_DEADLINE_BUFFER_SECS
    Setup,         \* longest time from the flush to a session
    Context,       \* longest time the fetches for the channel's prompt take
    CleanupFloor,  \* cancel_with_cleanup's 30 seconds
    CancelGrace,   \* CONTROL_CANCEL_GRACE
    WriteTimeout,  \* WRITE_TIMEOUT of write_ndjson
    Finalize,      \* longest time finalize_host_final_reply takes: two
                   \* submissions with their request retries, a delay between
    MetricTimeout, \* METRIC_TIMEOUT of publish_agent_turn_metric
    ResultLatency, \* longest time from a posted result to its handling
    AckLatency,    \* longest time from a steer success to its ack's handling
    InitialMessage,\* is ctx.initial_message configured?
    MaxClock       \* bound on the clock

ASSUME ClockAssumption ==
    /\ MaxTurn \in Nat \ {0} /\ Buffer \in Nat /\ Setup \in Nat /\ Context \in Nat
    /\ CleanupFloor \in Nat /\ CancelGrace \in Nat /\ WriteTimeout \in Nat
    /\ Finalize \in Nat /\ MetricTimeout \in Nat
    /\ ResultLatency \in Nat /\ AckLatency \in Nat
    /\ InitialMessage \in BOOLEAN /\ MaxClock \in Nat
    /\ CancelGrace <= CleanupFloor /\ WriteTimeout <= CleanupFloor

VARIABLES
    now,
    phase,      \* what the turn is at: see Phases
    until,      \* when the current phase runs into its timeout; where the
                \* agent is read this is the hard deadline of the read loop
    steer_rx,   \* the steer receiver: "open", or "gone" with its read loop
    acks,       \* when each Success ack not yet handled was posted
    deadline    \* in_flight_deadlines[channel]

clockVars == <<now, phase, until, steer_rx, acks, deadline>>

Later(s, t) == IF s < t THEN t ELSE s

(* "abandon" is the cleanup of an initial_message, "reported" a result that *)
(* waits for the main loop.                                                 *)
Reading == {"initial", "prompt", "cleanup", "abandon"}
Running == Reading \cup {"setup", "context", "finalize", "metric"}
Phases == Running \cup {"idle", "reported"}

(* The read loop looks at its deadlines between two waits, and a wait may  *)
(* be a write to an agent that has stopped reading.                        *)
Limit == until + (IF phase \in Reading THEN WriteTimeout ELSE 0)

ClockInit ==
    /\ now = 0
    /\ phase = "idle"
    /\ until = 0
    /\ steer_rx = "gone"
    /\ acks = {}
    /\ deadline = 0

(* flush_next and the spawn of run_prompt_task. *)
Dispatch ==
    /\ phase = "idle"
    /\ phase' = "setup"
    /\ until' = now + Setup
    /\ steer_rx' = "open"
    /\ deadline' = now + MaxTurn + Buffer
    /\ UNCHANGED <<now, acks>>

(* Every prompt sets a hard deadline of its own. *)
BeginPrompt(p) ==
    /\ phase' = p
    /\ until' = now + MaxTurn
    /\ UNCHANGED <<now, acks, deadline>>

(* A new session first gets the initial_message, with the whole of         *)
(* max_turn_duration to itself.                                            *)
SendInitialMessage ==
    /\ phase = "setup"
    /\ InitialMessage
    /\ BeginPrompt("initial")
    /\ UNCHANGED steer_rx

(* The channel's metadata, conversation and profiles are fetched for the    *)
(* prompt, after an initial_message that was answered in time. Its read    *)
(* loop took the steer receiver.                                           *)
FetchContext ==
    /\ phase \in {"setup", "initial"}
    /\ now <= until
    /\ phase' = "context"
    /\ until' = now + Context
    /\ steer_rx' = IF phase = "setup" THEN steer_rx ELSE "gone"
    /\ UNCHANGED <<now, acks, deadline>>

(* The channel's prompt. *)
SendPrompt ==
    /\ phase = "context"
    /\ BeginPrompt("prompt")
    /\ UNCHANGED steer_rx

(* A steer lands. "injected" renews the hard deadline, "startedNewTurn"    *)
(* does not; the ack goes to the main loop either way.                     *)
SteerSuccess(renews) ==
    /\ phase \in {"initial", "prompt"}
    /\ now <= until
    /\ steer_rx = "open"
    /\ acks' = acks \cup {now}
    /\ until' = IF renews THEN Later(until, now + MaxTurn) ELSE until
    /\ UNCHANGED <<now, phase, steer_rx, deadline>>

(* Mutant of HandleSteerAck: the renewed turn keeps its old deadline.      *)
HandleSteerAckOnly(t) ==
    /\ t \in acks
    /\ acks' = acks \ {t}
    /\ UNCHANGED <<now, phase, until, steer_rx, deadline>>

(* The main loop's arm: extend_in_flight_deadline, never backwards, and a  *)
(* no-op when the channel is not in flight.                                *)
HandleSteerAck(t) ==
    /\ t \in acks
    /\ acks' = acks \ {t}
    /\ deadline' = IF phase = "idle" THEN deadline
                   ELSE Later(deadline, now + MaxTurn + Buffer)
    /\ UNCHANGED <<now, phase, until, steer_rx>>

(* The idle timeout fires. cancel_with_cleanup drains until the turn's own *)
(* hard deadline, or for 30 seconds if that is nearer.                     *)
IdleTimeout ==
    /\ phase \in {"initial", "prompt"}
    /\ phase' = IF phase = "initial" THEN "abandon" ELSE "cleanup"
    /\ until' = Later(until, now + CleanupFloor)
    /\ steer_rx' = "gone"
    /\ UNCHANGED <<now, acks, deadline>>

(* A control signal cancels the prompt: cancel_with_cleanup_grace. The      *)
(* answer to a pending permission and session/cancel itself are written    *)
(* before the drain looks at its deadline.                                 *)
ControlCancel ==
    /\ phase = "prompt"
    /\ phase' = "cleanup"
    /\ until' = now + Later(CancelGrace, WriteTimeout)
    /\ steer_rx' = "gone"
    /\ UNCHANGED <<now, acks, deadline>>

(* The prompt was answered in time, also when a control signal finds it so: *)
(* the host's final reply is submitted, and submitted again.               *)
FinalizeReply ==
    /\ phase = "prompt"
    /\ now <= until
    /\ phase' = "finalize"
    /\ until' = now + Finalize
    /\ steer_rx' = "gone"
    /\ UNCHANGED <<now, acks, deadline>>

(* publish_agent_turn_metric, after the reply, after a failure or hard      *)
(* timeout of the prompt, and after its cleanup.                           *)
PublishMetric ==
    /\ phase \in {"finalize", "prompt", "cleanup"}
    /\ phase' = "metric"
    /\ until' = now + MetricTimeout
    /\ steer_rx' = "gone"
    /\ UNCHANGED <<now, acks, deadline>>

(* The task is over, and what it leaves behind waits for the main loop. *)
EndTask ==
    /\ phase' = "reported"
    /\ until' = now + ResultLatency
    /\ steer_rx' = "gone"
    /\ UNCHANGED <<now, acks, deadline>>

(* send_prompt_result: after the metric, or without one when there is no   *)
(* session or the initial_message failed.                                  *)
SendResult == phase \in {"setup", "initial", "abandon", "metric"} /\ EndTask

(* The task may panic at any time; the JoinSet reports it. *)
TurnPanics == phase \in Running /\ EndTask

(* handle_prompt_result or recover_panicked_agent: mark_complete takes the *)
(* deadline away.                                                          *)
MarkTurnComplete ==
    /\ phase = "reported"
    /\ phase' = "idle"
    /\ until' = 0
    /\ deadline' = 0
    /\ UNCHANGED <<now, steer_rx, acks>>

ClockTick ==
    /\ now < MaxClock
    /\ phase # "idle" => now < Limit
    /\ \A t \in acks : now < t + AckLatency
    /\ now' = now + 1
    /\ UNCHANGED <<phase, until, steer_rx, acks, deadline>>

ClockNext ==
    \/ Dispatch \/ SendInitialMessage \/ FetchContext \/ SendPrompt
    \/ \E renews \in BOOLEAN : SteerSuccess(renews)
    \/ \E t \in acks : HandleSteerAck(t)
    \/ IdleTimeout \/ ControlCancel \/ FinalizeReply \/ PublishMetric
    \/ SendResult \/ TurnPanics \/ MarkTurnComplete \/ ClockTick

ClockSpec == ClockInit /\ [][ClockNext]_clockVars

-----------------------------------------------------------------------------
(* Clock readings are numbers, and the turn is in one of its phases. *)
ClockTypeOK ==
    /\ now \in Nat
    /\ phase \in Phases
    /\ until \in Nat
    /\ steer_rx \in {"open", "gone"}
    /\ acks \subseteq Nat
    /\ deadline \in Nat

(* "Must be strictly greater than max_turn_duration so a turn running to   *)
(* the hard cap returns via mark_complete before the backstop fires"       *)
(* (queue.rs): the in-flight deadline never passes before the main loop    *)
(* has handled the turn's result, however often steers renew the turn's    *)
(* own deadline, however late their acks are handled, and however the turn *)
(* ends: with a reply to deliver, after a cleanup, or by a hard timeout.   *)
TurnEndsFirst == phase # "idle" => now < deadline

(* When it holds: the buffer outlasts what a turn does before its channel  *)
(* prompt, the whole initial_message included, and after it: the reply or  *)
(* a cleanup entered and left in the middle of a write, the metric, and    *)
(* the result's way to the main loop. An ack may take as long as that.     *)
Overhead == Setup + Context + (IF InitialMessage THEN MaxTurn ELSE 0)

Ending == Later(Finalize, CleanupFloor + WriteTimeout + WriteTimeout)

Aftermath == Ending + MetricTimeout + ResultLatency

BufferSuffices == Overhead + Later(Aftermath, AckLatency) < Buffer

(* Why it holds. The phase's own timeout is covered by the deadline, up to *)
(* the part of the buffer that was spent; or a steer has renewed it and    *)
(* the ack that will extend the deadline is on its way, no later than      *)
(* AckLatency after a moment the deadline still covers.                    *)
Covered(spent) == until + Buffer <= deadline + spent

AckComing == \E t \in acks : t + Buffer <= deadline + Overhead /\ now <= t + AckLatency

AckUnderway(spare) == AckComing /\ until <= now + MaxTurn + spare

Within(spare) == Covered(Overhead + spare) \/ AckUnderway(spare)

(* The channel's prompt is yet to come. *)
Ahead(spent) == until + MaxTurn + Buffer <= deadline + spent

(* The inductive invariant: what the timeouts of each phase leave of the   *)
(* in-flight deadline the EventQueue granted.                              *)
ClockInv ==
    /\ ClockTypeOK
    /\ \A t \in acks : t <= now
    /\ phase # "idle" => now <= Limit
    /\ phase = "setup" => Ahead(Setup)
    /\ phase = "initial" => InitialMessage /\ (Covered(Setup) \/ AckUnderway(0))
    /\ phase = "context" => Ahead(Overhead) \/ (AckComing /\ until <= now + Context)
    /\ phase = "prompt" => Within(0)
    /\ phase \in {"cleanup", "abandon"} => Within(CleanupFloor + WriteTimeout)
    /\ phase = "finalize" => Within(Finalize)
    /\ phase = "metric" => Within(Ending + MetricTimeout)
    /\ phase = "reported" => Within(Aftermath)
=============================================================================
