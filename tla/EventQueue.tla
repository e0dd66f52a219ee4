---------------------------- MODULE EventQueue ----------------------------
(***************************************************************************)
(* buzz-acp's EventQueue (crates/buzz-acp/src/queue.rs): the per-channel   *)
(* queue that decides which batch of events is prompted next.              *)
(*                                                                         *)
(* Every map of the Rust struct is keyed by channel, so the queue is a     *)
(* function from channels to one record, and every method of one channel   *)
(* is an operator from a record to a record:                               *)
(*   pending   queues[ch]                                                  *)
(*   deadline  in_flight_channels and in_flight_deadlines (every method    *)
(*             adds and removes the two together)                          *)
(*   retry     retry_after[ch]          retries  retry_counts[ch]          *)
(*   cancelled cancelled_batches[ch]    reason   cancel_reasons[ch]        *)
(*   withheld  withheld_native_steer[ch]                                   *)
(* An Instant is compared with the clock and with nothing else, so it is a *)
(* timer: "unset", "running" (still in the future) or "elapsed".           *)
(* in_flight_batch_sizes feeds a log line only and is left out.            *)
(*                                                                         *)
(* An event is its arrival number, which is also its received_at: the main *)
(* loop stamps Instant::now() on the way into push.                        *)
(***************************************************************************)
EXTENDS Naturals, Sequences, Functions

CONSTANTS
    Channels,    \* the channels the agent is in
    Events,      \* arrival numbers, in the order of received_at
    CreatedAt,   \* the created_at each event carries
    MaxPending,  \* MAX_PENDING_PER_CHANNEL
    MaxBatch,    \* MAX_BATCH_EVENTS
    MaxRetries,  \* MAX_RETRIES
    DedupMode    \* config.dedup_mode: "Queue" or "Drop"

ASSUME QueueAssumption ==
    /\ Events \subseteq Nat
    /\ CreatedAt \in [Events -> Nat]
    /\ MaxPending \in Nat \ {0}
    /\ MaxBatch \in Nat \ {0}
    /\ MaxRetries \in Nat
    /\ DedupMode \in {"Queue", "Drop"}

Timer == {"unset", "running", "elapsed"}

Reason == {"Steer", "Interrupt"}

NoReason == "none"

Channel ==
    [pending   : Seq(Events),
     deadline  : Timer,
     retry     : Timer,
     retries   : Nat,
     cancelled : Seq(Events),
     reason    : Reason \cup {NoReason},
     withheld  : Seq(Events)]

(* What one flush hands to a prompt task. *)
FlushBatch ==
    [events    : Seq(Events),
     cancelled : Seq(Events),
     reason    : Reason \cup {NoReason}]

EmptyChannel ==
    [pending   |-> << >>, deadline |-> "unset", retry |-> "unset",
     retries   |-> 0, cancelled |-> << >>, reason |-> NoReason,
     withheld  |-> << >>]

InFlight(c) == c.deadline # "unset"

(* An event id is in a queue at most once, so retain and position + remove *)
(* both take out one entry.                                                *)
Without(s, e) ==
    IF e \in Range(s)
    THEN LET i == CHOOSE j \in DOMAIN s : s[j] = e IN
         SubSeq(s, 1, i - 1) \o SubSeq(s, i + 1, Len(s))
    ELSE s

(* The newest (back) events go when something was put in front of a full   *)
(* queue.                                                                  *)
TrimBack(s) == SubSeq(s, 1, IF Len(s) > MaxPending THEN MaxPending ELSE Len(s))

Accepts(c) == ~(DedupMode = "Drop" /\ InFlight(c))

(* push drops the oldest (front) event of a full queue.                    *)
Push(c, e) ==
    [c EXCEPT !.pending =
        Append(IF Len(@) >= MaxPending THEN Tail(@) ELSE @, e)]

PushOverflow(c) == IF Len(c.pending) >= MaxPending THEN {Head(c.pending)} ELSE {}

(* Mutant of Expire: the withheld events are put back and kept. *)
ExpireKeeps(c) ==
    IF c.deadline = "elapsed"
    THEN [c EXCEPT !.deadline = "unset", !.pending = TrimBack(c.withheld \o @)]
    ELSE c

(* A stuck in-flight entry is released, and the steer events withheld      *)
(* behind it go back to the front of the queue.                            *)
Expire(c) ==
    IF c.deadline = "elapsed"
    THEN [c EXCEPT !.deadline = "unset",
                   !.pending  = TrimBack(c.withheld \o @),
                   !.withheld = << >>]
    ELSE c

ExpireAll(q) == [ch \in Channels |-> Expire(q[ch])]

(* Mutant of Ready: a channel with a turn in flight is flushed again.      *)
ReadyInFlight(c) == c.pending # << >> /\ c.retry # "running"

Ready(c) == c.pending # << >> /\ ~InFlight(c) /\ c.retry # "running"

HasCancelled(c) == c.cancelled # << >> /\ ~InFlight(c)

HasFlushableWork(q) == \E ch \in Channels : Ready(q[ch]) \/ HasCancelled(q[ch])

(* flush_next: the ready channel whose head event was received first;      *)
(* without one, any channel with a cancelled batch (HashMap order).        *)
FlushChoices(q) ==
    LET ready == {ch \in Channels : Ready(q[ch])} IN
    IF ready # {}
    THEN {ch \in ready : \A d \in ready :
              Head(q[ch].pending) <= Head(q[d].pending)}
    ELSE {ch \in Channels : HasCancelled(q[ch])}

DrainCount(c) == IF Len(c.pending) > MaxBatch THEN MaxBatch ELSE Len(c.pending)

(* sort_by_key(created_at) is stable: the orders p of 1..n in which        *)
(* s[p[1]], s[p[2]], ... is by created_at, ties in delivery order. There   *)
(* is exactly one.                                                         *)
SortOrders(s) ==
    {p \in [DOMAIN s -> DOMAIN s] :
        \A i, j \in DOMAIN s : i < j =>
            \/ CreatedAt[s[p[i]]] < CreatedAt[s[p[j]]]
            \/ CreatedAt[s[p[i]]] = CreatedAt[s[p[j]]] /\ p[i] < p[j]}

Reordered(s, p) == [i \in DOMAIN s |-> s[p[i]]]

(* The batches flush_next may return for the channel it picked. *)
FlushBatches(c) ==
    IF Ready(c)
    THEN LET taken == SubSeq(c.pending, 1, DrainCount(c)) IN
         {[events    |-> Reordered(taken, p),
           cancelled |-> c.cancelled,
           reason    |-> IF c.cancelled = << >> THEN NoReason ELSE c.reason] :
              p \in SortOrders(taken)}
    ELSE {[events |-> c.cancelled, cancelled |-> << >>, reason |-> c.reason]}

(* Mutant of Flushed: one event too few is drained.                        *)
FlushedOneLess(c) ==
    [c EXCEPT !.pending   = IF Ready(c) THEN SubSeq(@, DrainCount(c), Len(@)) ELSE @,
              !.deadline  = "running",
              !.cancelled = << >>,
              !.reason    = NoReason]

(* What flush_next leaves behind in that channel. *)
Flushed(c) ==
    [c EXCEPT !.pending   = IF Ready(c)
                            THEN SubSeq(@, DrainCount(c) + 1, Len(@))
                            ELSE @,
              !.deadline  = "running",
              !.cancelled = << >>,
              !.reason    = NoReason]

(* Mutant of MarkComplete: a throttled channel stays in flight.            *)
MarkCompleteUnlessThrottled(c) ==
    IF c.retry = "running" THEN c
    ELSE [c EXCEPT !.deadline = "unset", !.retry = "unset", !.retries = 0]

MarkComplete(c) ==
    IF c.retry = "running"
    THEN [c EXCEPT !.deadline = "unset"]
    ELSE [c EXCEPT !.deadline = "unset", !.retry = "unset", !.retries = 0]

(* Mutant of PutBack: the trim after the insertion is missing.             *)
PutBackUntrimmed(c, events) == [c EXCEPT !.pending = events \o @]

PutBack(c, events) == [c EXCEPT !.pending = TrimBack(events \o @)]

PutBackOverflow(c, events) ==
    Range(events \o c.pending) \ Range(TrimBack(events \o c.pending))

(* requeue returns the batch to its caller once the budget is spent. *)
Exhausted(c) == c.retries + 1 > MaxRetries

Requeue(c, b) ==
    IF Exhausted(c)
    THEN [c EXCEPT !.retries = 0, !.retry = "unset"]
    ELSE [PutBack(c, b.events) EXCEPT !.retries = @ + 1, !.retry = "running"]

(* Mutant of RequeuePreserveTimestamps: the batch is not put back.         *)
RequeueNothing(c, b) == c

RequeuePreserveTimestamps(c, b) == PutBack(c, b.events)

(* Mutant of RequeueAsCancelled: a cancelled turn is throttled like a      *)
(* failed one.                                                             *)
RequeueThrottled(c, b, reason) ==
    [c EXCEPT !.cancelled = @ \o b.cancelled \o b.events, !.reason = reason,
              !.retry = "running"]

RequeueAsCancelled(c, b, reason) ==
    [c EXCEPT !.cancelled = @ \o b.cancelled \o b.events, !.reason = reason]

(* drain_channel keeps the in-flight entry: its task is still running. *)
DrainChannel(c) == [EmptyChannel EXCEPT !.deadline = c.deadline]

ExtendInFlightDeadline(c) ==
    IF InFlight(c) THEN [c EXCEPT !.deadline = "running"] ELSE c

(* Mutant of MarkNativeSteerPending: the event stays in the queue.         *)
NothingWithheld(c, e) == c

MarkNativeSteerPending(c, e) ==
    IF e \in Range(c.pending)
    THEN [c EXCEPT !.pending = Without(@, e), !.withheld = Append(@, e)]
    ELSE c

ReleaseNativeSteer(c, e) ==
    IF e \in Range(c.withheld)
    THEN [PutBack(c, <<e>>) EXCEPT !.withheld = Without(@, e)]
    ELSE c

RemoveEvent(c, e) ==
    [c EXCEPT !.pending = Without(@, e), !.withheld = Without(@, e)]

(* compact_expired_state: the counter survives while a throttle, a queued  *)
(* event or an in-flight attempt still needs it.                           *)
CompactExpiredState(c) ==
    LET retry == IF c.retry = "elapsed" THEN "unset" ELSE c.retry IN
    [c EXCEPT !.retry   = retry,
              !.retries = IF retry # "unset" \/ c.pending # << >> \/ InFlight(c)
                          THEN @ ELSE 0]

(* The events the channel still holds, in whatever map. *)
Held(c) == Range(c.pending) \cup Range(c.cancelled) \cup Range(c.withheld)
=============================================================================
