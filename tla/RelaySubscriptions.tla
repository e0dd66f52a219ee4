------------------------- MODULE RelaySubscriptions -------------------------
(***************************************************************************)
(* The channel subscriptions of buzz-acp's relay client: the background    *)
(* task of crates/buzz-acp/src/relay.rs, which owns the WebSocket, keeps   *)
(* the intent of the harness in BgState and restores it after a lost       *)
(* socket, a refused REQ, a rate limit or an event that found the event    *)
(* channel full. The relay is external: it answers a REQ with the stored   *)
(* events from `since` on, newest first (ORDER BY created_at DESC in       *)
(* buzz-db), and with new events as they are posted; it may refuse a REQ   *)
(* and may close a subscription.                                           *)
(*                                                                         *)
(* An event is the number of its post and was created at that time. The    *)
(* task reads messages and commands only between two resubscribes, so a    *)
(* command that arrives during one is taken up after it. seen_ids does not *)
(* forget. The membership and observer subscriptions follow the same rules *)
(* as a channel and are left out, but for their part in ending a           *)
(* resubscribe; so are observer frames and shutdown. A CLOSED that asks    *)
(* for a new handshake is a socket that dies.                              *)
(***************************************************************************)
EXTENDS Integers, Sequences, FiniteSets

CONSTANTS
    Chans,        \* channel ids
    Skew,         \* SINCE_SKEW_SECS
    Capacity,     \* of the event channel to the main loop
    MaxPosts,     \* bound on the events posted
    MaxCommands,  \* bound on the commands of the harness
    MaxDeaths,    \* bound on the sockets that die
    MaxRefusals,  \* bound on the CLOSED of the relay
    MaxDrops      \* bound on the events dropped: after that the main loop is in time

ASSUME SubscriptionAssumption ==
    /\ Skew \in Nat /\ Capacity \in Nat \ {0} /\ MaxPosts \in Nat
    /\ MaxCommands \in Nat /\ MaxDeaths \in Nat /\ MaxRefusals \in Nat /\ MaxDrops \in Nat

VARIABLES
    (* BgState *)
    subscribed,  \* active_subscriptions, and active_filters with it
    last_seen, dropped_since, subscribe_since,  \* per channel; 0 for None
    seen,        \* seen_ids
    gate,        \* is rate_limit_gate in the future?
    parked,      \* rate_limited_pending
    resub_retry, \* resubscribe_retry
    proactive,   \* proactive_resubscribe_needed
    (* the background task, the socket and the event channel *)
    task,        \* "select", "resubscribe" or "offline"
    todo,        \* the channels the resubscribe has not come to
    socket,      \* "up", or "dead" whether or not the task knows
    wire,        \* the relay's messages on their way
    queued,      \* how many events wait in the event channel
    (* the relay *)
    onAir,       \* the channels it holds a subscription for, on this socket
    posts,       \* the channel of each event; the clock is its length
    (* history and bounds *)
    wanted,      \* the channels the harness wants and the relay has not denied
    forwarded,   \* events that reached the event channel
    overflowed,  \* events that found it full, since their channel was subscribed
    commands,    \* commands so far
    used         \* deaths, refusals and drops so far

bgState == <<subscribed, last_seen, dropped_since, subscribe_since, seen, gate, parked,
             resub_retry, proactive>>
link == <<socket, wire, onAir>>
ledger == <<wanted, forwarded, overflowed>>
subscriptionVars == <<bgState, task, todo, link, queued, posts, ledger, commands, used>>

NoStamp == 0

(* Events are numbered from 1, and the clock starts there. *)
Clock == Len(posts) + 1
ChanOf(e) == posts[e - 1]
Posted == 2 .. Clock

SubscriptionInit ==
    /\ subscribed = {}
    /\ last_seen = [c \in Chans |-> NoStamp]
    /\ dropped_since = [c \in Chans |-> NoStamp]
    /\ subscribe_since = [c \in Chans |-> NoStamp]
    /\ seen = {} /\ gate = FALSE /\ parked = {} /\ resub_retry = {} /\ proactive = FALSE
    /\ task = "select" /\ todo = {}
    /\ socket = "up" /\ wire = << >> /\ onAir = {}
    /\ queued = 0
    /\ posts = << >>
    /\ wanted = {} /\ forwarded = {} /\ overflowed = {}
    /\ commands = 0
    /\ used = [deaths |-> 0, refusals |-> 0, drops |-> 0]

Spend(what, max) == used[what] < max /\ used' = [used EXCEPT ![what] = @ + 1]

OlderOf(s, t) == IF s < t THEN s ELSE t
NewerOf(s, t) == IF s < t THEN t ELSE s

-----------------------------------------------------------------------------
(* REQ *)

EventMsg(e) == [type |-> "EVENT", chan |-> ChanOf(e), event |-> e]
ClosedMsg(c, why) == [type |-> "CLOSED", chan |-> c, why |-> why]

(* Mutant of ChannelSince: what was dropped does not count.                *)
ChannelSinceSeen(c) == IF last_seen[c] # NoStamp THEN last_seen[c] ELSE subscribe_since[c]

(* channel_since. *)
ChannelSince(c) ==
    IF last_seen[c] = NoStamp /\ dropped_since[c] = NoStamp THEN subscribe_since[c]
    ELSE IF dropped_since[c] = NoStamp THEN last_seen[c]
    ELSE IF last_seen[c] = NoStamp THEN dropped_since[c]
    ELSE OlderOf(last_seen[c], dropped_since[c])

(* The stored events of c that a REQ asks for, newest first. *)
Stored(c, since) ==
    LET asked == {e \in Posted : ChanOf(e) = c /\ e >= since - Skew}
        newer(e) == {d \in asked : d > e}
    IN  [i \in 1 .. Cardinality(asked) |->
            EventMsg(CHOOSE e \in asked : Cardinality(newer(e)) = i - 1)]

(* send_subscribe succeeds: the relay serves the REQ or refuses it, or the *)
(* socket was dead and nobody noticed.                                     *)
ReqServed(c, since, before) ==
    /\ socket = "up"
    /\ wire' = before \o Stored(c, since)
    /\ onAir' = onAir \cup {c}
    /\ UNCHANGED <<socket, used>>

ReqRefused(c, before) ==
    /\ socket = "up"
    /\ \E why \in {"denied", "rate-limited"} : wire' = Append(before, ClosedMsg(c, why))
    /\ Spend("refusals", MaxRefusals)
    /\ UNCHANGED <<socket, onAir>>

ReqUnnoticed ==
    /\ socket = "dead"
    /\ UNCHANGED <<link, used>>

Sent(c, since) == ReqServed(c, since, wire) \/ ReqRefused(c, wire) \/ ReqUnnoticed

NotSent == socket = "dead" /\ UNCHANGED <<link, used>>

-----------------------------------------------------------------------------
(* Commands of the harness *)

(* The task reads a message or a command: a resubscribe that backpressure  *)
(* asked for comes first.                                                  *)
AtSelect == task = "select" /\ ~proactive

(* apply_command_to_state, Subscribe: the intent; the floor is set once.   *)
RecordIntent(c) ==
    /\ subscribed' = subscribed \cup {c}
    /\ subscribe_since' = [subscribe_since EXCEPT ![c] = IF @ = NoStamp THEN Clock ELSE @]

Command == commands < MaxCommands /\ commands' = commands + 1

(* execute_connected_command, Subscribe. A rate-gated one is parked. *)
SubscribeGated(c) ==
    /\ Command /\ AtSelect /\ c \notin wanted
    /\ gate
    /\ RecordIntent(c)
    /\ parked' = parked \cup {c}
    /\ wanted' = wanted \cup {c}
    /\ UNCHANGED <<last_seen, dropped_since, seen, gate, resub_retry, proactive, task, todo,
                   link, queued, posts, forwarded, overflowed, used>>

(* ... otherwise the REQ goes out from last_seen or from the floor.        *)
Subscribe(c) ==
    /\ Command /\ AtSelect /\ c \notin wanted
    /\ ~gate
    /\ RecordIntent(c)
    /\ Sent(c, IF last_seen[c] # NoStamp THEN last_seen[c] ELSE subscribe_since'[c])
    /\ parked' = parked \ {c}
    /\ resub_retry' = resub_retry \ {c}
    /\ wanted' = wanted \cup {c}
    /\ UNCHANGED <<last_seen, dropped_since, seen, gate, proactive, task, todo, queued, posts,
                   forwarded, overflowed>>

(* ... unless the send fails, or the task is offline: the intent is kept.  *)
SubscribeOffline(c) ==
    /\ Command /\ c \notin wanted
    /\ \/ AtSelect /\ ~gate /\ socket = "dead"
       \/ task = "offline"
    /\ RecordIntent(c)
    /\ task' = "offline"
    /\ wanted' = wanted \cup {c}
    /\ UNCHANGED <<last_seen, dropped_since, seen, gate, parked, resub_retry, proactive, todo,
                   link, queued, posts, forwarded, overflowed, used>>

(* clear_channel_state, and active_subscriptions with it. What the         *)
(* subscription missed is not owed to the next one.                        *)
Forget(c) ==
    /\ subscribed' = subscribed \ {c}
    /\ last_seen' = [last_seen EXCEPT ![c] = NoStamp]
    /\ dropped_since' = [dropped_since EXCEPT ![c] = NoStamp]
    /\ subscribe_since' = [subscribe_since EXCEPT ![c] = NoStamp]
    /\ parked' = parked \ {c}
    /\ resub_retry' = resub_retry \ {c}
    /\ wanted' = wanted \ {c}
    /\ overflowed' = {e \in overflowed : ChanOf(e) # c}

(* Unsubscribe: CLOSE is sent if there is a socket, whether it arrives or  *)
(* not.                                                                    *)
Unsubscribe(c) ==
    /\ Command /\ c \in wanted
    /\ AtSelect \/ task = "offline"
    /\ Forget(c)
    /\ onAir' = onAir \ {c}
    /\ UNCHANGED <<seen, gate, proactive, task, todo, socket, wire, queued, posts, forwarded,
                   used>>

-----------------------------------------------------------------------------
(* handle_ws_message *)

Message(type) ==
    /\ AtSelect /\ socket = "up"
    /\ wire # << >> /\ Head(wire).type = type

Received == wire' = Tail(wire)

(* A duplicate of an event is dropped by record_event. *)
DuplicateEvent ==
    /\ Message("EVENT")
    /\ Head(wire).event \in seen
    /\ Received
    /\ UNCHANGED <<bgState, task, todo, socket, onAir, queued, posts, ledger, commands, used>>

(* A new event is recorded and forwarded; last_seen moves even if no one   *)
(* is subscribed any more.                                                 *)
ForwardEvent ==
    LET e == Head(wire).event
        c == Head(wire).chan
    IN  /\ Message("EVENT")
        /\ e \notin seen
        /\ queued < Capacity
        /\ Received
        /\ seen' = seen \cup {e}
        /\ last_seen' = [last_seen EXCEPT ![c] = NewerOf(@, e)]
        /\ queued' = queued + 1
        /\ forwarded' = forwarded \cup {e}
        /\ UNCHANGED <<subscribed, dropped_since, subscribe_since, gate, parked, resub_retry,
                       proactive, task, todo, socket, onAir, posts, wanted, overflowed, commands, used>>

(* The event channel is full: the event is dropped, to be replayed by a    *)
(* resubscribe that starts at it.                                          *)
DropEvent ==
    LET e == Head(wire).event
        c == Head(wire).chan
    IN  /\ Message("EVENT")
        /\ e \notin seen
        /\ queued = Capacity
        /\ Spend("drops", MaxDrops)
        /\ Received
        /\ last_seen' = [last_seen EXCEPT ![c] = NewerOf(@, e)]
        /\ dropped_since' = [dropped_since EXCEPT ![c] = IF @ = NoStamp THEN e ELSE OlderOf(@, e)]
        /\ proactive' = TRUE
        /\ overflowed' = overflowed \cup {e}
        /\ UNCHANGED <<subscribed, subscribe_since, seen, gate, parked, resub_retry, task, todo,
                       socket, onAir, queued, posts, wanted, forwarded, commands>>

Closed(why) == Message("CLOSED") /\ Head(wire).why = why

(* drop_channel_on_access_denied. *)
ChannelDenied ==
    /\ Closed("denied")
    /\ Received
    /\ Forget(Head(wire).chan)
    /\ UNCHANGED <<seen, gate, proactive, task, todo, socket, onAir, queued, posts, forwarded,
                   commands, used>>

(* Mutant of RateLimited: the gate is armed and the channel not parked.    *)
RateLimitedOnly ==
    /\ Closed("rate-limited")
    /\ Received
    /\ gate' = TRUE
    /\ UNCHANGED <<subscribed, last_seen, dropped_since, subscribe_since, seen, parked,
                   resub_retry, proactive, task, todo, socket, onAir, queued, posts, ledger, commands, used>>

(* A refused REQ arms the gate and parks the channel. *)
RateLimited ==
    /\ Closed("rate-limited")
    /\ Received
    /\ gate' = TRUE
    /\ parked' = parked \cup {Head(wire).chan}
    /\ UNCHANGED <<subscribed, last_seen, dropped_since, subscribe_since, seen, resub_retry,
                   proactive, task, todo, socket, onAir, queued, posts, ledger, commands, used>>

(* A NOTICE about a published frame arms it too; the frame is left out. *)
NoticeRateLimited ==
    /\ AtSelect /\ socket = "up"
    /\ Spend("refusals", MaxRefusals)
    /\ gate' = TRUE
    /\ UNCHANGED <<subscribed, last_seen, dropped_since, subscribe_since, seen, parked, resub_retry,
                   proactive, task, todo, link, queued, posts, ledger, commands>>

(* Mutant of ClosedByRelay: a late CLOSED resubscribes a channel the       *)
(* harness has left.                                                       *)
ClosedByRelayAnyway ==
    LET c == Head(wire).chan IN
    /\ Closed("other")
    /\ wire' = Tail(wire) \o Stored(c, ChannelSince(c))
    /\ onAir' = onAir \cup {c}
    /\ dropped_since' = [dropped_since EXCEPT ![c] = NoStamp]
    /\ UNCHANGED <<subscribed, last_seen, subscribe_since, seen, gate, parked, resub_retry,
                   proactive, task, todo, socket, queued, posts, ledger, commands, used>>

(* Any other CLOSED resubscribes at once, gate or no gate, unless the      *)
(* harness has left the channel meanwhile.                                 *)
ClosedByRelay ==
    LET c == Head(wire).chan IN
    /\ Closed("other")
    /\ IF c \in subscribed
       THEN /\ ReqServed(c, ChannelSince(c), Tail(wire)) \/ ReqRefused(c, Tail(wire))
            /\ dropped_since' = [dropped_since EXCEPT ![c] = NoStamp]
       ELSE Received /\ UNCHANGED <<socket, onAir, dropped_since, used>>
    /\ UNCHANGED <<subscribed, last_seen, subscribe_since, seen, gate, parked, resub_retry,
                   proactive, task, todo, queued, posts, ledger, commands>>

-----------------------------------------------------------------------------
(* Resubscribing *)

(* The top of the loop: backpressure asked for a resubscribe. *)
ProactiveResubscribe ==
    /\ task = "select" /\ proactive
    /\ proactive' = FALSE
    /\ task' = "resubscribe"
    /\ todo' = subscribed
    /\ UNCHANGED <<subscribed, last_seen, dropped_since, subscribe_since, seen, gate, parked,
                   resub_retry, link, queued, posts, ledger, commands, used>>

(* The read or a ping fails: try_autonomous_reconnect, wait_for_reconnect. *)
NoticeDeath ==
    /\ AtSelect /\ socket = "dead"
    /\ task' = "offline"
    /\ UNCHANGED <<bgState, todo, link, queued, posts, ledger, commands, used>>

(* do_connect succeeds. The queues are rebuilt, the gate stays. *)
Reconnect ==
    /\ task = "offline"
    /\ task' = "resubscribe"
    /\ todo' = subscribed
    /\ socket' = "up" /\ wire' = << >> /\ onAir' = {}
    /\ parked' = {} /\ resub_retry' = {}
    /\ UNCHANGED <<subscribed, last_seen, dropped_since, subscribe_since, seen, gate, proactive,
                   queued, posts, ledger, commands, used>>

(* One channel of resubscribe_after_reconnect: parked by the gate, ...     *)
ParkInstead(c) ==
    /\ task = "resubscribe" /\ c \in todo
    /\ gate
    /\ todo' = todo \ {c}
    /\ parked' = parked \cup {c}
    /\ UNCHANGED <<subscribed, last_seen, dropped_since, subscribe_since, seen, gate, resub_retry,
                   proactive, task, link, queued, posts, ledger, commands, used>>

(* ... subscribed from where the events may be missing, ...                *)
Resubscribe(c) ==
    /\ task = "resubscribe" /\ c \in todo
    /\ ~gate
    /\ Sent(c, ChannelSince(c))
    /\ todo' = todo \ {c}
    /\ dropped_since' = [dropped_since EXCEPT ![c] = NoStamp]
    /\ UNCHANGED <<subscribed, last_seen, subscribe_since, seen, gate, parked, resub_retry,
                   proactive, task, queued, posts, ledger, commands>>

(* ... or kept for another try.                                            *)
ResubscribeFails(c) ==
    /\ task = "resubscribe" /\ c \in todo
    /\ ~gate
    /\ NotSent
    /\ todo' = todo \ {c}
    /\ resub_retry' = resub_retry \cup {c}
    /\ UNCHANGED <<subscribed, last_seen, dropped_since, subscribe_since, seen, gate, parked,
                   proactive, task, queued, posts, ledger, commands>>

(* The control subscriptions go last, and their failure is a lost socket.  *)
ResubscribeEnds ==
    /\ task = "resubscribe" /\ todo = {}
    /\ \/ task' = "select"
       \/ socket = "dead" /\ task' = "offline"
    /\ UNCHANGED <<bgState, todo, link, queued, posts, ledger, commands, used>>

(* drain_rate_limited_pending, one channel whose time has come. A channel  *)
(* without a filter is not wanted any more.                                *)
DrainParked(c) ==
    /\ task = "select" /\ c \in parked
    /\ ~gate
    /\ IF c \in subscribed
       THEN \/ /\ Sent(c, ChannelSince(c))
               /\ parked' = parked \ {c}
               /\ dropped_since' = [dropped_since EXCEPT ![c] = NoStamp]
            \/ NotSent /\ UNCHANGED <<parked, dropped_since>>
       ELSE parked' = parked \ {c} /\ UNCHANGED <<dropped_since, link, used>>
    /\ UNCHANGED <<subscribed, last_seen, subscribe_since, seen, gate, resub_retry, proactive,
                   task, todo, queued, posts, ledger, commands>>

(* drain_resubscribe_retry: sent, still failing, or gated meanwhile. *)
DrainRetry(c) ==
    /\ task = "select" /\ c \in resub_retry
    /\ IF gate
       THEN /\ parked' = parked \cup {c}
            /\ resub_retry' = resub_retry \ {c}
            /\ UNCHANGED <<dropped_since, link, used>>
       ELSE /\ \/ /\ Sent(c, ChannelSince(c))
                  /\ resub_retry' = resub_retry \ {c}
                  /\ dropped_since' = [dropped_since EXCEPT ![c] = NoStamp]
               \/ NotSent /\ UNCHANGED <<resub_retry, dropped_since>>
            /\ UNCHANGED parked
    /\ UNCHANGED <<subscribed, last_seen, subscribe_since, seen, gate, proactive, task, todo,
                   queued, posts, ledger, commands>>

GateExpires ==
    /\ gate
    /\ gate' = FALSE
    /\ UNCHANGED <<subscribed, last_seen, dropped_since, subscribe_since, seen, parked, resub_retry,
                   proactive, task, todo, link, queued, posts, ledger, commands, used>>

-----------------------------------------------------------------------------
(* The main loop takes an event out of the channel. *)
NextEvent ==
    /\ queued > 0
    /\ queued' = queued - 1
    /\ UNCHANGED <<bgState, task, todo, link, posts, ledger, commands, used>>

(* The relay stores an event, and sends it to whom it may concern. *)
Post(c) ==
    /\ Len(posts) < MaxPosts
    /\ posts' = Append(posts, c)
    /\ wire' = IF socket = "up" /\ c \in onAir
               THEN Append(wire, [type |-> "EVENT", chan |-> c, event |-> Clock + 1]) ELSE wire
    /\ UNCHANGED <<bgState, task, todo, socket, onAir, queued, ledger, commands, used>>

(* The relay ends a subscription: the membership is gone, or it is just    *)
(* too busy.                                                               *)
RelayCloses(c) ==
    /\ socket = "up" /\ c \in onAir
    /\ Spend("refusals", MaxRefusals)
    /\ onAir' = onAir \ {c}
    /\ \E why \in {"denied", "other"} : wire' = Append(wire, ClosedMsg(c, why))
    /\ UNCHANGED <<bgState, task, todo, socket, queued, posts, ledger, commands>>

(* What was on the wire is lost with the socket. *)
SocketDies ==
    /\ socket = "up"
    /\ Spend("deaths", MaxDeaths)
    /\ socket' = "dead" /\ wire' = << >> /\ onAir' = {}
    /\ UNCHANGED <<bgState, task, todo, queued, posts, ledger, commands>>

HandleMessage ==
    \/ DuplicateEvent \/ ForwardEvent \/ DropEvent
    \/ ChannelDenied \/ RateLimited \/ ClosedByRelay

ResubscribeStep(c) == ParkInstead(c) \/ Resubscribe(c) \/ ResubscribeFails(c)

SubscriptionNext ==
    \/ HandleMessage \/ ProactiveResubscribe \/ NoticeDeath \/ Reconnect \/ ResubscribeEnds
    \/ GateExpires \/ NextEvent \/ SocketDies \/ NoticeRateLimited
    \/ \E c \in Chans :
          \/ SubscribeGated(c) \/ Subscribe(c) \/ SubscribeOffline(c) \/ Unsubscribe(c)
          \/ ResubscribeStep(c) \/ DrainParked(c) \/ DrainRetry(c)
          \/ Post(c) \/ RelayCloses(c)

SubscriptionSpec == SubscriptionInit /\ [][SubscriptionNext]_subscriptionVars

(* The task runs, the main loop takes its events, gates expire, a dead     *)
(* socket is noticed by the ping and a connect succeeds in the end. The    *)
(* loop comes round at every ping, so a drain that keeps being possible    *)
(* takes place.                                                            *)
SubscriptionFairness ==
    /\ WF_subscriptionVars(HandleMessage) /\ WF_subscriptionVars(ProactiveResubscribe)
    /\ WF_subscriptionVars(NoticeDeath) /\ WF_subscriptionVars(Reconnect)
    /\ WF_subscriptionVars(ResubscribeEnds) /\ WF_subscriptionVars(GateExpires)
    /\ WF_subscriptionVars(NextEvent)
    /\ \A c \in Chans : /\ WF_subscriptionVars(ResubscribeStep(c))
                        /\ SF_subscriptionVars(DrainParked(c))
                        /\ SF_subscriptionVars(DrainRetry(c))

-----------------------------------------------------------------------------
(* "A delayed CLOSED for an already-unsubscribed channel must NOT          *)
(* resurrect the subscription", nor may a parked REQ, a retry or a         *)
(* resubscribe under way: the relay begins to serve a channel only if the  *)
(* harness wants it, after the last command and the last denial.           *)
NeverResurrected == [][onAir' \ onAir \subseteq wanted']_subscriptionVars

(* A channel the harness wants is on the air in the end, through lost      *)
(* sockets, refused and unsent REQs, rate limits and closed subscriptions, *)
(* unless the relay denies it.                                             *)
EventuallyOnAir == \A c \in Chans : [](c \in wanted => <>(c \in onAir \/ c \notin wanted))

(* "the replay window covers both successfully processed events and any    *)
(* that were dropped due to queue pressure" (channel_since): an event that *)
(* was dropped and has not been forwarded since is on its way, or the next *)
(* REQ of its channel asks for it.                                         *)
DroppedIsReplayed ==
    \A e \in overflowed \ forwarded :
        ChanOf(e) \in subscribed =>
            \/ \E i \in DOMAIN wire : wire[i].type = "EVENT" /\ wire[i].event = e
            \/ ChannelSince(ChanOf(e)) - Skew <= e

(* Backpressure alone loses nothing: as long as the socket lives and the   *)
(* relay refuses no REQ, what was dropped is replayed, however often the   *)
(* replay is itself cut short by a full event channel.                     *)
BackpressureLosesNothing ==
    used.deaths = 0 /\ used.refusals = 0 => DroppedIsReplayed
=============================================================================
