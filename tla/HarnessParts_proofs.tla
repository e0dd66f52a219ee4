------------------------ MODULE HarnessParts_proofs ------------------------
(***************************************************************************)
(* Theorems about the parts of buzz-acp that stand beside the main loop.   *)
(***************************************************************************)
EXTENDS RelaySubscriptions, FiniteSetTheorems, WellFoundedInduction, SlotCircuit, PoolLifecycle,
        TurnClock, TLAPS

-----------------------------------------------------------------------------
(* A lazy pool that is waking waits for one thing only: a task, a panic or *)
(* a result, of the current attempt. A pool that is not waits for nothing. *)
WakeOnItsWay ==
    \/ wake_tasks = {attempt} /\ dead = {} /\ wake_rx = << >>
    \/ wake_tasks = {} /\ dead = {attempt} /\ wake_rx = << >>
    \/ /\ wake_tasks = {} /\ dead = {}
       /\ \E ok \in BOOLEAN : wake_rx = << [attempt |-> attempt, ok |-> ok] >>

NoWakeOnItsWay == wake_tasks = {} /\ dead = {} /\ wake_rx = << >>

LifecycleInv ==
    /\ attempt \in Nat
    /\ state = "Waking" => WakeOnItsWay
    /\ state # "Waking" => NoWakeOnItsWay

(* The strengthened invariant says what the run's property says.           *)
LEMMA LifecycleInvImplies == LifecycleInv => OneWakeUnderway
<1> SUFFICES ASSUME LifecycleInv PROVE OneWakeUnderway
    OBVIOUS
<1>c. Cardinality({}) = 0 /\ Cardinality({attempt}) = 1
    BY FS_EmptySet, FS_Singleton
<1>1. CASE state # "Waking"
    <2>1. wake_tasks = {} /\ dead = {} /\ wake_rx = << >>
        BY <1>1 DEF LifecycleInv, NoWakeOnItsWay
    <2>2. Underway = {} /\ Len(wake_rx) = 0
        BY <2>1 DEF Underway
    <2>3. Underway = IF state = "Waking" THEN {attempt} ELSE {}
        BY <1>1, <2>2
    <2>4. Cardinality(wake_tasks) = 0 /\ Cardinality(dead) = 0 /\ Cardinality(Underway) = 0
        BY <1>c, <2>1, <2>2
    <2>5. Cardinality(wake_tasks) + Cardinality(dead) + Len(wake_rx)
             = Cardinality(Underway)
        BY <2>2, <2>4
    <2> QED BY <2>3, <2>5, Zenon DEF OneWakeUnderway
<1>2. CASE state = "Waking" /\ wake_rx = << >>
    <2>1. \/ wake_tasks = {attempt} /\ dead = {}
          \/ wake_tasks = {} /\ dead = {attempt}
        BY <1>2 DEF LifecycleInv, WakeOnItsWay
    <2>2. Underway = {attempt} /\ Len(wake_rx) = 0
        BY <1>2, <2>1 DEF Underway
    <2>3. Underway = IF state = "Waking" THEN {attempt} ELSE {}
        BY <1>2, <2>2
    <2>4. /\ \/ Cardinality(wake_tasks) = 1 /\ Cardinality(dead) = 0
             \/ Cardinality(wake_tasks) = 0 /\ Cardinality(dead) = 1
          /\ Cardinality(Underway) = 1
        BY <1>c, <2>1, <2>2
    <2>5. Cardinality(wake_tasks) + Cardinality(dead) + Len(wake_rx)
             = Cardinality(Underway)
        BY <2>2, <2>4
    <2> QED BY <2>3, <2>5, Zenon DEF OneWakeUnderway
<1>3. CASE state = "Waking" /\ wake_rx # << >>
    <2>1. PICK ok \in BOOLEAN : wake_rx = << [attempt |-> attempt, ok |-> ok] >>
        BY <1>3 DEF LifecycleInv, WakeOnItsWay
    <2>2. wake_tasks = {} /\ dead = {}
        BY <1>3 DEF LifecycleInv, WakeOnItsWay
    <2>3. DOMAIN wake_rx = {1} /\ Len(wake_rx) = 1 /\ wake_rx[1].attempt = attempt
        BY <2>1
    <2>4. Underway = {attempt}
        BY <2>2, <2>3 DEF Underway
    <2>5. Underway = IF state = "Waking" THEN {attempt} ELSE {}
        BY <1>3, <2>4
    <2>6. Cardinality(wake_tasks) = 0 /\ Cardinality(dead) = 0 /\ Cardinality(Underway) = 1
        BY <1>c, <2>2, <2>4
    <2>7. Cardinality(wake_tasks) + Cardinality(dead) + Len(wake_rx)
             = Cardinality(Underway)
        BY <2>3, <2>6
    <2> QED BY <2>5, <2>7, Zenon DEF OneWakeUnderway
<1> QED BY <1>1, <1>2, <1>3

(* Every arm of the main loop and every end of the wake task keeps it.     *)
LEMMA LifecycleStep == LifecycleInv /\ [LifecycleNext]_lifecycleVars => LifecycleInv'
<1> SUFFICES ASSUME LifecycleInv, [LifecycleNext]_lifecycleVars PROVE LifecycleInv'
    OBVIOUS
<1> USE DEF LifecycleInv, WakeOnItsWay, NoWakeOnItsWay
<1>1. CASE UNCHANGED lifecycleVars
    BY <1>1 DEF lifecycleVars
<1>2. CASE Arrive \/ Drained \/ DispatchPending \/ RetryTick
    BY <1>2 DEF Arrive, Drained, DispatchPending, RetryTick
<1>3. CASE StartWake
    BY <1>3 DEF StartWake
<1>4. CASE ReceiveWake
    <2>1. state = "Waking" /\ wake_tasks = {} /\ dead = {}
        BY <1>4 DEF ReceiveWake
    <2>2. PICK ok \in BOOLEAN : wake_rx = << [attempt |-> attempt, ok |-> ok] >>
        BY <1>4, <2>1 DEF ReceiveWake
    <2>3. Head(wake_rx).attempt = attempt /\ Tail(wake_rx) = << >>
        BY <2>2
    <2>4. state' # "Waking"
        BY <1>4, <2>1, <2>3 DEF ReceiveWake, Matches, Fail
    <2> QED BY <1>4, <2>1, <2>3, <2>4 DEF ReceiveWake
<1>5. ASSUME NEW n \in wake_tasks, WakeTaskPanics(n) PROVE LifecycleInv'
    BY <1>5 DEF WakeTaskPanics
<1>6. ASSUME NEW n \in wake_tasks, NEW ok \in BOOLEAN, WakeTaskSends(n, ok)
      PROVE  LifecycleInv'
    <2>1. state = "Waking" /\ n = attempt /\ dead = {} /\ wake_tasks = {attempt}
        BY <1>6
    <2>2. wake_rx' = << [attempt |-> attempt, ok |-> ok] >>
        BY <1>6, <2>1 DEF WakeTaskSends
    <2> QED BY <1>6, <2>1, <2>2 DEF WakeTaskSends
<1>7. ASSUME NEW n \in dead, JoinWakeTask(n) PROVE LifecycleInv'
    <2>1. state = "Waking" /\ n = attempt /\ dead = {attempt} /\ wake_tasks = {} /\ wake_rx = << >>
        BY <1>7
    <2> QED BY <1>7, <2>1 DEF JoinWakeTask, Fail
<1> QED BY <1>1, <1>2, <1>3, <1>4, <1>5, <1>6, <1>7 DEF LifecycleNext

(* Of the lazy pool (PoolLifecycle::start_wake_if_due, complete_wake and   *)
(* cancel_wake): a pool that is waking has exactly one task, result or     *)
(* panic on its way, of the current attempt, and otherwise there is none.  *)
THEOREM OneWakeUnderwayAlways == LifecycleSpec => []OneWakeUnderway
<1>1. LifecycleInit => LifecycleInv
    BY DEF LifecycleInit, LifecycleInv, NoWakeOnItsWay
<1> QED BY <1>1, LifecycleStep, LifecycleInvImplies, PTL DEF LifecycleSpec

-----------------------------------------------------------------------------
(* What the background task means to subscribe is what the harness wants:  *)
(* BgState's intent, the channels a resubscribe has still to come to, and  *)
(* the ones it will try again.                                             *)
IntentInv ==
    /\ subscribed = wanted
    /\ task = "resubscribe" => todo \subseteq wanted
    /\ resub_retry \subseteq wanted

(* One step: the intent stays right, and the relay begins to serve only    *)
(* what is wanted afterwards. First the commands of the harness, ...       *)
LEMMA IntentCommands ==
    ASSUME IntentInv, NEW c \in Chans,
           SubscribeGated(c) \/ Subscribe(c) \/ SubscribeOffline(c) \/ Unsubscribe(c)
    PROVE  IntentInv' /\ onAir' \ onAir \subseteq wanted'
<1>1. CASE SubscribeGated(c)
    BY <1>1 DEF IntentInv, SubscribeGated, RecordIntent, AtSelect, link
<1>2. CASE Subscribe(c)
    BY <1>2 DEF IntentInv, Subscribe, RecordIntent, AtSelect, link, Sent, ReqServed, ReqRefused,
                ReqUnnoticed
<1>3. CASE SubscribeOffline(c)
    BY <1>3 DEF IntentInv, SubscribeOffline, RecordIntent, AtSelect, link
<1>4. CASE Unsubscribe(c)
    BY <1>4 DEF IntentInv, Unsubscribe, Forget, AtSelect
<1> QED BY <1>1, <1>2, <1>3, <1>4

(* ... then the messages of the relay, ...                                 *)
LEMMA IntentMessages ==
    ASSUME IntentInv, HandleMessage
    PROVE  IntentInv' /\ onAir' \ onAir \subseteq wanted'
<1>1. CASE DuplicateEvent \/ ForwardEvent \/ DropEvent
    BY <1>1 DEF IntentInv, DuplicateEvent, ForwardEvent, DropEvent, bgState, ledger
<1>2. CASE ChannelDenied
    BY <1>2 DEF IntentInv, ChannelDenied, Closed, Message, AtSelect, Forget
<1>3. CASE RateLimited
    BY <1>3 DEF IntentInv, RateLimited, ledger
<1>4. CASE ClosedByRelay
    BY <1>4 DEF IntentInv, ClosedByRelay, ReqServed, ReqRefused, ledger
<1> QED BY <1>1, <1>2, <1>3, <1>4 DEF HandleMessage

(* ... the resubscribes and the drains of one channel, ...                 *)
LEMMA IntentResubscribes ==
    ASSUME IntentInv, NEW c \in Chans, ResubscribeStep(c) \/ DrainParked(c) \/ DrainRetry(c)
    PROVE  IntentInv' /\ onAir' \ onAir \subseteq wanted'
<1> USE DEF IntentInv, link, ledger, Sent, ReqServed, ReqRefused, ReqUnnoticed, NotSent
<1>1. CASE ParkInstead(c)
    BY <1>1 DEF ParkInstead
<1>2. CASE Resubscribe(c)
    BY <1>2 DEF Resubscribe
<1>3. CASE ResubscribeFails(c)
    BY <1>3 DEF ResubscribeFails
<1>4. CASE DrainParked(c)
    BY <1>4 DEF DrainParked
<1>5. CASE DrainRetry(c)
    BY <1>5 DEF DrainRetry
<1> QED BY <1>1, <1>2, <1>3, <1>4, <1>5 DEF ResubscribeStep

(* ... and the rest of the task and of its surroundings.                   *)
LEMMA IntentSurroundings ==
    ASSUME IntentInv,
           \/ ProactiveResubscribe \/ NoticeDeath \/ Reconnect \/ ResubscribeEnds
           \/ GateExpires \/ NextEvent \/ SocketDies \/ NoticeRateLimited
           \/ \E c \in Chans : Post(c) \/ RelayCloses(c)
           \/ UNCHANGED subscriptionVars
    PROVE  IntentInv' /\ onAir' \ onAir \subseteq wanted'
<1> USE DEF IntentInv, link, ledger, bgState
<1>1. CASE ProactiveResubscribe \/ NoticeDeath \/ Reconnect \/ ResubscribeEnds
    BY <1>1 DEF ProactiveResubscribe, NoticeDeath, Reconnect, ResubscribeEnds
<1>2. CASE GateExpires \/ NextEvent \/ SocketDies \/ NoticeRateLimited
    BY <1>2 DEF GateExpires, NextEvent, SocketDies, NoticeRateLimited
<1>3. CASE \E c \in Chans : Post(c) \/ RelayCloses(c)
    BY <1>3 DEF Post, RelayCloses
<1>4. CASE UNCHANGED subscriptionVars
    BY <1>4 DEF subscriptionVars
<1> QED BY <1>1, <1>2, <1>3, <1>4

(* Of the relay client (handle_ws_message, resubscribe_after_reconnect,    *)
(* drain_rate_limited_pending and drain_resubscribe_retry): no late CLOSED,*)
(* parked REQ, retry or resubscribe under way makes the relay serve a      *)
(* channel that the harness has left or was denied.                        *)
THEOREM NeverResurrectedEver == SubscriptionSpec => NeverResurrected
<1>1. SubscriptionInit => IntentInv
    BY DEF SubscriptionInit, IntentInv
<1>2. IntentInv /\ [SubscriptionNext]_subscriptionVars
         => IntentInv' /\ onAir' \ onAir \subseteq wanted'
    BY IntentCommands, IntentMessages, IntentResubscribes, IntentSurroundings
       DEF SubscriptionNext
<1> QED BY <1>1, <1>2, PTL DEF SubscriptionSpec, NeverResurrected

-----------------------------------------------------------------------------
(* The elements of a finite set of numbers can be told by how many of them *)
(* are larger.                                                             *)
LEMMA RankIsBijective ==
    ASSUME NEW A \in SUBSET Nat, IsFiniteSet(A)
    PROVE  LET Larger(e) == {d \in A : d > e} IN
           /\ \A e \in A : Cardinality(Larger(e)) + 1 \in 1 .. Cardinality(A)
           /\ \A e, d \in A : Cardinality(Larger(e)) = Cardinality(Larger(d)) => e = d
           /\ \A i \in 1 .. Cardinality(A) : \E e \in A : Cardinality(Larger(e)) = i - 1
<1> DEFINE Larger(e) == {d \in A : d > e}
           n == Cardinality(A)
           rank == [e \in A |-> Cardinality(Larger(e))]
<1>0. n \in Nat
    BY FS_CardinalityType
<1>1. \A e \in A : IsFiniteSet(Larger(e)) /\ Cardinality(Larger(e)) \in Nat
    <2> TAKE e \in A
    <2>1. Larger(e) \in SUBSET A
        OBVIOUS
    <2>2. IsFiniteSet(Larger(e))
        BY <2>1, FS_Subset
    <2> QED BY <2>2, FS_CardinalityType
<1>2. \A e \in A : Cardinality(Larger(e)) < n
    <2> TAKE e \in A
    <2>1. Larger(e) \in SUBSET A /\ Larger(e) # A
        OBVIOUS
    <2>2. Cardinality(Larger(e)) <= n /\ Cardinality(Larger(e)) # n
        BY <2>1, FS_Subset
    <2> QED BY <1>0, <1>1, <2>2
<1>3. \A e, d \in A : e < d => Cardinality(Larger(d)) < Cardinality(Larger(e))
    <2> SUFFICES ASSUME NEW e \in A, NEW d \in A, e < d
                 PROVE  Cardinality(Larger(d)) < Cardinality(Larger(e))
        OBVIOUS
    <2>0. A \subseteq Nat /\ e \in Nat /\ d \in Nat
        OBVIOUS
    <2>1. Larger(d) \in SUBSET Larger(e) /\ d \in Larger(e) /\ d \notin Larger(d)
        <3>1. ASSUME NEW x \in Larger(d) PROVE x \in Larger(e)
            BY <2>0
        <3>2. d \in Larger(e) /\ d \notin Larger(d)
            BY <2>0
        <3> QED BY <3>1, <3>2
    <2>2. Cardinality(Larger(d)) <= Cardinality(Larger(e))
        BY <1>1, <2>1, FS_Subset
    <2>3. Cardinality(Larger(e)) = Cardinality(Larger(d)) => Larger(e) = Larger(d)
        BY <1>1, <2>1, FS_Subset
    <2> HIDE DEF Larger
    <2> QED BY <1>1, <2>1, <2>2, <2>3
<1>4. \A e, d \in A : Cardinality(Larger(e)) = Cardinality(Larger(d)) => e = d
    <2> SUFFICES ASSUME NEW e \in A, NEW d \in A, Cardinality(Larger(e)) = Cardinality(Larger(d))
                 PROVE  e = d
        OBVIOUS
    <2> HIDE DEF Larger
    <2>1. e \in Nat /\ d \in Nat /\ ~(e < d) /\ ~(d < e)
        BY <1>1, <1>3
    <2> QED BY <2>1
<1> HIDE DEF Larger
<1>5. rank \in Injection(A, 0 .. n - 1)
    <2>1. rank \in [A -> 0 .. n - 1]
        BY <1>0, <1>1, <1>2
    <2>2. \A e, d \in A : rank[e] = rank[d] => e = d
        BY <1>4
    <2> QED BY <2>1, <2>2 DEF Injection, IsInjective
<1>6. IsFiniteSet(0 .. n - 1) /\ Cardinality(0 .. n - 1) = n
    <2>1. n - 1 \in Int /\ 0 \in Int
        BY <1>0
    <2>2. /\ IsFiniteSet(0 .. n - 1)
          /\ Cardinality(0 .. n - 1) = IF 0 > n - 1 THEN 0 ELSE (n - 1) - 0 + 1
        BY <2>1, FS_Interval
    <2> QED BY <1>0, <2>2
<1>7. rank \in Surjection(A, 0 .. n - 1)
    BY <1>5, <1>6, FS_Injection
<1>8. \A i \in 1 .. n : \E e \in A : Cardinality(Larger(e)) = i - 1
    <2> TAKE i \in 1 .. n
    <2>1. i - 1 \in 0 .. n - 1
        BY <1>0
    <2>2. PICK e \in A : rank[e] = i - 1
        BY <1>7, <2>1 DEF Surjection
    <2> QED BY <2>2
<1>9. \A e \in A : Cardinality(Larger(e)) + 1 \in 1 .. n
    BY <1>0, <1>1, <1>2
<1> QED BY <1>4, <1>8, <1>9 DEF Larger

(* The events of the relay as they travel, and the events of a sequence of *)
(* them.                                                                   *)
Deliveries == {m \in [type : {"EVENT"}, chan : Chans, event : Posted] : m.chan = ChanOf(m.event)}

Carries(s, e) == \E i \in 1 .. Len(s) : s[i].event = e

(* A REQ is answered with deliveries, and with every stored event of the   *)
(* channel from `since` on.                                                *)
LEMMA StoredServes ==
    ASSUME posts \in Seq(Chans), NEW c \in Chans, NEW since \in Int
    PROVE  /\ Stored(c, since) \in Seq(Deliveries)
           /\ \A e \in Posted : ChanOf(e) = c /\ e >= since - Skew => Carries(Stored(c, since), e)
<1> DEFINE asked == {e \in Posted : ChanOf(e) = c /\ e >= since - Skew}
           newer(e) == {d \in asked : d > e}
           n == Cardinality(asked)
           pick(i) == CHOOSE e \in asked : Cardinality(newer(e)) = i - 1
<1>1. Clock \in Nat /\ Posted \subseteq Nat /\ \A e \in Posted : ChanOf(e) \in Chans
    BY DEF Clock, Posted, ChanOf
<1>2. asked \in SUBSET Nat /\ asked \subseteq Posted
    BY <1>1
<1>3. IsFiniteSet(asked)
    <2>1. \A e \in asked : e <= Clock
        BY <1>1 DEF Posted
    <2> QED BY <1>1, <1>2, <2>1, FS_BoundedSetOfNaturals
<1>4. Stored(c, since) = [i \in 1 .. n |-> EventMsg(pick(i))]
    BY DEF Stored
<1>5. /\ \A e \in asked : Cardinality(newer(e)) + 1 \in 1 .. n
      /\ \A e, d \in asked : Cardinality(newer(e)) = Cardinality(newer(d)) => e = d
      /\ \A i \in 1 .. n : \E e \in asked : Cardinality(newer(e)) = i - 1
    BY <1>2, <1>3, RankIsBijective
<1>6. n \in Nat
    BY <1>3, FS_CardinalityType
<1>7. \A e \in asked : Cardinality(newer(e)) \in Nat
    <2> TAKE e \in asked
    <2>1. newer(e) \in SUBSET asked
        OBVIOUS
    <2>2. IsFiniteSet(newer(e))
        BY <1>3, <2>1, FS_Subset
    <2> QED BY <2>2, FS_CardinalityType
<1> HIDE DEF newer
<1>8. \A i \in 1 .. n : pick(i) \in asked
    BY <1>5
<1>9. \A e \in asked : pick(Cardinality(newer(e)) + 1) = e
    <2> TAKE e \in asked
    <2>1. (Cardinality(newer(e)) + 1) - 1 = Cardinality(newer(e))
        BY <1>7
    <2>2. /\ pick(Cardinality(newer(e)) + 1) \in asked
          /\ Cardinality(newer(pick(Cardinality(newer(e)) + 1))) = Cardinality(newer(e))
        BY <2>1
    <2> QED BY <1>5, <2>2
<1> HIDE DEF pick
<1>10. \A i \in 1 .. n : EventMsg(pick(i)) \in Deliveries /\ EventMsg(pick(i)).event = pick(i)
    BY <1>1, <1>2, <1>8 DEF Deliveries, EventMsg
<1>11. /\ Stored(c, since) \in Seq(Deliveries) /\ Len(Stored(c, since)) = n
       /\ \A i \in 1 .. n : Stored(c, since)[i].event = pick(i)
    BY <1>4, <1>6, <1>10
<1>12. ASSUME NEW e \in asked PROVE Carries(Stored(c, since), e)
    BY <1>5, <1>9, <1>11 DEF Carries
<1> QED BY <1>11, <1>12

(* What was taken from the front or added at the end.                      *)
LEMMA CarriesTail ==
    ASSUME NEW D, NEW s \in Seq(D), s # << >>, NEW e, Carries(s, e), Head(s).event # e
    PROVE  Carries(Tail(s), e)
<1>1. PICK i \in 1 .. Len(s) : s[i].event = e
    BY DEF Carries
<1>2. i # 1
    BY <1>1
<1>3. i - 1 \in 1 .. Len(Tail(s)) /\ Tail(s)[i - 1] = s[i]
    BY <1>1, <1>2
<1> QED BY <1>1, <1>3 DEF Carries

(* See CarriesTail.                                                        *)
LEMMA CarriesConcat ==
    ASSUME NEW D, NEW s \in Seq(D), NEW t \in Seq(D), NEW e, Carries(s, e) \/ Carries(t, e)
    PROVE  Carries(s \o t, e)
<1>0. Len(s) \in Nat /\ Len(t) \in Nat /\ Len(s \o t) = Len(s) + Len(t)
    OBVIOUS
<1>1. CASE Carries(s, e)
    <2>1. PICK i \in 1 .. Len(s) : s[i].event = e
        BY <1>1 DEF Carries
    <2>2. i \in 1 .. Len(s \o t) /\ (s \o t)[i] = s[i]
        BY <1>0
    <2> QED BY <2>1, <2>2 DEF Carries
<1>2. CASE Carries(t, e)
    <2>1. PICK i \in 1 .. Len(t) : t[i].event = e
        BY <1>2 DEF Carries
    <2>2. Len(s) + i \in 1 .. Len(s \o t) /\ (s \o t)[Len(s) + i] = t[i]
        BY <1>0
    <2> QED BY <2>1, <2>2 DEF Carries
<1> QED BY <1>1, <1>2

(* The socket lives and the relay has refused nothing.                     *)
Calm == used.deaths = 0 /\ used.refusals = 0

Counters == [deaths : Nat, refusals : Nat, drops : Nat]

(* What was dropped is on the wire again, or the next REQ starts early     *)
(* enough.                                                                 *)
Recoverable(e) ==
    \/ Carries(wire, e)
    \/ dropped_since[ChanOf(e)] # NoStamp /\ dropped_since[ChanOf(e)] <= e

CalmInv ==
    /\ socket = "up" /\ task # "offline" /\ gate = FALSE /\ parked = {} /\ resub_retry = {}
    /\ posts \in Seq(Chans) /\ wire \in Seq(Deliveries)
    /\ last_seen \in [Chans -> Nat] /\ dropped_since \in [Chans -> Nat]
    /\ subscribe_since \in [Chans -> Nat]
    /\ seen = forwarded
    /\ overflowed \subseteq Posted
    /\ \A e \in overflowed \ forwarded : Recoverable(e)

BackpressureInv == used \in Counters /\ (Calm => CalmInv)

(* A death or a refusal ends the calm; a dropped event does not.           *)
LEMMA SpendCounts ==
    ASSUME used \in Counters, NEW what \in {"deaths", "refusals", "drops"}, NEW max, Spend(what, max)
    PROVE  used' \in Counters /\ (Calm' => Calm /\ what = "drops")
<1>1. CASE what = "deaths"
    <2>1. used' = [used EXCEPT !.deaths = @ + 1]
        BY <1>1 DEF Spend
    <2> QED BY <1>1, <2>1 DEF Counters, Calm
<1>2. CASE what = "refusals"
    <2>1. used' = [used EXCEPT !.refusals = @ + 1]
        BY <1>2 DEF Spend
    <2> QED BY <1>2, <2>1 DEF Counters, Calm
<1>3. CASE what = "drops"
    <2>1. used' = [used EXCEPT !.drops = @ + 1]
        BY <1>3 DEF Spend
    <2> QED BY <1>3, <2>1 DEF Counters, Calm
<1> QED BY <1>1, <1>2, <1>3

(* No step forgets a death or a refusal.                                   *)
LEMMA CalmOnlyEnds ==
    ASSUME used \in Counters, [SubscriptionNext]_subscriptionVars
    PROVE  used' \in Counters /\ (Calm' => Calm)
<1>1. CASE UNCHANGED used
    BY <1>1 DEF Calm
<1>2. CASE \E what \in {"deaths", "refusals", "drops"}, max \in {MaxDeaths, MaxRefusals, MaxDrops} :
              Spend(what, max)
    BY <1>2, SpendCounts
<1> DEFINE Spends == \E what \in {"deaths", "refusals", "drops"},
                         max \in {MaxDeaths, MaxRefusals, MaxDrops} : Spend(what, max)
<1>3. UNCHANGED used \/ Spends
    <2> USE DEF link, ReqServed, ReqRefused, ReqUnnoticed, Sent, NotSent
    <2>1. CASE HandleMessage
        BY <2>1 DEF HandleMessage, DuplicateEvent, ForwardEvent, DropEvent, ChannelDenied,
                    RateLimited, ClosedByRelay
    <2>2. CASE \/ ProactiveResubscribe \/ NoticeDeath \/ Reconnect \/ ResubscribeEnds
               \/ GateExpires \/ NextEvent \/ SocketDies \/ NoticeRateLimited
        BY <2>2 DEF ProactiveResubscribe, NoticeDeath, Reconnect, ResubscribeEnds, GateExpires,
                    NextEvent, SocketDies, NoticeRateLimited
    <2>3. ASSUME NEW c \in Chans,
                 SubscribeGated(c) \/ Subscribe(c) \/ SubscribeOffline(c) \/ Unsubscribe(c)
          PROVE  UNCHANGED used \/ Spends
        BY <2>3 DEF SubscribeGated, Subscribe, SubscribeOffline, Unsubscribe
    <2>4. ASSUME NEW c \in Chans, ResubscribeStep(c) \/ DrainParked(c) \/ DrainRetry(c)
          PROVE  UNCHANGED used \/ Spends
        BY <2>4 DEF ResubscribeStep, ParkInstead, Resubscribe, ResubscribeFails, DrainParked,
                    DrainRetry
    <2>5. ASSUME NEW c \in Chans, Post(c) \/ RelayCloses(c)
          PROVE  UNCHANGED used \/ Spends
        BY <2>5 DEF Post, RelayCloses
    <2>6. CASE UNCHANGED subscriptionVars
        BY <2>6 DEF subscriptionVars
    <2> QED BY <2>1, <2>2, <2>3, <2>4, <2>5, <2>6 DEF SubscriptionNext
<1> QED BY <1>1, <1>2, <1>3

(* Posted events keep their channel, and what travels travels on.          *)
LEMMA CalmTypes ==
    ASSUME CalmInv
    PROVE  /\ Clock \in Nat /\ Posted \subseteq Nat /\ \A e \in Posted : ChanOf(e) \in Chans /\ e > 0
           /\ \A c \in Chans : ChannelSince(c) \in Nat
           /\ \A c \in Chans : dropped_since[c] # NoStamp => ChannelSince(c) <= dropped_since[c]
<1>1. Clock \in Nat /\ Posted \subseteq Nat /\ \A e \in Posted : ChanOf(e) \in Chans /\ e > 0
    BY DEF CalmInv, Clock, Posted, ChanOf
<1>2. \A c \in Chans : last_seen[c] \in Nat /\ dropped_since[c] \in Nat /\ subscribe_since[c] \in Nat
    BY DEF CalmInv
<1>3. ASSUME NEW c \in Chans
      PROVE  /\ ChannelSince(c) \in Nat
             /\ dropped_since[c] # NoStamp => ChannelSince(c) <= dropped_since[c]
    <2>1. last_seen[c] \in Nat /\ dropped_since[c] \in Nat /\ subscribe_since[c] \in Nat
        BY <1>2
    <2> QED BY <2>1 DEF ChannelSince, OlderOf, NoStamp
<1> QED BY <1>1, <1>3

(* A REQ that is served: what could be recovered still can.                *)
LEMMA ServedKeepsRecoverable ==
    ASSUME CalmInv, NEW c \in Chans, NEW since \in Nat,
           wire' = wire \o Stored(c, since), UNCHANGED <<posts, overflowed, forwarded>>,
           \/ UNCHANGED dropped_since
           \/ since = ChannelSince(c) /\ dropped_since' = [dropped_since EXCEPT ![c] = NoStamp]
    PROVE  /\ wire' \in Seq(Deliveries')
           /\ \A e \in overflowed' \ forwarded' : Recoverable(e)'
<1>1. /\ Stored(c, since) \in Seq(Deliveries)
      /\ \A e \in Posted : ChanOf(e) = c /\ e >= since - Skew => Carries(Stored(c, since), e)
    BY StoredServes DEF CalmInv
<1>2. wire \in Seq(Deliveries) /\ Deliveries' = Deliveries
    BY DEF CalmInv, Deliveries, Posted, Clock, ChanOf
<1>3. wire' \in Seq(Deliveries')
    BY <1>1, <1>2
<1>4. ASSUME NEW e \in overflowed \ forwarded PROVE Recoverable(e)'
    <2>0. e \in Posted /\ Recoverable(e) /\ ChanOf(e)' = ChanOf(e)
        BY DEF CalmInv, ChanOf
    <2>1. e \in Nat /\ ChanOf(e) \in Chans /\ Skew \in Nat
        BY <2>0, CalmTypes, SubscriptionAssumption
    <2>2. CASE Carries(wire, e)
        <3>1. Carries(wire \o Stored(c, since), e)
            BY <1>1, <1>2, <2>2, CarriesConcat
        <3> QED BY <3>1 DEF Recoverable
    <2>3. CASE dropped_since[ChanOf(e)] # NoStamp /\ dropped_since[ChanOf(e)] <= e
        <3>1. CASE UNCHANGED dropped_since
            BY <2>0, <2>3, <3>1 DEF Recoverable
        <3>2. CASE dropped_since' = [dropped_since EXCEPT ![c] = NoStamp] /\ ChanOf(e) # c
            BY <2>0, <2>1, <2>3, <3>2 DEF Recoverable, CalmInv
        <3>3. CASE since = ChannelSince(c) /\ ChanOf(e) = c
            <4>1. since <= dropped_since[c] /\ dropped_since[c] \in Nat
                BY <2>3, <3>3, CalmTypes DEF CalmInv
            <4>2. e >= since - Skew
                BY <2>1, <2>3, <3>3, <4>1
            <4>3. Carries(Stored(c, since), e)
                BY <1>1, <2>0, <3>3, <4>2
            <4>4. Carries(wire \o Stored(c, since), e)
                BY <1>1, <1>2, <4>3, CarriesConcat
            <4> QED BY <4>4 DEF Recoverable
        <3> QED BY <3>1, <3>2, <3>3
    <2> QED BY <2>0, <2>2, <2>3 DEF Recoverable
<1> QED BY <1>3, <1>4

(* The steps of the task and of its surroundings that leave the wire and   *)
(* the stamps alone, or that a calm socket does not have.                  *)
LEMMA CalmQuietSteps ==
    ASSUME CalmInv, used \in Counters, Calm',
           \/ ProactiveResubscribe \/ NoticeDeath \/ Reconnect \/ ResubscribeEnds
           \/ GateExpires \/ NextEvent \/ SocketDies \/ NoticeRateLimited
           \/ ChannelDenied \/ RateLimited \/ ClosedByRelay
           \/ UNCHANGED subscriptionVars
           \/ \E c \in Chans : \/ SubscribeGated(c) \/ SubscribeOffline(c) \/ ParkInstead(c)
                               \/ ResubscribeFails(c) \/ DrainParked(c) \/ DrainRetry(c)
                               \/ RelayCloses(c)
    PROVE  CalmInv'
<1> USE DEF link, ledger, bgState
<1>1. CASE ProactiveResubscribe \/ ResubscribeEnds \/ NextEvent \/ UNCHANGED subscriptionVars
    <2>1. /\ UNCHANGED <<socket, gate, parked, resub_retry, posts, wire, last_seen, dropped_since,
                         subscribe_since, seen, forwarded, overflowed>>
          /\ task' # "offline"
        BY <1>1 DEF ProactiveResubscribe, ResubscribeEnds, NextEvent, subscriptionVars, CalmInv
    <2> QED BY <2>1 DEF CalmInv, Recoverable, Carries, ChanOf, Posted, Clock, Deliveries
<1>2. ~(SocketDies \/ NoticeRateLimited \/ \E c \in Chans : RelayCloses(c))
    BY SpendCounts DEF SocketDies, NoticeRateLimited, RelayCloses
<1>3. ~(ChannelDenied \/ RateLimited \/ ClosedByRelay)
    <2>1. wire # << >> => Head(wire).type = "EVENT"
        BY DEF CalmInv, Deliveries
    <2> QED BY <2>1 DEF ChannelDenied, RateLimited, ClosedByRelay, Closed, Message
<1>4. ~(NoticeDeath \/ Reconnect \/ GateExpires)
    BY DEF NoticeDeath, Reconnect, GateExpires, CalmInv
<1>5. ~\E c \in Chans : \/ SubscribeGated(c) \/ SubscribeOffline(c) \/ ParkInstead(c)
                        \/ ResubscribeFails(c) \/ DrainParked(c) \/ DrainRetry(c)
    BY DEF SubscribeGated, SubscribeOffline, ParkInstead, ResubscribeFails, NotSent, DrainParked,
           DrainRetry, CalmInv
<1> QED BY <1>1, <1>2, <1>3, <1>4, <1>5

(* Subscribing, and subscribing again from where events may be missing.    *)
LEMMA CalmSubscribes ==
    ASSUME CalmInv, used \in Counters, Calm', NEW c \in Chans, Subscribe(c) \/ Resubscribe(c)
    PROVE  CalmInv'
<1>0. /\ last_seen[c] \in Nat /\ dropped_since[c] \in Nat /\ subscribe_since[c] \in Nat
      /\ Clock \in Nat /\ ChannelSince(c) \in Nat
    BY CalmTypes DEF CalmInv
<1>1. CASE Subscribe(c)
    <2> DEFINE since == IF last_seen[c] # NoStamp THEN last_seen[c] ELSE subscribe_since'[c]
    <2>1. subscribe_since' = [subscribe_since EXCEPT ![c] = IF @ = NoStamp THEN Clock ELSE @]
        BY <1>1 DEF Subscribe, RecordIntent
    <2>2. subscribe_since' \in [Chans -> Nat] /\ since \in Nat
        BY <1>0, <2>1 DEF CalmInv
    <2>3. /\ Sent(c, since) /\ parked' = parked \ {c} /\ resub_retry' = resub_retry \ {c}
          /\ UNCHANGED <<last_seen, dropped_since, seen, gate, task, posts, forwarded, overflowed>>
        BY <1>1 DEF Subscribe
    <2>4. ReqServed(c, since, wire)
        BY <2>3, SpendCounts DEF Sent, ReqRefused, ReqUnnoticed, CalmInv
    <2> HIDE DEF since
    <2>5. wire' = wire \o Stored(c, since) /\ UNCHANGED socket
        BY <2>4 DEF ReqServed
    <2>6. /\ wire' \in Seq(Deliveries')
          /\ \A e \in overflowed' \ forwarded' : Recoverable(e)'
        BY <2>2, <2>3, <2>5, ServedKeepsRecoverable
    <2> QED BY <2>2, <2>3, <2>5, <2>6 DEF CalmInv, Posted, Clock
<1>2. CASE Resubscribe(c)
    <2>1. /\ Sent(c, ChannelSince(c)) /\ task # "offline"
          /\ dropped_since' = [dropped_since EXCEPT ![c] = NoStamp]
          /\ UNCHANGED <<last_seen, subscribe_since, seen, gate, parked, resub_retry, task, posts,
                         forwarded, overflowed>>
        BY <1>2 DEF Resubscribe, ledger
    <2>2. ReqServed(c, ChannelSince(c), wire)
        BY <2>1, SpendCounts DEF Sent, ReqRefused, ReqUnnoticed, CalmInv
    <2>3. wire' = wire \o Stored(c, ChannelSince(c)) /\ UNCHANGED socket
        BY <2>2 DEF ReqServed
    <2>4. /\ wire' \in Seq(Deliveries')
          /\ \A e \in overflowed' \ forwarded' : Recoverable(e)'
        BY <1>0, <2>1, <2>3, ServedKeepsRecoverable
    <2>5. dropped_since' \in [Chans -> Nat]
        BY <2>1 DEF CalmInv, NoStamp
    <2> QED BY <2>1, <2>3, <2>4, <2>5 DEF CalmInv, Posted, Clock
<1> QED BY <1>1, <1>2

(* Leaving a channel: nothing is owed to it any more.                      *)
LEMMA CalmUnsubscribe ==
    ASSUME CalmInv, NEW c \in Chans, Unsubscribe(c)
    PROVE  CalmInv'
<1>1. /\ last_seen' = [last_seen EXCEPT ![c] = NoStamp]
      /\ dropped_since' = [dropped_since EXCEPT ![c] = NoStamp]
      /\ subscribe_since' = [subscribe_since EXCEPT ![c] = NoStamp]
      /\ parked' = parked \ {c} /\ resub_retry' = resub_retry \ {c}
      /\ overflowed' = {e \in overflowed : ChanOf(e) # c}
      /\ UNCHANGED <<seen, gate, task, socket, wire, posts, forwarded>>
    BY DEF Unsubscribe, Forget
<1>2. /\ last_seen' \in [Chans -> Nat] /\ dropped_since' \in [Chans -> Nat]
      /\ subscribe_since' \in [Chans -> Nat]
    BY <1>1 DEF CalmInv, NoStamp
<1>3. ASSUME NEW e \in overflowed' \ forwarded' PROVE Recoverable(e)'
    <2>1. e \in overflowed \ forwarded /\ ChanOf(e) # c /\ ChanOf(e)' = ChanOf(e)
        BY <1>1 DEF ChanOf
    <2>2. ChanOf(e) \in Chans /\ Recoverable(e)
        BY <2>1, CalmTypes DEF CalmInv
    <2>3. dropped_since'[ChanOf(e)] = dropped_since[ChanOf(e)]
        BY <1>1, <2>1, <2>2 DEF CalmInv
    <2> QED BY <1>1, <2>1, <2>2, <2>3 DEF Recoverable, Carries
<1>4. overflowed' \subseteq Posted' /\ Deliveries' = Deliveries
    BY <1>1 DEF CalmInv, Posted, Clock, Deliveries, ChanOf
<1> QED BY <1>1, <1>2, <1>3, <1>4 DEF CalmInv

(* An event is read: it is known, it is forwarded, or it is dropped and    *)
(* the channel's stamp moves back to it.                                   *)
LEMMA CalmEvents ==
    ASSUME CalmInv, DuplicateEvent \/ ForwardEvent \/ DropEvent
    PROVE  CalmInv'
<1> DEFINE e == Head(wire).event
           c == Head(wire).chan
<1>1. /\ wire # << >> /\ wire' = Tail(wire)
      /\ UNCHANGED <<socket, task, gate, parked, resub_retry, posts, subscribe_since>>
    BY DEF DuplicateEvent, ForwardEvent, DropEvent, Message, Received, bgState
<1>2. wire \in Seq(Deliveries) /\ Head(wire) \in Deliveries
    BY <1>1 DEF CalmInv
<1>3. e \in Posted /\ c \in Chans /\ c = ChanOf(e)
    BY <1>2 DEF Deliveries
<1>4. e \in Nat /\ e > 0 /\ last_seen[c] \in Nat /\ dropped_since[c] \in Nat
    BY <1>3, CalmTypes DEF CalmInv
<1>5. /\ Tail(wire) \in Seq(Deliveries) /\ Deliveries' = Deliveries /\ Posted' = Posted
      /\ \A d : ChanOf(d)' = ChanOf(d)
    BY <1>1, <1>2 DEF Deliveries, Posted, Clock, ChanOf
<1>6. \A d : Carries(wire, d) /\ d # e => Carries(wire, d)'
    BY <1>1, <1>2, CarriesTail DEF Carries
<1> HIDE DEF e, c
<1>7. CASE DuplicateEvent
    <2>1. e \in seen /\ UNCHANGED <<last_seen, dropped_since, seen, forwarded, overflowed>>
        BY <1>7 DEF DuplicateEvent, bgState, ledger, e
    <2>2. ASSUME NEW d \in overflowed \ forwarded PROVE Recoverable(d)'
        BY <1>5, <1>6, <2>1 DEF CalmInv, Recoverable
    <2> QED BY <1>1, <1>5, <2>1, <2>2 DEF CalmInv
<1>8. CASE ForwardEvent
    <2>1. /\ seen' = seen \cup {e} /\ forwarded' = forwarded \cup {e}
          /\ last_seen' = [last_seen EXCEPT ![c] = NewerOf(@, e)]
          /\ UNCHANGED <<dropped_since, overflowed>>
        BY <1>8 DEF ForwardEvent, e, c
    <2>2. ASSUME NEW d \in overflowed' \ forwarded' PROVE Recoverable(d)'
        BY <1>5, <1>6, <2>1 DEF CalmInv, Recoverable
    <2>3. last_seen' \in [Chans -> Nat]
        BY <1>3, <1>4, <2>1 DEF CalmInv, NewerOf
    <2> QED BY <1>1, <1>5, <2>1, <2>2, <2>3 DEF CalmInv
<1>9. CASE DropEvent
    <2>1. /\ last_seen' = [last_seen EXCEPT ![c] = NewerOf(@, e)]
          /\ dropped_since' =
                [dropped_since EXCEPT ![c] = IF @ = NoStamp THEN e ELSE OlderOf(@, e)]
          /\ overflowed' = overflowed \cup {e}
          /\ UNCHANGED <<seen, forwarded>>
        BY <1>9 DEF DropEvent, e, c
    <2>2. /\ last_seen' \in [Chans -> Nat] /\ dropped_since' \in [Chans -> Nat]
          /\ dropped_since'[c] # NoStamp /\ dropped_since'[c] <= e
          /\ dropped_since[c] # NoStamp => dropped_since'[c] <= dropped_since[c]
          /\ \A x \in Chans : x # c => dropped_since'[x] = dropped_since[x]
        BY <1>3, <1>4, <2>1 DEF CalmInv, NewerOf, OlderOf, NoStamp
    <2>3. ASSUME NEW d \in overflowed' \ forwarded' PROVE Recoverable(d)'
        <3>1. CASE d = e
            BY <1>3, <1>5, <2>2, <3>1 DEF Recoverable
        <3>2. CASE d # e
            <4>1. d \in overflowed \ forwarded /\ Recoverable(d) /\ d \in Posted
                BY <2>1, <3>2 DEF CalmInv
            <4>2. d \in Nat /\ ChanOf(d) \in Chans /\ dropped_since'[ChanOf(d)] \in Nat
                  /\ dropped_since[ChanOf(d)] \in Nat
                BY <2>2, <4>1, CalmTypes DEF CalmInv
            <4>3. CASE Carries(wire, d)
                BY <1>6, <3>2, <4>3 DEF Recoverable
            <4>4. CASE dropped_since[ChanOf(d)] # NoStamp /\ dropped_since[ChanOf(d)] <= d
                <5>1. dropped_since'[ChanOf(d)] # NoStamp /\ dropped_since'[ChanOf(d)] <= d
                    BY <2>2, <4>2, <4>4
                <5> QED BY <1>5, <5>1 DEF Recoverable
            <4> QED BY <4>1, <4>3, <4>4 DEF Recoverable
        <3> QED BY <3>1, <3>2
    <2>4. overflowed' \subseteq Posted'
        BY <1>3, <1>5, <2>1 DEF CalmInv
    <2> QED BY <1>1, <1>5, <2>1, <2>2, <2>3, <2>4 DEF CalmInv
<1> QED BY <1>7, <1>8, <1>9

(* An event is posted: the events before it keep their channels.           *)
LEMMA CalmPost ==
    ASSUME CalmInv, NEW c \in Chans, Post(c)
    PROVE  CalmInv'
<1>0. PICK k \in Nat : k = Clock + 1
    BY CalmTypes
<1> DEFINE new == [type |-> "EVENT", chan |-> c, event |-> k]
<1>1. /\ posts' = Append(posts, c)
      /\ wire' = wire \/ wire' = Append(wire, new)
      /\ UNCHANGED <<socket, task, gate, parked, resub_retry, last_seen, dropped_since,
                     subscribe_since, seen, forwarded, overflowed>>
    BY <1>0 DEF Post, bgState, ledger
<1>2. posts \in Seq(Chans) /\ Len(posts) \in Nat /\ Clock = Len(posts) + 1
    BY DEF CalmInv, Clock
<1>3. posts' \in Seq(Chans) /\ Len(posts') = Len(posts) + 1 /\ posts'[Len(posts) + 1] = c
      /\ \A i \in 1 .. Len(posts) : posts'[i] = posts[i]
    BY <1>1, <1>2
<1>4. Clock' = Clock + 1 /\ Posted' = 2 .. Clock + 1 /\ Posted = 2 .. Clock
    BY <1>2, <1>3 DEF Clock, Posted
<1>5. \A e \in Posted : ChanOf(e)' = ChanOf(e)
    <2> TAKE e \in Posted
    <2>1. e - 1 \in 1 .. Len(posts)
        BY <1>2, <1>4
    <2> QED BY <1>3, <2>1 DEF ChanOf
<1>6. ChanOf(k)' = c
    BY <1>0, <1>2, <1>3 DEF ChanOf
<1>7. Posted \subseteq Posted' /\ k \in Posted'
    BY <1>0, <1>2, <1>4
<1>8. ASSUME NEW m \in Deliveries PROVE m \in Deliveries'
    BY <1>5, <1>7 DEF Deliveries
<1>9. new \in Deliveries'
    BY <1>6, <1>7 DEF Deliveries
<1> HIDE DEF new
<1>10. wire \in Seq(Deliveries) /\ wire \in Seq(Deliveries') /\ new \in Deliveries'
    BY <1>8, <1>9 DEF CalmInv
<1>11. wire' \in Seq(Deliveries')
    BY <1>1, <1>10
<1>12. \A e : Carries(wire, e) => Carries(wire, e)'
    <2> SUFFICES ASSUME NEW e, Carries(wire, e) PROVE Carries(wire', e)
        BY DEF Carries
    <2>1. PICK i \in 1 .. Len(wire) : wire[i].event = e
        BY DEF Carries
    <2>2. i \in 1 .. Len(wire') /\ wire'[i] = wire[i]
        BY <1>1, <1>10
    <2> QED BY <2>1, <2>2 DEF Carries
<1>13. ASSUME NEW e \in overflowed \ forwarded PROVE Recoverable(e)'
    <2>1. e \in Posted /\ Recoverable(e)
        BY DEF CalmInv
    <2> QED BY <1>1, <1>5, <1>12, <2>1 DEF Recoverable
<1>14. overflowed' \subseteq Posted'
    BY <1>1, <1>7 DEF CalmInv
<1> QED BY <1>1, <1>3, <1>11, <1>13, <1>14 DEF CalmInv

(* The invariant says what the run's property says.                        *)
LEMMA BackpressureInvImplies == BackpressureInv => BackpressureLosesNothing
<1> SUFFICES ASSUME CalmInv, NEW e \in overflowed \ forwarded
             PROVE  \/ \E i \in DOMAIN wire : wire[i].type = "EVENT" /\ wire[i].event = e
                    \/ ChannelSince(ChanOf(e)) - Skew <= e
    BY DEF BackpressureInv, Calm, BackpressureLosesNothing, DroppedIsReplayed
<1>1. e \in Posted /\ Recoverable(e)
    BY DEF CalmInv
<1>2. e \in Nat /\ ChanOf(e) \in Chans /\ Skew \in Nat /\ ChannelSince(ChanOf(e)) \in Nat
    BY <1>1, CalmTypes, SubscriptionAssumption
<1>3. CASE Carries(wire, e)
    <2>1. PICK i \in 1 .. Len(wire) : wire[i].event = e
        BY <1>3 DEF Carries
    <2>2. i \in DOMAIN wire /\ wire[i] \in Deliveries
        BY DEF CalmInv
    <2> QED BY <2>1, <2>2 DEF Deliveries
<1>4. CASE dropped_since[ChanOf(e)] # NoStamp /\ dropped_since[ChanOf(e)] <= e
    <2>1. ChannelSince(ChanOf(e)) <= dropped_since[ChanOf(e)] /\ dropped_since[ChanOf(e)] \in Nat
        BY <1>2, <1>4, CalmTypes DEF CalmInv
    <2> QED BY <1>2, <1>4, <2>1
<1> QED BY <1>1, <1>3, <1>4 DEF Recoverable

(* Of the relay client (record_event, the dropped_since stamp,             *)
(* channel_since and resubscribe_after_reconnect): for any channels, any   *)
(* capacity of the event channel and any skew, as long as the socket lives *)
(* and the relay refuses no REQ, an event that was dropped is on its way   *)
(* again, or the next REQ of its channel asks for it.                      *)
THEOREM BackpressureAlwaysLosesNothing == SubscriptionSpec => []BackpressureLosesNothing
<1>1. SubscriptionInit => BackpressureInv
    <2> SUFFICES ASSUME SubscriptionInit PROVE BackpressureInv
        OBVIOUS
    <2>1. used \in Counters
        BY DEF SubscriptionInit, Counters
    <2>2. posts \in Seq(Chans) /\ wire \in Seq(Deliveries)
        BY DEF SubscriptionInit
    <2> QED BY <2>1, <2>2 DEF SubscriptionInit, BackpressureInv, CalmInv, NoStamp
<1>2. BackpressureInv /\ [SubscriptionNext]_subscriptionVars => BackpressureInv'
    <2> SUFFICES ASSUME BackpressureInv, [SubscriptionNext]_subscriptionVars, Calm'
                 PROVE  CalmInv'
        BY CalmOnlyEnds DEF BackpressureInv
    <2>1. used \in Counters /\ CalmInv
        BY CalmOnlyEnds DEF BackpressureInv
    <2> QED BY <2>1, CalmQuietSteps, CalmSubscribes, CalmUnsubscribe, CalmEvents, CalmPost
            DEF SubscriptionNext, HandleMessage, ResubscribeStep
<1> QED BY <1>1, <1>2, BackpressureInvImplies, PTL DEF SubscriptionSpec

-----------------------------------------------------------------------------
(* A set of positions that holds every position before one of its own is   *)
(* a prefix, as long as the set is large.                                  *)
LEMMA DownClosedIsPrefix ==
    ASSUME NEW n \in Nat, NEW S \in SUBSET (1 .. n), \A i \in S : \A j \in 1 .. i : j \in S
    PROVE  Cardinality(S) \in 0 .. n /\ S = 1 .. Cardinality(S)
<1> DEFINE T == {m \in Nat : m + 1 \notin S}
<1>1. n \in T /\ T \subseteq Nat
    OBVIOUS
<1>2. PICK k \in T : \A m \in T : ~(m < k)
    <2>1. PICK k \in T : \A m \in T : <<m, k>> \notin OpToRel(<, Nat)
        BY <1>1, NatLessThanWellFounded, WFMin
    <2>2. \A m \in T : ~(m < k)
        BY <2>1 DEF OpToRel
    <2> QED BY <2>2
<1>3. S = 1 .. k
    <2>1. ASSUME NEW i \in S PROVE i \in 1 .. k
        BY <1>2
    <2>2. ASSUME NEW i \in 1 .. k PROVE i \in S
        BY <1>2
    <2> QED BY <2>1, <2>2
<1>4. Cardinality(S) = k
    <2>1. k \in Nat
        BY <1>2
    <2>2. Cardinality(1 .. k) = k
        BY <2>1, FS_Interval
    <2> QED BY <1>3, <2>2
<1>5. k <= n
    BY <1>1, <1>2
<1> QED BY <1>2, <1>3, <1>4, <1>5

Sorted(times) == \A i, j \in 1 .. Len(times) : i <= j => times[i] <= times[j]

(* retain drops the times before some position, and they are the old ones. *)
LEMMA RecentIsSuffix ==
    ASSUME instant \in Nat, NEW times \in Seq(Nat), Sorted(times),
           \A i \in 1 .. Len(times) : times[i] <= instant
    PROVE  \E k \in 0 .. Len(times) :
               /\ Recent(times) = SubSeq(times, k + 1, Len(times))
               /\ \A i \in 1 .. Len(times) : times[i] + Window > instant <=> i > k
<1> DEFINE n == Len(times)
           old == {i \in DOMAIN times : instant - times[i] >= Window}
<1>0. Window \in Nat /\ n \in Nat /\ DOMAIN times = 1 .. n /\ \A i \in 1 .. n : times[i] \in Nat
    BY CircuitAssumption
<1>1. \A i \in 1 .. n : i \in old <=> ~(times[i] + Window > instant)
    BY <1>0
<1>2. old \in SUBSET (1 .. n)
    BY <1>0
<1>3. \A i \in old : \A j \in 1 .. i : j \in old
    <2> SUFFICES ASSUME NEW i \in old, NEW j \in 1 .. i PROVE j \in old
        OBVIOUS
    <2>1. i \in 1 .. n /\ j \in 1 .. n /\ j <= i
        BY <1>0, <1>2
    <2>2. times[j] <= times[i]
        BY <2>1 DEF Sorted
    <2>3. times[i] \in Nat /\ times[j] \in Nat
        BY <1>0, <2>1
    <2>4. ~(times[i] + Window > instant)
        BY <1>1, <2>1
    <2>5. ~(times[j] + Window > instant)
        BY <1>0, <2>2, <2>3, <2>4
    <2> QED BY <1>1, <2>1, <2>5
<1>4. Recent(times) = SubSeq(times, Cardinality(old) + 1, Len(times))
    BY DEF Recent
<1> HIDE DEF old, n
<1>5. Cardinality(old) \in 0 .. n /\ old = 1 .. Cardinality(old)
    BY <1>0, <1>2, <1>3, DownClosedIsPrefix
<1>6. \A i \in 1 .. n : times[i] + Window > instant <=> i > Cardinality(old)
    BY <1>0, <1>1, <1>5
<1> QED BY <1>4, <1>5, <1>6 DEF n

(* A closed circuit has seen every crash of the last window: counted from  *)
(* the end, each has an entry of crash_times that is no older, and there   *)
(* are fewer entries than the threshold.                                   *)
CrashesCounted ==
    /\ Len(crash_times) < Threshold
    /\ \A j \in 0 .. Len(crashes) - 1 :
          crashes[Len(crashes) - j] + Window > instant =>
              /\ j < Len(crash_times)
              /\ crashes[Len(crashes) - j] <= crash_times[Len(crash_times) - j]

CircuitInv ==
    /\ instant \in Nat \ {0} /\ open_until \in Nat
    /\ crash_times \in Seq(Nat) /\ crashes \in Seq(Nat)
    /\ \A i \in 1 .. Len(crash_times) : crash_times[i] <= instant
    /\ \A i \in 1 .. Len(crashes) : crashes[i] <= instant
    /\ Sorted(crash_times)
    /\ slot # "empty" => open_until = None
    /\ open_until = None => CrashesCounted
    /\ open_until # None => \A i \in 1 .. Len(crashes) : crashes[i] + Cooldown <= open_until
    /\ CrashLoopBounded

(* The crash that comes next is Threshold crashes after one that is old,   *)
(* because a closed circuit counts less than Threshold recent ones.        *)
LEMMA NextCrashIsBounded ==
    ASSUME CircuitInv, open_until = None, crashes' = Append(crashes, instant)
    PROVE  CrashLoopBounded'
<1> DEFINE n == Len(crashes)
<1>0. Threshold \in Nat /\ Threshold > 0 /\ Window \in Nat
    BY CircuitAssumption
<1>1. n \in Nat /\ \A i \in 1 .. n : crashes[i] \in Nat
    BY DEF CircuitInv
<1>2. /\ DOMAIN crashes' = 1 .. n + 1
      /\ \A i \in 1 .. n : crashes'[i] = crashes[i]
      /\ crashes'[n + 1] = instant
    BY DEF CircuitInv
<1> SUFFICES ASSUME NEW i \in 1 .. n + 1, i + Threshold \in 1 .. n + 1
             PROVE  crashes'[i + Threshold] - crashes'[i] >= Window
    BY <1>2 DEF CrashLoopBounded
<1>3. i \in 1 .. n /\ crashes'[i] = crashes[i]
    BY <1>0, <1>1, <1>2
<1>4. CASE i + Threshold \in 1 .. n
    <2>1. DOMAIN crashes = 1 .. n
        BY DEF CircuitInv
    <2>2. crashes[i + Threshold] - crashes[i] >= Window
        BY <1>3, <1>4, <2>1 DEF CircuitInv, CrashLoopBounded
    <2> QED BY <1>2, <1>3, <1>4, <2>2
<1>5. CASE i + Threshold = n + 1
    <2> DEFINE j == Threshold - 1
    <2>1. j \in 0 .. n - 1 /\ n - j = i
        BY <1>0, <1>1, <1>3, <1>5
    <2>2. Len(crash_times) < Threshold /\ Len(crash_times) \in Nat
        BY DEF CircuitInv, CrashesCounted
    <2>3. ~(j < Len(crash_times))
        BY <1>0, <2>2
    <2>4. ~(crashes[n - j] + Window > instant)
        BY <2>1, <2>3 DEF CircuitInv, CrashesCounted
    <2>5. crashes[i] + Window <= instant
        BY <1>0, <1>1, <1>3, <2>1, <2>4 DEF CircuitInv
    <2>6. crashes'[i + Threshold] = instant
        BY <1>2, <1>5
    <2>7. crashes[i] \in Nat /\ instant \in Nat
        BY <1>1, <1>3 DEF CircuitInv
    <2> QED BY <1>0, <1>3, <2>5, <2>6, <2>7
<1> QED BY <1>0, <1>1, <1>3, <1>4, <1>5

(* A closed circuit that records a crash: what it then counts, sorted and  *)
(* up to now, and every recent crash among it.                             *)
LEMMA CrashIsCounted ==
    ASSUME CircuitInv, open_until = None, UNCHANGED instant,
           crash_times' = Recent(Append(crash_times, instant)),
           crashes' = Append(crashes, instant)
    PROVE  /\ crash_times' \in Seq(Nat)
           /\ \A i \in 1 .. Len(crash_times') : crash_times'[i] <= instant
           /\ Sorted(crash_times')
           /\ Len(crash_times') < Threshold => CrashesCounted'
<1> DEFINE times == Append(crash_times, instant)
           n == Len(crash_times)
           c == Len(crashes)
<1>0. Threshold \in Nat /\ Threshold > 0 /\ Window \in Nat /\ Window > 0
    BY CircuitAssumption
<1>1. /\ n \in Nat /\ c \in Nat /\ instant \in Nat
      /\ \A i \in 1 .. n : crash_times[i] \in Nat /\ crash_times[i] <= instant
      /\ \A i \in 1 .. c : crashes[i] \in Nat
    BY DEF CircuitInv
<1>2. /\ times \in Seq(Nat) /\ Len(times) = n + 1
      /\ \A i \in 1 .. n : times[i] = crash_times[i]
      /\ times[n + 1] = instant
    BY DEF CircuitInv
<1>3. \A i \in 1 .. n + 1 : times[i] \in Nat /\ times[i] <= instant
    BY <1>1, <1>2
<1>4. Sorted(times)
    <2> SUFFICES ASSUME NEW i \in 1 .. n + 1, NEW j \in 1 .. n + 1, i <= j
                 PROVE  times[i] <= times[j]
        BY <1>2 DEF Sorted
    <2>1. CASE j = n + 1
        BY <1>2, <1>3, <2>1
    <2>2. CASE j \in 1 .. n
        BY <1>1, <1>2, <2>2 DEF CircuitInv, Sorted
    <2> QED BY <1>1, <2>1, <2>2
<1> HIDE DEF times, n
<1>5. PICK k \in 0 .. n + 1 :
          /\ Recent(times) = SubSeq(times, k + 1, n + 1)
          /\ \A i \in 1 .. n + 1 : times[i] + Window > instant <=> i > k
    BY <1>1, <1>2, <1>3, <1>4, RecentIsSuffix
<1>6. crash_times' = SubSeq(times, k + 1, n + 1)
    BY <1>5 DEF times
<1>7. k <= n
    BY <1>0, <1>1, <1>2, <1>5
<1>8. /\ crash_times' \in Seq(Nat)
      /\ Len(crash_times') = n + 1 - k
      /\ \A i \in 1 .. n + 1 - k : crash_times'[i] = times[k + i]
    BY <1>1, <1>2, <1>5, <1>6, <1>7
<1>9. \A i \in 1 .. n + 1 - k : k + i \in 1 .. n + 1
    BY <1>1, <1>5, <1>7
<1>10. \A i \in 1 .. Len(crash_times') : crash_times'[i] <= instant
    BY <1>3, <1>8, <1>9
<1>11. Sorted(crash_times')
    <2> SUFFICES ASSUME NEW i \in 1 .. n + 1 - k, NEW j \in 1 .. n + 1 - k, i <= j
                 PROVE  crash_times'[i] <= crash_times'[j]
        BY <1>8 DEF Sorted
    <2>1. k + i \in 1 .. n + 1 /\ k + j \in 1 .. n + 1 /\ k + i <= k + j
        BY <1>1, <1>5, <1>7
    <2> QED BY <1>2, <1>4, <1>8, <2>1 DEF Sorted
<1>12. ASSUME Len(crash_times') < Threshold PROVE CrashesCounted'
    <2>1. /\ Len(crashes') = c + 1
          /\ \A i \in 1 .. c : crashes'[i] = crashes[i]
          /\ crashes'[c + 1] = instant
        BY DEF CircuitInv
    <2> HIDE DEF c
    <2> SUFFICES ASSUME NEW j \in 0 .. c, crashes'[c + 1 - j] + Window > instant
                 PROVE  /\ j < n + 1 - k
                        /\ crashes'[c + 1 - j] <= crash_times'[n + 1 - k - j]
        BY <1>1, <1>8, <1>12, <2>1 DEF CrashesCounted
    <2>2. CASE j = 0
        <3>1. n + 1 - k \in 1 .. n + 1 - k
            BY <1>1, <1>5, <1>7
        <3>2. crash_times'[n + 1 - k] = times[n + 1]
            BY <1>1, <1>5, <1>8, <3>1
        <3> QED BY <1>1, <1>2, <1>5, <1>7, <2>1, <2>2, <3>2
    <2>3. CASE j > 0
        <3> DEFINE q == j - 1
        <3>1. /\ q \in 0 .. c - 1 /\ c - q = c + 1 - j /\ c - q \in 1 .. c
              /\ crashes'[c + 1 - j] = crashes[c - q]
            BY <1>1, <2>1, <2>3
        <3>2. q < n /\ crashes[c - q] <= crash_times[n - q]
            BY <3>1 DEF CircuitInv, CrashesCounted, c, n
        <3>3. n - q \in 1 .. n /\ times[n - q] = crash_times[n - q]
            BY <1>1, <1>2, <3>1, <3>2
        <3>4. times[n - q] + Window > instant
            BY <1>0, <1>1, <3>1, <3>2, <3>3
        <3>5. n - q > k
            BY <1>1, <1>5, <3>3, <3>4
        <3>6. n + 1 - k - j \in 1 .. n + 1 - k /\ k + (n + 1 - k - j) = n - q
            BY <1>1, <1>5, <2>3, <3>5
        <3>7. crash_times'[n + 1 - k - j] = times[n - q]
            BY <1>8, <3>6
        <3> QED BY <1>1, <1>5, <3>1, <3>2, <3>3, <3>5, <3>7
    <2>4. j = 0 \/ j > 0
        BY <1>1
    <2> QED BY <2>2, <2>3, <2>4, Zenon
<1> QED BY <1>8, <1>10, <1>11, <1>12

(* The half-open probe: every crash is a cooldown away, and so out of the  *)
(* window.                                                                 *)
LEMMA ProbeStartsClean ==
    ASSUME CircuitInv, CooledDown, HalfOpen, UNCHANGED <<instant, crashes>>
    PROVE  /\ crash_times' \in Seq(Nat)
           /\ \A i \in 1 .. Len(crash_times') : crash_times'[i] <= instant
           /\ Sorted(crash_times')
           /\ CrashesCounted'
<1>0. Threshold \in Nat /\ Threshold > 0 /\ Window \in Nat /\ Cooldown \in Nat /\ Window <= Cooldown
    BY CircuitAssumption
<1>1. instant \in Nat /\ open_until \in Nat /\ instant >= open_until
    BY DEF CircuitInv, CooledDown
<1>2. /\ crash_times' \in Seq(Nat) /\ Len(crash_times') = Threshold - 1
      /\ \A i \in 1 .. Threshold - 1 : crash_times'[i] = instant
    BY <1>0, <1>1 DEF HalfOpen
<1>3. \A i \in 1 .. Len(crashes) : crashes[i] + Cooldown <= open_until /\ crashes[i] \in Nat
    BY DEF CircuitInv, CooledDown
<1>4. \A i \in 1 .. Len(crashes) : ~(crashes[i] + Window > instant)
    BY <1>0, <1>1, <1>3
<1>5. \A j \in 0 .. Len(crashes) - 1 : Len(crashes) - j \in 1 .. Len(crashes)
    BY DEF CircuitInv
<1>6. CrashesCounted'
    BY <1>0, <1>2, <1>4, <1>5 DEF CrashesCounted
<1>7. Sorted(crash_times')
    BY <1>1, <1>2 DEF Sorted
<1> QED BY <1>1, <1>2, <1>6, <1>7

(* Every step of the slot and of its circuit keeps the invariant.          *)
LEMMA CircuitStep == CircuitInv /\ [CircuitNext]_circuitVars => CircuitInv'
<1> SUFFICES ASSUME CircuitInv, [CircuitNext]_circuitVars PROVE CircuitInv'
    OBVIOUS
<1>0. Threshold \in Nat /\ Threshold > 0 /\ Window \in Nat /\ Cooldown \in Nat
    BY CircuitAssumption
<1>1. CASE Crash
    <2>1. open_until = None /\ CountCrash
        BY <1>1 DEF Crash, CircuitInv, CooledDown
    <2>2. crashes' = Append(crashes, instant) /\ UNCHANGED instant
        BY <1>1 DEF Crash
    <2>3. crash_times' = Recent(Append(crash_times, instant))
        BY <2>1 DEF CountCrash
    <2>4. CrashLoopBounded'
        BY <2>1, <2>2, NextCrashIsBounded
    <2>5. /\ crash_times' \in Seq(Nat)
          /\ \A i \in 1 .. Len(crash_times') : crash_times'[i] <= instant
          /\ Sorted(crash_times')
          /\ Len(crash_times') < Threshold => CrashesCounted'
        BY <2>1, <2>2, <2>3, CrashIsCounted
    <2>6. /\ crashes' \in Seq(Nat)
          /\ \A i \in 1 .. Len(crashes') : crashes'[i] <= instant /\ crashes'[i] \in Nat
        BY <2>2 DEF CircuitInv
    <2>7. CASE Len(crash_times') >= Threshold
        <3>1. open_until' = instant + Cooldown /\ slot' = "empty"
            BY <2>1, <2>7 DEF CountCrash
        <3>2. open_until' \in Nat /\ open_until' # None
            BY <1>0, <3>1 DEF CircuitInv, None
        <3>3. \A i \in 1 .. Len(crashes') : crashes'[i] + Cooldown <= open_until'
            BY <1>0, <2>6, <3>1 DEF CircuitInv
        <3> QED BY <2>2, <2>4, <2>5, <2>6, <3>1, <3>2, <3>3 DEF CircuitInv
    <2>8. CASE ~(Len(crash_times') >= Threshold)
        <3>1. open_until' = None /\ Len(crash_times') < Threshold
            BY <1>0, <2>1, <2>5, <2>8 DEF CountCrash
        <3> QED BY <2>2, <2>4, <2>5, <2>6, <3>1 DEF CircuitInv, None
    <2> QED BY <2>7, <2>8
<1>2. CASE Refill
    <2>1. CASE CooledDown /\ HalfOpen
        <3>1. UNCHANGED <<instant, crashes>> /\ open_until' = None
            BY <1>2, <2>1 DEF Refill, HalfOpen
        <3>2. /\ crash_times' \in Seq(Nat)
              /\ \A i \in 1 .. Len(crash_times') : crash_times'[i] <= instant
              /\ Sorted(crash_times')
              /\ CrashesCounted'
            BY <2>1, <3>1, ProbeStartsClean
        <3> QED BY <3>1, <3>2 DEF CircuitInv, CrashLoopBounded, None
    <2>2. CASE open_until = None /\ UNCHANGED <<crash_times, open_until, instant, crashes>>
        BY <2>2 DEF CircuitInv, CrashesCounted, CrashLoopBounded, Sorted
    <2> QED BY <1>2, <2>1, <2>2 DEF Refill
<1>3. CASE SpawnSucceeds
    BY <1>3 DEF SpawnSucceeds, CircuitInv, CrashesCounted, CrashLoopBounded, Sorted
<1>4. CASE SpawnFails
    <2>1. open_until' = instant + Cooldown /\ slot' = "empty" /\ UNCHANGED <<instant, crash_times, crashes>>
        BY <1>4 DEF SpawnFails
    <2>2. open_until' \in Nat /\ open_until' # None
        BY <1>0, <2>1 DEF CircuitInv, None
    <2>3. \A i \in 1 .. Len(crashes) : crashes[i] + Cooldown <= open_until'
        BY <1>0, <2>1 DEF CircuitInv
    <2> QED BY <2>1, <2>2, <2>3 DEF CircuitInv, CrashLoopBounded, Sorted
<1>5. CASE CircuitTick
    <2>1. instant' = instant + 1 /\ UNCHANGED <<crash_times, open_until, slot, crashes>>
        BY <1>5 DEF CircuitTick
    <2>2. /\ instant' \in Nat \ {0} /\ instant \in Nat
          /\ \A i \in 1 .. Len(crash_times) : crash_times[i] \in Nat /\ crash_times[i] <= instant'
          /\ \A i \in 1 .. Len(crashes) : crashes[i] \in Nat /\ crashes[i] <= instant'
        BY <2>1 DEF CircuitInv
    <2>3. open_until = None => CrashesCounted'
        <3> SUFFICES ASSUME CrashesCounted PROVE CrashesCounted'
            BY DEF CircuitInv
        <3>1. \A j \in 0 .. Len(crashes) - 1 : Len(crashes) - j \in 1 .. Len(crashes)
            BY DEF CircuitInv
        <3>2. \A i \in 1 .. Len(crashes) :
                 crashes[i] + Window > instant' => crashes[i] + Window > instant
            BY <1>0, <2>1, <2>2
        <3> QED BY <2>1, <3>1, <3>2 DEF CrashesCounted
    <2> QED BY <2>1, <2>2, <2>3 DEF CircuitInv, CrashLoopBounded, Sorted
<1>6. CASE UNCHANGED circuitVars
    BY <1>6 DEF circuitVars, CircuitInv, CrashesCounted, CrashLoopBounded, Sorted
<1> QED BY <1>1, <1>2, <1>3, <1>4, <1>5, <1>6 DEF CircuitNext

(* Of the circuit breaker (SlotCircuit::record_crash, can_refill and       *)
(* mark_spawn_failed): for every threshold, window and cooldown no shorter *)
(* than the window, the agents of a slot crash at most Threshold times in  *)
(* any Window.                                                             *)
THEOREM CrashLoopAlwaysBounded == CircuitSpec => []CrashLoopBounded
<1>1. CircuitInit => CircuitInv
    BY CircuitAssumption
       DEF CircuitInit, CircuitInv, CrashesCounted, CrashLoopBounded, Sorted, None
<1>2. CircuitInv => CrashLoopBounded
    BY DEF CircuitInv
<1> QED BY <1>1, <1>2, CircuitStep, PTL DEF CircuitSpec
-----------------------------------------------------------------------------
(* TurnClock: the in-flight backstop of queue.rs never fires under a live *)
(* turn, for all timeouts whose sum the buffer covers.                    *)

(* The clock's inductive invariant holds when the queue has nothing in     *)
(* flight yet.                                                             *)
LEMMA ClockInvInit == ClockInit => ClockInv
BY DEF ClockInit, ClockInv, ClockTypeOK, Phases, Running, Reading, Limit

(* What a turn does before its prompt, for the arithmetic below: at least  *)
(* its setup and the fetches, and a whole max_turn_duration more with an   *)
(* initial_message.                                                        *)
LEMMA OverheadFacts ==
    /\ Overhead \in Nat
    /\ Setup + Context <= Overhead
    /\ InitialMessage => Overhead = Setup + Context + MaxTurn
BY ClockAssumption DEF Overhead

(* What a turn may do after its prompt: at least the reply, and at least a *)
(* cleanup that a write delays at both ends.                               *)
LEMMA EndingFacts ==
    /\ Ending \in Nat
    /\ Finalize <= Ending
    /\ CleanupFloor + WriteTimeout + WriteTimeout <= Ending
    /\ Aftermath = Ending + MetricTimeout + ResultLatency
    /\ Overhead + Aftermath < Buffer \/ ~BufferSuffices
    /\ Overhead + AckLatency < Buffer \/ ~BufferSuffices
BY ClockAssumption, OverheadFacts DEF Ending, Aftermath, Later, BufferSuffices

(* An ack that is handled in time gives the phase under way all it may     *)
(* need: from then on the deadline covers it without the ack.              *)
LEMMA AckExtends ==
    ASSUME ClockTypeOK, phase # "idle", NEW t \in acks, HandleSteerAck(t)
    PROVE  /\ Covered(Setup) \/ AckUnderway(0) => Covered(Setup)'
           /\ Ahead(Overhead) \/ until <= now + Context => Ahead(Overhead)'
           /\ Ahead(Setup) => Ahead(Setup)'
           /\ \A spare \in Nat :
                  Within(spare) => until' + Buffer <= deadline' + (Overhead + spare)
<1>1. /\ now \in Nat /\ until \in Nat /\ deadline \in Nat /\ Overhead \in Nat
      /\ MaxTurn \in Nat /\ Buffer \in Nat /\ Setup \in Nat /\ Context \in Nat
      /\ Setup + Context <= Overhead
    BY ClockAssumption, OverheadFacts DEF ClockTypeOK
<1>2. PICK d \in Nat : /\ deadline' = d /\ deadline <= d /\ now + MaxTurn + Buffer <= d
                       /\ now' = now /\ until' = until
  <2>1. deadline' = IF deadline < now + MaxTurn + Buffer THEN now + MaxTurn + Buffer
                    ELSE deadline
    BY DEF HandleSteerAck, Later
  <2>2. now' = now /\ until' = until
    BY DEF HandleSteerAck
  <2> QED BY <1>1, <2>1, <2>2
<1>3. \A k \in Nat : until + Buffer <= deadline + k => until + Buffer <= d + k
    BY <1>1, <1>2
<1>4. \A k \in Nat : until <= now + MaxTurn + k => until + Buffer <= d + k
    BY <1>1, <1>2
<1>5. Covered(Setup) \/ AckUnderway(0) => Covered(Setup)'
  <2>1. AckUnderway(0) => until + Buffer <= d + 0
    BY <1>4 DEF AckUnderway
  <2> QED BY <1>1, <1>2, <1>3, <2>1 DEF Covered
<1>6. Ahead(Overhead) \/ until <= now + Context => Ahead(Overhead)'
    BY <1>1, <1>2 DEF Ahead
<1>7. Ahead(Setup) => Ahead(Setup)'
    BY <1>1, <1>2 DEF Ahead
<1>8. ASSUME NEW spare \in Nat, Within(spare)
      PROVE  until + Buffer <= d + (Overhead + spare)
  <2>1. CASE Covered(Overhead + spare)
    BY <1>1, <1>2, <2>1 DEF Covered
  <2>2. CASE AckUnderway(spare)
    BY <1>1, <1>2, <1>4, <2>2 DEF AckUnderway
  <2> QED BY <1>8, <2>1, <2>2 DEF Within
<1> QED
    BY <1>2, <1>5, <1>6, <1>7, <1>8

(* The main loop's handling of an ack preserves the invariant. *)
LEMMA AckStep ==
    ASSUME ClockInv, NEW t \in acks, HandleSteerAck(t)
    PROVE  ClockInv'
<1>1. /\ ClockTypeOK' /\ Limit' = Limit
      /\ UNCHANGED <<now, phase, until>> /\ acks' \subseteq acks
    BY ClockAssumption DEF ClockInv, ClockTypeOK, HandleSteerAck, Later, Limit
<1>2. CASE phase = "idle"
    BY <1>1, <1>2 DEF ClockInv
<1>3. CASE phase # "idle"
  <2>1. /\ Covered(Setup) \/ AckUnderway(0) => Covered(Setup)'
        /\ Ahead(Overhead) \/ until <= now + Context => Ahead(Overhead)'
        /\ Ahead(Setup) => Ahead(Setup)'
    BY <1>3, AckExtends DEF ClockInv
  <2>2. /\ Within(0) => Within(0)'
        /\ Within(CleanupFloor + WriteTimeout) => Within(CleanupFloor + WriteTimeout)'
        /\ Within(Finalize) => Within(Finalize)'
        /\ Within(Ending + MetricTimeout) => Within(Ending + MetricTimeout)'
        /\ Within(Aftermath) => Within(Aftermath)'
    <3>1. /\ 0 \in Nat /\ CleanupFloor + WriteTimeout \in Nat /\ Finalize \in Nat
          /\ Ending + MetricTimeout \in Nat /\ Aftermath \in Nat
          /\ Overhead \in Nat /\ until' \in Nat /\ deadline' \in Nat /\ Buffer \in Nat
      BY <1>1, ClockAssumption, OverheadFacts, EndingFacts DEF ClockTypeOK
    <3>2. \A spare \in Nat :
              Within(spare) => until' + Buffer <= deadline' + (Overhead + spare)
      BY <1>3, <3>1, AckExtends DEF ClockInv
    <3> QED BY <3>1, <3>2 DEF Within, Covered
  <2> QED BY <1>1, <1>3, <2>1, <2>2 DEF ClockInv
<1> QED BY <1>2, <1>3

(* Every step of the turn, of the main loop's ack handling and of the      *)
(* clock preserves the invariant.                                          *)
LEMMA ClockStep ==
    ASSUME BufferSuffices, ClockInv, [ClockNext]_clockVars
    PROVE  ClockInv'
<1> USE ClockAssumption, OverheadFacts, EndingFacts
    DEF ClockInv, ClockTypeOK, Covered, AckComing, AckUnderway, Within, Ahead, Limit,
        Phases, Running, Reading
<1>1. CASE Dispatch
  BY <1>1 DEF Dispatch
<1>2. CASE SendInitialMessage
  BY <1>2 DEF SendInitialMessage, BeginPrompt
<1>3. CASE FetchContext
  BY <1>3 DEF FetchContext
<1>4. CASE SendPrompt
  BY <1>4 DEF SendPrompt, BeginPrompt
<1>5. ASSUME NEW renews \in BOOLEAN, SteerSuccess(renews)
      PROVE  ClockInv'
  BY <1>5 DEF SteerSuccess, Later
<1>6. ASSUME NEW t \in acks, HandleSteerAck(t)
      PROVE  ClockInv'
  BY <1>6, AckStep
<1>7. CASE IdleTimeout
  <2>1. CASE until < now + CleanupFloor
    BY <1>7, <2>1 DEF IdleTimeout, Later
  <2>2. CASE ~(until < now + CleanupFloor)
    BY <1>7, <2>2 DEF IdleTimeout, Later
  <2> QED BY <2>1, <2>2
<1>8. CASE ControlCancel
  BY <1>8 DEF ControlCancel, Later
<1>9. CASE FinalizeReply
  BY <1>9 DEF FinalizeReply
<1>10. CASE PublishMetric
  BY <1>10 DEF PublishMetric
<1>11. CASE SendResult
  BY <1>11 DEF SendResult, EndTask
<1>12. CASE TurnPanics
  BY <1>12 DEF TurnPanics, EndTask
<1>13. CASE MarkTurnComplete
  BY <1>13 DEF MarkTurnComplete
<1>14. CASE ClockTick
  BY <1>14 DEF ClockTick
<1>15. CASE UNCHANGED clockVars
  BY <1>15 DEF clockVars
<1> HIDE DEF ClockInv
<1> QED
  BY <1>1, <1>2, <1>3, <1>4, <1>5, <1>6, <1>7, <1>8, <1>9, <1>10, <1>11, <1>12,
     <1>13, <1>14, <1>15 DEF ClockNext

(* The invariant leaves no turn past its in-flight deadline. *)
LEMMA ClockInvImpliesTurnEndsFirst ==
    ASSUME BufferSuffices, ClockInv
    PROVE  TurnEndsFirst
BY ClockAssumption, OverheadFacts, EndingFacts
DEF ClockInv, ClockTypeOK, Covered, AckComing, AckUnderway, Within, Ahead, Limit,
    Phases, Running, Reading, TurnEndsFirst

(* Whatever the timeouts are, if the buffer of with_in_flight_deadline     *)
(* outlasts what comes before the channel prompt (setup, initial_message,  *)
(* fetches) and what comes after it (reply or cleanup, metric, the way of  *)
(* the result), then flush_next expires no turn whose result the main loop *)
(* has yet to handle.                                                      *)
THEOREM BackstopOutlastsTurn ==
    ASSUME BufferSuffices
    PROVE  ClockSpec => []TurnEndsFirst
<1>1. ClockInit => ClockInv
  BY ClockInvInit
<1>2. ClockInv /\ [ClockNext]_clockVars => ClockInv'
  BY BufferSuffices, ClockStep
<1>3. ClockInv => TurnEndsFirst
  BY BufferSuffices, ClockInvImpliesTurnEndsFirst
<1> QED
  BY <1>1, <1>2, <1>3, PTL DEF ClockSpec
=============================================================================
