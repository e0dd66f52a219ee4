------------------------- MODULE EventQueue_proofs -------------------------
(* What the operators of EventQueue return and preserve, for every value   *)
(* of its constants: each method of queue.rs keeps the channel's record    *)
(* well-formed, and only flush_next, mark_complete, the expiry and the     *)
(* deadline extension touch the in-flight entry. The second part follows   *)
(* the events: which of them a method may make available to flush_next,    *)
(* and which it leaves in the side table of withheld steers. The last part *)
(* counts them: no method makes a queue repeat an event, and each keeps,   *)
(* moves or drops exactly the events it says.                              *)
EXTENDS EventQueue, SequenceTheorems, FiniteSetTheorems, TLAPS

(* Replacing fields of a channel's record by values of their types.        *)
LEMMA ChannelUpdates ==
    /\ \A c \in Channel, p \in Seq(Events) : [c EXCEPT !.pending = p] \in Channel
    /\ \A c \in Channel, p \in Seq(Events), h \in Seq(Events) :
          [c EXCEPT !.pending = p, !.withheld = h] \in Channel
    /\ \A c \in Channel, h \in Seq(Events) : [c EXCEPT !.withheld = h] \in Channel
    /\ \A c \in Channel, p \in Seq(Events), h \in Seq(Events), t \in Timer :
          [c EXCEPT !.deadline = t, !.pending = p, !.withheld = h] \in Channel
    /\ \A c \in Channel, t \in Timer : [c EXCEPT !.deadline = t] \in Channel
    /\ \A c \in Channel, t \in Timer, r \in Timer, n \in Nat :
          [c EXCEPT !.deadline = t, !.retry = r, !.retries = n] \in Channel
    /\ \A c \in Channel, r \in Timer, n \in Nat :
          [c EXCEPT !.retries = n, !.retry = r] \in Channel
    /\ \A c \in Channel, r \in Timer, n \in Nat :
          [c EXCEPT !.retry = r, !.retries = n] \in Channel
    /\ \A c \in Channel, x \in Seq(Events), w \in Reason \cup {NoReason} :
          [c EXCEPT !.cancelled = x, !.reason = w] \in Channel
    /\ \A c \in Channel, p \in Seq(Events), t \in Timer, x \in Seq(Events),
          w \in Reason \cup {NoReason} :
          [c EXCEPT !.pending = p, !.deadline = t, !.cancelled = x, !.reason = w]
             \in Channel
BY DEF Channel

(* The fields of a channel's record have their types.                      *)
LEMMA ChannelFields ==
    ASSUME NEW c \in Channel
    PROVE  /\ c.pending \in Seq(Events) /\ c.cancelled \in Seq(Events)
           /\ c.withheld \in Seq(Events)
           /\ c.deadline \in Timer /\ c.retry \in Timer /\ c.retries \in Nat
           /\ c.reason \in Reason \cup {NoReason}
BY DEF Channel

(* A channel nothing was ever queued for is well-formed and not in flight. *)
LEMMA EmptyChannelType == EmptyChannel \in Channel /\ EmptyChannel.deadline = "unset"
BY DEF EmptyChannel, Channel, Timer, NoReason

(* Taking an event out of a queue leaves a queue that is no longer.        *)
LEMMA WithoutType ==
    ASSUME NEW s \in Seq(Events), NEW e
    PROVE  Without(s, e) \in Seq(Events) /\ Len(Without(s, e)) <= Len(s)
<1>1. CASE e \in Range(s)
  <2> DEFINE i == CHOOSE j \in DOMAIN s : s[j] = e
  <2>1. i \in DOMAIN s
    BY <1>1 DEF Range
  <2>2. i \in 1 .. Len(s) /\ Len(s) \in Nat
    BY <2>1
  <2> HIDE DEF i
  <2>3. SubSeq(s, 1, i - 1) \in Seq(Events) /\ Len(SubSeq(s, 1, i - 1)) = i - 1
    BY <2>2, SubSeqProperties
  <2>4. /\ SubSeq(s, i + 1, Len(s)) \in Seq(Events)
        /\ Len(SubSeq(s, i + 1, Len(s))) = Len(s) - i
    BY <2>2, SubSeqProperties
  <2>5. Without(s, e) = SubSeq(s, 1, i - 1) \o SubSeq(s, i + 1, Len(s))
    BY <1>1 DEF Without, i
  <2>6. Len(Without(s, e)) = (i - 1) + (Len(s) - i)
    BY <2>3, <2>4, <2>5, ConcatProperties
  <2>7. (i - 1) + (Len(s) - i) <= Len(s)
    BY <2>2
  <2> QED
    BY <2>3, <2>4, <2>5, <2>6, <2>7
<1>2. CASE e \notin Range(s)
  BY <1>2 DEF Without
<1> QED
  BY <1>1, <1>2

(* The trim that follows every insertion at the front keeps a queue within *)
(* MAX_PENDING_PER_CHANNEL.                                                *)
LEMMA TrimBackType ==
    ASSUME NEW s \in Seq(Events)
    PROVE  TrimBack(s) \in Seq(Events) /\ Len(TrimBack(s)) <= MaxPending
BY QueueAssumption DEF TrimBack

(* push keeps the record well-formed, the queue within its cap and the     *)
(* in-flight entry as it is.                                               *)
LEMMA PushType ==
    ASSUME NEW c \in Channel, NEW e \in Events, Len(c.pending) <= MaxPending
    PROVE  /\ Push(c, e) \in Channel
           /\ Len(Push(c, e).pending) <= MaxPending
           /\ Push(c, e).deadline = c.deadline
<1> DEFINE p == IF Len(c.pending) >= MaxPending THEN Tail(c.pending) ELSE c.pending
<1>1. p \in Seq(Events) /\ Len(p) < MaxPending
  BY ChannelFields, QueueAssumption
<1>2. Append(p, e) \in Seq(Events) /\ Len(Append(p, e)) = Len(p) + 1
  BY <1>1
<1>3. Len(Append(p, e)) <= MaxPending
  BY <1>1, <1>2, QueueAssumption
<1>4. Push(c, e) = [c EXCEPT !.pending = Append(p, e)]
  BY DEF Push
<1> QED
  BY <1>2, <1>3, <1>4 DEF Channel

(* The expiry keeps the record well-formed and the queue within its cap,   *)
(* and leaves a channel alone whose deadline has not elapsed.              *)
LEMMA ExpireType ==
    ASSUME NEW c \in Channel, Len(c.pending) <= MaxPending
    PROVE  /\ Expire(c) \in Channel
           /\ Len(Expire(c).pending) <= MaxPending
           /\ Expire(c).deadline \in {c.deadline, "unset"}
           /\ c.deadline # "elapsed" => Expire(c) = c
<1> DEFINE p == TrimBack(c.withheld \o c.pending)
<1>1. c.withheld \o c.pending \in Seq(Events)
  BY ChannelFields
<1>2. p \in Seq(Events) /\ Len(p) <= MaxPending
  BY <1>1, TrimBackType
<1>3. << >> \in Seq(Events) /\ "unset" \in Timer
  BY DEF Timer
<1> HIDE DEF p
<1>4. [c EXCEPT !.deadline = "unset", !.pending = p, !.withheld = << >>] \in Channel
  BY <1>2, <1>3, ChannelUpdates
<1>5. /\ [c EXCEPT !.deadline = "unset", !.pending = p, !.withheld = << >>].pending = p
      /\ [c EXCEPT !.deadline = "unset", !.pending = p, !.withheld = << >>].deadline
            = "unset"
  BY DEF Channel
<1>6. Expire(c) = IF c.deadline = "elapsed"
                  THEN [c EXCEPT !.deadline = "unset", !.pending = p, !.withheld = << >>]
                  ELSE c
  BY DEF Expire, p
<1> QED
  BY <1>2, <1>4, <1>5, <1>6

(* mark_complete clears the in-flight entry.                               *)
LEMMA MarkCompleteType ==
    ASSUME NEW c \in Channel
    PROVE  /\ MarkComplete(c) \in Channel
           /\ MarkComplete(c).pending = c.pending
           /\ MarkComplete(c).deadline = "unset"
<1>1. "unset" \in Timer /\ 0 \in Nat
  BY DEF Timer
<1>2. /\ [c EXCEPT !.deadline = "unset"] \in Channel
      /\ [c EXCEPT !.deadline = "unset", !.retry = "unset", !.retries = 0] \in Channel
  BY <1>1, ChannelUpdates
<1> QED
  BY <1>2 DEF MarkComplete, Channel

(* A batch holds events that were queued, in some order.                   *)
LEMMA FlushBatchesType ==
    ASSUME NEW c \in Channel
    PROVE  FlushBatches(c) \subseteq FlushBatch
<1>1. CASE Ready(c)
  <2> DEFINE taken == SubSeq(c.pending, 1, DrainCount(c))
  <2>1. DrainCount(c) \in 0 .. Len(c.pending)
    BY ChannelFields, QueueAssumption DEF DrainCount
  <2>2. taken \in Seq(Events)
    BY <2>1, ChannelFields, SubSeqProperties
  <2> HIDE DEF taken
  <2>3. ASSUME NEW p \in SortOrders(taken)
        PROVE  Reordered(taken, p) \in Seq(Events)
    <3>1. DOMAIN taken = 1 .. Len(taken) /\ Len(taken) \in Nat
      BY <2>2
    <3>2. p \in [1 .. Len(taken) -> 1 .. Len(taken)]
      BY <2>3, <3>1 DEF SortOrders
    <3>3. Reordered(taken, p) = [i \in 1 .. Len(taken) |-> taken[p[i]]]
      BY <3>1 DEF Reordered
    <3>4. Reordered(taken, p) \in [1 .. Len(taken) -> Events]
      BY <2>2, <3>1, <3>2, <3>3
    <3> QED
      BY <3>1, <3>4
  <2>4. ASSUME NEW b \in FlushBatches(c)
        PROVE  b \in FlushBatch
    <3>1. PICK p \in SortOrders(taken) :
             b = [events    |-> Reordered(taken, p),
                  cancelled |-> c.cancelled,
                  reason    |-> IF c.cancelled = << >> THEN NoReason ELSE c.reason]
      BY <1>1, <2>4 DEF FlushBatches, taken
    <3>2. Reordered(taken, p) \in Seq(Events)
      BY <2>3
    <3> QED
      BY <3>1, <3>2, ChannelFields DEF FlushBatch
  <2> QED
    BY <2>4
<1>2. CASE ~Ready(c)
  BY <1>2, ChannelFields DEF FlushBatches, FlushBatch
<1> QED
  BY <1>1, <1>2

(* flush_next puts the channel in flight and leaves the rest queued.       *)
LEMMA FlushedType ==
    ASSUME NEW c \in Channel, Len(c.pending) <= MaxPending
    PROVE  /\ Flushed(c) \in Channel
           /\ Len(Flushed(c).pending) <= MaxPending
           /\ Flushed(c).deadline = "running"
<1> DEFINE p == IF Ready(c) THEN SubSeq(c.pending, DrainCount(c) + 1, Len(c.pending))
                ELSE c.pending
<1>1. DrainCount(c) \in 0 .. Len(c.pending)
  BY ChannelFields, QueueAssumption DEF DrainCount
<1>2. p \in Seq(Events) /\ Len(p) <= Len(c.pending)
  BY <1>1, ChannelFields, SubSeqProperties
<1>3. Len(p) <= MaxPending
  BY <1>2, ChannelFields, QueueAssumption
<1>4. "running" \in Timer /\ << >> \in Seq(Events)
  BY DEF Timer
<1> HIDE DEF p
<1>5. [c EXCEPT !.pending = p, !.deadline = "running", !.cancelled = << >>,
                !.reason = NoReason] \in Channel
  BY <1>2, <1>4, ChannelUpdates
<1>6. Flushed(c) = [c EXCEPT !.pending = p, !.deadline = "running",
                             !.cancelled = << >>, !.reason = NoReason]
  BY DEF Flushed, p
<1> QED
  BY <1>3, <1>5, <1>6 DEF Channel

(* Putting a batch back at the front trims the queue and touches nothing   *)
(* else.                                                                   *)
LEMMA PutBackType ==
    ASSUME NEW c \in Channel, NEW evs \in Seq(Events)
    PROVE  /\ PutBack(c, evs) \in Channel
           /\ Len(PutBack(c, evs).pending) <= MaxPending
           /\ PutBack(c, evs).deadline = c.deadline
<1> DEFINE p == TrimBack(evs \o c.pending)
<1>1. evs \o c.pending \in Seq(Events)
  BY ChannelFields
<1>2. p \in Seq(Events) /\ Len(p) <= MaxPending
  BY <1>1, TrimBackType
<1> HIDE DEF p
<1>3. PutBack(c, evs) = [c EXCEPT !.pending = p]
  BY DEF PutBack, p
<1> QED
  BY <1>2, <1>3 DEF Channel

(* requeue, dead-lettering included, leaves the in-flight entry to         *)
(* mark_complete.                                                          *)
LEMMA RequeueType ==
    ASSUME NEW c \in Channel, NEW b \in FlushBatch, Len(c.pending) <= MaxPending
    PROVE  /\ Requeue(c, b) \in Channel
           /\ Len(Requeue(c, b).pending) <= MaxPending
           /\ Requeue(c, b).deadline = c.deadline
<1>1. b.events \in Seq(Events)
  BY DEF FlushBatch
<1>2. "unset" \in Timer /\ "running" \in Timer /\ 0 \in Nat
  BY DEF Timer
<1>3. CASE Exhausted(c)
  <2>1. Requeue(c, b) = [c EXCEPT !.retries = 0, !.retry = "unset"]
    BY <1>3 DEF Requeue
  <2>2. [c EXCEPT !.retries = 0, !.retry = "unset"] \in Channel
    BY <1>2, ChannelUpdates, Zenon
  <2> QED
    BY <2>1, <2>2 DEF Channel
<1>4. CASE ~Exhausted(c)
  <2> DEFINE d == PutBack(c, b.events)
  <2>1. d \in Channel /\ Len(d.pending) <= MaxPending /\ d.deadline = c.deadline
    BY <1>1, PutBackType
  <2> HIDE DEF d
  <2>2. d.retries + 1 \in Nat
    BY <2>1, ChannelFields
  <2>3. [d EXCEPT !.retries = d.retries + 1, !.retry = "running"] \in Channel
    BY <1>2, <2>1, <2>2, ChannelUpdates
  <2>4. Requeue(c, b) = [d EXCEPT !.retries = d.retries + 1, !.retry = "running"]
    BY <1>4 DEF Requeue, d
  <2> QED
    BY <2>1, <2>3, <2>4 DEF Channel
<1> QED
  BY <1>3, <1>4

(* requeue_as_cancelled leaves the queue and the in-flight entry alone.    *)
LEMMA RequeueAsCancelledType ==
    ASSUME NEW c \in Channel, NEW b \in FlushBatch, NEW why \in Reason
    PROVE  /\ RequeueAsCancelled(c, b, why) \in Channel
           /\ RequeueAsCancelled(c, b, why).pending = c.pending
           /\ RequeueAsCancelled(c, b, why).deadline = c.deadline
<1> DEFINE x == c.cancelled \o b.cancelled \o b.events
<1>1. x \in Seq(Events)
  BY ChannelFields DEF FlushBatch
<1> HIDE DEF x
<1>2. RequeueAsCancelled(c, b, why) = [c EXCEPT !.cancelled = x, !.reason = why]
  BY DEF RequeueAsCancelled, x
<1> QED
  BY <1>1, <1>2 DEF Channel

(* drain_channel empties the queue and keeps the in-flight entry.          *)
LEMMA DrainChannelType ==
    ASSUME NEW c \in Channel
    PROVE  /\ DrainChannel(c) \in Channel
           /\ Len(DrainChannel(c).pending) = 0
           /\ DrainChannel(c).deadline = c.deadline
<1>1. c.deadline \in Timer
  BY ChannelFields
<1>2. EmptyChannel \in Channel /\ EmptyChannel.pending = << >>
  BY EmptyChannelType DEF EmptyChannel
<1>3. DrainChannel(c) = [EmptyChannel EXCEPT !.deadline = c.deadline]
  BY DEF DrainChannel
<1>4. [EmptyChannel EXCEPT !.deadline = c.deadline] \in Channel
  BY <1>1, <1>2, ChannelUpdates, Zenon
<1> QED
  BY <1>2, <1>3, <1>4 DEF Channel

(* A steer's withholding, release and removal keep the record well-formed, *)
(* the queue within its cap and the in-flight entry as it is.              *)
LEMMA SteerTypes ==
    ASSUME NEW c \in Channel, NEW e \in Events, Len(c.pending) <= MaxPending
    PROVE  /\ MarkNativeSteerPending(c, e) \in Channel
           /\ Len(MarkNativeSteerPending(c, e).pending) <= MaxPending
           /\ MarkNativeSteerPending(c, e).deadline = c.deadline
           /\ ReleaseNativeSteer(c, e) \in Channel
           /\ Len(ReleaseNativeSteer(c, e).pending) <= MaxPending
           /\ ReleaseNativeSteer(c, e).deadline = c.deadline
           /\ RemoveEvent(c, e) \in Channel
           /\ Len(RemoveEvent(c, e).pending) <= MaxPending
           /\ RemoveEvent(c, e).deadline = c.deadline
<1> DEFINE p == Without(c.pending, e)
           h == Without(c.withheld, e)
           w == Append(c.withheld, e)
           d == PutBack(c, <<e>>)
<1>1. p \in Seq(Events) /\ Len(p) <= Len(c.pending)
  BY ChannelFields, WithoutType
<1>2. Len(p) <= MaxPending
  BY <1>1, ChannelFields, QueueAssumption
<1>3. h \in Seq(Events) /\ w \in Seq(Events) /\ <<e>> \in Seq(Events)
  BY ChannelFields, WithoutType
<1>4. d \in Channel /\ Len(d.pending) <= MaxPending /\ d.deadline = c.deadline
  BY <1>3, PutBackType
<1>5. d.withheld = c.withheld
  BY DEF PutBack, Channel
<1> HIDE DEF p, h, w, d
<1>6. /\ [c EXCEPT !.pending = p, !.withheld = w] \in Channel
      /\ [c EXCEPT !.pending = p, !.withheld = h] \in Channel
      /\ [d EXCEPT !.withheld = h] \in Channel
  BY <1>1, <1>3, <1>4, ChannelUpdates
<1>7. MarkNativeSteerPending(c, e) \in {c, [c EXCEPT !.pending = p, !.withheld = w]}
  BY DEF MarkNativeSteerPending, p, w
<1>8. ReleaseNativeSteer(c, e) \in {c, [d EXCEPT !.withheld = h]}
  BY <1>5 DEF ReleaseNativeSteer, d, h
<1>9. RemoveEvent(c, e) = [c EXCEPT !.pending = p, !.withheld = h]
  BY DEF RemoveEvent, p, h
<1>10. /\ [c EXCEPT !.pending = p, !.withheld = w].pending = p
       /\ [c EXCEPT !.pending = p, !.withheld = w].deadline = c.deadline
       /\ [c EXCEPT !.pending = p, !.withheld = h].pending = p
       /\ [c EXCEPT !.pending = p, !.withheld = h].deadline = c.deadline
       /\ [d EXCEPT !.withheld = h].pending = d.pending
       /\ [d EXCEPT !.withheld = h].deadline = d.deadline
  BY <1>4 DEF Channel
<1> QED
  BY <1>2, <1>4, <1>6, <1>7, <1>8, <1>9, <1>10

(* extend_in_flight_deadline renews a deadline and never creates one.      *)
LEMMA ExtendType ==
    ASSUME NEW c \in Channel
    PROVE  /\ ExtendInFlightDeadline(c) \in Channel
           /\ ExtendInFlightDeadline(c).pending = c.pending
           /\ ExtendInFlightDeadline(c).deadline \in {c.deadline, "running"}
           /\ InFlight(ExtendInFlightDeadline(c)) <=> InFlight(c)
<1>1. "running" \in Timer /\ [c EXCEPT !.deadline = "running"] \in Channel
  BY ChannelUpdates DEF Timer
<1> QED
  BY <1>1 DEF ExtendInFlightDeadline, InFlight, Channel

(* compact_expired_state touches the throttle and its counter only.        *)
LEMMA CompactType ==
    ASSUME NEW c \in Channel
    PROVE  /\ CompactExpiredState(c) \in Channel
           /\ CompactExpiredState(c).pending = c.pending
           /\ CompactExpiredState(c).deadline = c.deadline
<1> DEFINE r == IF c.retry = "elapsed" THEN "unset" ELSE c.retry
           n == IF r # "unset" \/ c.pending # << >> \/ InFlight(c) THEN c.retries ELSE 0
<1>1. r \in Timer /\ n \in Nat
  BY ChannelFields DEF Timer
<1>2. CompactExpiredState(c) = [c EXCEPT !.retry = r, !.retries = n]
  BY DEF CompactExpiredState
<1> HIDE DEF r, n
<1> QED
  BY <1>1, <1>2 DEF Channel

-----------------------------------------------------------------------------
(* The events of a part of a queue are events of the queue.                *)
LEMMA SubSeqRange ==
    ASSUME NEW s \in Seq(Events), NEW m \in Nat \ {0}, NEW n \in Int, n <= Len(s)
    PROVE  Range(SubSeq(s, m, n)) \subseteq Range(s)
<1>1. Len(s) \in Nat /\ DOMAIN s = 1 .. Len(s) /\ \A i \in m .. n : i \in 1 .. Len(s)
  OBVIOUS
<1>2. \A i \in m .. n : s[i] \in Events
  BY <1>1, ElementOfSeq
<1>3. /\ SubSeq(s, m, n) \in Seq(Events)
      /\ Len(SubSeq(s, m, n)) = IF m <= n THEN n - m + 1 ELSE 0
      /\ \A i \in 1 .. n - m + 1 : SubSeq(s, m, n)[i] = s[m + i - 1]
  BY <1>2, SubSeqProperties
<1> DEFINE t == SubSeq(s, m, n)
<1> HIDE DEF t
<1>4. DOMAIN t = 1 .. Len(t) /\ Len(t) = IF m <= n THEN n - m + 1 ELSE 0
  BY <1>3 DEF t
<1>5. \A i \in DOMAIN t : t[i] = s[m + i - 1] /\ m + i - 1 \in DOMAIN s
  BY <1>1, <1>3, <1>4 DEF t
<1> QED
  BY <1>5 DEF Range, t

(* What the trim leaves of a queue was in it.                              *)
LEMMA TrimBackRange ==
    ASSUME NEW s \in Seq(Events)
    PROVE  Range(TrimBack(s)) \subseteq Range(s)
<1> DEFINE n == IF Len(s) > MaxPending THEN MaxPending ELSE Len(s)
<1>1. n \in Int /\ n <= Len(s)
  BY QueueAssumption
<1>2. TrimBack(s) = SubSeq(s, 1, n)
  BY DEF TrimBack
<1> HIDE DEF n
<1> QED
  BY <1>1, <1>2, SubSeqRange

(* Taking out an event that occurs once closes the gap and leaves the      *)
(* others.                                                                 *)
LEMMA WithoutOnce ==
    ASSUME NEW s \in Seq(Events), NEW e, NEW i \in DOMAIN s, s[i] = e,
           \A j \in DOMAIN s : s[j] = e => j = i
    PROVE  LET w == Without(s, e) IN
           /\ DOMAIN w = 1 .. (Len(s) - 1)
           /\ \A j \in DOMAIN w : w[j] = IF j < i THEN s[j] ELSE s[j + 1]
<1>1. e \in Range(s) /\ i = CHOOSE j \in DOMAIN s : s[j] = e
  BY DEF Range
<1>2. i \in 1 .. Len(s) /\ Len(s) \in Nat /\ DOMAIN s = 1 .. Len(s)
  OBVIOUS
<1> DEFINE f == SubSeq(s, 1, i - 1)
           g == SubSeq(s, i + 1, Len(s))
<1>3. Without(s, e) = f \o g
  BY <1>1 DEF Without
<1>4. \A j \in 1 .. Len(s) : s[j] \in Events
  BY ElementOfSeq
<1>5. /\ f \in Seq(Events) /\ Len(f) = i - 1
      /\ \A j \in 1 .. i - 1 : f[j] = s[j]
  <2>1. /\ f \in Seq(Events) /\ Len(f) = IF 1 <= i - 1 THEN i - 1 - 1 + 1 ELSE 0
        /\ \A j \in 1 .. i - 1 - 1 + 1 : f[j] = s[1 + j - 1]
    BY <1>2, <1>4, SubSeqProperties
  <2> HIDE DEF f
  <2> QED
    BY <1>2, <2>1
<1>6. /\ g \in Seq(Events) /\ Len(g) = Len(s) - i
      /\ \A j \in 1 .. Len(s) - i : g[j] = s[i + j]
  <2>1. /\ g \in Seq(Events) /\ Len(g) = IF i + 1 <= Len(s) THEN Len(s) - (i + 1) + 1 ELSE 0
        /\ \A j \in 1 .. Len(s) - (i + 1) + 1 : g[j] = s[i + 1 + j - 1]
    BY <1>2, <1>4, SubSeqProperties
  <2> HIDE DEF g
  <2>2. Len(s) - (i + 1) + 1 = Len(s) - i
    BY <1>2
  <2>3. Len(g) = Len(s) - i
    BY <1>2, <2>1
  <2>4. ASSUME NEW j \in 1 .. Len(s) - i PROVE g[j] = s[i + j]
    <3>1. i + 1 + j - 1 = i + j
      BY <1>2
    <3> QED
      BY <2>1, <2>2, <3>1
  <2> QED
    BY <2>1, <2>3, <2>4
<1> HIDE DEF f, g
<1> DEFINE w == f \o g
<1>7. /\ w \in Seq(Events) /\ Len(w) = Len(f) + Len(g)
      /\ \A j \in 1 .. Len(f) + Len(g) : w[j] = IF j <= Len(f) THEN f[j] ELSE g[j - Len(f)]
  BY <1>5, <1>6, ConcatProperties
<1> HIDE DEF w
<1>8. Len(f) + Len(g) = Len(s) - 1 /\ DOMAIN w = 1 .. (Len(s) - 1)
  BY <1>2, <1>5, <1>6, <1>7
<1>9. ASSUME NEW j \in 1 .. Len(s) - 1
      PROVE  w[j] = IF j < i THEN s[j] ELSE s[j + 1]
  <2>1. CASE j < i
    BY <1>2, <1>5, <1>7, <1>8, <2>1
  <2>2. CASE ~(j < i)
    <3>1. j - (i - 1) \in 1 .. Len(s) - i /\ i + (j - (i - 1)) = j + 1 /\ ~(j <= i - 1)
      BY <1>2, <2>2
    <3>2. w[j] = g[j - (i - 1)]
      BY <1>5, <1>7, <1>8, <3>1
    <3> QED
      BY <1>6, <2>2, <3>1, <3>2
  <2> QED
    BY <2>1, <2>2
<1> QED
  BY <1>3, <1>8, <1>9 DEF w

(* An event that occurs once is gone when it is taken out, nothing else    *)
(* comes in, and a queue without repetition stays one.                     *)
LEMMA WithoutRange ==
    ASSUME NEW s \in Seq(Events), NEW e,
           \A i, j \in DOMAIN s : s[i] = e /\ s[j] = e => i = j
    PROVE  /\ Range(Without(s, e)) = Range(s) \ {e}
           /\ IsInjective(s) => IsInjective(Without(s, e))
<1>1. CASE e \in Range(s)
  <2>1. PICK i \in DOMAIN s : s[i] = e
    BY <1>1 DEF Range
  <2> DEFINE w == Without(s, e)
             n == Len(s)
  <2>2. n \in Nat /\ DOMAIN s = 1 .. n /\ i \in 1 .. n
    OBVIOUS
  <2>3. /\ DOMAIN w = 1 .. (n - 1)
        /\ \A j \in DOMAIN w : w[j] = IF j < i THEN s[j] ELSE s[j + 1]
    BY <2>1, WithoutOnce
  <2> HIDE DEF w, n
  <2>4. ASSUME NEW x \in Range(s), x # e PROVE x \in Range(w)
    <3>1. PICK k \in DOMAIN s : s[k] = x
      BY <2>4 DEF Range
    <3>2. k # i
      BY <2>1, <2>4, <3>1
    <3>3. CASE k < i
      BY <2>2, <2>3, <3>1, <3>3 DEF Range
    <3>4. CASE k > i
      <4>1. k - 1 \in DOMAIN w /\ w[k - 1] = s[k]
        BY <2>2, <2>3, <3>4
      <4> QED
        BY <3>1, <4>1 DEF Range
    <3> QED
      BY <2>2, <3>2, <3>3, <3>4
  <2>5. ASSUME NEW x \in Range(w) PROVE x \in Range(s) /\ x # e
    <3>1. PICK k \in DOMAIN w : w[k] = x
      BY <2>5 DEF Range
    <3>2. PICK j \in DOMAIN s : s[j] = x /\ j # i
      BY <2>2, <2>3, <3>1
    <3> QED
      BY <2>1, <3>2 DEF Range
  <2>6. ASSUME IsInjective(s) PROVE IsInjective(w)
    <3> SUFFICES ASSUME NEW j \in DOMAIN w, NEW k \in DOMAIN w, w[j] = w[k] PROVE j = k
      BY DEF IsInjective
    <3> DEFINE jj == IF j < i THEN j ELSE j + 1
               kk == IF k < i THEN k ELSE k + 1
    <3>1. jj \in DOMAIN s /\ kk \in DOMAIN s /\ w[j] = s[jj] /\ w[k] = s[kk]
      BY <2>2, <2>3
    <3>2. jj = kk
      BY <2>6, <3>1 DEF IsInjective
    <3> QED
      BY <2>2, <2>3, <3>2
  <2>7. Range(w) = Range(s) \ {e}
    BY <2>4, <2>5
  <2> QED
    BY <2>6, <2>7 DEF w
<1>2. CASE e \notin Range(s)
  BY <1>2 DEF Without
<1> QED
  BY <1>1, <1>2

(* An event added at the back.                                             *)
LEMMA AppendRange ==
    ASSUME NEW s \in Seq(Events), NEW e \in Events
    PROVE  /\ Append(s, e) \in Seq(Events)
           /\ Range(Append(s, e)) = Range(s) \cup {e}
           /\ IsInjective(s) /\ e \notin Range(s) => IsInjective(Append(s, e))
           /\ e \notin Range(s) =>
                \A i, j \in DOMAIN Append(s, e) :
                    Append(s, e)[i] = e /\ Append(s, e)[j] = e => i = j
<1> DEFINE t == Append(s, e)
           n == Len(s)
<1>1. n \in Nat /\ DOMAIN s = 1 .. n
  OBVIOUS
<1>2. /\ t \in Seq(Events) /\ Len(t) = n + 1
      /\ \A i \in 1 .. n : t[i] = s[i]
      /\ t[n + 1] = e
  BY AppendProperties
<1>3. DOMAIN t = 1 .. (n + 1)
  BY <1>2
<1> HIDE DEF t, n
<1>4. \A i \in DOMAIN t : (i \in DOMAIN s /\ t[i] = s[i]) \/ (i = n + 1 /\ t[i] = e)
  BY <1>1, <1>2, <1>3
<1>5. \A i \in DOMAIN s : i \in DOMAIN t /\ t[i] = s[i] /\ n + 1 \in DOMAIN t
  BY <1>1, <1>2, <1>3
<1>6. n + 1 \in DOMAIN t
  BY <1>1, <1>3
<1>7. Range(t) = Range(s) \cup {e}
  BY <1>2, <1>4, <1>5, <1>6 DEF Range
<1>8. e \notin Range(s) => \A i \in DOMAIN t : t[i] = e => i = n + 1
  BY <1>4 DEF Range
<1>9. IsInjective(s) /\ e \notin Range(s) => IsInjective(t)
  BY <1>4, <1>8 DEF IsInjective
<1> QED
  BY <1>2, <1>7, <1>8, <1>9 DEF t

(* Nothing comes in when an event is taken out, however often it occurs.   *)
LEMMA WithoutSubset ==
    ASSUME NEW s \in Seq(Events), NEW e
    PROVE  Range(Without(s, e)) \subseteq Range(s)
<1>1. CASE e \in Range(s)
  <2> DEFINE i == CHOOSE j \in DOMAIN s : s[j] = e
             f == SubSeq(s, 1, i - 1)
             g == SubSeq(s, i + 1, Len(s))
  <2>1. i \in DOMAIN s
    BY <1>1 DEF Range
  <2>2. i \in 1 .. Len(s) /\ Len(s) \in Nat
    BY <2>1
  <2>3. Without(s, e) = f \o g
    BY <1>1 DEF Without
  <2> HIDE DEF i
  <2>4. f \in Seq(Events) /\ g \in Seq(Events)
    BY <2>2, SubSeqProperties
  <2>5. Range(f) \subseteq Range(s) /\ Range(g) \subseteq Range(s)
    BY <2>2, SubSeqRange
  <2> HIDE DEF f, g
  <2> QED
    BY <2>3, <2>4, <2>5, RangeConcatenation
<1>2. CASE e \notin Range(s)
  BY <1>2 DEF Without
<1> QED
  BY <1>1, <1>2

(* The events of a channel that flush_next may hand to a turn.             *)
Flushable(c) == Range(c.pending) \cup Range(c.cancelled)

BatchOf(b) == Range(b.events) \cup Range(b.cancelled)

(* push adds its event to what may be flushed, and no other.               *)
LEMMA PushRange ==
    ASSUME NEW c \in Channel, NEW e \in Events
    PROVE  /\ Flushable(Push(c, e)) \subseteq Flushable(c) \cup {e}
           /\ Push(c, e).withheld = c.withheld
           /\ e \notin Range(c.pending) => Range(Push(c, e).pending) \subseteq Range(c.pending) \cup {e}
           /\ e \notin Range(c.pending) =>
                \A i, j \in DOMAIN Push(c, e).pending :
                    Push(c, e).pending[i] = e /\ Push(c, e).pending[j] = e => i = j
<1> DEFINE rest == IF Len(c.pending) >= MaxPending THEN Tail(c.pending) ELSE c.pending
<1>1. c.pending \in Seq(Events) /\ c.cancelled \in Seq(Events)
  BY ChannelFields
<1>2. rest \in Seq(Events) /\ Range(rest) \subseteq Range(c.pending)
  <2>1. CASE Len(c.pending) >= MaxPending
    <3>1. c.pending # << >>
      BY <1>1, <2>1, QueueAssumption
    <3>2. /\ Tail(c.pending) \in Seq(Events)
          /\ Tail(c.pending) = SubSeq(c.pending, 2, Len(c.pending))
      BY <1>1, <3>1, HeadTailProperties, TailIsSubSeq
    <3>3. Range(SubSeq(c.pending, 2, Len(c.pending))) \subseteq Range(c.pending)
      BY <1>1, SubSeqRange
    <3> QED
      BY <2>1, <3>2, <3>3
  <2>2. CASE ~(Len(c.pending) >= MaxPending)
    BY <1>1, <2>2
  <2> QED
    BY <2>1, <2>2
<1>3. /\ Push(c, e).pending = Append(rest, e)
      /\ Push(c, e).cancelled = c.cancelled /\ Push(c, e).withheld = c.withheld
  BY DEF Push, Channel
<1> HIDE DEF rest
<1>4. /\ Range(Append(rest, e)) = Range(rest) \cup {e}
      /\ e \notin Range(rest) =>
           \A i, j \in DOMAIN Append(rest, e) :
               Append(rest, e)[i] = e /\ Append(rest, e)[j] = e => i = j
  BY <1>2, AppendRange
<1>5. Flushable(Push(c, e)) \subseteq Flushable(c) \cup {e}
  BY <1>2, <1>3, <1>4 DEF Flushable
<1> QED
  BY <1>2, <1>3, <1>4, <1>5

(* An event that is withheld for a native steer as soon as it was pushed   *)
(* adds nothing to what may be flushed.                                    *)
LEMMA WithheldRange ==
    ASSUME NEW c \in Channel, NEW e \in Events, Len(c.pending) <= MaxPending
    PROVE  LET d == MarkNativeSteerPending(Push(c, e), e) IN
           /\ e \notin Flushable(c) => Flushable(d) \subseteq Flushable(c)
           /\ d.withheld = Append(c.withheld, e)
<1> DEFINE p == Push(c, e)
<1>1. p \in Channel /\ p.withheld = c.withheld /\ Flushable(p) \subseteq Flushable(c) \cup {e}
  BY PushRange, PushType
<1>2. e \notin Flushable(c) =>
        \A i, j \in DOMAIN p.pending : p.pending[i] = e /\ p.pending[j] = e => i = j
  BY PushRange DEF Flushable
<1>3. p.pending \in Seq(Events) /\ e \in Range(p.pending)
  <2>1. p.pending = Append(IF Len(c.pending) >= MaxPending THEN Tail(c.pending) ELSE c.pending, e)
    BY DEF Push, Channel
  <2> DEFINE r == IF Len(c.pending) >= MaxPending THEN Tail(c.pending) ELSE c.pending
  <2>2. r \in Seq(Events)
    <3>1. Len(c.pending) >= MaxPending => c.pending # << >>
      BY ChannelFields, QueueAssumption
    <3> QED
      BY <3>1, ChannelFields, HeadTailProperties
  <2> HIDE DEF r
  <2>3. e \in Range(Append(r, e))
    BY <2>2, AppendRange
  <2> QED
    BY <1>1, <2>1, <2>3, ChannelFields DEF r
<1>4. p.cancelled = c.cancelled
  BY DEF Push, Channel
<1> HIDE DEF p
<1>5. e \notin Flushable(c) => Range(Without(p.pending, e)) = Range(p.pending) \ {e}
  BY <1>2, <1>3, WithoutRange
<1> DEFINE d == [p EXCEPT !.pending = Without(p.pending, e), !.withheld = Append(p.withheld, e)]
<1>6. MarkNativeSteerPending(p, e) = d
  BY <1>3 DEF MarkNativeSteerPending
<1>7. /\ d.pending = Without(p.pending, e) /\ d.cancelled = p.cancelled
      /\ d.withheld = Append(p.withheld, e)
  BY <1>1 DEF Channel
<1> HIDE DEF d
<1>8. e \notin Flushable(c) => Flushable(d) \subseteq Flushable(c)
  BY <1>1, <1>4, <1>5, <1>7 DEF Flushable
<1> QED
  BY <1>1, <1>6, <1>7, <1>8 DEF p

(* What is put back, and what a failed or cancelled turn returns, comes    *)
(* from the batch; the withheld events are left alone.                     *)
LEMMA PutBackRange ==
    ASSUME NEW c \in Channel, NEW evs \in Seq(Events)
    PROVE  /\ Flushable(PutBack(c, evs)) \subseteq Flushable(c) \cup Range(evs)
           /\ PutBack(c, evs).withheld = c.withheld
<1>1. c.pending \in Seq(Events)
  BY ChannelFields
<1>2. /\ evs \o c.pending \in Seq(Events)
      /\ Range(evs \o c.pending) = Range(evs) \cup Range(c.pending)
  BY <1>1, RangeConcatenation, ConcatProperties
<1>3. Range(TrimBack(evs \o c.pending)) \subseteq Range(evs) \cup Range(c.pending)
  BY <1>2, TrimBackRange
<1>4. /\ PutBack(c, evs).pending = TrimBack(evs \o c.pending)
      /\ PutBack(c, evs).cancelled = c.cancelled /\ PutBack(c, evs).withheld = c.withheld
  BY DEF PutBack, Channel
<1> QED
  BY <1>3, <1>4 DEF Flushable

(* The two requeues of a turn's batch, in the same way.                    *)
LEMMA RequeueRange ==
    ASSUME NEW c \in Channel, NEW b \in FlushBatch, NEW why
    PROVE  /\ Flushable(Requeue(c, b)) \subseteq Flushable(c) \cup BatchOf(b)
           /\ Requeue(c, b).withheld = c.withheld
           /\ Flushable(RequeueAsCancelled(c, b, why)) \subseteq Flushable(c) \cup BatchOf(b)
           /\ RequeueAsCancelled(c, b, why).withheld = c.withheld
<1>1. b.events \in Seq(Events) /\ b.cancelled \in Seq(Events) /\ c.cancelled \in Seq(Events)
  BY ChannelFields DEF FlushBatch
<1> DEFINE d == PutBack(c, b.events)
<1>2. /\ d \in Channel /\ d.withheld = c.withheld
      /\ Flushable(d) \subseteq Flushable(c) \cup Range(b.events)
  BY <1>1, PutBackType, PutBackRange
<1> HIDE DEF d
<1>3. /\ Flushable(Requeue(c, b)) \subseteq Flushable(c) \cup BatchOf(b)
      /\ Requeue(c, b).withheld = c.withheld
  <2> DEFINE x == Requeue(c, b)
  <2>1. \/ x.pending = c.pending /\ x.cancelled = c.cancelled /\ x.withheld = c.withheld
        \/ x.pending = d.pending /\ x.cancelled = d.cancelled /\ x.withheld = d.withheld
    <3>1. CASE Exhausted(c)
      BY <3>1 DEF Requeue, Channel
    <3>2. CASE ~Exhausted(c)
      <4>1. x = [d EXCEPT !.retries = d.retries + 1, !.retry = "running"]
        BY <3>2 DEF Requeue, d
      <4> HIDE DEF x
      <4> QED
        BY <1>2, <4>1 DEF Channel
    <3> QED
      BY <3>1, <3>2
  <2> HIDE DEF x
  <2> QED
    BY <1>2, <2>1 DEF Flushable, BatchOf, x
<1>4. /\ Flushable(RequeueAsCancelled(c, b, why)) \subseteq Flushable(c) \cup BatchOf(b)
      /\ RequeueAsCancelled(c, b, why).withheld = c.withheld
  <2> DEFINE x == RequeueAsCancelled(c, b, why)
  <2>1. /\ x.pending = c.pending /\ x.withheld = c.withheld
        /\ x.cancelled = (c.cancelled \o b.cancelled) \o b.events
    BY DEF RequeueAsCancelled, Channel
  <2> HIDE DEF x
  <2> DEFINE y == c.cancelled \o b.cancelled
  <2>2. Range(y) = Range(c.cancelled) \cup Range(b.cancelled) /\ y \in Seq(Events)
    BY <1>1, RangeConcatenation, ConcatProperties
  <2>3. x.cancelled = y \o b.events
    BY <2>1
  <2> HIDE DEF y
  <2>4. Range(y \o b.events) = Range(y) \cup Range(b.events)
    BY <1>1, <2>2, RangeConcatenation
  <2> QED
    BY <2>1, <2>2, <2>3, <2>4 DEF Flushable, BatchOf, x
<1> QED
  BY <1>3, <1>4

(* flush_next: the batch, and what stays behind, were flushable.           *)
LEMMA FlushRange ==
    ASSUME NEW c \in Channel, NEW b \in FlushBatches(c)
    PROVE  /\ BatchOf(b) \subseteq Flushable(c)
           /\ Flushable(Flushed(c)) \subseteq Flushable(c)
           /\ Flushed(c).withheld = c.withheld
<1>1. c.pending \in Seq(Events) /\ Len(c.pending) \in Nat /\ c.cancelled \in Seq(Events)
  BY ChannelFields
<1>2. DrainCount(c) \in 0 .. Len(c.pending)
  BY <1>1, QueueAssumption DEF DrainCount
<1> DEFINE taken == SubSeq(c.pending, 1, DrainCount(c))
           rest == IF Ready(c) THEN SubSeq(c.pending, DrainCount(c) + 1, Len(c.pending))
                   ELSE c.pending
<1>3. Range(taken) \subseteq Range(c.pending)
  BY <1>1, <1>2, SubSeqRange
<1>4. Range(rest) \subseteq Range(c.pending)
  BY <1>1, <1>2, SubSeqRange
<1>5. BatchOf(b) \subseteq Flushable(c)
  <2>1. CASE Ready(c)
    <3>1. PICK p \in SortOrders(taken) :
             b = [events    |-> Reordered(taken, p),
                  cancelled |-> c.cancelled,
                  reason    |-> IF c.cancelled = << >> THEN NoReason ELSE c.reason]
      BY <2>1 DEF FlushBatches
    <3>2. b.events = Reordered(taken, p) /\ b.cancelled = c.cancelled
      BY <3>1
    <3>3. p \in [DOMAIN taken -> DOMAIN taken]
      BY DEF SortOrders
    <3> HIDE DEF taken
    <3>4. Range(Reordered(taken, p)) \subseteq Range(taken)
      BY <3>3 DEF Reordered, Range
    <3> QED
      BY <1>3, <3>2, <3>4 DEF BatchOf, Flushable
  <2>2. CASE ~Ready(c)
    <3>1. b.events = c.cancelled /\ b.cancelled = << >>
      BY <2>2 DEF FlushBatches
    <3>2. Range(<< >>) = {}
      BY DEF Range
    <3> QED
      BY <3>1, <3>2 DEF BatchOf, Flushable
  <2> QED
    BY <2>1, <2>2
<1>6. /\ Flushed(c).pending = rest /\ Flushed(c).cancelled = << >>
      /\ Flushed(c).withheld = c.withheld
  BY DEF Flushed, Channel
<1>7. Range(<< >>) = {}
  BY DEF Range
<1> HIDE DEF rest, taken
<1> QED
  BY <1>4, <1>5, <1>6, <1>7 DEF Flushable

(* mark_complete and the compaction move no event.                         *)
LEMMA CompletionRange ==
    ASSUME NEW c \in Channel
    PROVE  /\ Flushable(MarkComplete(c)) = Flushable(c)
           /\ MarkComplete(c).withheld = c.withheld
           /\ Flushable(CompactExpiredState(c)) = Flushable(c)
           /\ CompactExpiredState(c).withheld = c.withheld
<1>1. LET d == MarkComplete(c) IN
      d.pending = c.pending /\ d.cancelled = c.cancelled /\ d.withheld = c.withheld
  BY DEF MarkComplete, Channel
<1>2. LET d == CompactExpiredState(c) IN
      d.pending = c.pending /\ d.cancelled = c.cancelled /\ d.withheld = c.withheld
  BY DEF CompactExpiredState, Channel
<1> QED
  BY <1>1, <1>2 DEF Flushable

(* The expiry gives the withheld events back, all or none.                 *)
LEMMA ExpireWithheld ==
    ASSUME NEW c \in Channel
    PROVE  Expire(c).withheld \in {c.withheld, << >>}
BY DEF Expire, Channel

(* The removal of a channel leaves nothing.                                *)
LEMMA DrainRange ==
    ASSUME NEW c
    PROVE  Flushable(DrainChannel(c)) = {} /\ DrainChannel(c).withheld = << >>
<1>1. Range(<< >>) = {}
  BY DEF Range
<1> QED
  BY <1>1 DEF DrainChannel, EmptyChannel, Flushable

(* A released event is flushable again, and no longer withheld.            *)
LEMMA ReleaseRange ==
    ASSUME NEW c \in Channel, NEW e \in Events, IsInjective(c.withheld)
    PROVE  LET d == ReleaseNativeSteer(c, e) IN
           /\ Flushable(d) \subseteq Flushable(c) \cup {e}
           /\ Range(d.withheld) = Range(c.withheld) \ {e}
           /\ IsInjective(d.withheld)
<1>1. /\ c.withheld \in Seq(Events)
      /\ Range(Without(c.withheld, e)) = Range(c.withheld) \ {e}
      /\ IsInjective(Without(c.withheld, e))
  BY ChannelFields, WithoutRange DEF IsInjective
<1>2. CASE e \in Range(c.withheld)
  <2> DEFINE p == PutBack(c, <<e>>)
  <2>1. <<e>> \in Seq(Events) /\ Range(<<e>>) = {e}
    BY DEF Range
  <2>2. p \in Channel /\ p.withheld = c.withheld /\ Flushable(p) \subseteq Flushable(c) \cup {e}
    BY <2>1, PutBackType, PutBackRange
  <2> HIDE DEF p
  <2> DEFINE d == [p EXCEPT !.withheld = Without(c.withheld, e)]
  <2>3. ReleaseNativeSteer(c, e) = d
    BY <1>2, <2>2 DEF ReleaseNativeSteer, p
  <2>4. d.pending = p.pending /\ d.cancelled = p.cancelled
        /\ d.withheld = Without(c.withheld, e)
    BY <2>2 DEF Channel
  <2> HIDE DEF d
  <2> QED
    BY <1>1, <2>2, <2>3, <2>4 DEF Flushable
<1>3. CASE e \notin Range(c.withheld)
  BY <1>1, <1>3 DEF ReleaseNativeSteer, Without
<1> QED
  BY <1>2, <1>3

(* So is a removed one, which is gone.                                     *)
LEMMA RemoveRange ==
    ASSUME NEW c \in Channel, NEW e \in Events, IsInjective(c.withheld)
    PROVE  LET d == RemoveEvent(ExtendInFlightDeadline(c), e) IN
           /\ Flushable(d) \subseteq Flushable(c)
           /\ Range(d.withheld) = Range(c.withheld) \ {e}
           /\ IsInjective(d.withheld)
<1>1. /\ Range(Without(c.withheld, e)) = Range(c.withheld) \ {e}
      /\ IsInjective(Without(c.withheld, e))
      /\ Range(Without(c.pending, e)) \subseteq Range(c.pending)
  BY ChannelFields, WithoutRange, WithoutSubset DEF IsInjective
<1> DEFINE d == RemoveEvent(ExtendInFlightDeadline(c), e)
<1>2. /\ d.pending = Without(c.pending, e) /\ d.cancelled = c.cancelled
      /\ d.withheld = Without(c.withheld, e)
  BY DEF RemoveEvent, ExtendInFlightDeadline, Channel
<1> HIDE DEF d
<1> QED
  BY <1>1, <1>2 DEF Flushable, d

-----------------------------------------------------------------------------
(* Sequences without repetitions.                                          *)

(* Two sequences without an event in common.                               *)
Apart(s, t) == Range(s) \cap Range(t) = {}

(* A position and its event.                                               *)
LEMMA SubSeqElements ==
    ASSUME NEW s \in Seq(Events), NEW m \in Nat \ {0}, NEW n \in Int, n <= Len(s)
    PROVE  LET t == SubSeq(s, m, n) IN
           /\ t \in Seq(Events)
           /\ DOMAIN t = IF m <= n THEN 1 .. (n - m + 1) ELSE {}
           /\ \A i \in DOMAIN t : m + i - 1 \in DOMAIN s /\ t[i] = s[m + i - 1]
<1>1. Len(s) \in Nat /\ DOMAIN s = 1 .. Len(s) /\ \A i \in m .. n : i \in 1 .. Len(s)
  OBVIOUS
<1>2. \A i \in m .. n : s[i] \in Events
  BY <1>1, ElementOfSeq
<1>3. /\ SubSeq(s, m, n) \in Seq(Events)
      /\ Len(SubSeq(s, m, n)) = IF m <= n THEN n - m + 1 ELSE 0
      /\ \A i \in 1 .. n - m + 1 : SubSeq(s, m, n)[i] = s[m + i - 1]
  BY <1>2, SubSeqProperties
<1> DEFINE t == SubSeq(s, m, n)
<1> HIDE DEF t
<1>4. DOMAIN t = 1 .. Len(t) /\ Len(t) = IF m <= n THEN n - m + 1 ELSE 0
  BY <1>3 DEF t
<1>5. DOMAIN t = IF m <= n THEN 1 .. (n - m + 1) ELSE {}
  BY <1>4
<1>6. \A i \in DOMAIN t : t[i] = s[m + i - 1] /\ m + i - 1 \in DOMAIN s
  BY <1>1, <1>3, <1>4 DEF t
<1> QED
  BY <1>3, <1>5, <1>6 DEF t

(* A part of a queue without repetition has none.                          *)
LEMMA SubSeqInjective ==
    ASSUME NEW s \in Seq(Events), IsInjective(s), NEW m \in Nat \ {0}, NEW n \in Int, n <= Len(s)
    PROVE  IsInjective(SubSeq(s, m, n))
<1> DEFINE t == SubSeq(s, m, n)
<1>1. /\ DOMAIN t = IF m <= n THEN 1 .. (n - m + 1) ELSE {}
      /\ \A i \in DOMAIN t : m + i - 1 \in DOMAIN s /\ t[i] = s[m + i - 1]
  BY SubSeqElements
<1> HIDE DEF t
<1>2. ASSUME NEW i \in DOMAIN t, NEW j \in DOMAIN t, t[i] = t[j] PROVE i = j
  <2>1. i \in Nat /\ j \in Nat
    BY <1>1
  <2>2. m + i - 1 = m + j - 1
    BY <1>1, <1>2 DEF IsInjective
  <2> QED
    BY <2>1, <2>2
<1> QED
  BY <1>2 DEF IsInjective, t

(* The two parts of a queue cut in two have its events between them.       *)
LEMMA CutInTwo ==
    ASSUME NEW s \in Seq(Events), NEW k \in 0 .. Len(s)
    PROVE  LET f == SubSeq(s, 1, k)
               g == SubSeq(s, k + 1, Len(s))
           IN  /\ Range(f) \cup Range(g) = Range(s)
               /\ IsInjective(s) => Apart(f, g)
<1> DEFINE f == SubSeq(s, 1, k)
           g == SubSeq(s, k + 1, Len(s))
           n == Len(s)
<1>1. n \in Nat /\ DOMAIN s = 1 .. n /\ k \in Nat /\ k <= n
  OBVIOUS
<1>2. /\ DOMAIN f = 1 .. k
      /\ \A i \in DOMAIN f : i \in DOMAIN s /\ f[i] = s[i]
  <2>1. /\ DOMAIN f = IF 1 <= k THEN 1 .. (k - 1 + 1) ELSE {}
        /\ \A i \in DOMAIN f : 1 + i - 1 \in DOMAIN s /\ f[i] = s[1 + i - 1]
    <3>1. 1 \in Nat \ {0} /\ k \in Int /\ k <= Len(s)
      BY <1>1
    <3> QED
      BY <3>1, SubSeqElements, Zenon
  <2> HIDE DEF f
  <2>2. DOMAIN f = 1 .. k
    BY <1>1, <2>1
  <2>3. \A i \in DOMAIN f : 1 + i - 1 = i
    BY <2>2
  <2> QED
    BY <2>1, <2>2, <2>3
<1>3. /\ DOMAIN g = 1 .. (n - k)
      /\ \A i \in DOMAIN g : k + i \in DOMAIN s /\ g[i] = s[k + i]
  <2>1. /\ DOMAIN g = IF k + 1 <= n THEN 1 .. (n - (k + 1) + 1) ELSE {}
        /\ \A i \in DOMAIN g : k + 1 + i - 1 \in DOMAIN s /\ g[i] = s[k + 1 + i - 1]
    <3>1. k + 1 \in Nat \ {0} /\ Len(s) \in Int /\ Len(s) <= Len(s)
      BY <1>1
    <3> QED
      BY <3>1, SubSeqElements, Zenon
  <2> HIDE DEF g, n
  <2>2. DOMAIN g = 1 .. (n - k)
    BY <1>1, <2>1
  <2>3. \A i \in DOMAIN g : k + 1 + i - 1 = k + i
    BY <1>1, <2>2
  <2> QED
    BY <2>1, <2>2, <2>3
<1> HIDE DEF f, g, n
<1>4. ASSUME NEW x \in Range(s) PROVE x \in Range(f) \cup Range(g)
  <2>1. PICK i \in DOMAIN s : s[i] = x
    BY <1>4 DEF Range
  <2>2. CASE i <= k
    BY <1>1, <1>2, <2>1, <2>2 DEF Range
  <2>3. CASE i > k
    <3>1. i - k \in DOMAIN g /\ k + (i - k) = i
      BY <1>1, <1>3, <2>1, <2>3
    <3> QED
      BY <1>3, <2>1, <3>1 DEF Range
  <2> QED
    BY <1>1, <2>1, <2>2, <2>3
<1>5. Range(f) \subseteq Range(s) /\ Range(g) \subseteq Range(s)
  BY <1>2, <1>3 DEF Range
<1>6. ASSUME IsInjective(s), NEW x \in Range(f), x \in Range(g) PROVE FALSE
  <2>1. PICK i \in DOMAIN f : f[i] = x
    BY <1>6 DEF Range
  <2>2. PICK j \in DOMAIN g : g[j] = x
    BY <1>6 DEF Range
  <2>3. i = k + j
    BY <1>2, <1>3, <1>6, <2>1, <2>2 DEF IsInjective
  <2> QED
    BY <1>1, <1>2, <1>3, <2>3
<1> QED
  BY <1>4, <1>5, <1>6 DEF Apart, f, g, n

(* The first event, and the others.                                        *)
LEMMA HeadAndTail ==
    ASSUME NEW s \in Seq(Events), s # << >>
    PROVE  /\ Range(s) = {Head(s)} \cup Range(Tail(s))
           /\ IsInjective(s) => IsInjective(Tail(s)) /\ Head(s) \notin Range(Tail(s))
<1> DEFINE f == SubSeq(s, 1, 1)
           g == SubSeq(s, 1 + 1, Len(s))
<1>1. Len(s) \in Nat /\ 1 \in 0 .. Len(s) /\ Head(s) = s[1] /\ 1 + 1 = 2 /\ 2 \in Nat \ {0}
  OBVIOUS
<1>2. Tail(s) = g
  BY <1>1, TailIsSubSeq
<1>3. Range(f) \cup Range(g) = Range(s) /\ (IsInjective(s) => Apart(f, g))
  BY <1>1, CutInTwo
<1>4. Range(f) = {s[1]}
  <2>1. /\ DOMAIN f = IF 1 <= 1 THEN 1 .. (1 - 1 + 1) ELSE {}
        /\ \A i \in DOMAIN f : 1 + i - 1 \in DOMAIN s /\ f[i] = s[1 + i - 1]
    BY <1>1, SubSeqElements
  <2> HIDE DEF f
  <2>2. DOMAIN f = {1} /\ f[1] = s[1]
    BY <2>1
  <2> QED
    BY <2>2 DEF Range
<1>5. IsInjective(s) => IsInjective(g)
  BY <1>1, SubSeqInjective
<1> QED
  BY <1>1, <1>2, <1>3, <1>4, <1>5 DEF Apart

(* Two queues without repetition and without a common event, one behind    *)
(* the other.                                                              *)
LEMMA ConcatInjective ==
    ASSUME NEW s \in Seq(Events), NEW t \in Seq(Events), IsInjective(s), IsInjective(t), Apart(s, t)
    PROVE  IsInjective(s \o t)
<1> DEFINE w == s \o t
           m == Len(s)
           n == Len(t)
<1>1. m \in Nat /\ n \in Nat /\ DOMAIN s = 1 .. m /\ DOMAIN t = 1 .. n
  OBVIOUS
<1>2. /\ w \in Seq(Events) /\ Len(w) = m + n
      /\ \A i \in 1 .. m + n : w[i] = IF i <= m THEN s[i] ELSE t[i - m]
  BY ConcatProperties
<1>3. DOMAIN w = 1 .. (m + n)
  BY <1>2
<1> HIDE DEF w, m, n
<1>4. \A i \in DOMAIN w : \/ i \in DOMAIN s /\ w[i] = s[i]
                          \/ i - m \in DOMAIN t /\ w[i] = t[i - m]
  BY <1>1, <1>2, <1>3
<1>5. \A i \in DOMAIN w : i \in Int
  BY <1>3
<1>6. ASSUME NEW i \in DOMAIN w, NEW j \in DOMAIN w, w[i] = w[j] PROVE i = j
  <2>1. CASE i \in DOMAIN s /\ w[i] = s[i] /\ j \in DOMAIN s /\ w[j] = s[j]
    BY <1>6, <2>1 DEF IsInjective
  <2>2. CASE i - m \in DOMAIN t /\ w[i] = t[i - m] /\ j - m \in DOMAIN t /\ w[j] = t[j - m]
    <3>1. i - m = j - m
      BY <1>6, <2>2 DEF IsInjective
    <3> QED
      BY <1>1, <1>5, <3>1
  <2>3. CASE i \in DOMAIN s /\ w[i] = s[i] /\ j - m \in DOMAIN t /\ w[j] = t[j - m]
    <3>1. w[i] \in Range(s) /\ w[i] \in Range(t)
      BY <1>6, <2>3 DEF Range
    <3> QED
      BY <3>1 DEF Apart
  <2>4. CASE j \in DOMAIN s /\ w[j] = s[j] /\ i - m \in DOMAIN t /\ w[i] = t[i - m]
    <3>1. w[j] \in Range(s) /\ w[j] \in Range(t)
      BY <1>6, <2>4 DEF Range
    <3> QED
      BY <3>1 DEF Apart
  <2> QED
    BY <1>4, <2>1, <2>2, <2>3, <2>4
<1> QED
  BY <1>6 DEF IsInjective, w

(* Events put in front of a queue, and the trim: what is left and what     *)
(* overflows make up the whole.                                            *)
LEMMA TrimInjective ==
    ASSUME NEW s \in Seq(Events), NEW t \in Seq(Events), IsInjective(s), IsInjective(t), Apart(s, t)
    PROVE  IsInjective(TrimBack(s \o t))
<1> DEFINE w == s \o t
           n == IF Len(w) > MaxPending THEN MaxPending ELSE Len(w)
<1>1. w \in Seq(Events) /\ IsInjective(w)
  BY ConcatProperties, ConcatInjective
<1> HIDE DEF w
<1>2. n \in Int /\ n <= Len(w) /\ TrimBack(w) = SubSeq(w, 1, n)
  BY <1>1, QueueAssumption DEF TrimBack
<1> HIDE DEF n
<1>3. IsInjective(SubSeq(w, 1, n))
  <2>1. 1 \in Nat \ {0}
    OBVIOUS
  <2> QED
    BY <1>1, <1>2, <2>1, SubSeqInjective
<1> QED
  BY <1>2, <1>3 DEF w

(* Sorting a batch neither loses nor repeats an event: the order is a      *)
(* permutation.                                                            *)
LEMMA SortKeeps ==
    ASSUME NEW s \in Seq(Events), NEW p \in SortOrders(s)
    PROVE  /\ Range(Reordered(s, p)) = Range(s)
           /\ IsInjective(s) => IsInjective(Reordered(s, p))
<1> DEFINE D == DOMAIN s
           r == Reordered(s, p)
<1>1. p \in [D -> D] /\ DOMAIN r = D /\ \A i \in D : r[i] = s[p[i]]
  BY DEF SortOrders, Reordered
<1>2. ASSUME NEW i \in D PROVE i \in Nat /\ s[i] \in Events /\ CreatedAt[s[i]] \in Nat
  <2>1. D = 1 .. Len(s) /\ Len(s) \in Nat
    OBVIOUS
  <2>2. i \in Nat /\ i \in 1 .. Len(s)
    BY <2>1
  <2>3. s[i] \in Events
    BY <2>2, ElementOfSeq
  <2> QED
    BY <2>2, <2>3, QueueAssumption
<1>3. ASSUME NEW i \in D, NEW j \in D, i < j PROVE p[i] # p[j]
  <2>1. \/ CreatedAt[s[p[i]]] < CreatedAt[s[p[j]]]
        \/ CreatedAt[s[p[i]]] = CreatedAt[s[p[j]]] /\ p[i] < p[j]
    BY <1>3 DEF SortOrders
  <2>2. p[i] \in D /\ p[j] \in D
    BY <1>1
  <2>3. p[i] \in Nat /\ CreatedAt[s[p[i]]] \in Nat
    BY <1>2, <2>2
  <2> HIDE DEF D
  <2>4. ASSUME p[i] = p[j] PROVE FALSE
    <3>1. \/ CreatedAt[s[p[i]]] < CreatedAt[s[p[i]]]
          \/ p[i] < p[i]
      BY <2>1, <2>4
    <3> QED
      BY <2>3, <3>1
  <2> QED
    BY <2>4
<1>4. IsInjective(p)
  BY <1>1, <1>2, <1>3 DEF IsInjective
<1>5. IsFiniteSet(D)
  <2>1. D = 1 .. Len(s) /\ Len(s) \in Int
    OBVIOUS
  <2> QED
    BY <2>1, FS_Interval
<1> HIDE DEF D, r
<1>6. p \in Surjection(D, D)
  <2>1. p \in Injection(D, D)
    BY <1>1, <1>4 DEF Injection, IsInjective
  <2> QED
    BY <1>5, <2>1, FS_Injection
<1>7. \A j \in D : \E i \in D : p[i] = j
  BY <1>6 DEF Surjection
<1>8. Range(r) = Range(s)
  <2>1. Range(r) \subseteq Range(s)
    BY <1>1 DEF Range, D
  <2>2. ASSUME NEW x \in Range(s) PROVE x \in Range(r)
    <3>1. PICK j \in D : s[j] = x
      BY <2>2 DEF Range, D
    <3>2. PICK i \in D : p[i] = j
      BY <1>7
    <3> QED
      BY <1>1, <3>1, <3>2 DEF Range
  <2> QED
    BY <2>1, <2>2
<1>9. IsInjective(s) => IsInjective(r)
  BY <1>1, <1>4 DEF IsInjective, D
<1> QED
  BY <1>8, <1>9 DEF r

(* A queue without repetition is as long as it has events.                 *)
LEMMA InjectiveLength ==
    ASSUME NEW s \in Seq(Events), IsInjective(s)
    PROVE  Cardinality(Range(s)) = Len(s)
<1> DEFINE n == Len(s)
<1>1. n \in Nat /\ DOMAIN s = 1 .. n /\ s \in [1 .. n -> Events]
  OBVIOUS
<1> HIDE DEF n
<1>2. s \in [1 .. n -> Range(s)] /\ \A x \in Range(s) : \E i \in 1 .. n : s[i] = x
  BY <1>1 DEF Range
<1>3. s \in Surjection(1 .. n, Range(s)) /\ s \in Injection(1 .. n, Range(s))
  BY <1>1, <1>2 DEF Surjection, Injection, IsInjective
<1>4. IsFiniteSet(1 .. n) /\ Cardinality(1 .. n) = n
  <2>1. n \in Int /\ 1 \in Int
    BY <1>1
  <2>2. IsFiniteSet(1 .. n) /\ Cardinality(1 .. n) = IF 1 > n THEN 0 ELSE n - 1 + 1
    BY <2>1, FS_Interval
  <2> QED
    BY <1>1, <2>2
<1> QED
  BY <1>3, <1>4, FS_Surjection DEF n

-----------------------------------------------------------------------------
(* A channel never holds an event twice.                                   *)

(* A channel in order: no queue of it repeats an event, and no two share   *)
(* one.                                                                    *)
Neat(c) ==
    /\ IsInjective(c.pending) /\ IsInjective(c.cancelled) /\ IsInjective(c.withheld)
    /\ Apart(c.pending, c.cancelled) /\ Apart(c.pending, c.withheld)
    /\ Apart(c.cancelled, c.withheld)

(* The same of a batch.                                                    *)
NeatBatch(b) ==
    IsInjective(b.events) /\ IsInjective(b.cancelled) /\ Apart(b.events, b.cancelled)

(* Timers and counters do not matter to what a channel holds.              *)
LEMMA NeatSame ==
    ASSUME NEW c, NEW d, d.pending = c.pending, d.cancelled = c.cancelled,
           d.withheld = c.withheld
    PROVE  Held(d) = Held(c) /\ (Neat(c) => Neat(d))
BY DEF Held, Neat

(* The empty channel and the empty batch are in order.                     *)
LEMMA EmptyNeat == Range(<< >>) = {} /\ IsInjective(<< >>)
BY DEF Range, IsInjective

(* push: the new event comes in, and what overflows is what goes.          *)
LEMMA PushNeat ==
    ASSUME NEW c \in Channel, Neat(c), NEW e \in Events, e \notin Held(c)
    PROVE  /\ Neat(Push(c, e))
           /\ Held(Push(c, e)) = (Held(c) \ PushOverflow(c)) \cup {e}
           /\ PushOverflow(c) \subseteq Held(c)
<1> DEFINE s == c.pending
           rest == IF Len(s) >= MaxPending THEN Tail(s) ELSE s
           lost == PushOverflow(c)
<1>1. s \in Seq(Events) /\ IsInjective(s) /\ e \notin Range(s)
  BY ChannelFields DEF Neat, Held
<1>2. /\ rest \in Seq(Events) /\ IsInjective(rest)
      /\ Range(s) = Range(rest) \cup lost /\ lost \cap Range(rest) = {}
  <2>1. CASE Len(s) >= MaxPending
    <3>1. s # << >>
      BY <1>1, <2>1, QueueAssumption
    <3>2. Tail(s) \in Seq(Events)
      BY <1>1, <3>1, HeadTailProperties
    <3>3. /\ Range(s) = {Head(s)} \cup Range(Tail(s))
          /\ IsInjective(Tail(s)) /\ Head(s) \notin Range(Tail(s))
      BY <1>1, <3>1, HeadAndTail
    <3>4. lost = {Head(s)} /\ rest = Tail(s)
      BY <2>1 DEF PushOverflow
    <3> HIDE DEF lost, rest, s
    <3> QED
      BY <3>2, <3>3, <3>4
  <2>2. CASE ~(Len(s) >= MaxPending)
    BY <1>1, <2>2 DEF PushOverflow
  <2> QED
    BY <2>1, <2>2
<1> DEFINE d == Push(c, e)
<1>3. d.pending = Append(rest, e) /\ d.cancelled = c.cancelled /\ d.withheld = c.withheld
  BY DEF Push, Channel
<1> HIDE DEF rest, lost, d
<1>4. Range(Append(rest, e)) = Range(rest) \cup {e} /\ IsInjective(Append(rest, e))
  BY <1>1, <1>2, AppendRange
<1>5. /\ Range(d.pending) = (Range(s) \ lost) \cup {e} /\ IsInjective(d.pending)
      /\ lost \subseteq Range(s)
  BY <1>2, <1>3, <1>4
<1>6. Neat(d)
  BY <1>3, <1>5 DEF Neat, Apart, Held
<1>7. Held(d) = (Held(c) \ lost) \cup {e} /\ lost \subseteq Held(c)
  BY <1>3, <1>5 DEF Neat, Apart, Held
<1> QED
  BY <1>6, <1>7 DEF d, lost

(* A steered event moves to the side table.                                *)
LEMMA SteerNeat ==
    ASSUME NEW c \in Channel, Neat(c), NEW e \in Events
    PROVE  LET d == MarkNativeSteerPending(c, e) IN Neat(d) /\ Held(d) = Held(c)
<1>1. CASE e \in Range(c.pending)
  <2> DEFINE p == Without(c.pending, e)
             w == Append(c.withheld, e)
             d == [c EXCEPT !.pending = p, !.withheld = w]
  <2>1. d = MarkNativeSteerPending(c, e)
    BY <1>1 DEF MarkNativeSteerPending
  <2>2. Range(p) = Range(c.pending) \ {e} /\ IsInjective(p)
    BY ChannelFields, WithoutRange DEF Neat, IsInjective
  <2>3. Range(w) = Range(c.withheld) \cup {e} /\ IsInjective(w)
    BY <1>1, ChannelFields, AppendRange DEF Neat, Apart
  <2>4. d.pending = p /\ d.withheld = w /\ d.cancelled = c.cancelled
    BY DEF Channel
  <2> HIDE DEF p, w, d
  <2>5. Neat(d)
    BY <1>1, <2>2, <2>3, <2>4 DEF Neat, Apart
  <2>6. Held(d) = Held(c)
    BY <1>1, <2>2, <2>3, <2>4 DEF Held
  <2> QED
    BY <2>1, <2>5, <2>6
<1>2. CASE e \notin Range(c.pending)
  BY <1>2 DEF MarkNativeSteerPending
<1> QED
  BY <1>1, <1>2

(* Events from elsewhere put back at the front, and the trim.              *)
LEMMA PutBackNeat ==
    ASSUME NEW c \in Channel, Neat(c), NEW evs \in Seq(Events), IsInjective(evs),
           Range(evs) \cap Held(c) = {}
    PROVE  LET lost == PutBackOverflow(c, evs) IN
           /\ Neat(PutBack(c, evs))
           /\ Held(PutBack(c, evs)) = (Held(c) \cup Range(evs)) \ lost
           /\ lost \subseteq Held(c) \cup Range(evs)
<1> DEFINE s == TrimBack(evs \o c.pending)
           d == PutBack(c, evs)
           lost == PutBackOverflow(c, evs)
<1>1. c.pending \in Seq(Events) /\ IsInjective(c.pending) /\ Apart(evs, c.pending)
  BY ChannelFields DEF Neat, Apart, Held
<1>2. IsInjective(s)
  BY <1>1, TrimInjective
<1>3. /\ evs \o c.pending \in Seq(Events)
      /\ Range(evs \o c.pending) = Range(evs) \cup Range(c.pending)
  BY <1>1, RangeConcatenation, ConcatProperties
<1>4. Range(s) \subseteq Range(evs) \cup Range(c.pending)
  BY <1>3, TrimBackRange
<1>5. lost = (Range(evs) \cup Range(c.pending)) \ Range(s)
  BY <1>3 DEF PutBackOverflow
<1>6. d.pending = s /\ d.cancelled = c.cancelled /\ d.withheld = c.withheld
  BY DEF PutBack, Channel
<1> HIDE DEF s, d, lost
<1>7. Neat(d)
  BY <1>2, <1>4, <1>6 DEF Neat, Apart, Held
<1>8. Held(d) = (Held(c) \cup Range(evs)) \ lost /\ lost \subseteq Held(c) \cup Range(evs)
  BY <1>4, <1>5, <1>6 DEF Neat, Apart, Held
<1> QED
  BY <1>7, <1>8 DEF d, lost

(* What the expiry of a channel loses, where it has elapsed.               *)
ExpireLost(c) == IF c.deadline = "elapsed" THEN PutBackOverflow(c, c.withheld) ELSE {}

(* The expiry of an in-flight entry keeps the channel in order, and loses  *)
(* only what does not fit.                                                 *)
LEMMA ExpireNeat ==
    ASSUME NEW c \in Channel, Neat(c)
    PROVE  /\ Neat(Expire(c))
           /\ Held(Expire(c)) = Held(c) \ ExpireLost(c)
           /\ ExpireLost(c) \subseteq Held(c)
<1>1. CASE c.deadline = "elapsed"
  <2> DEFINE c0 == [c EXCEPT !.withheld = << >>]
             d == PutBack(c0, c.withheld)
             x == Expire(c)
  <2>1. /\ c0 \in Channel /\ c0.pending = c.pending /\ c0.cancelled = c.cancelled
        /\ c0.withheld = << >>
    <3>1. << >> \in Seq(Events)
      OBVIOUS
    <3>2. c0 \in Channel
      BY <3>1, ChannelUpdates, Zenon
    <3> QED
      BY <3>2 DEF Channel
  <2>2. c.withheld \in Seq(Events) /\ IsInjective(c.withheld)
    BY ChannelFields DEF Neat
  <2>3. PutBackOverflow(c0, c.withheld) = PutBackOverflow(c, c.withheld)
    BY <2>1 DEF PutBackOverflow
  <2>4. d.pending = TrimBack(c.withheld \o c.pending) /\ d.cancelled = c.cancelled
        /\ d.withheld = << >>
    BY <2>1 DEF PutBack, Channel
  <2>5. x.pending = TrimBack(c.withheld \o c.pending) /\ x.cancelled = c.cancelled
        /\ x.withheld = << >>
    BY <1>1 DEF Expire, Channel
  <2> HIDE DEF c0
  <2>6. Neat(c0) /\ Held(c0) = Range(c.pending) \cup Range(c.cancelled)
    BY <2>1, EmptyNeat DEF Neat, Apart, Held
  <2>7. Range(c.withheld) \cap Held(c0) = {}
    BY <2>6 DEF Neat, Apart
  <2>8. /\ Neat(d)
        /\ Held(d) = (Held(c0) \cup Range(c.withheld)) \ PutBackOverflow(c0, c.withheld)
        /\ PutBackOverflow(c0, c.withheld) \subseteq Held(c0) \cup Range(c.withheld)
    BY <2>1, <2>2, <2>6, <2>7, PutBackNeat
  <2> HIDE DEF d, x
  <2>9. Neat(x) /\ Held(x) = Held(d)
    BY <2>4, <2>5, <2>8, NeatSame
  <2>10. Held(c0) \cup Range(c.withheld) = Held(c)
    BY <2>6 DEF Held
  <2> QED
    BY <1>1, <2>3, <2>8, <2>9, <2>10 DEF ExpireLost, x
<1>2. CASE c.deadline # "elapsed"
  BY <1>2 DEF Expire, ExpireLost
<1> QED
  BY <1>1, <1>2

(* An event that is released from the side table.                          *)
LEMMA ReleaseNeat ==
    ASSUME NEW c \in Channel, Neat(c), NEW e \in Events
    PROVE  LET d == ReleaseNativeSteer(c, e)
               lost == IF e \in Range(c.withheld) THEN PutBackOverflow(c, <<e>>) ELSE {}
           IN  Neat(d) /\ Held(d) = Held(c) \ lost /\ lost \subseteq Held(c)
<1>1. CASE e \in Range(c.withheld)
  <2> DEFINE h == Without(c.withheld, e)
             c0 == [c EXCEPT !.withheld = h]
             p0 == PutBack(c0, <<e>>)
             p == PutBack(c, <<e>>)
             x == ReleaseNativeSteer(c, e)
  <2>1. h \in Seq(Events) /\ Range(h) = Range(c.withheld) \ {e} /\ IsInjective(h)
    BY ChannelFields, WithoutType, WithoutRange DEF Neat, IsInjective
  <2> HIDE DEF h
  <2>2. c0 \in Channel
    BY <2>1, ChannelUpdates, Zenon
  <2>3. c0.pending = c.pending /\ c0.cancelled = c.cancelled /\ c0.withheld = h
    BY DEF Channel
  <2>4. PutBackOverflow(c0, <<e>>) = PutBackOverflow(c, <<e>>)
    BY <2>3 DEF PutBackOverflow
  <2>5. p0.pending = TrimBack(<<e>> \o c.pending) /\ p0.cancelled = c.cancelled
        /\ p0.withheld = h
    BY <2>2, <2>3 DEF PutBack, Channel
  <2>6. x.pending = TrimBack(<<e>> \o c.pending) /\ x.cancelled = c.cancelled
        /\ x.withheld = h
    <3>1. p.pending = TrimBack(<<e>> \o c.pending) /\ p.cancelled = c.cancelled
          /\ p.withheld = c.withheld /\ p \in Channel
      <4>0. <<e>> \in Seq(Events)
        OBVIOUS
      <4>1. p \in Channel
        BY <4>0, PutBackType
      <4> QED
        BY <4>1 DEF PutBack, Channel
    <3> HIDE DEF p
    <3>2. x = [p EXCEPT !.withheld = h]
      BY <1>1, <3>1 DEF ReleaseNativeSteer, p, h
    <3> HIDE DEF x
    <3> QED
      BY <3>1, <3>2 DEF Channel
  <2>7. <<e>> \in Seq(Events) /\ Range(<<e>>) = {e} /\ IsInjective(<<e>>)
    BY DEF Range, IsInjective
  <2> HIDE DEF c0
  <2>8. Neat(c0) /\ Held(c0) = Held(c) \ {e}
    BY <1>1, <2>1, <2>3 DEF Neat, Apart, Held
  <2>9. /\ Neat(p0)
        /\ Held(p0) = (Held(c0) \cup {e}) \ PutBackOverflow(c0, <<e>>)
        /\ PutBackOverflow(c0, <<e>>) \subseteq Held(c0) \cup {e}
    BY <2>2, <2>7, <2>8, PutBackNeat
  <2> HIDE DEF p0, x
  <2>10. Neat(x) /\ Held(x) = Held(p0)
    BY <2>5, <2>6, <2>9, NeatSame
  <2>11. Held(c0) \cup {e} = Held(c)
    BY <1>1, <2>8 DEF Held
  <2> QED
    BY <1>1, <2>4, <2>9, <2>10, <2>11 DEF x
<1>2. CASE e \notin Range(c.withheld)
  BY <1>2 DEF ReleaseNativeSteer
<1> QED
  BY <1>1, <1>2

(* An event that was steered in.                                           *)
LEMMA RemoveNeat ==
    ASSUME NEW c \in Channel, Neat(c), NEW e \in Events
    PROVE  LET d == RemoveEvent(ExtendInFlightDeadline(c), e) IN
           Neat(d) /\ Held(d) = Held(c) \ ({e} \cap (Range(c.pending) \cup Range(c.withheld)))
<1>1. /\ Range(Without(c.withheld, e)) = Range(c.withheld) \ {e}
      /\ IsInjective(Without(c.withheld, e))
      /\ Range(Without(c.pending, e)) = Range(c.pending) \ {e}
      /\ IsInjective(Without(c.pending, e))
  BY ChannelFields, WithoutRange DEF Neat, IsInjective
<1> DEFINE d == RemoveEvent(ExtendInFlightDeadline(c), e)
<1>2. /\ d.pending = Without(c.pending, e) /\ d.cancelled = c.cancelled
      /\ d.withheld = Without(c.withheld, e)
  BY DEF RemoveEvent, ExtendInFlightDeadline, Channel
<1> HIDE DEF d
<1>3. Neat(d)
  BY <1>1, <1>2 DEF Neat, Apart
<1>4. Held(d) = Held(c) \ ({e} \cap (Range(c.pending) \cup Range(c.withheld)))
  BY <1>1, <1>2 DEF Neat, Apart, Held
<1> QED
  BY <1>3, <1>4 DEF d

(* flush_next divides what the channel holds between the batch and what    *)
(* stays.                                                                  *)
LEMMA FlushNeat ==
    ASSUME NEW c \in Channel, Neat(c), NEW b \in FlushBatches(c)
    PROVE  /\ NeatBatch(b) /\ Neat(Flushed(c))
           /\ Held(Flushed(c)) \cup BatchOf(b) = Held(c)
           /\ Held(Flushed(c)) \cap BatchOf(b) = {}
<1> DEFINE s == c.pending
           n == DrainCount(c)
           f == SubSeq(s, 1, n)
           g == SubSeq(s, n + 1, Len(s))
           d == Flushed(c)
<1>1. s \in Seq(Events) /\ Len(s) \in Nat /\ c.cancelled \in Seq(Events) /\ IsInjective(s)
  BY ChannelFields DEF Neat
<1>2. n \in 0 .. Len(s)
  BY <1>1, QueueAssumption DEF DrainCount
<1>3. /\ d.pending = (IF Ready(c) THEN g ELSE s) /\ d.cancelled = << >>
      /\ d.withheld = c.withheld
  BY DEF Flushed, Channel
<1> HIDE DEF d, n
<1>4. Range(f) \cup Range(g) = Range(s) /\ Apart(f, g)
  BY <1>1, <1>2, CutInTwo
<1>5. f \in Seq(Events) /\ IsInjective(f) /\ IsInjective(g)
  <2>1. /\ 1 \in Nat \ {0} /\ n \in Int /\ n <= Len(s)
        /\ n + 1 \in Nat \ {0} /\ Len(s) \in Int /\ Len(s) <= Len(s)
    BY <1>1, <1>2
  <2>2. f \in Seq(Events)
    BY <1>1, <2>1, SubSeqElements, Zenon
  <2>3. IsInjective(f)
    BY <1>1, <2>1, SubSeqInjective, Zenon
  <2>4. IsInjective(g)
    BY <1>1, <2>1, SubSeqInjective, Zenon
  <2> QED
    BY <2>2, <2>3, <2>4
<1>6. CASE Ready(c)
  <2>1. PICK p \in SortOrders(f) :
           b = [events    |-> Reordered(f, p),
                cancelled |-> c.cancelled,
                reason    |-> IF c.cancelled = << >> THEN NoReason ELSE c.reason]
    BY <1>6 DEF FlushBatches, n
  <2>2. b.events = Reordered(f, p) /\ b.cancelled = c.cancelled
    BY <2>1
  <2> HIDE DEF f, g
  <2>3. Range(b.events) = Range(f) /\ IsInjective(b.events)
    BY <1>5, <2>2, SortKeeps
  <2>4. NeatBatch(b) /\ Neat(d)
    BY <1>3, <1>4, <1>5, <1>6, <2>2, <2>3, EmptyNeat DEF Neat, NeatBatch, Apart
  <2>5. Held(d) \cup BatchOf(b) = Held(c) /\ Held(d) \cap BatchOf(b) = {}
    BY <1>3, <1>4, <1>6, <2>2, <2>3, EmptyNeat DEF Neat, Apart, Held, BatchOf
  <2> QED
    BY <2>4, <2>5 DEF d
<1>7. CASE ~Ready(c)
  <2>1. b.events = c.cancelled /\ b.cancelled = << >>
    BY <1>7 DEF FlushBatches
  <2> HIDE DEF f, g
  <2>2. NeatBatch(b) /\ Neat(d)
    BY <1>3, <1>7, <2>1, EmptyNeat DEF Neat, NeatBatch, Apart
  <2>3. Held(d) \cup BatchOf(b) = Held(c) /\ Held(d) \cap BatchOf(b) = {}
    BY <1>3, <1>7, <2>1, EmptyNeat DEF Neat, Apart, Held, BatchOf
  <2> QED
    BY <2>2, <2>3 DEF d
<1> QED
  BY <1>6, <1>7

(* What requeue returns to its channel, and what it gives up: after the    *)
(* last retry the whole batch, before it the overflow, and always the      *)
(* cancelled_events that it does not look at.                              *)
LEMMA RequeueNeat ==
    ASSUME NEW c \in Channel, Neat(c), NEW b \in FlushBatch, NeatBatch(b),
           Held(c) \cap BatchOf(b) = {}
    PROVE  /\ Neat(Requeue(c, b))
           /\ Exhausted(c) => Held(Requeue(c, b)) = Held(c)
           /\ ~Exhausted(c) =>
                /\ Held(Requeue(c, b)) = (Held(c) \cup Range(b.events)) \ PutBackOverflow(c, b.events)
                /\ PutBackOverflow(c, b.events) \subseteq Held(c) \cup Range(b.events)
<1> DEFINE x == Requeue(c, b)
           d == PutBack(c, b.events)
<1>1. b.events \in Seq(Events) /\ IsInjective(b.events) /\ Range(b.events) \cap Held(c) = {}
  BY DEF FlushBatch, NeatBatch, BatchOf
<1>2. CASE Exhausted(c)
  <2>1. x.pending = c.pending /\ x.cancelled = c.cancelled /\ x.withheld = c.withheld
    BY <1>2 DEF Requeue, Channel
  <2> HIDE DEF x
  <2> QED
    BY <1>2, <2>1, NeatSame DEF x
<1>3. CASE ~Exhausted(c)
  <2>1. d \in Channel
    BY <1>1, PutBackType
  <2>2. /\ Neat(d)
        /\ Held(d) = (Held(c) \cup Range(b.events)) \ PutBackOverflow(c, b.events)
        /\ PutBackOverflow(c, b.events) \subseteq Held(c) \cup Range(b.events)
    BY <1>1, PutBackNeat
  <2>3. x = [d EXCEPT !.retries = d.retries + 1, !.retry = "running"]
    BY <1>3 DEF Requeue
  <2> HIDE DEF d, x
  <2>4. x.pending = d.pending /\ x.cancelled = d.cancelled /\ x.withheld = d.withheld
    BY <2>1, <2>3 DEF Channel
  <2>5. Held(x) = Held(d) /\ Neat(x)
    BY <2>2, <2>4, NeatSame
  <2> QED
    BY <1>3, <2>2, <2>5 DEF x
<1> QED
  BY <1>2, <1>3

(* A cancelled turn's batch is kept whole.                                 *)
LEMMA RequeueAsCancelledNeat ==
    ASSUME NEW c \in Channel, Neat(c), NEW b \in FlushBatch, NeatBatch(b),
           Held(c) \cap BatchOf(b) = {}, NEW why
    PROVE  LET d == RequeueAsCancelled(c, b, why) IN
           Neat(d) /\ Held(d) = Held(c) \cup BatchOf(b)
<1> DEFINE d == RequeueAsCancelled(c, b, why)
           y == c.cancelled \o b.cancelled
           z == y \o b.events
<1>1. b.events \in Seq(Events) /\ b.cancelled \in Seq(Events) /\ c.cancelled \in Seq(Events)
  BY ChannelFields DEF FlushBatch
<1>2. d.pending = c.pending /\ d.withheld = c.withheld /\ d.cancelled = z
  BY DEF RequeueAsCancelled, Channel
<1> HIDE DEF d
<1>3. /\ y \in Seq(Events) /\ Range(y) = Range(c.cancelled) \cup Range(b.cancelled)
      /\ IsInjective(y)
  <2>1. IsInjective(c.cancelled) /\ IsInjective(b.cancelled) /\ Apart(c.cancelled, b.cancelled)
    BY DEF Neat, NeatBatch, Apart, Held, BatchOf
  <2> QED
    BY <1>1, <2>1, RangeConcatenation, ConcatProperties, ConcatInjective
<1> HIDE DEF y
<1>4. Range(z) = Range(y) \cup Range(b.events) /\ IsInjective(z)
  <2>1. IsInjective(b.events) /\ Apart(y, b.events)
    BY <1>3 DEF NeatBatch, Apart, Held, BatchOf
  <2> QED
    BY <1>1, <1>3, <2>1, RangeConcatenation, ConcatInjective
<1> HIDE DEF z
<1>5. Neat(d)
  BY <1>2, <1>3, <1>4 DEF Neat, Apart, Held, BatchOf
<1>6. Held(d) = Held(c) \cup BatchOf(b)
  BY <1>2, <1>3, <1>4 DEF Held, BatchOf
<1> QED
  BY <1>5, <1>6 DEF d

(* mark_complete, the compaction and drain_channel.                        *)
LEMMA BookkeepingNeat ==
    ASSUME NEW c \in Channel
    PROVE  /\ Held(MarkComplete(c)) = Held(c) /\ (Neat(c) => Neat(MarkComplete(c)))
           /\ Held(CompactExpiredState(c)) = Held(c)
           /\ Neat(c) => Neat(CompactExpiredState(c))
           /\ ExpireLost(CompactExpiredState(c)) = ExpireLost(c)
           /\ Held(DrainChannel(c)) = {} /\ Neat(DrainChannel(c))
<1> DEFINE m == MarkComplete(c)
           k == CompactExpiredState(c)
           d == DrainChannel(c)
<1>1. m.pending = c.pending /\ m.cancelled = c.cancelled /\ m.withheld = c.withheld
  BY DEF MarkComplete, Channel
<1>2. k.pending = c.pending /\ k.cancelled = c.cancelled /\ k.withheld = c.withheld
      /\ k.deadline = c.deadline
  BY DEF CompactExpiredState, Channel
<1>3. d.pending = << >> /\ d.cancelled = << >> /\ d.withheld = << >>
  BY DEF DrainChannel, EmptyChannel
<1> HIDE DEF m, k, d
<1>4. Held(m) = Held(c) /\ (Neat(c) => Neat(m))
  BY <1>1, NeatSame
<1>5. Held(k) = Held(c) /\ (Neat(c) => Neat(k)) /\ ExpireLost(k) = ExpireLost(c)
  BY <1>2, NeatSame DEF ExpireLost, PutBackOverflow
<1>6. Held(d) = {} /\ Neat(d)
  BY <1>3, EmptyNeat DEF Held, Neat, Apart
<1> QED
  BY <1>4, <1>5, <1>6 DEF m, k, d
=============================================================================
