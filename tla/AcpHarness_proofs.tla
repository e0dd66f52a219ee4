------------------------- MODULE AcpHarness_proofs -------------------------
(* Proofs about AcpHarness, for every set of channels, events and agents,  *)
(* every configuration and every bound: type correctness together with the *)
(* cap of the queues, exclusive use of the pool's slots, an ack for every  *)
(* withheld steer, one place at most for every event, and one at least for *)
(* those never merged as cancelled_events. Where the in-flight deadline    *)
(* outlasts the turns (TurnClock): one turn per channel, agreement of the  *)
(* queue's in-flight entries with the tasks, no backoff on a channel with  *)
(* a cancelled batch, no prompt for a steer the agent accepted, and the    *)
(* refinement of TurnDispatch.                                             *)
EXTENDS AcpHarness, EventQueue_proofs

QueueOK(qq) ==
    /\ qq \in [Channels -> Channel]
    /\ \A ch \in Channels : Len(qq[ch].pending) <= MaxPending

(* A task that can end well: only a turn of a channel is steered, and a    *)
(* cancelled turn that hands its batch back has a reason to merge it under.*)
GoodTask ==
    {t \in Task :
        /\ t.ch = NoChannel => t.buf = NoEvent /\ t.pend = NoEvent
        /\ t.state \in {"Cancelled", "CancelDrainTimeout"} /\ t.ret = TRUE
              => t.control \in Reason}

TypeInv == TypeOK /\ QueuesBounded /\ task \in [Agents -> GoodTask]

-----------------------------------------------------------------------------
(* Replacing one channel's record by a good one keeps the queue good.      *)
LEMMA QueueUpdate ==
    ASSUME NEW qq, QueueOK(qq), NEW ch \in Channels,
           NEW c \in Channel, Len(c.pending) <= MaxPending
    PROVE  QueueOK([qq EXCEPT ![ch] = c])
BY DEF QueueOK

(* The expiry pass of flush_next and has_flushable_work keeps it good.     *)
LEMMA ExpireAllType ==
    ASSUME NEW qq, QueueOK(qq)
    PROVE  QueueOK(ExpireAll(qq))
<1>1. ASSUME NEW ch \in Channels
      PROVE  Expire(qq[ch]) \in Channel /\ Len(Expire(qq[ch]).pending) <= MaxPending
  BY ExpireType DEF QueueOK
<1> QED
  BY <1>1 DEF ExpireAll, QueueOK

(* Settling fates leaves fates.                                            *)
LEMMA SettleType ==
    ASSUME NEW f \in [Events -> Fate], NEW S, NEW why \in Fate
    PROVE  Settle(f, S, why) \in [Events -> Fate]
BY DEF Settle

(* A task is good at its spawn.                                            *)
LEMMA NewTaskType ==
    ASSUME NEW ch \in Channels \cup {NoChannel}, NEW b \in FlushBatch
    PROVE  NewTask(ch, b) \in GoodTask
BY DEF NewTask, GoodTask, Task, Outcome

(* An empty task_map entry is good too.                                    *)
LEMMA NoTaskType == NoBatch \in FlushBatch /\ NoTask \in GoodTask
<1>1. NoBatch \in FlushBatch
  BY DEF NoBatch, FlushBatch
<1> QED
  BY <1>1 DEF NoTask, NewTask, GoodTask, Task, Outcome

(* What a result leaves in its channel is a good record, not in flight.    *)
LEMMA CompletedType ==
    ASSUME NEW c \in Channel, Len(c.pending) <= MaxPending,
           NEW t \in Task,
           t.ret = TRUE /\ t.state \in {"Cancelled", "CancelDrainTimeout"}
              => t.control \in Reason
    PROVE  /\ Completed(c, t) \in Channel
           /\ Len(Completed(c, t).pending) <= MaxPending
           /\ Completed(c, t).deadline = "unset"
<1>1. t.batch \in FlushBatch /\ t.ret \in BOOLEAN
  BY DEF Task
<1>2. AfterResult(c, t) \in Channel /\ Len(AfterResult(c, t).pending) <= MaxPending
  <2>1. CASE ~t.ret \/ t.ch \in removed_channels
    BY <2>1 DEF AfterResult
  <2>2. CASE /\ ~(~t.ret \/ t.ch \in removed_channels)
             /\ t.state \in {"Cancelled", "CancelDrainTimeout"}
    <3>1. AfterResult(c, t) = RequeueAsCancelled(c, t.batch, t.control)
      BY <2>2 DEF AfterResult
    <3>2. t.control \in Reason
      BY <2>2, <1>1
    <3> QED
      BY <1>1, <3>1, <3>2, RequeueAsCancelledType
  <2>3. CASE /\ ~(~t.ret \/ t.ch \in removed_channels)
             /\ t.state \notin {"Cancelled", "CancelDrainTimeout"}
             /\ t.state \in {"HardSilent", "NonRetryable"}
    BY <2>3 DEF AfterResult
  <2>4. CASE /\ ~(~t.ret \/ t.ch \in removed_channels)
             /\ t.state \notin {"Cancelled", "CancelDrainTimeout"}
             /\ t.state \notin {"HardSilent", "NonRetryable"}
    <3>1. AfterResult(c, t) = Requeue(c, t.batch)
      BY <2>4 DEF AfterResult
    <3> QED
      BY <1>1, <3>1, RequeueType
  <2> QED
    BY <2>1, <2>2, <2>3, <2>4
<1> QED
  BY <1>2, MarkCompleteType DEF Completed

-----------------------------------------------------------------------------
(* The empty harness is well-typed.                                        *)
LEMMA TypeInit == Init => TypeInv
<1> SUFFICES ASSUME Init PROVE TypeInv
  OBVIOUS
<1>1. q \in [Channels -> Channel] /\ QueuesBounded
  BY EmptyChannelType, QueueAssumption DEF Init, QueuesBounded, EmptyChannel
<1>2. task \in [Agents -> GoodTask] /\ task \in [Agents -> Task]
  BY NoTaskType DEF Init, GoodTask
<1>3. fate \in [Events -> Fate] /\ attempts \in [Events -> Nat]
  BY DEF Init, Fate
<1>4. circuit \in [Agents -> Timer] /\ respawn_in_flight \in [Agents -> BOOLEAN]
  BY DEF Init, Timer
<1>5. spawning \in [Agents -> Nat] /\ respawn_rx \in Seq([agent : Agents, ok : BOOLEAN])
  BY DEF Init
<1>6. idle \subseteq Agents /\ acks = {} /\ removed_channels = {} /\ merged = {}
  BY DEF Init, StartedPool
<1>7. /\ heartbeat_in_flight \in BOOLEAN /\ next \in Nat /\ faults \in Nat
      /\ pc \in Dispatching \cup {"top", "collect", "select", "drain", "exited"}
  BY DEF Init
<1> QED
  BY <1>1, <1>2, <1>3, <1>4, <1>5, <1>6, <1>7 DEF TypeInv, TypeOK

(* What TypeInv says of the parts, in the form the steps below use.        *)
LEMMA TypeFacts ==
    ASSUME TypeInv
    PROVE  /\ QueueOK(q)
           /\ \A ch \in Channels : q[ch] \in Channel /\ Len(q[ch].pending) <= MaxPending
           /\ task \in [Agents -> GoodTask]
           /\ \A a \in Agents : task[a] \in Task /\ task[a] \in GoodTask
BY DEF TypeInv, TypeOK, QueuesBounded, QueueOK, GoodTask

(* A signal changes the control field of one task at most.                 *)
LEMMA SignalType ==
    ASSUME TypeInv, NEW ch, NEW s \in Signal, SignalInFlightTask(ch, s)
    PROVE  /\ task' \in [Agents -> GoodTask]
           /\ \A a \in Agents : task'[a].ch = task[a].ch /\ task'[a].state = task[a].state
<1>1. CASE UNCHANGED task
  BY <1>1, TypeFacts
<1>2. CASE \E a \in On(ch) :
              task' = [task EXCEPT ![a].control = IF @ = "open" THEN s ELSE @]
  <2>1. PICK a \in On(ch) :
           task' = [task EXCEPT ![a].control = IF @ = "open" THEN s ELSE @]
    BY <1>2
  <2>2. a \in Agents
    BY DEF On, Busy
  <2> DEFINE k == IF task[a].control = "open" THEN s ELSE task[a].control
             u == [task[a] EXCEPT !.control = k]
  <2>3. task' = [task EXCEPT ![a] = u]
    BY <2>1, <2>2, TypeFacts
  <2>4. task[a] \in GoodTask /\ task[a] \in Task
    BY <2>2, TypeFacts
  <2>5. k \in Signal \cup {"open"}
    BY <2>4 DEF Task
  <2>6. u \in Task /\ u.ch = task[a].ch /\ u.buf = task[a].buf /\ u.pend = task[a].pend
        /\ u.state = task[a].state /\ u.ret = task[a].ret /\ u.control = k
    BY <2>4, <2>5 DEF Task
  <2>7. task[a].control \in Reason => k = task[a].control
    BY DEF Reason
  <2>8. u \in GoodTask
    BY <2>4, <2>6, <2>7 DEF GoodTask
  <2> QED
    BY <2>2, <2>3, <2>6, <2>8, TypeFacts
<1> QED
  BY <1>1, <1>2 DEF SignalInFlightTask

-----------------------------------------------------------------------------
(* TypeInv, by the groups of variables that the actions change together.   *)
PoolTyped ==
    /\ idle \subseteq Agents
    /\ circuit \in [Agents -> Timer]
    /\ respawn_in_flight \in [Agents -> BOOLEAN]
    /\ spawning \in [Agents -> Nat]
    /\ respawn_rx \in Seq([agent : Agents, ok : BOOLEAN])

LoopTyped ==
    /\ acks \subseteq [ch : Channels, ev : Events, ack : Ack]
    /\ removed_channels \subseteq Channels
    /\ heartbeat_in_flight \in BOOLEAN
    /\ pc \in Dispatching \cup {"top", "collect", "select", "drain", "exited"}

HistoryTyped ==
    /\ next \in Nat
    /\ fate \in [Events -> Fate]
    /\ merged \subseteq Events
    /\ attempts \in [Events -> Nat]
    /\ faults \in Nat

(* The groups make up TypeInv, before and after a step.                    *)
LEMMA TypeParts ==
    /\ TypeInv => PoolTyped /\ LoopTyped /\ HistoryTyped
    /\ QueueOK(q') /\ task' \in [Agents -> GoodTask] /\ PoolTyped' /\ LoopTyped'
          /\ HistoryTyped' => TypeInv'
<1>1. TypeInv => PoolTyped /\ LoopTyped /\ HistoryTyped
  BY DEF TypeInv, TypeOK, PoolTyped, LoopTyped, HistoryTyped
<1>2. task' \in [Agents -> GoodTask] => task' \in [Agents -> Task]
  BY DEF GoodTask
<1>3. QueueOK(q') /\ task' \in [Agents -> GoodTask] /\ PoolTyped' /\ LoopTyped'
          /\ HistoryTyped' => TypeInv'
  BY <1>2 DEF TypeInv, TypeOK, QueuesBounded, QueueOK, PoolTyped, LoopTyped, HistoryTyped
<1> QED
  BY <1>1, <1>3

(* What a step leaves alone stays well-typed.                              *)
LEMMA UnchangedTyped ==
    ASSUME TypeInv
    PROVE  /\ UNCHANGED poolVars => PoolTyped'
           /\ UNCHANGED history => HistoryTyped'
           /\ UNCHANGED q => QueueOK(q')
           /\ UNCHANGED task => task' \in [Agents -> GoodTask]
BY TypeFacts, TypeParts DEF poolVars, history, PoolTyped, HistoryTyped, QueueOK

(* Replacing one task by a good one keeps the task_map good.               *)
LEMMA TaskUpdate ==
    ASSUME TypeInv, NEW a \in Agents, NEW u \in GoodTask, task' = [task EXCEPT ![a] = u]
    PROVE  task' \in [Agents -> GoodTask]
BY TypeFacts

(* The relay arm: push, overflow, the native steer and the cancel signal.  *)
LEMMA RelayEventTyped ==
    ASSUME TypeInv, NEW ch \in Channels, RelayEvent(ch)
    PROVE  TypeInv'
<1> USE DEF RelayEvent
<1>1. /\ q[ch] \in Channel /\ Len(q[ch].pending) <= MaxPending
      /\ QueueOK(q) /\ next \in Events
  BY TypeFacts
<1> DEFINE pushed == Push(q[ch], next)
<1>2. pushed \in Channel /\ Len(pushed.pending) <= MaxPending
  BY <1>1, PushType
<1>3. /\ MarkNativeSteerPending(pushed, next) \in Channel
      /\ Len(MarkNativeSteerPending(pushed, next).pending) <= MaxPending
  BY <1>1, <1>2, SteerTypes
<1>4. QueueOK([q EXCEPT ![ch] = pushed])
  BY <1>1, <1>2, QueueUpdate
<1>5. QueueOK([q EXCEPT ![ch] = MarkNativeSteerPending(pushed, next)])
  BY <1>1, <1>3, QueueUpdate
<1>6. QueueOK(q')
  <2>1. q' \in {q, [q EXCEPT ![ch] = pushed],
                [q EXCEPT ![ch] = MarkNativeSteerPending(pushed, next)]}
    OBVIOUS
  <2> QED
    BY <1>1, <1>4, <1>5, <2>1
<1>7. task' \in [Agents -> GoodTask]
  <2>1. CASE UNCHANGED task
    BY <2>1, UnchangedTyped
  <2>2. CASE \E a \in On(ch) : SteerAccepted(a) /\ task' = [task EXCEPT ![a].buf = next]
    <3>1. PICK a \in On(ch) : task' = [task EXCEPT ![a].buf = next]
      BY <2>2
    <3>2. a \in Agents /\ task[a].ch = ch /\ ch # NoChannel
      BY HarnessAssumption DEF On, Busy
    <3> DEFINE u == [task[a] EXCEPT !.buf = next]
    <3>3. task' = [task EXCEPT ![a] = u]
      BY <3>1, <3>2, TypeFacts
    <3>4. task[a] \in Task /\ task[a] \in GoodTask
      BY <3>2, TypeFacts
    <3>5. u \in Task /\ u.ch = ch /\ u.state = task[a].state /\ u.ret = task[a].ret
          /\ u.control = task[a].control
      BY <1>1, <3>2, <3>4 DEF Task
    <3>6. u \in GoodTask
      BY <3>2, <3>4, <3>5 DEF GoodTask
    <3> QED
      BY <3>2, <3>3, <3>6, TaskUpdate
  <2>3. CASE \E s \in ModeGateSignal \ {"none"} : SignalInFlightTask(ch, s)
    <3>1. ModeGateSignal \ {"none"} \subseteq Signal
      BY HarnessAssumption DEF ModeGateSignal, Signal
    <3> QED
      BY <2>3, <3>1, SignalType
  <2> QED
    BY <2>1, <2>2, <2>3
<1>8. HistoryTyped'
  <2>1. HistoryTyped
    BY TypeParts
  <2>2. Settle(fate, PushOverflow(q[ch]), "overflow") \in [Events -> Fate]
    BY <2>1, SettleType DEF HistoryTyped, Fate
  <2>3. "live" \in Fate /\ "dropped" \in Fate
    BY DEF Fate
  <2>4. fate' \in [Events -> Fate]
    BY <2>1, <2>2, <2>3 DEF HistoryTyped
  <2> QED
    BY <2>1, <2>4 DEF HistoryTyped
<1>9. PoolTyped' /\ LoopTyped'
  BY TypeParts, UnchangedTyped DEF LoopTyped, Dispatching
<1> QED
  BY <1>6, <1>7, <1>8, <1>9, TypeParts

(* Owner commands and channel membership.                                  *)
LEMMA MembershipTyped ==
    ASSUME TypeInv, NEW ch \in Channels,
           \/ \E s \in CommandSignal : OwnerCommand(ch, s)
           \/ ChannelRemoved(ch) \/ ChannelAdded(ch)
    PROVE  TypeInv'
<1> USE TypeParts, UnchangedTyped
<1>1. ASSUME NEW s \in CommandSignal, OwnerCommand(ch, s)
      PROVE  TypeInv'
  <2>1. task' \in [Agents -> GoodTask]
    BY <1>1, SignalType DEF OwnerCommand, CommandSignal, Signal
  <2>2. HistoryTyped' /\ LoopTyped'
    BY <1>1 DEF OwnerCommand, HistoryTyped, LoopTyped
  <2> QED
    BY <1>1, <2>1, <2>2 DEF OwnerCommand
<1>2. CASE ChannelRemoved(ch)
  <2>1. DrainChannel(q[ch]) \in Channel /\ Len(DrainChannel(q[ch]).pending) <= MaxPending
    BY TypeFacts, DrainChannelType, QueueAssumption
  <2>2. QueueOK(q')
    BY <1>2, <2>1, TypeFacts, QueueUpdate DEF ChannelRemoved
  <2>3. Settle(fate, Held(q[ch]), "removed") \in [Events -> Fate]
    BY SettleType DEF HistoryTyped, Fate
  <2>4. HistoryTyped'
    BY <1>2, <2>3 DEF ChannelRemoved, HistoryTyped
  <2>5. LoopTyped'
    BY <1>2 DEF ChannelRemoved, LoopTyped
  <2> QED
    BY <1>2, <2>2, <2>4, <2>5 DEF ChannelRemoved
<1>3. CASE ChannelAdded(ch)
  <2>1. LoopTyped'
    BY <1>3 DEF ChannelAdded, LoopTyped
  <2> QED
    BY <1>3, <2>1 DEF ChannelAdded
<1> QED
  BY <1>1, <1>2, <1>3

(* Each flush of dispatch_pending: nothing to do, a batch for an agent, a  *)
(* batch put back.                                                         *)
LEMMA DispatchTyped ==
    ASSUME TypeInv,
           \/ DispatchNothing
           \/ \E ch \in Channels : PoolExhausted(ch) \/ \E a \in Agents : DispatchBatch(ch, a)
    PROVE  TypeInv'
<1> USE TypeParts, UnchangedTyped
<1> DEFINE qq == ExpireAll(q)
<1>1. /\ QueueOK(qq)
      /\ \A ch \in Channels : qq[ch] \in Channel /\ Len(qq[ch].pending) <= MaxPending
  BY TypeFacts, ExpireAllType DEF QueueOK
<1>2. \A ch \in Channels : /\ Flushed(qq[ch]) \in Channel
                           /\ Len(Flushed(qq[ch]).pending) <= MaxPending
                           /\ FlushBatches(qq[ch]) \subseteq FlushBatch
  BY <1>1, FlushedType, FlushBatchesType
<1>3. FlushChoices(qq) \subseteq Channels
  BY DEF FlushChoices
<1> HIDE DEF qq
<1>4. \A S : Settle(fate, S, "overflow") \in [Events -> Fate]
  BY SettleType DEF HistoryTyped, Fate
<1>5. pc \in Dispatching => AfterDispatch \in {"top", "collect", "select"}
  BY DEF Dispatching, AfterDispatch
<1>6. ASSUME NEW b \in FlushBatch
      PROVE  Range(b.cancelled) \subseteq Events
  <2>1. b.cancelled \in Seq(Events)
    BY DEF FlushBatch
  <2> QED
    BY <2>1 DEF Range
<1>7. CASE DispatchNothing
  <2>1. QueueOK(q')
    BY <1>1, <1>7 DEF DispatchNothing, qq
  <2>2. HistoryTyped'
    BY <1>4, <1>7 DEF DispatchNothing, HistoryTyped
  <2>3. LoopTyped'
    BY <1>5, <1>7 DEF DispatchNothing, LoopTyped
  <2> QED
    BY <1>7, <2>1, <2>2, <2>3 DEF DispatchNothing
<1>8. ASSUME NEW ch \in Channels, NEW a \in Agents, DispatchBatch(ch, a)
      PROVE  TypeInv'
  <2>1. PICK b \in FlushBatches(qq[ch]) : /\ task' = [task EXCEPT ![a] = NewTask(ch, b)]
                                          /\ merged' = merged \cup Range(b.cancelled)
    BY <1>8 DEF DispatchBatch, qq
  <2>2. b \in FlushBatch
    BY <1>2
  <2>3. NewTask(ch, b) \in GoodTask
    BY <2>2, NewTaskType
  <2>4. task' \in [Agents -> GoodTask]
    BY <2>1, <2>3, TaskUpdate
  <2>5. q' = [qq EXCEPT ![ch] = Flushed(qq[ch])]
    BY <1>1, <1>8 DEF DispatchBatch, qq, QueueOK
  <2>6. QueueOK(q')
    BY <1>1, <1>2, <2>5, QueueUpdate
  <2>7. HistoryTyped'
    BY <1>4, <1>6, <1>8, <2>1, <2>2 DEF DispatchBatch, HistoryTyped
  <2>8. PoolTyped' /\ LoopTyped'
    BY <1>8 DEF DispatchBatch, PoolTyped, LoopTyped
  <2> QED
    BY <2>4, <2>6, <2>7, <2>8
<1>9. ASSUME NEW ch \in Channels, PoolExhausted(ch)
      PROVE  TypeInv'
  <2> DEFINE c == Flushed(qq[ch])
  <2>1. PICK b \in FlushBatches(qq[ch]) :
           /\ q' = [qq EXCEPT ![ch] = MarkComplete(RequeuePreserveTimestamps(c, b))]
           /\ merged' = merged \cup Range(b.cancelled)
           /\ fate' = Settle(fate, ExpireOverflow(q) \cup PutBackOverflow(c, b.events),
                             "overflow")
    BY <1>9 DEF PoolExhausted, qq
  <2>2. b \in FlushBatch /\ b.events \in Seq(Events) /\ c \in Channel
    BY <1>2 DEF FlushBatch
  <2> HIDE DEF c
  <2> DEFINE d == RequeuePreserveTimestamps(c, b)
  <2>3. d \in Channel /\ Len(d.pending) <= MaxPending
    BY <2>2, PutBackType DEF RequeuePreserveTimestamps
  <2> HIDE DEF d
  <2>4. MarkComplete(d) \in Channel /\ Len(MarkComplete(d).pending) <= MaxPending
    BY <2>3, MarkCompleteType
  <2>5. QueueOK(q')
    BY <1>1, <2>1, <2>4, QueueUpdate DEF d
  <2>6. HistoryTyped'
    BY <1>4, <1>6, <1>9, <2>1, <2>2 DEF PoolExhausted, HistoryTyped
  <2>7. LoopTyped'
    BY <1>5, <1>9 DEF PoolExhausted, LoopTyped
  <2> QED
    BY <1>9, <2>5, <2>6, <2>7 DEF PoolExhausted
<1> QED
  BY <1>7, <1>8, <1>9

(* What a task posts to the ack channel are acks of its channel's events.  *)
LEMMA PostType ==
    ASSUME TypeInv, NEW a \in Agents, NEW evs, NEW k \in Ack,
           evs \subseteq {task[a].buf, task[a].pend}
    PROVE  Post(a, evs, k) \subseteq [ch : Channels, ev : Events, ack : Ack]
<1>1. task[a] \in Task /\ task[a] \in GoodTask
  BY TypeFacts
<1>2. ASSUME NEW e \in evs \ {NoEvent}
      PROVE  task[a].ch \in Channels /\ e \in Events
  BY <1>1, <1>2 DEF Task, GoodTask
<1> QED
  BY <1>2 DEF Post

(* The prompt tasks: steers taken and answered, turns that end or panic.   *)
LEMMA TaskTyped ==
    ASSUME TypeInv, NEW a \in Agents,
           \/ SteerTaken(a)
           \/ \E k \in Ack : SteerAnswered(a, k)
           \/ \E o \in Outcome, byControl \in BOOLEAN : TaskEnds(a, o, byControl)
           \/ TaskPanics(a)
    PROVE  TypeInv'
<1> USE TypeParts, UnchangedTyped
<1>1. task[a] \in Task /\ task[a] \in GoodTask
  BY TypeFacts
<1>2. \A evs, k : k \in Ack /\ evs \subseteq {task[a].buf, task[a].pend} =>
          Post(a, evs, k) \subseteq [ch : Channels, ev : Events, ack : Ack]
  BY PostType
<1>3. CASE SteerTaken(a)
  <2> DEFINE u == [task[a] EXCEPT !.pend = task[a].buf, !.buf = NoEvent]
             v == [task[a] EXCEPT !.buf = NoEvent]
  <2>1. u \in GoodTask /\ v \in GoodTask
    BY <1>1 DEF GoodTask, Task
  <2>2. task' \in {[task EXCEPT ![a] = u], [task EXCEPT ![a] = v]}
    BY <1>3, TypeFacts DEF SteerTaken
  <2>3. task' \in [Agents -> GoodTask]
    BY <2>1, <2>2, TaskUpdate
  <2>4. LoopTyped'
    BY <1>2, <1>3 DEF SteerTaken, LoopTyped, Ack
  <2> QED
    BY <1>3, <2>3, <2>4 DEF SteerTaken
<1>4. ASSUME NEW k \in Ack, SteerAnswered(a, k)
      PROVE  TypeInv'
  <2> DEFINE u == [task[a] EXCEPT !.pend = NoEvent]
  <2>1. u \in GoodTask
    BY <1>1 DEF GoodTask, Task
  <2>2. task' = [task EXCEPT ![a] = u]
    BY <1>4, TypeFacts DEF SteerAnswered
  <2>3. task' \in [Agents -> GoodTask]
    BY <2>1, <2>2, TaskUpdate
  <2>4. LoopTyped'
    BY <1>2, <1>4 DEF SteerAnswered, LoopTyped
  <2> QED
    BY <1>4, <2>3, <2>4 DEF SteerAnswered
<1>5. ASSUME NEW o \in Outcome, NEW byControl \in BOOLEAN, TaskEnds(a, o, byControl)
      PROVE  TypeInv'
  <2>0. PICK r \in IF byControl THEN {ControlCancelReturns(task[a])} ELSE Returns(task[a], o) :
          task' = [task EXCEPT ![a].state = o, ![a].ret = r,
                               ![a].buf = NoEvent, ![a].pend = NoEvent]
    BY <1>5, Zenon DEF TaskEnds
  <2> DEFINE u == [task[a] EXCEPT !.state = o, !.ret = r, !.buf = NoEvent, !.pend = NoEvent]
  <2>1. r \in BOOLEAN
    BY DEF ControlCancelReturns, Returns
  <2>2. o \in {"Cancelled", "CancelDrainTimeout"} /\ r = TRUE => task[a].control \in Reason
    BY <1>5, <2>0 DEF TaskEnds, EndsByItself, EndsByRejection, EndsInSetup, EndsInInitialMessage,
                  EndsBeforeControl, EndsInPrompt, ControlCancelReturns, Reason
  <2>3. task' = [task EXCEPT ![a] = u]
    BY <2>0, TypeFacts
  <2>4. u \in Task /\ u.state = o /\ u.ret = r /\ u.control = task[a].control
        /\ u.buf = NoEvent /\ u.pend = NoEvent
    BY <1>1, <2>1 DEF Task
  <2>5. u \in GoodTask
    BY <2>2, <2>4 DEF GoodTask
  <2>6. task' \in [Agents -> GoodTask]
    BY <2>3, <2>5, TaskUpdate
  <2>7. faults' \in {faults, faults + 1} /\ UNCHANGED <<next, fate, merged, attempts>>
    BY <1>5 DEF TaskEnds
  <2>8. HistoryTyped'
    BY <2>7 DEF HistoryTyped
  <2>9. /\ acks' = acks \cup Post(a, {task[a].buf, task[a].pend}, "Released")
        /\ UNCHANGED <<q, poolVars, removed_channels, heartbeat_in_flight, pc>>
    BY <1>5, Zenon DEF TaskEnds
  <2>10. LoopTyped'
    BY <1>2, <2>9 DEF LoopTyped, Ack
  <2> QED
    BY <2>6, <2>8, <2>9, <2>10
<1>6. CASE TaskPanics(a)
  <2> DEFINE u == [task[a] EXCEPT !.state = "panicked", !.buf = NoEvent, !.pend = NoEvent]
  <2>1. u \in Task /\ u.state = "panicked" /\ u.buf = NoEvent /\ u.pend = NoEvent
    BY <1>1 DEF Task
  <2>2. u \in GoodTask
    BY <2>1 DEF GoodTask
  <2>3. task' = [task EXCEPT ![a] = u]
    BY <1>6, TypeFacts DEF TaskPanics
  <2>4. task' \in [Agents -> GoodTask]
    BY <2>2, <2>3, TaskUpdate
  <2>5. HistoryTyped' /\ LoopTyped'
    BY <1>2, <1>6 DEF TaskPanics, HistoryTyped, LoopTyped, Ack
  <2> QED
    BY <1>6, <2>4, <2>5 DEF TaskPanics
<1> QED
  BY <1>3, <1>4, <1>5, <1>6

(* record_crash keeps the circuits and the respawn bookkeeping typed.      *)
LEMMA RecordCrashType ==
    ASSUME PoolTyped, NEW a \in Agents, RecordCrash(a)
    PROVE  /\ circuit' \in [Agents -> Timer]
           /\ respawn_in_flight' \in [Agents -> BOOLEAN]
           /\ spawning' \in [Agents -> Nat]
<1>1. circuit' \in [Agents -> Timer]
  BY DEF PoolTyped, RecordCrash, Timer
<1>2. respawn_in_flight' \in [Agents -> BOOLEAN]
  <2>1. CASE respawn_in_flight' = [respawn_in_flight EXCEPT ![a] = TRUE]
    BY <2>1 DEF PoolTyped
  <2>2. CASE respawn_in_flight' = respawn_in_flight
    BY <2>2 DEF PoolTyped
  <2> QED
    BY <2>1, <2>2 DEF RecordCrash
<1>3. spawning' \in [Agents -> Nat]
  <2>1. CASE spawning' = [spawning EXCEPT ![a] = @ + 1]
    BY <2>1 DEF PoolTyped
  <2>2. CASE spawning' = spawning
    BY <2>2 DEF PoolTyped
  <2> QED
    BY <2>1, <2>2 DEF RecordCrash
<1> QED
  BY <1>1, <1>2, <1>3

(* The queue and the history after a turn has ended, whoever reports it.   *)
LEMMA EndTurnTyped ==
    ASSUME TypeInv, NEW t \in Task,
           t.ret = TRUE /\ t.state \in {"Cancelled", "CancelDrainTimeout"}
              => t.control \in Reason,
           EndTurn(t)
    PROVE  /\ QueueOK(q')
           /\ fate' \in [Events -> Fate]
           /\ attempts' \in [Events -> Nat]
           /\ heartbeat_in_flight' \in BOOLEAN
<1> USE TypeParts
<1>1. CASE t.ch = NoChannel
  BY <1>1, TypeFacts DEF EndTurn, HistoryTyped
<1>2. CASE t.ch # NoChannel
  <2>1. t.ch \in Channels
    BY <1>2 DEF Task
  <2>2. Completed(q[t.ch], t) \in Channel /\ Len(Completed(q[t.ch], t).pending) <= MaxPending
    BY <2>1, TypeFacts, CompletedType
  <2>3. QueueOK(q')
    BY <1>2, <2>1, <2>2, TypeFacts, QueueUpdate DEF EndTurn
  <2>4. \A S, why : why \in Fate => Settle(fate, S, why) \in [Events -> Fate]
    BY SettleType DEF HistoryTyped
  <2>5. ResultFate(q[t.ch], t) \in [Events -> Fate]
    BY <2>4 DEF ResultFate, HistoryTyped, Fate
  <2>6. CountAttempts(t) \in [Events -> Nat]
    BY DEF CountAttempts, HistoryTyped
  <2> QED
    BY <1>2, <2>3, <2>5, <2>6 DEF EndTurn, LoopTyped
<1> QED
  BY <1>1, <1>2

(* Results and panics, on the main loop.                                   *)
LEMMA ResultTyped ==
    ASSUME TypeInv, NEW a \in Agents, HandlePromptResult(a) \/ RecoverPanickedAgent(a)
    PROVE  TypeInv'
<1> USE TypeParts
<1>1. task[a] \in Task /\ task[a] \in GoodTask
  BY TypeFacts
<1>2. CASE HandlePromptResult(a)
  <2>1. EndTurn(task[a])
    BY <1>2 DEF HandlePromptResult
  <2>2. /\ QueueOK(q') /\ fate' \in [Events -> Fate] /\ attempts' \in [Events -> Nat]
        /\ heartbeat_in_flight' \in BOOLEAN
    BY <1>1, <2>1, EndTurnTyped DEF GoodTask
  <2>3. task' \in [Agents -> GoodTask]
    BY <1>2, NoTaskType, TaskUpdate DEF HandlePromptResult
  <2>4. PoolTyped'
    BY <1>2, RecordCrashType DEF HandlePromptResult, PoolTyped
  <2>5. HistoryTyped' /\ LoopTyped'
    BY <1>2, <2>2 DEF HandlePromptResult, HistoryTyped, LoopTyped
  <2> QED
    BY <2>2, <2>3, <2>4, <2>5
<1>3. CASE RecoverPanickedAgent(a)
  <2> DEFINE t == [task[a] EXCEPT !.ret = (DedupMode = "Queue")]
  <2>1. EndTurn(t)
    BY <1>3 DEF RecoverPanickedAgent
  <2>2. t \in Task /\ t.state = "panicked"
    BY <1>1, <1>3 DEF RecoverPanickedAgent, Task
  <2> HIDE DEF t
  <2>3. /\ QueueOK(q') /\ fate' \in [Events -> Fate] /\ attempts' \in [Events -> Nat]
        /\ heartbeat_in_flight' \in BOOLEAN
    BY <2>1, <2>2, EndTurnTyped
  <2>4. task' \in [Agents -> GoodTask]
    BY <1>3, NoTaskType, TaskUpdate DEF RecoverPanickedAgent
  <2>5. PoolTyped'
    BY <1>3, RecordCrashType DEF RecoverPanickedAgent, PoolTyped
  <2>6. HistoryTyped' /\ LoopTyped'
    BY <1>3, <2>3 DEF RecoverPanickedAgent, HistoryTyped, LoopTyped, Dispatching
  <2> QED
    BY <2>3, <2>4, <2>5, <2>6
<1> QED
  BY <1>2, <1>3

(* The SteerAck arm.                                                       *)
LEMMA SteerAckTyped ==
    ASSUME TypeInv, NEW m \in acks, HandleSteerAck(m)
    PROVE  TypeInv'
<1> USE TypeParts, UnchangedTyped
<1>1. m.ch \in Channels /\ m.ev \in Events
  BY DEF LoopTyped
<1> DEFINE c == q[m.ch]
           x == ExtendInFlightDeadline(c)
<1>2. c \in Channel /\ Len(c.pending) <= MaxPending
  BY <1>1, TypeFacts
<1>3. x \in Channel /\ Len(x.pending) <= MaxPending
  BY <1>2, ExtendType
<1>4. RemoveEvent(x, m.ev) \in Channel /\ Len(RemoveEvent(x, m.ev).pending) <= MaxPending
  BY <1>1, <1>3, SteerTypes
<1>5. /\ ReleaseNativeSteer(c, m.ev) \in Channel
      /\ Len(ReleaseNativeSteer(c, m.ev).pending) <= MaxPending
  BY <1>1, <1>2, SteerTypes
<1>6. QueueOK(q')
  <2>1. /\ QueueOK([q EXCEPT ![m.ch] = RemoveEvent(x, m.ev)])
        /\ QueueOK([q EXCEPT ![m.ch] = ReleaseNativeSteer(c, m.ev)])
    BY <1>1, <1>4, <1>5, TypeFacts, QueueUpdate
  <2>2. q' \in {[q EXCEPT ![m.ch] = RemoveEvent(x, m.ev)],
                [q EXCEPT ![m.ch] = ReleaseNativeSteer(c, m.ev)]}
    BY DEF HandleSteerAck
  <2> QED
    BY <2>1, <2>2
<1>7. task' \in [Agents -> GoodTask]
  BY SignalType DEF HandleSteerAck, Signal
<1>8. fate' \in [Events -> Fate]
  BY SettleType DEF HandleSteerAck, HistoryTyped, Fate
<1>9. HistoryTyped'
  BY <1>8 DEF HandleSteerAck, HistoryTyped
<1>10. LoopTyped'
  BY DEF HandleSteerAck, LoopTyped, Dispatching
<1> QED
  BY <1>6, <1>7, <1>9, <1>10 DEF HandleSteerAck

(* The heartbeat arm.                                                      *)
LEMMA HeartbeatTyped ==
    ASSUME TypeInv, HeartbeatTick
    PROVE  TypeInv'
<1> USE TypeParts, UnchangedTyped
<1>1. QueueOK(q')
  BY TypeFacts, ExpireAllType DEF HeartbeatTick
<1>2. fate' \in [Events -> Fate]
  BY SettleType DEF HeartbeatTick, HistoryTyped, Fate
<1>3. HistoryTyped'
  BY <1>2 DEF HeartbeatTick, HistoryTyped
<1>4. CASE UNCHANGED <<idle, task, heartbeat_in_flight>>
  <2>1. PoolTyped' /\ LoopTyped'
    BY <1>4 DEF HeartbeatTick, PoolTyped, LoopTyped, Dispatching
  <2> QED
    BY <1>1, <1>3, <1>4, <2>1
<1>5. CASE /\ \E a \in idle : /\ idle' = idle \ {a}
                              /\ task' = [task EXCEPT ![a] = NewTask(NoChannel, NoBatch)]
           /\ heartbeat_in_flight' = TRUE
  <2>1. PICK a \in idle : /\ idle' = idle \ {a}
                          /\ task' = [task EXCEPT ![a] = NewTask(NoChannel, NoBatch)]
    BY <1>5
  <2>2. a \in Agents
    BY DEF PoolTyped
  <2>3. task' \in [Agents -> GoodTask]
    BY <2>1, <2>2, NoTaskType, NewTaskType, TaskUpdate
  <2>4. PoolTyped' /\ LoopTyped'
    BY <1>5, <2>1 DEF HeartbeatTick, PoolTyped, LoopTyped, Dispatching
  <2> QED
    BY <1>1, <1>3, <2>3, <2>4
<1> QED
  BY <1>4, <1>5 DEF HeartbeatTick, DispatchHeartbeat

(* The maintenance block: compaction, expiry and the refill of slots.      *)
LEMMA MaintenanceTyped ==
    ASSUME TypeInv, Maintenance
    PROVE  TypeInv'
<1> USE TypeParts, UnchangedTyped
<1> DEFINE compacted == [ch \in Channels |-> CompactExpiredState(q[ch])]
<1>1. QueueOK(compacted)
  BY TypeFacts, CompactType DEF QueueOK
<1>2. q' = ExpireAll(compacted)
  BY DEF Maintenance
<1>3. QueueOK(q')
  BY <1>1, <1>2, ExpireAllType
<1>4. fate' \in [Events -> Fate]
  BY SettleType DEF Maintenance, HistoryTyped, Fate
<1>5. HistoryTyped' /\ LoopTyped'
  BY <1>4 DEF Maintenance, HistoryTyped, LoopTyped, Dispatching
<1>6. circuit' \in [Agents -> Timer]
  BY DEF Maintenance, PoolTyped, Timer
<1>7. respawn_in_flight' \in [Agents -> BOOLEAN]
  BY DEF Maintenance
<1>8. spawning' \in [Agents -> Nat]
  BY DEF Maintenance, PoolTyped
<1>9. PoolTyped'
  BY <1>6, <1>7, <1>8 DEF Maintenance, PoolTyped
<1> QED
  BY <1>3, <1>5, <1>9 DEF Maintenance

(* Respawn results, posted by their tasks and collected by the loop.       *)
LEMMA RespawnTyped ==
    ASSUME TypeInv,
           CollectRespawns \/ \E a \in Agents, ok \in BOOLEAN : RespawnEnds(a, ok)
    PROVE  TypeInv'
<1> USE TypeParts, UnchangedTyped
<1>1. CASE CollectRespawns
  <2> DEFINE results == Range(respawn_rx)
             back == {r.agent : r \in {s \in results : s.ok}}
             dead == {r.agent : r \in {s \in results : ~s.ok}}
  <2>1. results \subseteq [agent : Agents, ok : BOOLEAN]
    BY RangeOfSeq DEF PoolTyped
  <2>2. back \subseteq Agents
    BY <2>1
  <2> HIDE DEF results
  <2>3. /\ idle' = idle \cup back
        /\ circuit' = [a \in Agents |-> IF a \in dead THEN "running" ELSE circuit[a]]
        /\ respawn_in_flight' =
              [a \in Agents |-> respawn_in_flight[a] /\ a \notin back \cup dead]
        /\ respawn_rx' = << >>
        /\ UNCHANGED spawning
    BY <1>1 DEF CollectRespawns, results
  <2> HIDE DEF back, dead
  <2>4. idle' \subseteq Agents /\ circuit' \in [Agents -> Timer]
    BY <2>2, <2>3 DEF PoolTyped, Timer
  <2>5. respawn_in_flight' \in [Agents -> BOOLEAN]
    BY <2>3
  <2>6. respawn_rx' \in Seq([agent : Agents, ok : BOOLEAN])
    BY <2>3
  <2>7. PoolTyped'
    BY <2>3, <2>4, <2>5, <2>6 DEF PoolTyped
  <2>8. LoopTyped'
    BY <1>1 DEF CollectRespawns, LoopTyped, Dispatching
  <2> QED
    BY <1>1, <2>7, <2>8 DEF CollectRespawns
<1>2. ASSUME NEW a \in Agents, NEW ok \in BOOLEAN, RespawnEnds(a, ok)
      PROVE  TypeInv'
  <2>1. spawning' \in [Agents -> Nat]
    <3>1. spawning[a] > 0 /\ spawning' = [spawning EXCEPT ![a] = @ - 1]
      BY <1>2 DEF RespawnEnds
    <3> QED
      BY <3>1 DEF PoolTyped
  <2>2. [agent |-> a, ok |-> ok] \in [agent : Agents, ok : BOOLEAN]
    OBVIOUS
  <2>3. respawn_rx' \in Seq([agent : Agents, ok : BOOLEAN])
    BY <1>2, <2>2 DEF RespawnEnds, PoolTyped
  <2>4. PoolTyped'
    BY <1>2, <2>1, <2>3 DEF RespawnEnds, PoolTyped
  <2>5. faults' \in {faults, faults + 1} /\ UNCHANGED <<next, fate, merged, attempts>>
    BY <1>2 DEF RespawnEnds
  <2>6. HistoryTyped' /\ LoopTyped'
    <3>1. UNCHANGED <<acks, removed_channels, heartbeat_in_flight, pc>>
      BY <1>2 DEF RespawnEnds
    <3> QED
      BY <2>5, <3>1 DEF HistoryTyped, LoopTyped
  <2> QED
    BY <1>2, <2>4, <2>6 DEF RespawnEnds
<1> QED
  BY <1>1, <1>2

(* The steps that only move the loop on, and the clock.                    *)
LEMMA ClockTyped ==
    ASSUME TypeInv,
           \/ DrainReadyJoinResults \/ RefreshTick \/ MaintenanceNotDue \/ Exited
           \/ \E ch \in Channels : RetryElapses(ch) \/ DeadlineElapses(ch)
           \/ \E a \in Agents : CooldownElapses(a)
           \/ UNCHANGED vars
    PROVE  TypeInv'
<1> USE TypeParts, UnchangedTyped
<1>1. CASE DrainReadyJoinResults \/ RefreshTick \/ MaintenanceNotDue
  <2>1. LoopTyped'
    BY <1>1 DEF DrainReadyJoinResults, RefreshTick, MaintenanceNotDue, LoopTyped, Dispatching
  <2> QED
    BY <1>1, <2>1 DEF DrainReadyJoinResults, RefreshTick, MaintenanceNotDue
<1>2. CASE UNCHANGED vars
  <2>1. LoopTyped'
    BY <1>2 DEF vars, LoopTyped
  <2> QED
    BY <1>2, <2>1 DEF vars, poolVars, history
<1>3. ASSUME NEW ch \in Channels, RetryElapses(ch) \/ DeadlineElapses(ch)
      PROVE  TypeInv'
  <2> DEFINE x == [q[ch] EXCEPT !.retry = "elapsed"]
             y == [q[ch] EXCEPT !.deadline = "elapsed"]
  <2>1. q[ch] \in Channel /\ Len(q[ch].pending) <= MaxPending /\ QueueOK(q)
    BY TypeFacts
  <2>2. x \in Channel /\ x.pending = q[ch].pending /\ y \in Channel /\ y.pending = q[ch].pending
    BY <2>1 DEF Channel, Timer
  <2>3. q' \in {[q EXCEPT ![ch] = x], [q EXCEPT ![ch] = y]}
    BY <1>3, <2>1 DEF RetryElapses, DeadlineElapses, QueueOK
  <2>4. QueueOK([q EXCEPT ![ch] = x]) /\ QueueOK([q EXCEPT ![ch] = y])
    BY <2>1, <2>2, QueueUpdate
  <2>5. QueueOK(q')
    BY <2>3, <2>4
  <2>6. LoopTyped'
    BY <1>3 DEF RetryElapses, DeadlineElapses, LoopTyped
  <2> QED
    BY <1>3, <2>5, <2>6 DEF RetryElapses, DeadlineElapses
<1>4. ASSUME NEW a \in Agents, CooldownElapses(a)
      PROVE  TypeInv'
  <2>1. PoolTyped' /\ LoopTyped'
    BY <1>4 DEF CooldownElapses, PoolTyped, LoopTyped, Timer
  <2> QED
    BY <1>4, <2>1 DEF CooldownElapses
<1> QED
  BY <1>1, <1>2, <1>3, <1>4 DEF Exited

(* Every step of the harness keeps it well-typed and its queues capped.    *)
LEMMA TypeStep == TypeInv /\ [Next]_vars => TypeInv'
<1> SUFFICES ASSUME TypeInv, [Next]_vars PROVE TypeInv'
  OBVIOUS
<1>1. CASE MainLoop
  BY <1>1, RelayEventTyped, MembershipTyped, DispatchTyped, ResultTyped, SteerAckTyped,
     HeartbeatTyped, MaintenanceTyped, RespawnTyped, ClockTyped DEF MainLoop
<1>2. CASE Tasks
  BY <1>2, TaskTyped, RespawnTyped DEF Tasks
<1>3. CASE Clock
  BY <1>3, ClockTyped DEF Clock
<1>4. CASE Exited \/ UNCHANGED vars
  BY <1>4, ClockTyped
<1> QED
  BY <1>1, <1>2, <1>3, <1>4 DEF Next

(* Type correctness of the harness, for all constants.                     *)
THEOREM TypeCorrect == Spec => []TypeOK
<1>1. TypeInv => TypeOK
  BY DEF TypeInv
<1> QED
  BY <1>1, TypeInit, TypeStep, PTL DEF Spec

(* No channel's queue outgrows MAX_PENDING_PER_CHANNEL, whatever is        *)
(* pushed, put back, released or recovered.                                *)
THEOREM QueuesStayBounded == Spec => []QueuesBounded
<1>1. TypeInv => QueuesBounded
  BY DEF TypeInv
<1> QED
  BY <1>1, TypeInit, TypeStep, PTL DEF Spec

-----------------------------------------------------------------------------
(* Slots. What SlotExclusive says of one slot.                             *)
SlotOK(a) ==
    /\ ~(a \in idle /\ a \in Busy)
    /\ SlotAlive(a) \/ circuit[a] # "unset" => ~respawn_in_flight[a]
    /\ SlotAlive(a) => circuit[a] = "unset"
    /\ spawning[a] <= 1
    /\ respawn_in_flight[a] <=> spawning[a] = 1 \/ Posted(a) # {}
    /\ Posted(a) # {} => spawning[a] = 0
    /\ \A i, j \in Posted(a) : i = j

(* SlotExclusive holds of a pool when it holds of each slot.               *)
LEMMA SlotByAgent ==
    /\ SlotExclusive <=> \A a \in Agents : SlotOK(a)
    /\ SlotExclusive' <=> \A a \in Agents : SlotOK(a)'
BY DEF SlotExclusive, SlotOK

(* No slot is busy at the start, and none is being respawned.              *)
LEMMA SlotInit == Init => SlotExclusive
<1> SUFFICES ASSUME Init, NEW a \in Agents PROVE SlotOK(a)
  BY SlotByAgent
<1>1. a \notin Busy /\ Posted(a) = {}
  BY DEF Init, Busy, NoTask, NewTask, Posted
<1>2. circuit[a] = "unset" /\ respawn_in_flight[a] = FALSE /\ spawning[a] = 0
  BY DEF Init
<1> QED
  BY <1>1, <1>2 DEF SlotOK

(* A slot that a step leaves alone stays as it was.                        *)
LEMMA SlotKept ==
    ASSUME NEW a \in Agents, SlotOK(a),
           a \in idle' <=> a \in idle,
           a \in Busy' <=> a \in Busy,
           circuit'[a] = circuit[a],
           respawn_in_flight'[a] = respawn_in_flight[a],
           spawning'[a] = spawning[a],
           Posted(a)' = Posted(a)
    PROVE  SlotOK(a)'
BY DEF SlotOK, SlotAlive

(* Steps that leave the pool and the occupancy of the task_map alone.      *)
LEMMA SlotsUntouched ==
    ASSUME SlotExclusive, UNCHANGED poolVars,
           \A a \in Agents : task'[a].state = "none" <=> task[a].state = "none"
    PROVE  SlotExclusive'
<1> SUFFICES ASSUME NEW a \in Agents PROVE SlotOK(a)'
  BY SlotByAgent
<1>1. (a \in Busy' <=> a \in Busy) /\ Posted(a)' = Posted(a)
  BY DEF Busy, Posted, poolVars
<1> QED
  BY <1>1, SlotByAgent, SlotKept DEF poolVars

(* An alive slot has no respawn running and no result waiting.             *)
LEMMA AliveSlot ==
    ASSUME TypeInv, SlotExclusive, NEW a \in Agents, SlotAlive(a)
    PROVE  /\ circuit[a] = "unset" /\ respawn_in_flight[a] = FALSE
           /\ spawning[a] = 0 /\ Posted(a) = {}
<1>1. SlotOK(a) /\ spawning[a] \in Nat /\ respawn_in_flight[a] \in BOOLEAN
  BY SlotByAgent, TypeParts DEF PoolTyped
<1>2. circuit[a] = "unset" /\ ~respawn_in_flight[a]
  BY <1>1 DEF SlotOK
<1>3. spawning[a] = 0 /\ Posted(a) = {}
  BY <1>1, <1>2 DEF SlotOK
<1> QED
  BY <1>1, <1>2, <1>3

(* An idle agent is checked out by a new task.                             *)
LEMMA SlotClaimed ==
    ASSUME TypeInv, SlotExclusive, NEW a \in idle, NEW u,
           u.state # "none",
           task' = [task EXCEPT ![a] = u],
           idle' = idle \ {a},
           UNCHANGED <<circuit, respawn_in_flight, spawning, respawn_rx>>
    PROVE  SlotExclusive'
<1> SUFFICES ASSUME NEW x \in Agents PROVE SlotOK(x)'
  BY SlotByAgent
<1>1. Posted(x)' = Posted(x)
  BY DEF Posted
<1>2. a \in Agents /\ task \in [Agents -> Task]
  BY TypeParts DEF PoolTyped, TypeInv, TypeOK
<1>3. CASE x = a
  <2>1. SlotAlive(a)
    BY DEF SlotAlive
  <2>2. circuit[a] = "unset" /\ respawn_in_flight[a] = FALSE /\ spawning[a] = 0
        /\ Posted(a) = {}
    BY <1>2, <2>1, AliveSlot
  <2> QED
    BY <1>1, <1>3, <2>2 DEF SlotOK, SlotAlive
<1>4. CASE x # a
  <2>1. (x \in Busy' <=> x \in Busy) /\ (x \in idle' <=> x \in idle)
    BY <1>2, <1>4 DEF Busy
  <2> QED
    BY <1>1, <2>1, SlotByAgent, SlotKept
<1> QED
  BY <1>3, <1>4

(* A finished agent goes back to its slot.                                 *)
LEMMA SlotReturned ==
    ASSUME TypeInv, SlotExclusive, NEW a \in Busy,
           task' = [task EXCEPT ![a] = NoTask],
           idle' = idle \cup {a},
           UNCHANGED <<circuit, respawn_in_flight, spawning, respawn_rx>>
    PROVE  SlotExclusive'
<1> SUFFICES ASSUME NEW x \in Agents PROVE SlotOK(x)'
  BY SlotByAgent
<1>1. Posted(x)' = Posted(x)
  BY DEF Posted
<1>2. a \in Agents /\ task \in [Agents -> Task]
  BY DEF Busy, TypeInv, TypeOK
<1>3. CASE x = a
  <2>1. SlotAlive(a)
    BY DEF SlotAlive
  <2>2. x \notin Busy'
    BY <1>2, <1>3 DEF Busy, NoTask, NewTask
  <2>3. circuit[a] = "unset" /\ respawn_in_flight[a] = FALSE /\ spawning[a] = 0
        /\ Posted(a) = {}
    BY <1>2, <2>1, AliveSlot
  <2> QED
    BY <1>1, <1>3, <2>2, <2>3 DEF SlotOK, SlotAlive
<1>4. CASE x # a
  <2>1. (x \in Busy' <=> x \in Busy) /\ (x \in idle' <=> x \in idle)
    BY <1>2, <1>4 DEF Busy
  <2> QED
    BY <1>1, <2>1, SlotByAgent, SlotKept
<1> QED
  BY <1>3, <1>4

(* A dead agent's slot is empty: respawned, or behind an open circuit.     *)
LEMMA SlotCrashed ==
    ASSUME TypeInv, SlotExclusive, NEW a \in Busy,
           task' = [task EXCEPT ![a] = NoTask],
           RecordCrash(a),
           UNCHANGED <<idle, respawn_rx>>
    PROVE  SlotExclusive'
<1> SUFFICES ASSUME NEW x \in Agents PROVE SlotOK(x)'
  BY SlotByAgent
<1>1. Posted(x)' = Posted(x)
  BY DEF Posted
<1>2. a \in Agents /\ task \in [Agents -> Task] /\ PoolTyped
  BY TypeParts DEF Busy, TypeInv, TypeOK
<1>3. CASE x = a
  <2>1. SlotAlive(a)
    BY DEF SlotAlive
  <2>2. x \notin Busy' /\ x \notin idle'
    BY <1>2, <1>3, SlotByAgent DEF Busy, NoTask, NewTask, SlotOK
  <2>3. circuit[a] = "unset" /\ respawn_in_flight[a] = FALSE /\ spawning[a] = 0
        /\ Posted(a) = {}
    BY <1>2, <2>1, AliveSlot
  <2>4. CASE /\ respawn_in_flight' = [respawn_in_flight EXCEPT ![a] = TRUE]
             /\ spawning' = [spawning EXCEPT ![a] = @ + 1]
             /\ circuit' = [circuit EXCEPT ![a] = "unset"]
    <3>1. respawn_in_flight'[a] = TRUE /\ spawning'[a] = 1 /\ circuit'[a] = "unset"
      BY <1>2, <2>3, <2>4 DEF PoolTyped
    <3> QED
      BY <1>1, <1>3, <2>2, <2>3, <3>1 DEF SlotOK, SlotAlive
  <2>5. CASE UNCHANGED <<respawn_in_flight, spawning>>
    BY <1>1, <1>3, <2>2, <2>3, <2>5 DEF SlotOK, SlotAlive
  <2> QED
    BY <2>4, <2>5 DEF RecordCrash
<1>4. CASE x # a
  <2>1. (x \in Busy' <=> x \in Busy) /\ (x \in idle' <=> x \in idle)
    BY <1>2, <1>4 DEF Busy
  <2>2. /\ circuit'[x] = circuit[x]
        /\ respawn_in_flight'[x] = respawn_in_flight[x]
        /\ spawning'[x] = spawning[x]
    BY <1>2, <1>4 DEF RecordCrash, PoolTyped
  <2> QED
    BY <1>1, <2>1, <2>2, SlotByAgent, SlotKept
<1> QED
  BY <1>3, <1>4

(* Maintenance refills empty slots only, each once.                        *)
LEMMA SlotsRefilled ==
    ASSUME TypeInv, SlotExclusive, Maintenance
    PROVE  SlotExclusive'
<1> SUFFICES ASSUME NEW x \in Agents PROVE SlotOK(x)'
  BY SlotByAgent
<1>1. Posted(x)' = Posted(x) /\ (x \in Busy' <=> x \in Busy) /\ (x \in idle' <=> x \in idle)
  BY DEF Maintenance, Posted, Busy
<1>2. SlotOK(x) /\ spawning[x] \in Nat /\ respawn_in_flight[x] \in BOOLEAN
  BY SlotByAgent, TypeParts DEF PoolTyped
<1>3. CASE x \in Refillable
  <2>1. ~SlotAlive(x) /\ ~respawn_in_flight[x]
    BY <1>3 DEF Refillable
  <2>2. spawning[x] = 0 /\ Posted(x) = {}
    BY <1>2, <2>1 DEF SlotOK
  <2>3. circuit'[x] = "unset" /\ spawning'[x] = 1
    BY <1>3, <2>2 DEF Maintenance
  <2>4. respawn_in_flight'[x]
    BY <1>3 DEF Maintenance
  <2> QED
    BY <1>1, <2>1, <2>2, <2>3, <2>4 DEF SlotOK, SlotAlive
<1>4. CASE x \notin Refillable
  <2>1. circuit'[x] = circuit[x]
    BY <1>4 DEF Maintenance
  <2>2. respawn_in_flight'[x] = respawn_in_flight[x]
    <3>1. respawn_in_flight' = [a \in Agents |-> a \in Refillable \/ respawn_in_flight[a]]
      BY DEF Maintenance
    <3> QED
      BY <1>2, <1>4, <3>1
  <2>3. spawning'[x] = spawning[x]
    BY <1>2, <1>4 DEF Maintenance
  <2> QED
    BY <1>1, <1>2, <2>1, <2>2, <2>3, SlotKept
<1> QED
  BY <1>3, <1>4

(* A respawn task posts the only result of its slot.                       *)
LEMMA SlotRespawnEnds ==
    ASSUME TypeInv, SlotExclusive, NEW a \in Agents, NEW ok \in BOOLEAN, RespawnEnds(a, ok)
    PROVE  SlotExclusive'
<1> SUFFICES ASSUME NEW x \in Agents PROVE SlotOK(x)'
  BY SlotByAgent
<1> DEFINE n == Len(respawn_rx)
           r == [agent |-> a, ok |-> ok]
<1>1. respawn_rx \in Seq([agent : Agents, ok : BOOLEAN]) /\ spawning \in [Agents -> Nat]
  BY TypeParts DEF PoolTyped
<1>2. /\ spawning[a] > 0 /\ spawning' = [spawning EXCEPT ![a] = @ - 1]
      /\ respawn_rx' = Append(respawn_rx, r)
      /\ UNCHANGED <<idle, task, circuit, respawn_in_flight>>
  BY DEF RespawnEnds
<1>3. /\ n \in Nat /\ DOMAIN respawn_rx = 1 .. n
      /\ DOMAIN respawn_rx' = 1 .. n + 1
      /\ respawn_rx'[n + 1] = r
      /\ \A i \in 1 .. n : respawn_rx'[i] = respawn_rx[i]
  BY <1>1, <1>2
<1>4. r.agent = a
  OBVIOUS
<1> HIDE DEF n, r
<1>5. Posted(x)' = IF x = a THEN Posted(x) \cup {n + 1} ELSE Posted(x)
  BY <1>3, <1>4 DEF Posted
<1>6. (x \in Busy' <=> x \in Busy) /\ (x \in idle' <=> x \in idle)
  BY <1>2 DEF Busy
<1>7. SlotOK(x) /\ SlotOK(a)
  BY SlotByAgent
<1>8. CASE x = a
  <2>1. spawning[a] = 1 /\ spawning'[a] = 0
    BY <1>1, <1>2, <1>7 DEF SlotOK
  <2>2. Posted(a) = {}
    BY <1>7, <2>1 DEF SlotOK
  <2>3. Posted(a)' = {n + 1}
    BY <1>5, <1>8, <2>2
  <2>4. respawn_in_flight[a] /\ ~SlotAlive(a) /\ circuit[a] = "unset"
    BY <1>7, <2>1 DEF SlotOK
  <2> QED
    BY <1>2, <1>6, <1>8, <2>1, <2>3, <2>4 DEF SlotOK, SlotAlive
<1>9. CASE x # a
  BY <1>1, <1>2, <1>5, <1>6, <1>7, <1>9, SlotKept
<1> QED
  BY <1>8, <1>9

(* Collected results fill their slots or open their circuits.              *)
LEMMA SlotsCollected ==
    ASSUME TypeInv, SlotExclusive, CollectRespawns
    PROVE  SlotExclusive'
<1> SUFFICES ASSUME NEW x \in Agents PROVE SlotOK(x)'
  BY SlotByAgent
<1> DEFINE results == Range(respawn_rx)
           back == {r.agent : r \in {s \in results : s.ok}}
           dead == {r.agent : r \in {s \in results : ~s.ok}}
<1>1. /\ respawn_in_flight' =
            [a \in Agents |-> respawn_in_flight[a] /\ a \notin back \cup dead]
      /\ idle' = idle \cup back
      /\ circuit' = [a \in Agents |-> IF a \in dead THEN "running" ELSE circuit[a]]
      /\ respawn_rx' = << >>
      /\ UNCHANGED <<task, spawning>>
  BY DEF CollectRespawns
<1>2. SlotOK(x) /\ spawning[x] \in Nat /\ respawn_in_flight[x] \in BOOLEAN
  BY SlotByAgent, TypeParts DEF PoolTyped
<1>3. Posted(x)' = {} /\ (x \in Busy' <=> x \in Busy) /\ spawning'[x] = spawning[x]
  BY <1>1 DEF Posted, Busy
<1>4. x \in back => \E i \in Posted(x) : respawn_rx[i].ok
  BY DEF Posted, Range
<1>5. x \in dead => \E i \in Posted(x) : ~respawn_rx[i].ok
  BY DEF Posted, Range
<1>6. Posted(x) # {} => x \in back \cup dead
  <2> SUFFICES ASSUME NEW i \in Posted(x) PROVE x \in back \cup dead
    OBVIOUS
  <2>1. respawn_rx[i] \in results /\ respawn_rx[i].agent = x
    BY DEF Posted, Range
  <2> QED
    BY <2>1
<1> HIDE DEF results, back, dead
<1>7. ~(x \in back /\ x \in dead)
  BY <1>2, <1>4, <1>5 DEF SlotOK
<1>8. CASE Posted(x) = {}
  <2>1. x \notin back /\ x \notin dead
    BY <1>4, <1>5, <1>8
  <2>2. /\ respawn_in_flight'[x] = respawn_in_flight[x] /\ circuit'[x] = circuit[x]
        /\ x \in idle' <=> x \in idle
    BY <1>1, <1>2, <2>1
  <2> QED
    BY <1>2, <1>3, <1>8, <2>2, SlotKept
<1>9. CASE Posted(x) # {}
  <2>1. spawning[x] = 0 /\ respawn_in_flight[x] /\ ~SlotAlive(x) /\ circuit[x] = "unset"
    BY <1>2, <1>9 DEF SlotOK
  <2>2. ~respawn_in_flight'[x]
    BY <1>1, <1>6, <1>9
  <2>3. x \notin Busy' /\ (x \in idle' <=> x \in back)
    BY <1>1, <1>3, <2>1 DEF SlotAlive
  <2>4. circuit'[x] = IF x \in dead THEN "running" ELSE "unset"
    BY <1>1, <2>1
  <2> QED
    BY <1>3, <1>7, <2>1, <2>2, <2>3, <2>4 DEF SlotOK, SlotAlive
<1> QED
  BY <1>8, <1>9

(* A steer or the end of a turn leaves the slot checked out.               *)
LEMMA SlotTaskStep ==
    ASSUME TypeInv, NEW a \in Agents,
           \/ SteerTaken(a)
           \/ \E k \in Ack : SteerAnswered(a, k)
           \/ \E o \in Outcome, byControl \in BOOLEAN : TaskEnds(a, o, byControl)
           \/ TaskPanics(a)
    PROVE  /\ UNCHANGED poolVars /\ UNCHANGED <<q, heartbeat_in_flight>>
           /\ \A x \in Agents : /\ task'[x].ch = task[x].ch
                                /\ task'[x].state = "none" <=> task[x].state = "none"
<1>1. task \in [Agents -> Task]
  BY DEF TypeInv, TypeOK
<1>2. CASE SteerTaken(a)
  BY <1>1, <1>2 DEF SteerTaken, Task
<1>3. CASE \E k \in Ack : SteerAnswered(a, k)
  BY <1>1, <1>3 DEF SteerAnswered, Task
<1>4. ASSUME NEW o \in Outcome, NEW byControl \in BOOLEAN, TaskEnds(a, o, byControl)
      PROVE  /\ UNCHANGED poolVars /\ UNCHANGED <<q, heartbeat_in_flight>>
             /\ \A x \in Agents : /\ task'[x].ch = task[x].ch
                                  /\ task'[x].state = "none" <=> task[x].state = "none"
  <2>0. PICK r : task' = [task EXCEPT ![a].state = o, ![a].ret = r,
                                      ![a].buf = NoEvent, ![a].pend = NoEvent]
    BY <1>4, Zenon DEF TaskEnds
  <2>1. /\ task[a].state = "running"
        /\ UNCHANGED <<q, poolVars, heartbeat_in_flight>>
    BY <1>4, Zenon DEF TaskEnds
  <2>2. o # "none"
    BY DEF Outcome
  <2> QED
    BY <1>1, <2>0, <2>1, <2>2 DEF Task
<1>5. CASE TaskPanics(a)
  BY <1>1, <1>5 DEF TaskPanics, Task
<1> QED
  BY <1>2, <1>3, <1>4, <1>5

(* The arms of the select! that start and end no task.                     *)
LEMMA SelectArmStep ==
    ASSUME TypeInv,
           \/ \E ch \in Channels : RelayEvent(ch) \/ ChannelRemoved(ch) \/ ChannelAdded(ch)
           \/ \E ch \in Channels, s \in CommandSignal : OwnerCommand(ch, s)
           \/ \E m \in acks : HandleSteerAck(m)
    PROVE  /\ UNCHANGED poolVars /\ UNCHANGED heartbeat_in_flight
           /\ \A x \in Agents : task'[x].ch = task[x].ch /\ task'[x].state = task[x].state
<1>1. task \in [Agents -> Task]
  BY DEF TypeInv, TypeOK
<1>2. ASSUME NEW ch \in Channels, RelayEvent(ch)
      PROVE  \A x \in Agents : task'[x].ch = task[x].ch /\ task'[x].state = task[x].state
  <2>1. CASE UNCHANGED task
    BY <2>1
  <2>2. CASE \E a \in On(ch) : SteerAccepted(a) /\ task' = [task EXCEPT ![a].buf = next]
    BY <1>1, <2>2 DEF On, Busy, Task
  <2>3. CASE \E s \in ModeGateSignal \ {"none"} : SignalInFlightTask(ch, s)
    <3>1. ModeGateSignal \ {"none"} \subseteq Signal
      BY HarnessAssumption DEF ModeGateSignal, Signal
    <3> QED
      BY <2>3, <3>1, SignalType
  <2> QED
    BY <1>2, <2>1, <2>2, <2>3 DEF RelayEvent
<1>3. ASSUME NEW ch \in Channels, NEW s \in CommandSignal, OwnerCommand(ch, s)
      PROVE  \A x \in Agents : task'[x].ch = task[x].ch /\ task'[x].state = task[x].state
  BY <1>3, SignalType DEF OwnerCommand, CommandSignal, Signal
<1>4. ASSUME NEW m \in acks, HandleSteerAck(m)
      PROVE  \A x \in Agents : task'[x].ch = task[x].ch /\ task'[x].state = task[x].state
  <2>1. CASE UNCHANGED task
    BY <2>1
  <2>2. CASE SignalInFlightTask(m.ch, "Steer")
    BY <2>2, SignalType DEF Signal
  <2> QED
    BY <1>4, <2>1, <2>2 DEF HandleSteerAck
<1>5. ASSUME NEW ch \in Channels, ChannelRemoved(ch) \/ ChannelAdded(ch)
      PROVE  UNCHANGED task
  BY <1>5 DEF ChannelRemoved, ChannelAdded
<1>6. UNCHANGED poolVars /\ UNCHANGED heartbeat_in_flight
  BY DEF RelayEvent, ChannelRemoved, ChannelAdded, OwnerCommand, HandleSteerAck
<1> QED
  BY <1>2, <1>3, <1>4, <1>5, <1>6

(* Every step of the harness keeps each slot in one place.                 *)
LEMMA SlotStep == TypeInv /\ SlotExclusive /\ [Next]_vars => SlotExclusive'
<1> SUFFICES ASSUME TypeInv, SlotExclusive, [Next]_vars PROVE SlotExclusive'
  OBVIOUS
<1>1. CASE \/ \E ch \in Channels : RelayEvent(ch) \/ ChannelRemoved(ch) \/ ChannelAdded(ch)
           \/ \E ch \in Channels, s \in CommandSignal : OwnerCommand(ch, s)
           \/ \E m \in acks : HandleSteerAck(m)
  BY <1>1, SelectArmStep, SlotsUntouched
<1>2. CASE DispatchNothing \/ \E ch \in Channels : PoolExhausted(ch)
  BY <1>2, SlotsUntouched DEF DispatchNothing, PoolExhausted
<1>3. ASSUME NEW ch \in Channels, NEW a \in Agents, DispatchBatch(ch, a)
      PROVE  SlotExclusive'
  <2>1. PICK b : task' = [task EXCEPT ![a] = NewTask(ch, b)]
    BY <1>3 DEF DispatchBatch
  <2>2. NewTask(ch, b).state # "none"
    BY DEF NewTask
  <2> QED
    BY <1>3, <2>1, <2>2, SlotClaimed DEF DispatchBatch
<1>4. ASSUME NEW a \in Agents, HandlePromptResult(a)
      PROVE  SlotExclusive'
  <2>1. a \in Busy
    BY <1>4 DEF HandlePromptResult, Busy, Outcome
  <2>2. task' = [task EXCEPT ![a] = NoTask] /\ UNCHANGED respawn_rx
    BY <1>4 DEF HandlePromptResult
  <2>3. CASE idle' = idle \cup {a} /\ UNCHANGED <<circuit, respawn_in_flight, spawning>>
    BY <2>1, <2>2, <2>3, SlotReturned
  <2>4. CASE RecordCrash(a) /\ UNCHANGED idle
    BY <2>1, <2>2, <2>4, SlotCrashed
  <2> QED
    BY <1>4, <2>3, <2>4 DEF HandlePromptResult
<1>5. ASSUME NEW a \in Agents, RecoverPanickedAgent(a)
      PROVE  SlotExclusive'
  <2>1. a \in Busy
    BY <1>5 DEF RecoverPanickedAgent, Busy
  <2> QED
    BY <1>5, <2>1, SlotCrashed DEF RecoverPanickedAgent
<1>6. CASE HeartbeatTick
  <2>1. CASE UNCHANGED <<idle, task>>
    BY <1>6, <2>1, SlotsUntouched DEF HeartbeatTick, poolVars
  <2>2. CASE \E a \in idle : /\ idle' = idle \ {a}
                             /\ task' = [task EXCEPT ![a] = NewTask(NoChannel, NoBatch)]
    <3>1. NewTask(NoChannel, NoBatch).state # "none"
      BY DEF NewTask
    <3> QED
      BY <1>6, <2>2, <3>1, SlotClaimed DEF HeartbeatTick
  <2> QED
    BY <1>6, <2>1, <2>2 DEF HeartbeatTick, DispatchHeartbeat
<1>7. CASE DrainReadyJoinResults \/ RefreshTick \/ MaintenanceNotDue
  BY <1>7, SlotsUntouched DEF DrainReadyJoinResults, RefreshTick, MaintenanceNotDue
<1>8. CASE Maintenance \/ CollectRespawns
  BY <1>8, SlotsRefilled, SlotsCollected
<1>9. CASE Tasks
  BY <1>9, SlotTaskStep, SlotsUntouched, SlotRespawnEnds DEF Tasks
<1>10. ASSUME NEW a \in Agents, CooldownElapses(a)
       PROVE  SlotExclusive'
  <2> SUFFICES ASSUME NEW x \in Agents PROVE SlotOK(x)'
    BY SlotByAgent
  <2>1. Posted(x)' = Posted(x) /\ (x \in Busy' <=> x \in Busy)
    BY <1>10 DEF CooldownElapses, Posted, Busy
  <2>2. SlotOK(x) /\ circuit \in [Agents -> Timer]
    BY SlotByAgent, TypeParts DEF PoolTyped
  <2>3. CASE x = a
    <3>1. circuit[a] = "running" /\ circuit'[a] = "elapsed"
      BY <1>10, <2>2 DEF CooldownElapses
    <3> QED
      BY <1>10, <2>1, <2>2, <2>3, <3>1 DEF CooldownElapses, SlotOK, SlotAlive
  <2>4. CASE x # a
    <3>1. circuit'[x] = circuit[x]
      BY <1>10, <2>2, <2>4 DEF CooldownElapses
    <3> QED
      BY <1>10, <2>1, <2>2, <3>1, SlotKept DEF CooldownElapses
  <2> QED
    BY <2>3, <2>4
<1>11. CASE \E ch \in Channels : RetryElapses(ch) \/ DeadlineElapses(ch)
  BY <1>11, SlotsUntouched DEF RetryElapses, DeadlineElapses
<1>12. CASE Exited \/ UNCHANGED vars
  BY <1>12, SlotsUntouched DEF Exited, vars, poolVars
<1> QED
  BY <1>1, <1>2, <1>3, <1>4, <1>5, <1>6, <1>7, <1>8, <1>9, <1>10, <1>11, <1>12
     DEF Next, MainLoop, Clock

(* Each slot of the pool is idle, checked out, being respawned or empty,   *)
(* one at a time: return_agent never finds its slot occupied, and at most  *)
(* one respawn of a slot is on its way.                                    *)
THEOREM SlotsAreExclusive == Spec => []SlotExclusive
<1>1. Init => TypeInv /\ SlotExclusive
  BY TypeInit, SlotInit
<1>2. TypeInv /\ SlotExclusive /\ [Next]_vars => (TypeInv /\ SlotExclusive)'
  BY TypeStep, SlotStep
<1> QED
  BY <1>1, <1>2, PTL DEF Spec

-----------------------------------------------------------------------------
(* Turns. Where no in-flight deadline passes under a live turn, the queue  *)
(* and the task_map agree on which channels have one.                      *)
TurnInv ==
    /\ \A ch \in Channels : q[ch].deadline # "elapsed"
    /\ InFlightMatchesTasks
    /\ OneTurnPerChannel

(* Nothing is in flight at the start.                                      *)
LEMMA TurnInit == Init => TurnInv
<1> SUFFICES ASSUME Init PROVE TurnInv
  OBVIOUS
<1>1. Busy = {}
  BY DEF Init, Busy, NoTask, NewTask
<1>2. \A ch \in Channels : q[ch].deadline = "unset"
  BY DEF Init, EmptyChannel
<1>3. heartbeat_in_flight = FALSE
  BY DEF Init
<1> QED
  BY <1>1, <1>2, <1>3 DEF TurnInv, InFlightMatchesTasks, OneTurnPerChannel, On, InFlight

(* Without an elapsed deadline the expiry pass changes nothing.            *)
LEMMA NothingExpires ==
    ASSUME NEW qq, QueueOK(qq), \A ch \in Channels : qq[ch].deadline # "elapsed"
    PROVE  ExpireAll(qq) = qq
<1>1. \A ch \in Channels : Expire(qq[ch]) = qq[ch]
  BY DEF Expire
<1> QED
  BY <1>1 DEF ExpireAll, QueueOK

(* Steps that start and end no turn, on either side.                       *)
LEMMA TurnKept ==
    ASSUME TurnInv, UNCHANGED heartbeat_in_flight,
           \A a \in Agents : /\ task'[a].ch = task[a].ch
                             /\ task'[a].state = "none" <=> task[a].state = "none",
           \A ch \in Channels : /\ q'[ch].deadline # "elapsed"
                                /\ InFlight(q'[ch]) <=> InFlight(q[ch])
    PROVE  TurnInv'
<1>1. Busy' = Busy
  BY DEF Busy
<1>2. \A ch : On(ch)' = On(ch)
  BY <1>1 DEF On, Busy
<1>3. OneTurnPerChannel'
  BY <1>1 DEF TurnInv, OneTurnPerChannel, Busy
<1>4. InFlightMatchesTasks'
  BY <1>2 DEF TurnInv, InFlightMatchesTasks
<1> QED
  BY <1>3, <1>4 DEF TurnInv

(* A turn starts on a channel, or as the heartbeat, that had none.         *)
LEMMA TurnStarted ==
    ASSUME TypeInv, TurnInv, NEW a \in Agents, a \notin Busy, NEW u,
           u.state # "none", On(u.ch) = {},
           task' = [task EXCEPT ![a] = u],
           \A ch \in Channels : q'[ch].deadline # "elapsed",
           \A ch \in Channels : InFlight(q'[ch]) <=> ch = u.ch \/ InFlight(q[ch]),
           heartbeat_in_flight' <=> u.ch = NoChannel \/ heartbeat_in_flight
    PROVE  TurnInv'
<1>1. task \in [Agents -> Task]
  BY DEF TypeInv, TypeOK
<1>2. /\ task'[a] = u
      /\ \A x \in Agents : x # a => task'[x] = task[x]
  BY <1>1
<1>3. Busy' = Busy \cup {a}
  BY <1>2 DEF Busy
<1>4. \A k : On(k)' = IF k = u.ch THEN On(k) \cup {a} ELSE On(k)
  <2> TAKE k
  <2>1. ASSUME NEW x \in Agents
        PROVE  x \in On(k)' <=> IF x = a THEN k = u.ch ELSE x \in On(k)
    BY <1>2, <1>3 DEF On
  <2>2. On(k) \subseteq Agents /\ On(k)' \subseteq Agents /\ a \notin On(k)
    BY DEF On, Busy
  <2> QED
    BY <2>1, <2>2
<1>5. OneTurnPerChannel'
  <2> SUFFICES ASSUME NEW x \in Busy', NEW y \in Busy', task'[x].ch = task'[y].ch
               PROVE  x = y
    BY DEF OneTurnPerChannel
  <2>1. x \in Agents /\ y \in Agents
    BY DEF Busy
  <2>2. CASE x \in Busy /\ y \in Busy
    BY <1>2, <2>2 DEF TurnInv, OneTurnPerChannel
  <2>3. \A z \in Busy : task[z].ch # u.ch
    BY DEF On
  <2> QED
    BY <1>2, <1>3, <2>1, <2>2, <2>3
<1>6. InFlightMatchesTasks'
  BY <1>4 DEF TurnInv, InFlightMatchesTasks
<1> QED
  BY <1>5, <1>6 DEF TurnInv

(* A turn ends, and with it the in-flight entry or the heartbeat flag.     *)
LEMMA TurnEnded ==
    ASSUME TypeInv, TurnInv, NEW a \in Busy, NEW k, k = task[a].ch,
           task' = [task EXCEPT ![a] = NoTask],
           \A ch \in Channels : q'[ch].deadline # "elapsed",
           \A ch \in Channels : InFlight(q'[ch]) <=> ch # k /\ InFlight(q[ch]),
           heartbeat_in_flight' <=> k # NoChannel /\ heartbeat_in_flight
    PROVE  TurnInv'
<1>1. task \in [Agents -> Task] /\ a \in Agents
  BY DEF TypeInv, TypeOK, Busy
<1>2. /\ task'[a].state = "none"
      /\ \A x \in Agents : x # a => task'[x] = task[x]
  BY <1>1 DEF NoTask, NewTask
<1>3. Busy' = Busy \ {a}
  BY <1>2 DEF Busy
<1>4. \A j : On(j)' = On(j) \ {a}
  BY <1>2, <1>3 DEF On, Busy
<1>5. \A j : On(j)' = IF j = k THEN {} ELSE On(j)
  <2>1. On(k) = {a}
    BY DEF On, TurnInv, OneTurnPerChannel
  <2>2. \A j : j # k => a \notin On(j)
    BY DEF On
  <2> QED
    BY <1>4, <2>1, <2>2
<1>6. OneTurnPerChannel'
  BY <1>2, <1>3 DEF TurnInv, OneTurnPerChannel, Busy
<1>7. InFlightMatchesTasks'
  BY <1>5 DEF TurnInv, InFlightMatchesTasks
<1> QED
  BY <1>6, <1>7 DEF TurnInv

(* The operators on one channel that change no in-flight entry.            *)
LEMMA EntryKept ==
    ASSUME TypeInv, TurnInv, NEW ch \in Channels, NEW c,
           q' = [q EXCEPT ![ch] = c],
           c.deadline # "elapsed", InFlight(c) <=> InFlight(q[ch])
    PROVE  \A d \in Channels : /\ q'[d].deadline # "elapsed"
                               /\ InFlight(q'[d]) <=> InFlight(q[d])
BY TypeFacts DEF TurnInv, QueueOK

(* The select! arms that start and end no task keep the in-flight entries. *)
LEMMA SelectArmEntries ==
    ASSUME TypeInv, TurnInv,
           \/ \E ch \in Channels : RelayEvent(ch) \/ ChannelRemoved(ch) \/ ChannelAdded(ch)
           \/ \E ch \in Channels, s \in CommandSignal : OwnerCommand(ch, s)
           \/ \E m \in acks : HandleSteerAck(m)
    PROVE  \A d \in Channels : /\ q'[d].deadline # "elapsed"
                               /\ InFlight(q'[d]) <=> InFlight(q[d])
<1>1. CASE UNCHANGED q
  BY <1>1 DEF TurnInv
<1>2. ASSUME NEW ch \in Channels, RelayEvent(ch)
      PROVE  \A d \in Channels : /\ q'[d].deadline # "elapsed"
                                 /\ InFlight(q'[d]) <=> InFlight(q[d])
  <2> DEFINE pushed == Push(q[ch], next)
  <2>1. q[ch] \in Channel /\ Len(q[ch].pending) <= MaxPending /\ next \in Events
    BY <1>2, TypeFacts DEF RelayEvent
  <2>2. pushed \in Channel /\ Len(pushed.pending) <= MaxPending
        /\ pushed.deadline = q[ch].deadline
    BY <2>1, PushType
  <2>3. MarkNativeSteerPending(pushed, next).deadline = q[ch].deadline
    BY <2>1, <2>2, SteerTypes
  <2>4. q' \in {q, [q EXCEPT ![ch] = pushed],
                [q EXCEPT ![ch] = MarkNativeSteerPending(pushed, next)]}
    BY <1>2 DEF RelayEvent
  <2> HIDE DEF pushed
  <2>5. q[ch].deadline # "elapsed"
    BY DEF TurnInv
  <2> QED
    BY <1>1, <2>2, <2>3, <2>4, <2>5, EntryKept DEF InFlight
<1>3. ASSUME NEW ch \in Channels, ChannelRemoved(ch)
      PROVE  \A d \in Channels : /\ q'[d].deadline # "elapsed"
                                 /\ InFlight(q'[d]) <=> InFlight(q[d])
  <2>1. DrainChannel(q[ch]).deadline = q[ch].deadline /\ q[ch].deadline # "elapsed"
    BY TypeFacts, DrainChannelType DEF TurnInv
  <2> QED
    BY <1>3, <2>1, EntryKept DEF ChannelRemoved, InFlight
<1>4. ASSUME NEW m \in acks, HandleSteerAck(m)
      PROVE  \A d \in Channels : /\ q'[d].deadline # "elapsed"
                                 /\ InFlight(q'[d]) <=> InFlight(q[d])
  <2>1. m.ch \in Channels /\ m.ev \in Events
    BY TypeParts DEF LoopTyped
  <2> DEFINE c == q[m.ch]
             x == ExtendInFlightDeadline(c)
  <2>2. c \in Channel /\ Len(c.pending) <= MaxPending /\ c.deadline # "elapsed"
    BY <2>1, TypeFacts DEF TurnInv
  <2>3. /\ x \in Channel /\ Len(x.pending) <= MaxPending /\ x.deadline # "elapsed"
        /\ InFlight(x) <=> InFlight(c)
    BY <2>2, ExtendType
  <2>4. RemoveEvent(x, m.ev).deadline = x.deadline
    BY <2>1, <2>3, SteerTypes
  <2>5. ReleaseNativeSteer(c, m.ev).deadline = c.deadline
    BY <2>1, <2>2, SteerTypes
  <2>6. q' \in {[q EXCEPT ![m.ch] = RemoveEvent(x, m.ev)],
                [q EXCEPT ![m.ch] = ReleaseNativeSteer(c, m.ev)]}
    BY <1>4 DEF HandleSteerAck
  <2>7. /\ InFlight(RemoveEvent(x, m.ev)) <=> InFlight(c)
        /\ InFlight(ReleaseNativeSteer(c, m.ev)) <=> InFlight(c)
    BY <2>3, <2>4, <2>5 DEF InFlight
  <2> QED
    BY <2>1, <2>2, <2>3, <2>4, <2>5, <2>6, <2>7, EntryKept
<1> QED
  BY <1>1, <1>2, <1>3, <1>4 DEF OwnerCommand, ChannelAdded

(* A channel flush_next may pick has no turn.                              *)
LEMMA ChosenHasNoTurn ==
    ASSUME TurnInv, NEW ch \in FlushChoices(q)
    PROVE  ch \in Channels /\ On(ch) = {}
<1>1. ch \in Channels /\ ~InFlight(q[ch])
  BY DEF FlushChoices, Ready, HasCancelled
<1> QED
  BY <1>1 DEF TurnInv, InFlightMatchesTasks

(* dispatch_pending starts turns only on channels without one.             *)
LEMMA TurnDispatched ==
    ASSUME TypeInv, SlotExclusive, TurnInv,
           \/ DispatchNothing
           \/ \E ch \in Channels : PoolExhausted(ch) \/ \E a \in Agents : DispatchBatch(ch, a)
    PROVE  TurnInv'
<1>1. ExpireAll(q) = q
  BY TypeFacts, NothingExpires DEF TurnInv
<1>2. CASE DispatchNothing
  BY <1>1, <1>2, TurnKept DEF DispatchNothing, TurnInv
<1>3. ASSUME NEW ch \in Channels, NEW a \in Agents, DispatchBatch(ch, a)
      PROVE  TurnInv'
  <2>1. PICK b : task' = [task EXCEPT ![a] = NewTask(ch, b)]
    BY <1>3 DEF DispatchBatch
  <2> DEFINE u == NewTask(ch, b)
  <2>2. u.state # "none" /\ u.ch = ch
    BY DEF NewTask
  <2>3. On(ch) = {} /\ ch # NoChannel
    BY <1>1, <1>3, ChosenHasNoTurn, HarnessAssumption DEF DispatchBatch
  <2>4. a \notin Busy
    BY <1>3 DEF DispatchBatch, SlotExclusive
  <2>5. q' = [q EXCEPT ![ch] = Flushed(q[ch])] /\ UNCHANGED heartbeat_in_flight
    BY <1>1, <1>3 DEF DispatchBatch
  <2>6. Flushed(q[ch]).deadline = "running"
    BY TypeFacts, FlushedType
  <2>7. \A d \in Channels : /\ q'[d].deadline # "elapsed"
                            /\ InFlight(q'[d]) <=> d = ch \/ InFlight(q[d])
    BY <2>5, <2>6, TypeFacts DEF TurnInv, InFlight, QueueOK
  <2> HIDE DEF u
  <2> QED
    BY <2>1, <2>2, <2>3, <2>4, <2>5, <2>7, TurnStarted DEF u
<1>4. ASSUME NEW ch \in Channels, PoolExhausted(ch)
      PROVE  TurnInv'
  <2> DEFINE c == Flushed(q[ch])
  <2>1. PICK b \in FlushBatches(q[ch]) :
           q' = [q EXCEPT ![ch] = MarkComplete(RequeuePreserveTimestamps(c, b))]
    BY <1>1, <1>4 DEF PoolExhausted
  <2>2. c \in Channel /\ b \in FlushBatch /\ b.events \in Seq(Events)
    BY TypeFacts, FlushedType, FlushBatchesType DEF FlushBatch
  <2> HIDE DEF c
  <2> DEFINE d == MarkComplete(RequeuePreserveTimestamps(c, b))
  <2>3. d.deadline = "unset"
    BY <2>2, PutBackType, MarkCompleteType DEF RequeuePreserveTimestamps
  <2>4. ~InFlight(q[ch])
    BY <1>1, <1>4, ChosenHasNoTurn DEF PoolExhausted, TurnInv, InFlightMatchesTasks
  <2>5. q' = [q EXCEPT ![ch] = d]
    BY <2>1
  <2> HIDE DEF d
  <2>6. \A x \in Channels : /\ q'[x].deadline # "elapsed"
                            /\ InFlight(q'[x]) <=> InFlight(q[x])
    BY <2>3, <2>4, <2>5, EntryKept DEF InFlight
  <2> QED
    BY <1>4, <2>6, TurnKept DEF PoolExhausted
<1> QED
  BY <1>2, <1>3, <1>4

(* Results and panics end exactly the turn they report.                    *)
LEMMA TurnReported ==
    ASSUME TypeInv, TurnInv, NEW a \in Busy, NEW t \in Task, t.ch = task[a].ch,
           t.ret = TRUE /\ t.state \in {"Cancelled", "CancelDrainTimeout"}
              => t.control \in Reason,
           EndTurn(t), task' = [task EXCEPT ![a] = NoTask]
    PROVE  TurnInv'
<1>1. CASE t.ch = NoChannel
  <2>1. UNCHANGED q /\ heartbeat_in_flight' = FALSE
    BY <1>1 DEF EndTurn
  <2>2. \A ch \in Channels : /\ q'[ch].deadline # "elapsed"
                             /\ InFlight(q'[ch]) <=> ch # t.ch /\ InFlight(q[ch])
    BY <1>1, <2>1, HarnessAssumption DEF TurnInv
  <2> QED
    BY <1>1, <2>1, <2>2, TurnEnded
<1>2. CASE t.ch # NoChannel
  <2>1. t.ch \in Channels
    BY <1>2 DEF Task
  <2>2. Completed(q[t.ch], t).deadline = "unset"
    BY <2>1, TypeFacts, CompletedType
  <2>3. q' = [q EXCEPT ![t.ch] = Completed(q[t.ch], t)] /\ UNCHANGED heartbeat_in_flight
    BY <1>2 DEF EndTurn
  <2>4. \A ch \in Channels : /\ q'[ch].deadline # "elapsed"
                             /\ InFlight(q'[ch]) <=> ch # t.ch /\ InFlight(q[ch])
    BY <2>1, <2>2, <2>3, TypeFacts DEF TurnInv, InFlight, QueueOK
  <2> QED
    BY <1>2, <2>3, <2>4, TurnEnded
<1> QED
  BY <1>1, <1>2

(* Every step of the harness, if no deadline passes under a live turn.     *)
LEMMA TurnStep ==
    ASSUME TurnMayOutliveDeadline = FALSE, TypeInv, SlotExclusive, TurnInv, [Next]_vars
    PROVE  TurnInv'
<1>1. CASE \/ \E ch \in Channels : RelayEvent(ch) \/ ChannelRemoved(ch) \/ ChannelAdded(ch)
           \/ \E ch \in Channels, s \in CommandSignal : OwnerCommand(ch, s)
           \/ \E m \in acks : HandleSteerAck(m)
  BY <1>1, SelectArmStep, SelectArmEntries, TurnKept
<1>2. CASE \/ DispatchNothing
           \/ \E ch \in Channels : PoolExhausted(ch) \/ \E a \in Agents : DispatchBatch(ch, a)
  BY <1>2, TurnDispatched
<1>3. ASSUME NEW a \in Agents, HandlePromptResult(a)
      PROVE  TurnInv'
  <2>1. a \in Busy
    BY <1>3 DEF HandlePromptResult, Busy, Outcome
  <2>2. EndTurn(task[a]) /\ task' = [task EXCEPT ![a] = NoTask]
    BY <1>3 DEF HandlePromptResult
  <2>3. /\ task[a] \in Task
        /\ task[a].ret = TRUE /\ task[a].state \in {"Cancelled", "CancelDrainTimeout"}
              => task[a].control \in Reason
    BY TypeFacts DEF GoodTask
  <2> QED
    BY <2>1, <2>2, <2>3, TurnReported
<1>4. ASSUME NEW a \in Agents, RecoverPanickedAgent(a)
      PROVE  TurnInv'
  <2> DEFINE t == [task[a] EXCEPT !.ret = (DedupMode = "Queue")]
  <2>1. a \in Busy /\ task[a].state = "panicked"
    BY <1>4 DEF RecoverPanickedAgent, Busy
  <2>2. EndTurn(t) /\ task' = [task EXCEPT ![a] = NoTask]
    BY <1>4 DEF RecoverPanickedAgent
  <2>3. task[a] \in Task
    BY TypeFacts
  <2>4. t \in Task /\ t.state = "panicked" /\ t.ch = task[a].ch
    BY <2>1, <2>3 DEF Task
  <2> HIDE DEF t
  <2> QED
    BY <2>1, <2>2, <2>4, TurnReported
<1>5. CASE HeartbeatTick
  <2>1. q' = q
    BY <1>5, TypeFacts, NothingExpires DEF HeartbeatTick, TurnInv
  <2>2. CASE UNCHANGED <<idle, task, heartbeat_in_flight>>
    BY <2>1, <2>2, TurnKept DEF TurnInv
  <2>3. CASE /\ ~heartbeat_in_flight /\ heartbeat_in_flight' = TRUE
             /\ \E a \in idle : /\ idle' = idle \ {a}
                                /\ task' = [task EXCEPT ![a] = NewTask(NoChannel, NoBatch)]
    <3>1. PICK a \in idle : task' = [task EXCEPT ![a] = NewTask(NoChannel, NoBatch)]
      BY <2>3
    <3>2. a \in Agents /\ a \notin Busy
      BY TypeParts DEF PoolTyped, SlotExclusive
    <3> DEFINE u == NewTask(NoChannel, NoBatch)
    <3>3. u.state # "none" /\ u.ch = NoChannel
      BY DEF NewTask
    <3>4. On(NoChannel) = {}
      BY <2>3 DEF TurnInv, InFlightMatchesTasks
    <3>5. \A ch \in Channels : /\ q'[ch].deadline # "elapsed"
                               /\ InFlight(q'[ch]) <=> ch = NoChannel \/ InFlight(q[ch])
      BY <2>1, HarnessAssumption DEF TurnInv
    <3> HIDE DEF u
    <3> QED
      BY <2>3, <3>1, <3>2, <3>3, <3>4, <3>5, TurnStarted DEF u
  <2> QED
    BY <1>5, <2>2, <2>3 DEF HeartbeatTick, DispatchHeartbeat
<1>6. CASE Maintenance
  <2> DEFINE compacted == [ch \in Channels |-> CompactExpiredState(q[ch])]
  <2>1. /\ QueueOK(compacted)
        /\ \A ch \in Channels : compacted[ch].deadline = q[ch].deadline
    BY TypeFacts, CompactType DEF QueueOK
  <2>2. q' = ExpireAll(compacted)
    BY <1>6 DEF Maintenance
  <2> HIDE DEF compacted
  <2>3. q' = compacted
    BY <2>1, <2>2, NothingExpires DEF TurnInv
  <2>4. \A ch \in Channels : /\ q'[ch].deadline # "elapsed"
                             /\ InFlight(q'[ch]) <=> InFlight(q[ch])
    BY <2>1, <2>3 DEF TurnInv, InFlight
  <2> QED
    BY <1>6, <2>4, TurnKept DEF Maintenance
<1>7. CASE \/ DrainReadyJoinResults \/ RefreshTick \/ MaintenanceNotDue \/ CollectRespawns
           \/ Exited \/ UNCHANGED vars
           \/ \E a \in Agents : CooldownElapses(a)
           \/ \E a \in Agents, ok \in BOOLEAN : RespawnEnds(a, ok)
  <2>1. UNCHANGED <<q, task, heartbeat_in_flight>>
    BY <1>7 DEF DrainReadyJoinResults, RefreshTick, MaintenanceNotDue, CollectRespawns,
                Exited, CooldownElapses, RespawnEnds, vars
  <2> QED
    BY <2>1, TurnKept DEF TurnInv
<1>8. ASSUME NEW a \in Agents,
             \/ SteerTaken(a)
             \/ \E k \in Ack : SteerAnswered(a, k)
             \/ \E o \in Outcome, byControl \in BOOLEAN : TaskEnds(a, o, byControl)
             \/ TaskPanics(a)
      PROVE  TurnInv'
  <2>1. /\ UNCHANGED q /\ UNCHANGED heartbeat_in_flight
        /\ \A x \in Agents : /\ task'[x].ch = task[x].ch
                             /\ task'[x].state = "none" <=> task[x].state = "none"
    BY <1>8, SlotTaskStep
  <2> QED
    BY <2>1, TurnKept DEF TurnInv
<1>9. ASSUME NEW ch \in Channels, RetryElapses(ch)
      PROVE  TurnInv'
  <2> DEFINE c == [q[ch] EXCEPT !.retry = "elapsed"]
  <2>1. c.deadline = q[ch].deadline /\ q[ch].deadline # "elapsed"
    BY TypeFacts DEF TurnInv, Channel
  <2>2. q' = [q EXCEPT ![ch] = c]
    BY <1>9, TypeFacts DEF RetryElapses, QueueOK
  <2> HIDE DEF c
  <2>3. \A d \in Channels : /\ q'[d].deadline # "elapsed"
                            /\ InFlight(q'[d]) <=> InFlight(q[d])
    BY <2>1, <2>2, EntryKept DEF InFlight
  <2> QED
    BY <1>9, <2>3, TurnKept DEF RetryElapses
<1>10. ASSUME NEW ch \in Channels, DeadlineElapses(ch)
       PROVE  FALSE
  BY <1>10 DEF DeadlineElapses
<1> QED
  BY <1>1, <1>2, <1>3, <1>4, <1>5, <1>6, <1>7, <1>8, <1>9, <1>10
     DEF Next, MainLoop, Tasks, Clock

(* If the in-flight deadline outlasts the turns (BackstopOutlastsTurn says *)
(* when it does), the queue's in-flight entries and the running tasks      *)
(* agree at every step: no channel is wedged, none gets a second turn.     *)
THEOREM InFlightIsExact ==
    ASSUME TurnMayOutliveDeadline = FALSE
    PROVE  Spec => []InFlightMatchesTasks
<1>1. Init => TypeInv /\ SlotExclusive /\ TurnInv
  BY TypeInit, SlotInit, TurnInit
<1>2. TypeInv /\ SlotExclusive /\ TurnInv /\ [Next]_vars
         => (TypeInv /\ SlotExclusive /\ TurnInv)'
  BY TypeStep, SlotStep, TurnStep
<1>3. TurnInv => InFlightMatchesTasks
  BY DEF TurnInv
<1> QED
  BY <1>1, <1>2, <1>3, PTL DEF Spec

(* Under the same assumption two turns never run on one channel at a time. *)
THEOREM TurnsAreSerial ==
    ASSUME TurnMayOutliveDeadline = FALSE
    PROVE  Spec => []OneTurnPerChannel
<1>1. Init => TypeInv /\ SlotExclusive /\ TurnInv
  BY TypeInit, SlotInit, TurnInit
<1>2. TypeInv /\ SlotExclusive /\ TurnInv /\ [Next]_vars
         => (TypeInv /\ SlotExclusive /\ TurnInv)'
  BY TypeStep, SlotStep, TurnStep
<1>3. TurnInv => OneTurnPerChannel
  BY DEF TurnInv
<1> QED
  BY <1>1, <1>2, <1>3, PTL DEF Spec

-----------------------------------------------------------------------------
(* Throttles. What CancelledNeverThrottled says of one channel, and what   *)
(* makes it inductive: a throttle is set only as a turn ends, so a channel *)
(* in flight has none running.                                             *)
Unthrottled(c) ==
    /\ InFlight(c) => c.retry # "running"
    /\ c.cancelled # << >> => ~InFlight(c) /\ c.retry # "running"

ThrottleInv == \A ch \in Channels : Unthrottled(q[ch])

(* An operation that starts no turn, sets no throttle and adds to no       *)
(* cancelled batch.                                                        *)
LEMMA UnthrottledKept ==
    ASSUME NEW c, NEW d, Unthrottled(c),
           InFlight(d) <=> InFlight(c),
           d.retry = c.retry \/ d.retry # "running",
           d.cancelled = c.cancelled \/ d.cancelled = << >>
    PROVE  Unthrottled(d)
BY DEF Unthrottled

(* The operations of the select! arms on events are of that kind.          *)
LEMMA QueueOperationsUnthrottled ==
    ASSUME NEW c \in Channel, Unthrottled(c), NEW e \in Events
    PROVE  /\ Unthrottled(Push(c, e))
           /\ Unthrottled(MarkNativeSteerPending(Push(c, e), e))
           /\ Unthrottled(ReleaseNativeSteer(c, e))
           /\ Unthrottled(RemoveEvent(ExtendInFlightDeadline(c), e))
<1>1. \A d : (InFlight(d) <=> InFlight(c)) /\ d.retry = c.retry /\ d.cancelled = c.cancelled
             => Unthrottled(d)
  BY UnthrottledKept
<1>2. /\ Push(c, e).deadline = c.deadline /\ Push(c, e).retry = c.retry
      /\ Push(c, e).cancelled = c.cancelled
  BY DEF Push, Channel
<1>3. LET d == MarkNativeSteerPending(Push(c, e), e) IN
      d.deadline = c.deadline /\ d.retry = c.retry /\ d.cancelled = c.cancelled
  BY DEF MarkNativeSteerPending, Push, Channel
<1>4. LET d == ReleaseNativeSteer(c, e) IN
      d.deadline = c.deadline /\ d.retry = c.retry /\ d.cancelled = c.cancelled
  BY DEF ReleaseNativeSteer, PutBack, Channel
<1>5. LET d == RemoveEvent(ExtendInFlightDeadline(c), e) IN
      /\ InFlight(d) <=> InFlight(c)
      /\ d.retry = c.retry /\ d.cancelled = c.cancelled
  BY DEF RemoveEvent, ExtendInFlightDeadline, InFlight, Channel
<1>6. /\ Unthrottled(Push(c, e))
      /\ Unthrottled(MarkNativeSteerPending(Push(c, e), e))
      /\ Unthrottled(ReleaseNativeSteer(c, e))
  BY <1>1, <1>2, <1>3, <1>4 DEF InFlight
<1>7. Unthrottled(RemoveEvent(ExtendInFlightDeadline(c), e))
  BY <1>1, <1>5
<1> QED
  BY <1>6, <1>7

(* flush_next starts turns on channels without a running throttle: it      *)
(* looks at retry_after for queued events, and a cancelled batch has none. *)
LEMMA FlushedUnthrottled ==
    ASSUME NEW qq, NEW ch \in FlushChoices(qq), qq[ch] \in Channel, Unthrottled(qq[ch])
    PROVE  /\ Flushed(qq[ch]).retry # "running"
           /\ Flushed(qq[ch]).cancelled = << >>
           /\ Unthrottled(Flushed(qq[ch]))
<1>1. qq[ch].retry # "running"
  BY DEF FlushChoices, Ready, HasCancelled, Unthrottled
<1>2. Flushed(qq[ch]).retry = qq[ch].retry /\ Flushed(qq[ch]).cancelled = << >>
  BY DEF Flushed, Channel
<1> QED
  BY <1>1, <1>2 DEF Unthrottled

(* A turn that ends leaves a throttle or a cancelled batch, never both.    *)
LEMMA CompletedUnthrottled ==
    ASSUME NEW c \in Channel, InFlight(c), Unthrottled(c), NEW t \in Task
    PROVE  Unthrottled(Completed(c, t))
<1> DEFINE d == AfterResult(c, t)
<1>1. c.retry # "running" /\ c.cancelled = << >>
  BY DEF Unthrottled
<1>2. d.retry # "running" \/ d.cancelled = << >>
  <2>1. CASE d = c
    BY <1>1, <2>1
  <2>2. CASE d = RequeueAsCancelled(c, t.batch, t.control)
    BY <1>1, <2>2 DEF RequeueAsCancelled, Channel
  <2>3. CASE d = Requeue(c, t.batch)
    BY <1>1, <2>3 DEF Requeue, PutBack, Channel
  <2> QED
    BY <2>1, <2>2, <2>3 DEF AfterResult
<1>3. d \in [pending : {d.pending}, deadline : {d.deadline}, retry : {d.retry},
             retries : {d.retries}, cancelled : {d.cancelled}, reason : {d.reason},
             withheld : {d.withheld}]
  BY DEF AfterResult, RequeueAsCancelled, Requeue, PutBack, Channel
<1> HIDE DEF d
<1>4. /\ MarkComplete(d).deadline = "unset"
      /\ MarkComplete(d).cancelled = d.cancelled
      /\ MarkComplete(d).retry = "running" => d.retry = "running"
  BY <1>3 DEF MarkComplete
<1> QED
  BY <1>2, <1>4 DEF Completed, Unthrottled, InFlight, d

(* One channel's record is replaced. *)
LEMMA ThrottleUpdate ==
    ASSUME TypeInv, ThrottleInv, NEW ch \in Channels, NEW c, Unthrottled(c),
           q' = [q EXCEPT ![ch] = c]
    PROVE  ThrottleInv'
BY TypeFacts DEF ThrottleInv, QueueOK, Unthrottled, InFlight

(* Results and panics: the turn they report was in flight.                 *)
LEMMA ThrottleReported ==
    ASSUME TypeInv, TurnInv, ThrottleInv, NEW a \in Busy, NEW t \in Task,
           t.ch = task[a].ch, EndTurn(t)
    PROVE  ThrottleInv'
<1>1. CASE t.ch = NoChannel
  BY <1>1 DEF EndTurn, ThrottleInv
<1>2. CASE t.ch # NoChannel
  <2>1. t.ch \in Channels /\ InFlight(q[t.ch])
    BY <1>2 DEF Task, TurnInv, InFlightMatchesTasks, On
  <2>2. Unthrottled(Completed(q[t.ch], t))
    BY <2>1, TypeFacts, CompletedUnthrottled DEF ThrottleInv
  <2>3. q' = [q EXCEPT ![t.ch] = Completed(q[t.ch], t)]
    BY <1>2 DEF EndTurn
  <2> QED
    BY <2>1, <2>2, <2>3, ThrottleUpdate
<1> QED
  BY <1>1, <1>2

(* dispatch_pending. *)
LEMMA ThrottleDispatched ==
    ASSUME TypeInv, TurnInv, ThrottleInv,
           \/ DispatchNothing
           \/ \E ch \in Channels : PoolExhausted(ch) \/ \E a \in Agents : DispatchBatch(ch, a)
    PROVE  ThrottleInv'
<1>1. ExpireAll(q) = q
  BY TypeFacts, NothingExpires DEF TurnInv
<1>2. CASE DispatchNothing
  BY <1>1, <1>2 DEF DispatchNothing, ThrottleInv
<1>3. ASSUME NEW ch \in Channels, ch \in FlushChoices(q)
      PROVE  /\ Flushed(q[ch]) \in Channel
             /\ Flushed(q[ch]).retry # "running" /\ Flushed(q[ch]).cancelled = << >>
             /\ Unthrottled(Flushed(q[ch]))
  BY <1>3, TypeFacts, FlushedType, FlushedUnthrottled DEF ThrottleInv
<1>4. ASSUME NEW ch \in Channels, NEW a \in Agents, DispatchBatch(ch, a)
      PROVE  ThrottleInv'
  <2>1. ch \in FlushChoices(q) /\ q' = [q EXCEPT ![ch] = Flushed(q[ch])]
    BY <1>1, <1>4 DEF DispatchBatch
  <2> QED
    BY <1>3, <2>1, ThrottleUpdate
<1>5. ASSUME NEW ch \in Channels, PoolExhausted(ch)
      PROVE  ThrottleInv'
  <2> DEFINE c == Flushed(q[ch])
  <2>1. PICK b : q' = [q EXCEPT ![ch] = MarkComplete(RequeuePreserveTimestamps(c, b))]
    BY <1>1, <1>5 DEF PoolExhausted
  <2>2. c \in Channel /\ c.retry # "running" /\ c.cancelled = << >>
    BY <1>1, <1>3, <1>5 DEF PoolExhausted
  <2> HIDE DEF c
  <2> DEFINE d == MarkComplete(RequeuePreserveTimestamps(c, b))
  <2>3. d.cancelled = << >> /\ d.deadline = "unset"
    BY <2>2 DEF MarkComplete, RequeuePreserveTimestamps, PutBack, Channel
  <2> HIDE DEF d
  <2>4. Unthrottled(d)
    BY <2>3 DEF Unthrottled, InFlight
  <2> QED
    BY <2>1, <2>4, ThrottleUpdate DEF d
<1> QED
  BY <1>2, <1>4, <1>5

(* Every step of the harness, if no deadline passes under a live turn.     *)
LEMMA ThrottleStep ==
    ASSUME TurnMayOutliveDeadline = FALSE, TypeInv, TurnInv, ThrottleInv, [Next]_vars
    PROVE  ThrottleInv'
<1>1. CASE UNCHANGED q
  BY <1>1 DEF ThrottleInv
<1>2. ASSUME NEW ch \in Channels, RelayEvent(ch)
      PROVE  ThrottleInv'
  <2>1. q[ch] \in Channel /\ next \in Events /\ Unthrottled(q[ch])
    BY <1>2, TypeFacts DEF RelayEvent, ThrottleInv
  <2>2. q' \in {q, [q EXCEPT ![ch] = Push(q[ch], next)],
                [q EXCEPT ![ch] = MarkNativeSteerPending(Push(q[ch], next), next)]}
    BY <1>2 DEF RelayEvent
  <2> QED
    BY <1>1, <2>1, <2>2, QueueOperationsUnthrottled, ThrottleUpdate
<1>3. ASSUME NEW ch \in Channels, ChannelRemoved(ch)
      PROVE  ThrottleInv'
  <2>1. Unthrottled(DrainChannel(q[ch]))
    <3>1. /\ DrainChannel(q[ch]).retry = "unset"
          /\ DrainChannel(q[ch]).cancelled = << >>
      BY DEF DrainChannel, EmptyChannel
    <3> QED
      BY <3>1 DEF Unthrottled
  <2> QED
    BY <1>3, <2>1, ThrottleUpdate DEF ChannelRemoved
<1>4. ASSUME NEW m \in acks, HandleSteerAck(m)
      PROVE  ThrottleInv'
  <2>1. m.ch \in Channels /\ m.ev \in Events
    BY TypeParts DEF LoopTyped
  <2>2. q[m.ch] \in Channel /\ Unthrottled(q[m.ch])
    BY <2>1, TypeFacts DEF ThrottleInv
  <2>3. q' \in {[q EXCEPT ![m.ch] = RemoveEvent(ExtendInFlightDeadline(q[m.ch]), m.ev)],
                [q EXCEPT ![m.ch] = ReleaseNativeSteer(q[m.ch], m.ev)]}
    BY <1>4 DEF HandleSteerAck
  <2> QED
    BY <2>1, <2>2, <2>3, QueueOperationsUnthrottled, ThrottleUpdate
<1>5. CASE \/ DispatchNothing
           \/ \E ch \in Channels : PoolExhausted(ch) \/ \E a \in Agents : DispatchBatch(ch, a)
  BY <1>5, ThrottleDispatched
<1>6. ASSUME NEW a \in Agents, HandlePromptResult(a)
      PROVE  ThrottleInv'
  <2>1. a \in Busy /\ task[a] \in Task /\ EndTurn(task[a])
    BY <1>6, TypeFacts DEF HandlePromptResult, Busy, Outcome
  <2> QED
    BY <2>1, ThrottleReported
<1>7. ASSUME NEW a \in Agents, RecoverPanickedAgent(a)
      PROVE  ThrottleInv'
  <2> DEFINE t == [task[a] EXCEPT !.ret = (DedupMode = "Queue")]
  <2>1. a \in Busy /\ EndTurn(t) /\ task[a] \in Task
    BY <1>7, TypeFacts DEF RecoverPanickedAgent, Busy
  <2>2. t \in Task /\ t.ch = task[a].ch
    BY <2>1 DEF Task
  <2> HIDE DEF t
  <2> QED
    BY <2>1, <2>2, ThrottleReported
<1>8. CASE HeartbeatTick
  BY <1>1, <1>8, TypeFacts, NothingExpires DEF HeartbeatTick, TurnInv
<1>9. CASE Maintenance
  <2> DEFINE compacted == [ch \in Channels |-> CompactExpiredState(q[ch])]
  <2>1. /\ QueueOK(compacted)
        /\ \A ch \in Channels : compacted[ch].deadline = q[ch].deadline
    BY TypeFacts, CompactType DEF QueueOK
  <2>2. \A ch \in Channels : Unthrottled(compacted[ch])
    <3> SUFFICES ASSUME NEW ch \in Channels PROVE Unthrottled(CompactExpiredState(q[ch]))
      OBVIOUS
    <3>1. q[ch] \in Channel /\ Unthrottled(q[ch])
      BY TypeFacts DEF ThrottleInv
    <3>2. LET d == CompactExpiredState(q[ch]) IN
          /\ d.deadline = q[ch].deadline /\ d.retry \in {q[ch].retry, "unset"}
          /\ d.cancelled = q[ch].cancelled
      BY <3>1 DEF CompactExpiredState, Channel
    <3> QED
      BY <3>1, <3>2, UnthrottledKept DEF InFlight
  <2>3. q' = ExpireAll(compacted)
    BY <1>9 DEF Maintenance
  <2> HIDE DEF compacted
  <2>4. q' = compacted
    BY <2>1, <2>3, NothingExpires DEF TurnInv
  <2> QED
    BY <2>2, <2>4 DEF ThrottleInv
<1>10. ASSUME NEW ch \in Channels, RetryElapses(ch)
       PROVE  ThrottleInv'
  <2> DEFINE c == [q[ch] EXCEPT !.retry = "elapsed"]
  <2>1. q[ch] \in Channel /\ Unthrottled(q[ch])
    BY TypeFacts DEF ThrottleInv
  <2>2. c.deadline = q[ch].deadline /\ c.retry = "elapsed" /\ c.cancelled = q[ch].cancelled
    BY <2>1 DEF Channel
  <2>3. q' = [q EXCEPT ![ch] = c]
    BY <1>10, TypeFacts DEF RetryElapses, QueueOK
  <2> HIDE DEF c
  <2>4. Unthrottled(c)
    BY <2>1, <2>2, UnthrottledKept DEF InFlight
  <2> QED
    BY <2>3, <2>4, ThrottleUpdate
<1>11. ASSUME NEW ch \in Channels, DeadlineElapses(ch)
       PROVE  FALSE
  BY <1>11 DEF DeadlineElapses
<1>12. CASE \/ \E ch \in Channels : ChannelAdded(ch)
            \/ \E ch \in Channels, s \in CommandSignal : OwnerCommand(ch, s)
            \/ DrainReadyJoinResults \/ RefreshTick \/ MaintenanceNotDue \/ CollectRespawns
            \/ Exited \/ UNCHANGED vars
            \/ \E a \in Agents : CooldownElapses(a)
            \/ \E a \in Agents, ok \in BOOLEAN : RespawnEnds(a, ok)
  BY <1>1, <1>12 DEF ChannelAdded, OwnerCommand, DrainReadyJoinResults, RefreshTick,
        MaintenanceNotDue, CollectRespawns, Exited, CooldownElapses, RespawnEnds, vars
<1>13. ASSUME NEW a \in Agents,
              \/ SteerTaken(a)
              \/ \E k \in Ack : SteerAnswered(a, k)
              \/ \E o \in Outcome, byControl \in BOOLEAN : TaskEnds(a, o, byControl)
              \/ TaskPanics(a)
       PROVE  ThrottleInv'
  <2>1. UNCHANGED q
    BY <1>13, SlotTaskStep
  <2> QED
    BY <1>1, <2>1
<1> QED
  BY <1>2, <1>3, <1>4, <1>5, <1>6, <1>7, <1>8, <1>9, <1>10, <1>11, <1>12, <1>13
     DEF Next, MainLoop, Tasks, Clock

(* flush_next's fallback for cancelled batches, which ignores retry_after, *)
(* never overtakes a backoff: under the same assumption, a channel that    *)
(* holds a cancelled batch is neither throttled nor in flight.             *)
THEOREM CancelledAreNeverThrottled ==
    ASSUME TurnMayOutliveDeadline = FALSE
    PROVE  Spec => []CancelledNeverThrottled
<1>1. Init => TypeInv /\ SlotExclusive /\ TurnInv /\ ThrottleInv
  <2>1. Init => ThrottleInv
    BY DEF Init, ThrottleInv, Unthrottled, EmptyChannel, InFlight
  <2> QED
    BY <2>1, TypeInit, SlotInit, TurnInit
<1>2. TypeInv /\ SlotExclusive /\ TurnInv /\ ThrottleInv /\ [Next]_vars
         => (TypeInv /\ SlotExclusive /\ TurnInv /\ ThrottleInv)'
  BY TypeStep, SlotStep, TurnStep, ThrottleStep
<1>3. ThrottleInv => CancelledNeverThrottled
  BY DEF ThrottleInv, Unthrottled, CancelledNeverThrottled
<1> QED
  BY <1>1, <1>2, <1>3, PTL DEF Spec

-----------------------------------------------------------------------------
(* Steers. A turn that has ended holds none.                               *)
SteersRunning ==
    \A a \in Agents : task[a].state # "running" =>
        task[a].buf = NoEvent /\ task[a].pend = NoEvent

(* The request for event e is with a task of the channel, or its ack is on *)
(* the way.                                                                *)
Asked(ch, e) ==
    \/ \E a \in Agents : task[a].ch = ch /\ e \in {task[a].buf, task[a].pend}
    \/ \E m \in acks : m.ch = ch /\ m.ev = e

(* WithheldAwaitsAck is not inductive: the ack takes one entry out of the  *)
(* side table, so an event must not be in it twice. It is not, because it  *)
(* is withheld as it arrives, and every event in the table arrived before. *)
AwaitInv ==
    /\ SteersRunning
    /\ \A ch \in Channels :
          /\ IsInjective(q[ch].withheld)
          /\ \A e \in Range(q[ch].withheld) : e < next /\ Asked(ch, e)

(* No request and no ack moves.                                            *)
SteersUnmoved ==
    /\ acks' = acks
    /\ \A a \in Agents :
          /\ task'[a].buf = task[a].buf /\ task'[a].pend = task[a].pend
          /\ task[a].buf # NoEvent \/ task[a].pend # NoEvent =>
                task'[a].ch = task[a].ch /\ task'[a].state = task[a].state

(* The empty side table.                                                   *)
LEMMA AwaitInit == Init => AwaitInv
<1> SUFFICES ASSUME Init PROVE AwaitInv
  OBVIOUS
<1>1. SteersRunning
  BY DEF Init, SteersRunning, NoTask, NewTask
<1>2. \A ch \in Channels : q[ch].withheld = << >>
  BY DEF Init, EmptyChannel
<1>3. IsInjective(<< >>) /\ Range(<< >>) = {}
  BY DEF IsInjective, Range
<1> QED
  BY <1>1, <1>2, <1>3 DEF AwaitInv

(* AwaitInv says what is promised of withheld events: whatever holds a     *)
(* request is a running task.                                              *)
LEMMA AwaitImplies == TypeInv /\ AwaitInv => WithheldAwaitsAck
<1> SUFFICES ASSUME TypeInv, AwaitInv, NEW ch \in Channels, NEW e \in Range(q[ch].withheld)
             PROVE  \/ \E a \in On(ch) : e \in {task[a].buf, task[a].pend}
                    \/ \E m \in acks : m.ch = ch /\ m.ev = e
  BY DEF WithheldAwaitsAck
<1>1. e \in Events /\ e # NoEvent
  <2>1. q[ch].withheld \in Seq(Events)
    BY TypeFacts, ChannelFields
  <2> QED
    BY <2>1, RangeOfSeq, HarnessAssumption
<1>2. Asked(ch, e)
  BY DEF AwaitInv
<1>3. ASSUME NEW a \in Agents, task[a].ch = ch, e \in {task[a].buf, task[a].pend}
      PROVE  a \in On(ch)
  BY <1>1, <1>3 DEF AwaitInv, SteersRunning, On, Busy
<1> QED
  BY <1>2, <1>3 DEF Asked

(* A step that moves no request and withholds nothing keeps AwaitInv.      *)
LEMMA AwaitKept ==
    ASSUME TypeInv, AwaitInv, SteersUnmoved, next' \in {next, next + 1},
           \A ch \in Channels : q'[ch].withheld \in {q[ch].withheld, << >>}
    PROVE  AwaitInv'
<1>1. SteersRunning'
  BY DEF SteersUnmoved, AwaitInv, SteersRunning
<1> SUFFICES ASSUME NEW ch \in Channels
             PROVE  /\ IsInjective(q'[ch].withheld)
                    /\ \A e \in Range(q'[ch].withheld) : e < next' /\ Asked(ch, e)'
  BY <1>1 DEF AwaitInv
<1>2. CASE q'[ch].withheld = << >>
  <2>1. IsInjective(<< >>) /\ Range(<< >>) = {}
    BY DEF IsInjective, Range
  <2> QED
    BY <1>2, <2>1
<1>3. CASE q'[ch].withheld = q[ch].withheld
  <2>1. q[ch].withheld \in Seq(Events) /\ Events \subseteq Nat /\ next \in Nat
    BY TypeFacts, ChannelFields, QueueAssumption, TypeParts DEF HistoryTyped
  <2>2. ASSUME NEW e \in Range(q[ch].withheld) PROVE e < next' /\ Asked(ch, e)'
    <3>1. e \in Events /\ e \in Nat /\ e # NoEvent
      BY <2>1, RangeOfSeq, HarnessAssumption
    <3>a. e < next
      BY DEF AwaitInv
    <3>2. e < next'
      BY <2>1, <3>1, <3>a
    <3>3. Asked(ch, e)
      BY DEF AwaitInv
    <3>4. CASE \E m \in acks : m.ch = ch /\ m.ev = e
      BY <3>2, <3>4 DEF SteersUnmoved, Asked
    <3>5. ASSUME NEW a \in Agents, task[a].ch = ch, e \in {task[a].buf, task[a].pend}
          PROVE  task'[a].ch = ch /\ e \in {task'[a].buf, task'[a].pend}
      BY <3>1, <3>5 DEF SteersUnmoved
    <3> QED
      BY <3>2, <3>3, <3>4, <3>5 DEF Asked
  <2> QED
    BY <1>3, <2>2 DEF AwaitInv
<1> QED
  BY <1>2, <1>3

(* The signal changes nothing of a task but its control field.             *)
LEMMA SignalKeeps ==
    ASSUME TypeInv, NEW ch, NEW s, SignalInFlightTask(ch, s)
    PROVE  \A a \in Agents :
              /\ task'[a].ch = task[a].ch /\ task'[a].state = task[a].state
              /\ task'[a].buf = task[a].buf /\ task'[a].pend = task[a].pend
              /\ task'[a].batch = task[a].batch
<1>1. task \in [Agents -> Task]
  BY DEF TypeInv, TypeOK
<1>2. CASE UNCHANGED task
  BY <1>2
<1>3. ASSUME NEW a \in On(ch),
             task' = [task EXCEPT ![a].control = IF @ = "open" THEN s ELSE @]
      PROVE  \A x \in Agents :
                /\ task'[x].ch = task[x].ch /\ task'[x].state = task[x].state
                /\ task'[x].buf = task[x].buf /\ task'[x].pend = task[x].pend
                /\ task'[x].batch = task[x].batch
  BY <1>1, <1>3 DEF Task, On, Busy
<1> QED
  BY <1>2, <1>3 DEF SignalInFlightTask

(* A slot that is given a new task, or loses one that has ended, held no   *)
(* request.                                                                *)
LEMMA SlotUnmoved ==
    ASSUME TypeInv, SteersRunning, acks' = acks, NEW a \in Agents, NEW u,
           task[a].state # "running", u.buf = NoEvent, u.pend = NoEvent,
           task' = [task EXCEPT ![a] = u]
    PROVE  SteersUnmoved
<1>1. task \in [Agents -> Task]
  BY DEF TypeInv, TypeOK
<1>2. task[a].buf = NoEvent /\ task[a].pend = NoEvent
  BY DEF SteersRunning
<1>3. task'[a] = u /\ \A x \in Agents \ {a} : task'[x] = task[x]
  BY <1>1
<1> QED
  BY <1>2, <1>3 DEF SteersUnmoved

(* The steps that are about no steer.                                      *)
LEMMA UnmovedSteps ==
    ASSUME TypeInv, SlotExclusive, SteersRunning,
           \/ \E ch \in Channels : ChannelRemoved(ch) \/ ChannelAdded(ch)
           \/ \E ch \in Channels, s \in CommandSignal : OwnerCommand(ch, s)
           \/ DispatchNothing
           \/ \E ch \in Channels : PoolExhausted(ch) \/ \E a \in Agents : DispatchBatch(ch, a)
           \/ \E a \in Agents : HandlePromptResult(a) \/ RecoverPanickedAgent(a)
           \/ DrainReadyJoinResults
           \/ HeartbeatTick \/ RefreshTick
           \/ Maintenance \/ MaintenanceNotDue \/ CollectRespawns
           \/ \E a \in Agents, ok \in BOOLEAN : RespawnEnds(a, ok)
           \/ Clock \/ Exited \/ UNCHANGED vars
    PROVE  SteersUnmoved /\ next' = next
<1>1. CASE UNCHANGED <<task, acks, next>>
  BY <1>1 DEF SteersUnmoved
<1>2. CASE \/ \E ch \in Channels : ChannelRemoved(ch) \/ ChannelAdded(ch) \/ PoolExhausted(ch)
           \/ DispatchNothing \/ DrainReadyJoinResults \/ RefreshTick
           \/ Maintenance \/ MaintenanceNotDue \/ CollectRespawns
           \/ \E a \in Agents, ok \in BOOLEAN : RespawnEnds(a, ok)
           \/ Clock \/ Exited \/ UNCHANGED vars
  <2>1. UNCHANGED <<task, acks, next>>
    BY <1>2 DEF ChannelRemoved, ChannelAdded, PoolExhausted, DispatchNothing,
                DrainReadyJoinResults, RefreshTick, Maintenance, MaintenanceNotDue,
                CollectRespawns, RespawnEnds, Clock, RetryElapses, DeadlineElapses,
                CooldownElapses, Exited, vars, history
  <2> QED
    BY <1>1, <2>1
<1>3. ASSUME NEW ch \in Channels, NEW s \in CommandSignal, OwnerCommand(ch, s)
      PROVE  SteersUnmoved /\ next' = next
  BY <1>3, SignalKeeps DEF OwnerCommand, SteersUnmoved
<1>4. ASSUME NEW ch \in Channels, NEW a \in Agents, DispatchBatch(ch, a)
      PROVE  SteersUnmoved /\ next' = next
  <2>1. PICK b : task' = [task EXCEPT ![a] = NewTask(ch, b)]
    BY <1>4 DEF DispatchBatch
  <2>2. task[a].state # "running"
    BY <1>4 DEF DispatchBatch, SlotExclusive, Busy
  <2>3. acks' = acks /\ next' = next
    BY <1>4 DEF DispatchBatch
  <2>4. NewTask(ch, b).buf = NoEvent /\ NewTask(ch, b).pend = NoEvent
    BY DEF NewTask
  <2> QED
    BY <2>1, <2>2, <2>3, <2>4, SlotUnmoved
<1>5. ASSUME NEW a \in Agents, HandlePromptResult(a) \/ RecoverPanickedAgent(a)
      PROVE  SteersUnmoved /\ next' = next
  <2>1. task' = [task EXCEPT ![a] = NoTask] /\ acks' = acks /\ next' = next
    BY <1>5, Zenon DEF HandlePromptResult, RecoverPanickedAgent
  <2>2. task[a].state # "running"
    BY <1>5 DEF HandlePromptResult, RecoverPanickedAgent, Outcome
  <2>3. NoTask.buf = NoEvent /\ NoTask.pend = NoEvent
    BY DEF NoTask, NewTask
  <2> QED
    BY <2>1, <2>2, <2>3, SlotUnmoved
<1>6. CASE HeartbeatTick
  <2>1. acks' = acks /\ next' = next
    BY <1>6 DEF HeartbeatTick
  <2>2. CASE UNCHANGED task
    BY <1>1, <2>1, <2>2
  <2>3. ASSUME NEW a \in idle, task' = [task EXCEPT ![a] = NewTask(NoChannel, NoBatch)]
        PROVE  SteersUnmoved
    <3>1. a \in Agents /\ task[a].state # "running"
      BY TypeParts DEF PoolTyped, SlotExclusive, Busy
    <3>2. LET u == NewTask(NoChannel, NoBatch) IN u.buf = NoEvent /\ u.pend = NoEvent
      BY DEF NewTask
    <3> QED
      BY <2>1, <2>3, <3>1, <3>2, SlotUnmoved
  <2> QED
    BY <1>6, <2>1, <2>2, <2>3 DEF HeartbeatTick, DispatchHeartbeat
<1> QED
  BY <1>2, <1>3, <1>4, <1>5, <1>6

(* What a step of a prompt task does to its steers: a request moves on in  *)
(* the task, or becomes an ack.                                            *)
TaskSteers(a) ==
    /\ q' = q /\ next' = next
    /\ task' \in [Agents -> Task]
    /\ \A x \in Agents \ {a} : task'[x] = task[x]
    /\ task'[a].ch = task[a].ch /\ task'[a].batch = task[a].batch
    /\ task[a].state = "running"
    /\ task'[a].state # "running" => task'[a].buf = NoEvent /\ task'[a].pend = NoEvent
    /\ \E k \in Ack :
          \/ /\ task'[a].buf = NoEvent /\ task[a].pend = NoEvent
             /\ task'[a].pend = task[a].buf
             /\ acks' = acks
          \/ /\ task'[a].buf = NoEvent /\ task'[a].pend = task[a].pend
             /\ acks' = acks \cup Post(a, {task[a].buf}, k)
          \/ /\ task'[a].buf = task[a].buf /\ task'[a].pend = NoEvent
             /\ acks' = acks \cup Post(a, {task[a].pend}, k)
          \/ /\ task'[a].buf = NoEvent /\ task'[a].pend = NoEvent
             /\ acks' = acks \cup Post(a, {task[a].buf, task[a].pend}, k)

(* Every step of a prompt task is of that kind.                            *)
LEMMA TaskMoves ==
    ASSUME TypeInv, NEW a \in Agents,
           \/ SteerTaken(a)
           \/ \E k \in Ack : SteerAnswered(a, k)
           \/ \E o \in Outcome, byControl \in BOOLEAN : TaskEnds(a, o, byControl)
           \/ TaskPanics(a)
    PROVE  TaskSteers(a)
<1>1. task \in [Agents -> Task] /\ task[a] \in Task
  BY DEF TypeInv, TypeOK
<1>2. TypeInv'
  BY TaskTyped
<1>3. task' \in [Agents -> Task]
  BY <1>2 DEF TypeInv, TypeOK
<1>4. CASE SteerTaken(a)
  <2>1. /\ q' = q /\ next' = next /\ task[a].state = "running" /\ task[a].pend = NoEvent
        /\ \/ /\ task' = [task EXCEPT ![a].pend = task[a].buf, ![a].buf = NoEvent]
              /\ acks' = acks
           \/ /\ task' = [task EXCEPT ![a].buf = NoEvent]
              /\ acks' = acks \cup Post(a, {task[a].buf}, "NotLanded")
    BY <1>4 DEF SteerTaken, history
  <2>2. CASE task' = [task EXCEPT ![a].pend = task[a].buf, ![a].buf = NoEvent] /\ acks' = acks
    <3>1. /\ \A x \in Agents \ {a} : task'[x] = task[x]
          /\ task'[a].ch = task[a].ch /\ task'[a].batch = task[a].batch
          /\ task'[a].state = task[a].state
          /\ task'[a].buf = NoEvent /\ task'[a].pend = task[a].buf
      BY <1>1, <2>2 DEF Task
    <3> QED
      BY <1>3, <2>1, <2>2, <3>1 DEF TaskSteers, Ack
  <2>3. CASE /\ task' = [task EXCEPT ![a].buf = NoEvent]
             /\ acks' = acks \cup Post(a, {task[a].buf}, "NotLanded")
    <3>1. /\ \A x \in Agents \ {a} : task'[x] = task[x]
          /\ task'[a].ch = task[a].ch /\ task'[a].batch = task[a].batch
          /\ task'[a].state = task[a].state
          /\ task'[a].buf = NoEvent /\ task'[a].pend = task[a].pend
      BY <1>1, <2>3 DEF Task
    <3>2. "NotLanded" \in Ack
      BY DEF Ack
    <3> QED
      BY <1>3, <2>1, <2>3, <3>1, <3>2 DEF TaskSteers
  <2> QED
    BY <2>1, <2>2, <2>3
<1>5. ASSUME NEW k \in Ack, SteerAnswered(a, k)
      PROVE  TaskSteers(a)
  <2>1. /\ q' = q /\ next' = next /\ task[a].state = "running"
        /\ task' = [task EXCEPT ![a].pend = NoEvent]
        /\ acks' = acks \cup Post(a, {task[a].pend}, k)
    BY <1>5 DEF SteerAnswered, history
  <2>2. /\ \A x \in Agents \ {a} : task'[x] = task[x]
        /\ task'[a].ch = task[a].ch /\ task'[a].batch = task[a].batch
        /\ task'[a].state = task[a].state
        /\ task'[a].buf = task[a].buf /\ task'[a].pend = NoEvent
    BY <1>1, <2>1 DEF Task
  <2> QED
    BY <1>3, <2>1, <2>2 DEF TaskSteers
<1>6. ASSUME NEW o \in Outcome, NEW byControl \in BOOLEAN, TaskEnds(a, o, byControl)
      PROVE  TaskSteers(a)
  <2>1. PICK r : task' = [task EXCEPT ![a].state = o, ![a].ret = r,
                                      ![a].buf = NoEvent, ![a].pend = NoEvent]
    BY <1>6, Zenon DEF TaskEnds
  <2>2. /\ q' = q /\ next' = next /\ task[a].state = "running"
        /\ acks' = acks \cup Post(a, {task[a].buf, task[a].pend}, "Released")
    BY <1>6, Zenon DEF TaskEnds
  <2>3. /\ \A x \in Agents \ {a} : task'[x] = task[x]
        /\ task'[a].ch = task[a].ch /\ task'[a].batch = task[a].batch
        /\ task'[a].buf = NoEvent /\ task'[a].pend = NoEvent
    BY <1>1, <2>1 DEF Task
  <2>4. "Released" \in Ack
    BY DEF Ack
  <2> QED
    BY <1>3, <2>2, <2>3, <2>4 DEF TaskSteers
<1>7. CASE TaskPanics(a)
  <2>1. /\ q' = q /\ next' = next /\ task[a].state = "running"
        /\ task' = [task EXCEPT ![a].state = "panicked",
                                ![a].buf = NoEvent, ![a].pend = NoEvent]
        /\ acks' = acks \cup Post(a, {task[a].buf, task[a].pend}, "Released")
    BY <1>7 DEF TaskPanics
  <2>2. /\ \A x \in Agents \ {a} : task'[x] = task[x]
        /\ task'[a].ch = task[a].ch /\ task'[a].batch = task[a].batch
        /\ task'[a].buf = NoEvent /\ task'[a].pend = NoEvent
    BY <1>1, <2>1 DEF Task
  <2>3. "Released" \in Ack
    BY DEF Ack
  <2> QED
    BY <1>3, <2>1, <2>2, <2>3 DEF TaskSteers
<1> QED
  BY <1>4, <1>5, <1>6, <1>7

(* A request that leaves a task without being answered would be forgotten; *)
(* none does.                                                              *)
LEMMA AwaitTaskStep ==
    ASSUME TypeInv, AwaitInv, NEW a \in Agents, TaskSteers(a)
    PROVE  AwaitInv'
<1>1. SteersRunning'
  BY DEF TaskSteers, AwaitInv, SteersRunning
<1>2. ASSUME NEW ch \in Channels, NEW e \in Events, Asked(ch, e)
      PROVE  Asked(ch, e)'
  <2>0. e # NoEvent /\ acks \subseteq acks'
    BY HarnessAssumption DEF TaskSteers
  <2>1. CASE \E m \in acks : m.ch = ch /\ m.ev = e
    BY <2>0, <2>1 DEF Asked
  <2>2. ASSUME NEW x \in Agents, task[x].ch = ch, e \in {task[x].buf, task[x].pend}
        PROVE  Asked(ch, e)'
    <3>1. CASE x # a
      <4>1. task'[x] = task[x]
        BY <3>1 DEF TaskSteers
      <4> QED
        BY <2>2, <4>1 DEF Asked
    <3>2. CASE x = a /\ e \in {task'[a].buf, task'[a].pend}
      BY <2>2, <3>2 DEF Asked, TaskSteers
    <3>3. CASE x = a /\ e \notin {task'[a].buf, task'[a].pend}
      <4>1. PICK k \in Ack, evs \in SUBSET {task[a].buf, task[a].pend} :
               e \in evs /\ acks' = acks \cup Post(a, evs, k)
        BY <2>0, <2>2, <3>3 DEF TaskSteers
      <4>2. [ch |-> ch, ev |-> e, ack |-> k] \in acks'
        BY <2>0, <2>2, <3>3, <4>1 DEF Post
      <4> QED
        BY <4>2 DEF Asked
    <3> QED
      BY <3>1, <3>2, <3>3
  <2> QED
    BY <1>2, <2>1, <2>2 DEF Asked
<1>3. ASSUME NEW ch \in Channels, NEW e \in Range(q[ch].withheld)
      PROVE  e < next /\ Asked(ch, e)'
  <2>1. q[ch].withheld \in Seq(Events)
    BY TypeFacts, ChannelFields
  <2>2. e \in Events
    BY <2>1, RangeOfSeq
  <2> QED
    BY <1>2, <2>2 DEF AwaitInv
<1> QED
  BY <1>1, <1>3 DEF AwaitInv, TaskSteers

(* The relay arm: the event is withheld in the step in which its request   *)
(* enters the one-slot buffer of a running turn, which was free.           *)
LEMMA AwaitRelayStep ==
    ASSUME TypeInv, AwaitInv, NEW ch \in Channels, RelayEvent(ch)
    PROVE  AwaitInv'
<1>1. /\ q[ch] \in Channel /\ Len(q[ch].pending) <= MaxPending /\ next \in Events
      /\ q \in [Channels -> Channel] /\ task \in [Agents -> Task]
  BY TypeFacts DEF RelayEvent, TypeInv, TypeOK
<1>2. next \in Nat /\ next' = next + 1 /\ acks' = acks
  BY <1>1, QueueAssumption DEF RelayEvent
<1>3. CASE /\ q' = q \/ q' = [q EXCEPT ![ch] = Push(q[ch], next)]
           /\ UNCHANGED task \/ \E s : SignalInFlightTask(ch, s)
  <2>1. SteersUnmoved
    BY <1>2, <1>3, SignalKeeps DEF SteersUnmoved
  <2>2. Push(q[ch], next).withheld = q[ch].withheld
    BY <1>1, PushRange
  <2>3. \A d \in Channels : q'[d].withheld = q[d].withheld
    BY <1>1, <1>3, <2>2
  <2> QED
    BY <1>2, <2>1, <2>3, AwaitKept
<1>4. ASSUME NEW a \in On(ch), SteerAccepted(a), task' = [task EXCEPT ![a].buf = next],
             q' = [q EXCEPT ![ch] = MarkNativeSteerPending(Push(q[ch], next), next)]
      PROVE  AwaitInv'
  <2> DEFINE d == MarkNativeSteerPending(Push(q[ch], next), next)
  <2>1. d.withheld = Append(q[ch].withheld, next)
    BY <1>1, WithheldRange
  <2>2. q'[ch] = d /\ \A x \in Channels \ {ch} : q'[x] = q[x]
    BY <1>1, <1>4
  <2> HIDE DEF d
  <2>3. a \in Agents /\ task[a].ch = ch /\ task[a].state = "running" /\ task[a].buf = NoEvent
    BY <1>4 DEF On, Busy, SteerAccepted
  <2>4. /\ \A x \in Agents \ {a} : task'[x] = task[x]
        /\ task'[a].ch = ch /\ task'[a].state = "running" /\ task'[a].pend = task[a].pend
        /\ task'[a].buf = next
    BY <1>1, <1>4, <2>3 DEF Task
  <2>5. SteersRunning'
    BY <2>4 DEF AwaitInv, SteersRunning
  <2>6. ASSUME NEW c \in Channels, NEW e \in Events, Asked(c, e)
        PROVE  Asked(c, e)'
    <3>1. e # NoEvent
      BY HarnessAssumption
    <3>2. CASE \E m \in acks : m.ch = c /\ m.ev = e
      BY <1>2, <3>2 DEF Asked
    <3>3. ASSUME NEW x \in Agents, task[x].ch = c, e \in {task[x].buf, task[x].pend}
          PROVE  task'[x].ch = c /\ e \in {task'[x].buf, task'[x].pend}
      BY <2>3, <2>4, <3>1, <3>3
    <3> QED
      BY <2>6, <3>2, <3>3 DEF Asked
  <2>n. PICK n \in Events : n = next
    BY <1>1
  <2>7. Asked(ch, n)'
    BY <2>3, <2>4, <2>n DEF Asked
  <2>8. ASSUME NEW c \in Channels
        PROVE  /\ q[c].withheld \in Seq(Events)
               /\ IsInjective(q[c].withheld)
               /\ \A e \in Range(q[c].withheld) : e \in Events /\ e < next /\ Asked(c, e)'
    <3>1. q[c].withheld \in Seq(Events)
      BY TypeFacts, ChannelFields
    <3>2. \A e \in Range(q[c].withheld) : e \in Events
      BY <3>1, RangeOfSeq
    <3> QED
      BY <2>6, <3>1, <3>2 DEF AwaitInv
  <2>9. \A e \in Events : e < next => e < next'
    BY <1>2, QueueAssumption
  <2>10. next \notin Range(q[ch].withheld) /\ next < next'
    <3>1. \A e \in Range(q[ch].withheld) : e < next
      BY DEF AwaitInv
    <3> QED
      BY <1>2, <3>1
  <2>11. /\ IsInjective(Append(q[ch].withheld, next))
         /\ Range(Append(q[ch].withheld, next)) = Range(q[ch].withheld) \cup {next}
    BY <1>1, <2>8, <2>10, AppendRange
  <2>12. ASSUME NEW c \in Channels
         PROVE  /\ IsInjective(q'[c].withheld)
                /\ \A e \in Range(q'[c].withheld) : e < next' /\ Asked(c, e)'
    <3>1. CASE c = ch
      <4>1. /\ IsInjective(q'[ch].withheld)
            /\ Range(q'[ch].withheld) = Range(q[ch].withheld) \cup {n}
        BY <2>1, <2>2, <2>11, <2>n
      <4>2. n < next'
        BY <2>10, <2>n
      <4> QED
        BY <2>7, <2>8, <2>9, <3>1, <4>1, <4>2
    <3>2. CASE c # ch
      BY <2>2, <2>8, <2>9, <3>2
    <3> QED
      BY <3>1, <3>2
  <2> QED
    BY <2>5, <2>12 DEF AwaitInv
<1> QED
  BY <1>3, <1>4 DEF RelayEvent

(* The SteerAck arm takes the ack and the event it was for, whatever it    *)
(* says.                                                                   *)
LEMMA AwaitAckStep ==
    ASSUME TypeInv, AwaitInv, NEW m \in acks, HandleSteerAck(m)
    PROVE  AwaitInv'
<1>1. m.ch \in Channels /\ m.ev \in Events /\ q \in [Channels -> Channel]
  BY TypeParts DEF LoopTyped, TypeInv, TypeOK
<1>2. /\ acks' = acks \ {m} /\ next' = next
      /\ UNCHANGED task \/ SignalInFlightTask(m.ch, "Steer")
      /\ q' \in {[q EXCEPT ![m.ch] = RemoveEvent(ExtendInFlightDeadline(q[m.ch]), m.ev)],
                 [q EXCEPT ![m.ch] = ReleaseNativeSteer(q[m.ch], m.ev)]}
  BY DEF HandleSteerAck
<1>3. \A a \in Agents : /\ task'[a].ch = task[a].ch /\ task'[a].state = task[a].state
                        /\ task'[a].buf = task[a].buf /\ task'[a].pend = task[a].pend
  BY <1>2, SignalKeeps
<1>4. SteersRunning'
  BY <1>3 DEF AwaitInv, SteersRunning
<1>5. /\ Range(q'[m.ch].withheld) = Range(q[m.ch].withheld) \ {m.ev}
      /\ IsInjective(q'[m.ch].withheld)
      /\ \A c \in Channels \ {m.ch} : q'[c] = q[c]
  <2>1. q[m.ch] \in Channel /\ IsInjective(q[m.ch].withheld)
    BY <1>1 DEF AwaitInv
  <2> DEFINE x == RemoveEvent(ExtendInFlightDeadline(q[m.ch]), m.ev)
             y == ReleaseNativeSteer(q[m.ch], m.ev)
  <2>2. /\ Range(x.withheld) = Range(q[m.ch].withheld) \ {m.ev} /\ IsInjective(x.withheld)
        /\ Range(y.withheld) = Range(q[m.ch].withheld) \ {m.ev} /\ IsInjective(y.withheld)
    BY <1>1, <2>1, RemoveRange, ReleaseRange
  <2>3. q' \in {[q EXCEPT ![m.ch] = x], [q EXCEPT ![m.ch] = y]}
    BY <1>2
  <2> HIDE DEF x, y
  <2> QED
    BY <1>1, <2>2, <2>3
<1>6. ASSUME NEW c \in Channels, NEW e \in Range(q'[c].withheld)
      PROVE  e < next' /\ Asked(c, e)'
  <2>1. e \in Range(q[c].withheld) /\ ~(c = m.ch /\ e = m.ev)
    BY <1>5
  <2>2. e < next /\ Asked(c, e)
    BY <2>1 DEF AwaitInv
  <2>3. Asked(c, e)'
    BY <1>2, <1>3, <2>1, <2>2 DEF Asked
  <2> QED
    BY <1>2, <2>2, <2>3
<1>7. \A c \in Channels : IsInjective(q'[c].withheld)
  BY <1>5 DEF AwaitInv
<1> QED
  BY <1>4, <1>6, <1>7 DEF AwaitInv

(* What a result leaves in its channel: its batch may be flushed again,    *)
(* and the side table is as it was.                                        *)
LEMMA CompletedRange ==
    ASSUME NEW c \in Channel, Len(c.pending) <= MaxPending, NEW t \in Task,
           t.ret = TRUE /\ t.state \in {"Cancelled", "CancelDrainTimeout"}
              => t.control \in Reason
    PROVE  /\ Flushable(Completed(c, t)) \subseteq Flushable(c) \cup BatchEvents(t.batch)
           /\ Completed(c, t).withheld = c.withheld
<1> DEFINE d == AfterResult(c, t)
<1>1. t.batch \in FlushBatch /\ t.ret \in BOOLEAN
  BY DEF Task
<1>2. CASE d = c
  BY <1>2, CompletionRange DEF Completed
<1>3. CASE ~(~t.ret \/ t.ch \in removed_channels)
  <2>1. /\ Requeue(c, t.batch) \in Channel
        /\ t.state \in {"Cancelled", "CancelDrainTimeout"}
              => RequeueAsCancelled(c, t.batch, t.control) \in Channel
    BY <1>1, <1>3, RequeueType, RequeueAsCancelledType
  <2>2. \/ d = c
        \/ /\ d = RequeueAsCancelled(c, t.batch, t.control)
           /\ t.state \in {"Cancelled", "CancelDrainTimeout"}
        \/ d = Requeue(c, t.batch)
    BY <1>3 DEF AfterResult
  <2>3. /\ d \in Channel /\ d.withheld = c.withheld
        /\ Flushable(d) \subseteq Flushable(c) \cup BatchOf(t.batch)
    BY <1>1, <2>1, <2>2, RequeueRange
  <2> HIDE DEF d
  <2>4. Flushable(MarkComplete(d)) = Flushable(d) /\ MarkComplete(d).withheld = d.withheld
    BY <2>3, CompletionRange
  <2> QED
    BY <2>3, <2>4 DEF Completed, d, BatchOf, BatchEvents
<1> QED
  BY <1>2, <1>3 DEF AfterResult

(* The steps that are about no steer leave the side table as it is, or     *)
(* empty it.                                                               *)
LEMMA WithheldShrinks ==
    ASSUME TypeInv,
           \/ \E ch \in Channels : ChannelRemoved(ch) \/ ChannelAdded(ch)
           \/ \E ch \in Channels, s \in CommandSignal : OwnerCommand(ch, s)
           \/ DispatchNothing
           \/ \E ch \in Channels : PoolExhausted(ch) \/ \E a \in Agents : DispatchBatch(ch, a)
           \/ \E a \in Agents : HandlePromptResult(a) \/ RecoverPanickedAgent(a)
           \/ DrainReadyJoinResults
           \/ HeartbeatTick \/ RefreshTick
           \/ Maintenance \/ MaintenanceNotDue \/ CollectRespawns
           \/ \E a \in Agents, ok \in BOOLEAN : RespawnEnds(a, ok)
           \/ Clock \/ Exited \/ UNCHANGED vars
    PROVE  \A ch \in Channels : q'[ch].withheld \in {q[ch].withheld, << >>}
<1> DEFINE Shrinks == \A ch \in Channels : q'[ch].withheld \in {q[ch].withheld, << >>}
           x == ExpireAll(q)
<1>1. q \in [Channels -> Channel] /\ \A ch \in Channels : Len(q[ch].pending) <= MaxPending
  BY TypeFacts DEF TypeInv, TypeOK
<1>2. /\ x \in [Channels -> Channel] /\ \A ch \in Channels : Len(x[ch].pending) <= MaxPending
      /\ \A ch \in Channels : x[ch].withheld \in {q[ch].withheld, << >>}
  <2>1. QueueOK(x)
    BY TypeFacts, ExpireAllType
  <2>2. ASSUME NEW ch \in Channels PROVE x[ch].withheld \in {q[ch].withheld, << >>}
    BY <1>1, ExpireWithheld DEF ExpireAll
  <2> QED
    BY <2>1, <2>2 DEF QueueOK
<1> HIDE DEF x
<1>3. ASSUME NEW ch \in Channels, NEW c,
             \/ q' = [x EXCEPT ![ch] = c] /\ c.withheld = x[ch].withheld
             \/ q' = [q EXCEPT ![ch] = c] /\ c.withheld \in {q[ch].withheld, << >>}
      PROVE  Shrinks
  BY <1>1, <1>2, <1>3
<1>4. ASSUME NEW ch \in Channels, ChannelRemoved(ch) PROVE Shrinks
  BY <1>3, <1>4, DrainRange DEF ChannelRemoved
<1>5. CASE q' = x \/ q' = q
  BY <1>2, <1>5
<1>6. ASSUME NEW ch \in Channels, NEW a \in Agents, DispatchBatch(ch, a) PROVE Shrinks
  <2>1. PICK b : b \in FlushBatches(x[ch])
    BY <1>6 DEF DispatchBatch, x
  <2>2. Flushed(x[ch]).withheld = x[ch].withheld
    BY <1>2, <2>1, FlushRange
  <2>3. q' = [x EXCEPT ![ch] = Flushed(x[ch])]
    BY <1>6 DEF DispatchBatch, x
  <2> QED
    BY <1>3, <2>2, <2>3
<1>7. ASSUME NEW ch \in Channels, PoolExhausted(ch) PROVE Shrinks
  <2> DEFINE c == Flushed(x[ch])
  <2>1. PICK b \in FlushBatches(x[ch]) :
           q' = [x EXCEPT ![ch] = MarkComplete(RequeuePreserveTimestamps(c, b))]
    BY <1>7 DEF PoolExhausted, x
  <2>2. /\ c \in Channel /\ b \in FlushBatch /\ b.events \in Seq(Events)
        /\ c.withheld = x[ch].withheld
    BY <1>2, FlushedType, FlushBatchesType, FlushRange DEF FlushBatch
  <2> HIDE DEF c
  <2> DEFINE p == RequeuePreserveTimestamps(c, b)
  <2>3. p \in Channel /\ p.withheld = c.withheld
    BY <2>2, PutBackType, PutBackRange DEF RequeuePreserveTimestamps
  <2> HIDE DEF p
  <2>4. MarkComplete(p).withheld = p.withheld
    BY <2>3, CompletionRange
  <2> QED
    BY <1>3, <2>1, <2>2, <2>3, <2>4 DEF p
<1>8. ASSUME NEW t \in Task, EndTurn(t),
             t.ret = TRUE /\ t.state \in {"Cancelled", "CancelDrainTimeout"}
                => t.control \in Reason
      PROVE  Shrinks
  <2>1. CASE t.ch = NoChannel
    BY <1>5, <1>8, <2>1 DEF EndTurn
  <2>2. CASE t.ch # NoChannel
    <3>1. t.ch \in Channels
      BY <2>2 DEF Task
    <3>2. Completed(q[t.ch], t).withheld = q[t.ch].withheld
      BY <1>1, <1>8, <3>1, CompletedRange
    <3>3. q' = [q EXCEPT ![t.ch] = Completed(q[t.ch], t)]
      BY <1>8, <2>2 DEF EndTurn
    <3> QED
      BY <1>3, <3>1, <3>2, <3>3
  <2> QED
    BY <2>1, <2>2
<1>9. ASSUME NEW a \in Agents, HandlePromptResult(a) PROVE Shrinks
  <2>1. EndTurn(task[a]) /\ task[a] \in Task /\ task[a] \in GoodTask
    BY <1>9, TypeFacts DEF HandlePromptResult
  <2> QED
    BY <1>8, <2>1 DEF GoodTask
<1>10. ASSUME NEW a \in Agents, RecoverPanickedAgent(a) PROVE Shrinks
  <2> DEFINE t == [task[a] EXCEPT !.ret = (DedupMode = "Queue")]
  <2>1. task[a] \in Task /\ EndTurn(t) /\ task[a].state = "panicked"
    BY <1>10, TypeFacts DEF RecoverPanickedAgent
  <2>2. t \in Task /\ t.state = "panicked"
    BY <2>1 DEF Task
  <2> HIDE DEF t
  <2> QED
    BY <1>8, <2>1, <2>2
<1>11. CASE Maintenance
  <2> DEFINE c == [ch \in Channels |-> CompactExpiredState(q[ch])]
  <2>1. q' = ExpireAll(c)
    BY <1>11 DEF Maintenance
  <2>2. \A ch \in Channels : c[ch] \in Channel /\ c[ch].withheld = q[ch].withheld
    BY <1>1, CompactType, CompletionRange
  <2> HIDE DEF c
  <2> QED
    BY <2>1, <2>2, ExpireWithheld DEF ExpireAll
<1>12. ASSUME NEW ch \in Channels, RetryElapses(ch) \/ DeadlineElapses(ch) PROVE Shrinks
  <2>1. q[ch] \in Channel
    BY <1>1
  <2>2. PICK c : q' = [q EXCEPT ![ch] = c] /\ c.withheld = q[ch].withheld
    <3>1. /\ [q[ch] EXCEPT !.retry = "elapsed"].withheld = q[ch].withheld
          /\ [q[ch] EXCEPT !.deadline = "elapsed"].withheld = q[ch].withheld
      BY <2>1 DEF Channel
    <3>2. q' \in {[q EXCEPT ![ch] = [q[ch] EXCEPT !.retry = "elapsed"]],
                  [q EXCEPT ![ch] = [q[ch] EXCEPT !.deadline = "elapsed"]]}
      BY <1>1, <1>12 DEF RetryElapses, DeadlineElapses
    <3> QED
      BY <3>1, <3>2
  <2> QED
    BY <1>3, <2>2
<1>13. CASE DispatchNothing \/ HeartbeatTick
  BY <1>5, <1>13 DEF DispatchNothing, HeartbeatTick, x
<1>14. CASE \/ \E ch \in Channels : ChannelAdded(ch)
            \/ \E ch \in Channels, s \in CommandSignal : OwnerCommand(ch, s)
            \/ DrainReadyJoinResults \/ RefreshTick \/ MaintenanceNotDue \/ CollectRespawns
            \/ \E a \in Agents, ok \in BOOLEAN : RespawnEnds(a, ok)
            \/ \E a \in Agents : CooldownElapses(a)
            \/ Exited \/ UNCHANGED vars
  BY <1>5, <1>14 DEF ChannelAdded, OwnerCommand, DrainReadyJoinResults, RefreshTick,
        MaintenanceNotDue, CollectRespawns, RespawnEnds, CooldownElapses, Exited, vars
<1> QED
  BY <1>4, <1>6, <1>7, <1>9, <1>10, <1>11, <1>12, <1>13, <1>14 DEF Clock

(* Every step of the harness.                                              *)
LEMMA AwaitStep ==
    ASSUME TypeInv, SlotExclusive, AwaitInv, [Next]_vars
    PROVE  AwaitInv'
<1>1. ASSUME NEW ch \in Channels, RelayEvent(ch) PROVE AwaitInv'
  BY <1>1, AwaitRelayStep
<1>2. ASSUME NEW m \in acks, HandleSteerAck(m) PROVE AwaitInv'
  BY <1>2, AwaitAckStep
<1>3. ASSUME NEW a \in Agents,
             \/ SteerTaken(a)
             \/ \E k \in Ack : SteerAnswered(a, k)
             \/ \E o \in Outcome, byControl \in BOOLEAN : TaskEnds(a, o, byControl)
             \/ TaskPanics(a)
      PROVE  AwaitInv'
  BY <1>3, TaskMoves, AwaitTaskStep
<1>4. CASE \/ \E ch \in Channels : ChannelRemoved(ch) \/ ChannelAdded(ch)
           \/ \E ch \in Channels, s \in CommandSignal : OwnerCommand(ch, s)
           \/ DispatchNothing
           \/ \E ch \in Channels : PoolExhausted(ch) \/ \E a \in Agents : DispatchBatch(ch, a)
           \/ \E a \in Agents : HandlePromptResult(a) \/ RecoverPanickedAgent(a)
           \/ DrainReadyJoinResults
           \/ HeartbeatTick \/ RefreshTick
           \/ Maintenance \/ MaintenanceNotDue \/ CollectRespawns
           \/ \E a \in Agents, ok \in BOOLEAN : RespawnEnds(a, ok)
           \/ Clock \/ Exited \/ UNCHANGED vars
  <2>1. SteersUnmoved /\ next' = next
    BY <1>4, UnmovedSteps DEF AwaitInv
  <2>2. \A ch \in Channels : q'[ch].withheld \in {q[ch].withheld, << >>}
    BY <1>4, WithheldShrinks
  <2> QED
    BY <2>1, <2>2, AwaitKept
<1>5. CASE MainLoop
  BY <1>1, <1>2, <1>4, <1>5 DEF MainLoop
<1>6. CASE Tasks
  BY <1>3, <1>4, <1>6 DEF Tasks
<1> QED
  BY <1>4, <1>5, <1>6 DEF Next

(* An event withheld for a native steer is never forgotten: its request is *)
(* in the buffer or the read loop of a running turn, or the ack that gives *)
(* it back or removes it is on the way, even where a deadline expires      *)
(* under a live turn.                                                      *)
THEOREM WithheldAlwaysAwaitsAck == Spec => []WithheldAwaitsAck
<1>1. Init => TypeInv /\ SlotExclusive /\ AwaitInv
  BY TypeInit, SlotInit, AwaitInit
<1>2. TypeInv /\ SlotExclusive /\ AwaitInv /\ [Next]_vars
         => (TypeInv /\ SlotExclusive /\ AwaitInv)'
  BY TypeStep, SlotStep, AwaitStep
<1>3. TypeInv /\ AwaitInv => WithheldAwaitsAck
  BY AwaitImplies
<1> QED
  BY <1>1, <1>2, <1>3, PTL DEF Spec

(* An event that is in a turn, or that flush_next may put into one.        *)
Prompted(e) ==
    \/ \E ch \in Channels : e \in Flushable(q[ch])
    \/ \E a \in Agents : e \in TaskHeld(a)

SteerAt(a) == {task[a].buf, task[a].pend} \ {NoEvent}

(* What makes SteeredNeverPrompted inductive: there is one request or ack  *)
(* for an event at most, and until the ack is handled the event is in no   *)
(* queue and in no batch. The last two say the same of a request and of an *)
(* ack; the other parts, that a new arrival is new to them all.            *)
SteerInv ==
    /\ \A e \in Events : Prompted(e) => e < next
    /\ \A a \in Agents : \A e \in SteerAt(a) : e < next
    /\ \A m \in acks : m.ev < next
    /\ \A a \in Agents : task[a].buf # NoEvent => task[a].buf # task[a].pend
    /\ \A a, b \in Agents : a # b => SteerAt(a) \cap SteerAt(b) = {}
    /\ \A m \in acks, a \in Agents : m.ev \notin SteerAt(a)
    /\ \A m, n \in acks : m.ev = n.ev => m = n
    /\ \A a \in Agents : \A e \in SteerAt(a) : ~Prompted(e)
    /\ \A m \in acks : ~Prompted(m.ev)

(* The empty harness steers and prompts nothing.                           *)
LEMMA SteerInit == Init => SteerInv
<1> SUFFICES ASSUME Init PROVE SteerInv
  OBVIOUS
<1>1. \A a \in Agents : task[a].buf = NoEvent /\ task[a].pend = NoEvent
                        /\ task[a].batch = NoBatch
  BY DEF Init, NoTask, NewTask
<1>2. \A ch \in Channels : q[ch].pending = << >> /\ q[ch].cancelled = << >>
  BY DEF Init, EmptyChannel
<1>3. Range(<< >>) = {}
  BY DEF Range
<1>4. \A e : ~Prompted(e)
  BY <1>1, <1>2, <1>3 DEF Prompted, Flushable, TaskHeld, BatchEvents, NoBatch
<1>5. acks = {} /\ \A a \in Agents : SteerAt(a) = {}
  BY <1>1 DEF SteerAt, Init
<1> QED
  BY <1>1, <1>4, <1>5 DEF SteerInv

(* The events of the tasks and of the acks are numbers.                    *)
LEMMA SteerNumbers ==
    ASSUME TypeInv
    PROVE  /\ next \in Nat /\ Events \subseteq Nat
           /\ \A a \in Agents : SteerAt(a) \subseteq Events
           /\ \A m \in acks : m.ev \in Events /\ m.ch \in Channels
<1>1. \A a \in Agents : task[a] \in Task
  BY TypeFacts
<1>2. \A a \in Agents : SteerAt(a) \subseteq Events
  BY <1>1 DEF Task, SteerAt
<1> QED
  BY <1>2, TypeParts, QueueAssumption DEF HistoryTyped, LoopTyped

(* A step that moves no request, and prompts at most a new arrival.        *)
LEMMA SteerKept ==
    ASSUME TypeInv, SteerInv, SteersUnmoved, NEW n, n = next,
           \/ next' = n /\ \A e \in Events : Prompted(e)' => Prompted(e)
           \/ next' = n + 1 /\ \A e \in Events : Prompted(e)' => Prompted(e) \/ e = n
    PROVE  SteerInv'
<1>1. /\ n \in Nat /\ Events \subseteq Nat /\ next' \in Nat /\ n <= next'
      /\ \A a \in Agents : SteerAt(a) \subseteq Events
      /\ \A m \in acks : m.ev \in Events
  BY SteerNumbers
<1>2. acks' = acks /\ \A a \in Agents : SteerAt(a)' = SteerAt(a)
                         /\ task'[a].buf = task[a].buf /\ task'[a].pend = task[a].pend
  BY DEF SteersUnmoved, SteerAt
<1>3. ASSUME NEW e \in Events, Prompted(e)' PROVE e < next'
  BY <1>1, <1>3 DEF SteerInv
<1>4. ASSUME NEW a \in Agents, NEW e \in SteerAt(a) PROVE e < next' /\ ~Prompted(e)'
  <2>1. e \in Events /\ e < n /\ ~Prompted(e)
    BY <1>1 DEF SteerInv
  <2> QED
    BY <1>1, <2>1
<1>5. ASSUME NEW m \in acks PROVE m.ev < next' /\ ~Prompted(m.ev)'
  <2>1. PICK e : e = m.ev
    OBVIOUS
  <2>2. e \in Events /\ e < n /\ ~Prompted(e)
    BY <1>1, <2>1 DEF SteerInv
  <2>3. ~Prompted(e)'
    BY <1>1, <2>2
  <2>4. e < next'
    BY <1>1, <2>2
  <2>5. m.ev < next'
    BY <2>1, <2>4
  <2> QED
    BY <2>1, <2>3, <2>5 DEF Prompted
<1>6. \A m \in acks' : m.ev < next' /\ ~Prompted(m.ev)'
  BY <1>2, <1>5
<1>7. \A a \in Agents : \A e \in SteerAt(a)' : e < next' /\ ~Prompted(e)'
  BY <1>2, <1>4
<1>8. /\ \A a \in Agents : task'[a].buf # NoEvent => task'[a].buf # task'[a].pend
      /\ \A a, b \in Agents : a # b => SteerAt(a)' \cap SteerAt(b)' = {}
      /\ \A m \in acks', a \in Agents : m.ev \notin SteerAt(a)'
      /\ \A m, k \in acks' : m.ev = k.ev => m = k
  BY <1>2 DEF SteerInv
<1> QED
  BY <1>3, <1>6, <1>7, <1>8 DEF SteerInv

(* A step of a prompt task turns some of its requests into acks.           *)
LEMMA SteerTaskStep ==
    ASSUME TypeInv, SteerInv, NEW a \in Agents, TaskSteers(a)
    PROVE  SteerInv'
<1>1. /\ next \in Nat /\ Events \subseteq Nat
      /\ \A b \in Agents : SteerAt(b) \subseteq Events
      /\ \A m \in acks : m.ev \in Events
  BY SteerNumbers
<1>2. \A e : Prompted(e)' <=> Prompted(e)
  BY DEF TaskSteers, Prompted, TaskHeld
<1>3. PICK k \in Ack, evs \in SUBSET {task[a].buf, task[a].pend} :
         /\ acks' = acks \cup Post(a, evs, k)
         /\ SteerAt(a)' = SteerAt(a) \ evs
         /\ task'[a].buf # NoEvent => task'[a].buf # task'[a].pend
  <2>1. task[a].buf # NoEvent => task[a].buf # task[a].pend
    BY DEF SteerInv
  <2>2. Post(a, {}, "Success") = {} /\ "Success" \in Ack
    BY DEF Post, Ack
  <2> QED
    BY <2>1, <2>2 DEF TaskSteers, SteerAt
<1>4. \A b \in Agents \ {a} : SteerAt(b)' = SteerAt(b) /\ task'[b] = task[b]
  BY DEF TaskSteers, SteerAt
<1> DEFINE new == Post(a, evs, k)
<1>5. /\ \A m \in new : m.ev \in SteerAt(a) \cap evs
      /\ \A m, x \in new : m.ev = x.ev => m = x
  BY DEF Post, SteerAt
<1> HIDE DEF new
<1>6. \A m \in acks' : m \in acks \/ m \in new
  BY <1>3 DEF new
<1>7. \A m, x \in acks' : m.ev = x.ev => m = x
  BY <1>5, <1>6 DEF SteerInv
<1>8. ASSUME NEW m \in acks', NEW b \in Agents PROVE m.ev \notin SteerAt(b)'
  <2>1. CASE b = a
    BY <1>3, <1>5, <1>6, <2>1 DEF SteerInv
  <2>2. CASE b # a
    BY <1>4, <1>5, <1>6, <2>2 DEF SteerInv
  <2> QED
    BY <2>1, <2>2
<1>9. \A m \in acks' : m.ev < next /\ ~Prompted(m.ev)
  BY <1>5, <1>6 DEF SteerInv
<1>10. \A b \in Agents : SteerAt(b)' \subseteq SteerAt(b)
  BY <1>3, <1>4
<1>11. \A b, c \in Agents : b # c => SteerAt(b)' \cap SteerAt(c)' = {}
  BY <1>10 DEF SteerInv
<1>12. \A b \in Agents : \A e \in SteerAt(b)' : e < next /\ ~Prompted(e)
  BY <1>10 DEF SteerInv
<1>13. \A b \in Agents : task'[b].buf # NoEvent => task'[b].buf # task'[b].pend
  BY <1>3, <1>4 DEF SteerInv
<1>14. next' = next
  BY DEF TaskSteers
<1>15. \A e \in Events : Prompted(e)' => e < next
  BY <1>2 DEF SteerInv
<1>16. \A m \in acks' : ~Prompted(m.ev)'
  <2> SUFFICES ASSUME NEW m \in acks' PROVE ~Prompted(m.ev)'
    OBVIOUS
  <2>1. PICK e : e = m.ev
    OBVIOUS
  <2> QED
    BY <1>2, <1>9, <2>1
<1>17. \A b \in Agents : \A e \in SteerAt(b)' : ~Prompted(e)'
  BY <1>2, <1>12
<1> QED
  BY <1>7, <1>8, <1>9, <1>11, <1>12, <1>13, <1>14, <1>15, <1>16, <1>17 DEF SteerInv

(* The relay arm prompts or steers the new arrival, never both.            *)
LEMMA SteerRelayStep ==
    ASSUME TypeInv, SteerInv, NEW ch \in Channels, RelayEvent(ch)
    PROVE  SteerInv'
<1>0. PICK n \in Nat : n = next
  BY SteerNumbers
<1>1. /\ q[ch] \in Channel /\ Len(q[ch].pending) <= MaxPending /\ n \in Events
      /\ q \in [Channels -> Channel] /\ task \in [Agents -> Task]
  BY <1>0, TypeFacts DEF RelayEvent, TypeInv, TypeOK
<1>2. next' = n + 1 /\ acks' = acks
  BY <1>0 DEF RelayEvent
<1>3. n \notin Flushable(q[ch])
  <2>1. Prompted(n) => n < n
    BY <1>0, <1>1 DEF SteerInv
  <2> QED
    BY <2>1 DEF Prompted
<1>4. CASE /\ q' = q \/ q' = [q EXCEPT ![ch] = Push(q[ch], n)]
           /\ UNCHANGED task \/ \E s : SignalInFlightTask(ch, s)
  <2>1. SteersUnmoved
    BY <1>2, <1>4, SignalKeeps DEF SteersUnmoved
  <2>2. Flushable(Push(q[ch], n)) \subseteq Flushable(q[ch]) \cup {n}
    BY <1>1, PushRange
  <2>3. \A c \in Channels : Flushable(q'[c]) \subseteq Flushable(q[c]) \cup {n}
    BY <1>1, <1>4, <2>2
  <2>4. \A a \in Agents : TaskHeld(a)' = TaskHeld(a)
    BY <1>4, SignalKeeps DEF TaskHeld
  <2>5. \A e \in Events : Prompted(e)' => Prompted(e) \/ e = n
    BY <2>3, <2>4 DEF Prompted
  <2> QED
    BY <1>0, <1>2, <2>1, <2>5, SteerKept
<1>5. ASSUME NEW a \in On(ch), SteerAccepted(a), task' = [task EXCEPT ![a].buf = n],
             q' = [q EXCEPT ![ch] = MarkNativeSteerPending(Push(q[ch], n), n)]
      PROVE  SteerInv'
  <2> DEFINE d == MarkNativeSteerPending(Push(q[ch], n), n)
  <2>1. Flushable(d) \subseteq Flushable(q[ch])
    BY <1>1, <1>3, WithheldRange
  <2> HIDE DEF d
  <2>2. \A c \in Channels : Flushable(q'[c]) \subseteq Flushable(q[c])
    BY <1>1, <1>5, <2>1 DEF d
  <2>3. a \in Agents /\ task[a].buf = NoEvent /\ n # NoEvent
    BY <1>1, <1>5, HarnessAssumption DEF On, Busy, SteerAccepted
  <2>4. /\ \A x \in Agents \ {a} : task'[x] = task[x]
        /\ task'[a].pend = task[a].pend /\ task'[a].buf = n
        /\ task'[a].batch = task[a].batch
    BY <1>1, <1>5, <2>3 DEF Task
  <2>5. \A x \in Agents : TaskHeld(x)' = TaskHeld(x)
    BY <2>4 DEF TaskHeld
  <2>6. \A e : Prompted(e)' => Prompted(e)
    BY <2>2, <2>5 DEF Prompted
  <2>7. /\ SteerAt(a)' = SteerAt(a) \cup {n}
        /\ \A x \in Agents \ {a} : SteerAt(x)' = SteerAt(x)
    BY <2>3, <2>4 DEF SteerAt
  <2>8. /\ \A x \in Agents : SteerAt(x) \subseteq Events /\ n \notin SteerAt(x)
        /\ \A m \in acks : m.ev \in Events /\ m.ev # n
    BY <1>0, SteerNumbers DEF SteerInv
  <2>9. \A e \in Events : e < n \/ e = n => e < next'
    BY <1>2, QueueAssumption
  <2>10. \A e \in Events : Prompted(e)' => e < next'
    BY <1>0, <2>6, <2>9 DEF SteerInv
  <2>11. ~Prompted(n)
    <3>1. Prompted(n) => n < n
      BY <1>0, <1>1 DEF SteerInv
    <3> QED
      BY <3>1
  <2>12. ASSUME NEW x \in Agents, NEW e \in SteerAt(x)' PROVE e < next' /\ ~Prompted(e)'
    <3>1. e \in SteerAt(x) \/ e = n
      BY <2>7
    <3>2. CASE e = n
      BY <1>1, <2>6, <2>9, <2>11, <3>2
    <3>3. CASE e \in SteerAt(x)
      <4>1. e \in Events /\ e < n /\ ~Prompted(e)
        BY <1>0, <2>8, <3>3 DEF SteerInv
      <4> QED
        BY <2>6, <2>9, <4>1
    <3> QED
      BY <3>1, <3>2, <3>3
  <2>13. ASSUME NEW m \in acks PROVE m.ev < next' /\ ~Prompted(m.ev)'
    <3>1. PICK e : e = m.ev
      OBVIOUS
    <3>2. e \in Events /\ e < n /\ ~Prompted(e)
      BY <1>0, <2>8, <3>1 DEF SteerInv
    <3>3. e < next' /\ ~Prompted(e)'
      BY <2>6, <2>9, <3>2
    <3>4. m.ev < next'
      BY <3>1, <3>3
    <3>5. ~Prompted(e)'
      BY <3>3
    <3> QED
      BY <3>1, <3>4, <3>5 DEF Prompted
  <2>14. \A x \in Agents : task'[x].buf # NoEvent => task'[x].buf # task'[x].pend
    <3>1. task'[a].buf # task'[a].pend
      BY <2>3, <2>4, <2>8 DEF SteerAt
    <3> QED
      BY <2>4, <3>1 DEF SteerInv
  <2>15. \A x, y \in Agents : x # y => SteerAt(x)' \cap SteerAt(y)' = {}
    BY <2>7, <2>8 DEF SteerInv
  <2>16. \A m \in acks, x \in Agents : m.ev \notin SteerAt(x)'
    BY <2>7, <2>8 DEF SteerInv
  <2>17. \A m, k \in acks : m.ev = k.ev => m = k
    BY DEF SteerInv
  <2> QED
    BY <1>2, <2>10, <2>12, <2>13, <2>14, <2>15, <2>16, <2>17 DEF SteerInv
<1> QED
  BY <1>0, <1>4, <1>5 DEF RelayEvent

(* The ack is the last there is of its event: what it releases may be      *)
(* prompted, for no other ack or request can still say that it was steered.*)
LEMMA SteerAckStep ==
    ASSUME TypeInv, AwaitInv, SteerInv, NEW m \in acks, HandleSteerAck(m)
    PROVE  SteerInv'
<1>1. m.ch \in Channels /\ m.ev \in Events /\ q \in [Channels -> Channel]
  BY TypeParts DEF LoopTyped, TypeInv, TypeOK
<1>2. /\ acks' = acks \ {m} /\ next' = next
      /\ UNCHANGED task \/ SignalInFlightTask(m.ch, "Steer")
      /\ q' \in {[q EXCEPT ![m.ch] = RemoveEvent(ExtendInFlightDeadline(q[m.ch]), m.ev)],
                 [q EXCEPT ![m.ch] = ReleaseNativeSteer(q[m.ch], m.ev)]}
  BY DEF HandleSteerAck
<1>3. \A a \in Agents : /\ task'[a].buf = task[a].buf /\ task'[a].pend = task[a].pend
                        /\ SteerAt(a)' = SteerAt(a) /\ TaskHeld(a)' = TaskHeld(a)
  BY <1>2, SignalKeeps DEF SteerAt, TaskHeld
<1>4. \A c \in Channels : Flushable(q'[c]) \subseteq Flushable(q[c]) \cup {m.ev}
  <2>1. q[m.ch] \in Channel /\ IsInjective(q[m.ch].withheld)
    BY <1>1 DEF AwaitInv
  <2> DEFINE x == RemoveEvent(ExtendInFlightDeadline(q[m.ch]), m.ev)
             y == ReleaseNativeSteer(q[m.ch], m.ev)
  <2>2. /\ Flushable(x) \subseteq Flushable(q[m.ch]) \cup {m.ev}
        /\ Flushable(y) \subseteq Flushable(q[m.ch]) \cup {m.ev}
    BY <1>1, <2>1, RemoveRange, ReleaseRange
  <2>3. q' \in {[q EXCEPT ![m.ch] = x], [q EXCEPT ![m.ch] = y]}
    BY <1>2
  <2> HIDE DEF x, y
  <2> QED
    BY <1>1, <2>2, <2>3
<1>5. \A e : Prompted(e)' => Prompted(e) \/ e = m.ev
  BY <1>3, <1>4 DEF Prompted
<1>6. \A e \in Events : Prompted(e)' => e < next'
  BY <1>1, <1>2, <1>5 DEF SteerInv
<1>7. \A a \in Agents : \A e \in SteerAt(a)' : e < next' /\ ~Prompted(e)'
  BY <1>2, <1>3, <1>5 DEF SteerInv
<1>8. ASSUME NEW k \in acks' PROVE k.ev < next' /\ ~Prompted(k.ev)'
  <2>1. PICK e : e = k.ev
    OBVIOUS
  <2>2. e < next /\ ~Prompted(e) /\ e # m.ev
    BY <1>2, <2>1 DEF SteerInv
  <2>3. ~Prompted(e)'
    BY <1>5, <2>2
  <2>4. k.ev < next'
    BY <1>2, <2>1, <2>2
  <2> QED
    BY <2>1, <2>3, <2>4 DEF Prompted
<1>9. /\ \A a \in Agents : task'[a].buf # NoEvent => task'[a].buf # task'[a].pend
      /\ \A a, b \in Agents : a # b => SteerAt(a)' \cap SteerAt(b)' = {}
      /\ \A k \in acks', a \in Agents : k.ev \notin SteerAt(a)'
      /\ \A k, l \in acks' : k.ev = l.ev => k = l
  BY <1>2, <1>3 DEF SteerInv
<1> QED
  BY <1>6, <1>7, <1>8, <1>9 DEF SteerInv

(* Where no deadline expires, the steps that are about no steer put into a *)
(* queue or a batch only what was in one.                                  *)
LEMMA PromptedShrinks ==
    ASSUME TypeInv, TurnInv, TurnMayOutliveDeadline = FALSE,
           \/ \E ch \in Channels : ChannelRemoved(ch) \/ ChannelAdded(ch)
           \/ \E ch \in Channels, s \in CommandSignal : OwnerCommand(ch, s)
           \/ DispatchNothing
           \/ \E ch \in Channels : PoolExhausted(ch) \/ \E a \in Agents : DispatchBatch(ch, a)
           \/ \E a \in Agents : HandlePromptResult(a) \/ RecoverPanickedAgent(a)
           \/ DrainReadyJoinResults
           \/ HeartbeatTick \/ RefreshTick
           \/ Maintenance \/ MaintenanceNotDue \/ CollectRespawns
           \/ \E a \in Agents, ok \in BOOLEAN : RespawnEnds(a, ok)
           \/ Clock \/ Exited \/ UNCHANGED vars
    PROVE  \A e \in Events : Prompted(e)' => Prompted(e)
<1> DEFINE Shrinks == \A e \in Events : Prompted(e)' => Prompted(e)
<1>1. /\ q \in [Channels -> Channel] /\ \A ch \in Channels : Len(q[ch].pending) <= MaxPending
      /\ task \in [Agents -> Task]
  BY TypeFacts DEF TypeInv, TypeOK
<1>2. ExpireAll(q) = q
  BY TypeFacts, NothingExpires DEF TurnInv
<1>3. ASSUME NEW ch \in Channels, NEW c, q' = [q EXCEPT ![ch] = c],
             Flushable(c) \subseteq Flushable(q[ch]), UNCHANGED task
      PROVE  Shrinks
  <2>1. \A d \in Channels : Flushable(q'[d]) \subseteq Flushable(q[d])
    BY <1>1, <1>3
  <2>2. \A a \in Agents : TaskHeld(a)' = TaskHeld(a)
    BY <1>3 DEF TaskHeld
  <2> QED
    BY <2>1, <2>2 DEF Prompted
<1>4. ASSUME q' = q, \A a \in Agents : TaskHeld(a)' \subseteq TaskHeld(a) PROVE Shrinks
  BY <1>4 DEF Prompted
<1>5. ASSUME q' = q, UNCHANGED task PROVE Shrinks
  BY <1>4, <1>5 DEF TaskHeld
<1>6. BatchEvents(NoBatch) = {}
  BY DEF BatchEvents, NoBatch, Range
<1>7. ASSUME NEW ch \in Channels, ChannelRemoved(ch) PROVE Shrinks
  <2>1. q' = [q EXCEPT ![ch] = DrainChannel(q[ch])] /\ UNCHANGED task
    BY <1>1, <1>7 DEF ChannelRemoved
  <2> QED
    BY <1>3, <2>1, DrainRange
<1>8. ASSUME NEW ch \in Channels, NEW a \in Agents, DispatchBatch(ch, a) PROVE Shrinks
  <2>1. PICK b \in FlushBatches(q[ch]) : task' = [task EXCEPT ![a] = NewTask(ch, b)]
    BY <1>2, <1>8 DEF DispatchBatch
  <2>2. q' = [q EXCEPT ![ch] = Flushed(q[ch])]
    BY <1>1, <1>2, <1>8 DEF DispatchBatch
  <2>3. BatchOf(b) \subseteq Flushable(q[ch]) /\ Flushable(Flushed(q[ch])) \subseteq Flushable(q[ch])
    BY <1>1, FlushRange
  <2>4. \A d \in Channels : Flushable(q'[d]) \subseteq Flushable(q[d])
    BY <1>1, <2>2, <2>3
  <2>5. task'[a] = NewTask(ch, b) /\ NewTask(ch, b).batch = b
    BY <1>1, <2>1 DEF NewTask
  <2>6. TaskHeld(a)' \subseteq Flushable(q[ch])
    BY <2>3, <2>5 DEF TaskHeld, BatchEvents, BatchOf
  <2>7. \A x \in Agents \ {a} : task'[x] = task[x]
    BY <1>1, <2>1
  <2>8. \A x \in Agents \ {a} : TaskHeld(x)' = TaskHeld(x)
    BY <2>7 DEF TaskHeld
  <2> QED
    BY <2>4, <2>6, <2>8 DEF Prompted
<1>9. ASSUME NEW ch \in Channels, PoolExhausted(ch) PROVE Shrinks
  <2> DEFINE c == Flushed(q[ch])
  <2>1. PICK b \in FlushBatches(q[ch]) :
           q' = [q EXCEPT ![ch] = MarkComplete(RequeuePreserveTimestamps(c, b))]
    BY <1>2, <1>9 DEF PoolExhausted
  <2>2. /\ c \in Channel /\ b \in FlushBatch /\ b.events \in Seq(Events)
        /\ BatchOf(b) \subseteq Flushable(q[ch]) /\ Flushable(c) \subseteq Flushable(q[ch])
    BY <1>1, FlushedType, FlushBatchesType, FlushRange DEF FlushBatch
  <2> HIDE DEF c
  <2> DEFINE p == RequeuePreserveTimestamps(c, b)
  <2>3. p \in Channel /\ Flushable(p) \subseteq Flushable(q[ch])
    BY <2>2, PutBackType, PutBackRange DEF RequeuePreserveTimestamps, BatchOf
  <2>4. UNCHANGED task
    BY <1>9 DEF PoolExhausted
  <2> HIDE DEF p
  <2>5. Flushable(MarkComplete(p)) \subseteq Flushable(q[ch])
    BY <2>3, CompletionRange
  <2> QED
    BY <1>3, <2>1, <2>4, <2>5 DEF p
<1>10. ASSUME NEW a \in Agents, NEW t \in Task, EndTurn(t),
              task' = [task EXCEPT ![a] = NoTask], t.batch = task[a].batch,
              t.ret = TRUE /\ t.state \in {"Cancelled", "CancelDrainTimeout"}
                 => t.control \in Reason
       PROVE  Shrinks
  <2>1. /\ task'[a].batch = NoBatch
        /\ \A x \in Agents \ {a} : task'[x] = task[x]
    BY <1>1, <1>10 DEF NoTask, NewTask
  <2>2. TaskHeld(a)' = {} /\ \A x \in Agents \ {a} : TaskHeld(x)' = TaskHeld(x)
    BY <1>6, <2>1 DEF TaskHeld
  <2>3. CASE t.ch = NoChannel
    <3>1. q' = q
      BY <1>10, <2>3 DEF EndTurn
    <3> QED
      BY <1>4, <2>2, <3>1
  <2>4. CASE t.ch # NoChannel
    <3>1. t.ch \in Channels
      BY <2>4 DEF Task
    <3>2. Flushable(Completed(q[t.ch], t)) \subseteq Flushable(q[t.ch]) \cup TaskHeld(a)
      BY <1>1, <1>10, <3>1, CompletedRange DEF TaskHeld
    <3>3. q' = [q EXCEPT ![t.ch] = Completed(q[t.ch], t)]
      BY <1>10, <2>4 DEF EndTurn
    <3>4. \A d \in Channels : Flushable(q'[d]) \subseteq Flushable(q[d]) \cup TaskHeld(a)
      BY <1>1, <3>1, <3>2, <3>3
    <3> QED
      BY <2>2, <3>4 DEF Prompted
  <2> QED
    BY <2>3, <2>4
<1>11. ASSUME NEW a \in Agents, HandlePromptResult(a) PROVE Shrinks
  <2>1. EndTurn(task[a]) /\ task[a] \in Task /\ task[a] \in GoodTask
    BY <1>11, TypeFacts DEF HandlePromptResult
  <2>2. task' = [task EXCEPT ![a] = NoTask]
    BY <1>11, Zenon DEF HandlePromptResult
  <2> QED
    BY <1>10, <2>1, <2>2 DEF GoodTask
<1>12. ASSUME NEW a \in Agents, RecoverPanickedAgent(a) PROVE Shrinks
  <2> DEFINE t == [task[a] EXCEPT !.ret = (DedupMode = "Queue")]
  <2>1. task[a] \in Task /\ EndTurn(t) /\ task[a].state = "panicked"
    BY <1>12, TypeFacts DEF RecoverPanickedAgent
  <2>2. t \in Task /\ t.state = "panicked" /\ t.batch = task[a].batch
    BY <2>1 DEF Task
  <2>3. task' = [task EXCEPT ![a] = NoTask]
    BY <1>12, Zenon DEF RecoverPanickedAgent
  <2> HIDE DEF t
  <2> QED
    BY <1>10, <2>1, <2>2, <2>3
<1>13. CASE Maintenance
  <2> DEFINE c == [ch \in Channels |-> CompactExpiredState(q[ch])]
  <2>1. q' = ExpireAll(c) /\ UNCHANGED task
    BY <1>13 DEF Maintenance
  <2>2. \A ch \in Channels : /\ c[ch] \in Channel /\ Flushable(c[ch]) = Flushable(q[ch])
                             /\ c[ch].deadline # "elapsed" /\ c[ch].pending = q[ch].pending
    <3>1. \A ch \in Channels : c[ch] \in Channel /\ Flushable(c[ch]) = Flushable(q[ch])
      BY <1>1, CompactType, CompletionRange
    <3>2. \A ch \in Channels : c[ch].deadline = q[ch].deadline /\ c[ch].pending = q[ch].pending
      BY <1>1 DEF CompactExpiredState, Channel
    <3> QED
      BY <3>1, <3>2 DEF TurnInv
  <2>3. QueueOK(c)
    BY <1>1, <2>2 DEF QueueOK
  <2>4. q' = c
    BY <2>1, <2>2, <2>3, NothingExpires
  <2> HIDE DEF c
  <2>5. \A d \in Channels : Flushable(q'[d]) = Flushable(q[d])
    BY <2>2, <2>4
  <2>6. \A a \in Agents : TaskHeld(a)' = TaskHeld(a)
    BY <2>1 DEF TaskHeld
  <2> QED
    BY <2>5, <2>6 DEF Prompted
<1>14. ASSUME NEW ch \in Channels, RetryElapses(ch) \/ DeadlineElapses(ch) PROVE Shrinks
  <2> DEFINE c == [q[ch] EXCEPT !.retry = "elapsed"]
  <2>1. c.pending = q[ch].pending /\ c.cancelled = q[ch].cancelled
    BY <1>1 DEF Channel
  <2>2. q' = [q EXCEPT ![ch] = c] /\ UNCHANGED task
    BY <1>1, <1>14 DEF RetryElapses, DeadlineElapses
  <2> HIDE DEF c
  <2> QED
    BY <1>3, <2>1, <2>2 DEF Flushable
<1>15. ASSUME NEW ch \in Channels, NEW s \in CommandSignal, OwnerCommand(ch, s) PROVE Shrinks
  <2>1. q' = q /\ \A a \in Agents : task'[a].batch = task[a].batch
    BY <1>15, SignalKeeps DEF OwnerCommand
  <2> QED
    BY <1>4, <2>1 DEF TaskHeld
<1>16. CASE HeartbeatTick
  <2>1. q' = q
    BY <1>2, <1>16 DEF HeartbeatTick
  <2>2. CASE UNCHANGED task
    BY <1>5, <2>1, <2>2
  <2>3. ASSUME NEW a \in idle, task' = [task EXCEPT ![a] = NewTask(NoChannel, NoBatch)]
        PROVE  Shrinks
    <3>1. a \in Agents
      BY TypeParts DEF PoolTyped
    <3>2. task'[a].batch = NoBatch /\ \A x \in Agents \ {a} : task'[x] = task[x]
      BY <1>1, <2>3, <3>1 DEF NewTask
    <3>3. \A x \in Agents : TaskHeld(x)' \subseteq TaskHeld(x)
      BY <1>6, <3>2 DEF TaskHeld
    <3> QED
      BY <1>4, <2>1, <3>3
  <2> QED
    BY <1>16, <2>2, <2>3 DEF HeartbeatTick, DispatchHeartbeat
<1>17. CASE \/ \E ch \in Channels : ChannelAdded(ch)
            \/ DispatchNothing \/ DrainReadyJoinResults \/ RefreshTick
            \/ MaintenanceNotDue \/ CollectRespawns
            \/ \E a \in Agents, ok \in BOOLEAN : RespawnEnds(a, ok)
            \/ \E a \in Agents : CooldownElapses(a)
            \/ Exited \/ UNCHANGED vars
  <2>1. q' = q /\ UNCHANGED task
    BY <1>2, <1>17 DEF ChannelAdded, DispatchNothing, DrainReadyJoinResults, RefreshTick,
          MaintenanceNotDue, CollectRespawns, RespawnEnds, CooldownElapses, Exited, vars
  <2> QED
    BY <1>5, <2>1
<1> QED
  BY <1>7, <1>8, <1>9, <1>11, <1>12, <1>13, <1>14, <1>15, <1>16, <1>17 DEF Clock

(* Every step of the harness.                                              *)
LEMMA SteerStep ==
    ASSUME TypeInv, SlotExclusive, TurnInv, AwaitInv, SteerInv,
           TurnMayOutliveDeadline = FALSE, [Next]_vars
    PROVE  SteerInv'
<1>1. ASSUME NEW ch \in Channels, RelayEvent(ch) PROVE SteerInv'
  BY <1>1, SteerRelayStep
<1>2. ASSUME NEW m \in acks, HandleSteerAck(m) PROVE SteerInv'
  BY <1>2, SteerAckStep
<1>3. ASSUME NEW a \in Agents,
             \/ SteerTaken(a)
             \/ \E k \in Ack : SteerAnswered(a, k)
             \/ \E o \in Outcome, byControl \in BOOLEAN : TaskEnds(a, o, byControl)
             \/ TaskPanics(a)
      PROVE  SteerInv'
  BY <1>3, TaskMoves, SteerTaskStep
<1>4. CASE \/ \E ch \in Channels : ChannelRemoved(ch) \/ ChannelAdded(ch)
           \/ \E ch \in Channels, s \in CommandSignal : OwnerCommand(ch, s)
           \/ DispatchNothing
           \/ \E ch \in Channels : PoolExhausted(ch) \/ \E a \in Agents : DispatchBatch(ch, a)
           \/ \E a \in Agents : HandlePromptResult(a) \/ RecoverPanickedAgent(a)
           \/ DrainReadyJoinResults
           \/ HeartbeatTick \/ RefreshTick
           \/ Maintenance \/ MaintenanceNotDue \/ CollectRespawns
           \/ \E a \in Agents, ok \in BOOLEAN : RespawnEnds(a, ok)
           \/ Clock \/ Exited \/ UNCHANGED vars
  <2>0. PICK n : n = next
    OBVIOUS
  <2>1. SteersUnmoved /\ next' = n
    BY <1>4, <2>0, UnmovedSteps DEF AwaitInv
  <2>2. \A e \in Events : Prompted(e)' => Prompted(e)
    BY <1>4, PromptedShrinks
  <2> QED
    BY <2>0, <2>1, <2>2, SteerKept
<1>5. CASE MainLoop
  BY <1>1, <1>2, <1>4, <1>5 DEF MainLoop
<1>6. CASE Tasks
  BY <1>3, <1>4, <1>6 DEF Tasks
<1> QED
  BY <1>4, <1>5, <1>6 DEF Next

(* A steer that the agent accepted is never prompted as well: from the     *)
(* moment it is withheld until its ack is handled it is in no queue that   *)
(* flush_next reads and in no batch, however the turn's result, a crash or *)
(* the removal of the channel overtakes the ack. The deadline must outlast *)
(* the turn: an expiry under a live turn puts the withheld events back.    *)
THEOREM SteeredAreNeverPrompted ==
    ASSUME TurnMayOutliveDeadline = FALSE
    PROVE  Spec => []SteeredNeverPrompted
<1> DEFINE Inv == TypeInv /\ SlotExclusive /\ TurnInv /\ AwaitInv /\ SteerInv
<1>1. Init => Inv
  BY TypeInit, SlotInit, TurnInit, AwaitInit, SteerInit
<1>2. Inv /\ [Next]_vars => Inv'
  BY TypeStep, SlotStep, TurnStep, AwaitStep, SteerStep
<1>3. Inv => SteeredNeverPrompted
  BY DEF SteerInv, SteeredNeverPrompted, Prompted, Flushable, Busy
<1> QED
  BY <1>1, <1>2, <1>3, PTL DEF Spec

-----------------------------------------------------------------------------
(* Where the events are.                                                   *)

(* The events each channel holds.                                          *)
HeldIn(qq) == [ch \in Channels |-> Held(qq[ch])]

(* The events each task holds.                                             *)
TakenIn(tt) == [a \in Agents |-> BatchEvents(tt[a].batch)]

(* What is true of the places of the events, H[ch] the events a channel    *)
(* holds and T[a] the ones a task holds: none is in two, what is in one is *)
(* live and has arrived, and what is live and was never merged as          *)
(* cancelled_events is in one.                                             *)
Places(H, T, f, m, n) ==
    /\ \A c, d \in Channels : c # d => H[c] \cap H[d] = {}
    /\ \A a, b \in Agents : a # b => T[a] \cap T[b] = {}
    /\ \A c \in Channels, a \in Agents : H[c] \cap T[a] = {}
    /\ \A e \in Events : (\E c \in Channels : e \in H[c]) \/ (\E a \in Agents : e \in T[a])
                            => f[e] = "live"
    /\ \A e \in Events : f[e] # "unseen" => e < n
    /\ \A e \in Events : f[e] = "live" /\ e \notin m =>
          (\E c \in Channels : e \in H[c]) \/ (\E a \in Agents : e \in T[a])

(* Channels give up events, whose fates are settled.                       *)
LEMMA PlacesShrink ==
    ASSUME NEW H \in [Channels -> SUBSET Events], NEW T \in [Agents -> SUBSET Events],
           NEW f \in [Events -> Fate], NEW m, NEW n, Places(H, T, f, m, n),
           NEW L \in [Channels -> SUBSET Events], \A c \in Channels : L[c] \subseteq H[c],
           NEW why, why \notin {"live", "unseen"}
    PROVE  Places([c \in Channels |-> H[c] \ L[c]], T,
                  Settle(f, UNION {L[c] : c \in Channels}, why), m, n)
<1> DEFINE S == UNION {L[c] : c \in Channels}
           g == Settle(f, S, why)
           K == [c \in Channels |-> H[c] \ L[c]]
<1>1. \A e : e \in S <=> \E c \in Channels : e \in L[c]
  OBVIOUS
<1>2. \A e \in Events : g[e] = IF e \in S /\ f[e] = "live" THEN why ELSE f[e]
  BY DEF Settle
<1>3. \A c \in Channels : K[c] = H[c] \ L[c]
  OBVIOUS
<1> HIDE DEF S, g, K
<1>4. /\ \A c, d \in Channels : c # d => K[c] \cap K[d] = {}
      /\ \A a, b \in Agents : a # b => T[a] \cap T[b] = {}
      /\ \A c \in Channels, a \in Agents : K[c] \cap T[a] = {}
  BY <1>3 DEF Places
<1>5. ASSUME NEW e \in Events,
             (\E c \in Channels : e \in K[c]) \/ (\E a \in Agents : e \in T[a])
      PROVE  g[e] = "live"
  <2>1. f[e] = "live"
    BY <1>3, <1>5 DEF Places
  <2>2. e \notin S
    BY <1>1, <1>3, <1>5 DEF Places
  <2> QED
    BY <1>2, <2>1, <2>2
<1>6. ASSUME NEW e \in Events, g[e] # "unseen" PROVE e < n
  BY <1>2, <1>6 DEF Places
<1>7. ASSUME NEW e \in Events, g[e] = "live", e \notin m
      PROVE  (\E c \in Channels : e \in K[c]) \/ (\E a \in Agents : e \in T[a])
  <2>1. f[e] = "live" /\ e \notin S
    BY <1>2, <1>7
  <2>2. (\E c \in Channels : e \in H[c]) \/ (\E a \in Agents : e \in T[a])
    BY <1>7, <2>1 DEF Places
  <2> QED
    BY <1>1, <1>3, <2>1, <2>2
<1> QED
  BY <1>4, <1>5, <1>6, <1>7 DEF Places, S, g, K

(* An event arrives.                                                       *)
LEMMA PlacesArrive ==
    ASSUME NEW H \in [Channels -> SUBSET Events], NEW T \in [Agents -> SUBSET Events],
           NEW f \in [Events -> Fate], NEW m, NEW n \in Nat, n \in Events,
           Places(H, T, f, m, n),
           NEW ch \in Channels, NEW K \in [Channels -> SUBSET Events],
           K[ch] = H[ch] \cup {n}, \A c \in Channels \ {ch} : K[c] = H[c]
    PROVE  Places(K, T, [f EXCEPT ![n] = "live"], m, n + 1)
<1> DEFINE g == [f EXCEPT ![n] = "live"]
<1>1. g[n] = "live" /\ \A e \in Events : e # n => g[e] = f[e]
  OBVIOUS
<1>2. f[n] = "unseen" /\ \A e \in Events : e \in Nat
  BY QueueAssumption DEF Places
<1>3. (\A c \in Channels : n \notin H[c]) /\ (\A a \in Agents : n \notin T[a])
  BY <1>2 DEF Places
<1> HIDE DEF g
<1>4. /\ \A c, d \in Channels : c # d => K[c] \cap K[d] = {}
      /\ \A a, b \in Agents : a # b => T[a] \cap T[b] = {}
      /\ \A c \in Channels, a \in Agents : K[c] \cap T[a] = {}
  BY <1>3 DEF Places
<1>5. ASSUME NEW e \in Events,
             (\E c \in Channels : e \in K[c]) \/ (\E a \in Agents : e \in T[a])
      PROVE  g[e] = "live"
  BY <1>1, <1>5 DEF Places
<1>6. ASSUME NEW e \in Events, g[e] # "unseen" PROVE e < n + 1
  <2>1. CASE e = n
    BY <2>1
  <2>2. CASE e # n
    <3>1. e < n
      BY <1>1, <1>6, <2>2 DEF Places
    <3> QED
      BY <1>2, <3>1
  <2> QED
    BY <2>1, <2>2
<1>7. ASSUME NEW e \in Events, g[e] = "live", e \notin m
      PROVE  (\E c \in Channels : e \in K[c]) \/ (\E a \in Agents : e \in T[a])
  BY <1>1, <1>7 DEF Places
<1> QED
  BY <1>4, <1>5, <1>6, <1>7 DEF Places, g

(* An event that arrives and is dropped at once.                           *)
LEMMA PlacesDrop ==
    ASSUME NEW H \in [Channels -> SUBSET Events], NEW T \in [Agents -> SUBSET Events],
           NEW f \in [Events -> Fate], NEW m, NEW n \in Nat, n \in Events,
           Places(H, T, f, m, n)
    PROVE  Places(H, T, [f EXCEPT ![n] = "dropped"], m, n + 1)
<1> DEFINE g == [f EXCEPT ![n] = "dropped"]
<1>1. g[n] = "dropped" /\ \A e \in Events : e # n => g[e] = f[e]
  OBVIOUS
<1>2. f[n] = "unseen" /\ \A e \in Events : e \in Nat
  BY QueueAssumption DEF Places
<1>3. (\A c \in Channels : n \notin H[c]) /\ (\A a \in Agents : n \notin T[a])
  BY <1>2 DEF Places
<1> HIDE DEF g
<1>4. ASSUME NEW e \in Events, g[e] # "unseen" PROVE e < n + 1
  <2>1. CASE e = n
    BY <2>1
  <2>2. CASE e # n
    <3>1. e < n
      BY <1>1, <1>4, <2>2 DEF Places
    <3> QED
      BY <1>2, <3>1
  <2> QED
    BY <2>1, <2>2
<1>5. ASSUME NEW e \in Events,
             (\E c \in Channels : e \in H[c]) \/ (\E a \in Agents : e \in T[a])
      PROVE  g[e] = "live"
  BY <1>1, <1>3, <1>5 DEF Places
<1>6. ASSUME NEW e \in Events, g[e] = "live", e \notin m
      PROVE  (\E c \in Channels : e \in H[c]) \/ (\E a \in Agents : e \in T[a])
  BY <1>1, <1>6 DEF Places
<1> QED
  BY <1>4, <1>5, <1>6 DEF Places, g

(* Events move between a channel and a task; S is settled on the way, and  *)
(* what else goes missing was merged (k).                                  *)
Moved(H, T, K, U, ch, a, S, k) ==
    /\ \A c \in Channels \ {ch} : K[c] = H[c]
    /\ \A b \in Agents \ {a} : U[b] = T[b]
    /\ K[ch] \cap U[a] = {}
    /\ S \subseteq H[ch] \cup T[a]
    /\ S \cap (K[ch] \cup U[a]) = {}
    /\ K[ch] \cup U[a] \subseteq H[ch] \cup T[a]
    /\ H[ch] \cup T[a] \subseteq K[ch] \cup U[a] \cup S \cup k

(* A move of that kind keeps every event in its place.                     *)
LEMMA PlacesMove ==
    ASSUME NEW H \in [Channels -> SUBSET Events], NEW T \in [Agents -> SUBSET Events],
           NEW f \in [Events -> Fate], NEW m, NEW n, Places(H, T, f, m, n),
           NEW ch \in Channels, NEW a \in Agents,
           NEW K \in [Channels -> SUBSET Events], NEW U \in [Agents -> SUBSET Events],
           NEW k, m \subseteq k, NEW S, NEW why, why \notin {"live", "unseen"},
           Moved(H, T, K, U, ch, a, S, k)
    PROVE  Places(K, U, Settle(f, S, why), k, n)
<1> DEFINE g == Settle(f, S, why)
<1> USE DEF Moved
<1>1. \A e \in Events : g[e] = IF e \in S /\ f[e] = "live" THEN why ELSE f[e]
  BY DEF Settle
<1> HIDE DEF g
<1>2. /\ \A c, d \in Channels : c # d => K[c] \cap K[d] = {}
      /\ \A b, d \in Agents : b # d => U[b] \cap U[d] = {}
      /\ \A c \in Channels, b \in Agents : K[c] \cap U[b] = {}
  <2>1. \A c \in Channels \ {ch} : K[c] \cap (H[ch] \cup T[a]) = {}
    BY DEF Places
  <2>2. \A b \in Agents \ {a} : U[b] \cap (H[ch] \cup T[a]) = {}
    BY DEF Places
  <2>3. \A c, d \in Channels : c # d => K[c] \cap K[d] = {}
    BY <2>1 DEF Places
  <2>4. \A b, d \in Agents : b # d => U[b] \cap U[d] = {}
    BY <2>2 DEF Places
  <2>5. \A c \in Channels, b \in Agents : K[c] \cap U[b] = {}
    BY <2>1, <2>2 DEF Places
  <2> QED
    BY <2>3, <2>4, <2>5
<1>3. ASSUME NEW e \in Events,
             (\E c \in Channels : e \in K[c]) \/ (\E b \in Agents : e \in U[b])
      PROVE  g[e] = "live"
  <2>1. f[e] = "live"
    BY <1>3 DEF Places
  <2>2. e \notin S
    <3>1. \A c \in Channels \ {ch} : H[c] \cap (H[ch] \cup T[a]) = {}
      BY DEF Places
    <3>2. \A b \in Agents \ {a} : T[b] \cap (H[ch] \cup T[a]) = {}
      BY DEF Places
    <3> QED
      BY <1>3, <3>1, <3>2
  <2> QED
    BY <1>1, <2>1, <2>2
<1>4. ASSUME NEW e \in Events, g[e] # "unseen" PROVE e < n
  BY <1>1, <1>4 DEF Places
<1>5. ASSUME NEW e \in Events, g[e] = "live", e \notin k
      PROVE  (\E c \in Channels : e \in K[c]) \/ (\E b \in Agents : e \in U[b])
  <2>1. f[e] = "live" /\ e \notin S /\ e \notin m
    BY <1>1, <1>5
  <2>2. (\E c \in Channels : e \in H[c]) \/ (\E b \in Agents : e \in T[b])
    BY <2>1 DEF Places
  <2> QED
    BY <1>5, <2>1, <2>2
<1> QED
  BY <1>2, <1>3, <1>4, <1>5 DEF Places, g

(* The queues and the batches are in order, and every event has its place. *)
Kept(qq, tt, f, m, n) ==
    /\ \A ch \in Channels : Neat(qq[ch])
    /\ \A a \in Agents : NeatBatch(tt[a].batch) /\ Range(tt[a].batch.cancelled) \subseteq m
    /\ Places(HeldIn(qq), TakenIn(tt), f, m, n)

(* What makes NoDuplicateDelivery and UnmergedEventsKept inductive.        *)
PlaceInv ==
    /\ Kept(q, task, fate, merged, next)
    /\ \A a \in Agents : task[a].state = "none" \/ task[a].ch = NoChannel
                            => BatchEvents(task[a].batch) = {}

(* A channel holds events.                                                 *)
LEMMA HeldType ==
    ASSUME NEW c \in Channel
    PROVE  Held(c) \subseteq Events
<1>1. \A s \in Seq(Events) : Range(s) \subseteq Events
  <2> SUFFICES ASSUME NEW s \in Seq(Events) PROVE Range(s) \subseteq Events
    OBVIOUS
  <2>1. \A i \in 1 .. Len(s) : s[i] \in Events
    BY ElementOfSeq
  <2>2. DOMAIN s = 1 .. Len(s)
    OBVIOUS
  <2> QED
    BY <2>1, <2>2 DEF Range
<1> QED
  BY <1>1, ChannelFields DEF Held

(* So does a batch.                                                        *)
LEMMA BatchEventsType ==
    ASSUME NEW b \in FlushBatch
    PROVE  BatchEvents(b) \subseteq Events /\ Range(b.cancelled) \subseteq Events
<1>1. \A s \in Seq(Events) : Range(s) \subseteq Events
  <2> SUFFICES ASSUME NEW s \in Seq(Events) PROVE Range(s) \subseteq Events
    OBVIOUS
  <2>1. \A i \in 1 .. Len(s) : s[i] \in Events
    BY ElementOfSeq
  <2>2. DOMAIN s = 1 .. Len(s)
    OBVIOUS
  <2> QED
    BY <2>1, <2>2 DEF Range
<1> QED
  BY <1>1 DEF FlushBatch, BatchEvents

(* What the lemmas on places need to know of the types.                    *)
LEMMA PlaceTypes ==
    ASSUME NEW qq \in [Channels -> Channel], NEW tt \in [Agents -> Task]
    PROVE  /\ HeldIn(qq) \in [Channels -> SUBSET Events]
           /\ \A ch \in Channels : HeldIn(qq)[ch] = Held(qq[ch])
           /\ TakenIn(tt) \in [Agents -> SUBSET Events]
           /\ \A a \in Agents : TakenIn(tt)[a] = BatchEvents(tt[a].batch)
<1>1. \A ch \in Channels : Held(qq[ch]) \subseteq Events
  BY HeldType
<1>2. \A a \in Agents : BatchEvents(tt[a].batch) \subseteq Events
  <2>1. \A a \in Agents : tt[a].batch \in FlushBatch
    BY DEF Task
  <2> QED
    BY <2>1, BatchEventsType
<1> QED
  BY <1>1, <1>2 DEF HeldIn, TakenIn

(* Settling nothing changes nothing.                                       *)
LEMMA SettleNothing ==
    ASSUME NEW f \in [Events -> Fate], NEW why
    PROVE  Settle(f, {}, why) = f
BY DEF Settle

(* Channels give up what is settled.                                       *)
LEMMA KeptShrink ==
    ASSUME NEW qq \in [Channels -> Channel], NEW tt \in [Agents -> Task],
           NEW f \in [Events -> Fate], NEW m, NEW n, Kept(qq, tt, f, m, n),
           NEW rr \in [Channels -> Channel], NEW L \in [Channels -> SUBSET Events],
           \A c \in Channels : /\ Neat(rr[c]) /\ L[c] \subseteq Held(qq[c])
                               /\ Held(rr[c]) = Held(qq[c]) \ L[c],
           NEW why, why \notin {"live", "unseen"}
    PROVE  Kept(rr, tt, Settle(f, UNION {L[c] : c \in Channels}, why), m, n)
<1> DEFINE H == HeldIn(qq)
           T == TakenIn(tt)
<1>1. /\ H \in [Channels -> SUBSET Events] /\ T \in [Agents -> SUBSET Events]
      /\ \A c \in Channels : H[c] = Held(qq[c]) /\ L[c] \subseteq H[c]
  BY PlaceTypes
<1>2. HeldIn(rr) = [c \in Channels |-> H[c] \ L[c]]
  BY <1>1 DEF HeldIn
<1>3. Places(H, T, f, m, n)
  BY DEF Kept
<1> HIDE DEF H, T
<1>4. Places([c \in Channels |-> H[c] \ L[c]], T, Settle(f, UNION {L[c] : c \in Channels}, why), m, n)
  BY <1>1, <1>3, PlacesShrink
<1> QED
  BY <1>2, <1>4 DEF Kept, T

(* The expiry pass.                                                        *)
LEMMA KeptExpire ==
    ASSUME NEW qq \in [Channels -> Channel], NEW tt \in [Agents -> Task],
           \A ch \in Channels : Len(qq[ch].pending) <= MaxPending,
           NEW f \in [Events -> Fate], NEW m, NEW n, Kept(qq, tt, f, m, n)
    PROVE  Kept(ExpireAll(qq), tt, Settle(f, ExpireOverflow(qq), "overflow"), m, n)
<1> DEFINE L == [c \in Channels |-> ExpireLost(qq[c])]
           x == ExpireAll(qq)
<1>1. x \in [Channels -> Channel] /\ \A c \in Channels : x[c] = Expire(qq[c])
  BY ExpireAllType DEF QueueOK, ExpireAll
<1>2. \A c \in Channels : /\ Neat(x[c]) /\ ExpireLost(qq[c]) \subseteq Held(qq[c])
                          /\ Held(x[c]) = Held(qq[c]) \ ExpireLost(qq[c])
  BY <1>1, ExpireNeat DEF Kept
<1>3. L \in [Channels -> SUBSET Events]
  BY <1>2, HeldType
<1>4. \A c \in Channels : L[c] = ExpireLost(qq[c])
  OBVIOUS
<1>5. UNION {L[c] : c \in Channels} = ExpireOverflow(qq)
  BY <1>4 DEF ExpireLost, ExpireOverflow
<1> HIDE DEF L, x
<1>6. Kept(x, tt, Settle(f, UNION {L[c] : c \in Channels}, "overflow"), m, n)
  <2>1. PICK w : w = "overflow"
    OBVIOUS
  <2>2. w \notin {"live", "unseen"}
    BY <2>1
  <2>3. \A c \in Channels : /\ Neat(x[c]) /\ L[c] \subseteq Held(qq[c])
                            /\ Held(x[c]) = Held(qq[c]) \ L[c]
    BY <1>2, <1>4
  <2>4. x \in [Channels -> Channel]
    BY <1>1
  <2>5. Kept(x, tt, Settle(f, UNION {L[c] : c \in Channels}, w), m, n)
    BY <1>3, <2>2, <2>3, <2>4, KeptShrink
  <2> QED
    BY <2>1, <2>5
<1> QED
  BY <1>5, <1>6 DEF x

(* One channel gives up what is settled.                                   *)
LEMMA KeptChannel ==
    ASSUME NEW qq \in [Channels -> Channel], NEW tt \in [Agents -> Task],
           NEW f \in [Events -> Fate], NEW m, NEW n, Kept(qq, tt, f, m, n),
           NEW ch \in Channels, NEW c \in Channel, Neat(c),
           NEW S, S \subseteq Held(qq[ch]), Held(c) = Held(qq[ch]) \ S,
           NEW why, why \notin {"live", "unseen"}
    PROVE  Kept([qq EXCEPT ![ch] = c], tt, Settle(f, S, why), m, n)
<1> DEFINE L == [d \in Channels |-> IF d = ch THEN S ELSE {}]
           rr == [qq EXCEPT ![ch] = c]
<1>1. S \subseteq Events
  BY HeldType
<1>2. L \in [Channels -> SUBSET Events] /\ rr \in [Channels -> Channel]
  BY <1>1
<1>3. \A d \in Channels : /\ L[d] = (IF d = ch THEN S ELSE {})
                          /\ rr[d] = (IF d = ch THEN c ELSE qq[d])
  OBVIOUS
<1> HIDE DEF L, rr
<1>4. \A d \in Channels : /\ Neat(rr[d]) /\ L[d] \subseteq Held(qq[d])
                          /\ Held(rr[d]) = Held(qq[d]) \ L[d]
  BY <1>3 DEF Kept
<1>5. UNION {L[d] : d \in Channels} = S
  BY <1>3
<1>6. Kept(rr, tt, Settle(f, UNION {L[d] : d \in Channels}, why), m, n)
  BY <1>2, <1>4, KeptShrink
<1> QED
  BY <1>5, <1>6 DEF rr

(* Only the batches of the tasks matter.                                   *)
LEMMA KeptTasks ==
    ASSUME NEW qq, NEW tt, NEW uu, NEW f, NEW m, NEW n, Kept(qq, tt, f, m, n),
           \A a \in Agents : uu[a].batch = tt[a].batch
    PROVE  Kept(qq, uu, f, m, n)
<1>1. TakenIn(uu) = TakenIn(tt)
  BY DEF TakenIn
<1> QED
  BY <1>1 DEF Kept

(* An event that has not arrived is nowhere.                               *)
LEMMA KeptNew ==
    ASSUME NEW qq \in [Channels -> Channel], NEW tt \in [Agents -> Task],
           NEW f, NEW m, NEW n \in Nat, n \in Events, Kept(qq, tt, f, m, n)
    PROVE  \A ch \in Channels : n \notin Held(qq[ch])
<1>1. \A ch \in Channels : HeldIn(qq)[ch] = Held(qq[ch])
  BY DEF HeldIn
<1>2. ~(n < n)
  OBVIOUS
<1> QED
  BY <1>1, <1>2 DEF Kept, Places

(* push.                                                                   *)
LEMMA KeptArrive ==
    ASSUME NEW qq \in [Channels -> Channel], NEW tt \in [Agents -> Task],
           NEW f \in [Events -> Fate], NEW m, NEW n \in Nat, n \in Events,
           Kept(qq, tt, f, m, n), NEW ch \in Channels, NEW c \in Channel, Neat(c),
           NEW S, S \subseteq Held(qq[ch]), Held(c) = (Held(qq[ch]) \ S) \cup {n},
           NEW why \in Fate, why \notin {"live", "unseen"}
    PROVE  Kept([qq EXCEPT ![ch] = c], tt, [Settle(f, S, why) EXCEPT ![n] = "live"], m, n + 1)
<1> DEFINE H == HeldIn(qq)
           T == TakenIn(tt)
           L == [d \in Channels |-> IF d = ch THEN S ELSE {}]
           J == [d \in Channels |-> H[d] \ L[d]]
           rr == [qq EXCEPT ![ch] = c]
           K == HeldIn(rr)
           g == Settle(f, S, why)
<1>1. /\ H \in [Channels -> SUBSET Events] /\ T \in [Agents -> SUBSET Events]
      /\ \A d \in Channels : H[d] = Held(qq[d])
  BY PlaceTypes
<1>2. rr \in [Channels -> Channel] /\ \A d \in Channels : rr[d] = IF d = ch THEN c ELSE qq[d]
  OBVIOUS
<1> HIDE DEF rr
<1>3. K \in [Channels -> SUBSET Events] /\ \A d \in Channels : K[d] = Held(rr[d])
  BY <1>2, PlaceTypes
<1> HIDE DEF H, T, K
<1>4. L \in [Channels -> SUBSET Events] /\ \A d \in Channels : L[d] \subseteq H[d]
  BY <1>1
<1>5. \A d \in Channels : L[d] = IF d = ch THEN S ELSE {}
  OBVIOUS
<1>6. UNION {L[d] : d \in Channels} = S
  BY <1>5
<1>7. Places(H, T, f, m, n)
  BY DEF Kept, H, T
<1>8. J \in [Channels -> SUBSET Events] /\ \A d \in Channels : J[d] = H[d] \ L[d]
  BY <1>1
<1> HIDE DEF L
<1>9. Places(J, T, g, m, n)
  <2>1. Places(J, T, Settle(f, UNION {L[d] : d \in Channels}, why), m, n)
    BY <1>1, <1>4, <1>7, PlacesShrink
  <2> QED
    BY <1>6, <2>1
<1>10. g \in [Events -> Fate]
  BY SettleType
<1> HIDE DEF J, g
<1>11. K[ch] = J[ch] \cup {n}
  <2>1. K[ch] = Held(c) /\ J[ch] = H[ch] \ S /\ H[ch] = Held(qq[ch])
    BY <1>1, <1>2, <1>3, <1>5, <1>8, Zenon
  <2> QED
    BY <2>1
<1>12. ASSUME NEW d \in Channels \ {ch} PROVE K[d] = J[d]
  <2>1. K[d] = Held(qq[d]) /\ L[d] = {} /\ J[d] = H[d] \ L[d] /\ H[d] = Held(qq[d])
    BY <1>1, <1>2, <1>3, <1>5, <1>8
  <2> QED
    BY <2>1
<1>13. T \in [Agents -> SUBSET Events]
  BY <1>1
<1>14. K \in [Channels -> SUBSET Events] /\ J \in [Channels -> SUBSET Events]
  BY <1>3, <1>8
<1>15. Places(K, T, [g EXCEPT ![n] = "live"], m, n + 1)
  BY <1>9, <1>10, <1>11, <1>12, <1>13, <1>14, PlacesArrive
<1> QED
  BY <1>2, <1>15 DEF Kept, K, T, g, rr

(* A turn starts with what its channel gives up.                           *)
LEMMA KeptStart ==
    ASSUME NEW qq \in [Channels -> Channel], NEW tt \in [Agents -> Task],
           NEW f \in [Events -> Fate], NEW m, NEW n, Kept(qq, tt, f, m, n),
           NEW ch \in Channels, NEW a \in Agents, BatchEvents(tt[a].batch) = {},
           NEW c \in Channel, Neat(c), NEW b \in FlushBatch, NeatBatch(b),
           Held(c) \cup BatchOf(b) = Held(qq[ch]), Held(c) \cap BatchOf(b) = {}
    PROVE  Kept([qq EXCEPT ![ch] = c], [tt EXCEPT ![a] = NewTask(ch, b)], f,
                m \cup Range(b.cancelled), n)
<1> DEFINE H == HeldIn(qq)
           T == TakenIn(tt)
           rr == [qq EXCEPT ![ch] = c]
           uu == [tt EXCEPT ![a] = NewTask(ch, b)]
           K == HeldIn(rr)
           U == TakenIn(uu)
           k == m \cup Range(b.cancelled)
<1>1. /\ rr \in [Channels -> Channel] /\ \A d \in Channels : rr[d] = IF d = ch THEN c ELSE qq[d]
      /\ uu \in [Agents -> Task] /\ \A x \in Agents \ {a} : uu[x] = tt[x]
      /\ uu[a].batch = b
  <2>1. NewTask(ch, b) \in Task /\ NewTask(ch, b).batch = b
    BY NewTaskType DEF GoodTask, NewTask
  <2> QED
    BY <2>1
<1> HIDE DEF rr, uu
<1>2. /\ H \in [Channels -> SUBSET Events] /\ T \in [Agents -> SUBSET Events]
      /\ \A d \in Channels : H[d] = Held(qq[d])
      /\ \A x \in Agents : T[x] = BatchEvents(tt[x].batch)
      /\ K \in [Channels -> SUBSET Events] /\ U \in [Agents -> SUBSET Events]
      /\ \A d \in Channels : K[d] = Held(rr[d])
      /\ \A x \in Agents : U[x] = BatchEvents(uu[x].batch)
  BY <1>1, PlaceTypes
<1>3. Places(H, T, f, m, n)
  BY DEF Kept
<1> HIDE DEF H, T, K, U
<1>4. U[a] = BatchOf(b) /\ K[ch] = Held(c) /\ T[a] = {} /\ H[ch] = Held(qq[ch])
  BY <1>1, <1>2 DEF BatchOf, BatchEvents
<1>5. (\A d \in Channels \ {ch} : K[d] = H[d]) /\ (\A x \in Agents \ {a} : U[x] = T[x])
  BY <1>1, <1>2
<1>6. Moved(H, T, K, U, ch, a, {}, k) /\ m \subseteq k
  BY <1>4, <1>5 DEF Moved
<1> HIDE DEF k
<1>7. Places(K, U, Settle(f, {}, "overflow"), k, n)
  <2>1. "overflow" \notin {"live", "unseen"}
    OBVIOUS
  <2> QED
    BY <1>2, <1>3, <1>6, <2>1, PlacesMove
<1>8. Places(K, U, f, k, n)
  BY <1>7, SettleNothing
<1>9. \A d \in Channels : Neat(rr[d])
  BY <1>1 DEF Kept
<1>10. \A x \in Agents : NeatBatch(uu[x].batch) /\ Range(uu[x].batch.cancelled) \subseteq k
  BY <1>1 DEF Kept, k
<1> QED
  BY <1>8, <1>9, <1>10 DEF Kept, K, U, rr, uu, k

(* A turn ends, and its channel takes back what is not settled or merged.  *)
LEMMA KeptEnd ==
    ASSUME NEW qq \in [Channels -> Channel], NEW tt \in [Agents -> Task],
           NEW f \in [Events -> Fate], NEW m, NEW n, Kept(qq, tt, f, m, n),
           NEW ch \in Channels, NEW a \in Agents, NEW c \in Channel, Neat(c),
           NEW S, NEW why, why \notin {"live", "unseen"},
           LET all == Held(qq[ch]) \cup BatchEvents(tt[a].batch) IN
           /\ S \subseteq all /\ Held(c) \subseteq all \ S
           /\ all \subseteq Held(c) \cup S \cup m
    PROVE  Kept([qq EXCEPT ![ch] = c], [tt EXCEPT ![a] = NoTask], Settle(f, S, why), m, n)
<1> DEFINE H == HeldIn(qq)
           T == TakenIn(tt)
           rr == [qq EXCEPT ![ch] = c]
           uu == [tt EXCEPT ![a] = NoTask]
           K == HeldIn(rr)
           U == TakenIn(uu)
<1>1. /\ rr \in [Channels -> Channel] /\ \A d \in Channels : rr[d] = IF d = ch THEN c ELSE qq[d]
      /\ uu \in [Agents -> Task] /\ \A x \in Agents \ {a} : uu[x] = tt[x]
      /\ uu[a].batch = NoBatch
  <2>1. NoTask \in Task /\ NoTask.batch = NoBatch
    BY NoTaskType DEF GoodTask, NoTask, NewTask
  <2> QED
    BY <2>1
<1> HIDE DEF rr, uu
<1>2. /\ H \in [Channels -> SUBSET Events] /\ T \in [Agents -> SUBSET Events]
      /\ \A d \in Channels : H[d] = Held(qq[d])
      /\ \A x \in Agents : T[x] = BatchEvents(tt[x].batch)
      /\ K \in [Channels -> SUBSET Events] /\ U \in [Agents -> SUBSET Events]
      /\ \A d \in Channels : K[d] = Held(rr[d])
      /\ \A x \in Agents : U[x] = BatchEvents(uu[x].batch)
  BY <1>1, PlaceTypes
<1>3. Places(H, T, f, m, n)
  BY DEF Kept
<1>4. NeatBatch(NoBatch) /\ BatchEvents(NoBatch) = {} /\ Range(NoBatch.cancelled) = {}
  BY EmptyNeat DEF NeatBatch, NoBatch, BatchEvents, Apart
<1> HIDE DEF H, T, K, U
<1>5. U[a] = {} /\ K[ch] = Held(c) /\ T[a] = BatchEvents(tt[a].batch) /\ H[ch] = Held(qq[ch])
  BY <1>1, <1>2, <1>4
<1>6. (\A d \in Channels \ {ch} : K[d] = H[d]) /\ (\A x \in Agents \ {a} : U[x] = T[x])
  BY <1>1, <1>2
<1>7. Moved(H, T, K, U, ch, a, S, m) /\ m \subseteq m
  BY <1>5, <1>6 DEF Moved
<1>8. Places(K, U, Settle(f, S, why), m, n)
  BY <1>2, <1>3, <1>7, PlacesMove
<1>9. \A d \in Channels : Neat(rr[d])
  BY <1>1 DEF Kept
<1>10. \A x \in Agents : NeatBatch(uu[x].batch) /\ Range(uu[x].batch.cancelled) \subseteq m
  BY <1>1, <1>4 DEF Kept
<1> QED
  BY <1>8, <1>9, <1>10 DEF Kept, K, U, rr, uu

(* The result of a turn: what its channel takes back, what is settled, and *)
(* that nothing else goes missing but cancelled_events.                    *)
LEMMA ResultKept ==
    ASSUME NEW c \in Channel, Len(c.pending) <= MaxPending, NEW t \in Task,
           t.ret = TRUE /\ t.state \in {"Cancelled", "CancelDrainTimeout"}
              => t.control \in Reason,
           Neat(c), NeatBatch(t.batch), Held(c) \cap BatchEvents(t.batch) = {},
           fate \in [Events -> Fate]
    PROVE  LET d == Completed(c, t)
               all == Held(c) \cup BatchEvents(t.batch)
           IN  /\ Neat(d)
               /\ \E S, why : /\ ResultFate(c, t) = Settle(fate, S, why)
                              /\ why \notin {"live", "unseen"}
                              /\ S \subseteq all /\ Held(d) \subseteq all \ S
                              /\ all \subseteq Held(d) \cup S \cup Range(t.batch.cancelled)
<1> DEFINE x == AfterResult(c, t)
           d == Completed(c, t)
           B == BatchEvents(t.batch)
           all == Held(c) \cup B
           Good(S, why) == /\ ResultFate(c, t) = Settle(fate, S, why)
                           /\ why \notin {"live", "unseen"}
                           /\ S \subseteq all /\ Held(d) \subseteq all \ S
                           /\ all \subseteq Held(d) \cup S \cup Range(t.batch.cancelled)
<1>1. t.batch \in FlushBatch /\ t.ret \in BOOLEAN /\ Held(c) \cap BatchOf(t.batch) = {}
  BY DEF Task, BatchOf, BatchEvents
<1>2. B = Range(t.batch.events) \cup Range(t.batch.cancelled)
  BY DEF BatchEvents
<1>3. ASSUME x \in Channel, Neat(x) PROVE Neat(d) /\ Held(d) = Held(x)
  BY <1>3, BookkeepingNeat DEF Completed
<1> HIDE DEF d
<1>4. ASSUME x = c, NEW why, why \notin {"live", "unseen"},
             ResultFate(c, t) = Settle(fate, B, why)
      PROVE  Neat(d) /\ \E S, w : Good(S, w)
  <2>1. Neat(d) /\ Held(d) = Held(c)
    BY <1>3, <1>4
  <2>2. Good(B, why)
    BY <1>4, <2>1
  <2> QED
    BY <2>1, <2>2
<1>5. CASE ~t.ret
  <2>1. x = c
    BY <1>5 DEF AfterResult
  <2>2. PICK w : /\ w = (IF t.state = "Ok" THEN "processed"
                         ELSE IF t.control = "Cancel" THEN "stopped" ELSE "dropped")
    OBVIOUS
  <2>3. w \notin {"live", "unseen"}
    BY <2>2
  <2>4. ResultFate(c, t) = Settle(fate, B, w)
    BY <1>5, <2>2 DEF ResultFate
  <2> HIDE DEF x, B
  <2> QED
    BY <1>4, <2>1, <2>3, <2>4 DEF d, B
<1>6. CASE t.ret /\ t.ch \in removed_channels
  <2>1. x = c
    BY <1>6 DEF AfterResult
  <2>2. PICK w : w = "removed"
    OBVIOUS
  <2>3. w \notin {"live", "unseen"} /\ ResultFate(c, t) = Settle(fate, B, w)
    BY <1>6, <2>2 DEF ResultFate
  <2> HIDE DEF x, B
  <2> QED
    BY <1>4, <2>1, <2>3 DEF d, B
<1>7. CASE t.ret /\ t.ch \notin removed_channels
  <2>1. CASE t.state \in {"Cancelled", "CancelDrainTimeout"}
    <3>1. x = RequeueAsCancelled(c, t.batch, t.control)
      BY <1>7, <2>1 DEF AfterResult
    <3>2. x \in Channel
      BY <1>1, <1>7, <2>1, <3>1, RequeueAsCancelledType
    <3>3. Neat(x) /\ Held(x) = Held(c) \cup BatchOf(t.batch)
      BY <1>1, <3>1, RequeueAsCancelledNeat
    <3>4. Held(x) = all
      BY <3>3 DEF BatchOf, BatchEvents
    <3> HIDE DEF x
    <3>5. Neat(d) /\ Held(d) = all
      BY <1>3, <3>2, <3>3, <3>4
    <3>6. ResultFate(c, t) = fate
      BY <1>7, <2>1 DEF ResultFate
    <3>7. PICK w : w = "removed"
      OBVIOUS
    <3>8. ResultFate(c, t) = Settle(fate, {}, w) /\ w \notin {"live", "unseen"}
      BY <3>6, <3>7, SettleNothing
    <3>9. Good({}, w)
      BY <3>5, <3>8
    <3> QED
      BY <3>5, <3>9 DEF d
  <2>2. CASE t.state \in {"HardSilent", "NonRetryable"}
    <3>1. x = c
      BY <1>7, <2>2 DEF AfterResult
    <3>2. PICK w : w = "deadLettered"
      OBVIOUS
    <3>3. w \notin {"live", "unseen"} /\ ResultFate(c, t) = Settle(fate, B, w)
      BY <1>7, <2>2, <3>2 DEF ResultFate
    <3> HIDE DEF x, B
    <3> QED
      BY <1>4, <3>1, <3>3 DEF d, B
  <2>3. CASE t.state \notin {"Cancelled", "CancelDrainTimeout", "HardSilent", "NonRetryable"}
    <3>1. x = Requeue(c, t.batch)
      BY <1>7, <2>3 DEF AfterResult
    <3>2. x \in Channel
      BY <1>1, <3>1, RequeueType
    <3> DEFINE lost == PutBackOverflow(c, t.batch.events)
    <3>3. /\ Neat(x)
          /\ Exhausted(c) => Held(x) = Held(c)
          /\ ~Exhausted(c) =>
                /\ Held(x) = (Held(c) \cup Range(t.batch.events)) \ lost
                /\ lost \subseteq Held(c) \cup Range(t.batch.events)
      BY <1>1, <3>1, RequeueNeat
    <3> HIDE DEF x, lost
    <3>4. Neat(d) /\ Held(d) = Held(x)
      BY <1>3, <3>2, <3>3
    <3>5. CASE Exhausted(c)
      <4>1. PICK w : w = "deadLettered"
        OBVIOUS
      <4>2. w \notin {"live", "unseen"} /\ ResultFate(c, t) = Settle(fate, B, w)
        BY <1>7, <2>3, <3>5, <4>1 DEF ResultFate
      <4>3. Good(B, w)
        BY <3>3, <3>4, <3>5, <4>2
      <4> QED
        BY <3>4, <4>3 DEF d
    <3>6. CASE ~Exhausted(c)
      <4>1. PICK w : w = "overflow"
        OBVIOUS
      <4>2. w \notin {"live", "unseen"} /\ ResultFate(c, t) = Settle(fate, lost, w)
        BY <1>7, <2>3, <3>6, <4>1 DEF ResultFate, lost
      <4>3. Held(d) = (Held(c) \cup Range(t.batch.events)) \ lost
            /\ lost \subseteq Held(c) \cup Range(t.batch.events)
        BY <3>3, <3>4, <3>6
      <4>4. lost \subseteq all /\ Held(d) \subseteq all \ lost
            /\ all \subseteq Held(d) \cup lost \cup Range(t.batch.cancelled)
        BY <1>2, <4>3
      <4>5. Good(lost, w)
        BY <4>2, <4>4
      <4> QED
        BY <3>4, <4>5 DEF d
    <3> QED
      BY <3>5, <3>6
  <2> QED
    BY <2>1, <2>2, <2>3
<1> QED
  BY <1>1, <1>5, <1>6, <1>7

(* What every step below needs of the state.                               *)
LEMMA PlaceFacts ==
    ASSUME TypeInv
    PROVE  /\ q \in [Channels -> Channel] /\ task \in [Agents -> Task]
           /\ \A ch \in Channels : Len(q[ch].pending) <= MaxPending
           /\ fate \in [Events -> Fate] /\ next \in Nat
BY TypeFacts DEF TypeInv, TypeOK

(* The arrival of an event changes no batch, and starts and ends no task.  *)
LEMMA RelayTasks ==
    ASSUME TypeInv, NEW ch \in Channels, RelayEvent(ch)
    PROVE  \A a \in Agents : /\ task'[a].batch = task[a].batch
                             /\ task'[a].state = task[a].state
                             /\ task'[a].ch = task[a].ch
<1>1. task \in [Agents -> Task]
  BY PlaceFacts
<1>2. CASE UNCHANGED task
  BY <1>2
<1>3. ASSUME NEW a \in On(ch), task' = [task EXCEPT ![a].buf = next]
      PROVE  \A x \in Agents : /\ task'[x].batch = task[x].batch
                               /\ task'[x].state = task[x].state
                               /\ task'[x].ch = task[x].ch
  BY <1>1, <1>3 DEF Task
<1>4. ASSUME NEW s, SignalInFlightTask(ch, s)
      PROVE  \A x \in Agents : /\ task'[x].batch = task[x].batch
                               /\ task'[x].state = task[x].state
                               /\ task'[x].ch = task[x].ch
  BY <1>4, SignalKeeps
<1>5. \/ UNCHANGED task
      \/ \E a \in On(ch) : task' = [task EXCEPT ![a].buf = next]
      \/ \E s \in ModeGateSignal \ {"none"} : SignalInFlightTask(ch, s)
  BY DEF RelayEvent
<1> QED
  BY <1>2, <1>3, <1>4, <1>5

(* An event comes in, and is queued, withheld or dropped.                  *)
LEMMA PlaceRelayStep ==
    ASSUME TypeInv, PlaceInv, NEW ch \in Channels, RelayEvent(ch)
    PROVE  PlaceInv'
<1> DEFINE c == q[ch]
           n == next
           pushed == Push(c, n)
           held == MarkNativeSteerPending(pushed, n)
           lost == PushOverflow(c)
<1>1. /\ q \in [Channels -> Channel] /\ task \in [Agents -> Task] /\ c \in Channel
      /\ Len(c.pending) <= MaxPending /\ fate \in [Events -> Fate] /\ n \in Nat /\ n \in Events
      /\ Kept(q, task, fate, merged, n) /\ Neat(c)
  BY PlaceFacts DEF RelayEvent, PlaceInv, Kept
<1>2. n' = n + 1 /\ merged' = merged
  BY DEF RelayEvent
<1>3. \A a \in Agents : /\ task'[a].batch = task[a].batch /\ task'[a].state = task[a].state
                        /\ task'[a].ch = task[a].ch
  BY RelayTasks
<1>4. Kept(q', task, fate', merged, n + 1)
  <2>1. CASE Accepts(c)
    <3>1. n \notin Held(c)
      BY <1>1, KeptNew
    <3>2. /\ Neat(pushed) /\ Held(pushed) = (Held(c) \ lost) \cup {n} /\ lost \subseteq Held(c)
          /\ pushed \in Channel /\ Len(pushed.pending) <= MaxPending
      BY <1>1, <3>1, PushNeat, PushType
    <3>3. held \in Channel /\ Neat(held) /\ Held(held) = Held(pushed)
      BY <1>1, <3>2, SteerNeat, SteerTypes
    <3>4. PICK d : q' = [q EXCEPT ![ch] = d] /\ d \in {pushed, held}
      BY <2>1 DEF RelayEvent
    <3>5. d \in Channel /\ Neat(d) /\ Held(d) = (Held(c) \ lost) \cup {n}
      BY <3>2, <3>3, <3>4
    <3>6. PICK w : w = "overflow"
      OBVIOUS
    <3>7. w \in Fate /\ w \notin {"live", "unseen"}
      BY <3>6 DEF Fate
    <3>8. fate' = [Settle(fate, lost, w) EXCEPT ![n] = "live"]
      BY <2>1, <3>6 DEF RelayEvent
    <3>9. lost \subseteq Held(q[ch]) /\ Held(d) = (Held(q[ch]) \ lost) \cup {n}
      BY <3>2, <3>5
    <3> HIDE DEF lost, pushed, held, c, n
    <3>10. Kept([q EXCEPT ![ch] = d], task, [Settle(fate, lost, w) EXCEPT ![n] = "live"],
                merged, n + 1)
      BY <1>1, <3>5, <3>7, <3>9, KeptArrive
    <3> QED
      BY <3>4, <3>8, <3>10
  <2>2. CASE ~Accepts(c)
    <3>1. fate' = [fate EXCEPT ![n] = "dropped"] /\ q' = q
      BY <2>2 DEF RelayEvent
    <3> HIDE DEF n
    <3>2. Places(HeldIn(q), TakenIn(task), [fate EXCEPT ![n] = "dropped"], merged, n + 1)
      BY <1>1, PlaceTypes, PlacesDrop DEF Kept
    <3> QED
      BY <1>1, <3>1, <3>2 DEF Kept
  <2> QED
    BY <2>1, <2>2
<1>5. Kept(q', task', fate', merged', next')
  BY <1>2, <1>3, <1>4, KeptTasks
<1> QED
  BY <1>3, <1>5 DEF PlaceInv

(* The ack of a steer.                                                     *)
LEMMA PlaceAckStep ==
    ASSUME TypeInv, PlaceInv, NEW m \in acks, HandleSteerAck(m)
    PROVE  PlaceInv'
<1> DEFINE c == q[m.ch]
           e == m.ev
           x == RemoveEvent(ExtendInFlightDeadline(c), e)
           y == ReleaseNativeSteer(c, e)
           steered == {e} \cap (Range(c.pending) \cup Range(c.withheld))
           lost == IF e \in Range(c.withheld) THEN PutBackOverflow(c, <<e>>) ELSE {}
<1>1. /\ q \in [Channels -> Channel] /\ task \in [Agents -> Task] /\ fate \in [Events -> Fate]
      /\ m.ch \in Channels /\ e \in Events /\ c \in Channel /\ Len(c.pending) <= MaxPending
      /\ Kept(q, task, fate, merged, next) /\ Neat(c)
  <2>1. m.ch \in Channels /\ e \in Events
    BY TypeParts DEF LoopTyped
  <2> QED
    BY <2>1, PlaceFacts DEF PlaceInv, Kept
<1>2. \A a \in Agents : /\ task'[a].batch = task[a].batch /\ task'[a].state = task[a].state
                        /\ task'[a].ch = task[a].ch
  <2>1. UNCHANGED task \/ SignalInFlightTask(m.ch, "Steer")
    BY DEF HandleSteerAck
  <2> QED
    BY <2>1, SignalKeeps
<1>3. Kept(q', task, fate', merged, next)
  <2>1. CASE m.ack = "Success"
    <3>1. Neat(x) /\ Held(x) = Held(c) \ steered /\ steered \subseteq Held(c)
      BY <1>1, RemoveNeat DEF Held
    <3>2. x \in Channel
      BY <1>1, ExtendType, SteerTypes
    <3>3. PICK w : w = "steered"
      OBVIOUS
    <3>4. w \notin {"live", "unseen"} /\ q' = [q EXCEPT ![m.ch] = x]
          /\ fate' = Settle(fate, steered, w)
      BY <2>1, <3>3 DEF HandleSteerAck
    <3>5. steered \subseteq Held(q[m.ch]) /\ Held(x) = Held(q[m.ch]) \ steered
      BY <3>1
    <3> HIDE DEF x, steered, c
    <3> QED
      BY <1>1, <3>1, <3>2, <3>4, <3>5, KeptChannel
  <2>2. CASE m.ack # "Success"
    <3>1. Neat(y) /\ Held(y) = Held(c) \ lost /\ lost \subseteq Held(c)
      BY <1>1, ReleaseNeat
    <3>2. y \in Channel
      BY <1>1, SteerTypes
    <3>3. PICK w : w = "overflow"
      OBVIOUS
    <3>4. w \notin {"live", "unseen"} /\ q' = [q EXCEPT ![m.ch] = y]
          /\ fate' = Settle(fate, lost, w)
      BY <2>2, <3>3 DEF HandleSteerAck
    <3>5. lost \subseteq Held(q[m.ch]) /\ Held(y) = Held(q[m.ch]) \ lost
      BY <3>1
    <3> HIDE DEF y, lost, c
    <3> QED
      BY <1>1, <3>1, <3>2, <3>4, <3>5, KeptChannel
  <2> QED
    BY <2>1, <2>2
<1>4. merged' = merged /\ next' = next
  BY DEF HandleSteerAck
<1>5. Kept(q', task', fate', merged', next')
  BY <1>2, <1>3, <1>4, KeptTasks
<1> QED
  BY <1>2, <1>5 DEF PlaceInv

(* Settling two sets one after the other.                                  *)
LEMMA SettleTwice ==
    ASSUME NEW f \in [Events -> Fate], NEW S, NEW R, NEW why
    PROVE  Settle(Settle(f, S, why), R, why) = Settle(f, S \cup R, why)
<1> DEFINE g == Settle(f, S, why)
           h == Settle(f, S \cup R, why)
<1>1. \A e \in Events : g[e] = IF e \in S /\ f[e] = "live" THEN why ELSE f[e]
  BY DEF Settle
<1>2. h = [e \in Events |-> IF e \in S \cup R /\ f[e] = "live" THEN why ELSE f[e]]
  BY DEF Settle
<1>3. Settle(g, R, why) = [e \in Events |-> IF e \in R /\ g[e] = "live" THEN why ELSE g[e]]
  BY DEF Settle
<1> HIDE DEF g, h
<1>4. \A e \in Events : (IF e \in R /\ g[e] = "live" THEN why ELSE g[e])
                        = (IF e \in S \cup R /\ f[e] = "live" THEN why ELSE f[e])
  BY <1>1
<1>5. Settle(g, R, why) = h
  BY <1>2, <1>3, <1>4
<1> QED
  BY <1>5 DEF g, h

(* A channel loses events that were merged, and settles others.            *)
LEMMA KeptForget ==
    ASSUME NEW qq \in [Channels -> Channel], NEW tt \in [Agents -> Task],
           NEW f \in [Events -> Fate], NEW m, NEW n, Kept(qq, tt, f, m, n),
           NEW ch \in Channels, NEW d \in Channel, Neat(d),
           NEW S, S \subseteq Held(qq[ch]), NEW k, m \subseteq k,
           Held(d) \subseteq Held(qq[ch]) \ S, Held(qq[ch]) \ S \subseteq Held(d) \cup k,
           NEW why, why \notin {"live", "unseen"}
    PROVE  Kept([qq EXCEPT ![ch] = d], tt, Settle(f, S, why), k, n)
<1> DEFINE H == HeldIn(qq)
           T == TakenIn(tt)
           rr == [qq EXCEPT ![ch] = d]
           K == HeldIn(rr)
           g == Settle(f, S, why)
<1>1. rr \in [Channels -> Channel] /\ \A c \in Channels : rr[c] = IF c = ch THEN d ELSE qq[c]
  OBVIOUS
<1> HIDE DEF rr
<1>2. /\ \A c \in Channels : H[c] = Held(qq[c]) /\ K[c] = Held(rr[c])
      /\ Places(H, T, f, m, n)
  BY DEF HeldIn, Kept
<1> HIDE DEF H, T, K
<1>3. (\A c \in Channels \ {ch} : K[c] = H[c]) /\ K[ch] \subseteq H[ch] \ S
      /\ H[ch] \ S \subseteq K[ch] \cup k /\ S \subseteq H[ch]
  BY <1>1, <1>2
<1>4. \A e \in Events : g[e] = IF e \in S /\ f[e] = "live" THEN why ELSE f[e]
  BY DEF Settle
<1> HIDE DEF g
<1>5. /\ \A c, b \in Channels : c # b => K[c] \cap K[b] = {}
      /\ \A a, b \in Agents : a # b => T[a] \cap T[b] = {}
      /\ \A c \in Channels, a \in Agents : K[c] \cap T[a] = {}
  <2>1. \A c \in Channels : K[c] \subseteq H[c]
    BY <1>3
  <2> QED
    BY <1>2, <2>1 DEF Places
<1>6. ASSUME NEW e \in Events,
             (\E c \in Channels : e \in K[c]) \/ (\E a \in Agents : e \in T[a])
      PROVE  g[e] = "live"
  <2>1. f[e] = "live"
    BY <1>2, <1>3, <1>6 DEF Places
  <2>2. e \notin S
    BY <1>2, <1>3, <1>6 DEF Places
  <2> QED
    BY <1>4, <2>1, <2>2
<1>7. ASSUME NEW e \in Events, g[e] # "unseen" PROVE e < n
  BY <1>2, <1>4, <1>7 DEF Places
<1>8. ASSUME NEW e \in Events, g[e] = "live", e \notin k
      PROVE  (\E c \in Channels : e \in K[c]) \/ (\E a \in Agents : e \in T[a])
  <2>1. f[e] = "live" /\ e \notin S /\ e \notin m
    BY <1>4, <1>8
  <2>2. (\E c \in Channels : e \in H[c]) \/ (\E a \in Agents : e \in T[a])
    BY <1>2, <2>1 DEF Places
  <2> QED
    BY <1>3, <1>8, <2>1, <2>2
<1>9. Places(K, T, g, k, n)
  BY <1>5, <1>6, <1>7, <1>8 DEF Places
<1>10. \A c \in Channels : Neat(rr[c])
  BY <1>1 DEF Kept
<1>11. \A a \in Agents : NeatBatch(tt[a].batch) /\ Range(tt[a].batch.cancelled) \subseteq k
  BY DEF Kept
<1> QED
  BY <1>9, <1>10, <1>11 DEF Kept, K, T, g, rr

(* An entry without events is replaced by another.                         *)
LEMMA KeptEmpty ==
    ASSUME NEW qq, NEW tt \in [Agents -> Task], NEW f, NEW m, NEW n, Kept(qq, tt, f, m, n),
           NEW a \in Agents, BatchEvents(tt[a].batch) = {}, NEW u, u.batch = NoBatch
    PROVE  Kept(qq, [tt EXCEPT ![a] = u], f, m, n)
<1> DEFINE uu == [tt EXCEPT ![a] = u]
<1>1. uu[a] = u /\ \A x \in Agents \ {a} : uu[x] = tt[x]
  OBVIOUS
<1> HIDE DEF uu
<1>2. NeatBatch(NoBatch) /\ BatchEvents(NoBatch) = {} /\ Range(NoBatch.cancelled) = {}
  BY EmptyNeat DEF NeatBatch, NoBatch, BatchEvents, Apart
<1>3. \A x \in Agents : BatchEvents(uu[x].batch) = BatchEvents(tt[x].batch)
  BY <1>1, <1>2
<1>4. TakenIn(uu) = TakenIn(tt)
  BY <1>3 DEF TakenIn
<1>5. \A x \in Agents : NeatBatch(uu[x].batch) /\ Range(uu[x].batch.cancelled) \subseteq m
  BY <1>1, <1>2 DEF Kept
<1> QED
  BY <1>4, <1>5 DEF Kept, uu

(* The expiry pass, which dispatch_pending, the heartbeat and maintenance  *)
(* begin with.                                                             *)
LEMMA PlaceExpired ==
    ASSUME TypeInv, PlaceInv
    PROVE  LET x == ExpireAll(q)
               g == Settle(fate, ExpireOverflow(q), "overflow")
           IN  /\ Kept(x, task, g, merged, next)
               /\ x \in [Channels -> Channel] /\ g \in [Events -> Fate]
               /\ \A ch \in Channels : Len(x[ch].pending) <= MaxPending /\ Neat(x[ch])
<1> DEFINE x == ExpireAll(q)
           g == Settle(fate, ExpireOverflow(q), "overflow")
<1>1. Kept(x, task, g, merged, next)
  BY PlaceFacts, KeptExpire DEF PlaceInv
<1>2. QueueOK(x)
  BY TypeFacts, ExpireAllType
<1>3. g \in [Events -> Fate]
  <2>1. "overflow" \in Fate
    BY DEF Fate
  <2> QED
    BY <2>1, PlaceFacts, SettleType
<1> QED
  BY <1>1, <1>2, <1>3 DEF QueueOK, Kept

(* A dispatch moves a batch from its channel to a task, after the expiry   *)
(* pass of flush_next.                                                     *)
LEMMA PlaceDispatchStep ==
    ASSUME TypeInv, SlotExclusive, PlaceInv, NEW ch \in Channels, NEW a \in Agents,
           DispatchBatch(ch, a)
    PROVE  PlaceInv'
<1> DEFINE x == ExpireAll(q)
           g == Settle(fate, ExpireOverflow(q), "overflow")
           c == Flushed(x[ch])
<1>1. /\ Kept(x, task, g, merged, next) /\ x \in [Channels -> Channel] /\ g \in [Events -> Fate]
      /\ \A d \in Channels : Len(x[d].pending) <= MaxPending /\ Neat(x[d])
  BY PlaceExpired
<1>2. PICK b \in FlushBatches(x[ch]) : /\ task' = [task EXCEPT ![a] = NewTask(ch, b)]
                                       /\ merged' = merged \cup Range(b.cancelled)
  BY DEF DispatchBatch
<1>3. q' = [x EXCEPT ![ch] = c] /\ fate' = g /\ next' = next /\ a \in idle
  BY DEF DispatchBatch
<1> HIDE DEF g, x
<1>4. c \in Channel /\ b \in FlushBatch
  BY <1>1, FlushedType, FlushBatchesType
<1>5. /\ NeatBatch(b) /\ Neat(c)
      /\ Held(c) \cup BatchOf(b) = Held(x[ch]) /\ Held(c) \cap BatchOf(b) = {}
  BY <1>1, FlushNeat
<1> HIDE DEF c
<1>6. BatchEvents(task[a].batch) = {}
  BY <1>3 DEF SlotExclusive, Busy, PlaceInv
<1>7. task \in [Agents -> Task]
  BY PlaceFacts
<1>8. Kept([x EXCEPT ![ch] = c], [task EXCEPT ![a] = NewTask(ch, b)], g,
           merged \cup Range(b.cancelled), next)
  BY <1>1, <1>4, <1>5, <1>6, <1>7, KeptStart
<1>9. Kept(q', task', fate', merged', next')
  BY <1>2, <1>3, <1>8
<1>10. \A y \in Agents : task'[y].state = "none" \/ task'[y].ch = NoChannel
                            => BatchEvents(task'[y].batch) = {}
  <2>1. task'[a] = NewTask(ch, b) /\ \A y \in Agents \ {a} : task'[y] = task[y]
    BY <1>2, <1>7
  <2>2. NewTask(ch, b).state = "running" /\ NewTask(ch, b).ch = ch /\ ch # NoChannel
    BY HarnessAssumption DEF NewTask
  <2> QED
    BY <2>1, <2>2 DEF PlaceInv
<1> QED
  BY <1>9, <1>10 DEF PlaceInv

(* A dispatch that finds no idle agent puts the batch back.                *)
LEMMA PlaceExhaustedStep ==
    ASSUME TypeInv, PlaceInv, NEW ch \in Channels, PoolExhausted(ch)
    PROVE  PlaceInv'
<1> DEFINE x == ExpireAll(q)
           g == Settle(fate, ExpireOverflow(q), "overflow")
           c == Flushed(x[ch])
<1>1. /\ Kept(x, task, g, merged, next) /\ x \in [Channels -> Channel] /\ g \in [Events -> Fate]
      /\ \A d \in Channels : Len(x[d].pending) <= MaxPending /\ Neat(x[d])
  BY PlaceExpired
<1>2. PICK b \in FlushBatches(x[ch]) :
         /\ q' = [x EXCEPT ![ch] = MarkComplete(RequeuePreserveTimestamps(c, b))]
         /\ merged' = merged \cup Range(b.cancelled)
         /\ fate' = Settle(fate, ExpireOverflow(q) \cup PutBackOverflow(c, b.events), "overflow")
  BY DEF PoolExhausted
<1>3. next' = next /\ task' = task
  BY DEF PoolExhausted
<1>4. c \in Channel /\ b \in FlushBatch /\ b.events \in Seq(Events)
  <2> HIDE DEF x
  <2> QED
    BY <1>1, FlushedType, FlushBatchesType DEF FlushBatch
<1>5. /\ NeatBatch(b) /\ Neat(c)
      /\ Held(c) \cup BatchOf(b) = Held(x[ch]) /\ Held(c) \cap BatchOf(b) = {}
  <2> HIDE DEF x
  <2> QED
    BY <1>1, FlushNeat
<1> DEFINE lost == PutBackOverflow(c, b.events)
           p == RequeuePreserveTimestamps(c, b)
           d == MarkComplete(p)
           k == merged \cup Range(b.cancelled)
<1>6. fate' = Settle(g, lost, "overflow")
  BY PlaceFacts, <1>2, SettleTwice
<1> HIDE DEF g, x, c
<1>7. /\ p \in Channel /\ Neat(p) /\ Held(p) = (Held(c) \cup Range(b.events)) \ lost
      /\ lost \subseteq Held(c) \cup Range(b.events)
  <2>1. IsInjective(b.events) /\ Range(b.events) \cap Held(c) = {}
    BY <1>5 DEF NeatBatch, BatchOf
  <2> QED
    BY <1>4, <1>5, <2>1, PutBackNeat, PutBackType DEF RequeuePreserveTimestamps
<1> HIDE DEF p, lost
<1>8. d \in Channel /\ Neat(d) /\ Held(d) = (Held(c) \cup Range(b.events)) \ lost
  BY <1>7, BookkeepingNeat, MarkCompleteType
<1> HIDE DEF d
<1>9. /\ lost \subseteq Held(x[ch]) /\ Held(d) \subseteq Held(x[ch]) \ lost
      /\ Held(x[ch]) \ lost \subseteq Held(d) \cup k /\ merged \subseteq k
  BY <1>5, <1>7, <1>8 DEF BatchOf
<1> HIDE DEF k
<1>10. task \in [Agents -> Task]
  BY PlaceFacts
<1>11. PICK w : w = "overflow"
  OBVIOUS
<1>12. w \notin {"live", "unseen"}
  BY <1>11
<1>13. Kept([x EXCEPT ![ch] = d], task, Settle(g, lost, w), k, next)
  BY <1>1, <1>8, <1>9, <1>10, <1>12, KeptForget
<1>14. Kept(q', task', fate', merged', next')
  BY <1>2, <1>3, <1>6, <1>11, <1>13 DEF d, p, k
<1> QED
  BY <1>3, <1>14 DEF PlaceInv

(* The end of a turn, by result or by panic.                               *)
LEMMA PlaceEndStep ==
    ASSUME TypeInv, PlaceInv, NEW a \in Agents, NEW t \in Task, EndTurn(t),
           t.batch = task[a].batch, t.ch = task[a].ch,
           t.ret = TRUE /\ t.state \in {"Cancelled", "CancelDrainTimeout"}
              => t.control \in Reason,
           task' = [task EXCEPT ![a] = NoTask], merged' = merged, next' = next
    PROVE  PlaceInv'
<1>1. /\ q \in [Channels -> Channel] /\ task \in [Agents -> Task] /\ fate \in [Events -> Fate]
      /\ \A ch \in Channels : Len(q[ch].pending) <= MaxPending
      /\ Kept(q, task, fate, merged, next)
  BY PlaceFacts DEF PlaceInv
<1>2. NoTask.batch = NoBatch /\ BatchEvents(NoBatch) = {}
  BY EmptyNeat DEF NoTask, NewTask, NoBatch, BatchEvents
<1>3. Kept(q', task', fate', merged', next')
  <2>1. CASE t.ch = NoChannel
    <3>1. q' = q /\ fate' = fate
      BY <2>1 DEF EndTurn
    <3>2. BatchEvents(task[a].batch) = {}
      BY <2>1 DEF PlaceInv
    <3> QED
      BY <1>1, <1>2, <3>1, <3>2, KeptEmpty
  <2>2. CASE t.ch # NoChannel
    <3> DEFINE ch == t.ch
               c == q[ch]
               d == Completed(c, t)
               B == BatchEvents(task[a].batch)
    <3>1. ch \in Channels /\ c \in Channel /\ Len(c.pending) <= MaxPending
      BY <1>1, <2>2 DEF Task
    <3>2. q' = [q EXCEPT ![ch] = d] /\ fate' = ResultFate(c, t)
      BY <2>2 DEF EndTurn
    <3>3. Neat(c) /\ NeatBatch(t.batch) /\ Range(t.batch.cancelled) \subseteq merged
      BY <1>1, <3>1 DEF Kept
    <3>4. Held(c) \cap B = {}
      BY <1>1, <3>1, PlaceTypes DEF Kept, Places
    <3>5. d \in Channel
      BY <3>1, CompletedType
    <3>6. /\ Neat(d)
          /\ \E S, why : /\ ResultFate(c, t) = Settle(fate, S, why)
                         /\ why \notin {"live", "unseen"}
                         /\ S \subseteq Held(c) \cup B /\ Held(d) \subseteq (Held(c) \cup B) \ S
                         /\ Held(c) \cup B \subseteq Held(d) \cup S \cup Range(t.batch.cancelled)
      BY <1>1, <3>1, <3>3, <3>4, ResultKept
    <3>7. PICK S, why : /\ ResultFate(c, t) = Settle(fate, S, why)
                        /\ why \notin {"live", "unseen"}
                        /\ S \subseteq Held(c) \cup B /\ Held(d) \subseteq (Held(c) \cup B) \ S
                        /\ Held(c) \cup B \subseteq Held(d) \cup S \cup Range(t.batch.cancelled)
      BY <3>6
    <3>8. LET all == Held(q[ch]) \cup BatchEvents(task[a].batch) IN
          /\ S \subseteq all /\ Held(d) \subseteq all \ S
          /\ all \subseteq Held(d) \cup S \cup merged
      BY <3>3, <3>7
    <3>9. Neat(d)
      BY <3>6
    <3> HIDE DEF d
    <3>10. Kept([q EXCEPT ![ch] = d], [task EXCEPT ![a] = NoTask], Settle(fate, S, why),
                merged, next)
      BY <1>1, <3>1, <3>5, <3>7, <3>8, <3>9, KeptEnd
    <3> QED
      BY <3>2, <3>7, <3>10
  <2> QED
    BY <2>1, <2>2
<1>4. \A y \in Agents : task'[y].state = "none" \/ task'[y].ch = NoChannel
                           => BatchEvents(task'[y].batch) = {}
  <2>1. task'[a] = NoTask /\ \A y \in Agents \ {a} : task'[y] = task[y]
    BY <1>1
  <2> QED
    BY <1>2, <2>1 DEF PlaceInv
<1> QED
  BY <1>3, <1>4 DEF PlaceInv

(* Nothing has arrived at the start.                                       *)
LEMMA PlaceInit == Init => PlaceInv
<1> SUFFICES ASSUME Init PROVE PlaceInv
  OBVIOUS
<1>1. /\ \A ch \in Channels : q[ch] = EmptyChannel
      /\ \A a \in Agents : task[a] = NoTask
      /\ fate = [e \in Events |-> "unseen"]
  BY DEF Init
<1>2. Held(EmptyChannel) = {} /\ Neat(EmptyChannel)
  BY EmptyNeat DEF Held, Neat, EmptyChannel, Apart
<1>3. /\ NoTask.batch = NoBatch /\ NeatBatch(NoBatch) /\ BatchEvents(NoBatch) = {}
      /\ Range(NoBatch.cancelled) = {}
  BY EmptyNeat DEF NoTask, NewTask, NeatBatch, NoBatch, BatchEvents, Apart
<1>4. /\ \A ch \in Channels : HeldIn(q)[ch] = {}
      /\ \A a \in Agents : TakenIn(task)[a] = {}
  BY <1>1, <1>2, <1>3 DEF HeldIn, TakenIn
<1>5. Places(HeldIn(q), TakenIn(task), fate, merged, next)
  BY <1>1, <1>4 DEF Places
<1> QED
  BY <1>1, <1>2, <1>3, <1>5 DEF PlaceInv, Kept

(* A step that leaves the batches, the fates and what the channels hold    *)
(* as they are.                                                            *)
LEMMA PlaceUnmoved ==
    ASSUME TypeInv, PlaceInv, fate' = fate, merged' = merged, next' = next,
           \A ch \in Channels : Held(q'[ch]) = Held(q[ch]) /\ (Neat(q[ch]) => Neat(q'[ch])),
           \A a \in Agents : /\ task'[a].batch = task[a].batch
                             /\ task'[a].ch = task[a].ch
                             /\ task'[a].state = "none" => task[a].state = "none"
    PROVE  PlaceInv'
<1>1. HeldIn(q') = HeldIn(q) /\ TakenIn(task') = TakenIn(task)
  BY DEF HeldIn, TakenIn
<1>2. Kept(q', task', fate', merged', next')
  BY <1>1 DEF PlaceInv, Kept
<1> QED
  BY <1>2 DEF PlaceInv

(* The removal of a channel settles all that it holds.                     *)
LEMMA PlaceRemovedStep ==
    ASSUME TypeInv, PlaceInv, NEW ch \in Channels, ChannelRemoved(ch)
    PROVE  PlaceInv'
<1>1. /\ q \in [Channels -> Channel] /\ task \in [Agents -> Task] /\ fate \in [Events -> Fate]
      /\ Kept(q, task, fate, merged, next)
  BY PlaceFacts DEF PlaceInv
<1> DEFINE d == DrainChannel(q[ch])
           S == Held(q[ch])
<1>2. d \in Channel /\ Neat(d) /\ Held(d) = Held(q[ch]) \ S /\ S \subseteq Held(q[ch])
  BY <1>1, DrainChannelType, BookkeepingNeat
<1>3. PICK w : w = "removed"
  OBVIOUS
<1>4. /\ w \notin {"live", "unseen"} /\ q' = [q EXCEPT ![ch] = d] /\ fate' = Settle(fate, S, w)
      /\ task' = task /\ merged' = merged /\ next' = next
  BY <1>1, <1>3 DEF ChannelRemoved
<1> HIDE DEF d, S
<1>5. Kept([q EXCEPT ![ch] = d], task, Settle(fate, S, w), merged, next)
  BY <1>1, <1>2, <1>4, KeptChannel
<1>6. Kept(q', task', fate', merged', next')
  BY <1>4, <1>5
<1> QED
  BY <1>4, <1>6 DEF PlaceInv

(* A heartbeat turn holds no event; its tick runs the expiry pass.         *)
LEMMA PlaceHeartbeatStep ==
    ASSUME TypeInv, SlotExclusive, PlaceInv, HeartbeatTick
    PROVE  PlaceInv'
<1> DEFINE x == ExpireAll(q)
           g == Settle(fate, ExpireOverflow(q), "overflow")
<1>1. Kept(x, task, g, merged, next) /\ task \in [Agents -> Task]
  BY PlaceExpired, PlaceFacts
<1>2. q' = x /\ fate' = g /\ merged' = merged /\ next' = next
  BY DEF HeartbeatTick
<1> HIDE DEF x, g
<1>3. CASE UNCHANGED task
  <2>1. Kept(q', task', fate', merged', next')
    BY <1>1, <1>2, <1>3
  <2> QED
    BY <1>3, <2>1 DEF PlaceInv
<1>4. ASSUME NEW a \in idle, task' = [task EXCEPT ![a] = NewTask(NoChannel, NoBatch)]
      PROVE  PlaceInv'
  <2> DEFINE u == NewTask(NoChannel, NoBatch)
  <2>1. a \in Agents
    BY TypeParts DEF PoolTyped
  <2>2. BatchEvents(task[a].batch) = {}
    BY <2>1 DEF SlotExclusive, Busy, PlaceInv
  <2>3. u.batch = NoBatch /\ BatchEvents(NoBatch) = {}
    BY EmptyNeat DEF NewTask, NoBatch, BatchEvents
  <2> HIDE DEF u
  <2>4. Kept(x, [task EXCEPT ![a] = u], g, merged, next)
    BY <1>1, <2>1, <2>2, <2>3, KeptEmpty
  <2>5. task' = [task EXCEPT ![a] = u]
    BY <1>4 DEF u
  <2>6. Kept(q', task', fate', merged', next')
    BY <1>2, <2>4, <2>5
  <2>7. \A y \in Agents : task'[y].state = "none" \/ task'[y].ch = NoChannel
                             => BatchEvents(task'[y].batch) = {}
    <3>1. task'[a] = u /\ \A y \in Agents \ {a} : task'[y] = task[y]
      BY <1>1, <2>1, <2>5
    <3> QED
      BY <2>3, <3>1 DEF PlaceInv
  <2> QED
    BY <2>6, <2>7 DEF PlaceInv
<1> QED
  BY <1>3, <1>4 DEF HeartbeatTick, DispatchHeartbeat

(* The maintenance tick forgets elapsed backoffs and runs the expiry pass. *)
LEMMA PlaceMaintenanceStep ==
    ASSUME TypeInv, PlaceInv, Maintenance
    PROVE  PlaceInv'
<1> DEFINE c == [ch \in Channels |-> CompactExpiredState(q[ch])]
<1>1. /\ q \in [Channels -> Channel] /\ task \in [Agents -> Task] /\ fate \in [Events -> Fate]
      /\ \A ch \in Channels : Len(q[ch].pending) <= MaxPending
      /\ Kept(q, task, fate, merged, next)
  BY PlaceFacts DEF PlaceInv
<1>2. /\ c \in [Channels -> Channel] /\ \A ch \in Channels : Len(c[ch].pending) <= MaxPending
      /\ \A ch \in Channels : /\ Held(c[ch]) = Held(q[ch]) /\ Neat(c[ch])
                              /\ ExpireLost(c[ch]) = ExpireLost(q[ch])
  <2>1. \A ch \in Channels : c[ch] = CompactExpiredState(q[ch])
    OBVIOUS
  <2>2. \A ch \in Channels : CompactExpiredState(q[ch]) \in Channel
                             /\ CompactExpiredState(q[ch]).pending = q[ch].pending
    BY <1>1, CompactType DEF CompactExpiredState, Channel
  <2>3. \A ch \in Channels : /\ Held(CompactExpiredState(q[ch])) = Held(q[ch])
                             /\ Neat(CompactExpiredState(q[ch]))
                             /\ ExpireLost(CompactExpiredState(q[ch])) = ExpireLost(q[ch])
    BY <1>1, BookkeepingNeat DEF Kept
  <2> QED
    BY <1>1, <2>1, <2>2, <2>3
<1>3. q' = ExpireAll(c) /\ fate' = Settle(fate, ExpireOverflow(q), "overflow")
      /\ task' = task /\ merged' = merged /\ next' = next
  BY DEF Maintenance
<1> HIDE DEF c
<1>4. ExpireOverflow(c) = ExpireOverflow(q)
  <2>1. \A r : ExpireOverflow(r) = UNION {ExpireLost(r[ch]) : ch \in Channels}
    BY DEF ExpireOverflow, ExpireLost
  <2>2. \A e : (\E ch \in Channels : e \in ExpireLost(c[ch]))
               <=> (\E ch \in Channels : e \in ExpireLost(q[ch]))
    BY <1>2
  <2> QED
    BY <2>1, <2>2
<1>5. HeldIn(c) = HeldIn(q)
  BY <1>2 DEF HeldIn
<1>6. Kept(c, task, fate, merged, next)
  BY <1>1, <1>2, <1>5 DEF Kept
<1>7. Kept(ExpireAll(c), task, Settle(fate, ExpireOverflow(c), "overflow"), merged, next)
  BY <1>1, <1>2, <1>6, KeptExpire
<1>8. Kept(q', task', fate', merged', next')
  BY <1>3, <1>4, <1>7
<1> QED
  BY <1>3, <1>8 DEF PlaceInv

(* None of these steps ends the task for the main loop.                    *)
LEMMA TaskStays ==
    ASSUME TypeInv, NEW a \in Agents,
           \/ SteerTaken(a)
           \/ \E k \in Ack : SteerAnswered(a, k)
           \/ \E o \in Outcome, byControl \in BOOLEAN : TaskEnds(a, o, byControl)
           \/ TaskPanics(a)
    PROVE  task'[a].state # "none"
<1>1. task[a] \in Task /\ task \in [Agents -> Task]
  BY DEF TypeInv, TypeOK
<1>2. CASE SteerTaken(a)
  <2>1. /\ task[a].state = "running"
        /\ \/ task' = [task EXCEPT ![a].pend = task[a].buf, ![a].buf = NoEvent]
           \/ task' = [task EXCEPT ![a].buf = NoEvent]
    BY <1>2 DEF SteerTaken
  <2> QED
    BY <1>1, <2>1 DEF Task
<1>3. ASSUME NEW k \in Ack, SteerAnswered(a, k) PROVE task'[a].state # "none"
  <2>1. task[a].state = "running" /\ task' = [task EXCEPT ![a].pend = NoEvent]
    BY <1>3 DEF SteerAnswered
  <2> QED
    BY <1>1, <2>1 DEF Task
<1>4. ASSUME NEW o \in Outcome, NEW byControl \in BOOLEAN, TaskEnds(a, o, byControl)
      PROVE  task'[a].state # "none"
  <2>1. PICK r : task' = [task EXCEPT ![a].state = o, ![a].ret = r,
                                      ![a].buf = NoEvent, ![a].pend = NoEvent]
    BY <1>4, Zenon DEF TaskEnds
  <2>2. task'[a].state = o
    BY <1>1, <2>1 DEF Task
  <2> QED
    BY <2>2 DEF Outcome
<1>5. CASE TaskPanics(a)
  <2>1. task' = [task EXCEPT ![a].state = "panicked", ![a].buf = NoEvent, ![a].pend = NoEvent]
    BY <1>5 DEF TaskPanics
  <2> QED
    BY <1>1, <2>1 DEF Task
<1> QED
  BY <1>2, <1>3, <1>4, <1>5

(* Every step of the harness.                                              *)
LEMMA PlaceStep ==
    ASSUME TypeInv, SlotExclusive, PlaceInv, [Next]_vars
    PROVE  PlaceInv'
<1>1. q \in [Channels -> Channel] /\ task \in [Agents -> Task]
  BY PlaceFacts
<1>2. ASSUME NEW ch \in Channels, RelayEvent(ch) PROVE PlaceInv'
  BY <1>2, PlaceRelayStep
<1>3. ASSUME NEW m \in acks, HandleSteerAck(m) PROVE PlaceInv'
  BY <1>3, PlaceAckStep
<1>4. ASSUME NEW ch \in Channels, ChannelRemoved(ch) PROVE PlaceInv'
  BY <1>4, PlaceRemovedStep
<1>5. ASSUME NEW ch \in Channels, NEW a \in Agents, DispatchBatch(ch, a) PROVE PlaceInv'
  BY <1>5, PlaceDispatchStep
<1>6. ASSUME NEW ch \in Channels, PoolExhausted(ch) PROVE PlaceInv'
  BY <1>6, PlaceExhaustedStep
<1>7. CASE DispatchNothing
  <2>1. /\ q' = ExpireAll(q) /\ fate' = Settle(fate, ExpireOverflow(q), "overflow")
        /\ task' = task /\ merged' = merged /\ next' = next
    BY <1>7 DEF DispatchNothing
  <2>2. Kept(ExpireAll(q), task, Settle(fate, ExpireOverflow(q), "overflow"), merged, next)
    BY PlaceExpired
  <2>3. Kept(q', task', fate', merged', next')
    BY <2>1, <2>2
  <2> QED
    BY <2>1, <2>3 DEF PlaceInv
<1>8. ASSUME NEW a \in Agents, HandlePromptResult(a) PROVE PlaceInv'
  <2>1. /\ EndTurn(task[a]) /\ task[a] \in Task /\ task[a] \in GoodTask
        /\ merged' = merged /\ next' = next
    BY <1>8, TypeFacts DEF HandlePromptResult
  <2>2. task' = [task EXCEPT ![a] = NoTask]
    BY <1>8, Zenon DEF HandlePromptResult
  <2> QED
    BY <2>1, <2>2, PlaceEndStep DEF GoodTask
<1>9. ASSUME NEW a \in Agents, RecoverPanickedAgent(a) PROVE PlaceInv'
  <2> DEFINE t == [task[a] EXCEPT !.ret = (DedupMode = "Queue")]
  <2>1. /\ task[a] \in Task /\ EndTurn(t) /\ task[a].state = "panicked"
        /\ merged' = merged /\ next' = next
    BY <1>9, TypeFacts DEF RecoverPanickedAgent
  <2>2. t \in Task /\ t.state = "panicked" /\ t.batch = task[a].batch /\ t.ch = task[a].ch
    BY <2>1 DEF Task
  <2>3. task' = [task EXCEPT ![a] = NoTask]
    BY <1>9, Zenon DEF RecoverPanickedAgent
  <2> HIDE DEF t
  <2> QED
    BY <2>1, <2>2, <2>3, PlaceEndStep
<1>10. CASE HeartbeatTick
  BY <1>10, PlaceHeartbeatStep
<1>11. CASE Maintenance
  BY <1>11, PlaceMaintenanceStep
<1>12. ASSUME NEW ch \in Channels, RetryElapses(ch) \/ DeadlineElapses(ch) PROVE PlaceInv'
  <2>1. PICK c : /\ q' = [q EXCEPT ![ch] = c] /\ c.pending = q[ch].pending
                 /\ c.cancelled = q[ch].cancelled /\ c.withheld = q[ch].withheld
    <3> DEFINE r == [q[ch] EXCEPT !.retry = "elapsed"]
               d == [q[ch] EXCEPT !.deadline = "elapsed"]
    <3>1. /\ r.pending = q[ch].pending /\ r.cancelled = q[ch].cancelled
          /\ r.withheld = q[ch].withheld
          /\ d.pending = q[ch].pending /\ d.cancelled = q[ch].cancelled
          /\ d.withheld = q[ch].withheld
      BY <1>1 DEF Channel
    <3>2. q' \in {[q EXCEPT ![ch] = r], [q EXCEPT ![ch] = d]}
      BY <1>1, <1>12 DEF RetryElapses, DeadlineElapses
    <3> HIDE DEF r, d
    <3> QED
      BY <3>1, <3>2
  <2>2. Held(c) = Held(q[ch]) /\ (Neat(q[ch]) => Neat(c))
    BY <2>1, NeatSame
  <2>3. \A d \in Channels : Held(q'[d]) = Held(q[d]) /\ (Neat(q[d]) => Neat(q'[d]))
    BY <1>1, <2>1, <2>2
  <2>4. task' = task /\ fate' = fate /\ merged' = merged /\ next' = next
    BY <1>12 DEF RetryElapses, DeadlineElapses, history
  <2> QED
    BY <2>3, <2>4, PlaceUnmoved
<1>13. ASSUME NEW ch \in Channels, NEW s \in CommandSignal, OwnerCommand(ch, s) PROVE PlaceInv'
  <2>1. q' = q /\ fate' = fate /\ merged' = merged /\ next' = next
    BY <1>13 DEF OwnerCommand
  <2>2. \A a \in Agents : /\ task'[a].batch = task[a].batch /\ task'[a].ch = task[a].ch
                          /\ task'[a].state = task[a].state
    BY <1>13, SignalKeeps DEF OwnerCommand
  <2> QED
    BY <2>1, <2>2, PlaceUnmoved
<1>14. ASSUME NEW a \in Agents,
              \/ SteerTaken(a)
              \/ \E k \in Ack : SteerAnswered(a, k)
              \/ \E o \in Outcome, byControl \in BOOLEAN : TaskEnds(a, o, byControl)
              \/ TaskPanics(a)
       PROVE  PlaceInv'
  <2>1. TaskSteers(a)
    BY <1>14, TaskMoves
  <2>2. fate' = fate /\ merged' = merged /\ next' = next /\ q' = q
    BY <1>14 DEF SteerTaken, SteerAnswered, TaskEnds, TaskPanics, history
  <2>3. task'[a].state # "none"
    BY <1>14, TaskStays
  <2> QED
    BY <2>1, <2>2, <2>3, PlaceUnmoved DEF TaskSteers
<1>15. CASE \/ \E ch \in Channels : ChannelAdded(ch)
            \/ DrainReadyJoinResults \/ RefreshTick \/ MaintenanceNotDue \/ CollectRespawns
            \/ \E a \in Agents, ok \in BOOLEAN : RespawnEnds(a, ok)
            \/ \E a \in Agents : CooldownElapses(a)
            \/ Exited \/ UNCHANGED vars
  <2>1. q' = q /\ task' = task /\ fate' = fate /\ merged' = merged /\ next' = next
    BY <1>15 DEF ChannelAdded, DrainReadyJoinResults, RefreshTick, MaintenanceNotDue,
          CollectRespawns, RespawnEnds, CooldownElapses, Exited, vars, history
  <2> QED
    BY <2>1, PlaceUnmoved
<1>16. CASE MainLoop
  BY <1>2, <1>3, <1>4, <1>5, <1>6, <1>7, <1>8, <1>9, <1>10, <1>11, <1>13, <1>15, <1>16
     DEF MainLoop
<1>17. CASE Tasks
  BY <1>14, <1>15, <1>17 DEF Tasks
<1>18. CASE Clock
  BY <1>12, <1>15, <1>18 DEF Clock
<1> QED
  BY <1>15, <1>16, <1>17, <1>18 DEF Next

(* Whatever happens to it, an event is in one place at most, and in none   *)
(* once its fate is settled: no interleaving of requeues, cancelled turns, *)
(* steers, expiries and panics delivers it twice.                          *)
THEOREM NothingIsDeliveredTwice == Spec => []NoDuplicateDelivery
<1>1. Init => TypeInv /\ SlotExclusive /\ PlaceInv
  BY TypeInit, SlotInit, PlaceInit
<1>2. TypeInv /\ SlotExclusive /\ PlaceInv /\ [Next]_vars
         => (TypeInv /\ SlotExclusive /\ PlaceInv)'
  BY TypeStep, SlotStep, PlaceStep
<1>3. TypeInv /\ PlaceInv => NoDuplicateDelivery
  <2> SUFFICES ASSUME TypeInv, PlaceInv PROVE NoDuplicateDelivery
    OBVIOUS
  <2>1. /\ \A ch \in Channels : HeldIn(q)[ch] = Held(q[ch])
        /\ \A a \in Agents : TakenIn(task)[a] = TaskHeld(a)
    BY DEF HeldIn, TakenIn, TaskHeld
  <2>2. Places(HeldIn(q), TakenIn(task), fate, merged, next)
    BY DEF PlaceInv, Kept
  <2>3. Busy \subseteq Agents
    BY DEF Busy
  <2>4. /\ \A ch, d \in Channels : ch # d => Held(q[ch]) \cap Held(q[d]) = {}
        /\ \A a, b \in Busy : a # b => TaskHeld(a) \cap TaskHeld(b) = {}
        /\ \A ch \in Channels, a \in Busy : Held(q[ch]) \cap TaskHeld(a) = {}
    BY <2>1, <2>2, <2>3 DEF Places
  <2>5. \A e \in Events : Placed(e) => fate[e] = "live"
    BY <2>1, <2>2, <2>3 DEF Places, Placed
  <2>6. ASSUME NEW ch \in Channels
        PROVE  /\ Range(q[ch].pending) \cap Range(q[ch].withheld) = {}
               /\ Range(q[ch].pending) \cap Range(q[ch].cancelled) = {}
               /\ Cardinality(Range(q[ch].pending)) = Len(q[ch].pending)
    <3>1. Neat(q[ch]) /\ q[ch].pending \in Seq(Events)
      BY PlaceFacts, ChannelFields DEF PlaceInv, Kept
    <3>2. IsInjective(q[ch].pending)
      BY <3>1 DEF Neat
    <3> QED
      BY <3>1, <3>2, InjectiveLength DEF Neat, Apart
  <2> QED
    BY <2>4, <2>5, <2>6 DEF NoDuplicateDelivery
<1> QED
  BY <1>1, <1>2, <1>3, PTL DEF Spec

(* An accepted event is never dropped on the floor: as long as its fate is *)
(* open it waits in a queue or sits in the batch of a task, unless it was  *)
(* once merged as cancelled_events.                                        *)
THEOREM UnmergedAreAlwaysKept == Spec => []UnmergedEventsKept
<1>1. Init => TypeInv /\ SlotExclusive /\ PlaceInv
  BY TypeInit, SlotInit, PlaceInit
<1>2. TypeInv /\ SlotExclusive /\ PlaceInv /\ [Next]_vars
         => (TypeInv /\ SlotExclusive /\ PlaceInv)'
  BY TypeStep, SlotStep, PlaceStep
<1>3. TypeInv /\ PlaceInv => UnmergedEventsKept
  <2> SUFFICES ASSUME TypeInv, PlaceInv, NEW e \in Events, fate[e] = "live", e \notin merged
               PROVE  Placed(e)
    BY DEF UnmergedEventsKept
  <2>1. /\ \A ch \in Channels : HeldIn(q)[ch] = Held(q[ch])
        /\ \A a \in Agents : TakenIn(task)[a] = TaskHeld(a)
    BY DEF HeldIn, TakenIn, TaskHeld
  <2>2. (\E ch \in Channels : e \in Held(q[ch])) \/ (\E a \in Agents : e \in TaskHeld(a))
    BY <2>1 DEF PlaceInv, Kept, Places
  <2>3. \A a \in Agents : e \in TaskHeld(a) => a \in Busy
    BY DEF PlaceInv, TaskHeld, Busy
  <2> QED
    BY <2>2, <2>3 DEF Placed
<1> QED
  BY <1>1, <1>2, <1>3, PTL DEF Spec

-----------------------------------------------------------------------------
(* The refinement of TurnDispatch.                                         *)

(* Events may be settled from one fate to the next, and that is all that   *)
(* happens to them.                                                        *)
Settles(f, g) ==
    \A e \in Events : \/ g[e] = f[e]
                      \/ f[e] = "live" /\ g[e] \notin {"unseen", "live"}

(* The events of a turn of TurnDispatch are live, and no two channels have *)
(* one in common.                                                          *)
TurnsLive == \A ch \in Channels : InTurn(ch) \subseteq {e \in Events : fate[e] = "live"}

TurnsApart == \A ch, d \in Channels : ch # d => InTurn(ch) \cap InTurn(d) = {}

(* Both follow from the places of the events.                              *)
LEMMA TurnsPlaced == TypeInv /\ PlaceInv => TurnsLive /\ TurnsApart
<1> SUFFICES ASSUME TypeInv, PlaceInv PROVE TurnsLive /\ TurnsApart
  OBVIOUS
<1>1. task \in [Agents -> Task] /\ q \in [Channels -> Channel]
  BY PlaceFacts
<1>2. /\ TakenIn(task) \in [Agents -> SUBSET Events]
      /\ \A a \in Agents : TakenIn(task)[a] = TaskHeld(a)
  BY <1>1, PlaceTypes DEF TaskHeld
<1>3. \A a \in Agents : TaskHeld(a) \subseteq {e \in Events : fate[e] = "live"}
  BY <1>2 DEF PlaceInv, Kept, Places
<1>4. \A a, b \in Agents : a # b => TaskHeld(a) \cap TaskHeld(b) = {}
  BY <1>2 DEF PlaceInv, Kept, Places
<1>5. TurnsLive
  BY <1>3 DEF TurnsLive, InTurn, On, Busy
<1>6. TurnsApart
  BY <1>4 DEF TurnsApart, InTurn, On, Busy
<1> QED
  BY <1>5, <1>6

(* A step that leaves the turns alone, and at most settles events, is a    *)
(* GiveUp: what a turn holds is live before and after.                     *)
LEMMA GivesUp ==
    ASSUME TypeInv', PlaceInv', \A ch \in Channels : InTurn(ch)' = InTurn(ch),
           Settles(fate, fate')
    PROVE  Dispatch!Next
<1> DEFINE D == {e \in Events : fate[e] \notin {"unseen", "live"}}
<1> PICK S : S = Waiting \ Waiting'
  OBVIOUS
<1>1. \A ch \in Channels : InTurn(ch) \subseteq {e \in Events : fate'[e] = "live"}
  <2>1. TurnsLive'
    BY TurnsPlaced, PTL
  <2> QED
    BY <2>1 DEF TurnsLive
<1>2. Waiting' = {e \in Events : fate'[e] = "live" /\ \A ch \in Channels : e \notin InTurn(ch)}
  BY DEF Waiting
<1>3. Waiting' = Waiting \ S
  BY <1>2 DEF Waiting, Settles
<1>4. D' = D \cup S
  BY <1>1, <1>2 DEF Waiting, Settles
<1>5. [ch \in Channels |-> InTurn(ch)]' = [ch \in Channels |-> InTurn(ch)]
  OBVIOUS
<1>6. Dispatch!GiveUp(S)
  BY <1>3, <1>4, <1>5 DEF Dispatch!GiveUp
<1> QED
  BY <1>6 DEF Dispatch!Next

(* Steps that start no turn and end none leave them alone.                 *)
LEMMA SameTurns ==
    ASSUME \A a \in Agents : /\ task'[a].batch = task[a].batch
                             /\ task'[a].ch = task[a].ch
                             /\ task'[a].state = "none" <=> task[a].state = "none"
    PROVE  \A ch \in Channels : InTurn(ch)' = InTurn(ch)
<1> SUFFICES ASSUME NEW ch \in Channels PROVE InTurn(ch)' = InTurn(ch)
  OBVIOUS
<1>1. On(ch)' = On(ch) /\ On(ch) \subseteq Agents
  BY DEF On, Busy
<1>2. \A a \in Agents : TaskHeld(a)' = TaskHeld(a)
  BY DEF TaskHeld
<1> QED
  BY <1>1, <1>2 DEF InTurn

(* Settling is settling.                                                   *)
LEMMA SettleSettles ==
    ASSUME NEW S, NEW why, why \notin {"unseen", "live"}, fate' = Settle(fate, S, why)
    PROVE  Settles(fate, fate')
BY DEF Settles, Settle

(* A channel without a turn gets one, and no fate changes: a Start, or     *)
(* nothing if the turn is empty.                                           *)
LEMMA StartsTurn ==
    ASSUME TypeInv', PlaceInv', NEW ch \in Channels, InTurn(ch) = {}, fate' = fate,
           \A d \in Channels \ {ch} : InTurn(d)' = InTurn(d)
    PROVE  Dispatch!Next
<1> DEFINE S == InTurn(ch)'
           D == {e \in Events : fate[e] \notin {"unseen", "live"}}
           turn == [d \in Channels |-> InTurn(d)]
<1>1. CASE S = {}
  <2>1. \A d \in Channels : InTurn(d)' = InTurn(d)
    BY <1>1
  <2>2. Settles(fate, fate')
    BY DEF Settles
  <2> QED
    BY <2>1, <2>2, GivesUp
<1>2. CASE S # {}
  <2>1. S \subseteq {e \in Events : fate[e] = "live"}
    <3>1. TurnsLive'
      BY TurnsPlaced, PTL
    <3> QED
      BY <3>1 DEF TurnsLive
  <2>2. \A d \in Channels : S \cap InTurn(d) = {}
    <3>1. TurnsApart'
      BY TurnsPlaced, PTL
    <3> QED
      BY <3>1 DEF TurnsApart
  <2>3. Waiting' = {e \in Events : fate[e] = "live"
                                   /\ \A d \in Channels : e \notin InTurn(d)'}
    BY DEF Waiting
  <2>4. S \subseteq Waiting /\ Waiting' = Waiting \ S
    BY <2>1, <2>2, <2>3 DEF Waiting
  <2>5. turn' = [turn EXCEPT ![ch] = S] /\ turn[ch] = {}
    OBVIOUS
  <2>6. D' = D
    OBVIOUS
  <2>7. Dispatch!Start(ch, S)
    BY <1>2, <2>4, <2>5, <2>6 DEF Dispatch!Start
  <2> QED
    BY <2>4, <2>7 DEF Dispatch!Next
<1> QED
  BY <1>1, <1>2

(* A channel's turn goes, and events of it or waiting ones are settled: a  *)
(* Finish, or a GiveUp if the turn was empty.                              *)
LEMMA EndsTurn ==
    ASSUME TypeInv, TypeInv', PlaceInv, PlaceInv', NEW ch \in Channels,
           InTurn(ch)' = {}, Settles(fate, fate'),
           \A d \in Channels \ {ch} : InTurn(d)' = InTurn(d)
    PROVE  Dispatch!Next
<1> DEFINE D == {e \in Events : fate[e] \notin {"unseen", "live"}}
           turn == [d \in Channels |-> InTurn(d)]
<1> PICK S : S = {e \in Events : fate[e] = "live" /\ fate'[e] # "live"}
  OBVIOUS
<1>1. CASE InTurn(ch) = {}
  <2>1. \A d \in Channels : InTurn(d)' = InTurn(d)
    BY <1>1
  <2> QED
    BY <2>1, GivesUp
<1>2. CASE InTurn(ch) # {}
  <2>1. \A d \in Channels \ {ch} : InTurn(d) \subseteq {e \in Events : fate'[e] = "live"}
    <3>1. TurnsLive'
      BY TurnsPlaced, PTL
    <3> QED
      BY <3>1 DEF TurnsLive
  <2>2. /\ InTurn(ch) \subseteq {e \in Events : fate[e] = "live"}
        /\ \A d \in Channels \ {ch} : InTurn(ch) \cap InTurn(d) = {}
    BY TurnsPlaced DEF TurnsLive, TurnsApart
  <2>3. Waiting' = {e \in Events : fate'[e] = "live"
                                   /\ \A d \in Channels \ {ch} : e \notin InTurn(d)}
    BY DEF Waiting
  <2>4. S \subseteq Waiting \cup InTurn(ch)
    BY <2>1 DEF Waiting
  <2>5. Waiting' = (Waiting \cup InTurn(ch)) \ S
    BY <2>2, <2>3 DEF Waiting, Settles
  <2>6. D' = D \cup S
    BY DEF Settles
  <2>7. turn' = [turn EXCEPT ![ch] = {}] /\ turn[ch] = InTurn(ch)
    OBVIOUS
  <2>8. Dispatch!Finish(ch, S)
    BY <1>2, <2>4, <2>5, <2>6, <2>7 DEF Dispatch!Finish
  <2>9. S \in SUBSET (Waiting \cup [d \in Channels |-> InTurn(d)][ch])
    BY <2>4
  <2> QED
    BY <2>8, <2>9 DEF Dispatch!Next
<1> QED
  BY <1>1, <1>2

(* An event arrives.                                                       *)
LEMMA ArrivesNew ==
    ASSUME TypeInv, TypeInv', PlaceInv, PlaceInv', NEW n \in Events,
           fate[n] = "unseen", fate'[n] # "unseen",
           \A e \in Events \ {n} : \/ fate'[e] = fate[e]
                                   \/ fate[e] = "live" /\ fate'[e] \notin {"unseen", "live"},
           fate'[n] # "live" => \A e \in Events \ {n} : fate'[e] = fate[e],
           \A ch \in Channels : InTurn(ch)' = InTurn(ch)
    PROVE  Dispatch!Next
<1> DEFINE D == {e \in Events : fate[e] \notin {"unseen", "live"}}
           turn == [d \in Channels |-> InTurn(d)]
<1> PICK S : S = {e \in Events : fate[e] = "live" /\ fate'[e] # "live"}
  OBVIOUS
<1>1. \A ch \in Channels : InTurn(ch) \subseteq {e \in Events : fate[e] = "live"}
  BY TurnsPlaced DEF TurnsLive
<1>2. \A ch \in Channels : InTurn(ch) \subseteq {e \in Events : fate'[e] = "live"}
  <2>1. TurnsLive'
    BY TurnsPlaced, PTL
  <2> QED
    BY <2>1 DEF TurnsLive
<1>3. Waiting' = {e \in Events : fate'[e] = "live" /\ \A ch \in Channels : e \notin InTurn(ch)}
  BY DEF Waiting
<1>4. turn' = turn
  OBVIOUS
<1>5. n \notin Dispatch!Known
  <2>1. n \notin Waiting /\ n \notin D /\ n \notin UNION {turn[ch] : ch \in Channels}
    BY <1>1 DEF Waiting
  <2> QED
    BY <2>1 DEF Dispatch!Known
<1>6. S \subseteq Waiting
  BY <1>2 DEF Waiting
<1>7. CASE fate'[n] = "live"
  <2>1. Waiting' = (Waiting \ S) \cup {n}
    BY <1>1, <1>3, <1>7 DEF Waiting
  <2>2. D' = D \cup S
    BY <1>7
  <2>3. Dispatch!Arrive(n, S)
    BY <1>4, <1>5, <1>6, <2>1, <2>2 DEF Dispatch!Arrive
  <2>4. S \in SUBSET Waiting
    BY <1>6
  <2> QED
    BY <2>3, <2>4 DEF Dispatch!Next
<1>8. CASE fate'[n] # "live"
  <2>1. Waiting' = Waiting
    BY <1>3, <1>8 DEF Waiting
  <2>2. D' = D \cup {n}
    BY <1>8
  <2>3. Dispatch!Arrive(n, {})
    BY <1>4, <1>5, <2>1, <2>2 DEF Dispatch!Arrive
  <2> QED
    BY <2>3 DEF Dispatch!Next
<1> QED
  BY <1>7, <1>8

(* The result of a turn settles what it settles.                           *)
LEMMA ResultSettles ==
    ASSUME NEW c, NEW t, fate' = ResultFate(c, t)
    PROVE  Settles(fate, fate')
<1> DEFINE all == BatchEvents(t.batch)
<1>1. CASE ~t.ret
  <2>1. PICK w : w = (IF t.state = "Ok" THEN "processed"
                      ELSE IF t.control = "Cancel" THEN "stopped" ELSE "dropped")
    OBVIOUS
  <2>2. fate' = Settle(fate, all, w) /\ w \notin {"unseen", "live"}
    BY <1>1, <2>1 DEF ResultFate
  <2> QED
    BY <2>2, SettleSettles
<1>2. CASE t.ret /\ fate' = fate
  BY <1>2 DEF Settles
<1>3. CASE t.ret /\ fate' # fate
  <2>1. \/ fate' = Settle(fate, all, "removed") \/ fate' = Settle(fate, all, "deadLettered")
        \/ fate' = Settle(fate, PutBackOverflow(c, t.batch.events), "overflow")
    BY <1>3 DEF ResultFate
  <2> QED
    BY <2>1, SettleSettles
<1> QED
  BY <1>1, <1>2, <1>3

(* A new event, whether it is queued, steers, signals or is dropped.       *)
LEMMA DispatchRelayStep ==
    ASSUME TypeInv, TypeInv', PlaceInv, PlaceInv', NEW ch \in Channels, RelayEvent(ch)
    PROVE  Dispatch!Next
<1>1. /\ task \in [Agents -> Task] /\ fate \in [Events -> Fate] /\ next \in Nat
      /\ next \in Events
  BY PlaceFacts DEF RelayEvent
<1>2. \A a \in Agents : /\ task'[a].batch = task[a].batch /\ task'[a].state = task[a].state
                        /\ task'[a].ch = task[a].ch
  BY RelayTasks
<1>3. fate[next] = "unseen"
  BY <1>1 DEF PlaceInv, Kept, Places
<1>4. CASE Accepts(q[ch])
  <2> DEFINE f == Settle(fate, PushOverflow(q[ch]), "overflow")
  <2>1. fate' = [f EXCEPT ![next] = "live"]
    BY <1>4 DEF RelayEvent
  <2>2. \A e \in Events : \/ f[e] = fate[e]
                          \/ fate[e] = "live" /\ f[e] \notin {"unseen", "live"}
    BY DEF Settle
  <2>3. DOMAIN f = Events
    BY DEF Settle
  <2> HIDE DEF f
  <2>4. fate'[next] = "live" /\ \A e \in Events \ {next} : fate'[e] = f[e]
    BY <1>1, <2>1, <2>3
  <2> QED
    BY <1>1, <1>2, <1>3, <2>2, <2>4, SameTurns, ArrivesNew
<1>5. CASE ~Accepts(q[ch])
  <2>1. fate' = [fate EXCEPT ![next] = "dropped"]
    BY <1>5 DEF RelayEvent
  <2>2. fate'[next] = "dropped" /\ \A e \in Events \ {next} : fate'[e] = fate[e]
    BY <1>1, <2>1
  <2> QED
    BY <1>1, <1>2, <1>3, <2>2, SameTurns, ArrivesNew
<1> QED
  BY <1>4, <1>5

(* A dispatched batch is a new turn on a channel that has none: the queue  *)
(* hands out no channel that is in flight.                                 *)
LEMMA DispatchBatchStep ==
    ASSUME TypeInv, TypeInv', SlotExclusive, TurnInv, PlaceInv', NEW ch \in Channels,
           NEW a \in Agents, DispatchBatch(ch, a)
    PROVE  Dispatch!Next
<1>1. task \in [Agents -> Task] /\ fate \in [Events -> Fate]
  BY PlaceFacts
<1>2. ExpireAll(q) = q
  BY TypeFacts, NothingExpires DEF TurnInv
<1>3. fate' = fate
  <2>1. ExpireOverflow(q) = {}
    BY DEF ExpireOverflow, TurnInv
  <2> QED
    BY <1>1, <2>1, SettleNothing DEF DispatchBatch
<1>4. On(ch) = {}
  <2>1. ch \in FlushChoices(q)
    BY <1>2 DEF DispatchBatch
  <2>2. ~InFlight(q[ch])
    BY <2>1 DEF FlushChoices, Ready, HasCancelled
  <2> QED
    BY <2>2 DEF TurnInv, InFlightMatchesTasks
<1>5. a \notin Busy
  BY DEF SlotExclusive, DispatchBatch
<1>6. PICK b : task' = [task EXCEPT ![a] = NewTask(ch, b)]
  BY DEF DispatchBatch
<1>7. task'[a].ch = ch /\ \A x \in Agents \ {a} : task'[x] = task[x]
  BY <1>1, <1>6 DEF NewTask
<1>8. ASSUME NEW d \in Channels \ {ch} PROVE InTurn(d)' = InTurn(d)
  <2>1. On(d)' = On(d) /\ a \notin On(d) /\ On(d) \subseteq Agents
    BY <1>5, <1>7 DEF On, Busy
  <2>2. \A x \in Agents \ {a} : TaskHeld(x)' = TaskHeld(x)
    BY <1>7 DEF TaskHeld
  <2> QED
    BY <2>1, <2>2 DEF InTurn
<1>9. InTurn(ch) = {}
  BY <1>4 DEF InTurn
<1> QED
  BY <1>3, <1>8, <1>9, StartsTurn

(* A turn that is reported ends, and it was the only one on its channel.   *)
LEMMA DispatchEndStep ==
    ASSUME TypeInv, TypeInv', TurnInv, PlaceInv, PlaceInv', NEW a \in Busy, NEW t \in Task,
           t.ch = task[a].ch, EndTurn(t), task' = [task EXCEPT ![a] = NoTask]
    PROVE  Dispatch!Next
<1>1. task \in [Agents -> Task] /\ a \in Agents
  BY PlaceFacts DEF Busy
<1>2. NoTask.state = "none"
  BY DEF NoTask, NewTask
<1>3. task'[a].state = "none" /\ \A x \in Agents \ {a} : task'[x] = task[x]
  BY <1>1, <1>2
<1>4. ASSUME NEW d \in Channels, d # t.ch PROVE InTurn(d)' = InTurn(d)
  <2>1. On(d)' = On(d) /\ a \notin On(d) /\ On(d) \subseteq Agents
    BY <1>3, <1>4 DEF On, Busy
  <2>2. \A x \in Agents \ {a} : TaskHeld(x)' = TaskHeld(x)
    BY <1>3 DEF TaskHeld
  <2> QED
    BY <2>1, <2>2 DEF InTurn
<1>5. CASE t.ch = NoChannel
  <2>1. fate' = fate
    BY <1>5 DEF EndTurn
  <2>2. Settles(fate, fate')
    BY <2>1 DEF Settles
  <2>3. \A d \in Channels : InTurn(d)' = InTurn(d)
    BY <1>4, <1>5, HarnessAssumption
  <2> QED
    BY <2>2, <2>3, GivesUp
<1>6. CASE t.ch # NoChannel
  <2>1. t.ch \in Channels
    BY <1>6 DEF Task
  <2>2. Settles(fate, fate')
    BY <1>6, ResultSettles DEF EndTurn
  <2>3. On(t.ch)' = {}
    <3>1. \A x \in Busy : task[x].ch = t.ch => x = a
      BY DEF TurnInv, OneTurnPerChannel
    <3> QED
      BY <1>3, <3>1 DEF On, Busy
  <2>4. InTurn(t.ch)' = {}
    BY <2>3 DEF InTurn
  <2> QED
    BY <1>4, <2>1, <2>2, <2>4, EndsTurn
<1> QED
  BY <1>5, <1>6

(* A heartbeat is a turn of no channel.                                    *)
LEMMA DispatchHeartbeatStep ==
    ASSUME TypeInv, TypeInv', SlotExclusive, PlaceInv', HeartbeatTick
    PROVE  Dispatch!Next
<1>1. task \in [Agents -> Task]
  BY PlaceFacts
<1>2. Settles(fate, fate')
  BY SettleSettles DEF HeartbeatTick
<1>3. CASE UNCHANGED task
  BY <1>2, <1>3, SameTurns, GivesUp
<1>4. ASSUME NEW a \in idle, task' = [task EXCEPT ![a] = NewTask(NoChannel, NoBatch)]
      PROVE  Dispatch!Next
  <2>1. a \in Agents /\ a \notin Busy
    BY TypeParts DEF PoolTyped, SlotExclusive
  <2>2. NewTask(NoChannel, NoBatch).ch = NoChannel
    BY DEF NewTask
  <2>3. task'[a].ch = NoChannel /\ \A x \in Agents \ {a} : task'[x] = task[x]
    BY <1>1, <1>4, <2>1, <2>2
  <2>4. ASSUME NEW d \in Channels PROVE InTurn(d)' = InTurn(d)
    <3>1. On(d)' = On(d) /\ a \notin On(d) /\ On(d) \subseteq Agents
      BY <2>1, <2>3, HarnessAssumption DEF On, Busy
    <3>2. \A x \in Agents \ {a} : TaskHeld(x)' = TaskHeld(x)
      BY <2>3 DEF TaskHeld
    <3> QED
      BY <3>1, <3>2 DEF InTurn
  <2> QED
    BY <1>2, <2>4, GivesUp
<1> QED
  BY <1>3, <1>4 DEF HeartbeatTick, DispatchHeartbeat

(* Nothing waits, runs or is settled at the start.                         *)
LEMMA DispatchInit == Init => Dispatch!Init
<1> SUFFICES ASSUME Init PROVE Dispatch!Init
  OBVIOUS
<1>1. Busy = {}
  BY DEF Init, Busy, NoTask, NewTask
<1>2. \A ch \in Channels : InTurn(ch) = {}
  BY <1>1 DEF InTurn, On
<1>3. Waiting = {} /\ {e \in Events : fate[e] \notin {"unseen", "live"}} = {}
  BY DEF Init, Waiting
<1> QED
  BY <1>2, <1>3 DEF Dispatch!Init

(* Every step of the harness is a step of TurnDispatch.                    *)
LEMMA DispatchStep ==
    ASSUME TypeInv, TypeInv', SlotExclusive, TurnInv, PlaceInv, PlaceInv', [Next]_vars
    PROVE  Dispatch!Next
<1>1. ASSUME NEW ch \in Channels, RelayEvent(ch) PROVE Dispatch!Next
  BY <1>1, DispatchRelayStep
<1>2. ASSUME NEW ch \in Channels, NEW a \in Agents, DispatchBatch(ch, a) PROVE Dispatch!Next
  BY <1>2, DispatchBatchStep
<1>3. ASSUME NEW a \in Agents, HandlePromptResult(a) PROVE Dispatch!Next
  <2>1. /\ EndTurn(task[a]) /\ task[a] \in Task /\ task[a].state \in Outcome
    BY <1>3, TypeFacts DEF HandlePromptResult
  <2>2. task' = [task EXCEPT ![a] = NoTask]
    BY <1>3, Zenon DEF HandlePromptResult
  <2>3. a \in Busy
    BY <2>1 DEF Busy, Outcome
  <2> QED
    BY <2>1, <2>2, <2>3, DispatchEndStep
<1>4. ASSUME NEW a \in Agents, RecoverPanickedAgent(a) PROVE Dispatch!Next
  <2> DEFINE t == [task[a] EXCEPT !.ret = (DedupMode = "Queue")]
  <2>1. task[a] \in Task /\ EndTurn(t) /\ task[a].state = "panicked"
    BY <1>4, TypeFacts DEF RecoverPanickedAgent
  <2>2. t \in Task /\ t.ch = task[a].ch
    BY <2>1 DEF Task
  <2>3. task' = [task EXCEPT ![a] = NoTask]
    BY <1>4, Zenon DEF RecoverPanickedAgent
  <2>4. a \in Busy
    BY <2>1 DEF Busy
  <2> HIDE DEF t
  <2> QED
    BY <2>1, <2>2, <2>3, <2>4, DispatchEndStep
<1>5. CASE HeartbeatTick
  BY <1>5, DispatchHeartbeatStep
<1>6. ASSUME task' = task, Settles(fate, fate') PROVE Dispatch!Next
  BY <1>6, SameTurns, GivesUp
<1>7. CASE DispatchNothing \/ Maintenance \/ \E ch \in Channels : PoolExhausted(ch)
  <2>1. PICK S : fate' = Settle(fate, S, "overflow")
    BY <1>7 DEF DispatchNothing, Maintenance, PoolExhausted
  <2>2. task' = task
    BY <1>7 DEF DispatchNothing, Maintenance, PoolExhausted
  <2> QED
    BY <1>6, <2>1, <2>2, SettleSettles
<1>8. ASSUME NEW ch \in Channels, ChannelRemoved(ch) PROVE Dispatch!Next
  BY <1>6, <1>8, SettleSettles DEF ChannelRemoved
<1>9. ASSUME NEW m \in acks, HandleSteerAck(m) PROVE Dispatch!Next
  <2>1. PICK S, w : fate' = Settle(fate, S, w) /\ w \in {"steered", "overflow"}
    BY <1>9 DEF HandleSteerAck
  <2>2. \A a \in Agents : /\ task'[a].batch = task[a].batch /\ task'[a].ch = task[a].ch
                          /\ task'[a].state = task[a].state
    <3>1. CASE UNCHANGED task
      BY <3>1
    <3>2. CASE SignalInFlightTask(m.ch, "Steer")
      BY <3>2, SignalKeeps
    <3> QED
      BY <1>9, <3>1, <3>2 DEF HandleSteerAck
  <2>3. Settles(fate, fate')
    BY <2>1, SettleSettles
  <2> QED
    BY <2>2, <2>3, SameTurns, GivesUp
<1>10. ASSUME NEW ch \in Channels, NEW s \in CommandSignal, OwnerCommand(ch, s)
       PROVE  Dispatch!Next
  <2>1. fate' = fate
    BY <1>10 DEF OwnerCommand
  <2>2. \A a \in Agents : /\ task'[a].batch = task[a].batch /\ task'[a].ch = task[a].ch
                          /\ task'[a].state = task[a].state
    BY <1>10, SignalKeeps DEF OwnerCommand
  <2>3. Settles(fate, fate')
    BY <2>1 DEF Settles
  <2> QED
    BY <2>2, <2>3, SameTurns, GivesUp
<1>11. ASSUME NEW a \in Agents,
              \/ SteerTaken(a)
              \/ \E k \in Ack : SteerAnswered(a, k)
              \/ \E o \in Outcome, byControl \in BOOLEAN : TaskEnds(a, o, byControl)
              \/ TaskPanics(a)
       PROVE  Dispatch!Next
  <2>1. TaskSteers(a) /\ task'[a].state # "none"
    BY <1>11, TaskMoves, TaskStays
  <2>2. task[a].state = "running"
    BY <1>11 DEF SteerTaken, SteerAnswered, TaskEnds, TaskPanics
  <2>3. fate' = fate
    BY <1>11 DEF SteerTaken, SteerAnswered, TaskEnds, TaskPanics, history
  <2>4. Settles(fate, fate')
    BY <2>3 DEF Settles
  <2> QED
    BY <2>1, <2>2, <2>4, SameTurns, GivesUp DEF TaskSteers
<1>12. CASE \/ \E ch \in Channels : ChannelAdded(ch) \/ RetryElapses(ch) \/ DeadlineElapses(ch)
            \/ DrainReadyJoinResults \/ RefreshTick \/ MaintenanceNotDue \/ CollectRespawns
            \/ \E a \in Agents, ok \in BOOLEAN : RespawnEnds(a, ok)
            \/ \E a \in Agents : CooldownElapses(a)
            \/ Exited \/ UNCHANGED vars
  <2>1. task' = task /\ fate' = fate
    BY <1>12 DEF ChannelAdded, RetryElapses, DeadlineElapses, DrainReadyJoinResults,
          RefreshTick, MaintenanceNotDue, CollectRespawns, RespawnEnds, CooldownElapses,
          Exited, vars, history
  <2> QED
    BY <1>6, <2>1 DEF Settles
<1>13. CASE MainLoop
  BY <1>1, <1>2, <1>3, <1>4, <1>5, <1>7, <1>8, <1>9, <1>10, <1>12, <1>13 DEF MainLoop
<1>14. CASE Tasks
  BY <1>11, <1>12, <1>14 DEF Tasks
<1>15. CASE Clock
  BY <1>12, <1>15 DEF Clock
<1> QED
  BY <1>12, <1>13, <1>14, <1>15 DEF Next

(* The harness implements TurnDispatch: a turn starts only on a channel    *)
(* that has none, takes only waiting events, and ends with every event     *)
(* waiting again or settled.                                               *)
THEOREM HarnessImplementsTurnDispatch ==
    ASSUME TurnMayOutliveDeadline = FALSE
    PROVE  Spec => ImplementsTurnDispatch
<1> DEFINE Inv == TypeInv /\ SlotExclusive /\ TurnInv /\ PlaceInv
<1>1. Init => Inv /\ Dispatch!Init
  BY TypeInit, SlotInit, TurnInit, PlaceInit, DispatchInit
<1>2. Inv /\ [Next]_vars => Inv'
  BY TypeStep, SlotStep, TurnStep, PlaceStep
<1>3. Inv /\ Inv' /\ [Next]_vars => [Dispatch!Next]_Dispatch!vars
  BY DispatchStep
<1> QED
  BY <1>1, <1>2, <1>3, PTL DEF Spec, ImplementsTurnDispatch, Dispatch!Spec
=============================================================================
