--------------------------- MODULE FinalDelivery ---------------------------
(***************************************************************************)
(* The durable delivery of an agent's final reply                          *)
(* (crates/buzz-acp/src/final_delivery.rs): a turn signs one reply, the    *)
(* outbox writes it to disk with the events it answers before the first    *)
(* submission, and a record that was ever written keeps those events from  *)
(* being prompted again, also after a crash, when the relay replays them.  *)
(* A submission may be lost, may reach the relay without its receipt       *)
(* coming back, or may be confirmed; each write to disk may fail; the      *)
(* harness may die between any two steps. After a restart one recovery     *)
(* task delivers the records that are still pending.                       *)
(*                                                                         *)
(* A signed body is its event id. A source event is delivered again only   *)
(* after a restart or when its turn is over: seen_ids of the relay client  *)
(* suppresses the rest. The half second between two submissions is a step  *)
(* that takes any time.                                                    *)
(***************************************************************************)
EXTENDS Naturals, FiniteSets

CONSTANTS
    Sources,         \* ids of the inbound events
    Turns,           \* the prompt tasks that may run at a time
    Recovery,        \* the recovery task
    MaxSubmissions,  \* MAX_LOGICAL_RECEIPT_SUBMISSIONS
    MaxReplies,      \* bound on the replies signed
    MaxCrashes,      \* bound on the crashes
    MaxWriteFailures,\* bound on the failed writes
    MaxCorruptions   \* bound on the records a crash leaves unreadable

ASSUME DeliveryAssumption ==
    /\ Recovery \notin Turns
    /\ MaxSubmissions \in Nat \ {0} /\ MaxReplies \in Nat
    /\ MaxCrashes \in Nat /\ MaxWriteFailures \in Nat /\ MaxCorruptions \in Nat

VARIABLES
    source,     \* where each inbound event is in this process: "away", "queued",
                \* "taken" by a turn, or "done"
    turn,       \* the events each prompting turn answers: its batch and the steered
    disk,       \* the record of each reply: NoRecord, Corrupt, or
                \* [state, attempts, sources]
    index,      \* OutboxIndex.records: the same, in memory
    courier,    \* deliver_until_terminal of each turn and of the recovery
    backlog,    \* resume_pending: the records to deliver, or NotStarted
    onRelay,    \* the replies that the relay has stored
    spent,      \* crashes, failed writes and corrupted records so far
    answers,    \* history: the events each signed reply answers
    submissions,\* history: how often each reply was submitted
    contended   \* history: the replies two couriers delivered at the same time

deliveryHistory == <<answers, submissions, contended>>
deliveryVars == <<source, turn, index, courier, backlog, disk, onRelay, spent, deliveryHistory>>

ReplyIds == 1 .. MaxReplies
DeliveryTasks == Turns \cup {Recovery}

NoRecord == [state |-> "None"]
Corrupt == [state |-> "Corrupt"]
NotStarted == {0}
NoDelivery == [at |-> "idle"]
NoTurn == [batch |-> {}, steered |-> {}]

DeliveryInit ==
    /\ source = [s \in Sources |-> "away"]
    /\ turn = [t \in Turns |-> NoTurn]
    /\ courier = [d \in DeliveryTasks |-> NoDelivery]
    /\ backlog = NotStarted
    /\ disk = [r \in ReplyIds |-> NoRecord]
    /\ index = [r \in ReplyIds |-> NoRecord]
    /\ onRelay = {}
    /\ spent = [crashes |-> 0, writes |-> 0, records |-> 0]
    /\ answers = [r \in ReplyIds |-> {}]
    /\ submissions = [r \in ReplyIds |-> 0]
    /\ contended = {}

-----------------------------------------------------------------------------
(* The records *)

Retryable(record) == record.state \in {"Pending", "AwaitingRetry"}

Terminalized(record) == [record EXCEPT !.state = "TerminalFailed"]

Exhausted(record) == record.attempts >= MaxSubmissions

(* The events claimed by the records of an index or a disk. *)
SourcesOf(records) ==
    UNION {records[r].sources : r \in {q \in ReplyIds : records[q] \notin {NoRecord, Corrupt}}}

(* contains_source_event. *)
Fenced(s) == s \in SourcesOf(index)

WriteFails ==
    /\ spent.writes < MaxWriteFailures
    /\ spent' = [spent EXCEPT !.writes = @ + 1]

(* replace_record: the file first, and the index when that succeeded. *)
ReplaceRecord(r, record) ==
    /\ disk' = [disk EXCEPT ![r] = record]
    /\ index' = [index EXCEPT ![r] = record]

(* Mutant of Loaded: a record that needs no more delivery is not indexed,  *)
(* as if tombstones could be pruned.                                       *)
LoadedIfPending(record) ==
    IF record = Corrupt \/ record = NoRecord \/ ~Retryable(record) \/ Exhausted(record)
    THEN NoRecord ELSE record

(* load_existing_records: an unreadable file is an issue to report and no  *)
(* more, a pending record with no submissions left is terminal.            *)
Loaded(record) ==
    IF record \in {NoRecord, Corrupt} THEN NoRecord
    ELSE IF Retryable(record) /\ Exhausted(record) THEN Terminalized(record)
    ELSE record

-----------------------------------------------------------------------------
(* The intake and the turns *)

(* The main loop queues an event that no record claims. *)
Intake(s) ==
    /\ source[s] \in {"away", "done"}
    /\ ~Fenced(s)
    /\ source' = [source EXCEPT ![s] = "queued"]
    /\ UNCHANGED <<turn, disk, index, courier, backlog, onRelay, spent, deliveryHistory>>

(* reply_delivery_source_suppressed. *)
SuppressReplay(s) ==
    /\ source[s] = "away"
    /\ Fenced(s)
    /\ source' = [source EXCEPT ![s] = "done"]
    /\ UNCHANGED <<turn, disk, index, courier, backlog, onRelay, spent, deliveryHistory>>

(* A batch is flushed to an idle task. *)
StartTurn(t, batch) ==
    /\ turn[t] = NoTurn /\ courier[t] = NoDelivery
    /\ batch # {}
    /\ \A s \in batch : source[s] = "queued"
    /\ source' = [s \in Sources |-> IF s \in batch THEN "taken" ELSE source[s]]
    /\ turn' = [turn EXCEPT ![t].batch = batch]
    /\ UNCHANGED <<disk, index, courier, backlog, onRelay, spent, deliveryHistory>>

(* The turn takes one more event by native steering: the read loop appends *)
(* it to the sources before it goes on.                                    *)
NativeSteer(t, s) ==
    /\ turn[t] # NoTurn /\ source[s] = "queued"
    /\ source' = [source EXCEPT ![s] = "taken"]
    /\ turn' = [turn EXCEPT ![t].steered = @ \cup {s}]
    /\ UNCHANGED <<disk, index, courier, backlog, onRelay, spent, deliveryHistory>>

(* collect_host_final_source_event_ids. *)
Answered(t) == turn[t].batch \cup turn[t].steered

LeaveTurn(t, fate) ==
    /\ turn[t] # NoTurn
    /\ turn' = [turn EXCEPT ![t] = NoTurn]
    /\ source' = [s \in Sources |-> IF s \in turn[t].batch THEN fate
                                    ELSE IF s \in turn[t].steered THEN "done" ELSE source[s]]

(* The turn fails or is cancelled: its batch goes back to the queue. What  *)
(* was steered into it was dropped from the queue before.                  *)
TurnFails(t) ==
    /\ LeaveTurn(t, "queued")
    /\ UNCHANGED <<disk, index, courier, backlog, onRelay, spent, deliveryHistory>>

(* The turn ends without a record: there is no reply to publish, or it     *)
(* cannot be built or signed.                                              *)
EndsWithoutRecord(t) ==
    /\ LeaveTurn(t, "done")
    /\ UNCHANGED <<disk, index, courier, backlog, onRelay, spent, deliveryHistory>>

(* persist_signed fails: the reply is given up. *)
PersistFails(t) ==
    /\ WriteFails
    /\ LeaveTurn(t, "done")
    /\ UNCHANGED <<disk, index, courier, backlog, onRelay, deliveryHistory>>

(* finalize_host_final_reply: a fresh reply is signed and its record       *)
(* written, with no submission yet.                                        *)
PersistSigned(t, r) ==
    /\ disk[r] = NoRecord /\ index[r] = NoRecord
    /\ \A q \in 1 .. r - 1 : disk[q] # NoRecord
    /\ ReplaceRecord(r, [state |-> "Pending", attempts |-> 0, sources |-> Answered(t)])
    /\ answers' = [answers EXCEPT ![r] = Answered(t)]
    /\ LeaveTurn(t, "done")
    /\ courier' = [courier EXCEPT ![t] = [at |-> "loop", reply |-> r]]
    /\ UNCHANGED <<backlog, onRelay, spent, submissions, contended>>

-----------------------------------------------------------------------------
(* deliver_until_terminal *)

Sending(d) == courier[d].record

Arrives(d, at) == courier' = [courier EXCEPT ![d].at = at]

(* The courier returns: its turn or its record is over. *)
Returns(d) == courier' = [courier EXCEPT ![d] = NoDelivery]

(* The top of the loop: the record is read, and used after the sleep.      *)
ReadRecord(d) ==
    /\ courier[d].at = "loop"
    /\ LET r == courier[d].reply IN
       /\ Retryable(index[r]) /\ ~Exhausted(index[r])
       /\ courier' = [courier EXCEPT ![d] = [at |-> "send", reply |-> r, record |-> index[r]]]
       /\ contended' = IF \E e \in DeliveryTasks \ {d} : courier[e] # NoDelivery /\ courier[e].reply = r
                       THEN contended \cup {r} ELSE contended
    /\ UNCHANGED <<source, turn, disk, index, backlog, onRelay, spent, answers, submissions>>

(* The record is terminal: nothing is left to do. *)
AlreadyTerminal(d) ==
    /\ courier[d].at = "loop"
    /\ ~Retryable(index[courier[d].reply])
    /\ Returns(d)
    /\ UNCHANGED <<source, turn, disk, index, backlog, onRelay, spent, deliveryHistory>>

(* Another courier has used up the budget. *)
BudgetExhausted(d) ==
    /\ courier[d].at = "loop"
    /\ LET r == courier[d].reply IN
       /\ Retryable(index[r]) /\ Exhausted(index[r])
       /\ \/ ReplaceRecord(r, Terminalized(index[r])) /\ UNCHANGED spent
          \/ WriteFails /\ UNCHANGED <<disk, index>>
    /\ Returns(d)
    /\ UNCHANGED <<source, turn, backlog, onRelay, deliveryHistory>>

(* Mutant of CountAttempt: the attempt is counted in memory only.          *)
CountAttemptInMemory(d) ==
    LET r == courier[d].reply
        sending == [Sending(d) EXCEPT !.attempts = @ + 1, !.state = "Pending"]
    IN  /\ courier[d].at = "send"
        /\ index' = [index EXCEPT ![r] = sending]
        /\ courier' = [courier EXCEPT ![d].record = sending, ![d].at = "submit"]
        /\ UNCHANGED <<source, turn, disk, backlog, onRelay, spent, deliveryHistory>>

(* The attempt is counted and on disk before the bytes are sent. *)
CountAttempt(d) ==
    LET r == courier[d].reply
        sending == [Sending(d) EXCEPT !.attempts = @ + 1, !.state = "Pending"]
    IN  /\ courier[d].at = "send"
        /\ ReplaceRecord(r, sending)
        /\ courier' = [courier EXCEPT ![d].record = sending, ![d].at = "submit"]
        /\ UNCHANGED <<source, turn, backlog, onRelay, spent, deliveryHistory>>

(* persist_before_send_failed: the record stays pending until a restart. *)
CountAttemptFails(d) ==
    /\ courier[d].at = "send"
    /\ WriteFails
    /\ Returns(d)
    /\ UNCHANGED <<source, turn, disk, index, backlog, onRelay, deliveryHistory>>

(* submit_event_bytes_accepted: the relay gets the bytes, or it does not. *)
Submit(d, reaches) ==
    /\ courier[d].at = "submit"
    /\ LET r == courier[d].reply IN
       /\ onRelay' = IF reaches THEN onRelay \cup {r} ELSE onRelay
       /\ submissions' = [submissions EXCEPT ![r] = @ + 1]
    /\ Arrives(d, IF reaches THEN "stored" ELSE "lost")
    /\ UNCHANGED <<source, turn, disk, index, backlog, spent, answers, contended>>

(* The receipt names the reply: Accepted. *)
Confirmed(d) ==
    /\ courier[d].at = "stored"
    /\ \/ /\ ReplaceRecord(courier[d].reply, [Sending(d) EXCEPT !.state = "Accepted"])
          /\ UNCHANGED spent
       \/ WriteFails /\ UNCHANGED <<disk, index>>
    /\ Returns(d)
    /\ UNCHANGED <<source, turn, backlog, onRelay, deliveryHistory>>

(* No receipt, whatever became of the bytes: once more, if the budget      *)
(* allows it.                                                              *)
Unconfirmed(d) ==
    /\ courier[d].at \in {"stored", "lost"}
    /\ ~Exhausted(Sending(d))
    /\ \/ /\ ReplaceRecord(courier[d].reply, [Sending(d) EXCEPT !.state = "AwaitingRetry"])
          /\ courier' = [courier EXCEPT ![d] = [at |-> "loop", reply |-> courier[d].reply]]
          /\ UNCHANGED spent
       \/ WriteFails /\ Returns(d) /\ UNCHANGED <<disk, index>>
    /\ UNCHANGED <<source, turn, backlog, onRelay, deliveryHistory>>

(* ... and if it does not, the reply is terminal. *)
GivesUp(d) ==
    /\ courier[d].at \in {"stored", "lost"}
    /\ Exhausted(Sending(d))
    /\ \/ ReplaceRecord(courier[d].reply, Terminalized(Sending(d))) /\ UNCHANGED spent
       \/ WriteFails /\ UNCHANGED <<disk, index>>
    /\ Returns(d)
    /\ UNCHANGED <<source, turn, backlog, onRelay, deliveryHistory>>

-----------------------------------------------------------------------------
(* Recovery and restart *)

(* resume_pending lists the pending records once, whenever its task first  *)
(* runs: a turn of this process may have written one already.              *)
ListPending ==
    /\ backlog = NotStarted
    /\ backlog' = {r \in ReplyIds : Retryable(index[r])}
    /\ UNCHANGED <<source, turn, disk, index, courier, onRelay, spent, deliveryHistory>>

ResumeNext(r) ==
    /\ backlog # NotStarted /\ r \in backlog
    /\ courier[Recovery] = NoDelivery
    /\ courier' = [courier EXCEPT ![Recovery] = [at |-> "loop", reply |-> r]]
    /\ backlog' = backlog \ {r}
    /\ UNCHANGED <<source, turn, disk, index, onRelay, spent, deliveryHistory>>

(* The process dies and open() loads what the disk has. Memory is gone,    *)
(* and the relay replays the events. A record that loading makes terminal  *)
(* is written back, or that write fails.                                   *)
CrashAndOpen(torn) ==
    LET found == [r \in ReplyIds |-> IF r \in torn THEN Corrupt ELSE disk[r]]
        changed == {r \in ReplyIds : found[r] # Corrupt /\ Loaded(found[r]) # found[r]}
    IN  /\ spent.crashes < MaxCrashes
        /\ Cardinality(torn) <= MaxCorruptions - spent.records
        /\ torn \subseteq {r \in ReplyIds : disk[r] \notin {NoRecord, Corrupt}}
        /\ index' = [r \in ReplyIds |-> Loaded(found[r])]
        /\ \E unwritten \in SUBSET changed :
              /\ Cardinality(unwritten) <= MaxWriteFailures - spent.writes
              /\ disk' = [r \in ReplyIds |-> IF r \in changed \ unwritten
                                             THEN Loaded(found[r]) ELSE found[r]]
              /\ spent' = [crashes |-> spent.crashes + 1,
                           writes |-> spent.writes + Cardinality(unwritten),
                           records |-> spent.records + Cardinality(torn)]
        /\ source' = [s \in Sources |-> "away"]
        /\ turn' = [t \in Turns |-> NoTurn]
        /\ courier' = [d \in DeliveryTasks |-> NoDelivery]
        /\ backlog' = NotStarted
        /\ UNCHANGED <<onRelay, deliveryHistory>>

Courier(d) ==
    \/ ReadRecord(d) \/ AlreadyTerminal(d) \/ BudgetExhausted(d)
    \/ CountAttempt(d) \/ CountAttemptFails(d)
    \/ \E reaches \in BOOLEAN : Submit(d, reaches)
    \/ Confirmed(d) \/ Unconfirmed(d) \/ GivesUp(d)

DeliveryNext ==
    \/ \E s \in Sources : Intake(s) \/ SuppressReplay(s)
    \/ \E t \in Turns :
          \/ \E batch \in SUBSET Sources : StartTurn(t, batch)
          \/ \E s \in Sources : NativeSteer(t, s)
          \/ TurnFails(t) \/ EndsWithoutRecord(t) \/ PersistFails(t)
          \/ \E r \in ReplyIds : PersistSigned(t, r)
    \/ \E d \in DeliveryTasks : Courier(d)
    \/ ListPending
    \/ \E r \in ReplyIds : ResumeNext(r)
    \/ \E torn \in SUBSET ReplyIds : CrashAndOpen(torn)

DeliverySpec == DeliveryInit /\ [][DeliveryNext]_deliveryVars

-----------------------------------------------------------------------------
(* "removing tombstones would reopen the model-rerun failure after relay   *)
(* replay" (final_delivery.rs contains_source_event): no event is answered *)
(* by two different replies on the relay, whatever is lost, unconfirmed or *)
(* given up, whichever write fails, and however often the harness dies;    *)
(* unless a crash left a record of one of them unreadable, which loading   *)
(* skips without a fence.                                                  *)
OneReplyPerSource ==
    \A r, q \in onRelay :
        r # q /\ answers[r] \cap answers[q] # {} => Corrupt \in {disk[r], disk[q]}

(* "This is deliberately a two-logical-submission budget": a crash between *)
(* a submission and its record does not grant another one, so a reply is   *)
(* submitted no more than MaxSubmissions times over all the lives of the   *)
(* process, unless the recovery task listed a record whose own turn was    *)
(* still delivering it.                                                    *)
BudgetSurvivesCrashes ==
    \A r \in ReplyIds \ contended : submissions[r] <= MaxSubmissions

=============================================================================
