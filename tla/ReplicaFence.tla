---------------------------- MODULE ReplicaFence ----------------------------
(***************************************************************************)
(* The replica freshness fence of crates/buzz-db/src/replica_fence.rs and  *)
(* the routing of reads on it in crates/buzz-db/src/lib.rs.                *)
(*                                                                         *)
(* A read may be served by a replica only if the page it reads there lacks *)
(* nothing the caller relies on.  Each pod's probe samples the writer's    *)
(* clock, scans the open and then the prepared transactions, and commits a *)
(* heartbeat token last; a reader whose snapshot shows that token has all  *)
(* that was committed before it.  The commit-time floor guard of migration *)
(* 0021 bounds what can be committed after it.                             *)
(*                                                                         *)
(* A state of the database is its heartbeat row with its channel rows.     *)
(* `history` has every state it has ever been in, on whatever timeline: a  *)
(* session of a reader may be at any of them, since readers behind one     *)
(* endpoint lag differently and may stay on a timeline that the writer has *)
(* left.  A restore takes the writer back to an earlier state.  There is   *)
(* one clock: the proof's stamps are all the writer's, and of the pods'    *)
(* monotonic instants only differences are used.                           *)
(***************************************************************************)
EXTENDS Integers, Sequences, FiniteSets

CONSTANTS
    FencePods,      \* relay pods, each with a fence and a probe
    Txs,            \* writer sessions that insert channel rows
    Pages,          \* read requests under way at once
    Floor,          \* CREATED_AT_FLOOR_SECS
    Margin,         \* FENCE_CLOCK_MARGIN_SECS
    Staleness,      \* FENCE_STALENESS
    ReadMaxAge,     \* replica_read_max_age, 0 when it is not set
    RingCapacity,   \* RING_CAPACITY
    Stamps,         \* created_at of the rows, upper bounds of the pages
    MaxTime,        \* bound on the clock
    MaxRows,        \* bound on the rows committed
    MaxStates,      \* bound on the states of the database
    MaxRestores     \* bound on the restores

ASSUME FenceAssumption ==
    /\ Floor \in Nat
    /\ Margin \in Nat \ {0}
    /\ Staleness \in Nat
    /\ ReadMaxAge \in 0 .. Staleness
    /\ RingCapacity \in Nat \ {0}
    /\ Stamps \subseteq Nat
    /\ MaxTime \in Nat
    /\ MaxRows \in Nat
    /\ MaxStates \in Nat
    /\ MaxRestores \in Nat

VARIABLES
    clock,      \* clock_timestamp() of the writer
    db,         \* the writer: replica_heartbeat's token and epoch, and the rows
    history,    \* every state that db has been in
    commits,    \* rows committed, which gives each an identity
    epochs,     \* epochs drawn by gen_random_uuid()
    restores,   \* restores of the writer; a connection does not outlive one
    tx,         \* what each writer session's transaction has done
    fences,      \* for each pod FenceInner: the epoch and the ring
    probe,      \* where each pod's probe_once stands
    page        \* where each routed read stands

writer == <<db, history, commits, epochs, restores>>
fenceVars == <<clock, writer, tx, fences, probe, page>>

-----------------------------------------------------------------------------
(***************************************************************************)
(* Values.                                                                 *)
(***************************************************************************)

NoEpoch == 0    \* FenceInner.epoch = None

Predicates == {"Bounded", "Covered", "CoveredPostVerified", "BoundedOrCovered"}

Rows == [id : Nat, created_at : Nat, committed : Nat]

DbStates == [token : Nat, epoch : Nat, rows : SUBSET Rows]

\* A TokenEntry.  `reissued` is not in the code: whether, when the token was
\* committed, some state of its epoch had that token or a higher one.
TokenEntries ==
    [token : Nat, committed_at : Nat, fence_wall : Int, reissued : BOOLEAN]

TxRecords ==
    [at : {"none", "open", "guarded", "prepared"},
     since : Nat, created_at : Nat, guarded : Nat]

FenceRecords == [epoch : Nat, ring : Seq(TokenEntries)]

ProbeRecords ==
    [at : {"idle", "sampled", "activity", "scanned", "beaten", "rotate"},
     conn : Nat, lower : Nat, epoch : Nat, entry : TokenEntries]

PageRecords ==
    [at : {"idle", "admitted", "observed", "covered", "fresh"}, pod : FencePods,
     predicate : Predicates, upper : Nat, snap : DbStates,
     entry : TokenEntries, since : Int]

NoEntry == [token |-> 0, committed_at |-> 0, fence_wall |-> 0, reissued |-> FALSE]

NoWrite == [at |-> "none", since |-> 0, created_at |-> 0, guarded |-> 0]

IdleProbe ==
    [at |-> "idle", conn |-> 0, lower |-> 0, epoch |-> NoEpoch, entry |-> NoEntry]

NoPage(pod) ==
    [at |-> "idle", pod |-> pod, predicate |-> "Bounded", upper |-> 0,
     snap |-> [token |-> 0, epoch |-> NoEpoch, rows |-> {}],
     entry |-> NoEntry, since |-> 0]

\* The commit of a new state, and its bound.
Advance(state) ==
    /\ Cardinality(history) < MaxStates
    /\ db' = state
    /\ history' = history \cup {state}

FenceInit ==
    /\ clock = 0
    /\ db = [token |-> 0, epoch |-> 1, rows |-> {}]
    /\ history = {db}
    /\ commits = 0
    /\ epochs = 1
    /\ restores = 0
    /\ tx = [t \in Txs |-> NoWrite]
    /\ fences = [p \in FencePods |-> [epoch |-> NoEpoch, ring |-> <<>>]]
    /\ probe = [p \in FencePods |-> IdleProbe]
    /\ \E p \in FencePods : page = [q \in Pages |-> NoPage(p)]

-----------------------------------------------------------------------------
(***************************************************************************)
(* The writer: its clock, transactions that insert a channel row, and      *)
(* restores from a backup.                                                 *)
(***************************************************************************)

WriterTick ==
    /\ clock < MaxTime
    /\ clock' = clock + 1
    /\ UNCHANGED <<writer, tx, fences, probe, page>>

\* From here xact_start shows the transaction in pg_stat_activity.
BeginTx(t) ==
    /\ commits < MaxRows
    /\ tx[t].at = "none"
    /\ tx' = [tx EXCEPT ![t] = [NoWrite EXCEPT !.at = "open", !.since = clock]]
    /\ UNCHANGED <<clock, writer, fences, probe, page>>

\* events_created_at_floor_guard, deferred: it runs when the transaction
\* commits or is prepared.  If it raises, the transaction aborts (AbortTx).
FloorGuard(t, c) ==
    /\ tx[t].at = "open"
    /\ c + Floor >= clock
    /\ tx' = [tx EXCEPT ![t] =
           [@ EXCEPT !.at = "guarded", !.created_at = c, !.guarded = clock]]
    /\ UNCHANGED <<clock, writer, fences, probe, page>>

\* PREPARE TRANSACTION: out of pg_stat_activity and into pg_prepared_xacts, with
\* the time of the prepare.  The margin absorbs the time since the guard ran.
PrepareTx(t) ==
    /\ tx[t].at = "guarded"
    /\ clock < tx[t].guarded + Margin
    /\ tx' = [tx EXCEPT ![t] =
           [@ EXCEPT !.at = "prepared", !.since = clock, !.guarded = 0]]
    /\ UNCHANGED <<clock, writer, fences, probe, page>>

\* COMMIT after the guard, or COMMIT PREPARED at any later time.
CommitTx(t) ==
    /\ tx[t].at \in {"guarded", "prepared"}
    /\ Advance([db EXCEPT !.rows = @ \cup
           {[id |-> commits, created_at |-> tx[t].created_at, committed |-> clock]}])
    /\ commits' = commits + 1
    /\ tx' = [tx EXCEPT ![t] = NoWrite]
    /\ UNCHANGED <<clock, epochs, restores, fences, probe, page>>

AbortTx(t) ==
    /\ tx[t].at # "none"
    /\ tx' = [tx EXCEPT ![t] = NoWrite]
    /\ UNCHANGED <<clock, writer, fences, probe, page>>

\* An operator restores a backup of this database: a state with a part of its
\* rows, and with the heartbeat row of that time, or seeded anew.
Restore(backup) ==
    /\ restores < MaxRestores
    /\ backup.rows \subseteq db.rows
    /\ \/ /\ db' = backup
          /\ UNCHANGED <<history, epochs>>
       \/ /\ Advance([backup EXCEPT !.token = 0, !.epoch = epochs + 1])
          /\ epochs' = epochs + 1
    /\ restores' = restores + 1
    /\ tx' = [t \in Txs |-> NoWrite]
    /\ UNCHANGED <<clock, commits, fences, probe, page>>

-----------------------------------------------------------------------------
(***************************************************************************)
(* The probe of a pod, one action for each stretch between two awaits of   *)
(* sample_writer and probe_once.                                           *)
(***************************************************************************)

\* 1. S first, on a connection that is kept for the statements that follow.
Sample(p) ==
    /\ probe[p].at = "idle"
    /\ probe' = [probe EXCEPT ![p] =
           [IdleProbe EXCEPT !.at = "sampled", !.conn = restores, !.lower = clock]]
    /\ UNCHANGED <<clock, writer, tx, fences, page>>

\* The smaller of a stamp and the oldest `since` among the transactions where
\* `among` is so.
Oldest(lower, among, m) ==
    LET seen == {lower} \cup {tx[t].since : t \in {u \in Txs : tx[u].at \in among}}
    IN  m \in seen /\ \A n \in seen : m <= n

\* 2. The scan, whose two subqueries are evaluated one after the other: first
\* min(xact_start) of pg_stat_activity,
ScanActivity(p) ==
    /\ probe[p].at = "sampled"
    /\ probe[p].conn = restores
    /\ \E m \in 0 .. clock :
           /\ Oldest(probe[p].lower, {"open", "guarded"}, m)
           /\ probe' = [probe EXCEPT ![p] = [@ EXCEPT !.at = "activity", !.lower = m]]
    /\ UNCHANGED <<clock, writer, tx, fences, page>>

\* then min(prepared) of pg_prepared_xacts.  committed_at is taken before the
\* token is committed; the wall is fence_wall's.
Stamped(lower) ==
    [NoEntry EXCEPT !.committed_at = clock, !.fence_wall = lower - Floor - Margin]

\* Mutant of ScanPrepared: two-phase commits are forgotten.
ScanWithoutPrepared(p) ==
    /\ probe[p].at = "activity"
    /\ probe[p].conn = restores
    /\ probe' = [probe EXCEPT ![p] =
           [@ EXCEPT !.at = "scanned", !.lower = 0, !.entry = Stamped(probe[p].lower)]]
    /\ UNCHANGED <<clock, writer, tx, fences, page>>

ScanPrepared(p) ==
    /\ probe[p].at = "activity"
    /\ probe[p].conn = restores
    /\ \E m \in 0 .. clock :
           /\ Oldest(probe[p].lower, {"prepared"}, m)
           /\ probe' = [probe EXCEPT ![p] =
                  [@ EXCEPT !.at = "scanned", !.lower = 0, !.entry = Stamped(m)]]
    /\ UNCHANGED <<clock, writer, tx, fences, page>>

Reissued(token, epoch) ==
    \E h \in history : h.epoch = epoch /\ h.token >= token

\* What RETURNING token, epoch brings the probe.
Returned(p, token, epoch) ==
    probe' = [probe EXCEPT ![p] =
        [@ EXCEPT !.at = "beaten", !.epoch = epoch,
                  !.entry = [probe[p].entry EXCEPT !.token = token,
                                                   !.reissued = Reissued(token, epoch)]]]

\* 3. The token last.
Beat(p) ==
    /\ probe[p].at = "scanned"
    /\ probe[p].conn = restores
    /\ Advance([db EXCEPT !.token = @ + 1])
    /\ Returned(p, db.token + 1, db.epoch)
    /\ UNCHANGED <<clock, commits, epochs, restores, tx, fences, page>>

\* ReplicaFence::record: the ring of another epoch is dropped, and a token that
\* is not above the last one clears the ring and is not recorded.
Regressed(p) ==
    LET ring == fences[p].ring
    IN  /\ fences[p].epoch = probe[p].epoch
        /\ ring # <<>>
        /\ probe[p].entry.token <= ring[Len(ring)].token

Pushed(ring, entry) ==
    Append(IF Len(ring) = RingCapacity THEN Tail(ring) ELSE ring, entry)

\* Mutant of Record: committed_at is taken when the answer is there.
RecordStampedLate(p) ==
    /\ probe[p].at = "beaten"
    /\ ~Regressed(p)
    /\ fences' = [fences EXCEPT ![p] =
           [epoch |-> probe[p].epoch,
            ring  |-> Pushed(IF @.epoch = probe[p].epoch THEN @.ring ELSE <<>>,
                             [probe[p].entry EXCEPT !.committed_at = clock])]]
    /\ probe' = [probe EXCEPT ![p] = IdleProbe]
    /\ UNCHANGED <<clock, writer, tx, page>>

Record(p) ==
    /\ probe[p].at = "beaten"
    /\ ~Regressed(p)
    /\ fences' = [fences EXCEPT ![p] =
           [epoch |-> probe[p].epoch,
            ring  |-> Pushed(IF @.epoch = probe[p].epoch THEN @.ring ELSE <<>>,
                             probe[p].entry)]]
    /\ probe' = [probe EXCEPT ![p] = IdleProbe]
    /\ UNCHANGED <<clock, writer, tx, page>>

\* TokenRegression: the probe goes on to rotate the epoch, with the same wall
\* and a new committed_at.
RecordRegression(p) ==
    /\ probe[p].at = "beaten"
    /\ Regressed(p)
    /\ fences' = [fences EXCEPT ![p] = [@ EXCEPT !.ring = <<>>]]
    /\ probe' = [probe EXCEPT ![p] =
           [IdleProbe EXCEPT !.at = "rotate",
                             !.entry = [NoEntry EXCEPT !.committed_at = clock,
                                            !.fence_wall = probe[p].entry.fence_wall]]]
    /\ UNCHANGED <<clock, writer, tx, page>>

\* The rotation takes any connection of the pool.  What it returns is recorded
\* by Record: no ring has the new epoch.
Rotate(p) ==
    /\ probe[p].at = "rotate"
    /\ Advance([db EXCEPT !.token = @ + 1, !.epoch = epochs + 1])
    /\ epochs' = epochs + 1
    /\ Returned(p, db.token + 1, epochs + 1)
    /\ UNCHANGED <<clock, commits, restores, tx, fences, page>>

\* An error of any statement, masked activity or a missing row: run_probe closes
\* the fence.  The epoch of the ring is kept.
ProbeFails(p) ==
    /\ probe[p].at # "idle"
    /\ probe' = [probe EXCEPT ![p] = IdleProbe]
    /\ fences' = [fences EXCEPT ![p] = [@ EXCEPT !.ring = <<>>]]
    /\ UNCHANGED <<clock, writer, tx, page>>

-----------------------------------------------------------------------------
(***************************************************************************)
(* A routed read: route_read's precheck on the newest entry, the heartbeat *)
(* that proved_reader observes in the snapshot which will serve the page,  *)
(* and the verdict on the entry that this proves.                          *)
(***************************************************************************)

\* The newest entry, unless it is stale.
Newest(p) ==
    LET ring == fences[p].ring
    IN  {ring[i] : i \in {j \in DOMAIN ring :
            /\ j = Len(ring)
            /\ clock - ring[j].committed_at <= Staleness}}

WithinBudget(entry) ==
    ReadMaxAge > 0 /\ clock - entry.committed_at <= ReadMaxAge

Precheck(predicate, upper, newest) ==
    CASE predicate = "Bounded" -> WithinBudget(newest)
      [] predicate = "Covered" -> upper <= newest.fence_wall
      [] predicate = "CoveredPostVerified" -> TRUE
      [] OTHER -> upper <= newest.fence_wall \/ WithinBudget(newest)

\* BoundedOrCovered is derived only where the read budget is set.  Two of the
\* predicates have no upper bound.
RouteRead(q, p, predicate, upper) ==
    /\ page[q].at = "idle"
    /\ predicate = "BoundedOrCovered" => ReadMaxAge > 0
    /\ predicate \in {"Bounded", "CoveredPostVerified"} => upper = 0
    /\ \E newest \in Newest(p) : Precheck(predicate, upper, newest)
    /\ page' = [page EXCEPT ![q] =
           [NoPage(p) EXCEPT !.at = "admitted", !.predicate = predicate, !.upper = upper]]
    /\ UNCHANGED <<clock, writer, tx, fences, probe>>

\* BEGIN ... REPEATABLE READ on some reader session, the heartbeat first.
Observe(q, state) ==
    /\ page[q].at = "admitted"
    /\ page' = [page EXCEPT ![q] = [@ EXCEPT !.at = "observed", !.snap = state]]
    /\ UNCHANGED <<clock, writer, tx, fences, probe>>

\* ReplicaFence::resolve: the last entry of the ring that is not above the
\* observed token, if the epochs agree.
Proved(p, token, epoch) ==
    LET ring == fences[p].ring
    IN  IF fences[p].epoch # epoch
        THEN {}
        ELSE {ring[i] : i \in {j \in DOMAIN ring :
                 /\ ring[j].token <= token
                 /\ \A k \in DOMAIN ring : k > j => ring[k].token > token}}

\* The page is complete through `upper`.
ServeCovered(q, entry, upper) ==
    /\ upper <= entry.fence_wall
    /\ page' = [page EXCEPT ![q] =
           [NoPage(@.pod) EXCEPT !.at = "covered", !.snap = page[q].snap,
                                 !.entry = entry, !.upper = upper]]

\* The page has all that was committed before `since`.
ServeFresh(q, entry) ==
    /\ WithinBudget(entry)
    /\ page' = [page EXCEPT ![q] =
           [NoPage(@.pod) EXCEPT !.at = "fresh", !.snap = page[q].snap,
                                 !.entry = entry, !.since = clock - ReadMaxAge]]

\* resolve, the verdict of route_read and, for a forward page of a thread, the
\* check that it is full and that its last reply is not above the wall: then the
\* page claims all replies through its last.
Resolve(q) ==
    /\ page[q].at = "observed"
    /\ \E entry \in Proved(page[q].pod, page[q].snap.token, page[q].snap.epoch) :
           \/ /\ page[q].predicate \in {"Covered", "BoundedOrCovered"}
              /\ ServeCovered(q, entry, page[q].upper)
           \/ /\ page[q].predicate = "CoveredPostVerified"
              /\ \E tail \in page[q].snap.rows : ServeCovered(q, entry, tail.created_at)
           \/ /\ \/ page[q].predicate = "Bounded"
                 \/ /\ page[q].predicate = "BoundedOrCovered"
                    /\ page[q].upper > entry.fence_wall
              /\ ServeFresh(q, entry)
    /\ UNCHANGED <<clock, writer, tx, fences, probe>>

\* The page has been answered; or it fails closed and is read from the writer,
\* for want of a session or a proof or because the query failed.
LeavePage(q) ==
    /\ page[q].at # "idle"
    /\ page' = [page EXCEPT ![q] = NoPage(page[q].pod)]
    /\ UNCHANGED <<clock, writer, tx, fences, probe>>

-----------------------------------------------------------------------------
FenceNext ==
    \/ WriterTick
    \/ \E t \in Txs :
           \/ BeginTx(t)
           \/ \E c \in Stamps : FloorGuard(t, c)
           \/ PrepareTx(t)
           \/ CommitTx(t)
           \/ AbortTx(t)
    \/ \E backup \in history : Restore(backup)
    \/ \E p \in FencePods :
           \/ Sample(p)
           \/ ScanActivity(p)
           \/ ScanPrepared(p)
           \/ Beat(p)
           \/ Record(p)
           \/ RecordRegression(p)
           \/ Rotate(p)
           \/ ProbeFails(p)
    \/ \E q \in Pages :
           \/ \E p \in FencePods, predicate \in Predicates, upper \in Stamps :
                  RouteRead(q, p, predicate, upper)
           \/ \E state \in history : Observe(q, state)
           \/ Resolve(q)
           \/ LeavePage(q)

FenceSpec == FenceInit /\ [][FenceNext]_fenceVars

-----------------------------------------------------------------------------
(***************************************************************************)
(* Properties.                                                             *)
(***************************************************************************)

\* Types, and the bound on the ring of every fence.
FenceTypeOK ==
    /\ clock \in Nat
    /\ db \in DbStates
    /\ history \subseteq DbStates
    /\ commits \in Nat
    /\ epochs \in Nat
    /\ restores \in Nat
    /\ tx \in [Txs -> TxRecords]
    /\ fences \in [FencePods -> FenceRecords]
    /\ \A p \in FencePods : Len(fences[p].ring) <= RingCapacity
    /\ probe \in [FencePods -> ProbeRecords]
    /\ page \in [Pages -> PageRecords]

\* A covered page has every row at or below its upper bound, those that are
\* committed while it is being served too: no transaction is in a fourth bucket
\* beside the three that replica_fence.rs names.  It may be relied on unless the
\* token that proved it was issued before, on a timeline since left.
CoveredPagesComplete ==
    \A q \in Pages :
        page[q].at = "covered" /\ ~page[q].entry.reissued
        => \A r \in db.rows : r.created_at <= page[q].upper => r \in page[q].snap.rows

\* A page under the read budget misses at most what was committed within the
\* budget before the verdict, on whatever timeline its reader is.
FreshPagesBounded ==
    \A q \in Pages :
        page[q].at = "fresh" /\ ~page[q].entry.reissued
        => \A r \in db.rows : r.committed < page[q].since => r \in page[q].snap.rows

\* What the module comment promises without exception ("degraded capacity, never
\* holes"): every covered page is complete.  It is not so: a fence whose ring is
\* empty does not notice that a restore has taken the token back within the epoch.
NeverHoles ==
    \A q \in Pages :
        page[q].at = "covered"
        => \A r \in db.rows : r.created_at <= page[q].upper => r \in page[q].snap.rows
=============================================================================
