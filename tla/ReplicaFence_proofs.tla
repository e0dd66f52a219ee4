------------------------ MODULE ReplicaFence_proofs ------------------------
(***************************************************************************)
(* What ReplicaFence promises, for every number of pods, transactions and  *)
(* pages and for every floor, margin, budget and size of the ring.         *)
(***************************************************************************)
EXTENDS ReplicaFence, TLAPS

-----------------------------------------------------------------------------
(***************************************************************************)
(* Types.                                                                  *)
(***************************************************************************)

\* Pushing an entry keeps the ring a sequence within its capacity, and what is
\* in it then was in it before or is the new entry (VecDeque in record).
LEMMA PushedIsRing ==
    ASSUME NEW ring \in Seq(TokenEntries), NEW entry \in TokenEntries,
           Len(ring) <= RingCapacity
    PROVE  /\ Pushed(ring, entry) \in Seq(TokenEntries)
           /\ Len(Pushed(ring, entry)) <= RingCapacity
           /\ \A i \in DOMAIN Pushed(ring, entry) :
                  \/ Pushed(ring, entry)[i] = entry
                  \/ \E j \in DOMAIN ring : Pushed(ring, entry)[i] = ring[j]
  <1>1. CASE Len(ring) = RingCapacity
    <2>1. ring # <<>>
      BY <1>1, FenceAssumption
    <2>2. /\ Tail(ring) \in Seq(TokenEntries)
          /\ Len(Tail(ring)) = Len(ring) - 1
          /\ \A i \in 1 .. Len(Tail(ring)) : Tail(ring)[i] = ring[i + 1]
      BY <2>1
    <2>3. Pushed(ring, entry) = Append(Tail(ring), entry)
      BY <1>1 DEF Pushed
    <2>4. /\ Append(Tail(ring), entry) \in Seq(TokenEntries)
          /\ Len(Append(Tail(ring), entry)) = Len(ring)
      BY <2>2
    <2>5. ASSUME NEW i \in DOMAIN Append(Tail(ring), entry)
          PROVE  \/ Append(Tail(ring), entry)[i] = entry
                 \/ \E j \in DOMAIN ring : Append(Tail(ring), entry)[i] = ring[j]
      <3>1. i \in 1 .. Len(ring)
        BY <2>4
      <3>2. CASE i = Len(ring)
        BY <2>2, <3>2
      <3>3. CASE i # Len(ring)
        <4>1. i + 1 \in DOMAIN ring /\ i \in 1 .. Len(Tail(ring))
          BY <2>2, <3>1, <3>3
        <4>2. Append(Tail(ring), entry)[i] = Tail(ring)[i]
          BY <2>2, <4>1
        <4> QED BY <2>2, <4>1, <4>2
      <3> QED BY <3>2, <3>3
    <2> QED BY <1>1, <2>3, <2>4, <2>5
  <1>2. CASE Len(ring) # RingCapacity
    <2>1. Pushed(ring, entry) = Append(ring, entry)
      BY <1>2 DEF Pushed
    <2>2. Len(Append(ring, entry)) <= RingCapacity
      BY <1>2, FenceAssumption
    <2> QED BY <2>1, <2>2
  <1> QED BY <1>1, <1>2

\* The states of the database stay of their type when a state is committed.
LEMMA AdvanceType ==
    ASSUME FenceTypeOK, NEW state \in DbStates, Advance(state)
    PROVE  db' \in DbStates /\ history' \subseteq DbStates
  BY DEF FenceTypeOK, Advance

\* The records of the model before their first step.
LEMMA BlankTypes ==
    /\ NoWrite \in TxRecords
    /\ NoEntry \in TokenEntries
    /\ IdleProbe \in ProbeRecords
    /\ \A p \in FencePods : NoPage(p) \in PageRecords
  <1>1. NoWrite \in TxRecords
    BY DEF NoWrite, TxRecords
  <1>2. NoEntry \in TokenEntries
    BY DEF NoEntry, TokenEntries
  <1>3. IdleProbe \in ProbeRecords
    BY <1>2 DEF IdleProbe, ProbeRecords, NoEpoch
  <1>4. [token |-> 0, epoch |-> NoEpoch, rows |-> {}] \in DbStates
    BY DEF DbStates, NoEpoch
  <1>5. \A p \in FencePods : NoPage(p) \in PageRecords
    BY <1>2, <1>4 DEF NoPage, PageRecords, Predicates
  <1> QED BY <1>1, <1>2, <1>3, <1>5

\* The steps of the writer keep the types.
LEMMA WriterType ==
    ASSUME FenceTypeOK,
           \/ WriterTick
           \/ \E t \in Txs :
                  \/ BeginTx(t)
                  \/ \E c \in Stamps : FloorGuard(t, c)
                  \/ PrepareTx(t)
                  \/ CommitTx(t)
                  \/ AbortTx(t)
           \/ \E backup \in history : Restore(backup)
    PROVE  FenceTypeOK'
  <1>a. NoWrite \in TxRecords
    BY BlankTypes
  <1>1. CASE WriterTick
    BY <1>1 DEF FenceTypeOK, WriterTick, writer
  <1>2. ASSUME NEW t \in Txs, BeginTx(t) PROVE FenceTypeOK'
    <2>1. [NoWrite EXCEPT !.at = "open", !.since = clock] \in TxRecords
      BY DEF FenceTypeOK, NoWrite, TxRecords
    <2> QED BY <1>2, <2>1 DEF FenceTypeOK, BeginTx, writer
  <1>3. ASSUME NEW t \in Txs, NEW c \in Stamps, FloorGuard(t, c) PROVE FenceTypeOK'
    <2>1. tx[t] \in TxRecords /\ c \in Nat /\ clock \in Nat
      BY FenceAssumption DEF FenceTypeOK
    <2>2. [tx[t] EXCEPT !.at = "guarded", !.created_at = c, !.guarded = clock] \in TxRecords
      BY <2>1 DEF TxRecords
    <2> QED BY <1>3, <2>2 DEF FenceTypeOK, FloorGuard, writer
  <1>4. ASSUME NEW t \in Txs, PrepareTx(t) PROVE FenceTypeOK'
    <2>1. tx[t] \in TxRecords /\ clock \in Nat
      BY DEF FenceTypeOK
    <2>2. [tx[t] EXCEPT !.at = "prepared", !.since = clock, !.guarded = 0] \in TxRecords
      BY <2>1 DEF TxRecords
    <2> QED BY <1>4, <2>2 DEF FenceTypeOK, PrepareTx, writer
  <1>5. ASSUME NEW t \in Txs, CommitTx(t) PROVE FenceTypeOK'
    <2>1. tx[t] \in TxRecords /\ commits \in Nat /\ clock \in Nat /\ db \in DbStates
      BY DEF FenceTypeOK
    <2>2. [id |-> commits, created_at |-> tx[t].created_at, committed |-> clock] \in Rows
      BY <2>1 DEF TxRecords, Rows
    <2>3. [db EXCEPT !.rows = @ \cup
              {[id |-> commits, created_at |-> tx[t].created_at, committed |-> clock]}]
             \in DbStates
      BY <2>1, <2>2 DEF DbStates
    <2>4. db' \in DbStates /\ history' \subseteq DbStates
      BY <1>5, <2>3, AdvanceType DEF CommitTx
    <2> QED BY <1>5, <1>a, <2>4 DEF FenceTypeOK, CommitTx
  <1>6. ASSUME NEW t \in Txs, AbortTx(t) PROVE FenceTypeOK'
    BY <1>6, <1>a DEF FenceTypeOK, AbortTx, writer
  <1>7. ASSUME NEW backup \in history, Restore(backup) PROVE FenceTypeOK'
    <2>1. backup \in DbStates /\ epochs \in Nat /\ epochs + 1 \in Nat
      BY DEF FenceTypeOK
    <2>2. [backup EXCEPT !.token = 0, !.epoch = epochs + 1] \in DbStates
      BY <2>1 DEF DbStates
    <2>3. db' \in DbStates /\ history' \subseteq DbStates /\ epochs' \in Nat
      <3>1. CASE db' = backup /\ UNCHANGED <<history, epochs>>
        BY <2>1, <3>1 DEF FenceTypeOK
      <3>2. CASE /\ Advance([backup EXCEPT !.token = 0, !.epoch = epochs + 1])
                 /\ epochs' = epochs + 1
        BY <2>1, <2>2, <3>2, AdvanceType
      <3> QED BY <1>7, <3>1, <3>2 DEF Restore
    <2>4. tx' = [t \in Txs |-> NoWrite] /\ restores' = restores + 1 /\ restores \in Nat
      BY <1>7 DEF FenceTypeOK, Restore
    <2>5. tx' \in [Txs -> TxRecords] /\ restores' \in Nat
      BY <1>a, <2>4
    <2> QED BY <1>7, <2>3, <2>5 DEF FenceTypeOK, Restore
  <1> QED BY <1>1, <1>2, <1>3, <1>4, <1>5, <1>6, <1>7

\* The steps of the probes keep the types.
LEMMA ProbeType ==
    ASSUME FenceTypeOK, NEW p \in FencePods,
           \/ Sample(p)
           \/ ScanActivity(p)
           \/ ScanPrepared(p)
           \/ Beat(p)
           \/ Record(p)
           \/ RecordRegression(p)
           \/ Rotate(p)
           \/ ProbeFails(p)
    PROVE  FenceTypeOK'
  <1>a. /\ probe[p] \in ProbeRecords
        /\ probe[p].entry \in TokenEntries
        /\ probe[p].epoch \in Nat
        /\ fences[p] \in FenceRecords
        /\ fences[p].ring \in Seq(TokenEntries)
        /\ Len(fences[p].ring) <= RingCapacity
        /\ clock \in Nat /\ restores \in Nat /\ epochs \in Nat
        /\ db \in DbStates /\ db.token + 1 \in Nat /\ db.epoch \in Nat
        /\ epochs + 1 \in Nat
    BY DEF FenceTypeOK, ProbeRecords, FenceRecords, DbStates
  <1>b. IdleProbe \in ProbeRecords /\ NoEntry \in TokenEntries
    BY BlankTypes
  <1>c. ASSUME NEW token \in Nat, NEW epoch \in Nat, Returned(p, token, epoch)
        PROVE  probe' \in [FencePods -> ProbeRecords]
    <2>1. Reissued(token, epoch) \in BOOLEAN
      BY DEF Reissued
    <2>2. [probe[p].entry EXCEPT !.token = token, !.reissued = Reissued(token, epoch)]
             \in TokenEntries
      BY <1>a, <2>1 DEF TokenEntries
    <2>3. PICK entry \in TokenEntries :
              entry = [probe[p].entry EXCEPT !.token = token,
                                             !.reissued = Reissued(token, epoch)]
      BY <2>2
    <2>4. [probe[p] EXCEPT !.at = "beaten", !.epoch = epoch, !.entry = entry]
             \in ProbeRecords
      BY <1>a DEF ProbeRecords
    <2>5. probe' = [probe EXCEPT ![p] =
              [probe[p] EXCEPT !.at = "beaten", !.epoch = epoch, !.entry = entry]]
      BY <1>c, <2>3 DEF Returned
    <2> QED BY <2>4, <2>5 DEF FenceTypeOK
  <1>d. /\ [fences[p] EXCEPT !.ring = <<>>] \in FenceRecords
        /\ [fences[p] EXCEPT !.ring = <<>>].ring = <<>>
        /\ <<>> \in Seq(TokenEntries)
        /\ Len(<<>>) <= RingCapacity
    <2>1. <<>> \in Seq(TokenEntries) /\ Len(<<>>) = 0 /\ 0 <= RingCapacity
      BY FenceAssumption
    <2>2. [fences[p] EXCEPT !.ring = <<>>] \in FenceRecords
      BY <1>a, <2>1 DEF FenceRecords
    <2>3. [fences[p] EXCEPT !.ring = <<>>].ring = <<>>
      BY <1>a DEF FenceRecords
    <2> QED BY <2>1, <2>2, <2>3
  <1>1. CASE Sample(p)
    <2>1. [IdleProbe EXCEPT !.at = "sampled", !.conn = restores, !.lower = clock]
             \in ProbeRecords
      BY <1>a, <1>b DEF ProbeRecords
    <2> QED BY <1>1, <2>1 DEF FenceTypeOK, Sample, writer
  <1>2. CASE ScanActivity(p)
    <2>1. PICK m \in 0 .. clock :
              probe' = [probe EXCEPT ![p] = [@ EXCEPT !.at = "activity", !.lower = m]]
      BY <1>2 DEF ScanActivity
    <2>a. m \in Nat
      BY <1>a
    <2>2. [probe[p] EXCEPT !.at = "activity", !.lower = m] \in ProbeRecords
      BY <1>a, <2>a DEF ProbeRecords
    <2> QED BY <1>2, <2>1, <2>2 DEF FenceTypeOK, ScanActivity, writer
  <1>3. CASE ScanPrepared(p)
    <2>1. PICK m \in 0 .. clock :
              probe' = [probe EXCEPT ![p] =
                           [@ EXCEPT !.at = "scanned", !.lower = 0, !.entry = Stamped(m)]]
      BY <1>3 DEF ScanPrepared
    <2>a. m - Floor - Margin \in Int
      BY <1>a, FenceAssumption
    <2>2. Stamped(m) \in TokenEntries
      BY <1>a, <1>b, <2>a DEF Stamped, TokenEntries
    <2>3. [probe[p] EXCEPT !.at = "scanned", !.lower = 0, !.entry = Stamped(m)]
             \in ProbeRecords
      BY <1>a, <2>2 DEF ProbeRecords
    <2> QED BY <1>3, <2>1, <2>3 DEF FenceTypeOK, ScanPrepared, writer
  <1>4. CASE Beat(p)
    <2>1. [db EXCEPT !.token = @ + 1] \in DbStates
      BY <1>a DEF DbStates
    <2>2. db' \in DbStates /\ history' \subseteq DbStates
      BY <1>4, <2>1, AdvanceType DEF Beat
    <2>3. probe' \in [FencePods -> ProbeRecords]
      BY <1>4, <1>a, <1>c DEF Beat
    <2> QED BY <1>4, <2>2, <2>3 DEF FenceTypeOK, Beat
  <1>5. CASE Record(p)
    <2>1. PICK ring \in Seq(TokenEntries) :
              /\ ring = (IF fences[p].epoch = probe[p].epoch THEN fences[p].ring ELSE <<>>)
              /\ Len(ring) <= RingCapacity
      <3>1. CASE fences[p].epoch = probe[p].epoch
        BY <1>a, <3>1
      <3>2. CASE fences[p].epoch # probe[p].epoch
        BY <1>d, <3>2
      <3> QED BY <3>1, <3>2
    <2>2. /\ Pushed(ring, probe[p].entry) \in Seq(TokenEntries)
          /\ Len(Pushed(ring, probe[p].entry)) <= RingCapacity
      BY <1>a, <2>1, PushedIsRing
    <2>3. PICK pushed \in Seq(TokenEntries) :
              pushed = Pushed(ring, probe[p].entry) /\ Len(pushed) <= RingCapacity
      BY <2>2
    <2>4. fences' = [fences EXCEPT ![p] = [epoch |-> probe[p].epoch, ring |-> pushed]]
      BY <1>5, <2>1, <2>3 DEF Record
    <2>5. [epoch |-> probe[p].epoch, ring |-> pushed] \in FenceRecords
      BY <1>a DEF FenceRecords
    <2>6. /\ fences' \in [FencePods -> FenceRecords]
          /\ \A o \in FencePods : Len(fences'[o].ring) <= RingCapacity
      BY <2>3, <2>4, <2>5 DEF FenceTypeOK
    <2> QED BY <1>5, <1>b, <2>6 DEF FenceTypeOK, Record, writer
  <1>6. CASE RecordRegression(p)
    <2>1. [NoEntry EXCEPT !.committed_at = clock,
                          !.fence_wall = probe[p].entry.fence_wall] \in TokenEntries
      BY <1>a, <1>b DEF TokenEntries
    <2>2. PICK entry \in TokenEntries :
              entry = [NoEntry EXCEPT !.committed_at = clock,
                                      !.fence_wall = probe[p].entry.fence_wall]
      BY <2>1
    <2>3. [IdleProbe EXCEPT !.at = "rotate", !.entry = entry] \in ProbeRecords
      BY <1>b DEF ProbeRecords
    <2>4. /\ fences' \in [FencePods -> FenceRecords]
          /\ \A o \in FencePods : Len(fences'[o].ring) <= RingCapacity
      BY <1>6, <1>d DEF FenceTypeOK, RecordRegression
    <2>5. probe' \in [FencePods -> ProbeRecords]
      BY <1>6, <2>2, <2>3 DEF FenceTypeOK, RecordRegression
    <2> QED BY <1>6, <2>4, <2>5 DEF FenceTypeOK, RecordRegression, writer
  <1>7. CASE Rotate(p)
    <2>1. [db EXCEPT !.token = @ + 1, !.epoch = epochs + 1] \in DbStates
      BY <1>a DEF DbStates
    <2>2. db' \in DbStates /\ history' \subseteq DbStates
      BY <1>7, <2>1, AdvanceType DEF Rotate
    <2>3. probe' \in [FencePods -> ProbeRecords]
      BY <1>7, <1>a, <1>c DEF Rotate
    <2> QED BY <1>7, <2>2, <2>3 DEF FenceTypeOK, Rotate
  <1>8. CASE ProbeFails(p)
    <2>1. /\ fences' \in [FencePods -> FenceRecords]
          /\ \A o \in FencePods : Len(fences'[o].ring) <= RingCapacity
      BY <1>8, <1>d DEF FenceTypeOK, ProbeFails
    <2> QED BY <1>8, <1>b, <2>1 DEF FenceTypeOK, ProbeFails, writer
  <1> QED BY <1>1, <1>2, <1>3, <1>4, <1>5, <1>6, <1>7, <1>8

\* What a fence proves is one of its entries (ReplicaFence::resolve).
LEMMA ProvedIsRetained ==
    ASSUME FenceTypeOK, NEW p \in FencePods, NEW token, NEW epoch,
           NEW entry \in Proved(p, token, epoch)
    PROVE  /\ entry \in TokenEntries
           /\ fences[p].epoch = epoch
           /\ entry.token <= token
           /\ \E i \in DOMAIN fences[p].ring : entry = fences[p].ring[i]
  <1>1. fences[p].epoch = epoch
    BY DEF Proved
  <1>2. PICK i \in DOMAIN fences[p].ring :
            entry = fences[p].ring[i] /\ fences[p].ring[i].token <= token
    BY <1>1 DEF Proved
  <1>3. fences[p].ring \in Seq(TokenEntries)
    BY DEF FenceTypeOK, FenceRecords
  <1> QED BY <1>1, <1>2, <1>3 DEF FenceRecords

\* The steps of a read keep the types.
LEMMA PageType ==
    ASSUME FenceTypeOK, NEW q \in Pages,
           \/ \E p \in FencePods, predicate \in Predicates, upper \in Stamps :
                  RouteRead(q, p, predicate, upper)
           \/ \E state \in history : Observe(q, state)
           \/ Resolve(q)
           \/ LeavePage(q)
    PROVE  FenceTypeOK'
  <1>a. /\ page[q] \in PageRecords
        /\ page[q].pod \in FencePods
        /\ page[q].upper \in Nat
        /\ page[q].snap \in DbStates
        /\ \A tail \in page[q].snap.rows : tail.created_at \in Nat
    BY DEF FenceTypeOK, PageRecords, DbStates, Rows
  <1>b. \A p \in FencePods : NoPage(p) \in PageRecords
    BY BlankTypes
  <1>1. ASSUME NEW p \in FencePods, NEW predicate \in Predicates, NEW upper \in Stamps,
               RouteRead(q, p, predicate, upper)
        PROVE  FenceTypeOK'
    <2>1. upper \in Nat
      BY FenceAssumption
    <2>2. [NoPage(p) EXCEPT !.at = "admitted", !.predicate = predicate, !.upper = upper]
             \in PageRecords
      <3>1. PICK blank \in PageRecords : blank = NoPage(p)
        BY <1>b
      <3>2. [blank EXCEPT !.at = "admitted", !.predicate = predicate, !.upper = upper]
               \in PageRecords
        BY <2>1 DEF PageRecords
      <3> QED BY <3>1, <3>2
    <2> QED BY <1>1, <2>2 DEF FenceTypeOK, RouteRead, writer
  <1>2. ASSUME NEW state \in history, Observe(q, state) PROVE FenceTypeOK'
    <2>1. state \in DbStates
      BY DEF FenceTypeOK
    <2>2. [page[q] EXCEPT !.at = "observed", !.snap = state] \in PageRecords
      BY <1>a, <2>1 DEF PageRecords
    <2> QED BY <1>2, <2>2 DEF FenceTypeOK, Observe, writer
  <1>3. CASE Resolve(q)
    <2>1. PICK entry \in Proved(page[q].pod, page[q].snap.token, page[q].snap.epoch) :
              \/ \E upper \in Nat : ServeCovered(q, entry, upper)
              \/ ServeFresh(q, entry)
      BY <1>3, <1>a DEF Resolve
    <2>2. entry \in TokenEntries
      BY <1>a, ProvedIsRetained
    <2>3. ASSUME NEW upper \in Nat, ServeCovered(q, entry, upper)
          PROVE  page' \in [Pages -> PageRecords]
      <3>1. [NoPage(page[q].pod) EXCEPT !.at = "covered", !.snap = page[q].snap,
                                        !.entry = entry, !.upper = upper] \in PageRecords
        BY <1>a, <1>b, <2>2 DEF PageRecords
      <3> QED BY <2>3, <3>1 DEF FenceTypeOK, ServeCovered
    <2>4. ASSUME ServeFresh(q, entry)
          PROVE  page' \in [Pages -> PageRecords]
      <3>1. clock - ReadMaxAge \in Int
        BY FenceAssumption DEF FenceTypeOK
      <3>2. [NoPage(page[q].pod) EXCEPT !.at = "fresh", !.snap = page[q].snap,
                                        !.entry = entry, !.since = clock - ReadMaxAge]
               \in PageRecords
        BY <1>a, <1>b, <2>2, <3>1 DEF PageRecords
      <3> QED BY <2>4, <3>2 DEF FenceTypeOK, ServeFresh
    <2>5. page' \in [Pages -> PageRecords]
      BY <2>1, <2>3, <2>4
    <2> QED BY <1>3, <2>5 DEF FenceTypeOK, Resolve, writer
  <1>4. CASE LeavePage(q)
    BY <1>4, <1>a, <1>b DEF FenceTypeOK, LeavePage, writer
  <1> QED BY <1>1, <1>2, <1>3, <1>4

\* Every step keeps the types and the bound on the rings.
LEMMA FenceTypeStep ==
    ASSUME FenceTypeOK, [FenceNext]_fenceVars
    PROVE  FenceTypeOK'
  <1>1. CASE UNCHANGED fenceVars
    BY <1>1 DEF FenceTypeOK, fenceVars, writer
  <1>2. CASE FenceNext
    BY <1>2, WriterType, ProbeType, PageType DEF FenceNext
  <1> QED BY <1>1, <1>2

\* A fence starts closed: its ring is empty.
LEMMA FenceTypeInit ==
    ASSUME FenceInit
    PROVE  FenceTypeOK
  <1>1. db \in DbStates
    BY DEF FenceInit, DbStates
  <1>2. [epoch |-> NoEpoch, ring |-> <<>>] \in FenceRecords
    BY DEF FenceRecords, NoEpoch
  <1>3. /\ fences \in [FencePods -> FenceRecords]
        /\ \A p \in FencePods : Len(fences[p].ring) <= RingCapacity
    BY <1>2, FenceAssumption DEF FenceInit
  <1> QED BY <1>1, <1>3, BlankTypes DEF FenceInit, FenceTypeOK

-----------------------------------------------------------------------------
(***************************************************************************)
(* What an entry vouches for, and that no step of anybody takes it away.   *)
(***************************************************************************)

\* The transactions whose row has passed the floor guard.
Guarded == {t \in Txs : tx[t].at \in {"guarded", "prepared"}}

\* No row at or below the entry's wall can be committed any more, neither by a
\* transaction that has passed the guard nor by one that will: the guard would
\* stop it.
Walled(e) ==
    /\ e.committed_at <= clock
    /\ e.fence_wall + Floor < clock
    /\ \A t \in Guarded : e.fence_wall < tx[t].created_at

\* Nothing the entry vouches for is missing among the rows S: nothing at or below
\* its wall, and nothing committed before it.
Complete(e, S) ==
    \A r \in db.rows :
        r.created_at <= e.fence_wall \/ r.committed < e.committed_at => r \in S

\* Every session of the epoch that has the entry's token lacks nothing.
Covers(e, epoch) ==
    \A h \in history : h.epoch = epoch /\ e.token <= h.token => Complete(e, h.rows)

\* An entry on which reads may be routed.
Sound(e, epoch) == Walled(e) /\ (~e.reissued => Covers(e, epoch))

\* What all steps have in common: time goes on, a transaction newly past the guard
\* has a row that is not below the floor now, a new row comes from a transaction
\* past the guard, and a new state has all rows.
Orderly ==
    /\ clock <= clock'
    /\ \A t \in Guarded' :
           \/ /\ t \in Guarded /\ tx'[t].created_at = tx[t].created_at
              /\ tx'[t].at = "guarded" => tx[t].at = "guarded"
           \/ clock <= tx'[t].created_at + Floor
    /\ \A r \in db'.rows :
           \/ r \in db.rows
           \/ r.committed = clock /\ \E t \in Guarded : r.created_at = tx[t].created_at
    /\ \A h \in history' : h \in history \/ db'.rows \subseteq h.rows

\* A step of the writer is orderly.
LEMMA WriterOrderly ==
    ASSUME FenceTypeOK,
           \/ WriterTick
           \/ \E t \in Txs :
                  \/ BeginTx(t)
                  \/ \E c \in Stamps : FloorGuard(t, c)
                  \/ PrepareTx(t)
                  \/ CommitTx(t)
                  \/ AbortTx(t)
           \/ \E backup \in history : Restore(backup)
    PROVE  Orderly
  <1>a. /\ clock \in Nat /\ tx \in [Txs -> TxRecords]
        /\ db \in DbStates /\ history \subseteq DbStates
    BY DEF FenceTypeOK
  <1>1. CASE WriterTick
    BY <1>1, <1>a DEF WriterTick, writer, Orderly, Guarded
  <1>2. ASSUME NEW t \in Txs, BeginTx(t) PROVE Orderly
    <2>1. tx'[t].at = "open" /\ \A u \in Txs : u # t => tx'[u] = tx[u]
      BY <1>2, <1>a DEF BeginTx, NoWrite
    <2>2. UNCHANGED <<clock, db, history>>
      BY <1>2 DEF BeginTx, writer
    <2> QED BY <1>a, <2>1, <2>2 DEF Orderly, Guarded
  <1>3. ASSUME NEW t \in Txs, NEW c \in Stamps, FloorGuard(t, c) PROVE Orderly
    <2>1. /\ tx'[t].created_at = c /\ clock <= c + Floor
          /\ \A u \in Txs : u # t => tx'[u] = tx[u]
      BY <1>3, <1>a, FenceAssumption DEF FloorGuard, TxRecords
    <2>2. UNCHANGED <<clock, db, history>>
      BY <1>3 DEF FloorGuard, writer
    <2> QED BY <1>a, <2>1, <2>2 DEF Orderly, Guarded
  <1>4. ASSUME NEW t \in Txs, PrepareTx(t) PROVE Orderly
    <2>1. /\ tx[t].at = "guarded" /\ tx'[t].created_at = tx[t].created_at
          /\ \A u \in Txs : u # t => tx'[u] = tx[u]
      BY <1>4, <1>a DEF PrepareTx, TxRecords
    <2>2. UNCHANGED <<clock, db, history>>
      BY <1>4 DEF PrepareTx, writer
    <2> QED BY <1>a, <2>1, <2>2 DEF Orderly, Guarded
  <1>5. ASSUME NEW t \in Txs, CommitTx(t) PROVE Orderly
    <2>1. PICK row \in Rows :
              row = [id |-> commits, created_at |-> tx[t].created_at, committed |-> clock]
      BY <1>a DEF FenceTypeOK, TxRecords, Rows
    <2>2. /\ db' = [db EXCEPT !.rows = @ \cup {row}]
          /\ history' = history \cup {db'}
      BY <1>5, <2>1 DEF CommitTx, Advance
    <2>3. db'.rows = db.rows \cup {row}
      BY <1>a, <2>2 DEF DbStates
    <2>4. t \in Guarded /\ row.created_at = tx[t].created_at /\ row.committed = clock
      BY <1>5, <2>1 DEF CommitTx, Guarded
    <2>5. tx'[t].at = "none" /\ \A u \in Txs : u # t => tx'[u] = tx[u]
      BY <1>5, <1>a DEF CommitTx, NoWrite
    <2>6. clock' = clock
      BY <1>5 DEF CommitTx
    <2>7. \A u \in Guarded' : u \in Guarded /\ tx'[u] = tx[u]
      BY <2>5 DEF Guarded
    <2>8. \A h \in history' : h \in history \/ db'.rows \subseteq h.rows
      BY <2>2
    <2>9. \A r \in db'.rows :
              \/ r \in db.rows
              \/ r.committed = clock /\ \E u \in Guarded : r.created_at = tx[u].created_at
      BY <2>3, <2>4
    <2>10. clock <= clock'
      BY <1>a, <2>6
    <2> QED BY <2>7, <2>8, <2>9, <2>10 DEF Orderly
  <1>6. ASSUME NEW t \in Txs, AbortTx(t) PROVE Orderly
    <2>1. tx'[t].at = "none" /\ \A u \in Txs : u # t => tx'[u] = tx[u]
      BY <1>6, <1>a DEF AbortTx, NoWrite
    <2>2. UNCHANGED <<clock, db, history>>
      BY <1>6 DEF AbortTx, writer
    <2> QED BY <1>a, <2>1, <2>2 DEF Orderly, Guarded
  <1>7. ASSUME NEW backup \in history, Restore(backup) PROVE Orderly
    <2>1. \A u \in Txs : tx'[u].at = "none"
      BY <1>7 DEF Restore, NoWrite
    <2>2. clock' = clock
      BY <1>7 DEF Restore
    <2>3. db'.rows \subseteq db.rows /\ \A h \in history' : h \in history \/ h = db'
      <3>1. CASE db' = backup /\ UNCHANGED <<history, epochs>>
        BY <1>7, <3>1 DEF Restore
      <3>2. CASE Advance([backup EXCEPT !.token = 0, !.epoch = epochs + 1])
        <4>1. db'.rows = backup.rows
          BY <1>a, <3>2 DEF Advance, DbStates
        <4> QED BY <1>7, <3>2, <4>1 DEF Restore, Advance
      <3> QED BY <1>7, <3>1, <3>2 DEF Restore
    <2> QED BY <1>a, <2>1, <2>2, <2>3 DEF Orderly, Guarded
  <1> QED BY <1>1, <1>2, <1>3, <1>4, <1>5, <1>6, <1>7

\* Every step is.
LEMMA StepOrderly ==
    ASSUME FenceTypeOK, [FenceNext]_fenceVars
    PROVE  Orderly
  <1>a. clock \in Nat /\ db \in DbStates /\ epochs \in Nat
    BY DEF FenceTypeOK
  <1>1. ASSUME UNCHANGED <<clock, db, history, tx>> PROVE Orderly
    BY <1>1, <1>a DEF Orderly, Guarded
  <1>2. CASE UNCHANGED fenceVars
    BY <1>1, <1>2 DEF fenceVars, writer
  <1>3. ASSUME NEW p \in FencePods,
               \/ Sample(p)
               \/ ScanActivity(p)
               \/ ScanPrepared(p)
               \/ Record(p)
               \/ RecordRegression(p)
               \/ ProbeFails(p)
        PROVE  Orderly
    BY <1>1, <1>3 DEF Sample, ScanActivity, ScanPrepared, Record, RecordRegression,
       ProbeFails, writer
  <1>4. ASSUME NEW p \in FencePods, Beat(p) \/ Rotate(p) PROVE Orderly
    <2>1. UNCHANGED <<clock, tx>>
      BY <1>4 DEF Beat, Rotate
    <2>2. history' = history \cup {db'}
      BY <1>4 DEF Beat, Rotate, Advance
    <2>3. db'.rows = db.rows
      BY <1>4, <1>a DEF Beat, Rotate, Advance, DbStates
    <2> QED BY <1>a, <2>1, <2>2, <2>3 DEF Orderly, Guarded
  <1>5. ASSUME NEW q \in Pages,
               \/ \E p \in FencePods, predicate \in Predicates, upper \in Stamps :
                      RouteRead(q, p, predicate, upper)
               \/ \E state \in history : Observe(q, state)
               \/ Resolve(q)
               \/ LeavePage(q)
        PROVE  Orderly
    BY <1>1, <1>5 DEF RouteRead, Observe, Resolve, LeavePage, writer
  <1>6. CASE FenceNext
    BY <1>3, <1>4, <1>5, <1>6, WriterOrderly DEF FenceNext
  <1> QED BY <1>2, <1>6

\* An entry's wall stands once it stands.
LEMMA WalledStays ==
    ASSUME FenceTypeOK, FenceTypeOK', Orderly, NEW e \in TokenEntries, Walled(e)
    PROVE  Walled(e)'
  <1>1. /\ clock \in Nat /\ clock' \in Nat /\ clock <= clock'
        /\ e.committed_at \in Nat /\ e.fence_wall \in Int
        /\ Floor \in Nat
    BY FenceAssumption DEF FenceTypeOK, Orderly, TokenEntries
  <1>2. ASSUME NEW t \in Guarded'
        PROVE  e.fence_wall < tx'[t].created_at
    <2>1. t \in Txs /\ tx'[t].created_at \in Nat
      BY DEF Guarded, FenceTypeOK, TxRecords
    <2>2. CASE t \in Guarded /\ tx'[t].created_at = tx[t].created_at
      BY <2>2 DEF Walled
    <2>3. CASE clock <= tx'[t].created_at + Floor
      BY <1>1, <2>1, <2>3 DEF Walled
    <2> QED BY <2>2, <2>3 DEF Orderly
  <1> QED BY <1>1, <1>2 DEF Walled

\* Rows that lack nothing behind a wall will not come to lack anything.
LEMMA CompleteStays ==
    ASSUME FenceTypeOK, Orderly, NEW e \in TokenEntries, NEW S,
           Walled(e), Complete(e, S)
    PROVE  Complete(e, S)'
  <1>1. SUFFICES ASSUME NEW r \in db'.rows,
                        r.created_at <= e.fence_wall \/ r.committed < e.committed_at
                 PROVE  r \in S
    BY DEF Complete
  <1>2. clock \in Nat /\ e.committed_at \in Nat /\ e.fence_wall \in Int
    BY DEF FenceTypeOK, TokenEntries
  <1>3. CASE r \in db.rows
    BY <1>1, <1>3 DEF Complete
  <1>4. ASSUME r.committed = clock, NEW t \in Guarded, r.created_at = tx[t].created_at
        PROVE  FALSE
    <2>1. tx[t].created_at \in Nat
      BY DEF Guarded, FenceTypeOK, TxRecords
    <2>2. e.committed_at <= clock /\ e.fence_wall < tx[t].created_at
      BY DEF Walled
    <2> QED BY <1>1, <1>2, <1>4, <2>1, <2>2
  <1> QED BY <1>3, <1>4 DEF Orderly

\* A sound entry stays sound, whatever the writer, the pods and the readers do:
\* the proof of a retained entry "never decays".
LEMMA SoundStays ==
    ASSUME FenceTypeOK, FenceTypeOK', Orderly, NEW e \in TokenEntries, NEW epoch,
           Sound(e, epoch)
    PROVE  Sound(e, epoch)'
  <1>1. Walled(e) /\ Walled(e)'
    BY WalledStays DEF Sound
  <1>2. ASSUME ~e.reissued, NEW h \in history', h.epoch = epoch, e.token <= h.token
        PROVE  Complete(e, h.rows)'
    <2>1. CASE h \in history
      <3>1. Complete(e, h.rows)
        BY <1>2, <2>1 DEF Sound, Covers
      <3> QED BY <1>1, <3>1, CompleteStays
    <2>2. CASE db'.rows \subseteq h.rows
      BY <2>2 DEF Complete
    <2> QED BY <2>1, <2>2 DEF Orderly
  <1>3. ~e.reissued => Covers(e, epoch)'
    BY <1>2 DEF Covers
  <1> QED BY <1>1, <1>3 DEF Sound

-----------------------------------------------------------------------------
(***************************************************************************)
(* The invariant: what a transaction, a probe, a ring and a page hold.     *)
(***************************************************************************)

\* The stamps by which a scan bounds the row of a transaction: xact_start comes
\* before the guard, and `prepared` less than the margin after it.
TxInv ==
    \A t \in Txs :
        /\ tx[t].since <= clock
        /\ tx[t].at = "guarded" => /\ tx[t].since <= tx[t].guarded
                                   /\ tx[t].guarded <= tx[t].created_at + Floor
        /\ tx[t].at = "prepared" => tx[t].since < tx[t].created_at + Floor + Margin

\* The writer's state is one of the history's, and a new epoch is in none.
HistoryInv == db \in history /\ \A h \in history : h.epoch <= epochs

\* Between the two scans the transactions that were prepared before the first one
\* are not yet bounded; those past the guard and not prepared are.
Bounded(lower) ==
    \A t \in Txs : tx[t].at = "guarded" => lower < tx[t].created_at + Floor + Margin

ProbeFine(p) ==
    /\ probe[p].lower <= clock
    /\ probe[p].at = "activity" => Bounded(probe[p].lower)
    /\ probe[p].at \in {"scanned", "rotate"} => Walled(probe[p].entry)
    /\ probe[p].at = "beaten" => Sound(probe[p].entry, probe[p].epoch)

ProbeInv == \A p \in FencePods : ProbeFine(p)

RingFine(p) == \A i \in DOMAIN fences[p].ring : Sound(fences[p].ring[i], fences[p].epoch)

RingInv == \A p \in FencePods : RingFine(p)

\* A page served on an entry keeps what the entry vouches for, after the ring has
\* dropped the entry too.
PageFine(q) ==
    /\ page[q].at = "observed" => page[q].snap \in history
    /\ page[q].at \in {"covered", "fresh"} =>
           /\ Walled(page[q].entry)
           /\ ~page[q].entry.reissued => Complete(page[q].entry, page[q].snap.rows)
    /\ page[q].at = "covered" => page[q].upper <= page[q].entry.fence_wall
    /\ page[q].at = "fresh" => page[q].since <= page[q].entry.committed_at

PageInv == \A q \in Pages : PageFine(q)

FenceInv == FenceTypeOK /\ TxInv /\ HistoryInv /\ ProbeInv /\ RingInv /\ PageInv

\* Before the first step there is nothing to be sound about.
LEMMA FenceInvInit ==
    ASSUME FenceInit
    PROVE  FenceInv
  <1>1. FenceTypeOK
    BY FenceTypeInit
  <1>2. TxInv
    BY DEF FenceInit, TxInv, NoWrite
  <1>3. HistoryInv
    BY DEF FenceInit, HistoryInv
  <1>4. ProbeInv
    BY DEF FenceInit, ProbeInv, ProbeFine, IdleProbe
  <1>5. RingInv
    BY DEF FenceInit, RingInv, RingFine
  <1>6. PageInv
    BY DEF FenceInit, PageInv, PageFine, NoPage
  <1> QED BY <1>1, <1>2, <1>3, <1>4, <1>5, <1>6 DEF FenceInv

\* The stamps of the transactions.
LEMMA TxStep ==
    ASSUME FenceTypeOK, TxInv, [FenceNext]_fenceVars
    PROVE  TxInv'
  <1>a. /\ clock \in Nat /\ tx \in [Txs -> TxRecords]
        /\ \A t \in Txs : /\ tx[t].since \in Nat /\ tx[t].created_at \in Nat
                          /\ tx[t].guarded \in Nat
        /\ Floor \in Nat /\ Margin \in Nat /\ Margin > 0
    BY FenceAssumption DEF FenceTypeOK, TxRecords
  <1>1. ASSUME UNCHANGED <<clock, tx>> PROVE TxInv'
    BY <1>1 DEF TxInv
  <1>2. CASE UNCHANGED fenceVars
    BY <1>1, <1>2 DEF fenceVars
  <1>3. CASE WriterTick
    BY <1>3, <1>a DEF WriterTick, TxInv
  <1>4. ASSUME NEW t \in Txs, BeginTx(t) PROVE TxInv'
    <2>1. /\ tx'[t].at = "open" /\ tx'[t].since = clock
          /\ \A u \in Txs : u # t => tx'[u] = tx[u]
          /\ clock' = clock
      BY <1>4, <1>a DEF BeginTx, NoWrite
    <2> QED BY <1>a, <2>1 DEF TxInv
  <1>5. ASSUME NEW t \in Txs, NEW c \in Stamps, FloorGuard(t, c) PROVE TxInv'
    <2>1. /\ tx'[t].at = "guarded" /\ tx'[t].since = tx[t].since
          /\ tx'[t].created_at = c /\ tx'[t].guarded = clock
          /\ clock <= c + Floor
          /\ \A u \in Txs : u # t => tx'[u] = tx[u]
          /\ clock' = clock
      BY <1>5, <1>a, FenceAssumption DEF FloorGuard, TxRecords
    <2> QED BY <1>a, <2>1 DEF TxInv
  <1>6. ASSUME NEW t \in Txs, PrepareTx(t) PROVE TxInv'
    <2>1. /\ tx[t].at = "guarded" /\ clock < tx[t].guarded + Margin
          /\ tx'[t].at = "prepared" /\ tx'[t].since = clock
          /\ tx'[t].created_at = tx[t].created_at
          /\ \A u \in Txs : u # t => tx'[u] = tx[u]
          /\ clock' = clock
      BY <1>6, <1>a DEF PrepareTx, TxRecords
    <2>2. clock < tx[t].created_at + Floor + Margin
      BY <1>a, <2>1 DEF TxInv
    <2> QED BY <1>a, <2>1, <2>2 DEF TxInv
  <1>7. ASSUME NEW t \in Txs, CommitTx(t) \/ AbortTx(t) PROVE TxInv'
    <2>1. /\ tx'[t].at = "none" /\ tx'[t].since = 0
          /\ \A u \in Txs : u # t => tx'[u] = tx[u]
          /\ clock' = clock
      BY <1>7, <1>a DEF CommitTx, AbortTx, NoWrite
    <2> QED BY <1>a, <2>1 DEF TxInv
  <1>8. ASSUME NEW backup \in history, Restore(backup) PROVE TxInv'
    <2>1. (\A u \in Txs : tx'[u].at = "none" /\ tx'[u].since = 0) /\ clock' = clock
      BY <1>8 DEF Restore, NoWrite
    <2> QED BY <1>a, <2>1 DEF TxInv
  <1>9. ASSUME NEW p \in FencePods,
               \/ Sample(p)
               \/ ScanActivity(p)
               \/ ScanPrepared(p)
               \/ Beat(p)
               \/ Record(p)
               \/ RecordRegression(p)
               \/ Rotate(p)
               \/ ProbeFails(p)
        PROVE  TxInv'
    BY <1>1, <1>9 DEF Sample, ScanActivity, ScanPrepared, Beat, Record,
       RecordRegression, Rotate, ProbeFails
  <1>10. ASSUME NEW q \in Pages,
                \/ \E p \in FencePods, predicate \in Predicates, upper \in Stamps :
                       RouteRead(q, p, predicate, upper)
                \/ \E state \in history : Observe(q, state)
                \/ Resolve(q)
                \/ LeavePage(q)
         PROVE  TxInv'
    BY <1>1, <1>10 DEF RouteRead, Observe, Resolve, LeavePage
  <1>11. CASE FenceNext
    BY <1>3, <1>4, <1>5, <1>6, <1>7, <1>8, <1>9, <1>10, <1>11 DEF FenceNext
  <1> QED BY <1>2, <1>11

\* Epochs are drawn anew.
LEMMA HistoryStep ==
    ASSUME FenceTypeOK, HistoryInv, [FenceNext]_fenceVars
    PROVE  HistoryInv' /\ history \subseteq history'
  <1>a. /\ db \in DbStates /\ db.epoch \in Nat /\ epochs \in Nat
        /\ history \subseteq DbStates /\ \A h \in history : h.epoch \in Nat
    BY DEF FenceTypeOK, DbStates
  <1>1. ASSUME UNCHANGED <<db, history, epochs>>
        PROVE  HistoryInv' /\ history \subseteq history'
    BY <1>1 DEF HistoryInv
  <1>2. ASSUME history' = history \cup {db'}, epochs' \in Nat, epochs <= epochs',
               db'.epoch \in Nat, db'.epoch <= epochs'
        PROVE  HistoryInv' /\ history \subseteq history'
    BY <1>2, <1>a DEF HistoryInv
  <1>3. CASE UNCHANGED fenceVars
    BY <1>1, <1>3 DEF fenceVars, writer
  <1>4. ASSUME NEW t \in Txs, CommitTx(t)
        PROVE  HistoryInv' /\ history \subseteq history'
    <2>1. /\ history' = history \cup {db'} /\ epochs' = epochs
          /\ db' = [db EXCEPT !.rows = @ \cup {[id |-> commits,
                        created_at |-> tx[t].created_at, committed |-> clock]}]
      BY <1>4 DEF CommitTx, Advance
    <2>2. db'.epoch = db.epoch
      BY <1>a, <2>1 DEF DbStates
    <2> QED BY <1>2, <1>a, <2>1, <2>2 DEF HistoryInv
  <1>5. ASSUME NEW backup \in history, Restore(backup)
        PROVE  HistoryInv' /\ history \subseteq history'
    <2>1. CASE db' = backup /\ UNCHANGED <<history, epochs>>
      BY <2>1 DEF HistoryInv
    <2>2. CASE /\ Advance([backup EXCEPT !.token = 0, !.epoch = epochs + 1])
               /\ epochs' = epochs + 1
      <3>1. history' = history \cup {db'} /\ db'.epoch = epochs + 1
        BY <1>a, <2>2 DEF Advance, DbStates
      <3> QED BY <1>2, <1>a, <2>2, <3>1
    <2> QED BY <1>5, <2>1, <2>2 DEF Restore
  <1>6. ASSUME NEW p \in FencePods, Beat(p)
        PROVE  HistoryInv' /\ history \subseteq history'
    <2>1. history' = history \cup {db'} /\ epochs' = epochs /\ db'.epoch = db.epoch
      BY <1>6, <1>a DEF Beat, Advance, DbStates
    <2> QED BY <1>2, <1>a, <2>1 DEF HistoryInv
  <1>7. ASSUME NEW p \in FencePods, Rotate(p)
        PROVE  HistoryInv' /\ history \subseteq history'
    <2>1. /\ history' = history \cup {db'} /\ epochs' = epochs + 1
          /\ db'.epoch = epochs + 1
      BY <1>7, <1>a DEF Rotate, Advance, DbStates
    <2> QED BY <1>2, <1>a, <2>1
  <1>8. CASE \/ WriterTick
             \/ \E t \in Txs :
                    \/ BeginTx(t)
                    \/ \E c \in Stamps : FloorGuard(t, c)
                    \/ PrepareTx(t)
                    \/ AbortTx(t)
    BY <1>1, <1>8 DEF WriterTick, BeginTx, FloorGuard, PrepareTx, AbortTx, writer
  <1>9. ASSUME NEW p \in FencePods,
               \/ Sample(p)
               \/ ScanActivity(p)
               \/ ScanPrepared(p)
               \/ Record(p)
               \/ RecordRegression(p)
               \/ ProbeFails(p)
        PROVE  HistoryInv' /\ history \subseteq history'
    BY <1>1, <1>9 DEF Sample, ScanActivity, ScanPrepared, Record, RecordRegression,
       ProbeFails, writer
  <1>10. ASSUME NEW q \in Pages,
                \/ \E p \in FencePods, predicate \in Predicates, upper \in Stamps :
                       RouteRead(q, p, predicate, upper)
                \/ \E state \in history : Observe(q, state)
                \/ Resolve(q)
                \/ LeavePage(q)
         PROVE  HistoryInv' /\ history \subseteq history'
    BY <1>1, <1>10 DEF RouteRead, Observe, Resolve, LeavePage, writer
  <1>11. CASE FenceNext
    BY <1>4, <1>5, <1>6, <1>7, <1>8, <1>9, <1>10, <1>11 DEF FenceNext
  <1> QED BY <1>3, <1>11

\* What a probe, a ring and a page hold is kept while they do nothing.
LEMMA ProbeStays ==
    ASSUME FenceTypeOK, FenceTypeOK', Orderly, NEW p \in FencePods,
           ProbeFine(p), probe'[p] = probe[p]
    PROVE  ProbeFine(p)'
  <1>1. PICK e \in TokenEntries : e = probe[p].entry
    BY DEF FenceTypeOK, ProbeRecords
  <1>2. PICK epoch \in Nat : epoch = probe[p].epoch
    BY DEF FenceTypeOK, ProbeRecords
  <1>3. PICK lower \in Nat : lower = probe[p].lower
    BY DEF FenceTypeOK, ProbeRecords
  <1>4. clock \in Nat /\ clock' \in Nat /\ clock <= clock' /\ lower <= clock
    BY <1>3 DEF FenceTypeOK, Orderly, ProbeFine
  <1>5. probe[p].at = "activity" => Bounded(lower)'
    <2>1. SUFFICES ASSUME probe[p].at = "activity", NEW t \in Txs, tx'[t].at = "guarded"
                   PROVE  lower < tx'[t].created_at + Floor + Margin
      BY DEF Bounded
    <2>2. /\ tx'[t].created_at \in Nat /\ Floor \in Nat /\ Margin \in Nat /\ Margin > 0
          /\ t \in Guarded'
      BY <2>1, FenceAssumption DEF FenceTypeOK, TxRecords, Guarded
    <2>3. CASE tx[t].at = "guarded" /\ tx'[t].created_at = tx[t].created_at
      BY <1>3, <2>1, <2>3 DEF ProbeFine, Bounded
    <2>4. CASE clock <= tx'[t].created_at + Floor
      BY <1>4, <2>2, <2>4
    <2> QED BY <2>1, <2>2, <2>3, <2>4 DEF Orderly
  <1>6. probe[p].at \in {"scanned", "rotate"} => Walled(e)'
    BY <1>1, WalledStays DEF ProbeFine
  <1>7. probe[p].at = "beaten" => Sound(e, epoch)'
    BY <1>1, <1>2, SoundStays DEF ProbeFine
  <1>8. /\ probe'[p].entry = e /\ probe'[p].epoch = epoch /\ probe'[p].lower = lower
        /\ probe'[p].at = probe[p].at
    BY <1>1, <1>2, <1>3
  <1>9. lower <= clock'
    BY <1>4
  <1>10. probe'[p].at = "activity" => Bounded(probe[p].lower)'
    BY <1>5, <1>8 DEF Bounded
  <1>11. probe'[p].at \in {"scanned", "rotate"} => Walled(probe[p].entry)'
    BY <1>6, <1>8 DEF Walled
  <1>12. probe'[p].at = "beaten" => Sound(probe[p].entry, probe[p].epoch)'
    BY <1>7, <1>8 DEF Sound, Walled, Covers, Complete
  <1> QED BY <1>8, <1>9, <1>10, <1>11, <1>12 DEF ProbeFine

\* A ring that a step leaves alone stays sound.
LEMMA RingStays ==
    ASSUME FenceTypeOK, FenceTypeOK', Orderly, NEW p \in FencePods,
           RingFine(p), fences'[p] = fences[p]
    PROVE  RingFine(p)'
  <1>1. SUFFICES ASSUME NEW i \in DOMAIN fences'[p].ring
                 PROVE  Sound(fences[p].ring[i], fences[p].epoch)'
    BY DEF RingFine
  <1>2. i \in DOMAIN fences[p].ring
    BY <1>1
  <1>3. PICK e \in TokenEntries, epoch \in Nat :
            e = fences[p].ring[i] /\ epoch = fences[p].epoch
    BY <1>2 DEF FenceTypeOK, FenceRecords
  <1>4. Sound(e, epoch)'
    BY <1>2, <1>3, SoundStays DEF RingFine
  <1>5. fences'[p].ring[i] = e /\ fences'[p].epoch = epoch
    BY <1>3
  <1> QED BY <1>4, <1>5 DEF Sound, Walled, Covers, Complete

\* A page that a step leaves alone keeps what it claims.
LEMMA PageStays ==
    ASSUME FenceTypeOK, FenceTypeOK', Orderly, history \subseteq history',
           NEW q \in Pages, PageFine(q), page'[q] = page[q]
    PROVE  PageFine(q)'
  <1>1. PICK e \in TokenEntries, state \in DbStates :
            e = page[q].entry /\ state = page[q].snap
    BY DEF FenceTypeOK, PageRecords
  <1>2. page'[q].entry = e /\ page'[q].snap = state
    BY <1>1
  <1>3. page[q].at \in {"covered", "fresh"} =>
            Walled(e)' /\ (~e.reissued => Complete(e, state.rows)')
    BY <1>1, WalledStays, CompleteStays DEF PageFine
  <1>4. page'[q].at \in {"covered", "fresh"} =>
            /\ Walled(page[q].entry)'
            /\ ~page'[q].entry.reissued => Complete(page[q].entry, page[q].snap.rows)'
    BY <1>2, <1>3 DEF Walled, Complete
  <1> QED BY <1>4 DEF PageFine

\* A token that no state of its epoch had before is vouched for by the state that
\* is committed with it.
LEMMA ReturnedIsSound ==
    ASSUME FenceTypeOK, FenceTypeOK', Orderly, NEW p \in FencePods,
           Walled(probe[p].entry), NEW token \in Nat, NEW epoch \in Nat,
           Returned(p, token, epoch), history' = history \cup {db'}, probe[p].lower <= clock
    PROVE  ProbeFine(p)'
  <1>1. PICK e \in TokenEntries : e = probe[p].entry
    BY DEF FenceTypeOK, ProbeRecords
  <1>2. PICK new \in TokenEntries :
            new = [probe[p].entry EXCEPT !.token = token, !.reissued = Reissued(token, epoch)]
    <2>1. Reissued(token, epoch) \in BOOLEAN
      BY DEF Reissued
    <2>2. [e EXCEPT !.token = token, !.reissued = Reissued(token, epoch)] \in TokenEntries
      BY <2>1 DEF TokenEntries
    <2> QED BY <1>1, <2>2
  <1>3. /\ new.committed_at = e.committed_at /\ new.fence_wall = e.fence_wall
        /\ new.token = token /\ new.reissued = Reissued(token, epoch)
    BY <1>1, <1>2 DEF TokenEntries
  <1>4. Walled(new)'
    <2>1. Walled(e)'
      BY <1>1, WalledStays
    <2> QED BY <1>3, <2>1 DEF Walled
  <1>5. ~new.reissued => Covers(new, epoch)'
    <2>1. SUFFICES ASSUME ~Reissued(token, epoch),
                          NEW h \in history', h.epoch = epoch, token <= h.token
                   PROVE  Complete(new, h.rows)'
      BY <1>3 DEF Covers
    <2>2. h \notin history
      <3>1. ASSUME h \in history PROVE h.token \in Nat
        BY <3>1 DEF FenceTypeOK, DbStates
      <3> QED BY <2>1, <3>1 DEF Reissued
    <2>3. h = db'
      BY <2>2
    <2> QED BY <2>3 DEF Complete
  <1>6. /\ probe'[p].entry = new /\ probe'[p].epoch = epoch /\ probe'[p].at = "beaten"
        /\ probe'[p].lower = probe[p].lower
    <2>1. probe[p] \in ProbeRecords /\ probe \in [FencePods -> ProbeRecords]
      BY DEF FenceTypeOK
    <2>2. probe' = [probe EXCEPT ![p] =
              [probe[p] EXCEPT !.at = "beaten", !.epoch = epoch, !.entry = new]]
      BY <1>2 DEF Returned
    <2>3. probe'[p] = [probe[p] EXCEPT !.at = "beaten", !.epoch = epoch, !.entry = new]
      BY <2>1, <2>2
    <2> QED BY <2>1, <2>3 DEF ProbeRecords
  <1>7. Sound(probe[p].entry, probe[p].epoch)'
    BY <1>4, <1>5, <1>6 DEF Sound, Walled, Covers, Complete
  <1>8. probe'[p].lower <= clock'
    <2>1. clock \in Nat /\ clock' \in Nat /\ clock <= clock' /\ probe[p].lower \in Nat
      BY DEF FenceTypeOK, ProbeRecords, Orderly
    <2> QED BY <1>6, <2>1
  <1> QED BY <1>6, <1>7, <1>8 DEF ProbeFine

\* The scan of the open transactions bounds every row that has passed the guard,
\* but for those of prepared transactions.
LEMMA ActivityIsBounded ==
    ASSUME FenceTypeOK, TxInv, NEW p \in FencePods, ScanActivity(p)
    PROVE  ProbeFine(p)'
  <1>1. PICK m \in 0 .. clock :
            /\ Oldest(probe[p].lower, {"open", "guarded"}, m)
            /\ probe' = [probe EXCEPT ![p] = [@ EXCEPT !.at = "activity", !.lower = m]]
    BY DEF ScanActivity
  <1>2. /\ probe[p] \in ProbeRecords /\ probe \in [FencePods -> ProbeRecords]
        /\ clock \in Nat
    BY DEF FenceTypeOK
  <1>3. probe'[p].at = "activity" /\ probe'[p].lower = m
    BY <1>1, <1>2 DEF ProbeRecords
  <1>4. UNCHANGED <<clock, tx>>
    BY DEF ScanActivity
  <1>5. ASSUME NEW t \in Txs, tx[t].at = "guarded"
        PROVE  m < tx[t].created_at + Floor + Margin
    <2>1. m <= tx[t].since
      BY <1>1, <1>5 DEF Oldest
    <2>2. /\ tx[t].since \in Nat /\ tx[t].guarded \in Nat /\ tx[t].created_at \in Nat
          /\ Floor \in Nat /\ Margin \in Nat /\ Margin > 0 /\ m \in Nat
      BY <1>2, FenceAssumption DEF FenceTypeOK, TxRecords
    <2>3. tx[t].since <= tx[t].guarded /\ tx[t].guarded <= tx[t].created_at + Floor
      BY <1>5 DEF TxInv
    <2> QED BY <2>1, <2>2, <2>3
  <1>6. Bounded(probe[p].lower)'
    BY <1>3, <1>4, <1>5 DEF Bounded
  <1>7. probe'[p].lower <= clock'
    BY <1>2, <1>3, <1>4
  <1> QED BY <1>3, <1>6, <1>7 DEF ProbeFine

\* The scan of the prepared transactions bounds these too, and the wall stands.
LEMMA ScannedIsWalled ==
    ASSUME FenceTypeOK, TxInv, NEW p \in FencePods, ProbeFine(p), ScanPrepared(p)
    PROVE  ProbeFine(p)'
  <1>1. PICK m \in 0 .. clock :
            /\ Oldest(probe[p].lower, {"prepared"}, m)
            /\ probe' = [probe EXCEPT ![p] =
                   [@ EXCEPT !.at = "scanned", !.lower = 0, !.entry = Stamped(m)]]
    BY DEF ScanPrepared
  <1>2. /\ probe[p] \in ProbeRecords /\ probe \in [FencePods -> ProbeRecords]
        /\ clock \in Nat /\ m \in Nat /\ probe[p].lower \in Nat
        /\ Floor \in Nat /\ Margin \in Nat /\ Margin > 0
    BY FenceAssumption DEF FenceTypeOK, ProbeRecords
  <1>3. probe'[p].at = "scanned" /\ probe'[p].lower = 0 /\ probe'[p].entry = Stamped(m)
    BY <1>1, <1>2 DEF ProbeRecords
  <1>4. UNCHANGED <<clock, tx>>
    BY DEF ScanPrepared
  <1>5. Stamped(m).committed_at = clock /\ Stamped(m).fence_wall = m - Floor - Margin
    BY DEF Stamped, NoEntry
  <1>6. ASSUME NEW t \in Guarded
        PROVE  m - Floor - Margin < tx[t].created_at
    <2>1. t \in Txs /\ tx[t].created_at \in Nat /\ tx[t].since \in Nat
      BY DEF Guarded, FenceTypeOK, TxRecords
    <2>2. CASE tx[t].at = "guarded"
      <3>1. m <= probe[p].lower
        BY <1>1 DEF Oldest
      <3>2. probe[p].lower < tx[t].created_at + Floor + Margin
        BY <2>1, <2>2 DEF ProbeFine, Bounded, ScanPrepared
      <3> QED BY <1>2, <2>1, <3>1, <3>2
    <2>3. CASE tx[t].at = "prepared"
      <3>1. m <= tx[t].since
        BY <1>1, <2>1, <2>3 DEF Oldest
      <3>2. tx[t].since < tx[t].created_at + Floor + Margin
        BY <2>1, <2>3 DEF TxInv
      <3> QED BY <1>2, <2>1, <3>1, <3>2
    <2> QED BY <2>2, <2>3 DEF Guarded
  <1>7. Walled(probe[p].entry)'
    <2>1. (m - Floor - Margin) + Floor < clock /\ clock <= clock
      BY <1>2
    <2>2. \A t \in Guarded' : m - Floor - Margin < tx'[t].created_at
      BY <1>4, <1>6 DEF Guarded
    <2> QED BY <1>3, <1>4, <1>5, <2>1, <2>2 DEF Walled
  <1>8. probe'[p].lower <= clock'
    BY <1>2, <1>3, <1>4
  <1> QED BY <1>3, <1>7, <1>8 DEF ProbeFine

\* The probes.
LEMMA ProbeStep ==
    ASSUME FenceTypeOK, TxInv, ProbeInv, FenceTypeOK', Orderly, [FenceNext]_fenceVars
    PROVE  ProbeInv'
  <1>a. probe \in [FencePods -> ProbeRecords] /\ clock \in Nat
    BY DEF FenceTypeOK
  <1>b. ASSUME NEW p \in FencePods, \A o \in FencePods : o # p => probe'[o] = probe[o],
               ProbeFine(p)'
        PROVE  ProbeInv'
    <2>1. ASSUME NEW o \in FencePods, o # p PROVE ProbeFine(o)'
      <3>1. ProbeFine(o) /\ probe'[o] = probe[o]
        BY <1>b, <2>1 DEF ProbeInv
      <3> QED BY <3>1, ProbeStays
    <2> QED BY <1>b, <2>1 DEF ProbeInv
  <1>c. ASSUME probe' = probe PROVE ProbeInv'
    BY <1>c, ProbeStays DEF ProbeInv
  <1>1. ASSUME NEW p \in FencePods, Sample(p) PROVE ProbeInv'
    <2>1. /\ probe'[p].at = "sampled" /\ probe'[p].lower = clock /\ clock' = clock
          /\ \A o \in FencePods : o # p => probe'[o] = probe[o]
      BY <1>1, <1>a DEF Sample, IdleProbe
    <2>2. ProbeFine(p)'
      BY <1>a, <2>1 DEF ProbeFine
    <2> QED BY <1>b, <2>1, <2>2
  <1>2. ASSUME NEW p \in FencePods, ScanActivity(p) PROVE ProbeInv'
    <2>1. \A o \in FencePods : o # p => probe'[o] = probe[o]
      BY <1>2, <1>a DEF ScanActivity
    <2> QED BY <1>2, <1>b, <2>1, ActivityIsBounded
  <1>3. ASSUME NEW p \in FencePods, ScanPrepared(p) PROVE ProbeInv'
    <2>1. \A o \in FencePods : o # p => probe'[o] = probe[o]
      BY <1>3, <1>a DEF ScanPrepared
    <2>2. ProbeFine(p)
      BY DEF ProbeInv
    <2> QED BY <1>3, <1>b, <2>1, <2>2, ScannedIsWalled
  <1>4. ASSUME NEW p \in FencePods, NEW token \in Nat, NEW epoch \in Nat,
               Returned(p, token, epoch), history' = history \cup {db'},
               probe[p].at \in {"scanned", "rotate"}
        PROVE  ProbeInv'
    <2>1. \A o \in FencePods : o # p => probe'[o] = probe[o]
      BY <1>4, <1>a DEF Returned
    <2>2. Walled(probe[p].entry) /\ probe[p].lower <= clock
      BY <1>4 DEF ProbeInv, ProbeFine
    <2> QED BY <1>4, <1>b, <2>1, <2>2, ReturnedIsSound
  <1>5. ASSUME NEW p \in FencePods, Beat(p) \/ Rotate(p) PROVE ProbeInv'
    <2>1. db.token + 1 \in Nat /\ db.epoch \in Nat /\ epochs + 1 \in Nat
      BY DEF FenceTypeOK, DbStates
    <2>2. CASE Beat(p)
      BY <1>4, <2>1, <2>2 DEF Beat, Advance
    <2>3. CASE Rotate(p)
      BY <1>4, <2>1, <2>3 DEF Rotate, Advance
    <2> QED BY <1>5, <2>2, <2>3
  <1>6. ASSUME NEW p \in FencePods, Record(p) \/ ProbeFails(p) PROVE ProbeInv'
    <2>1. /\ probe'[p].at = "idle" /\ probe'[p].lower = 0 /\ clock' = clock
          /\ \A o \in FencePods : o # p => probe'[o] = probe[o]
      BY <1>6, <1>a DEF Record, ProbeFails, IdleProbe
    <2>2. ProbeFine(p)'
      BY <1>a, <2>1 DEF ProbeFine
    <2> QED BY <1>b, <2>1, <2>2
  <1>7. ASSUME NEW p \in FencePods, RecordRegression(p) PROVE ProbeInv'
    <2>1. /\ probe'[p].at = "rotate" /\ probe'[p].lower = 0
          /\ probe'[p].entry.committed_at = clock
          /\ probe'[p].entry.fence_wall = probe[p].entry.fence_wall
          /\ UNCHANGED <<clock, tx>>
          /\ \A o \in FencePods : o # p => probe'[o] = probe[o]
      BY <1>7, <1>a DEF RecordRegression, IdleProbe, NoEntry
    <2>2. Walled(probe[p].entry)
      BY <1>7 DEF RecordRegression, ProbeInv, ProbeFine, Sound
    <2>3. Walled(probe[p].entry)'
      BY <1>a, <2>1, <2>2 DEF Walled, Guarded
    <2>4. ProbeFine(p)'
      BY <1>a, <2>1, <2>3 DEF ProbeFine
    <2> QED BY <1>b, <2>1, <2>4
  <1>8. CASE UNCHANGED fenceVars
    BY <1>8, <1>c DEF fenceVars
  <1>9. CASE \/ WriterTick
             \/ \E t \in Txs :
                    \/ BeginTx(t)
                    \/ \E c \in Stamps : FloorGuard(t, c)
                    \/ PrepareTx(t)
                    \/ CommitTx(t)
                    \/ AbortTx(t)
             \/ \E backup \in history : Restore(backup)
    BY <1>9, <1>c DEF WriterTick, BeginTx, FloorGuard, PrepareTx, CommitTx, AbortTx, Restore
  <1>10. ASSUME NEW q \in Pages,
                \/ \E p \in FencePods, predicate \in Predicates, upper \in Stamps :
                       RouteRead(q, p, predicate, upper)
                \/ \E state \in history : Observe(q, state)
                \/ Resolve(q)
                \/ LeavePage(q)
         PROVE  ProbeInv'
    BY <1>c, <1>10 DEF RouteRead, Observe, Resolve, LeavePage
  <1>11. CASE FenceNext
    BY <1>1, <1>2, <1>3, <1>5, <1>6, <1>7, <1>9, <1>10, <1>11 DEF FenceNext
  <1> QED BY <1>8, <1>11

\* The rings: what is recorded is what the probe was returned, and a ring of
\* another epoch is dropped.
LEMMA RingStep ==
    ASSUME FenceTypeOK, ProbeInv, RingInv, FenceTypeOK', Orderly, [FenceNext]_fenceVars
    PROVE  RingInv'
  <1>a. fences \in [FencePods -> FenceRecords]
    BY DEF FenceTypeOK
  <1>b. ASSUME NEW p \in FencePods, \A o \in FencePods : o # p => fences'[o] = fences[o],
               RingFine(p)'
        PROVE  RingInv'
    <2>1. ASSUME NEW o \in FencePods, o # p PROVE RingFine(o)'
      <3>1. RingFine(o) /\ fences'[o] = fences[o]
        BY <1>b, <2>1 DEF RingInv
      <3> QED BY <3>1, RingStays
    <2> QED BY <1>b, <2>1 DEF RingInv
  <1>c. ASSUME fences' = fences PROVE RingInv'
    BY <1>c, RingStays DEF RingInv
  <1>1. ASSUME NEW p \in FencePods, Record(p) PROVE RingInv'
    <2>1. /\ probe[p].entry \in TokenEntries /\ probe[p].epoch \in Nat
          /\ fences[p].ring \in Seq(TokenEntries) /\ Len(fences[p].ring) <= RingCapacity
          /\ <<>> \in Seq(TokenEntries) /\ Len(<<>>) = 0 /\ 0 <= RingCapacity
      <3>1. probe[p] \in ProbeRecords /\ fences[p] \in FenceRecords
            /\ Len(fences[p].ring) <= RingCapacity
        BY DEF FenceTypeOK
      <3>2. probe[p].entry \in TokenEntries /\ probe[p].epoch \in Nat
        BY <3>1 DEF ProbeRecords
      <3>3. fences[p].ring \in Seq(TokenEntries)
        BY <3>1 DEF FenceRecords
      <3>4. <<>> \in Seq(TokenEntries) /\ Len(<<>>) = 0 /\ 0 <= RingCapacity
        BY FenceAssumption
      <3> QED BY <3>1, <3>2, <3>3, <3>4
    <2>2. PICK e \in TokenEntries, epoch \in Nat :
              e = probe[p].entry /\ epoch = probe[p].epoch
      BY <2>1
    <2>3. PICK ring \in Seq(TokenEntries) :
              /\ ring = (IF fences[p].epoch = epoch THEN fences[p].ring ELSE <<>>)
              /\ Len(ring) <= RingCapacity
      <3>1. CASE fences[p].epoch = epoch
        BY <2>1, <3>1
      <3>2. CASE fences[p].epoch # epoch
        BY <2>1, <3>2
      <3> QED BY <3>1, <3>2
    <2>4. fences'[p] = [epoch |-> epoch, ring |-> Pushed(ring, e)]
      BY <1>1, <1>a, <2>2, <2>3 DEF Record
    <2>5. \A o \in FencePods : o # p => fences'[o] = fences[o]
      BY <1>1, <1>a DEF Record
    <2>6. Sound(e, epoch)'
      <3>1. Sound(e, epoch)
        BY <1>1, <2>2 DEF Record, ProbeInv, ProbeFine
      <3> QED BY <3>1, SoundStays
    <2>7. ASSUME NEW j \in DOMAIN ring PROVE Sound(ring[j], epoch)'
      <3>1. CASE fences[p].epoch = epoch
        <4>1. ring = fences[p].ring
          BY <2>3, <3>1
        <4>2. PICK kept \in TokenEntries : kept = ring[j]
          BY <2>3
        <4>3. Sound(kept, epoch)
          BY <3>1, <4>1, <4>2, <2>7 DEF RingInv, RingFine
        <4>4. Sound(kept, epoch)'
          BY <4>3, SoundStays
        <4> QED BY <4>2, <4>4
      <3>2. CASE fences[p].epoch # epoch
        BY <2>3, <2>7, <3>2
      <3> QED BY <3>1, <3>2
    <2>8. ASSUME NEW i \in DOMAIN fences'[p].ring
          PROVE  Sound(fences[p].ring[i], fences[p].epoch)'
      <3>1. fences'[p].ring = Pushed(ring, e) /\ fences'[p].epoch = epoch
        BY <2>4
      <3>2. PICK got : got = fences'[p].ring[i]
        OBVIOUS
      <3>a. \A k \in DOMAIN Pushed(ring, e) :
                \/ Pushed(ring, e)[k] = e
                \/ \E j \in DOMAIN ring : Pushed(ring, e)[k] = ring[j]
        BY <2>3, PushedIsRing
      <3>3. got = e \/ \E j \in DOMAIN ring : got = ring[j]
        BY <2>8, <3>1, <3>2, <3>a
      <3>4. Sound(got, epoch)'
        BY <2>6, <2>7, <3>3
      <3> QED BY <3>1, <3>2, <3>4 DEF Sound, Walled, Covers, Complete
    <2>9. RingFine(p)'
      BY <2>8 DEF RingFine
    <2> QED BY <1>b, <2>5, <2>9
  <1>2. ASSUME NEW p \in FencePods, RecordRegression(p) \/ ProbeFails(p) PROVE RingInv'
    <2>1. fences'[p].ring = <<>> /\ \A o \in FencePods : o # p => fences'[o] = fences[o]
      BY <1>2, <1>a DEF RecordRegression, ProbeFails, FenceRecords
    <2>2. RingFine(p)'
      BY <2>1 DEF RingFine
    <2> QED BY <1>b, <2>1, <2>2
  <1>3. ASSUME NEW p \in FencePods,
               \/ Sample(p)
               \/ ScanActivity(p)
               \/ ScanPrepared(p)
               \/ Beat(p)
               \/ Rotate(p)
        PROVE  RingInv'
    BY <1>c, <1>3 DEF Sample, ScanActivity, ScanPrepared, Beat, Rotate
  <1>4. CASE UNCHANGED fenceVars
    BY <1>4, <1>c DEF fenceVars
  <1>5. CASE \/ WriterTick
             \/ \E t \in Txs :
                    \/ BeginTx(t)
                    \/ \E c \in Stamps : FloorGuard(t, c)
                    \/ PrepareTx(t)
                    \/ CommitTx(t)
                    \/ AbortTx(t)
             \/ \E backup \in history : Restore(backup)
    BY <1>5, <1>c DEF WriterTick, BeginTx, FloorGuard, PrepareTx, CommitTx, AbortTx, Restore
  <1>6. ASSUME NEW q \in Pages,
               \/ \E p \in FencePods, predicate \in Predicates, upper \in Stamps :
                      RouteRead(q, p, predicate, upper)
               \/ \E state \in history : Observe(q, state)
               \/ Resolve(q)
               \/ LeavePage(q)
        PROVE  RingInv'
    BY <1>c, <1>6 DEF RouteRead, Observe, Resolve, LeavePage
  <1>7. CASE FenceNext
    BY <1>1, <1>2, <1>3, <1>5, <1>6, <1>7 DEF FenceNext
  <1> QED BY <1>4, <1>7

\* An entry that the ring retains vouches for the snapshot which proves it.
LEMMA ResolvedIsFine ==
    ASSUME FenceTypeOK, RingInv, NEW q \in Pages, PageFine(q), FenceTypeOK', Orderly,
           Resolve(q)
    PROVE  PageFine(q)'
  <1>a. /\ page \in [Pages -> PageRecords] /\ page[q].pod \in FencePods
        /\ page[q].snap \in DbStates /\ clock \in Nat
        /\ ReadMaxAge \in Nat
    BY FenceAssumption DEF FenceTypeOK, PageRecords
  <1>1. PICK entry \in Proved(page[q].pod, page[q].snap.token, page[q].snap.epoch) :
            \/ \E upper : ServeCovered(q, entry, upper)
            \/ ServeFresh(q, entry)
    BY DEF Resolve
  <1>2. PICK p \in FencePods, state \in DbStates : p = page[q].pod /\ state = page[q].snap
    BY <1>a
  <1>3. /\ entry \in TokenEntries
        /\ fences[p].epoch = state.epoch
        /\ entry.token <= state.token
        /\ \E i \in DOMAIN fences[p].ring : entry = fences[p].ring[i]
    BY <1>2, ProvedIsRetained
  <1>4. Sound(entry, state.epoch)
    BY <1>3 DEF RingInv, RingFine
  <1>5. state \in history
    BY <1>2 DEF Resolve, PageFine
  <1>6. Walled(entry) /\ (~entry.reissued => Complete(entry, state.rows))
    BY <1>3, <1>4, <1>5 DEF Sound, Covers
  <1>7. Walled(entry)' /\ (~entry.reissued => Complete(entry, state.rows)')
    BY <1>3, <1>6, WalledStays, CompleteStays
  <1>8. ASSUME page'[q].entry = entry, page'[q].snap = state
        PROVE  /\ Walled(page[q].entry)'
               /\ ~page'[q].entry.reissued => Complete(page[q].entry, page[q].snap.rows)'
    BY <1>7, <1>8 DEF Walled, Complete
  <1>9. ASSUME NEW upper, ServeCovered(q, entry, upper) PROVE PageFine(q)'
    <2>1. /\ page'[q].at = "covered" /\ page'[q].entry = entry /\ page'[q].snap = state
          /\ page'[q].upper = upper /\ upper <= entry.fence_wall
      BY <1>9, <1>a, <1>2 DEF ServeCovered, NoPage
    <2> QED BY <1>8, <2>1 DEF PageFine
  <1>10. ASSUME ServeFresh(q, entry) PROVE PageFine(q)'
    <2>1. /\ page'[q].at = "fresh" /\ page'[q].entry = entry /\ page'[q].snap = state
          /\ page'[q].since = clock - ReadMaxAge
          /\ clock - entry.committed_at <= ReadMaxAge
      BY <1>10, <1>a, <1>2 DEF ServeFresh, NoPage, WithinBudget
    <2>2. entry.committed_at \in Nat
      BY <1>3 DEF TokenEntries
    <2>3. page'[q].since <= page'[q].entry.committed_at
      BY <1>a, <2>1, <2>2
    <2> QED BY <1>8, <2>1, <2>3 DEF PageFine
  <1> QED BY <1>1, <1>9, <1>10

\* The pages.
LEMMA PageStep ==
    ASSUME FenceTypeOK, RingInv, PageInv, FenceTypeOK', Orderly,
           history \subseteq history', [FenceNext]_fenceVars
    PROVE  PageInv'
  <1>a. page \in [Pages -> PageRecords]
    BY DEF FenceTypeOK
  <1>b. ASSUME NEW q \in Pages, \A o \in Pages : o # q => page'[o] = page[o], PageFine(q)'
        PROVE  PageInv'
    <2>1. ASSUME NEW o \in Pages, o # q PROVE PageFine(o)'
      <3>1. PageFine(o) /\ page'[o] = page[o]
        BY <1>b, <2>1 DEF PageInv
      <3> QED BY <3>1, PageStays
    <2> QED BY <1>b, <2>1 DEF PageInv
  <1>c. ASSUME page' = page PROVE PageInv'
    BY <1>c, PageStays DEF PageInv
  <1>1. ASSUME NEW q \in Pages, NEW p \in FencePods, NEW predicate \in Predicates,
               NEW upper \in Stamps, RouteRead(q, p, predicate, upper)
        PROVE  PageInv'
    <2>1. page'[q].at = "admitted" /\ \A o \in Pages : o # q => page'[o] = page[o]
      BY <1>1, <1>a DEF RouteRead, NoPage
    <2>2. PageFine(q)'
      BY <2>1 DEF PageFine
    <2> QED BY <1>b, <2>1, <2>2
  <1>2. ASSUME NEW q \in Pages, NEW state \in history, Observe(q, state) PROVE PageInv'
    <2>1. /\ page'[q].at = "observed" /\ page'[q].snap = state
          /\ \A o \in Pages : o # q => page'[o] = page[o]
      BY <1>2, <1>a DEF Observe, PageRecords
    <2>2. PageFine(q)'
      BY <2>1 DEF PageFine
    <2> QED BY <1>b, <2>1, <2>2
  <1>3. ASSUME NEW q \in Pages, Resolve(q) PROVE PageInv'
    <2>1. \A o \in Pages : o # q => page'[o] = page[o]
      BY <1>3, <1>a DEF Resolve, ServeCovered, ServeFresh
    <2>2. PageFine(q)
      BY DEF PageInv
    <2>3. PageFine(q)'
      BY <1>3, <2>2, ResolvedIsFine
    <2> QED BY <1>b, <2>1, <2>3
  <1>4. ASSUME NEW q \in Pages, LeavePage(q) PROVE PageInv'
    <2>1. page'[q].at = "idle" /\ \A o \in Pages : o # q => page'[o] = page[o]
      BY <1>4, <1>a DEF LeavePage, NoPage
    <2>2. PageFine(q)'
      BY <2>1 DEF PageFine
    <2> QED BY <1>b, <2>1, <2>2
  <1>5. CASE UNCHANGED fenceVars
    BY <1>5, <1>c DEF fenceVars
  <1>6. CASE \/ WriterTick
             \/ \E t \in Txs :
                    \/ BeginTx(t)
                    \/ \E c \in Stamps : FloorGuard(t, c)
                    \/ PrepareTx(t)
                    \/ CommitTx(t)
                    \/ AbortTx(t)
             \/ \E backup \in history : Restore(backup)
    BY <1>6, <1>c DEF WriterTick, BeginTx, FloorGuard, PrepareTx, CommitTx, AbortTx, Restore
  <1>7. ASSUME NEW p \in FencePods,
               \/ Sample(p)
               \/ ScanActivity(p)
               \/ ScanPrepared(p)
               \/ Beat(p)
               \/ Record(p)
               \/ RecordRegression(p)
               \/ Rotate(p)
               \/ ProbeFails(p)
        PROVE  PageInv'
    BY <1>c, <1>7 DEF Sample, ScanActivity, ScanPrepared, Beat, Record,
       RecordRegression, Rotate, ProbeFails
  <1>8. CASE FenceNext
    BY <1>1, <1>2, <1>3, <1>4, <1>6, <1>7, <1>8 DEF FenceNext
  <1> QED BY <1>5, <1>8

-----------------------------------------------------------------------------
(***************************************************************************)
(* The theorems.                                                           *)
(***************************************************************************)

\* The invariant of the fence holds always: transactions, probes, rings and pages
\* of any number, for any floor, margin, budget and capacity.
THEOREM FenceAlwaysSound == FenceSpec => []FenceInv
  <1>1. FenceInit => FenceInv
    BY FenceInvInit
  <1>2. FenceInv /\ [FenceNext]_fenceVars => FenceInv'
    <2>1. SUFFICES ASSUME FenceInv, [FenceNext]_fenceVars PROVE FenceInv'
      OBVIOUS
    <2>2. FenceTypeOK /\ TxInv /\ HistoryInv /\ ProbeInv /\ RingInv /\ PageInv
      BY <2>1 DEF FenceInv
    <2>3. FenceTypeOK' /\ Orderly
      BY <2>1, <2>2, FenceTypeStep, StepOrderly
    <2>4. TxInv'
      BY <2>1, <2>2, TxStep
    <2>5. HistoryInv' /\ history \subseteq history'
      BY <2>1, <2>2, HistoryStep
    <2>6. ProbeInv'
      BY <2>1, <2>2, <2>3, ProbeStep
    <2>7. RingInv'
      BY <2>1, <2>2, <2>3, RingStep
    <2>8. PageInv'
      BY <2>1, <2>2, <2>3, <2>5, PageStep
    <2> QED BY <2>3, <2>4, <2>5, <2>6, <2>7, <2>8 DEF FenceInv
  <1> QED BY <1>1, <1>2, PTL DEF FenceSpec

\* The rings never exceed RING_CAPACITY, and all state is of its type.
THEOREM FenceTypesAlways == FenceSpec => []FenceTypeOK
  <1>1. FenceInv => FenceTypeOK
    BY DEF FenceInv
  <1> QED BY <1>1, FenceAlwaysSound, PTL

\* "There is no fourth bucket": a page that is served by a replica on a wall lacks no
\* row at or below its upper bound, unless the token was issued twice.
THEOREM CoveredPagesAlwaysComplete == FenceSpec => []CoveredPagesComplete
  <1>1. FenceInv => CoveredPagesComplete
    <2>1. SUFFICES ASSUME FenceInv, NEW q \in Pages, page[q].at = "covered",
                          ~page[q].entry.reissued,
                          NEW r \in db.rows, r.created_at <= page[q].upper
                   PROVE  r \in page[q].snap.rows
      BY DEF CoveredPagesComplete
    <2>2. /\ r.created_at \in Nat
          /\ page[q].upper \in Nat /\ page[q].entry.fence_wall \in Int
      BY <2>1 DEF FenceInv, FenceTypeOK, DbStates, Rows, PageRecords, TokenEntries
    <2>3. /\ Complete(page[q].entry, page[q].snap.rows)
          /\ page[q].upper <= page[q].entry.fence_wall
      BY <2>1 DEF FenceInv, PageInv, PageFine
    <2> QED BY <2>1, <2>2, <2>3 DEF Complete
  <1> QED BY <1>1, FenceAlwaysSound, PTL

\* Bounded staleness: a page served under the read budget has every row that was
\* committed longer than the budget before the verdict, unless the token was issued
\* twice.
THEOREM FreshPagesAlwaysBounded == FenceSpec => []FreshPagesBounded
  <1>1. FenceInv => FreshPagesBounded
    <2>1. SUFFICES ASSUME FenceInv, NEW q \in Pages, page[q].at = "fresh",
                          ~page[q].entry.reissued,
                          NEW r \in db.rows, r.committed < page[q].since
                   PROVE  r \in page[q].snap.rows
      BY DEF FreshPagesBounded
    <2>2. /\ r.committed \in Nat
          /\ page[q].since \in Int /\ page[q].entry.committed_at \in Nat
      BY <2>1 DEF FenceInv, FenceTypeOK, DbStates, Rows, PageRecords, TokenEntries
    <2>3. /\ Complete(page[q].entry, page[q].snap.rows)
          /\ page[q].since <= page[q].entry.committed_at
      BY <2>1 DEF FenceInv, PageInv, PageFine
    <2> QED BY <2>1, <2>2, <2>3 DEF Complete
  <1> QED BY <1>1, FenceAlwaysSound, PTL

-----------------------------------------------------------------------------
(***************************************************************************)
(* Without a restore no token is issued twice.                             *)
(***************************************************************************)

\* The writer's token is the highest of its epoch, and so every entry is of a token
\* issued once.
SteadyInv ==
    /\ \A h \in history : h.epoch = db.epoch => h.token <= db.token
    /\ \A p \in FencePods :
           /\ ~probe[p].entry.reissued
           /\ \A i \in DOMAIN fences[p].ring : ~fences[p].ring[i].reissued
    /\ \A q \in Pages : ~page[q].entry.reissued

\* It holds before the first heartbeat.
LEMMA SteadyInit ==
    ASSUME FenceInit
    PROVE  SteadyInv
  BY DEF FenceInit, SteadyInv, IdleProbe, NoPage, NoEntry

\* The token of the writer goes up.
LEMMA SteadyWriter ==
    ASSUME MaxRestores = 0, FenceTypeOK, HistoryInv, SteadyInv, [FenceNext]_fenceVars
    PROVE  \A h \in history' : h.epoch = db'.epoch => h.token <= db'.token
  <1> DEFINE Goal == \A h \in history' : h.epoch = db'.epoch => h.token <= db'.token
  <1>a. /\ db \in DbStates /\ db.token \in Nat /\ db.epoch \in Nat /\ epochs \in Nat
        /\ \A h \in history : h.epoch \in Nat /\ h.token \in Nat
        /\ restores \in Nat
    BY DEF FenceTypeOK, DbStates
  <1>1. ASSUME UNCHANGED <<db, history>> PROVE Goal
    BY <1>1 DEF SteadyInv
  <1>2. ASSUME history' = history \cup {db'}, db'.epoch = db.epoch,
               db'.token \in Nat, db.token <= db'.token
        PROVE  Goal
    BY <1>2, <1>a DEF SteadyInv
  <1>3. ASSUME UNCHANGED fenceVars PROVE Goal
    BY <1>1, <1>3 DEF fenceVars, writer
  <1>4. ASSUME NEW t \in Txs, CommitTx(t) PROVE Goal
    <2>1. history' = history \cup {db'} /\ db'.epoch = db.epoch /\ db'.token = db.token
      BY <1>4, <1>a DEF CommitTx, Advance, DbStates
    <2> QED BY <1>2, <1>a, <2>1
  <1>5. ASSUME NEW backup \in history, Restore(backup) PROVE Goal
    BY <1>5, <1>a DEF Restore
  <1>6. ASSUME NEW p \in FencePods, Beat(p) PROVE Goal
    <2>1. /\ history' = history \cup {db'} /\ db'.epoch = db.epoch
          /\ db'.token = db.token + 1
      BY <1>6, <1>a DEF Beat, Advance, DbStates
    <2> QED BY <1>2, <1>a, <2>1
  <1>7. ASSUME NEW p \in FencePods, Rotate(p) PROVE Goal
    <2>1. /\ history' = history \cup {db'} /\ db'.epoch = epochs + 1
          /\ db'.token = db.token + 1
      BY <1>7, <1>a DEF Rotate, Advance, DbStates
    <2>2. \A h \in history : h.epoch # epochs + 1
      BY <1>a DEF HistoryInv
    <2> QED BY <1>a, <2>1, <2>2
  <1>8. ASSUME \/ WriterTick
               \/ \E t \in Txs :
                      \/ BeginTx(t)
                      \/ \E c \in Stamps : FloorGuard(t, c)
                      \/ PrepareTx(t)
                      \/ AbortTx(t)
        PROVE  Goal
    BY <1>1, <1>8 DEF WriterTick, BeginTx, FloorGuard, PrepareTx, AbortTx, writer
  <1>9. ASSUME NEW p \in FencePods,
               \/ Sample(p)
               \/ ScanActivity(p)
               \/ ScanPrepared(p)
               \/ Record(p)
               \/ RecordRegression(p)
               \/ ProbeFails(p)
        PROVE  Goal
    BY <1>1, <1>9 DEF Sample, ScanActivity, ScanPrepared, Record, RecordRegression,
       ProbeFails, writer
  <1>10. ASSUME NEW q \in Pages,
                \/ \E p \in FencePods, predicate \in Predicates, upper \in Stamps :
                       RouteRead(q, p, predicate, upper)
                \/ \E state \in history : Observe(q, state)
                \/ Resolve(q)
                \/ LeavePage(q)
         PROVE  Goal
    BY <1>1, <1>10 DEF RouteRead, Observe, Resolve, LeavePage, writer
  <1> HIDE DEF Goal
  <1>11. ASSUME FenceNext PROVE Goal
    BY <1>4, <1>5, <1>6, <1>7, <1>8, <1>9, <1>10, <1>11 DEF FenceNext
  <1>12. Goal
    BY <1>3, <1>11
  <1> QED BY <1>12 DEF Goal

\* The entries: a probe is returned a token above all of its epoch.
LEMMA SteadyEntries ==
    ASSUME FenceTypeOK, HistoryInv, SteadyInv, [FenceNext]_fenceVars
    PROVE  /\ \A p \in FencePods :
                  /\ ~probe'[p].entry.reissued
                  /\ \A i \in DOMAIN fences'[p].ring : ~fences'[p].ring[i].reissued
           /\ \A q \in Pages : ~page'[q].entry.reissued
  <1> DEFINE Goal == /\ \A p \in FencePods :
                            /\ ~probe'[p].entry.reissued
                            /\ \A i \in DOMAIN fences'[p].ring : ~fences'[p].ring[i].reissued
                     /\ \A q \in Pages : ~page'[q].entry.reissued
  <1>a. /\ probe \in [FencePods -> ProbeRecords] /\ fences \in [FencePods -> FenceRecords]
        /\ page \in [Pages -> PageRecords]
        /\ \A p \in FencePods : probe[p].entry \in TokenEntries
        /\ db.token \in Nat /\ db.epoch \in Nat /\ epochs \in Nat
        /\ \A h \in history : h.epoch \in Nat /\ h.token \in Nat
    BY DEF FenceTypeOK, DbStates, ProbeRecords
  <1>b. ~NoEntry.reissued
    BY DEF NoEntry
  <1>1. ASSUME UNCHANGED <<probe, fences, page>> PROVE Goal
    BY <1>1 DEF SteadyInv
  <1>2. ASSUME NEW p \in FencePods, \A o \in FencePods : o # p => probe'[o] = probe[o],
               ~probe'[p].entry.reissued, UNCHANGED <<fences, page>>
        PROVE  Goal
    BY <1>2 DEF SteadyInv
  <1>3. ASSUME NEW p \in FencePods, \A o \in FencePods : o # p => fences'[o] = fences[o],
               \A i \in DOMAIN fences'[p].ring : ~fences'[p].ring[i].reissued,
               \A o \in FencePods : ~probe'[o].entry.reissued, UNCHANGED page
        PROVE  Goal
    BY <1>3 DEF SteadyInv
  <1>4. ASSUME NEW q \in Pages, \A o \in Pages : o # q => page'[o] = page[o],
               ~page'[q].entry.reissued, UNCHANGED <<probe, fences>>
        PROVE  Goal
    BY <1>4 DEF SteadyInv
  <1>5. ASSUME UNCHANGED fenceVars PROVE Goal
    BY <1>1, <1>5 DEF fenceVars
  <1>6. ASSUME \/ WriterTick
               \/ \E t \in Txs :
                      \/ BeginTx(t)
                      \/ \E c \in Stamps : FloorGuard(t, c)
                      \/ PrepareTx(t)
                      \/ CommitTx(t)
                      \/ AbortTx(t)
               \/ \E backup \in history : Restore(backup)
        PROVE  Goal
    BY <1>1, <1>6 DEF WriterTick, BeginTx, FloorGuard, PrepareTx, CommitTx, AbortTx, Restore
  <1>7. ASSUME NEW p \in FencePods, Sample(p) \/ ScanActivity(p) \/ ScanPrepared(p)
        PROVE  Goal
    <2>1. /\ \A o \in FencePods : o # p => probe'[o] = probe[o]
          /\ UNCHANGED <<fences, page>>
      BY <1>7, <1>a DEF Sample, ScanActivity, ScanPrepared
    <2>2. CASE Sample(p)
      <3>1. probe'[p].entry = NoEntry
        BY <1>a, <2>2 DEF Sample, IdleProbe
      <3> QED BY <1>2, <1>b, <2>1, <3>1
    <2>3. CASE ScanActivity(p)
      <3>1. probe'[p].entry = probe[p].entry
        BY <1>a, <2>3 DEF ScanActivity, ProbeRecords
      <3> QED BY <1>2, <2>1, <3>1 DEF SteadyInv
    <2>4. CASE ScanPrepared(p)
      <3>1. PICK m : probe'[p].entry = Stamped(m)
        BY <1>a, <2>4 DEF ScanPrepared, ProbeRecords
      <3>2. ~Stamped(m).reissued
        BY DEF Stamped, NoEntry
      <3> QED BY <1>2, <2>1, <3>1, <3>2
    <2> QED BY <1>7, <2>2, <2>3, <2>4
  <1>8. ASSUME NEW p \in FencePods, NEW token, NEW epoch, Returned(p, token, epoch),
               ~Reissued(token, epoch), UNCHANGED <<fences, page>>
        PROVE  Goal
    <2>1. \A o \in FencePods : o # p => probe'[o] = probe[o]
      BY <1>8, <1>a DEF Returned
    <2>2. probe'[p].entry = [probe[p].entry EXCEPT !.token = token,
                                                   !.reissued = Reissued(token, epoch)]
      BY <1>8, <1>a DEF Returned, ProbeRecords
    <2>3. ~probe'[p].entry.reissued
      BY <1>8, <1>a, <2>2 DEF TokenEntries
    <2> QED BY <1>2, <1>8, <2>1, <2>3
  <1>9. ASSUME NEW p \in FencePods, Beat(p) PROVE Goal
    <2>1. ~Reissued(db.token + 1, db.epoch)
      BY <1>a DEF Reissued, SteadyInv
    <2> QED BY <1>8, <1>9, <2>1 DEF Beat
  <1>10. ASSUME NEW p \in FencePods, Rotate(p) PROVE Goal
    <2>1. ~Reissued(db.token + 1, epochs + 1)
      BY <1>a DEF Reissued, HistoryInv
    <2> QED BY <1>8, <1>10, <2>1 DEF Rotate
  <1>11. ASSUME NEW p \in FencePods, Record(p) PROVE Goal
    <2>1. /\ \A o \in FencePods : o # p => fences'[o] = fences[o] /\ probe'[o] = probe[o]
          /\ probe'[p].entry = NoEntry /\ page' = page
      BY <1>11, <1>a DEF Record, IdleProbe
    <2>2. PICK ring \in Seq(TokenEntries) :
              /\ ring = (IF fences[p].epoch = probe[p].epoch THEN fences[p].ring ELSE <<>>)
              /\ Len(ring) <= RingCapacity
      <3>1. /\ fences[p].ring \in Seq(TokenEntries) /\ Len(fences[p].ring) <= RingCapacity
            /\ <<>> \in Seq(TokenEntries) /\ Len(<<>>) = 0 /\ 0 <= RingCapacity
        BY FenceAssumption DEF FenceTypeOK, FenceRecords
      <3>2. CASE fences[p].epoch = probe[p].epoch
        BY <3>1, <3>2
      <3>3. CASE fences[p].epoch # probe[p].epoch
        BY <3>1, <3>3
      <3> QED BY <3>2, <3>3
    <2>3. fences'[p].ring = Pushed(ring, probe[p].entry)
      BY <1>11, <1>a, <2>2 DEF Record
    <2>4. \A i \in DOMAIN ring : ~ring[i].reissued
      <3>1. CASE fences[p].epoch = probe[p].epoch
        BY <2>2, <3>1 DEF SteadyInv
      <3>2. CASE fences[p].epoch # probe[p].epoch
        BY <2>2, <3>2
      <3> QED BY <3>1, <3>2
    <2>5. \A i \in DOMAIN Pushed(ring, probe[p].entry) :
              \/ Pushed(ring, probe[p].entry)[i] = probe[p].entry
              \/ \E j \in DOMAIN ring : Pushed(ring, probe[p].entry)[i] = ring[j]
      BY <1>a, <2>2, PushedIsRing
    <2>6. \A i \in DOMAIN fences'[p].ring : ~fences'[p].ring[i].reissued
      BY <2>3, <2>4, <2>5 DEF SteadyInv
    <2>7. \A o \in FencePods : ~probe'[o].entry.reissued
      BY <1>b, <2>1 DEF SteadyInv
    <2> QED BY <1>3, <2>1, <2>6, <2>7
  <1>12. ASSUME NEW p \in FencePods, RecordRegression(p) \/ ProbeFails(p) PROVE Goal
    <2>1. /\ \A o \in FencePods : o # p => fences'[o] = fences[o] /\ probe'[o] = probe[o]
          /\ fences'[p].ring = <<>> /\ page' = page
      BY <1>12, <1>a DEF RecordRegression, ProbeFails, FenceRecords
    <2>2. ~probe'[p].entry.reissued
      <3>1. CASE RecordRegression(p)
        BY <1>a, <3>1 DEF RecordRegression, IdleProbe, NoEntry
      <3>2. CASE ProbeFails(p)
        BY <1>a, <3>2 DEF ProbeFails, IdleProbe, NoEntry
      <3> QED BY <1>12, <3>1, <3>2
    <2>3. \A o \in FencePods : ~probe'[o].entry.reissued
      BY <2>1, <2>2 DEF SteadyInv
    <2> QED BY <1>3, <2>1, <2>3
  <1>13. ASSUME NEW q \in Pages, NEW p \in FencePods, NEW predicate \in Predicates,
                NEW upper \in Stamps, RouteRead(q, p, predicate, upper)
         PROVE  Goal
    <2>1. /\ page'[q].entry = NoEntry /\ \A o \in Pages : o # q => page'[o] = page[o]
          /\ UNCHANGED <<probe, fences>>
      BY <1>13, <1>a DEF RouteRead, NoPage
    <2> QED BY <1>4, <1>b, <2>1
  <1>14. ASSUME NEW q \in Pages, NEW state \in history, Observe(q, state) PROVE Goal
    <2>1. /\ page'[q].entry = page[q].entry /\ UNCHANGED <<probe, fences>>
          /\ \A o \in Pages : o # q => page'[o] = page[o]
      BY <1>14, <1>a DEF Observe, PageRecords
    <2> QED BY <1>4, <2>1 DEF SteadyInv
  <1>15. ASSUME NEW q \in Pages, Resolve(q) PROVE Goal
    <2>1. /\ \A o \in Pages : o # q => page'[o] = page[o]
          /\ UNCHANGED <<probe, fences>>
      BY <1>15, <1>a DEF Resolve, ServeCovered, ServeFresh
    <2>2. PICK entry \in Proved(page[q].pod, page[q].snap.token, page[q].snap.epoch) :
              page'[q].entry = entry
      <3>1. PICK entry \in Proved(page[q].pod, page[q].snap.token, page[q].snap.epoch) :
                \/ \E upper : ServeCovered(q, entry, upper)
                \/ ServeFresh(q, entry)
        BY <1>15 DEF Resolve
      <3>2. ASSUME NEW upper, ServeCovered(q, entry, upper) PROVE page'[q].entry = entry
        BY <1>a, <3>2 DEF ServeCovered, NoPage
      <3>3. ASSUME ServeFresh(q, entry) PROVE page'[q].entry = entry
        BY <1>a, <3>3 DEF ServeFresh, NoPage
      <3> QED BY <3>1, <3>2, <3>3
    <2>3. page[q].pod \in FencePods
      BY <1>a DEF PageRecords
    <2>4. \E i \in DOMAIN fences[page[q].pod].ring : entry = fences[page[q].pod].ring[i]
      BY <2>3, ProvedIsRetained
    <2> QED BY <1>4, <2>1, <2>2, <2>3, <2>4 DEF SteadyInv
  <1>16. ASSUME NEW q \in Pages, LeavePage(q) PROVE Goal
    <2>1. /\ page'[q].entry = NoEntry /\ \A o \in Pages : o # q => page'[o] = page[o]
          /\ UNCHANGED <<probe, fences>>
      BY <1>16, <1>a DEF LeavePage, NoPage
    <2> QED BY <1>4, <1>b, <2>1
  <1> HIDE DEF Goal
  <1>17. ASSUME FenceNext PROVE Goal
    BY <1>6, <1>7, <1>9, <1>10, <1>11, <1>12, <1>13, <1>14, <1>15, <1>16, <1>17 DEF FenceNext
  <1>18. Goal
    BY <1>5, <1>17
  <1> QED BY <1>18 DEF Goal

\* The module comment's promise, "never holes", holds for every page as long as the
\* writer is not restored: the tokens of an epoch only go up.
THEOREM NeverHolesWithoutRestore ==
    ASSUME MaxRestores = 0
    PROVE  FenceSpec => []NeverHoles
  <1>1. FenceInit => SteadyInv
    BY SteadyInit
  <1>2. FenceInv /\ SteadyInv /\ [FenceNext]_fenceVars => SteadyInv'
    <2>1. SUFFICES ASSUME FenceInv, SteadyInv, [FenceNext]_fenceVars PROVE SteadyInv'
      OBVIOUS
    <2>2. FenceTypeOK /\ HistoryInv
      BY <2>1 DEF FenceInv
    <2> QED BY <2>1, <2>2, SteadyWriter, SteadyEntries DEF SteadyInv
  <1>3. CoveredPagesComplete /\ SteadyInv => NeverHoles
    BY DEF CoveredPagesComplete, SteadyInv, NeverHoles
  <1> QED BY <1>1, <1>2, <1>3, FenceAlwaysSound, CoveredPagesAlwaysComplete, PTL DEF FenceSpec

=============================================================================
