------------------------- MODULE RepoAnnounce_proofs -------------------------
(***************************************************************************)
(* What an announcement confirms can be cloned, and no announcement undoes *)
(* a push, for any owners, names, handlers and quota.                      *)
(***************************************************************************)
EXTENDS RepoAnnounce, FiniteSetTheorems, TLAPS

Pcs == {"announced", "unowned", "counted", "conflict", "owned", "seeding",
        "lost_race", "releasing"}

Busy == [pc : Pcs, owner : Owners, name : RepoNames, fresh : BOOLEAN]

(* A handler that is not resting knows its repository, which the pointer's *)
(* map has a place for.                                                    *)
AnnounceTypeOK ==
    /\ repoPointer \in [Owners \X RepoNames -> {"absent", "empty", "pushed"}]
    /\ handler \in [Handlers -> Busy \cup {Resting}]
    /\ confirmed \subseteq Owners \X RepoNames
    /\ announced \subseteq Owners \X RepoNames

(* A handler somewhere in the protocol has a whole record. *)
LEMMA BusyHandler ==
    ASSUME AnnounceTypeOK, NEW h \in Handlers, handler[h].pc \in Pcs
    PROVE  handler[h] \in Busy /\ RepoOf(h) \in Owners \X RepoNames
  <1>1. handler[h] # Resting
    BY DEF Resting, Pcs
  <1>2. handler[h] \in Busy
    BY <1>1 DEF AnnounceTypeOK
  <1> QED
    BY <1>2 DEF Busy, RepoOf

(* Where a handler goes, its record stays whole. *)
LEMMA HandlerSteps ==
    ASSUME AnnounceTypeOK, NEW h \in Handlers
    PROVE  /\ Return(h) => handler' \in [Handlers -> Busy \cup {Resting}]
           /\ \A pc \in Pcs : handler[h].pc \in Pcs /\ Goto(h, pc)
                 => handler' \in [Handlers -> Busy \cup {Resting}]
  <1>1. Return(h) => handler' \in [Handlers -> Busy \cup {Resting}]
    BY DEF AnnounceTypeOK, Return
  <1>2. ASSUME NEW pc \in Pcs, handler[h].pc \in Pcs, Goto(h, pc)
        PROVE  handler' \in [Handlers -> Busy \cup {Resting}]
    <2>1. handler[h] \in Busy
      BY <1>2, BusyHandler
    <2>2. [handler[h] EXCEPT !.pc = pc] \in Busy
      BY <2>1 DEF Busy
    <2> QED
      BY <1>2, <2>2 DEF AnnounceTypeOK, Goto
  <1> QED
    BY <1>1, <1>2

(* A pointer, once there, stays: the steps that touch it write only where  *)
(* it is absent, or push.                                                  *)
PointerStep ==
    \A r \in Owners \X RepoNames :
        /\ repoPointer[r] # "absent" => repoPointer'[r] # "absent"
        /\ repoPointer[r] = "pushed" => repoPointer'[r] = "pushed"

(* What a step adds to the confirmed repositories has a pointer. *)
ConfirmStep ==
    \A r \in confirmed' \ confirmed : r \in Owners \X RepoNames /\ repoPointer'[r] # "absent"

(* Every step keeps the types, the pointers and confirms only what is      *)
(* clonable.                                                               *)
LEMMA AnnounceSteps ==
    ASSUME AnnounceTypeOK, AnnounceNext
    PROVE  AnnounceTypeOK' /\ PointerStep /\ ConfirmStep
  <1> USE DEF PointerStep, ConfirmStep
  <1>1. ASSUME NEW h \in Handlers, NEW o \in Owners, NEW n \in RepoNames, Announce(h, o, n)
        PROVE  AnnounceTypeOK' /\ PointerStep /\ ConfirmStep
    <2>1. [pc |-> "announced", owner |-> o, name |-> n, fresh |-> FALSE] \in Busy
      BY DEF Busy, Pcs
    <2> QED
      BY <1>1, <2>1 DEF Announce, AnnounceTypeOK
  <1>2. ASSUME NEW h \in Handlers, PeekOwner(h) \/ CheckQuota(h) \/ ReadHolder(h)
                                     \/ ReleaseName(h) \/ Abandon(h)
        PROVE  AnnounceTypeOK' /\ PointerStep /\ ConfirmStep
    <2>1. handler' \in [Handlers -> Busy \cup {Resting}]
      BY <1>2, HandlerSteps
         DEF PeekOwner, CheckQuota, ReadHolder, ReleaseName, Abandon, At, Pcs
    <2> QED
      BY <1>2, <2>1 DEF PeekOwner, CheckQuota, ReadHolder, ReleaseName, Abandon, AnnounceTypeOK
  <1>3. ASSUME NEW h \in Handlers, InsertName(h)
        PROVE  AnnounceTypeOK' /\ PointerStep /\ ConfirmStep
    <2>1. handler[h] \in Busy
      BY <1>3, BusyHandler DEF InsertName, At, Pcs
    <2>2. [handler[h] EXCEPT !.pc = "seeding", !.fresh = TRUE] \in Busy
      BY <2>1 DEF Busy, Pcs
    <2>3. handler' \in [Handlers -> Busy \cup {Resting}]
      <3>1. CASE nameOwner[handler[h].name] = NoOwner
        BY <1>3, <2>2, <3>1 DEF InsertName, AnnounceTypeOK
      <3>2. CASE nameOwner[handler[h].name] # NoOwner
        BY <1>3, <3>2, HandlerSteps DEF InsertName, At, Pcs
      <3> QED
        BY <3>1, <3>2
    <2> QED
      BY <1>3, <2>3 DEF InsertName, AnnounceTypeOK
  <1>4. ASSUME NEW h \in Handlers, EnsurePointer(h)
        PROVE  AnnounceTypeOK' /\ PointerStep /\ ConfirmStep
    <2>1. RepoOf(h) \in Owners \X RepoNames
      BY <1>4, BusyHandler DEF EnsurePointer, At, Pcs
    <2>2. handler' \in [Handlers -> Busy \cup {Resting}]
      BY <1>4, HandlerSteps DEF EnsurePointer, At, Pcs, ReturnOk
    <2> QED
      BY <1>4, <2>1, <2>2 DEF EnsurePointer, ReturnOk, AnnounceTypeOK
  <1>5. ASSUME NEW h \in Handlers, SeedPointer(h)
        PROVE  AnnounceTypeOK' /\ PointerStep /\ ConfirmStep
    <2>1. RepoOf(h) \in Owners \X RepoNames
      BY <1>5, BusyHandler DEF SeedPointer, At, Pcs
    <2>2. handler' \in [Handlers -> Busy \cup {Resting}]
      BY <1>5, HandlerSteps DEF SeedPointer, At, Pcs, ReturnOk
    <2> QED
      BY <1>5, <2>1, <2>2 DEF SeedPointer, ReturnOk, AnnounceTypeOK
  <1>6. ASSUME NEW h \in Handlers, RereadPointer(h)
        PROVE  AnnounceTypeOK' /\ PointerStep /\ ConfirmStep
    <2>1. RepoOf(h) \in Owners \X RepoNames
      BY <1>6, BusyHandler DEF RereadPointer, At, Pcs
    <2>2. handler' \in [Handlers -> Busy \cup {Resting}]
      BY <1>6, HandlerSteps DEF RereadPointer, PointerErr, At, Pcs, ReturnOk
    <2> QED
      BY <1>6, <2>1, <2>2 DEF RereadPointer, PointerErr, ReturnOk, AnnounceTypeOK
  <1>7. ASSUME NEW h \in Handlers, StoreFails(h)
        PROVE  AnnounceTypeOK' /\ PointerStep /\ ConfirmStep
    <2>1. RepoOf(h) \in Owners \X RepoNames
      BY <1>7, BusyHandler DEF StoreFails, At, Pcs
    <2>2. handler' \in [Handlers -> Busy \cup {Resting}]
      BY <1>7, HandlerSteps DEF StoreFails, PointerErr, At, Pcs
    <2> QED
      BY <1>7, <2>1, <2>2 DEF StoreFails, PointerErr, AnnounceTypeOK
  <1>8. ASSUME NEW o \in Owners, NEW n \in RepoNames, Push(o, n)
        PROVE  AnnounceTypeOK' /\ PointerStep /\ ConfirmStep
    BY <1>8 DEF Push, AnnounceTypeOK
  <1> QED
    BY <1>1, <1>2, <1>3, <1>4, <1>5, <1>6, <1>7, <1>8 DEF AnnounceNext, AnnounceTypeOK

(* The inductive invariant: well typed, and confirmed means clonable. *)
AnnounceInv == AnnounceTypeOK /\ ConfirmedIsClonable

(* AnnounceInv is inductive. *)
LEMMA AnnounceInvHolds == AnnounceSpec => []AnnounceInv
  <1>1. AnnounceInit => AnnounceInv
    BY DEF AnnounceInit, AnnounceInv, AnnounceTypeOK, ConfirmedIsClonable
  <1>2. AnnounceInv /\ [AnnounceNext]_announceVars => AnnounceInv'
    <2> SUFFICES ASSUME AnnounceInv, [AnnounceNext]_announceVars
                 PROVE  AnnounceInv'
      OBVIOUS
    <2>1. CASE AnnounceNext
      <3>1. AnnounceTypeOK' /\ PointerStep /\ ConfirmStep
        BY <2>1, AnnounceSteps DEF AnnounceInv
      <3>2. ConfirmedIsClonable'
        BY <3>1 DEF AnnounceInv, AnnounceTypeOK, ConfirmedIsClonable, PointerStep, ConfirmStep
      <3> QED
        BY <3>1, <3>2 DEF AnnounceInv
    <2>2. CASE UNCHANGED announceVars
      BY <2>2 DEF announceVars, AnnounceInv, AnnounceTypeOK, ConfirmedIsClonable
    <2> QED
      BY <2>1, <2>2
  <1> QED
    BY <1>1, <1>2, PTL DEF AnnounceSpec

(* Every repository for which handle_git_repo_announcement returned Ok has *)
(* a pointer, for good, however attempts overlap, fail and roll back.      *)
THEOREM ConfirmedStaysClonable == AnnounceSpec => []ConfirmedIsClonable
  <1>1. AnnounceInv => ConfirmedIsClonable
    BY DEF AnnounceInv
  <1> QED
    BY <1>1, AnnounceInvHolds, PTL

(* No step of an announcement replaces the pointer of a repository that    *)
(* was pushed to.                                                          *)
THEOREM AnnounceNeverUndoesPush == AnnounceSpec => PushSurvivesAnnounce
  <1>1. AnnounceInv /\ [AnnounceNext]_announceVars
          => [\A r \in Owners \X RepoNames :
                 repoPointer[r] = "pushed" => repoPointer'[r] = "pushed"]_announceVars
    BY AnnounceSteps DEF AnnounceInv, PointerStep
  <1> QED
    BY <1>1, AnnounceInvHolds, PTL DEF AnnounceSpec, PushSurvivesAnnounce

-----------------------------------------------------------------------------
(* The handlers that have read the quota of an owner and not yet inserted. *)
Counted(o) == {h \in Handlers : handler[h].pc = "counted" /\ handler[h].owner = o}

Overrun == MaxRepos + Cardinality(Handlers) - 1

(* Whoever has read the quota has its place reserved: an owner's names and *)
(* the handlers about to add one are together within the bound.            *)
QuotaInv ==
    /\ nameOwner \in [RepoNames -> Owners \cup {NoOwner}]
    /\ \A o \in Owners : /\ IsFiniteSet(Owned(o))
                         /\ Cardinality(Owned(o)) + Cardinality(Counted(o)) <= Overrun

(* The numbers that QuotaInv adds up are numbers.                          *)
LEMMA QuotaNumbers ==
    /\ Cardinality(Handlers) \in Nat /\ Overrun \in Int
    /\ \A S \in SUBSET Handlers : /\ IsFiniteSet(S) /\ Cardinality(S) \in Nat
                                 /\ Cardinality(S) <= Cardinality(Handlers)
  <1>1. Cardinality(Handlers) \in Nat
    BY AnnounceAssumption, FS_CardinalityType
  <1>2. Overrun \in Int
    BY <1>1, AnnounceAssumption DEF Overrun
  <1>3. ASSUME NEW S \in SUBSET Handlers
        PROVE  IsFiniteSet(S) /\ Cardinality(S) \in Nat /\ Cardinality(S) <= Cardinality(Handlers)
    BY AnnounceAssumption, FS_Subset, FS_CardinalityType
  <1> QED
    BY <1>1, <1>2, <1>3

(* What adds neither a name nor a reader of the quota keeps QuotaInv.      *)
LEMMA QuotaKept ==
    ASSUME QuotaInv, nameOwner' \in [RepoNames -> Owners \cup {NoOwner}],
           NEW o \in Owners, Owned(o)' \subseteq Owned(o), Counted(o)' \subseteq Counted(o)
    PROVE  /\ IsFiniteSet(Owned(o)')
           /\ Cardinality(Owned(o)') + Cardinality(Counted(o)') <= Overrun
  <1>1. PICK A, B, C, D : A = Owned(o) /\ B = Owned(o)' /\ C = Counted(o) /\ D = Counted(o)'
    OBVIOUS
  <1>2. /\ IsFiniteSet(A) /\ Cardinality(A) + Cardinality(C) <= Overrun
        /\ B \subseteq A /\ D \subseteq C /\ C \subseteq Handlers
    BY <1>1 DEF QuotaInv, Counted
  <1>3. /\ IsFiniteSet(B) /\ Cardinality(B) <= Cardinality(A)
        /\ Cardinality(A) \in Nat /\ Cardinality(B) \in Nat
    BY <1>2, FS_Subset, FS_CardinalityType
  <1>4. /\ Cardinality(D) <= Cardinality(C)
        /\ Cardinality(C) \in Nat /\ Cardinality(D) \in Nat
    BY <1>2, QuotaNumbers, FS_Subset, FS_CardinalityType
  <1>5. Cardinality(B) + Cardinality(D) <= Overrun
    BY <1>2, <1>3, <1>4, QuotaNumbers
  <1> QED
    BY <1>1, <1>3, <1>5

(* A handler that passes the quota found room for one more.                *)
LEMMA QuotaRead ==
    ASSUME AnnounceTypeOK, QuotaInv, NEW h \in Handlers, CheckQuota(h)
    PROVE  QuotaInv'
  <1>1. handler[h] \in Busy /\ nameOwner' = nameOwner
    BY BusyHandler DEF CheckQuota, At, Pcs
  <1>2. PICK p \in Owners : p = handler[h].owner
    BY <1>1 DEF Busy
  <1>3. \A o \in Owners : Owned(o)' = Owned(o)
    BY <1>1 DEF Owned
  <1>4. CASE Return(h)
    <2>1. \A o \in Owners : Counted(o)' \subseteq Counted(o)
      BY <1>4 DEF Return, Counted, AnnounceTypeOK, Resting
    <2> QED
      BY <1>1, <1>3, <2>1, QuotaKept DEF QuotaInv
  <1>5. CASE Goto(h, "counted") /\ ~(Cardinality(Owned(p)) >= MaxRepos)
    <2> DEFINE new == [handler[h] EXCEPT !.pc = "counted"]
    <2>1. handler' = [handler EXCEPT ![h] = new]
      BY <1>5 DEF Goto
    <2>2. new.owner = p
      BY <1>1, <1>2 DEF Busy
    <2> HIDE DEF new
    <2>3. \A o \in Owners : o # p => Counted(o)' \subseteq Counted(o)
      BY <2>1, <2>2 DEF Counted, AnnounceTypeOK
    <2>4. \A o \in Owners : o # p => /\ IsFiniteSet(Owned(o)')
                                    /\ Cardinality(Owned(o)') + Cardinality(Counted(o)') <= Overrun
      BY <1>1, <1>3, <2>3, QuotaKept DEF QuotaInv
    <2>5. Cardinality(Owned(p)) \in Nat /\ IsFiniteSet(Owned(p)')
      BY <1>3, FS_CardinalityType DEF QuotaInv
    <2>6. Counted(p)' \in SUBSET Handlers
      BY DEF Counted
    <2>7. Cardinality(Owned(p)) + Cardinality(Counted(p)') <= Overrun
      BY <1>5, <2>5, <2>6, QuotaNumbers, AnnounceAssumption DEF Overrun
    <2> QED
      BY <1>1, <1>3, <2>4, <2>5, <2>7 DEF QuotaInv
  <1> QED
    BY <1>2, <1>4, <1>5 DEF CheckQuota

(* A handler that inserts its name gives up the place it had reserved.     *)
LEMMA QuotaInsert ==
    ASSUME AnnounceTypeOK, QuotaInv, NEW h \in Handlers, InsertName(h)
    PROVE  QuotaInv'
  <1>1. handler[h] \in Busy /\ handler[h].pc = "counted"
    BY BusyHandler DEF InsertName, At, Pcs
  <1>2. PICK p \in Owners, n \in RepoNames : p = handler[h].owner /\ n = handler[h].name
    BY <1>1 DEF Busy
  <1>3. PICK new : handler' = [handler EXCEPT ![h] = new] /\ new.pc # "counted"
    <2>1. CASE Goto(h, "conflict")
      <3> DEFINE new == [handler[h] EXCEPT !.pc = "conflict"]
      <3>1. new.pc = "conflict" /\ handler' = [handler EXCEPT ![h] = new]
        BY <1>1, <2>1 DEF Goto, Busy
      <3> QED
        BY <3>1
    <2>2. CASE handler' = [handler EXCEPT ![h].pc = "seeding", ![h].fresh = TRUE]
      <3> DEFINE new == [handler[h] EXCEPT !.pc = "seeding", !.fresh = TRUE]
      <3>1. new.pc = "seeding" /\ handler' = [handler EXCEPT ![h] = new]
        BY <1>1, <2>2 DEF Busy, AnnounceTypeOK
      <3> QED
        BY <3>1
    <2> QED
      BY <2>1, <2>2 DEF InsertName
  <1>4. /\ \A o \in Owners : Counted(o)' \subseteq Counted(o)
        /\ Counted(p)' = Counted(p) \ {h} /\ h \in Counted(p)
    BY <1>1, <1>2, <1>3 DEF Counted, AnnounceTypeOK
  <1>5. CASE nameOwner' = nameOwner
    <2>1. \A o \in Owners : Owned(o)' \subseteq Owned(o)
      BY <1>5 DEF Owned
    <2> QED
      BY <1>4, <1>5, <2>1, QuotaKept DEF QuotaInv
  <1>6. CASE nameOwner[n] = NoOwner /\ nameOwner' = [nameOwner EXCEPT ![n] = p]
    <2>1. nameOwner' \in [RepoNames -> Owners \cup {NoOwner}]
      BY <1>6 DEF QuotaInv
    <2>2. /\ Owned(p)' = Owned(p) \cup {n} /\ n \notin Owned(p)
          /\ \A o \in Owners : o # p => Owned(o)' \subseteq Owned(o)
      BY <1>6, AnnounceAssumption DEF Owned, QuotaInv
    <2>3. \A o \in Owners : o # p => /\ IsFiniteSet(Owned(o)')
                                    /\ Cardinality(Owned(o)') + Cardinality(Counted(o)') <= Overrun
      BY <1>4, <2>1, <2>2, QuotaKept
    <2>4. PICK A, C : A = Owned(p) /\ C = Counted(p)
      OBVIOUS
    <2>5. /\ IsFiniteSet(A) /\ Cardinality(A) + Cardinality(C) <= Overrun
          /\ n \notin A /\ h \in C /\ C \subseteq Handlers
      BY <1>4, <2>2, <2>4 DEF QuotaInv, Counted
    <2>6. IsFiniteSet(A \cup {n}) /\ Cardinality(A \cup {n}) = Cardinality(A) + 1
      BY <2>5, FS_AddElement
    <2>7. IsFiniteSet(C) /\ Cardinality(C \ {h}) = Cardinality(C) - 1
      BY <2>5, QuotaNumbers, FS_RemoveElement
    <2>8. Cardinality(A) \in Nat /\ Cardinality(C) \in Nat
      BY <2>5, <2>7, FS_CardinalityType
    <2>9. Cardinality(A \cup {n}) + Cardinality(C \ {h}) <= Overrun
      BY <2>5, <2>6, <2>7, <2>8, QuotaNumbers
    <2>10. IsFiniteSet(Owned(p)') /\ Cardinality(Owned(p)') + Cardinality(Counted(p)') <= Overrun
      BY <1>4, <2>2, <2>4, <2>6, <2>9
    <2> QED
      BY <2>1, <2>3, <2>10 DEF QuotaInv
  <1> QED
    BY <1>2, <1>5, <1>6 DEF InsertName

(* A handler that goes to another place than the insert is counted no more.*)
LEMMA GoesElsewhere ==
    ASSUME AnnounceTypeOK, NEW h \in Handlers,
           \/ Return(h)
           \/ \E pc \in Pcs \ {"counted"} : handler[h].pc \in Pcs /\ Goto(h, pc)
    PROVE  \A o \in Owners : Counted(o)' \subseteq Counted(o)
  <1>1. CASE Return(h)
    BY <1>1 DEF Return, Counted, AnnounceTypeOK, Resting
  <1>2. ASSUME NEW pc \in Pcs \ {"counted"}, handler[h].pc \in Pcs, Goto(h, pc)
        PROVE  \A o \in Owners : Counted(o)' \subseteq Counted(o)
    <2> DEFINE new == [handler[h] EXCEPT !.pc = pc]
    <2>1. handler' = [handler EXCEPT ![h] = new]
      BY <1>2 DEF Goto
    <2>2. new.pc = pc
      BY <1>2, BusyHandler DEF Busy
    <2> HIDE DEF new
    <2> QED
      BY <1>2, <2>1, <2>2 DEF Counted, AnnounceTypeOK
  <1> QED
    BY <1>1, <1>2

(* QuotaInv is kept by every step. *)
LEMMA QuotaInvariance ==
    ASSUME AnnounceTypeOK, QuotaInv, [AnnounceNext]_announceVars
    PROVE  QuotaInv'
  <1>1. ASSUME nameOwner' = nameOwner, \A o \in Owners : Counted(o)' \subseteq Counted(o)
        PROVE  QuotaInv'
    <2>1. \A o \in Owners : Owned(o)' \subseteq Owned(o)
      BY <1>1 DEF Owned
    <2> QED
      BY <1>1, <2>1, QuotaKept DEF QuotaInv
  <1>2. CASE UNCHANGED announceVars \/ \E o \in Owners, n \in RepoNames : Push(o, n)
    BY <1>1, <1>2 DEF announceVars, Push, Counted
  <1>3. ASSUME NEW h \in Handlers, NEW p \in Owners, NEW n \in RepoNames, Announce(h, p, n)
        PROVE  QuotaInv'
    <2>1. \A o \in Owners : Counted(o)' \subseteq Counted(o)
      BY <1>3 DEF Announce, Counted, AnnounceTypeOK
    <2> QED
      BY <1>1, <1>3, <2>1 DEF Announce
  <1>4. ASSUME NEW h \in Handlers,
               \/ PeekOwner(h) \/ ReadHolder(h) \/ EnsurePointer(h) \/ SeedPointer(h)
               \/ RereadPointer(h) \/ StoreFails(h) \/ Abandon(h)
        PROVE  QuotaInv'
    <2>1. \A o \in Owners : Counted(o)' \subseteq Counted(o)
      <3>1. \/ Return(h)
            \/ \E pc \in Pcs \ {"counted"} : handler[h].pc \in Pcs /\ Goto(h, pc)
        BY <1>4 DEF PeekOwner, ReadHolder, EnsurePointer, SeedPointer, RereadPointer, StoreFails,
                    Abandon, PointerErr, ReturnOk, At, Pcs
      <3> QED
        BY <3>1, GoesElsewhere
    <2>2. nameOwner' = nameOwner
      BY <1>4 DEF PeekOwner, ReadHolder, EnsurePointer, SeedPointer, RereadPointer, StoreFails, Abandon
    <2> QED
      BY <1>1, <2>1, <2>2
  <1>5. ASSUME NEW h \in Handlers, ReleaseName(h)
        PROVE  QuotaInv'
    <2>1. handler[h] \in Busy /\ Return(h)
      BY <1>5, BusyHandler DEF ReleaseName, At, Pcs
    <2>2. PICK n \in RepoNames : \/ nameOwner' = [nameOwner EXCEPT ![n] = NoOwner]
                                 \/ nameOwner' = [nameOwner EXCEPT ![n] = nameOwner[n]]
      BY <1>5, <2>1 DEF ReleaseName, Busy
    <2>3. nameOwner' \in [RepoNames -> Owners \cup {NoOwner}]
      BY <2>2 DEF QuotaInv
    <2>4. \A o \in Owners : Owned(o)' \subseteq Owned(o)
      BY <2>2, AnnounceAssumption DEF Owned, QuotaInv
    <2>5. \A o \in Owners : Counted(o)' \subseteq Counted(o)
      BY <2>1, GoesElsewhere
    <2> QED
      BY <2>3, <2>4, <2>5, QuotaKept DEF QuotaInv
  <1> QED
    BY <1>2, <1>3, <1>4, <1>5, QuotaRead, QuotaInsert DEF AnnounceNext

(* Announcements at the same time overrun the quota of an owner by one for *)
(* each handler but one, and never more, though the count and the insert   *)
(* are two statements.                                                     *)
THEOREM QuotaOverrunAlwaysBounded == AnnounceSpec => []QuotaOverrunBounded
  <1>1. AnnounceInit => QuotaInv
    <2> SUFFICES ASSUME AnnounceInit
                 PROVE  QuotaInv
      OBVIOUS
    <2>1. \A o \in Owners : Owned(o) = {} /\ Counted(o) = {}
      BY AnnounceAssumption DEF AnnounceInit, Owned, Counted, Resting
    <2>2. 0 <= Overrun
      BY QuotaNumbers, AnnounceAssumption DEF Overrun
    <2>3. \A o \in Owners : Cardinality(Owned(o)) = 0 /\ Cardinality(Counted(o)) = 0
                            /\ IsFiniteSet(Owned(o))
      BY <2>1, FS_EmptySet
    <2>4. nameOwner \in [RepoNames -> Owners \cup {NoOwner}]
      BY DEF AnnounceInit
    <2> QED
      BY <2>2, <2>3, <2>4 DEF QuotaInv
  <1>2. QuotaInv => QuotaOverrunBounded
    <2> SUFFICES ASSUME QuotaInv, NEW o \in Owners
                 PROVE  Cardinality(Owned(o)) <= Overrun
      BY DEF QuotaOverrunBounded, Overrun
    <2>1. Cardinality(Owned(o)) \in Nat /\ Counted(o) \in SUBSET Handlers
      BY FS_CardinalityType DEF QuotaInv, Counted
    <2> QED
      BY <2>1, QuotaNumbers DEF QuotaInv
  <1>3. AnnounceSpec => []QuotaInv
    <2>1. AnnounceInv /\ QuotaInv /\ [AnnounceNext]_announceVars => QuotaInv'
      BY QuotaInvariance DEF AnnounceInv
    <2> QED
      BY <1>1, <2>1, AnnounceInvHolds, PTL DEF AnnounceSpec
  <1> QED
    BY <1>2, <1>3, PTL
=============================================================================
