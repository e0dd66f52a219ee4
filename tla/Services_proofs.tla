-------------------------- MODULE Services_proofs --------------------------
(***************************************************************************)
(* Proofs about the relay's services: the push notifications with the gate *)
(* in front of the match queue and the replay fence in front of APNs       *)
(* (PushWakes), and the workflow scheduler (WorkflowSchedule), for any     *)
(* events, matchers, couriers, processes, periods and bounds.              *)
(***************************************************************************)
EXTENDS PushWakes, WorkflowSchedule, FiniteSetTheorems, TLAPS

-----------------------------------------------------------------------------
(* Push notifications: the replay fence *)

(* Nothing of a wake's way to APNs but the gateway's own tables: a wake    *)
(* under way or taken is fenced, and is under way once, if at all.         *)
FenceInv ==
    /\ confirmed \subseteq fence
    /\ \A f \in flights : f.event \in fence /\ f.event \notin confirmed
    /\ \A f, g \in flights : f.event = g.event => f = g

(* An admission is of a wake that is not fenced.                           *)
LEMMA AdmissionKeepsFence ==
    ASSUME FenceInv, NEW w \in Couriers, Admit(w)
    PROVE  FenceInv'
<1> DEFINE new == [event |-> Wake(w), attempt |-> courier[w].attempt, caller |-> w]
<1>1. /\ flights' = flights \cup {new} /\ fence' = fence \cup {Wake(w)}
      /\ Wake(w) \notin fence /\ confirmed' = confirmed
    BY DEF Admit
<1>2. new.event = Wake(w)
    OBVIOUS
<1> HIDE DEF new
<1> QED BY <1>1, <1>2 DEF FenceInv

(* An answer of APNs ends the one flight of its wake: it becomes a send    *)
(* that is confirmed, or it may release the request id.                    *)
LEMMA AnswerKeepsFence ==
    ASSUME FenceInv, NEW f \in flights,
           \/ ApnsAccepts(f) \/ ApnsInvalidEndpoint(f) \/ ApnsRefuses(f)
           \/ \E releases \in BOOLEAN : ApnsRetry(f, releases)
    PROVE  FenceInv'
<1>1. CASE ApnsAccepts(f)
    BY <1>1 DEF FenceInv, ApnsAccepts, Terminal
<1>2. CASE ApnsInvalidEndpoint(f) \/ ApnsRefuses(f)
    BY <1>2 DEF FenceInv, ApnsInvalidEndpoint, ApnsRefuses, Terminal
<1>3. ASSUME NEW releases \in BOOLEAN, ApnsRetry(f, releases)
      PROVE  FenceInv'
    BY <1>3 DEF FenceInv, ApnsRetry
<1> QED BY <1>1, <1>2, <1>3

(* A step of the relay or of its database leaves the gateway's tables.     *)
LEMMA RelayStepsKeepFence ==
    ASSUME FenceInv, UNCHANGED gatewayVars
    PROVE  FenceInv'
BY DEF FenceInv, gatewayVars

(* So FenceInv is inductive, whatever becomes of claims and couriers.      *)
LEMMA FenceInvariance ==
    FenceInv /\ [PushNext]_pushVars => FenceInv'
<1> SUFFICES ASSUME FenceInv, [PushNext]_pushVars
             PROVE  FenceInv'
    OBVIOUS
<1>1. ASSUME NEW active \in BOOLEAN, OpenLeaseTx(active)
      PROVE  UNCHANGED gatewayVars
    BY <1>1 DEF OpenLeaseTx
<1>2. ASSUME NEW recent \in SUBSET Events, CommitLease(recent)
      PROVE  UNCHANGED gatewayVars
    BY <1>2 DEF CommitLease
<1>3. CASE LeaseRunsOut \/ LosesMembership
    BY <1>3, RelayStepsKeepFence DEF LeaseRunsOut, LosesMembership
<1>4. ASSUME NEW e \in Events,
             \/ InsertEvent(e) \/ CommitEvent(e)
             \/ MatchClaimExpires(e) \/ ReapMatch(e) \/ WakeClaimExpires(e)
             \/ \E m \in Matchers : ClaimMatch(m, e)
             \/ \E w \in Couriers : ClaimWake(w, e)
      PROVE  UNCHANGED gatewayVars
    BY <1>4 DEF InsertEvent, CommitEvent, MatchClaimExpires, ReapMatch, WakeClaimExpires,
                ClaimMatch, ClaimWake
<1>5. ASSUME NEW m \in Matchers,
             \/ \E matches \in BOOLEAN : LoadContext(m, matches)
             \/ EnqueueWake(m) \/ MatchFails(m) \/ SettleMatch(m) \/ MatcherGivesUp(m)
      PROVE  UNCHANGED gatewayVars
    BY <1>5 DEF LoadContext, EnqueueWake, MatchFails, SettleMatch, MatcherGivesUp
<1>6. ASSUME NEW w \in Couriers,
             \/ CheckMember(w) \/ CheckMemberFails(w) \/ Revalidate(w)
             \/ RejectPost(w) \/ Unavailable(w) \/ PostTimesOut(w)
             \/ DisableEndpoint(w) \/ SettleWake(w) \/ CourierGivesUp(w)
      PROVE  UNCHANGED gatewayVars
    BY <1>6 DEF CheckMember, CheckMemberFails, Revalidate, RejectPost, Unavailable,
                PostTimesOut, DisableEndpoint, SettleWake, CourierGivesUp
<1>7. CASE UNCHANGED pushVars
    BY <1>7, RelayStepsKeepFence DEF pushVars
<1> QED BY <1>1, <1>2, <1>3, <1>4, <1>5, <1>6, <1>7, RelayStepsKeepFence,
           AdmissionKeepsFence, AnswerKeepsFence DEF PushNext

(* A wake is at APNs once, or was taken by it, and not both.               *)
LEMMA FencedIsSentOnce == FenceInv => SentToApnsOnce
<1> SUFFICES ASSUME FenceInv, NEW e \in Events
             PROVE  Cardinality({f \in flights : f.event = e})
                       + (IF e \in confirmed THEN 1 ELSE 0) <= 1
    BY DEF SentToApnsOnce
<1> DEFINE S == {f \in flights : f.event = e}
<1>1. CASE S = {}
    <2>1. Cardinality(S) = 0
        BY <1>1, FS_EmptySet
    <2> QED BY <2>1
<1>2. CASE S # {}
    <2>1. PICK f \in S : S = {f}
        BY <1>2 DEF FenceInv
    <2>2. Cardinality(S) = 1
        BY <2>1, FS_Singleton
    <2>3. e \notin confirmed
        BY <2>1 DEF FenceInv
    <2> QED BY <2>2, <2>3
<1> QED BY <1>1, <1>2

(* A wake that is at APNs or was taken by APNs is not sent there again, in *)
(* every behaviour: the gateway's two tables are enough for it, with no    *)
(* word about the relay that calls.                                        *)
THEOREM SentToApnsOnceAlways == PushSpec => []SentToApnsOnce
<1>1. PushInit => FenceInv
    BY DEF PushInit, FenceInv
<1> QED BY <1>1, FenceInvariance, FencedIsSentOnce, PTL DEF PushSpec

-----------------------------------------------------------------------------
(* Push notifications: the gate *)

(* The rows the gate is about. *)
LeaseTypeOK ==
    /\ pushLease \in [gen : Nat, active : BOOLEAN, enabled : BOOLEAN]
    /\ leaseTx \in {NoTx} \cup [gen : Nat, active : BOOLEAN]
    /\ stored \in [Events -> {"none", "inserting", "stored"}]
    /\ gated \in [Events -> BOOLEAN]
    /\ match = [e \in Events |-> match[e]]

(* While an activation holds the gate no event is being inserted, and an   *)
(* event that was let in without a job meets no eligible lease before its  *)
(* commit.                                                                 *)
GateInv ==
    /\ LeaseTypeOK
    /\ GateHeld => Inserting = {}
    /\ \A e \in Events : stored[e] = "inserting" /\ ~gated[e] => ~Eligible

(* An activation takes the gate when no event is inside; a revocation does *)
(* not need it.                                                            *)
LEMMA GateOpens ==
    ASSUME GateInv, NEW active \in BOOLEAN, OpenLeaseTx(active)
    PROVE  GateInv'
<1>1. leaseTx' \in [gen : Nat, active : BOOLEAN] /\ leaseTx'.active = active
    BY DEF GateInv, LeaseTypeOK, OpenLeaseTx
<1>2. LeaseTypeOK'
    BY <1>1 DEF GateInv, LeaseTypeOK, OpenLeaseTx, matchVars
<1>3. GateHeld' => Inserting' = {}
    BY <1>1 DEF OpenLeaseTx, matchVars, GateHeld, Inserting
<1>4. UNCHANGED <<stored, gated, pushLease>>
    BY DEF OpenLeaseTx, matchVars
<1> QED BY <1>2, <1>3, <1>4 DEF GateInv, Eligible

(* A lease becomes eligible only by the commit of an activation, which held *)
(* the gate.                                                               *)
LEMMA GateCloses ==
    ASSUME GateInv, NEW recent \in SUBSET Events, CommitLease(recent)
    PROVE  GateInv'
<1>1. leaseTx \in [gen : Nat, active : BOOLEAN] /\ leaseTx # NoTx
    BY DEF GateInv, LeaseTypeOK, CommitLease
<1>2. /\ pushLease' = [gen |-> leaseTx.gen, active |-> leaseTx.active, enabled |-> TRUE]
      /\ leaseTx' = NoTx /\ UNCHANGED <<stored, gated>>
    BY DEF CommitLease
<1>3. pushLease' \in [gen : Nat, active : BOOLEAN, enabled : BOOLEAN]
      /\ pushLease'.active = leaseTx.active
    BY <1>1, <1>2
<1>4. match' = [e \in Events |-> match'[e]]
    BY Zenon DEF CommitLease
<1>5. LeaseTypeOK'
    BY <1>2, <1>3, <1>4 DEF GateInv, LeaseTypeOK
<1>6. Eligible' => Inserting = {}
    BY <1>1, <1>3 DEF Eligible, GateInv, GateHeld
<1> QED BY <1>2, <1>5, <1>6 DEF GateInv, GateHeld, Inserting

(* A lease that runs out or whose endpoint is disabled is eligible no more. *)
LEMMA LeaseWeakens ==
    ASSUME GateInv, LeaseRunsOut \/ \E w \in Couriers : DisableEndpoint(w)
    PROVE  GateInv' /\ (pushLease' # pushLease => pushLease'.gen = pushLease.gen)
<1>1. /\ UNCHANGED <<leaseTx, stored, gated, match>>
      /\ \/ pushLease' = pushLease
         \/ pushLease' = [pushLease EXCEPT !.active = FALSE]
         \/ pushLease' = [pushLease EXCEPT !.enabled = FALSE]
    BY DEF LeaseRunsOut, DisableEndpoint, matchVars
<1>2. /\ pushLease' \in [gen : Nat, active : BOOLEAN, enabled : BOOLEAN]
      /\ pushLease'.gen = pushLease.gen
      /\ pushLease'.active => pushLease.active
      /\ pushLease'.enabled => pushLease.enabled
    BY <1>1 DEF GateInv, LeaseTypeOK
<1>3. Eligible' => Eligible
    BY <1>2 DEF Eligible
<1> QED BY <1>1, <1>2, <1>3 DEF GateInv, LeaseTypeOK, GateHeld, Inserting

(* The trigger looks for a lease as the event enters.                      *)
LEMMA EventEnters ==
    ASSUME GateInv, NEW e \in Events, InsertEvent(e)
    PROVE  GateInv'
<1>1. /\ stored' = [stored EXCEPT ![e] = "inserting"]
      /\ gated' = [gated EXCEPT ![e] = Eligible]
      /\ ~GateHeld
      /\ UNCHANGED <<pushLease, leaseTx, match>>
    BY DEF InsertEvent, leaseRowVars
<1>2. Eligible \in BOOLEAN
    BY DEF Eligible, GateInv, LeaseTypeOK
<1>3. LeaseTypeOK'
    BY <1>1, <1>2 DEF GateInv, LeaseTypeOK
<1> QED BY <1>1, <1>2, <1>3 DEF GateInv, LeaseTypeOK, GateHeld, Eligible

(* An event that commits under an eligible lease was let in with a job.    *)
LEMMA EventLeaves ==
    ASSUME GateInv, NEW e \in Events, CommitEvent(e)
    PROVE  /\ GateInv'
           /\ \A d \in Events : d # e => stored'[d] = stored[d]
           /\ Eligible => match'[e] # NoRow
<1>1. /\ stored[e] = "inserting"
      /\ stored' = [stored EXCEPT ![e] = "stored"]
      /\ gated' = [gated EXCEPT ![e] = FALSE]
      /\ match' = IF gated[e] THEN [match EXCEPT ![e] = PendingJob] ELSE match
      /\ UNCHANGED <<pushLease, leaseTx>>
    BY DEF CommitEvent, leaseRowVars
<1>2. match' = [d \in Events |-> match'[d]]
    BY <1>1, Zenon DEF GateInv, LeaseTypeOK
<1>3. LeaseTypeOK'
    BY <1>1, <1>2 DEF GateInv, LeaseTypeOK
<1>4. \A d \in Events : d # e => stored'[d] = stored[d] /\ gated'[d] = gated[d]
    BY <1>1 DEF GateInv, LeaseTypeOK
<1>5. stored'[e] = "stored"
    BY <1>1 DEF GateInv, LeaseTypeOK
<1>6. GateInv'
    BY <1>1, <1>3, <1>4, <1>5 DEF GateInv, GateHeld, Inserting, Eligible
<1>7. Eligible => gated[e]
    BY <1>1 DEF GateInv, LeaseTypeOK
<1>8. Eligible => match'[e] = PendingJob
    BY <1>1, <1>7 DEF GateInv, LeaseTypeOK
<1>9. PendingJob # NoRow
    BY DEF PendingJob, NoRow
<1> QED BY <1>4, <1>6, <1>8, <1>9

(* A step past the gate.                                                   *)
LEMMA GateUntouched ==
    ASSUME GateInv, UNCHANGED <<pushLease, leaseTx, stored, gated>>,
           match' = [e \in Events |-> match'[e]]
    PROVE  GateInv'
BY DEF GateInv, LeaseTypeOK, GateHeld, Inserting, Eligible

(* The queue keeps a row, or none, for each event.                         *)
LEMMA MatchStaysAFunction ==
    ASSUME LeaseTypeOK,
           \/ UNCHANGED match
           \/ \E e, v : match' = [match EXCEPT ![e] = v]
    PROVE  match' = [e \in Events |-> match'[e]]
BY Zenon DEF LeaseTypeOK

(* The matcher's steps, which change what is in the queue and never what   *)
(* the gate reads.                                                         *)
LEMMA MatchersPassGate ==
    ASSUME GateInv,
           \/ \E e \in Events :
                 \/ MatchClaimExpires(e) \/ ReapMatch(e)
                 \/ \E m \in Matchers : ClaimMatch(m, e)
           \/ \E m \in Matchers :
                 \/ \E matches \in BOOLEAN : LoadContext(m, matches)
                 \/ EnqueueWake(m) \/ MatchFails(m) \/ SettleMatch(m) \/ MatcherGivesUp(m)
    PROVE  GateInv' /\ UNCHANGED <<pushLease, stored>>
<1>1. UNCHANGED <<pushLease, leaseTx, stored, gated>>
    BY DEF MatchClaimExpires, ReapMatch, ClaimMatch, LoadContext, EnqueueWake, MatchFails,
           SettleMatch, MatcherGivesUp, leaseRowVars
<1>2. ASSUME NEW e \in Events, MatchClaimExpires(e)
      PROVE  \E d, v : match' = [match EXCEPT ![d] = v]
    BY <1>2, Zenon DEF MatchClaimExpires
<1>3. ASSUME NEW e \in Events, ReapMatch(e)
      PROVE  \E d, v : match' = [match EXCEPT ![d] = v]
    BY <1>3, Zenon DEF ReapMatch
<1>4. ASSUME NEW e \in Events, NEW m \in Matchers, ClaimMatch(m, e)
      PROVE  \E d, v : match' = [match EXCEPT ![d] = v]
    BY <1>4, Zenon DEF ClaimMatch
<1>5. ASSUME NEW m \in Matchers, SettleMatch(m)
      PROVE  UNCHANGED match \/ \E d, v : match' = [match EXCEPT ![d] = v]
    BY <1>5, Zenon DEF SettleMatch
<1>6. ASSUME NEW m \in Matchers,
             \/ \E matches \in BOOLEAN : LoadContext(m, matches)
             \/ EnqueueWake(m) \/ MatchFails(m) \/ MatcherGivesUp(m)
      PROVE  UNCHANGED match
    BY <1>6 DEF LoadContext, EnqueueWake, MatchFails, MatcherGivesUp
<1>7. UNCHANGED match \/ \E d, v : match' = [match EXCEPT ![d] = v]
    BY <1>2, <1>3, <1>4, <1>5, <1>6, Zenon
<1>8. match' = [e \in Events |-> match'[e]]
    BY <1>7, MatchStaysAFunction DEF GateInv
<1> QED BY <1>1, <1>8, GateUntouched

(* The delivery's steps but the one that disables the endpoint.            *)
LEMMA DeliveryPassesGate ==
    ASSUME GateInv,
           \/ LosesMembership
           \/ \E e \in Events : WakeClaimExpires(e) \/ \E w \in Couriers : ClaimWake(w, e)
           \/ \E w \in Couriers :
                 \/ CheckMember(w) \/ CheckMemberFails(w) \/ Revalidate(w)
                 \/ Admit(w) \/ RejectPost(w) \/ Unavailable(w) \/ PostTimesOut(w)
                 \/ SettleWake(w) \/ CourierGivesUp(w)
           \/ \E f \in flights :
                 \/ ApnsAccepts(f) \/ ApnsInvalidEndpoint(f) \/ ApnsRefuses(f)
                 \/ \E releases \in BOOLEAN : ApnsRetry(f, releases)
           \/ UNCHANGED pushVars
    PROVE  GateInv' /\ UNCHANGED <<pushLease, stored>>
<1>1. UNCHANGED <<leaseRowVars, matchVars>>
    BY DEF LosesMembership, WakeClaimExpires, ClaimWake, CheckMember, CheckMemberFails,
           Revalidate, Admit, RejectPost, Unavailable, PostTimesOut, SettleWake,
           CourierGivesUp, ApnsAccepts, ApnsInvalidEndpoint, ApnsRefuses, ApnsRetry, pushVars
<1>2. UNCHANGED <<pushLease, leaseTx, stored, gated, match>>
    BY <1>1 DEF leaseRowVars, matchVars
<1> QED BY <1>2, GateUntouched DEF GateInv, LeaseTypeOK

(* The steps that the gate is about.                                       *)
GateSteps ==
    \/ \E active \in BOOLEAN : OpenLeaseTx(active)
    \/ \E recent \in SUBSET Events : CommitLease(recent)
    \/ LeaseRunsOut
    \/ \E e \in Events : InsertEvent(e) \/ CommitEvent(e)
    \/ \E w \in Couriers : DisableEndpoint(w)

(* Every step is one of the gate or passes it by.                          *)
LEMMA OnlyGateStepsMatter ==
    ASSUME GateInv, [PushNext]_pushVars
    PROVE  GateSteps \/ (GateInv' /\ UNCHANGED <<pushLease, stored>>)
BY MatchersPassGate, DeliveryPassesGate DEF PushNext, GateSteps

(* So GateInv is inductive, ...                                            *)
LEMMA GateInvariance == GateInv /\ [PushNext]_pushVars => GateInv'
BY OnlyGateStepsMatter, GateOpens, GateCloses, LeaseWeakens, EventEnters, EventLeaves, Zenon
   DEF GateSteps

(* ... and the community starts without a lease.                           *)
LEMMA GateInitially == PushInit => GateInv
<1> SUFFICES ASSUME PushInit PROVE GateInv
    OBVIOUS
<1>1. LeaseTypeOK
    BY DEF PushInit, LeaseTypeOK
<1> QED BY <1>1 DEF PushInit, GateInv, GateHeld, Inserting

(* No event is committed without a match job under a lease that is then    *)
(* eligible: the advisory lock of the trigger and of the activation is     *)
(* enough, for any number of leases and of events.                         *)
THEOREM NoWakeEverLostAtTheGate == PushSpec => NoWakeLostAtTheGate
<1> DEFINE Lost == \A e \in Events :
                      stored[e] = "inserting" /\ stored'[e] = "stored" /\ Eligible
                         => match'[e] # NoRow
<1>1. ASSUME GateInv, [PushNext]_pushVars
      PROVE  [Lost]_pushVars
    <2>1. CASE GateSteps
        <3>1. CASE \E e \in Events : CommitEvent(e)
            BY <1>1, <3>1, EventLeaves
        <3>2. CASE \E e \in Events : InsertEvent(e)
            BY <1>1, <3>2 DEF InsertEvent, GateInv, LeaseTypeOK
        <3>3. CASE \/ \E active \in BOOLEAN : OpenLeaseTx(active)
                   \/ \E recent \in SUBSET Events : CommitLease(recent)
                   \/ LeaseRunsOut
                   \/ \E w \in Couriers : DisableEndpoint(w)
            BY <3>3 DEF OpenLeaseTx, CommitLease, LeaseRunsOut, DisableEndpoint, matchVars
        <3> QED BY <2>1, <3>1, <3>2, <3>3, Zenon DEF GateSteps
    <2>2. CASE UNCHANGED <<pushLease, stored>>
        BY <2>2
    <2> QED BY <1>1, <2>1, <2>2, OnlyGateStepsMatter
<1> QED BY <1>1, GateInitially, GateInvariance, PTL DEF PushSpec, NoWakeLostAtTheGate

(* An endpoint is disabled only on the word of APNs about the generation   *)
(* that is current: every other step of the relay leaves it enabled or     *)
(* begins a new generation.                                                *)
THEOREM StaleAnswerAlwaysHarmless == PushSpec => StaleAnswerHarmless
<1> DEFINE Harmless ==
        pushLease.enabled /\ pushLease'.gen = pushLease.gen /\ ~pushLease'.enabled
           => \E w \in Couriers : courier[w].at = "disabling" /\ courier[w].gen = pushLease.gen
<1>1. ASSUME GateInv, [PushNext]_pushVars
      PROVE  [Harmless]_pushVars
    <2>1. CASE GateSteps
        <3>1. CASE \E w \in Couriers : DisableEndpoint(w)
            BY <3>1 DEF DisableEndpoint
        <3>2. CASE LeaseRunsOut
            BY <1>1, <3>2 DEF LeaseRunsOut, GateInv, LeaseTypeOK
        <3>3. CASE \E recent \in SUBSET Events : CommitLease(recent)
            BY <3>3 DEF CommitLease
        <3>4. CASE \/ \E active \in BOOLEAN : OpenLeaseTx(active)
                   \/ \E e \in Events : InsertEvent(e) \/ CommitEvent(e)
            BY <3>4 DEF OpenLeaseTx, InsertEvent, CommitEvent, leaseRowVars
        <3> QED BY <2>1, <3>1, <3>2, <3>3, <3>4, Zenon DEF GateSteps
    <2>2. CASE UNCHANGED <<pushLease, stored>>
        BY <2>2
    <2> QED BY <1>1, <2>1, <2>2, OnlyGateStepsMatter
<1> QED BY <1>1, GateInitially, GateInvariance, PTL DEF PushSpec, StaleAnswerHarmless

-----------------------------------------------------------------------------
(* The workflow scheduler *)

(* Where a process can be: asleep, or at one of the calls of a tick.       *)
SchedulerStates ==
    [at : {"asleep"}, due : Nat] \cup
    [at : {"gate", "claim", "create"}, tick : Nat, may : BOOLEAN]

At(p) == scheduler[p].at

(* A claim that is won is nobody else's, and has no run yet; ...           *)
ClaimsInv ==
    /\ \A p \in Schedulers : At(p) = "create" =>
          /\ Instant(p) \in fireClaims
          /\ \A r \in scheduledRuns : FireInstant(r.tick) # Instant(p)
    /\ \A p, q \in Schedulers :
          p # q /\ At(p) = "create" /\ At(q) = "create" => Instant(p) # Instant(q)
    /\ \A r \in scheduledRuns : FireInstant(r.tick) \in fireClaims
    /\ OneRunPerBucket

(* ... and a tick that is past the gate began while the owner had the role.*)
AuthorityInv ==
    /\ \A p \in Schedulers : At(p) \in {"claim", "create"} => scheduler[p].may = TRUE
    /\ \A p \in Schedulers : At(p) = "gate" /\ scheduler[p].may = FALSE => ownerRole = FALSE
    /\ \A r \in scheduledRuns : r.may = TRUE

ScheduleInv ==
    /\ wallClock \in Nat
    /\ ownerRole \in BOOLEAN
    /\ scheduler \in [Schedulers -> SchedulerStates]
    /\ ClaimsInv
    /\ AuthorityInv

(* A process goes to sleep, its tick over, having claimed or not.          *)
LEMMA ScheduleSleeps ==
    ASSUME ScheduleInv, NEW p \in Schedulers, SleepAgain(p), fireClaims \subseteq fireClaims',
           UNCHANGED <<wallClock, scheduledRuns, ownerRole>>
    PROVE  ScheduleInv'
<1>0. wallClock + Period \in Nat
    BY ScheduleAssumption DEF ScheduleInv
<1>1. scheduler' = [scheduler EXCEPT ![p] = Asleep(wallClock + Period)]
    BY DEF SleepAgain
<1>2. Asleep(wallClock + Period) \in SchedulerStates /\ Asleep(wallClock + Period).at = "asleep"
    BY <1>0 DEF Asleep, SchedulerStates
<1>3. /\ scheduler' \in [Schedulers -> SchedulerStates]
      /\ scheduler'[p].at = "asleep"
      /\ \A q \in Schedulers : q # p => scheduler'[q] = scheduler[q]
    BY <1>1, <1>2 DEF ScheduleInv
<1>4. \A q \in Schedulers : At(q)' # "asleep" => At(q)' = At(q) /\ scheduler'[q] = scheduler[q]
                                              /\ Instant(q)' = Instant(q)
    BY <1>3 DEF At, Instant, FireInstant
<1>5. ClaimsInv'
    BY <1>4 DEF ScheduleInv, ClaimsInv, OneRunPerBucket, FireInstant
<1>6. AuthorityInv'
    BY <1>4 DEF ScheduleInv, AuthorityInv
<1> QED BY <1>3, <1>5, <1>6 DEF ScheduleInv

(* A tick that the prefilter lets through.                                 *)
LEMMA ScheduleEntersGate ==
    ASSUME ScheduleInv, NEW p \in Schedulers,
           scheduler' = [scheduler EXCEPT ![p] =
                            [at |-> "gate", tick |-> wallClock, may |-> ownerRole]],
           UNCHANGED <<wallClock, fireClaims, scheduledRuns, ownerRole>>
    PROVE  ScheduleInv'
<1> DEFINE s == [at |-> "gate", tick |-> wallClock, may |-> ownerRole]
<1>1. s \in SchedulerStates /\ s.at = "gate" /\ s.may = ownerRole
    BY DEF ScheduleInv, SchedulerStates
<1> HIDE DEF s
<1>2. /\ scheduler' \in [Schedulers -> SchedulerStates]
      /\ scheduler'[p] = s
      /\ \A q \in Schedulers : q # p => scheduler'[q] = scheduler[q]
    BY <1>1 DEF ScheduleInv, s
<1>3. /\ At(p)' = "gate" /\ scheduler'[p].may = ownerRole
      /\ \A q \in Schedulers : q # p => At(q)' = At(q) /\ scheduler'[q] = scheduler[q]
                                                       /\ Instant(q)' = Instant(q)
    BY <1>1, <1>2 DEF At, Instant, FireInstant
<1>4. ClaimsInv'
    BY <1>3 DEF ScheduleInv, ClaimsInv, OneRunPerBucket, FireInstant
<1>5. AuthorityInv'
    BY <1>3 DEF ScheduleInv, AuthorityInv
<1> QED BY <1>2, <1>4, <1>5 DEF ScheduleInv

(* A tick goes on to its next call, with the time and the authority it     *)
(* began with.                                                             *)
LEMMA ScheduleGoesOn ==
    ASSUME ScheduleInv, NEW p \in Schedulers, NEW at \in {"claim", "create"},
           At(p) # "asleep", GoOn(p, at)
    PROVE  /\ scheduler' \in [Schedulers -> SchedulerStates]
           /\ At(p)' = at /\ scheduler'[p].may = scheduler[p].may /\ Instant(p)' = Instant(p)
           /\ \A q \in Schedulers : q # p => At(q)' = At(q) /\ scheduler'[q] = scheduler[q]
                                                            /\ Instant(q)' = Instant(q)
<1> DEFINE s == [scheduler[p] EXCEPT !.at = at]
<1>1. scheduler' = [scheduler EXCEPT ![p] = s]
    BY Zenon DEF GoOn
<1>2. scheduler[p] \in [at : {"gate", "claim", "create"}, tick : Nat, may : BOOLEAN]
    BY DEF ScheduleInv, SchedulerStates, At
<1>3. /\ s \in [at : {"gate", "claim", "create"}, tick : Nat, may : BOOLEAN]
      /\ s.at = at /\ s.tick = scheduler[p].tick /\ s.may = scheduler[p].may
    BY <1>2
<1> HIDE DEF s
<1>4. /\ scheduler' \in [Schedulers -> SchedulerStates]
      /\ scheduler'[p] = s
      /\ \A q \in Schedulers : q # p => scheduler'[q] = scheduler[q]
    BY <1>1, <1>3 DEF ScheduleInv, SchedulerStates
<1> QED BY <1>3, <1>4 DEF At, Instant, FireInstant

(* Every call of a tick, in every outcome.                                 *)
LEMMA ScheduleTicks ==
    ASSUME ScheduleInv, NEW p \in Schedulers,
           \/ Tick(p) \/ TickFails(p) \/ AnchorReadFails(p) \/ TickDisabled(p)
           \/ CheckOwnerAuthority(p) \/ AuthorityFails(p)
           \/ ClaimFire(p) \/ ClaimTaken(p)
           \/ \E claimed \in BOOLEAN : ClaimFails(p, claimed)
           \/ CreateRun(p) \/ CreateRunFails(p) \/ Restart(p)
    PROVE  ScheduleInv'
<1>1. CASE \/ Tick(p) \/ AnchorReadFails(p)
    <2>1. UNCHANGED <<wallClock, fireClaims, scheduledRuns, ownerRole>>
        BY <1>1 DEF Tick, AnchorReadFails, tenancyVars
    <2>2. \/ SleepAgain(p)
          \/ scheduler' = [scheduler EXCEPT ![p] =
                              [at |-> "gate", tick |-> wallClock, may |-> ownerRole]]
        BY <1>1 DEF Tick, AnchorReadFails, Prefilter
    <2> QED BY <2>1, <2>2, ScheduleSleeps, ScheduleEntersGate
<1>2. CASE \/ TickFails(p) \/ TickDisabled(p) \/ AuthorityFails(p) \/ ClaimTaken(p)
           \/ CreateRunFails(p) \/ Restart(p) \/ \E claimed \in BOOLEAN : ClaimFails(p, claimed)
    <2>1. /\ SleepAgain(p) /\ fireClaims \subseteq fireClaims'
          /\ UNCHANGED <<wallClock, scheduledRuns, ownerRole>>
        BY <1>2 DEF TickFails, TickDisabled, AuthorityFails, ClaimTaken, CreateRunFails, Restart,
                    ClaimFails, tenancyVars
    <2> QED BY <2>1, ScheduleSleeps
<1>3. CASE CheckOwnerAuthority(p)
    <2>1. /\ At(p) = "gate" /\ UNCHANGED <<wallClock, fireClaims, scheduledRuns, ownerRole>>
          /\ \/ ownerRole /\ GoOn(p, "claim")
             \/ SleepAgain(p)
        BY <1>3 DEF CheckOwnerAuthority, tenancyVars, At
    <2>2. CASE SleepAgain(p)
        BY <2>1, <2>2, ScheduleSleeps
    <2>3. CASE ownerRole /\ GoOn(p, "claim")
        <3>1. /\ scheduler' \in [Schedulers -> SchedulerStates]
              /\ At(p)' = "claim" /\ scheduler'[p].may = scheduler[p].may
              /\ \A q \in Schedulers : q # p => At(q)' = At(q) /\ scheduler'[q] = scheduler[q]
                                                               /\ Instant(q)' = Instant(q)
            BY <2>1, <2>3, ScheduleGoesOn
        <3>2. scheduler[p].may = TRUE
            <4>1. scheduler[p].may \in BOOLEAN
                BY <2>1 DEF ScheduleInv, SchedulerStates, At
            <4> QED BY <2>1, <2>3, <4>1 DEF ScheduleInv, AuthorityInv
        <3>3. ClaimsInv'
            BY <2>1, <3>1 DEF ScheduleInv, ClaimsInv, OneRunPerBucket, FireInstant
        <3>4. AuthorityInv'
            BY <2>1, <3>1, <3>2 DEF ScheduleInv, AuthorityInv
        <3> QED BY <2>1, <3>1, <3>3, <3>4 DEF ScheduleInv
    <2> QED BY <2>1, <2>2, <2>3
<1>4. CASE ClaimFire(p)
    <2>1. /\ At(p) = "claim" /\ Instant(p) \notin fireClaims
          /\ fireClaims' = fireClaims \cup {Instant(p)} /\ GoOn(p, "create")
          /\ UNCHANGED <<wallClock, scheduledRuns, ownerRole>>
        BY <1>4 DEF ClaimFire, tenancyVars, At
    <2>2. /\ scheduler' \in [Schedulers -> SchedulerStates]
          /\ At(p)' = "create" /\ scheduler'[p].may = scheduler[p].may /\ Instant(p)' = Instant(p)
          /\ \A q \in Schedulers : q # p => At(q)' = At(q) /\ scheduler'[q] = scheduler[q]
                                                           /\ Instant(q)' = Instant(q)
        BY <2>1, ScheduleGoesOn
    <2>3. ClaimsInv'
        BY <2>1, <2>2 DEF ScheduleInv, ClaimsInv, OneRunPerBucket, FireInstant
    <2>4. AuthorityInv'
        BY <2>1, <2>2 DEF ScheduleInv, AuthorityInv
    <2> QED BY <2>1, <2>2, <2>3, <2>4 DEF ScheduleInv
<1>5. CASE CreateRun(p)
    <2> DEFINE run == [tick |-> scheduler[p].tick, by |-> p, may |-> scheduler[p].may]
    <2>1. /\ At(p) = "create" /\ SleepAgain(p) /\ scheduledRuns' = scheduledRuns \cup {run}
          /\ UNCHANGED <<wallClock, fireClaims, ownerRole>>
        BY <1>5 DEF CreateRun, tenancyVars, At
    <2>2. FireInstant(run.tick) = Instant(p) /\ run.may = TRUE
        BY <2>1 DEF Instant, ScheduleInv, AuthorityInv
    <2>3. /\ scheduler' \in [Schedulers -> SchedulerStates]
          /\ \A q \in Schedulers : At(q)' # "asleep" => /\ q # p /\ At(q)' = At(q)
                                                        /\ scheduler'[q] = scheduler[q]
                                                        /\ Instant(q)' = Instant(q)
        <3>0. wallClock + Period \in Nat
            BY ScheduleAssumption DEF ScheduleInv
        <3>1. scheduler' = [scheduler EXCEPT ![p] = Asleep(wallClock + Period)]
            BY <2>1 DEF SleepAgain
        <3>2. /\ Asleep(wallClock + Period) \in SchedulerStates
              /\ Asleep(wallClock + Period).at = "asleep"
            BY <3>0 DEF Asleep, SchedulerStates
        <3> QED BY <3>1, <3>2 DEF ScheduleInv, At, Instant, FireInstant
    <2> HIDE DEF run
    <2>4. ClaimsInv'
        <3>1. \A r \in scheduledRuns : FireInstant(r.tick) # FireInstant(run.tick)
            BY <2>1, <2>2 DEF ScheduleInv, ClaimsInv
        <3>2. OneRunPerBucket'
            BY <2>1, <3>1 DEF ScheduleInv, ClaimsInv, OneRunPerBucket, FireInstant
        <3>3. \A r \in scheduledRuns' : FireInstant(r.tick) \in fireClaims
            BY <2>1, <2>2 DEF ScheduleInv, ClaimsInv
        <3>4. \A q \in Schedulers : At(q)' = "create" =>
                  \A r \in scheduledRuns' : FireInstant(r.tick) # Instant(q)
            BY <2>1, <2>2, <2>3 DEF ScheduleInv, ClaimsInv
        <3> QED BY <2>1, <2>3, <3>2, <3>3, <3>4 DEF ScheduleInv, ClaimsInv, FireInstant
    <2>5. AuthorityInv'
        BY <2>1, <2>2, <2>3 DEF ScheduleInv, AuthorityInv
    <2> QED BY <2>1, <2>3, <2>4, <2>5 DEF ScheduleInv
<1> QED BY <1>1, <1>2, <1>3, <1>4, <1>5

(* Time, the owner's departure and the sweep that follows it.              *)
LEMMA ScheduleSurroundings ==
    ASSUME ScheduleInv, PassTime \/ OwnerLosesRole \/ DisableWorkflows \/ UNCHANGED scheduleVars
    PROVE  ScheduleInv'
<1>1. /\ UNCHANGED <<scheduler, fireClaims, scheduledRuns>> /\ wallClock' \in Nat
      /\ ownerRole' = ownerRole \/ ownerRole' = FALSE
    BY DEF PassTime, OwnerLosesRole, DisableWorkflows, scheduleVars, tenancyVars, ScheduleInv
<1>2. ClaimsInv'
    BY <1>1 DEF ScheduleInv, ClaimsInv, OneRunPerBucket, FireInstant, At, Instant
<1>3. AuthorityInv'
    BY <1>1 DEF ScheduleInv, AuthorityInv, At
<1> QED BY <1>1, <1>2, <1>3 DEF ScheduleInv

(* The invariant of the scheduler, for any number of processes.            *)
LEMMA ScheduleInvariance == ScheduleSpec => []ScheduleInv
<1>1. ScheduleInit => ScheduleInv
    <2> SUFFICES ASSUME ScheduleInit PROVE ScheduleInv
        OBVIOUS
    <2>1. \A due \in 1 .. Period : Asleep(due) \in SchedulerStates /\ Asleep(due).at = "asleep"
        BY ScheduleAssumption DEF Asleep, SchedulerStates
    <2>2. /\ scheduler \in [Schedulers -> SchedulerStates]
          /\ \A p \in Schedulers : scheduler[p].at = "asleep"
        BY <2>1 DEF ScheduleInit
    <2> QED BY <2>2 DEF ScheduleInit, ScheduleInv, ClaimsInv, AuthorityInv, OneRunPerBucket, At
<1>2. ScheduleInv /\ [ScheduleNext]_scheduleVars => ScheduleInv'
    BY ScheduleTicks, ScheduleSurroundings DEF ScheduleNext
<1> QED BY <1>1, <1>2, PTL DEF ScheduleSpec

(* Of the scheduler (WorkflowEngine::run with                              *)
(* claim_scheduled_workflow_fire): however many relay processes tick, fail *)
(* and restart, a bucket of the interval has at most one run.              *)
THEOREM OneRunPerBucketAlways == ScheduleSpec => []OneRunPerBucket
<1>1. ScheduleInv => OneRunPerBucket
    BY DEF ScheduleInv, ClaimsInv
<1> QED BY <1>1, ScheduleInvariance, PTL

(* Of check_owner_authority: a run is only ever created by a tick that     *)
(* began while the owner had the role, whether or not the workflow of a    *)
(* removed owner is disabled in time.                                      *)
THEOREM RevokedOwnerFiresNothing == ScheduleSpec => []RevokedOwnerNeverFires
<1>1. ScheduleInv => RevokedOwnerNeverFires
    BY DEF ScheduleInv, AuthorityInv, RevokedOwnerNeverFires
<1> QED BY <1>1, ScheduleInvariance, PTL

-----------------------------------------------------------------------------
(* The workflow scheduler keeps up *)

(* A tick with the sleep before it, and what a failed call may cost.       *)
TickTime == Period + MaxLag

Round == Interval + Period + TickTime

(* The claim that is read back as the anchor, or 0.                        *)
Latest(S) == IF S = {} THEN 0 ELSE Max(S)

LastClaim == Latest(fireClaims)

(* When the next claim is due at the latest. *)
Deadline == LastClaim + 2 * (Interval + TickTime) + faults * Round

(* What the clock, the claims and the ticks under way have to do with each *)
(* other, whoever owns the workflow.                                       *)
ClockInv ==
    /\ wallClock \in Nat /\ wallClock <= MaxScheduleTime
    /\ faults \in Nat
    /\ ownerRole \in BOOLEAN
    /\ scheduler \in [Schedulers -> SchedulerStates]
    /\ lastFired \in [Schedulers -> Nat]
    /\ fireClaims \subseteq 0 .. wallClock
    /\ fireClaims # {} => \E m \in fireClaims : \A c \in fireClaims : m >= c
    /\ \A p \in Schedulers : At(p) # "asleep" => scheduler[p].tick <= wallClock
    /\ \A p \in Schedulers : At(p) = "create" => Instant(p) \in fireClaims

(* A process keeps to the deadline, with the anchor it has, the one it     *)
(* will find in the claims or the one it will seed when it wakes; a tick   *)
(* that is past the prefilter leads to a claim in time.                    *)
OnTime(s, anchor, claims, deadline) ==
    /\ s.at = "asleep" =>
          /\ wallClock <= s.due
          /\ s.due + MaxLag <= deadline
          /\ anchor # NoAnchor => anchor + Interval + TickTime <= deadline
          /\ anchor = NoAnchor /\ claims = {} => s.due + Interval + TickTime <= deadline
    /\ s.at # "asleep" =>
          /\ wallClock <= s.tick + MaxLag
          /\ s.tick + MaxLag <= deadline
          /\ anchor # NoAnchor => anchor + Interval <= s.tick
          /\ anchor = NoAnchor => claims # {}

OnSchedule(p) == OnTime(scheduler[p], lastFired[p], fireClaims, Deadline)

(* The owner has the role only while the workflow is enabled, and all are  *)
(* on schedule as long as that lasts.                                      *)
KeepsUpInv ==
    /\ ClockInv
    /\ ownerRole => enabled /\ \A p \in Schedulers : OnSchedule(p)

(* What a step of a process changes at most. *)
ProcessStep(p, s, anchor) ==
    /\ scheduler' = [scheduler EXCEPT ![p] = s]
    /\ lastFired' = [lastFired EXCEPT ![p] = anchor]
    /\ UNCHANGED <<wallClock, ownerRole, enabled>>
    /\ faults' = faults \/ faults' = faults + 1
    /\ \/ fireClaims' = fireClaims
       \/ At(p) # "asleep" /\ fireClaims' = fireClaims \cup {Instant(p)}

(* The start of a bucket is in it. *)
LEMMA FireInstantInBucket ==
    ASSUME NEW t \in Nat
    PROVE  FireInstant(t) \in Nat /\ FireInstant(t) <= t /\ t < FireInstant(t) + Interval
<1>1. t \div Interval \in Nat /\ (t \div Interval) * Interval \in Nat
    BY ScheduleAssumption
<1>2. (t \div Interval) * Interval <= t /\ t < (t \div Interval) * Interval + Interval
    BY ScheduleAssumption
<1> QED BY <1>1, <1>2 DEF FireInstant

(* The latest of some claims is the last one, none before 0. *)
LEMMA LatestIsLast ==
    ASSUME NEW n \in Nat, NEW S, S \subseteq 0 .. n,
           S # {} => \E m \in S : \A c \in S : m >= c
    PROVE  /\ Latest(S) \in Nat
           /\ Latest(S) <= n
           /\ \A c \in S : c <= Latest(S)
           /\ S # {} => Latest(S) = Max(S) /\ Latest(S) \in S
<1>1. CASE S = {}
    BY <1>1 DEF Latest
<1>2. CASE S # {}
    <2>1. PICK m \in S : \A c \in S : m >= c
        BY <1>2
    <2>2. PICK x \in S : x = Max(S) /\ \A c \in S : x >= c
        BY <2>1, Zenon DEF Max
    <2>3. Latest(S) = x
        BY <1>2, <2>2 DEF Latest
    <2>4. x \in Nat /\ x <= n
        OBVIOUS
    <2>5. \A c \in S : c \in Nat
        OBVIOUS
    <2>6. \A c \in S : c <= x
        BY <2>2, <2>4, <2>5
    <2> QED BY <2>2, <2>3, <2>4, <2>6
<1> QED BY <1>1, <1>2

(* More claims and more failed calls only move the deadline on. *)
LEMMA DeadlineGrows ==
    ASSUME ClockInv, ClockInv', fireClaims \subseteq fireClaims',
           faults' = faults \/ faults' = faults + 1
    PROVE  /\ Deadline \in Nat /\ Deadline' \in Nat /\ Round \in Nat /\ TickTime \in Nat
           /\ LastClaim \in Nat
           /\ LastClaim + 2 * (Interval + TickTime) <= Deadline
           /\ Deadline <= Deadline'
           /\ faults' = faults + 1 => Deadline + Round <= Deadline'
<1>1. /\ LastClaim \in Nat
      /\ fireClaims # {} => LastClaim \in fireClaims
    BY LatestIsLast DEF ClockInv, LastClaim
<1>2. LastClaim' \in Nat /\ LastClaim <= LastClaim'
    <2>1. LastClaim' \in Nat /\ \A c \in fireClaims' : c <= LastClaim'
        BY LatestIsLast DEF ClockInv, LastClaim
    <2>2. fireClaims = {} => LastClaim = 0
        BY DEF LastClaim, Latest
    <2> QED BY <1>1, <2>1, <2>2
<1>3. Round \in Nat /\ TickTime \in Nat /\ Interval \in Nat
    BY ScheduleAssumption DEF Round, TickTime
<1>4. faults \in Nat
    BY DEF ClockInv
<1>5. faults * Round \in Nat /\ (faults + 1) * Round = faults * Round + Round
    BY <1>3, <1>4
<1>6. faults' * Round = faults * Round \/ faults' * Round = faults * Round + Round
    BY <1>5
<1>7. faults' = faults + 1 => faults' * Round = faults * Round + Round
    BY <1>5
<1> QED BY <1>1, <1>2, <1>3, <1>5, <1>6, <1>7 DEF Deadline

(* A step of a process keeps claims and ticks behind the clock.            *)
LEMMA ClockStep ==
    ASSUME ClockInv, NEW p \in Schedulers, NEW s \in SchedulerStates, NEW anchor \in Nat,
           ProcessStep(p, s, anchor),
           s.at # "asleep" => s.tick <= wallClock,
           s.at = "create" => FireInstant(s.tick) \in fireClaims'
    PROVE  ClockInv'
<1>1. /\ wallClock' = wallClock /\ ownerRole' = ownerRole
      /\ scheduler' = [scheduler EXCEPT ![p] = s]
      /\ lastFired' = [lastFired EXCEPT ![p] = anchor]
    BY DEF ProcessStep
<1>2. /\ scheduler' \in [Schedulers -> SchedulerStates]
      /\ lastFired' \in [Schedulers -> Nat]
      /\ scheduler'[p] = s
      /\ \A q \in Schedulers : q # p => scheduler'[q] = scheduler[q]
    BY <1>1 DEF ClockInv
<1>3. faults' \in Nat
    BY DEF ProcessStep, ClockInv
<1>4. \A q \in Schedulers : At(q)' # "asleep" => scheduler'[q].tick <= wallClock
    BY <1>2 DEF ClockInv, At
<1>5. fireClaims \subseteq fireClaims'
    BY DEF ProcessStep
<1>6. \A q \in Schedulers : At(q)' = "create" => FireInstant(scheduler'[q].tick) \in fireClaims'
    <2> SUFFICES ASSUME NEW q \in Schedulers, At(q)' = "create"
                 PROVE  FireInstant(scheduler'[q].tick) \in fireClaims'
        OBVIOUS
    <2>1. CASE q = p
        BY <2>1, <1>2 DEF At
    <2>2. CASE q # p
        BY <2>2, <1>2, <1>5 DEF At, ClockInv, Instant
    <2> QED BY <2>1, <2>2
<1>7. /\ fireClaims' \subseteq 0 .. wallClock
      /\ fireClaims' # {} => \E m \in fireClaims' : \A c \in fireClaims' : m >= c
    <2>1. CASE fireClaims' = fireClaims
        BY <2>1 DEF ClockInv
    <2>2. CASE At(p) # "asleep" /\ fireClaims' = fireClaims \cup {Instant(p)}
        <3>1. scheduler[p].tick \in Nat /\ scheduler[p].tick <= wallClock
            BY <2>2 DEF ClockInv, SchedulerStates, At
        <3>2. Instant(p) \in Nat /\ Instant(p) <= wallClock
            BY <3>1, FireInstantInBucket DEF Instant, ClockInv
        <3>0. fireClaims \subseteq 0 .. wallClock /\ wallClock \in Nat
            BY DEF ClockInv
        <3>3. fireClaims' \subseteq 0 .. wallClock
            <4>1. Instant(p) \in 0 .. wallClock
                BY <3>2, <3>0
            <4> QED BY <2>2, <3>0, <4>1
        <3>4. CASE fireClaims = {}
            BY <2>2, <3>2, <3>3, <3>4
        <3>5. CASE fireClaims # {}
            <4>1. PICK m \in fireClaims : \A c \in fireClaims : m >= c
                BY <3>5 DEF ClockInv
            <4>2. m \in Nat
                BY DEF ClockInv
            <4>3. CASE m >= Instant(p)
                BY <2>2, <3>3, <4>1, <4>3
            <4>4. CASE Instant(p) >= m
                <5>1. \A c \in fireClaims' : c \in Nat
                    BY <3>3
                <5>2. \A c \in fireClaims' : Instant(p) >= c
                    BY <2>2, <3>2, <4>1, <4>2, <4>4, <5>1
                <5> QED BY <2>2, <3>3, <5>2
            <4> QED BY <3>2, <4>2, <4>3, <4>4
        <3> QED BY <3>3, <3>4, <3>5
    <2> QED BY <2>1, <2>2 DEF ProcessStep
<1> QED BY <1>1, <1>2, <1>3, <1>4, <1>6, <1>7 DEF ClockInv, At, Instant

(* It keeps the schedule if its process does, since more claims and more   *)
(* failures only move the others' deadline on.                             *)
LEMMA ScheduleStep ==
    ASSUME KeepsUpInv, NEW p \in Schedulers, NEW s \in SchedulerStates, NEW anchor \in Nat,
           ProcessStep(p, s, anchor),
           s.at # "asleep" => s.tick <= wallClock,
           s.at = "create" => FireInstant(s.tick) \in fireClaims',
           ownerRole => \A deadline \in Nat :
               /\ Deadline <= deadline
               /\ faults' = faults + 1 => Deadline + Round <= deadline
               => OnTime(s, anchor, fireClaims', deadline)
    PROVE  KeepsUpInv'
<1>1. ClockInv'
    BY ClockStep DEF KeepsUpInv
<1>2. /\ wallClock' = wallClock /\ ownerRole' = ownerRole /\ enabled' = enabled
      /\ scheduler'[p] = s /\ lastFired'[p] = anchor
      /\ \A q \in Schedulers : q # p => scheduler'[q] = scheduler[q] /\ lastFired'[q] = lastFired[q]
      /\ fireClaims \subseteq fireClaims'
      /\ faults' = faults \/ faults' = faults + 1
    BY DEF ProcessStep, KeepsUpInv, ClockInv
<1>3. /\ Deadline \in Nat /\ Deadline' \in Nat /\ Deadline <= Deadline' /\ TickTime \in Nat
      /\ faults' = faults + 1 => Deadline + Round <= Deadline'
    BY <1>1, <1>2, DeadlineGrows DEF KeepsUpInv
<1>4. ASSUME ownerRole, NEW q \in Schedulers
      PROVE  OnTime(scheduler'[q], lastFired'[q], fireClaims', Deadline')
    <2>1. CASE q = p
        BY <1>2, <1>3, <1>4, <2>1
    <2>2. CASE q # p
        <3>1. OnTime(scheduler[q], lastFired[q], fireClaims, Deadline)
            BY <1>4 DEF KeepsUpInv, OnSchedule
        <3>2. /\ scheduler'[q] = scheduler[q] /\ lastFired'[q] = lastFired[q]
              /\ scheduler[q] \in SchedulerStates /\ lastFired[q] \in Nat
            BY <1>2, <2>2 DEF KeepsUpInv, ClockInv
        <3>3. MaxLag \in Nat /\ Interval \in Nat
            BY ScheduleAssumption
        <3>4. CASE scheduler[q].at = "asleep"
            <4>1. scheduler[q].due \in Nat
                BY <3>2, <3>4 DEF SchedulerStates
            <4> QED BY <1>2, <1>3, <3>1, <3>2, <3>3, <3>4, <4>1 DEF OnTime
        <3>5. CASE scheduler[q].at # "asleep"
            <4>1. scheduler[q].tick \in Nat
                BY <3>2, <3>5 DEF SchedulerStates
            <4> QED BY <1>2, <1>3, <3>1, <3>2, <3>3, <3>5, <4>1 DEF OnTime
        <3> QED BY <3>4, <3>5
    <2> QED BY <2>1, <2>2
<1>5. ownerRole' => enabled' /\ \A q \in Schedulers : OnSchedule(q)'
    BY <1>2, <1>4 DEF KeepsUpInv, OnSchedule, OnTime
<1> QED BY <1>1, <1>5 DEF KeepsUpInv

(* The numbers the rest is about. *)
LEMMA ScheduleNumbers ==
    ASSUME ClockInv
    PROVE  /\ Interval \in Nat /\ Interval > 0 /\ Period \in Nat /\ MaxLag \in Nat
           /\ MaxScheduleTime \in Nat /\ wallClock \in Nat
           /\ wallClock < NoAnchor /\ NoAnchor \in Nat
           /\ TickTime = Period + MaxLag /\ Round = Interval + Period + Period + MaxLag
           /\ LastClaim \in Nat /\ LastClaim <= wallClock
           /\ \A c \in fireClaims : c <= LastClaim
           /\ fireClaims # {} => LatestFire = LastClaim /\ LatestFire # NoAnchor
           /\ Deadline \in Nat
           /\ LastClaim + Interval + Interval + TickTime + TickTime <= Deadline
<1>1. /\ Interval \in Nat /\ Interval > 0 /\ Period \in Nat /\ MaxLag \in Nat
      /\ MaxScheduleTime \in Nat
    BY ScheduleAssumption
<1>2. wallClock \in Nat /\ wallClock < NoAnchor /\ NoAnchor \in Nat
    BY <1>1 DEF ClockInv, NoAnchor
<1>3. TickTime = Period + MaxLag /\ Round = Interval + Period + Period + MaxLag
    BY <1>1 DEF TickTime, Round
<1>4. /\ LastClaim \in Nat /\ LastClaim <= wallClock
      /\ \A c \in fireClaims : c <= LastClaim
    BY LatestIsLast DEF ClockInv, LastClaim
<1>5. fireClaims # {} => LatestFire = LastClaim
    BY DEF LatestFire, LastClaim, Latest
<1>6. Deadline \in Nat /\ LastClaim + 2 * (Interval + TickTime) <= Deadline
    BY <1>1, <1>3, <1>4 DEF Deadline, ClockInv
<1>7. fireClaims # {} => LatestFire # NoAnchor
    BY <1>2, <1>4, <1>5
<1> QED BY <1>1, <1>2, <1>3, <1>4, <1>5, <1>6, <1>7

(* A process goes to sleep again, with an anchor, if it may.               *)
LEMMA SleepsOnTime ==
    ASSUME KeepsUpInv, NEW p \in Schedulers, NEW anchor \in Nat,
           ProcessStep(p, Asleep(wallClock + Period), anchor),
           ownerRole => \A deadline \in Nat :
               /\ Deadline <= deadline
               /\ faults' = faults + 1 => Deadline + Round <= deadline
               => /\ wallClock + Period + MaxLag <= deadline
                  /\ anchor # NoAnchor => anchor + Interval + TickTime <= deadline
                  /\ anchor = NoAnchor /\ fireClaims' = {} =>
                        wallClock + Period + Interval + TickTime <= deadline
    PROVE  KeepsUpInv'
<1> DEFINE s == Asleep(wallClock + Period)
<1>1. wallClock + Period \in Nat /\ wallClock <= wallClock + Period
    BY ScheduleNumbers DEF KeepsUpInv
<1>2. s \in SchedulerStates /\ s.at = "asleep" /\ s.due = wallClock + Period
    BY <1>1 DEF SchedulerStates, Asleep
<1>3. ProcessStep(p, s, anchor)
    OBVIOUS
<1> HIDE DEF s
<1>4. ownerRole => \A deadline \in Nat :
               /\ Deadline <= deadline
               /\ faults' = faults + 1 => Deadline + Round <= deadline
               => OnTime(s, anchor, fireClaims', deadline)
    BY <1>1, <1>2 DEF OnTime
<1> QED BY <1>2, <1>3, <1>4, ScheduleStep

(* What a process that is due or in a tick is known by. *)
LEMMA WhereOnSchedule ==
    ASSUME KeepsUpInv, NEW p \in Schedulers
    PROVE  /\ lastFired[p] \in Nat
           /\ Underway(p) =>
                 /\ scheduler[p].tick \in Nat
                 /\ scheduler[p].tick <= wallClock
                 /\ scheduler[p].at = "create" => Instant(p) \in fireClaims
                 /\ Instant(p) \in Nat /\ scheduler[p].tick < Instant(p) + Interval
           /\ Underway(p) /\ ownerRole =>
                 /\ wallClock <= scheduler[p].tick + MaxLag
                 /\ scheduler[p].tick + MaxLag <= Deadline
                 /\ lastFired[p] # NoAnchor => lastFired[p] + Interval <= scheduler[p].tick
                 /\ lastFired[p] = NoAnchor => fireClaims # {}
           /\ ~Underway(p) /\ ownerRole => wallClock + MaxLag <= Deadline
           /\ DueNow(p) /\ ownerRole =>
                 /\ wallClock + MaxLag <= Deadline
                 /\ lastFired[p] # NoAnchor => lastFired[p] + Interval + TickTime <= Deadline
                 /\ lastFired[p] = NoAnchor /\ fireClaims = {} =>
                       wallClock + Interval + TickTime <= Deadline
<1>0. lastFired[p] \in Nat /\ scheduler[p] \in SchedulerStates
    BY DEF KeepsUpInv, ClockInv
<1>1. Underway(p) => scheduler[p].tick \in Nat
    BY <1>0 DEF SchedulerStates, Underway
<1>2. ~Underway(p) => scheduler[p].due \in Nat
    BY <1>0 DEF SchedulerStates, Underway
<1>3. Underway(p) => scheduler[p].tick <= wallClock
                     /\ (scheduler[p].at = "create" => Instant(p) \in fireClaims)
    BY DEF KeepsUpInv, ClockInv, At, Underway
<1>4. Underway(p) => Instant(p) \in Nat /\ scheduler[p].tick < Instant(p) + Interval
    BY <1>1, FireInstantInBucket DEF Instant
<1>5. ownerRole => OnTime(scheduler[p], lastFired[p], fireClaims, Deadline)
    BY DEF KeepsUpInv, OnSchedule
<1>6. Underway(p) /\ ownerRole =>
                 /\ wallClock <= scheduler[p].tick + MaxLag
                 /\ scheduler[p].tick + MaxLag <= Deadline
                 /\ lastFired[p] # NoAnchor => lastFired[p] + Interval <= scheduler[p].tick
                 /\ lastFired[p] = NoAnchor => fireClaims # {}
    BY <1>5 DEF OnTime, Underway
<1>7. ~Underway(p) /\ ownerRole =>
                 /\ wallClock <= scheduler[p].due
                 /\ scheduler[p].due + MaxLag <= Deadline
                 /\ lastFired[p] # NoAnchor => lastFired[p] + Interval + TickTime <= Deadline
                 /\ lastFired[p] = NoAnchor /\ fireClaims = {} =>
                       scheduler[p].due + Interval + TickTime <= Deadline
    BY <1>5 DEF OnTime, Underway
<1>8. MaxLag \in Nat /\ wallClock \in Nat /\ Deadline \in Nat
    BY ScheduleNumbers DEF KeepsUpInv
<1>9. ~Underway(p) /\ ownerRole => wallClock + MaxLag <= Deadline
    BY <1>2, <1>7, <1>8
<1>10. DueNow(p) /\ ownerRole => ~Underway(p) /\ wallClock = scheduler[p].due
    BY <1>2, <1>7, <1>8 DEF DueNow
<1> QED BY <1>0, <1>1, <1>3, <1>4, <1>6, <1>7, <1>9, <1>10

(* A tick that failed leaves its anchor and takes its allowance. *)
LEMMA FailedTickOnTime ==
    ASSUME KeepsUpInv, NEW p \in Schedulers,
           \/ TickFails(p) \/ AuthorityFails(p) \/ CreateRunFails(p)
           \/ \E claimed \in BOOLEAN : ClaimFails(p, claimed)
    PROVE  KeepsUpInv'
<1> DEFINE anchor == lastFired[p]
<1>1. anchor \in Nat
    BY WhereOnSchedule
<1>2. lastFired' = [lastFired EXCEPT ![p] = anchor]
    BY DEF TickFails, AuthorityFails, CreateRunFails, ClaimFails, KeepsUpInv, ClockInv
<1>3. /\ faults' = faults + 1
      /\ scheduler' = [scheduler EXCEPT ![p] = Asleep(wallClock + Period)]
      /\ UNCHANGED <<wallClock, ownerRole, enabled>>
      /\ \/ fireClaims' = fireClaims
         \/ At(p) # "asleep" /\ fireClaims' = fireClaims \cup {Instant(p)}
      /\ DueNow(p) \/ Underway(p)
    BY DEF TickFails, AuthorityFails, CreateRunFails, ClaimFails, Fault, SleepAgain,
           tenancyVars, At, Underway
<1>4. ProcessStep(p, Asleep(wallClock + Period), anchor)
    BY <1>2, <1>3 DEF ProcessStep
<1>5. fireClaims' = {} => fireClaims = {}
    BY <1>3
<1>6. ASSUME ownerRole, NEW deadline \in Nat, Deadline + Round <= deadline
      PROVE  /\ wallClock + Period + MaxLag <= deadline
             /\ anchor # NoAnchor => anchor + Interval + TickTime <= deadline
             /\ anchor = NoAnchor /\ fireClaims' = {} =>
                   wallClock + Period + Interval + TickTime <= deadline
    <2>1. CASE DueNow(p)
        BY <1>1, <1>5, <1>6, <2>1, ScheduleNumbers, WhereOnSchedule DEF KeepsUpInv
    <2>2. CASE Underway(p)
        BY <1>1, <1>5, <1>6, <2>2, ScheduleNumbers, WhereOnSchedule DEF KeepsUpInv
    <2> QED BY <1>3, <2>1, <2>2
<1> HIDE DEF anchor
<1> QED BY <1>1, <1>3, <1>4, <1>6, SleepsOnTime

(* A restart, which loses the anchor. *)
LEMMA RestartOnTime ==
    ASSUME KeepsUpInv, NEW p \in Schedulers, Restart(p)
    PROVE  KeepsUpInv'
<1>1. /\ faults' = faults + 1
      /\ ProcessStep(p, Asleep(wallClock + Period), NoAnchor)
    BY DEF Restart, Fault, SleepAgain, tenancyVars, ProcessStep
<1>2. ASSUME ownerRole, NEW deadline \in Nat, Deadline + Round <= deadline
      PROVE  /\ wallClock + Period + MaxLag <= deadline
             /\ wallClock + Period + Interval + TickTime <= deadline
    <2>1. wallClock <= Deadline
        BY <1>2, ScheduleNumbers, WhereOnSchedule DEF KeepsUpInv
    <2> QED BY <1>2, <2>1, ScheduleNumbers DEF KeepsUpInv
<1>3. NoAnchor \in Nat
    BY ScheduleNumbers DEF KeepsUpInv
<1> QED BY <1>1, <1>2, <1>3, SleepsOnTime

(* A claim that is lost or a run that is created moves the anchor to the   *)
(* tick, whose bucket is claimed.                                          *)
LEMMA ClaimedTickOnTime ==
    ASSUME KeepsUpInv, NEW p \in Schedulers, ClaimTaken(p) \/ CreateRun(p)
    PROVE  KeepsUpInv'
<1> DEFINE tick == scheduler[p].tick
<1>1. /\ Underway(p) /\ faults' = faults /\ fireClaims' = fireClaims
      /\ ProcessStep(p, Asleep(wallClock + Period), tick)
    BY DEF ClaimTaken, CreateRun, SleepAgain, tenancyVars, ProcessStep, Underway
<1>2. Instant(p) \in fireClaims
    BY <1>1, WhereOnSchedule DEF ClaimTaken, CreateRun
<1>3. /\ tick \in Nat /\ tick <= wallClock /\ Instant(p) \in Nat /\ tick < Instant(p) + Interval
      /\ ownerRole => wallClock <= tick + MaxLag
    BY <1>1, WhereOnSchedule
<1> HIDE DEF tick
<1>4. Instant(p) <= LastClaim
    BY <1>2, ScheduleNumbers DEF KeepsUpInv
<1>5. ASSUME ownerRole, NEW deadline \in Nat, Deadline <= deadline
      PROVE  /\ wallClock + Period + MaxLag <= deadline
             /\ tick + Interval + TickTime <= deadline
             /\ tick # NoAnchor
    BY <1>3, <1>4, <1>5, ScheduleNumbers DEF KeepsUpInv
<1> QED BY <1>1, <1>3, <1>5, SleepsOnTime

(* A tick with an anchor that is not old enough, or with none. *)
LEMMA SuppressedTickOnTime ==
    ASSUME KeepsUpInv, NEW p \in Schedulers, DueNow(p),
           NEW anchor, anchor = IF lastFired[p] # NoAnchor THEN lastFired[p] ELSE LatestFire,
           anchor = NoAnchor \/ ~Elapsed(anchor),
           SleepAgain(p),
           lastFired' = IF anchor = NoAnchor THEN [lastFired EXCEPT ![p] = wallClock]
                        ELSE lastFired,
           UNCHANGED <<wallClock, fireClaims, tenancyVars, faults>>
    PROVE  KeepsUpInv'
<1> DEFINE new == IF anchor = NoAnchor THEN wallClock ELSE lastFired[p]
<1>0. new \in Nat
    BY ScheduleNumbers, WhereOnSchedule DEF KeepsUpInv
<1>1. lastFired' = [lastFired EXCEPT ![p] = new]
    BY DEF KeepsUpInv, ClockInv
<1>2. ProcessStep(p, Asleep(wallClock + Period), new)
    BY <1>1 DEF SleepAgain, tenancyVars, ProcessStep
<1>3. ASSUME ownerRole, NEW deadline \in Nat, Deadline <= deadline
      PROVE  /\ wallClock + Period + MaxLag <= deadline
             /\ new # NoAnchor => new + Interval + TickTime <= deadline
             /\ new = NoAnchor /\ fireClaims' = {} =>
                   wallClock + Period + Interval + TickTime <= deadline
    <2>1. CASE anchor = NoAnchor
        <3>1. lastFired[p] = NoAnchor /\ fireClaims = {}
            BY <2>1, ScheduleNumbers DEF KeepsUpInv
        <3> QED BY <1>3, <2>1, <3>1, ScheduleNumbers, WhereOnSchedule DEF KeepsUpInv
    <2>2. CASE anchor # NoAnchor /\ lastFired[p] # NoAnchor
        <3>1. wallClock - lastFired[p] < Interval
            BY <2>2, ScheduleNumbers, WhereOnSchedule DEF Elapsed, KeepsUpInv
        <3> QED BY <1>3, <2>2, <3>1, ScheduleNumbers, WhereOnSchedule DEF KeepsUpInv
    <2>3. CASE anchor # NoAnchor /\ lastFired[p] = NoAnchor
        <3>1. fireClaims # {} /\ anchor = LastClaim
            BY <2>3, ScheduleNumbers DEF KeepsUpInv, LatestFire
        <3>2. wallClock - LastClaim < Interval
            BY <2>3, <3>1, ScheduleNumbers DEF Elapsed, KeepsUpInv
        <3> QED BY <1>3, <2>3, <3>1, <3>2, ScheduleNumbers, WhereOnSchedule DEF KeepsUpInv
    <2> QED BY <2>1, <2>2, <2>3
<1> HIDE DEF new
<1> QED BY <1>0, <1>2, <1>3, SleepsOnTime

(* A tick whose anchor is old enough goes on. *)
LEMMA FiringTickOnTime ==
    ASSUME KeepsUpInv, NEW p \in Schedulers, DueNow(p),
           NEW anchor, anchor = IF lastFired[p] # NoAnchor THEN lastFired[p] ELSE LatestFire,
           anchor # NoAnchor, Elapsed(anchor),
           scheduler' = [scheduler EXCEPT ![p] =
                            [at |-> "gate", tick |-> wallClock, may |-> ownerRole]],
           UNCHANGED <<wallClock, lastFired, fireClaims, tenancyVars, faults>>
    PROVE  KeepsUpInv'
<1> DEFINE s == [at |-> "gate", tick |-> wallClock, may |-> ownerRole]
           same == lastFired[p]
<1>1. wallClock \in Nat /\ ownerRole \in BOOLEAN /\ same \in Nat
    BY WhereOnSchedule DEF KeepsUpInv, ClockInv
<1>2. s \in SchedulerStates /\ s.at = "gate" /\ s.tick = wallClock
    BY <1>1 DEF SchedulerStates
<1>3. lastFired' = [lastFired EXCEPT ![p] = same]
    BY DEF KeepsUpInv, ClockInv
<1>4. ProcessStep(p, s, same)
    BY <1>3 DEF ProcessStep, tenancyVars
<1>5. same # NoAnchor => same + Interval <= wallClock
    BY <1>1, ScheduleNumbers DEF Elapsed, KeepsUpInv
<1>6. same = NoAnchor => fireClaims # {}
    BY DEF LatestFire
<1> HIDE DEF s, same
<1>7. ASSUME ownerRole, NEW deadline \in Nat, Deadline <= deadline
      PROVE  OnTime(s, same, fireClaims', deadline)
    <2>1. wallClock + MaxLag <= deadline /\ wallClock <= wallClock + MaxLag
        BY <1>7, ScheduleNumbers, WhereOnSchedule DEF KeepsUpInv
    <2> QED BY <1>2, <1>5, <1>6, <2>1 DEF OnTime
<1> QED BY <1>1, <1>2, <1>4, <1>7, ScheduleStep

(* So every tick that is taken.                                            *)
LEMMA TickOnTime ==
    ASSUME KeepsUpInv, NEW p \in Schedulers, Tick(p)
    PROVE  KeepsUpInv'
<1> DEFINE anchor == IF lastFired[p] # NoAnchor THEN lastFired[p] ELSE LatestFire
<1>1. Prefilter(p, anchor) /\ DueNow(p) /\ UNCHANGED <<wallClock, fireClaims, tenancyVars, faults>>
    BY DEF Tick
<1>2. PICK a : a = anchor
    OBVIOUS
<1>3. CASE a # NoAnchor /\ Elapsed(a)
    BY <1>1, <1>2, <1>3, FiringTickOnTime DEF Prefilter
<1>4. CASE a = NoAnchor \/ ~Elapsed(a)
    BY <1>1, <1>2, <1>4, SuppressedTickOnTime DEF Prefilter
<1> QED BY <1>3, <1>4

(* The anchor cannot be read, and one is seeded. *)
LEMMA AnchorReadFailsOnTime ==
    ASSUME KeepsUpInv, NEW p \in Schedulers, AnchorReadFails(p)
    PROVE  KeepsUpInv'
<1>1. /\ faults' = faults + 1
      /\ DueNow(p)
      /\ ProcessStep(p, Asleep(wallClock + Period), wallClock)
    BY DEF AnchorReadFails, Prefilter, Fault, SleepAgain, tenancyVars, ProcessStep
<1>2. ASSUME ownerRole, NEW deadline \in Nat, Deadline + Round <= deadline
      PROVE  /\ wallClock + Period + MaxLag <= deadline
             /\ wallClock + Interval + TickTime <= deadline
             /\ wallClock # NoAnchor
    BY <1>1, <1>2, ScheduleNumbers, WhereOnSchedule DEF KeepsUpInv
<1>3. wallClock \in Nat
    BY ScheduleNumbers DEF KeepsUpInv
<1> QED BY <1>1, <1>2, <1>3, SleepsOnTime

(* Without the role there is no deadline to keep. *)
LEMMA RevokedOnTime ==
    ASSUME KeepsUpInv, NEW p \in Schedulers,
           TickDisabled(p) \/ (CheckOwnerAuthority(p) /\ ~ownerRole)
    PROVE  KeepsUpInv'
<1>1. ~ownerRole
    BY DEF TickDisabled, KeepsUpInv
<1>2. PICK a \in Nat : ProcessStep(p, Asleep(wallClock + Period), a)
    <2>1. CASE TickDisabled(p)
        <3>1. NoAnchor \in Nat
            BY ScheduleNumbers DEF KeepsUpInv
        <3> QED BY <2>1, <3>1 DEF TickDisabled, SleepAgain, tenancyVars, ProcessStep
    <2>2. CASE CheckOwnerAuthority(p)
        <3>1. lastFired[p] \in Nat
            BY WhereOnSchedule
        <3>2. lastFired' = [lastFired EXCEPT ![p] = lastFired[p]]
            BY <2>2 DEF CheckOwnerAuthority, KeepsUpInv, ClockInv
        <3> QED BY <1>1, <2>2, <3>1, <3>2
                DEF CheckOwnerAuthority, SleepAgain, tenancyVars, ProcessStep
    <2> QED BY <2>1, <2>2
<1> QED BY <1>1, <1>2, SleepsOnTime

(* The calls of a tick that succeed. *)
LEMMA GoingOnOnTime ==
    ASSUME KeepsUpInv, NEW p \in Schedulers,
           (CheckOwnerAuthority(p) /\ ownerRole) \/ ClaimFire(p)
    PROVE  KeepsUpInv'
<1>1. PICK at \in {"claim", "create"} :
         /\ GoOn(p, at)
         /\ at = "create" => fireClaims' = fireClaims \cup {Instant(p)}
    BY DEF CheckOwnerAuthority, ClaimFire
<1> DEFINE s == [scheduler[p] EXCEPT !.at = at]
           same == lastFired[p]
<1>2. Underway(p) /\ scheduler[p] \in SchedulerStates /\ same \in Nat
    BY WhereOnSchedule DEF CheckOwnerAuthority, ClaimFire, Underway, KeepsUpInv, ClockInv
<1>3. s \in SchedulerStates /\ s.at = at /\ s.tick = scheduler[p].tick
    BY <1>2 DEF Underway, SchedulerStates
<1>4. scheduler' = [scheduler EXCEPT ![p] = s]
    BY <1>1, Zenon DEF GoOn
<1>5. lastFired' = [lastFired EXCEPT ![p] = same]
    BY DEF CheckOwnerAuthority, ClaimFire, KeepsUpInv, ClockInv
<1> HIDE DEF s
<1>6. /\ ProcessStep(p, s, same)
      /\ fireClaims \subseteq fireClaims'
    BY <1>2, <1>4, <1>5 DEF CheckOwnerAuthority, ClaimFire, tenancyVars, ProcessStep, At, Underway
<1> HIDE DEF same
<1>7. /\ s.tick <= wallClock
      /\ s.at = "create" => FireInstant(s.tick) \in fireClaims'
    BY <1>1, <1>2, <1>3, WhereOnSchedule DEF Instant
<1>8. ASSUME ownerRole, NEW deadline \in Nat, Deadline <= deadline
      PROVE  OnTime(s, same, fireClaims', deadline)
    <2>1. /\ wallClock <= s.tick + MaxLag
          /\ s.tick \in Nat /\ s.tick + MaxLag <= deadline
          /\ same # NoAnchor => same + Interval <= s.tick
          /\ same = NoAnchor => fireClaims # {}
        BY <1>2, <1>3, <1>8, ScheduleNumbers, WhereOnSchedule DEF KeepsUpInv, same
    <2> QED BY <1>3, <1>6, <2>1 DEF OnTime
<1> QED BY <1>2, <1>3, <1>6, <1>7, <1>8, ScheduleStep

(* Time passes, which nobody oversleeps, or the owner's standing changes. *)
LEMMA SurroundingsOnTime ==
    ASSUME KeepsUpInv, PassTime \/ OwnerLosesRole \/ DisableWorkflows \/ UNCHANGED scheduleVars
    PROVE  KeepsUpInv'
<1>1. CASE PassTime
    <2>1. /\ wallClock' = wallClock + 1 /\ wallClock < MaxScheduleTime
          /\ UNCHANGED <<scheduler, lastFired, fireClaims, ownerRole, enabled, faults>>
        BY <1>1 DEF PassTime, tenancyVars
    <2>2. ClockInv'
        <3>1. wallClock' \in Nat /\ wallClock' <= MaxScheduleTime
            BY <2>1, ScheduleNumbers DEF KeepsUpInv
        <3>2. fireClaims' \subseteq 0 .. wallClock'
            BY <2>1, <3>1 DEF KeepsUpInv, ClockInv
        <3>3. \A p \in Schedulers : At(p)' # "asleep" => scheduler'[p].tick <= wallClock'
            <4> SUFFICES ASSUME NEW p \in Schedulers, Underway(p)
                         PROVE  scheduler[p].tick <= wallClock'
                BY <2>1 DEF At, Underway
            <4> QED BY <2>1, <3>1, WhereOnSchedule, ScheduleNumbers DEF KeepsUpInv
        <3> QED BY <2>1, <3>1, <3>2, <3>3 DEF KeepsUpInv, ClockInv, At, Instant
    <2>3. Deadline' = Deadline
        BY <2>1 DEF Deadline, LastClaim
    <2>4. ASSUME ownerRole, NEW p \in Schedulers
          PROVE  OnSchedule(p)'
        <3>1. OnTime(scheduler[p], lastFired[p], fireClaims, Deadline)
            BY <2>4 DEF KeepsUpInv, OnSchedule
        <3>2. /\ Underway(p) => wallClock' <= scheduler[p].tick + MaxLag
              /\ ~Underway(p) => wallClock' <= scheduler[p].due
            <4>1. CASE Underway(p)
                BY <1>1, <2>1, <4>1, WhereOnSchedule, ScheduleNumbers DEF PassTime, KeepsUpInv
            <4>2. CASE ~Underway(p)
                <5>1. scheduler[p].due \in Nat
                    BY <4>2 DEF KeepsUpInv, ClockInv, SchedulerStates, Underway
                <5> QED BY <1>1, <2>1, <4>2, <5>1, ScheduleNumbers DEF PassTime, DueNow, KeepsUpInv
            <4> QED BY <4>1, <4>2
        <3> QED BY <2>1, <2>3, <3>1, <3>2 DEF OnSchedule, OnTime, Underway
    <2> QED BY <2>1, <2>2, <2>4 DEF KeepsUpInv
<1>2. CASE OwnerLosesRole \/ DisableWorkflows \/ UNCHANGED scheduleVars
    <2>1. /\ UNCHANGED <<wallClock, scheduler, lastFired, fireClaims, faults>>
          /\ ownerRole' \in BOOLEAN
          /\ ownerRole' => ownerRole /\ enabled' = enabled
        <3>1. ownerRole \in BOOLEAN
            BY DEF KeepsUpInv, ClockInv
        <3>2. CASE OwnerLosesRole
            BY <3>2 DEF OwnerLosesRole
        <3>3. CASE DisableWorkflows
            BY <3>1, <3>3 DEF DisableWorkflows
        <3>4. CASE UNCHANGED scheduleVars
            BY <3>1, <3>4 DEF scheduleVars, tenancyVars
        <3> QED BY <1>2, <3>2, <3>3, <3>4
    <2>2. ClockInv'
        BY <2>1 DEF KeepsUpInv, ClockInv, At, Instant
    <2>3. \A p \in Schedulers : OnSchedule(p) => OnSchedule(p)'
        BY <2>1 DEF OnSchedule, OnTime, Deadline, LastClaim
    <2> QED BY <2>1, <2>2, <2>3 DEF KeepsUpInv
<1> QED BY <1>1, <1>2

(* KeepsUpInv is inductive, ...                                            *)
LEMMA KeepsUpInvariance == KeepsUpInv /\ [ScheduleNext]_scheduleVars => KeepsUpInv'
<1> SUFFICES ASSUME KeepsUpInv, [ScheduleNext]_scheduleVars
             PROVE  KeepsUpInv'
    OBVIOUS
<1>1. ASSUME NEW p \in Schedulers,
             \/ Tick(p) \/ TickFails(p) \/ AnchorReadFails(p) \/ TickDisabled(p)
             \/ CheckOwnerAuthority(p) \/ AuthorityFails(p)
             \/ ClaimFire(p) \/ ClaimTaken(p)
             \/ \E claimed \in BOOLEAN : ClaimFails(p, claimed)
             \/ CreateRun(p) \/ CreateRunFails(p) \/ Restart(p)
      PROVE  KeepsUpInv'
    BY <1>1, TickOnTime, FailedTickOnTime, AnchorReadFailsOnTime, RevokedOnTime, GoingOnOnTime,
       ClaimedTickOnTime, RestartOnTime, Zenon
<1> QED BY <1>1, SurroundingsOnTime DEF ScheduleNext

(* ... and the first sleep of a process ends within its period.            *)
LEMMA KeepsUpInitially == ScheduleInit => KeepsUpInv
<1> SUFFICES ASSUME ScheduleInit
             PROVE  KeepsUpInv
    OBVIOUS
<1>1. \A p \in Schedulers :
         /\ scheduler[p] \in SchedulerStates
         /\ scheduler[p].at = "asleep"
         /\ scheduler[p].due \in 1 .. Period
    BY ScheduleAssumption DEF ScheduleInit, Asleep, SchedulerStates
<1>2. scheduler \in [Schedulers -> SchedulerStates]
    BY <1>1 DEF ScheduleInit
<1>3. NoAnchor \in Nat
    BY ScheduleAssumption DEF NoAnchor
<1>4. ClockInv
    BY <1>1, <1>2, <1>3, ScheduleAssumption DEF ScheduleInit, ClockInv, At
<1>5. ASSUME NEW p \in Schedulers
      PROVE  OnSchedule(p)
    <2>1. /\ scheduler[p].due \in Nat /\ scheduler[p].due <= Period
          /\ wallClock = 0 /\ lastFired[p] = NoAnchor
        BY <1>1, ScheduleAssumption DEF ScheduleInit
    <2>2. /\ scheduler[p].due + MaxLag <= Deadline
          /\ scheduler[p].due + Interval + TickTime <= Deadline
        BY <1>4, <2>1, ScheduleNumbers
    <2> QED BY <1>1, <2>1, <2>2 DEF OnSchedule, OnTime
<1> QED BY <1>4, <1>5 DEF KeepsUpInv, ScheduleInit

(* Claims never fall further behind the clock than the bound says, for any *)
(* number of processes, any interval, period and duration of a tick, and   *)
(* any number of failed calls and restarts: every process alone keeps to   *)
(* it, so the others need not run.                                         *)
THEOREM ScheduleAlwaysKeepsUp == ScheduleSpec => []ScheduleKeepsUp
<1>1. KeepsUpInv => ScheduleKeepsUp
    <2> SUFFICES ASSUME KeepsUpInv, ownerRole
                 PROVE  wallClock <= Deadline
        BY DEF ScheduleKeepsUp, Deadline, LastClaim, Latest, TickTime, Round
    <2>1. PICK p \in Schedulers : TRUE
        BY ScheduleAssumption
    <2> QED BY WhereOnSchedule, ScheduleNumbers DEF KeepsUpInv
<1> QED BY <1>1, KeepsUpInitially, KeepsUpInvariance, PTL DEF ScheduleSpec
=============================================================================
