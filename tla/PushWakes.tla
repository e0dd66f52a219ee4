----------------------------- MODULE PushWakes -----------------------------
(***************************************************************************)
(* Push notifications of one community for one installation: the lease and *)
(* the gate in front of the match queue (crates/buzz-db/src/push.rs, the   *)
(* trigger of migration 0023), the matcher and the delivery workers        *)
(* (crates/buzz-relay/src/push_runtime.rs), and the gateway's replay fence *)
(* in front of APNs (crates/buzz-push-gateway). Every statement, request   *)
(* and answer is a step of its own; workers die at any await, claims run   *)
(* out under slow workers, and answers come after the caller's timeout.    *)
(*                                                                         *)
(* The installation keeps its endpoint, so an event has one row in the     *)
(* outbox. An expired lease counts as inactive. Whether a subscription     *)
(* matches, and every reason of the gateway to reject but the replay, are  *)
(* choices; the first of deliver_one's two revalidations, which the second *)
(* repeats, is left out.                                                   *)
(***************************************************************************)
EXTENDS Naturals, FiniteSets

CONSTANTS
    Events,
    Matchers,       \* run_matcher of each relay process
    Couriers,       \* run_delivery_worker of each relay process
    MaxMatches,     \* MAX_MATCH_ATTEMPTS
    MaxSends,       \* MAX_ATTEMPTS
    MaxLeases       \* bound on the lease events

ASSUME PushAssumption ==
    MaxMatches \in Nat \ {0} /\ MaxSends \in Nat \ {0} /\ MaxLeases \in Nat \ {0}

VARIABLES
    pushLease,   \* the row of push_leases: its generation and what makes it eligible
    leaseTx,     \* the transaction of accept_lease_event that is open, if any
    stored,      \* of each event: "none", "inserting" or "stored"
    gated,       \* of an event being inserted: the trigger found an eligible lease
    match,       \* the rows of push_match_queue
    matcher,     \* what each matcher is at
    outbox,      \* the rows of push_wake_outbox
    courier,     \* what each delivery worker is at
    member,      \* is the lease's author a member of the channel?
    fence,       \* push_gateway_delivery_request_replays: the wakes with a row
    flights,     \* the admitted sends whose APNs request is under way
    confirmed    \* history: the wakes whose send APNs answered with 200

leaseRowVars == <<pushLease, leaseTx>>
matchVars == <<stored, gated, match, matcher>>
gatewayVars == <<fence, flights, confirmed>>
pushVars == <<leaseRowVars, matchVars, outbox, courier, member, gatewayVars>>

NoRow == [state |-> "none"]
NoTx == [gen |-> 0]
Free == [at |-> "free"]

PushInit ==
    /\ pushLease = [gen |-> 0, active |-> FALSE, enabled |-> FALSE]
    /\ leaseTx = NoTx
    /\ stored = [e \in Events |-> "none"]
    /\ gated = [e \in Events |-> FALSE]
    /\ match = [e \in Events |-> NoRow]
    /\ matcher = [m \in Matchers |-> Free]
    /\ outbox = [e \in Events |-> NoRow]
    /\ courier = [w \in Couriers |-> Free]
    /\ member = TRUE
    /\ fence = {}
    /\ flights = {}
    /\ confirmed = {}

-----------------------------------------------------------------------------
Eligible == pushLease.active /\ pushLease.enabled

Inserting == {e \in Events : stored[e] = "inserting"}

GateHeld == leaseTx # NoTx /\ leaseTx.active

(* Mutant of OpenLeaseTx: the activation does not take the gate's lock. *)
OpenLeaseTxUngated(active) ==
    /\ leaseTx = NoTx
    /\ pushLease.gen < MaxLeases
    /\ leaseTx' = [gen |-> pushLease.gen + 1, active |-> active]
    /\ UNCHANGED <<pushLease, matchVars, outbox, courier, member, gatewayVars>>

(* accept_lease_event and replace_lease, of a lease that wins both         *)
(* orderings. An activation waits for the events that hold the gate.       *)
OpenLeaseTx(active) ==
    /\ leaseTx = NoTx
    /\ pushLease.gen < MaxLeases
    /\ active => Inserting = {}
    /\ leaseTx' = [gen |-> pushLease.gen + 1, active |-> active]
    /\ UNCHANGED <<pushLease, matchVars, outbox, courier, member, gatewayVars>>

PendingJob == [state |-> "pending", claim |-> "nobody", expired |-> FALSE, attempts |-> 0]

(* The backfill covers the events committed so far that are recent, as far *)
(* as they have no job; then the commit.                                   *)
CommitLease(recent) ==
    /\ leaseTx # NoTx
    /\ recent \subseteq {e \in Events : stored[e] = "stored" /\ match[e] = NoRow}
    /\ leaseTx.active \/ recent = {}
    /\ pushLease' = [gen |-> leaseTx.gen, active |-> leaseTx.active, enabled |-> TRUE]
    /\ match' = [e \in Events |-> IF e \in recent THEN PendingJob ELSE match[e]]
    /\ leaseTx' = NoTx
    /\ UNCHANGED <<stored, gated, matcher, outbox, courier, member, gatewayVars>>

LeaseRunsOut ==
    /\ pushLease.active
    /\ pushLease' = [pushLease EXCEPT !.active = FALSE]
    /\ UNCHANGED <<leaseTx, matchVars, outbox, courier, member, gatewayVars>>

(* enqueue_push_match_job, in the transaction that inserts the event: the  *)
(* shared lock, held to the commit, and the look for a lease.              *)
InsertEvent(e) ==
    /\ stored[e] = "none"
    /\ ~GateHeld
    /\ stored' = [stored EXCEPT ![e] = "inserting"]
    /\ gated' = [gated EXCEPT ![e] = Eligible]
    /\ UNCHANGED <<leaseRowVars, match, matcher, outbox, courier, member, gatewayVars>>

CommitEvent(e) ==
    /\ stored[e] = "inserting"
    /\ stored' = [stored EXCEPT ![e] = "stored"]
    /\ match' = IF gated[e] THEN [match EXCEPT ![e] = PendingJob] ELSE match
    /\ gated' = [gated EXCEPT ![e] = FALSE]
    /\ UNCHANGED <<leaseRowVars, matcher, outbox, courier, member, gatewayVars>>

-----------------------------------------------------------------------------
Matching(m) == matcher[m].at # "free"

HoldsJob(m) ==
    LET e == matcher[m].event IN
    match[e].state = "matching" /\ match[e].claim = m

(* claim_due_match_batch; the claim_id is the matcher that holds it. *)
ClaimMatch(m, e) ==
    /\ ~Matching(m)
    /\ \/ match[e].state = "pending"
       \/ match[e].state = "matching" /\ match[e].expired
    /\ match[e].attempts < MaxMatches
    /\ match' = [match EXCEPT ![e] = [state |-> "matching", claim |-> m, expired |-> FALSE,
                                      attempts |-> @.attempts + 1]]
    /\ matcher' = [matcher EXCEPT ![m] =
                      [at |-> "claimed", event |-> e, gen |-> 0, attempt |-> match'[e].attempts]]
    /\ UNCHANGED <<leaseRowVars, stored, gated, outbox, courier, member, gatewayVars>>

(* load_match_context and match_job: the lease as it is now, if it matches *)
(* and its author may read the event.                                      *)
LoadContext(m, matches) ==
    /\ matcher[m].at = "claimed"
    /\ matches => Eligible /\ member
    /\ matcher' = [matcher EXCEPT ![m].at = IF matches THEN "matched" ELSE "completing",
                                  ![m].gen = IF matches THEN pushLease.gen ELSE 0]
    /\ UNCHANGED <<leaseRowVars, stored, gated, match, outbox, courier, member, gatewayVars>>

(* enqueue_wakes: the lease must still be that generation, and the event's *)
(* row is made once.                                                       *)
EnqueueWake(m) ==
    /\ matcher[m].at = "matched"
    /\ LET e == matcher[m].event IN
       outbox' = IF Eligible /\ pushLease.gen = matcher[m].gen /\ outbox[e] = NoRow
                 THEN [outbox EXCEPT ![e] =
                          [state |-> "pending", claim |-> "nobody", expired |-> FALSE,
                           gen |-> pushLease.gen, attempts |-> 0]]
                 ELSE outbox
    /\ matcher' = [matcher EXCEPT ![m].at = "completing", ![m].gen = 0]
    /\ UNCHANGED <<leaseRowVars, stored, gated, match, courier, member, gatewayVars>>

(* The context or the enqueue failed; the last attempt is not repeated. *)
MatchFails(m) ==
    /\ matcher[m].at \in {"claimed", "matched"}
    /\ matcher' = [matcher EXCEPT ![m].at =
                      IF matcher[m].at = "matched" /\ matcher[m].attempt >= MaxMatches
                      THEN "completing" ELSE "retrying"]
    /\ UNCHANGED <<leaseRowVars, stored, gated, match, outbox, courier, member, gatewayVars>>

(* complete_match_batch and retry_match_batch, while the claim is held. *)
SettleMatch(m) ==
    /\ matcher[m].at \in {"completing", "retrying"}
    /\ match' = IF ~HoldsJob(m) THEN match
                ELSE [match EXCEPT ![matcher[m].event] =
                         IF matcher[m].at = "completing" THEN NoRow
                         ELSE [@ EXCEPT !.state = "pending", !.claim = "nobody"]]
    /\ matcher' = [matcher EXCEPT ![m] = Free]
    /\ UNCHANGED <<leaseRowVars, stored, gated, outbox, courier, member, gatewayVars>>

(* The process dies, or the statement that would settle the job fails. *)
MatcherGivesUp(m) ==
    /\ Matching(m)
    /\ matcher' = [matcher EXCEPT ![m] = Free]
    /\ UNCHANGED <<leaseRowVars, stored, gated, match, outbox, courier, member, gatewayVars>>

MatchClaimExpires(e) ==
    /\ match[e].state = "matching" /\ ~match[e].expired
    /\ match' = [match EXCEPT ![e].expired = TRUE]
    /\ UNCHANGED <<leaseRowVars, stored, gated, matcher, outbox, courier, member, gatewayVars>>

(* reap_exhausted_matches. *)
ReapMatch(e) ==
    /\ match[e] # NoRow
    /\ match[e].attempts >= MaxMatches
    /\ match[e].state = "pending" \/ match[e].expired
    /\ match' = [match EXCEPT ![e] = NoRow]
    /\ UNCHANGED <<leaseRowVars, stored, gated, matcher, outbox, courier, member, gatewayVars>>

-----------------------------------------------------------------------------
Wake(w) == courier[w].event

Tell(w, at) == courier' = [courier EXCEPT ![w].at = at]

CurrentRow(e) == Eligible /\ outbox[e].gen = pushLease.gen

(* claim_due_wakes. MaxSends + 1 bounds the claims of a row whose workers  *)
(* keep dying, which in the code only its expiry ends.                     *)
ClaimWake(w, e) ==
    /\ courier[w] = Free
    /\ \/ outbox[e].state = "pending"
       \/ outbox[e].state = "sending" /\ outbox[e].expired
    /\ CurrentRow(e)
    /\ outbox[e].attempts <= MaxSends
    /\ outbox' = [outbox EXCEPT ![e].state = "sending", ![e].claim = w, ![e].expired = FALSE,
                                ![e].attempts = @ + 1]
    /\ courier' = [courier EXCEPT ![w] =
                      [at |-> "claimed", event |-> e, gen |-> outbox[e].gen,
                       attempt |-> outbox[e].attempts + 1]]
    /\ UNCHANGED <<leaseRowVars, matchVars, member, gatewayVars>>

(* deliver_one: is_member, ... *)
CheckMember(w) ==
    /\ courier[w].at = "claimed"
    /\ Tell(w, IF member THEN "allowed" ELSE "failing")
    /\ UNCHANGED <<leaseRowVars, matchVars, outbox, member, gatewayVars>>

(* ... a failure of which is retried ... *)
CheckMemberFails(w) ==
    /\ courier[w].at = "claimed"
    /\ Tell(w, "retrying")
    /\ UNCHANGED <<leaseRowVars, matchVars, outbox, member, gatewayVars>>

(* ... and revalidate_wake_for_send, last before the transport. *)
Revalidate(w) ==
    /\ courier[w].at = "allowed"
    /\ LET row == outbox[Wake(w)] IN
       Tell(w, IF /\ row.state = "sending" /\ row.claim = w /\ ~row.expired
                  /\ CurrentRow(Wake(w))
               THEN "posting" ELSE "failing")
    /\ UNCHANGED <<leaseRowVars, matchVars, outbox, member, gatewayVars>>

(* The gateway's deliver, up to the commit of authorize_delivery: the      *)
(* row's id is the request id, and it is fenced.                           *)
Admit(w) ==
    /\ courier[w].at = "posting"
    /\ Wake(w) \notin fence
    /\ fence' = fence \cup {Wake(w)}
    /\ flights' = flights \cup {[event |-> Wake(w), attempt |-> courier[w].attempt, caller |-> w]}
    /\ Tell(w, "waiting")
    /\ UNCHANGED <<leaseRowVars, matchVars, outbox, member, confirmed>>

(* 404 for a replay, and for a grant or a quota that is spent: a first     *)
(* attempt fails, a later one passes for delivered.                        *)
RejectPost(w) ==
    /\ courier[w].at = "posting"
    /\ Tell(w, IF courier[w].attempt > 1 THEN "completing" ELSE "failing")
    /\ UNCHANGED <<leaseRowVars, matchVars, outbox, member, gatewayVars>>

(* retry_or_fail. *)
RetryOrFail(w) == IF courier[w].attempt >= MaxSends THEN "failing" ELSE "retrying"

Unavailable(w) ==
    /\ courier[w].at = "posting"
    /\ Tell(w, RetryOrFail(w))
    /\ UNCHANGED <<leaseRowVars, matchVars, outbox, member, gatewayVars>>

(* The relay's HTTP timeout; the gateway's detached task goes on. *)
PostTimesOut(w) ==
    /\ courier[w].at = "waiting"
    /\ Tell(w, RetryOrFail(w))
    /\ UNCHANGED <<leaseRowVars, matchVars, outbox, member, gatewayVars>>

(* The answer reaches its caller, if that is still waiting for it. *)
AnswerTo(f, at) ==
    courier' = IF /\ courier[f.caller].at = "waiting"
                  /\ Wake(f.caller) = f.event /\ courier[f.caller].attempt = f.attempt
               THEN [courier EXCEPT ![f.caller].at = at] ELSE courier

(* Mutant of Terminal: finish_delivery releases the request id. *)
TerminalReleases(f, at) ==
    /\ flights' = flights \ {f}
    /\ fence' = fence \ {f.event}
    /\ AnswerTo(f, at)

(* APNs answers for good: the request id stays burned. *)
Terminal(f, at) ==
    /\ flights' = flights \ {f}
    /\ AnswerTo(f, at)
    /\ UNCHANGED fence

ApnsAccepts(f) ==
    /\ Terminal(f, "completing")
    /\ confirmed' = confirmed \cup {f.event}
    /\ UNCHANGED <<leaseRowVars, matchVars, outbox, member>>

ApnsInvalidEndpoint(f) ==
    /\ Terminal(f, "disabling")
    /\ UNCHANGED <<leaseRowVars, matchVars, outbox, member, confirmed>>

ApnsRefuses(f) ==
    /\ Terminal(f, "failing")
    /\ UNCHANGED <<leaseRowVars, matchVars, outbox, member, confirmed>>

(* Anything else, a lost connection to APNs included, may be retried: the  *)
(* id is released, unless that statement fails.                            *)
ApnsRetry(f, releases) ==
    /\ flights' = flights \ {f}
    /\ fence' = IF releases THEN fence \ {f.event} ELSE fence
    /\ AnswerTo(f, RetryOrFail(f.caller))
    /\ UNCHANGED <<leaseRowVars, matchVars, outbox, member, confirmed>>

(* disable_endpoint_generation, of the generation that was sent. *)
DisableEndpoint(w) ==
    /\ courier[w].at = "disabling"
    /\ pushLease' = IF Eligible /\ pushLease.gen = courier[w].gen
                    THEN [pushLease EXCEPT !.enabled = FALSE] ELSE pushLease
    /\ Tell(w, "failing")
    /\ UNCHANGED <<leaseTx, matchVars, outbox, member, gatewayVars>>

Settled == [completing |-> "delivered", failing |-> "failed", retrying |-> "pending"]

(* complete_wake, fail_wake and retry_wake, of a claim that is held. *)
SettleWake(w) ==
    /\ courier[w].at \in DOMAIN Settled
    /\ outbox' = IF outbox[Wake(w)].state = "sending" /\ outbox[Wake(w)].claim = w
                 THEN [outbox EXCEPT ![Wake(w)].state = Settled[courier[w].at],
                                     ![Wake(w)].claim = "nobody"]
                 ELSE outbox
    /\ courier' = [courier EXCEPT ![w] = Free]
    /\ UNCHANGED <<leaseRowVars, matchVars, member, gatewayVars>>

(* The process dies, or a statement fails: the claim runs out by itself. *)
CourierGivesUp(w) ==
    /\ courier[w] # Free
    /\ courier' = [courier EXCEPT ![w] = Free]
    /\ UNCHANGED <<leaseRowVars, matchVars, outbox, member, gatewayVars>>

WakeClaimExpires(e) ==
    /\ outbox[e].state = "sending" /\ ~outbox[e].expired
    /\ outbox' = [outbox EXCEPT ![e].expired = TRUE]
    /\ UNCHANGED <<leaseRowVars, matchVars, courier, member, gatewayVars>>

(* The author leaves the channel. *)
LosesMembership ==
    /\ member
    /\ member' = FALSE
    /\ UNCHANGED <<leaseRowVars, matchVars, outbox, courier, gatewayVars>>

PushNext ==
    \/ \E active \in BOOLEAN : OpenLeaseTx(active)
    \/ \E recent \in SUBSET Events : CommitLease(recent)
    \/ LeaseRunsOut \/ LosesMembership
    \/ \E e \in Events :
          \/ InsertEvent(e) \/ CommitEvent(e)
          \/ MatchClaimExpires(e) \/ ReapMatch(e) \/ WakeClaimExpires(e)
          \/ \E m \in Matchers : ClaimMatch(m, e)
          \/ \E w \in Couriers : ClaimWake(w, e)
    \/ \E m \in Matchers :
          \/ \E matches \in BOOLEAN : LoadContext(m, matches)
          \/ EnqueueWake(m) \/ MatchFails(m) \/ SettleMatch(m) \/ MatcherGivesUp(m)
    \/ \E w \in Couriers :
          \/ CheckMember(w) \/ CheckMemberFails(w) \/ Revalidate(w)
          \/ Admit(w) \/ RejectPost(w) \/ Unavailable(w) \/ PostTimesOut(w)
          \/ DisableEndpoint(w) \/ SettleWake(w) \/ CourierGivesUp(w)
    \/ \E f \in flights :
          \/ ApnsAccepts(f) \/ ApnsInvalidEndpoint(f) \/ ApnsRefuses(f)
          \/ \E releases \in BOOLEAN : ApnsRetry(f, releases)

PushSpec == PushInit /\ [][PushNext]_pushVars

-----------------------------------------------------------------------------
(* "Either the event's check sees the committed lease, or the activation   *)
(* strictly follows the event's commit": no event is committed without a   *)
(* match job under a lease that is eligible then, whatever leases are      *)
(* activated, revoked or run out while it is being inserted.               *)
NoWakeLostAtTheGate ==
    [][\A e \in Events : stored[e] = "inserting" /\ stored'[e] = "stored" /\ Eligible
          => match'[e] # NoRow]_pushVars

(* "Sending a fresh id would double-deliver and defeat the gateway replay  *)
(* fence": a wake that is at APNs or was taken by APNs is not sent there   *)
(* again, with two couriers, expired claims, timeouts and retries.         *)
SentToApnsOnce ==
    \A e \in Events :
        Cardinality({f \in flights : f.event = e}) + (IF e \in confirmed THEN 1 ELSE 0) <= 1

(* "The current-generation predicate makes stale responses clean no-ops":  *)
(* an endpoint is disabled only on the word of APNs about its generation,  *)
(* however late the word arrives.                                          *)
StaleAnswerHarmless ==
    [][pushLease.enabled /\ pushLease'.gen = pushLease.gen /\ ~pushLease'.enabled
          => \E w \in Couriers : courier[w].at = "disabling" /\ courier[w].gen = pushLease.gen
      ]_pushVars

=============================================================================
