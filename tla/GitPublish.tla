----------------------------- MODULE GitPublish -----------------------------
(***************************************************************************)
(* Pushes to one repository on object storage (crates/buzz-relay/src/api/  *)
(* git). A push hydrates an ephemeral workspace from the manifest that the *)
(* pointer names, runs git receive-pack in it, captures the new objects as *)
(* a pack or compacts the whole repository, writes pack and manifest       *)
(* create-only under their digests, and installs the manifest by a         *)
(* conditional write of the pointer. Handlers of any number of relay       *)
(* processes interleave at every await, and each may fail or die there.    *)
(*                                                                         *)
(* Objects, packs and manifests stand for their digests: a pack is the set *)
(* of its objects, and the ETag of the pointer is its body, which is the   *)
(* least an ETag can tell apart.                                           *)
(***************************************************************************)
EXTENDS Naturals, Sequences, FiniteSets

CONSTANTS
    Pushers,              \* clients, each with one request at a time
    Refs, Branches,       \* ref names, and the ones under refs/heads/
    Main,                 \* DEFAULT_HEAD, what HEAD of a new bare repo names
    Oids, NoOid,
    Ancestors,            \* the objects that a commit needs, itself included
    CompactionThreshold,  \* PACK_COMPACTION_THRESHOLD
    MaxManifestPacks,     \* MAX_MANIFEST_PACKS
    MaxPushes             \* bound on the requests

ASSUME GitAssumption ==
    /\ Main \in Branches /\ Branches \subseteq Refs
    /\ NoOid \notin Oids
    /\ Ancestors \in [Oids -> SUBSET Oids]
    /\ \A o \in Oids : o \in Ancestors[o]
    /\ \A o \in Oids : \A q \in Ancestors[o] : Ancestors[q] \subseteq Ancestors[o]
    /\ CompactionThreshold \in Nat /\ MaxManifestPacks \in Nat
    /\ CompactionThreshold <= MaxManifestPacks
    /\ MaxPushes \in Nat

VARIABLES
    pointer,       \* the manifest the pointer names
    packStore,     \* packs written
    manifestStore, \* manifests written
    push,          \* each pusher's request
    pushes,        \* requests begun
    applied,       \* history: the pushes installed, in order
    reports        \* history: the refs that clients were told "ok" of

gitVars == <<pointer, packStore, manifestStore, push, pushes, applied, reports>>

(* No pointer; no parent. *)
NoManifest == [state |-> "none"]

(* ParentState::fresh, and the manifest that an announcement seeds. *)
Fresh == [head |-> "", refs |-> << >>, packs |-> {}, parent |-> NoManifest]

Seed == [Fresh EXCEPT !.head = Main]

Published == IF pointer = NoManifest THEN Fresh ELSE pointer

Repo == INSTANCE GitRepository WITH repoRefs <- Published.refs, Ids <- 0 .. MaxPushes - 1

Idle == [pc |-> "idle"]

(* The repository after a first push to Main. *)
OnePush(o) == [head |-> Main, refs |-> [r \in {Main} |-> o], packs |-> {Ancestors[o]},
               parent |-> Seed]

GitInit ==
    /\ \/ pointer \in {NoManifest, Seed}
          /\ manifestStore = {pointer} \ {NoManifest}
       \/ \E o \in Oids : pointer = OnePush(o) /\ manifestStore = {Seed, OnePush(o)}
    /\ packStore = Published.packs
    /\ push = [p \in Pushers |-> Idle]
    /\ pushes = 0
    /\ applied = << >>
    /\ reports = {}

-----------------------------------------------------------------------------
Closure(refs) == UNION {Ancestors[refs[r]] : r \in DOMAIN refs}

(* The workspace's HEAD is the one it was hydrated with: receive-pack      *)
(* leaves it alone.                                                        *)
ObservedHead(parent) == IF parent.head = "" THEN Main ELSE parent.head

(* resolve_published_head; master and "the first branch" are any branch.   *)
PublishedHeads(refs, observed) ==
    LET branches == Branches \cap DOMAIN refs IN
    CASE observed \in branches                      -> {observed}
      [] observed \notin branches /\ Main \in branches -> {Main}
      [] branches # {} /\ {observed, Main} \cap branches = {} -> branches
      [] OTHER                                      -> {observed}

(* capture_pack: what the new tips reach and the old ones do not. With     *)
(* nothing to pack git writes no bytes, or a pack without objects.         *)
DeltaPacks(before, after) ==
    LET new == Closure(after) \ Closure(before) IN
    IF after = << >> THEN {{}}
    ELSE IF new = {} THEN {{}, {new}} ELSE {{new}}

(* capture_compacted_packs: everything the new tips reach, in as many      *)
(* packs as --max-pack-size makes of it.                                   *)
CompactedPacks(after) ==
    IF after = << >> THEN {{}}
    ELSE {{Closure(after)}} \cup
         {{part, Closure(after) \ part} : part \in (SUBSET Closure(after)) \ {{}}}

ShouldCompact(parent) == Cardinality(parent.packs) >= CompactionThreshold

CompactedPackSetIsUsable(before, after) ==
    \/ after < before
    \/ before >= MaxManifestPacks /\ after <= MaxManifestPacks

(* Mutant of ComposeAfter: the manifest names the new pack only. *)
ComposeAfterNewOnly(parent, digest, head, refs, new) ==
    [head |-> head, refs |-> refs, packs |-> new, parent |-> digest]

ComposeAfter(parent, digest, head, refs, new) ==
    [head |-> head, refs |-> refs, packs |-> parent.packs \cup new, parent |-> digest]

ComposeCompactedAfter(digest, head, refs, new) ==
    [head |-> head, refs |-> refs, packs |-> new, parent |-> digest]

-----------------------------------------------------------------------------
(* What the handler does last: git's report, with "ok" for some of the     *)
(* refs, or an error (409, 413, 500) with none.                            *)
Answer(p, ok) ==
    /\ push' = [push EXCEPT ![p] = Idle]
    /\ reports' = IF ok = {} THEN reports
                  ELSE reports \cup {[id |-> push[p].id, of |-> DOMAIN push[p].cmd, ok |-> ok]}

(* The client reads the refs (info_refs, or it takes them for empty), and  *)
(* sends commands for some.                                                *)
Request(p) ==
    /\ push[p].pc = "idle"
    /\ pushes < MaxPushes
    /\ pushes' = pushes + 1
    /\ \E S \in (SUBSET Refs) \ {{}} : \E new \in [S -> Oids \cup {NoOid}] :
          LET cmd == [r \in S |-> [old |-> Repo!Value(Published.refs, r), new |-> new[r]]]
          IN /\ \A r \in S : cmd[r].old # cmd[r].new
             /\ push' = [push EXCEPT ![p] = [pc |-> "requested", id |-> pushes, cmd |-> cmd]]
    /\ UNCHANGED <<pointer, packStore, manifestStore, applied, reports>>

(* hydrate_for_write: one GET of the pointer, then the immutable manifest  *)
(* and packs it names. A missing one is an error; see Clonable.            *)
Hydrate(p) ==
    /\ push[p].pc = "requested"
    /\ push' = [push EXCEPT ![p] = [pc |-> "hydrated", id |-> @.id, cmd |-> @.cmd,
                                    digest |-> pointer, parent |-> Published]]
    /\ UNCHANGED <<pointer, packStore, manifestStore, pushes, applied, reports>>

(* git receive-pack in the workspace: the pre-receive hook refuses every   *)
(* command or none; then each ref is updated on its own, and one that is   *)
(* not at the old value its command names is reported "ng".                *)
Accepted(p) == {r \in DOMAIN push[p].cmd :
                   push[p].cmd[r].old = Repo!Value(push[p].parent.refs, r)}

(* A rejected push publishes nothing: finalize_push skips cas_publish when *)
(* the report holds an "ng", and sends the report as it is.                *)
ReceiveRejected(p) ==
    /\ push[p].pc = "hydrated"
    /\ \/ Answer(p, {})
       \/ /\ Accepted(p) # DOMAIN push[p].cmd
          /\ Answer(p, Accepted(p))
    /\ UNCHANGED <<pointer, packStore, manifestStore, pushes, applied>>

Receive(p) ==
    /\ push[p].pc = "hydrated"
    /\ Accepted(p) = DOMAIN push[p].cmd
    /\ LET new  == [r \in DOMAIN push[p].cmd |-> push[p].cmd[r].new]
           refs == Repo!Apply(push[p].parent.refs, new)
       IN
       \E head \in PublishedHeads(refs, ObservedHead(push[p].parent)) :
          push' = [push EXCEPT ![p] = [pc |-> "received", id |-> @.id, cmd |-> @.cmd, digest |-> @.digest,
                                       parent |-> @.parent, refs |-> refs, head |-> head]]
    /\ UNCHANGED <<pointer, packStore, manifestStore, pushes, applied, reports>>

Stage(p, m) ==
    push' = [push EXCEPT ![p] = [pc |-> "composed", id |-> @.id, cmd |-> @.cmd, digest |-> @.digest, m |-> m]]

(* prepare_compaction, with the permit, within its time. *)
Compact(p) ==
    /\ push[p].pc = "received"
    /\ ShouldCompact(push[p].parent)
    /\ \E new \in CompactedPacks(push[p].refs) :
          /\ CompactedPackSetIsUsable(Cardinality(push[p].parent.packs), Cardinality(new))
          /\ packStore' = packStore \cup new
          /\ Stage(p, ComposeCompactedAfter(push[p].digest, push[p].head, push[p].refs, new))
    /\ UNCHANGED <<pointer, manifestStore, pushes, applied, reports>>

(* The normal path, and the fallback of a compaction that failed or ran    *)
(* out of time (the packs it had uploaded are named by nothing and left    *)
(* out here). At the limit a push that brings a pack is refused instead.   *)
Capture(p) ==
    /\ push[p].pc = "received"
    /\ \E new \in DeltaPacks(push[p].parent.refs, push[p].refs) :
          /\ new # {} => Cardinality(push[p].parent.packs) < MaxManifestPacks
          /\ packStore' = packStore \cup new
          /\ Stage(p, ComposeAfter(push[p].parent, push[p].digest, push[p].head,
                                   push[p].refs, new))
    /\ UNCHANGED <<pointer, manifestStore, pushes, applied, reports>>

(* Manifest::validate, then put_manifest. *)
Valid(m) == Cardinality(m.packs) <= MaxManifestPacks /\ m.head # ""

PutManifest(p) ==
    /\ push[p].pc = "composed"
    /\ Valid(push[p].m)
    /\ manifestStore' = manifestStore \cup {push[p].m}
    /\ push' = [push EXCEPT ![p].pc = "staged"]
    /\ UNCHANGED <<pointer, packStore, pushes, applied, reports>>

(* Mutant of Precond: the pointer is overwritten. *)
PrecondNone(p) == TRUE

(* If-Match with the ETag hydration read, or If-None-Match: *. *)
Precond(p) == pointer = push[p].digest

Install(p) ==
    /\ push[p].pc = "staged"
    /\ Precond(p)
    /\ pointer' = push[p].m
    /\ applied' = Append(applied, [id |-> push[p].id, cmd |-> push[p].cmd])

PutPointerWon(p) ==
    /\ Install(p)
    /\ push' = [push EXCEPT ![p].pc = "won"]
    /\ UNCHANGED <<packStore, manifestStore, pushes, reports>>

(* The write took effect and the answer was an error all the same: lost,   *)
(* timed out, or without an ETag. The client gets a 500.                   *)
PutPointerLostAnswer(p) ==
    /\ Install(p)
    /\ Answer(p, {})
    /\ UNCHANGED <<packStore, manifestStore, pushes>>

(* Mutant of PutPointerLost: 412 is success, as it is for packs. *)
PutPointerLostIsFine(p) ==
    /\ push[p].pc = "staged"
    /\ ~Precond(p)
    /\ Answer(p, DOMAIN push[p].cmd)
    /\ UNCHANGED <<pointer, packStore, manifestStore, pushes, applied>>

(* 412: the winner is read for the log, and the client gets a 409. *)
PutPointerLost(p) ==
    /\ push[p].pc = "staged"
    /\ ~Precond(p)
    /\ Answer(p, {})
    /\ UNCHANGED <<pointer, packStore, manifestStore, pushes, applied>>

(* The ref-state event is tried, and whatever comes of it git's report is  *)
(* sent: every ref "ok".                                                   *)
Finish(p) ==
    /\ push[p].pc = "won"
    /\ Answer(p, DOMAIN push[p].cmd)
    /\ UNCHANGED <<pointer, packStore, manifestStore, pushes, applied>>

(* Any await may fail (a limit, a timeout, git, the store), the client may *)
(* go away, the process may die.                                           *)
Fail(p) ==
    /\ push[p].pc # "idle"
    /\ Answer(p, {})
    /\ UNCHANGED <<pointer, packStore, manifestStore, pushes, applied>>

GitNext ==
    \E p \in Pushers :
        \/ Request(p) \/ Hydrate(p) \/ ReceiveRejected(p) \/ Receive(p)
        \/ Compact(p) \/ Capture(p) \/ PutManifest(p)
        \/ PutPointerWon(p) \/ PutPointerLostAnswer(p) \/ PutPointerLost(p)
        \/ Finish(p) \/ Fail(p)

GitSpec == GitInit /\ [][GitNext]_gitVars

-----------------------------------------------------------------------------
(* Whoever read the pointer at any time can clone what it named: every     *)
(* manifest in the store names packs that are in the store, and they hold  *)
(* all that its refs reach. Deltas are cut against the refs of the parent, *)
(* packs of lost races are left about and compaction drops packs, so this  *)
(* takes more than the order of the writes.                                *)
Clonable ==
    /\ {pointer} \ {NoManifest} \subseteq manifestStore
    /\ \A m \in manifestStore :
          m.packs \subseteq packStore /\ Closure(m.refs) \subseteq UNION m.packs

(* "the success response is constructed only after cas_publish returns     *)
(* Ok": a client told that all of its refs were updated has its push in    *)
(* the repository's history.                                               *)
OkIsPublished ==
    \A rep \in reports : rep.ok = rep.of => \E i \in DOMAIN applied : applied[i].id = rep.id

(* Pushes are atomic and serial: the published refs change by one whole    *)
(* push at a time, each on top of exactly the values its client saw.       *)
Linearizable == Repo!Repository

=============================================================================
