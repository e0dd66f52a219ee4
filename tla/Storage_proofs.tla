--------------------------- MODULE Storage_proofs ---------------------------
(***************************************************************************)
(* Theorems about the parts that persist, for every value of their         *)
(* constants: pushes through the object store are linearizable and leave   *)
(* nothing that cannot be cloned (GitPublish); a digest is fetched by one  *)
(* request at a time, bytes are counted and the bound of the cache is kept *)
(* (PackCache); a final reply answers its events alone and within its      *)
(* budget, over all crashes (FinalDelivery).                               *)
(***************************************************************************)
EXTENDS GitPublish, PackCache, FinalDelivery, FiniteSetTheorems, TLAPS

-----------------------------------------------------------------------------
(* Git pushes: GitPublish *)

(* The values and the refs of a repository, and the commands of a push.    *)
Values == Oids \cup {NoOid}
RefMaps == UNION {[S -> Oids] : S \in SUBSET Refs}
Commands == UNION {[S -> [old : Values, new : Values]] : S \in (SUBSET Refs) \ {{}}}

(* What hydration makes of the pointer. *)
Base(digest) == IF digest = NoManifest THEN Fresh ELSE digest

(* The values that the commands of a push ask for.                         *)
New(cmd) == [r \in DOMAIN cmd |-> cmd[r].new]

(* The commands lead from refs to refs. *)
Follows(cmd, before, after) ==
    /\ \A r \in DOMAIN cmd : cmd[r].old = Repo!Value(before, r)
    /\ after = Repo!Apply(before, New(cmd))

(* All that a manifest's refs reach is in packs of the store. *)
Complete(m, packs) ==
    /\ m.refs \in RefMaps
    /\ m.packs \subseteq packs
    /\ Closure(m.refs) \subseteq UNION m.packs

(* What a push under way has: from the hydration on, the manifest it read; *)
(* from the staging on, a complete manifest that follows the one it read;  *)
(* when it has won, its commands in the history.                           *)
PushOK(q) ==
    /\ q.pc # "idle" => q.id \in 0 .. MaxPushes - 1 /\ q.cmd \in Commands
    /\ q.pc \in {"hydrated", "received", "composed", "staged"} =>
          q.digest \in manifestStore \cup {NoManifest}
    /\ q.pc \in {"hydrated", "received"} => q.parent = Base(q.digest)
    /\ q.pc = "received" => Follows(q.cmd, q.parent.refs, q.refs)
    /\ q.pc \in {"composed", "staged"} =>
          /\ q.m # NoManifest
          /\ Complete(q.m, packStore)
          /\ Follows(q.cmd, Base(q.digest).refs, q.m.refs)
    /\ q.pc \in {"composed", "staged", "won"} =>
          q = [pc |-> q.pc, id |-> q.id, cmd |-> q.cmd, digest |-> q.digest, m |-> q.m]
    /\ q.pc = "staged" => q.m \in manifestStore
    /\ q.pc = "won" => \E i \in DOMAIN applied : applied[i].id = q.id

(* The inductive invariant: every manifest in the store is complete, the   *)
(* pointer names one of them or none, every push under way is as PushOK    *)
(* says, and what was reported is in the history.                          *)
GitInv ==
    /\ push = [p \in Pushers |-> push[p]]
    /\ pushes \in Nat
    /\ applied \in Seq([id : 0 .. MaxPushes - 1, cmd : Commands])
    /\ {pointer} \ {NoManifest} \subseteq manifestStore
    /\ \A m \in manifestStore : m # NoManifest /\ Complete(m, packStore)
    /\ \A p \in Pushers : PushOK(push[p])
    /\ OkIsPublished

(* What a repository without a manifest holds. *)
LEMMA FreshIsComplete ==
    /\ Fresh.refs \in RefMaps /\ Closure(Fresh.refs) = {} /\ Fresh.packs = {}
    /\ Seed.refs = Fresh.refs /\ Seed.packs = {}
    /\ Fresh # NoManifest /\ Seed # NoManifest
<1>1. /\ Fresh.refs = << >> /\ Seed.refs = << >> /\ Fresh.packs = {} /\ Seed.packs = {}
      /\ Fresh # NoManifest /\ Seed # NoManifest
    BY DEF Fresh, Seed, NoManifest
<1>2. << >> \in [{} -> Oids]
    OBVIOUS
<1>3. << >> \in RefMaps
    BY <1>2 DEF RefMaps
<1>4. Closure(<< >>) = {}
    BY DEF Closure
<1> QED BY <1>1, <1>3, <1>4

(* What a push starts from is complete.                                    *)
LEMMA BaseIsComplete ==
    ASSUME GitInv, NEW d \in manifestStore \cup {NoManifest}
    PROVE  Complete(Base(d), packStore)
BY FreshIsComplete DEF GitInv, Base, Complete

(* A ref that does not exist has a value too.                              *)
LEMMA ValueIsValue ==
    ASSUME NEW refs \in RefMaps, NEW r
    PROVE  Repo!Value(refs, r) \in Values
BY DEF RefMaps, Repo!Value, Values

(* Commands lead from refs to refs.                                        *)
LEMMA ApplyIsRefs ==
    ASSUME NEW refs \in RefMaps, NEW cmd \in Commands
    PROVE  Repo!Apply(refs, New(cmd)) \in RefMaps
<1> DEFINE new == New(cmd)
           value(r) == IF r \in DOMAIN new THEN new[r] ELSE Repo!Value(refs, r)
           exist == {r \in DOMAIN refs \cup DOMAIN new : value(r) # NoOid}
<1>1. DOMAIN new = DOMAIN cmd /\ DOMAIN cmd \subseteq Refs /\ \A r \in DOMAIN new : new[r] \in Values
    BY DEF New, Commands
<1>2. DOMAIN refs \subseteq Refs
    BY DEF RefMaps
<1>3. \A r : value(r) \in Values
    BY <1>1, ValueIsValue
<1>4. \A r \in exist : value(r) \in Oids
    BY <1>3 DEF Values
<1>5. exist \in SUBSET Refs
    BY <1>1, <1>2
<1>6. [r \in exist |-> value(r)] \in [exist -> Oids]
    BY <1>4
<1>7. Repo!Apply(refs, new) = [r \in exist |-> value(r)]
    BY DEF Repo!Apply
<1> QED BY <1>5, <1>6, <1>7 DEF RefMaps

(* What every step of a push does to the stores and the history: they only *)
(* grow. The other pushes go on as they were.                              *)
LEMMA OthersUndisturbed ==
    ASSUME GitInv, NEW p \in Pushers, NEW q, push' = [push EXCEPT ![p] = q],
           packStore \subseteq packStore', manifestStore \subseteq manifestStore',
           \A i \in DOMAIN applied : i \in DOMAIN applied' /\ applied'[i] = applied[i],
           PushOK(q)'
    PROVE  /\ push' = [x \in Pushers |-> push'[x]]
           /\ \A x \in Pushers : PushOK(push[x])'
<1>1. /\ push' = [x \in Pushers |-> push'[x]]
      /\ push'[p] = q
      /\ \A x \in Pushers : x # p => push'[x] = push[x]
    BY DEF GitInv
<1>2. ASSUME NEW x \in Pushers, x # p
      PROVE  PushOK(push[x])'
    <2> DEFINE y == push[x]
    <2>1. PushOK(y) /\ push'[x] = y
        BY <1>1, <1>2 DEF GitInv
    <2>2. PICK z : z = y
        OBVIOUS
    <2>3. \A m : Complete(m, packStore) => Complete(m, packStore')
        BY DEF Complete
    <2>4. PushOK(z)
        BY <2>1, <2>2
    <2>5. PushOK(z)'
        BY <2>3, <2>4 DEF PushOK
    <2> QED BY <2>1, <2>2, <2>5
<1> QED BY <1>1, <1>2

(* The steps that touch neither stores nor pointer nor history. *)
LEMMA QuietStep ==
    ASSUME GitInv, NEW p \in Pushers, NEW q, push' = [push EXCEPT ![p] = q],
           UNCHANGED <<pointer, packStore, manifestStore, applied>>,
           pushes' \in Nat, PushOK(q)', OkIsPublished'
    PROVE  GitInv'
<1>1. /\ push' = [x \in Pushers |-> push'[x]]
      /\ \A x \in Pushers : PushOK(push[x])'
    BY OthersUndisturbed
<1> QED BY <1>1 DEF GitInv

(* A push that ends reports all its refs as updated only when it has won.  *)
LEMMA AnswerKeepsGit ==
    ASSUME GitInv, NEW p \in Pushers, NEW ok, Answer(p, ok),
           ok # {} => \/ ok # DOMAIN push[p].cmd
                      \/ push[p].pc = "won",
           UNCHANGED <<pointer, packStore, manifestStore, pushes, applied>>
    PROVE  GitInv'
<1>1. push' = [push EXCEPT ![p] = Idle]
    BY DEF Answer
<1>2. PushOK(Idle)'
    BY DEF PushOK, Idle
<1>3. OkIsPublished'
    <2>1. CASE ok = {}
        BY <2>1 DEF Answer, GitInv, OkIsPublished
    <2>2. CASE ok # {}
        <3> DEFINE new == [id |-> push[p].id, of |-> DOMAIN push[p].cmd, ok |-> ok]
        <3>1. reports' = reports \cup {new}
            BY <2>2 DEF Answer
        <3>2. new.ok = new.of => \E i \in DOMAIN applied : applied[i].id = new.id
            BY <2>2 DEF GitInv, PushOK
        <3> HIDE DEF new
        <3> QED BY <3>1, <3>2 DEF GitInv, OkIsPublished
    <2> QED BY <2>1, <2>2
<1>4. pushes' \in Nat
    BY DEF GitInv
<1> QED BY <1>1, <1>2, <1>3, <1>4, QuietStep DEF Idle

(* A push begins with the values that the client has seen.                 *)
LEMMA RequestKeepsGit ==
    ASSUME GitInv, NEW p \in Pushers, Request(p)
    PROVE  GitInv'
<1>1. PICK S \in (SUBSET Refs) \ {{}} : \E new \in [S -> Oids \cup {NoOid}] :
         push' = [push EXCEPT ![p] =
                    [pc |-> "requested", id |-> pushes,
                     cmd |-> [r \in S |-> [old |-> Repo!Value(Published.refs, r), new |-> new[r]]]]]
    BY Zenon DEF Request
<1>2. PICK new \in [S -> Oids \cup {NoOid}] :
         push' = [push EXCEPT ![p] =
                    [pc |-> "requested", id |-> pushes,
                     cmd |-> [r \in S |-> [old |-> Repo!Value(Published.refs, r), new |-> new[r]]]]]
    BY <1>1, Zenon
<1> DEFINE cmd == [r \in S |-> [old |-> Repo!Value(Published.refs, r), new |-> new[r]]]
<1>3. PICK q : q = [pc |-> "requested", id |-> pushes, cmd |-> cmd]
    OBVIOUS
<1>4. Published.refs \in RefMaps
    <2>1. pointer \in manifestStore \cup {NoManifest}
        BY DEF GitInv
    <2> QED BY <2>1, BaseIsComplete DEF Complete, Base, Published
<1>5. \A r \in S : [old |-> Repo!Value(Published.refs, r), new |-> new[r]]
                       \in [old : Values, new : Values]
    BY <1>4, ValueIsValue DEF Values
<1>6. cmd \in Commands
    BY <1>5 DEF Commands
<1>7. push' = [push EXCEPT ![p] = q]
    BY <1>2, <1>3, Zenon
<1> HIDE DEF cmd
<1>8. pushes \in 0 .. MaxPushes - 1 /\ pushes' \in Nat
    BY GitAssumption DEF Request, GitInv
<1>9. q.pc = "requested" /\ q.id \in 0 .. MaxPushes - 1 /\ q.cmd \in Commands
    BY <1>3, <1>6, <1>8
<1>10. PushOK(q)'
    BY <1>9 DEF PushOK
<1>11. OkIsPublished'
    BY DEF Request, GitInv, OkIsPublished
<1> QED BY <1>7, <1>8, <1>10, <1>11, QuietStep DEF Request

(* Hydration reads the pointer and the manifest that it names.             *)
LEMMA HydrateKeepsGit ==
    ASSUME GitInv, NEW p \in Pushers, Hydrate(p)
    PROVE  GitInv'
<1>1. PICK x, d : x = push[p] /\ d = pointer
    OBVIOUS
<1> DEFINE q == [pc |-> "hydrated", id |-> x.id, cmd |-> x.cmd, digest |-> d, parent |-> Base(d)]
<1>2. push' = [push EXCEPT ![p] = q]
    BY <1>1 DEF Hydrate, Published, Base
<1>3. PushOK(x) /\ x.pc = "requested" /\ d \in manifestStore \cup {NoManifest}
    BY <1>1 DEF Hydrate, GitInv
<1>4. PushOK(q)'
    BY <1>3 DEF PushOK, Hydrate
<1>5. OkIsPublished' /\ pushes' \in Nat
    BY DEF Hydrate, GitInv, OkIsPublished
<1> HIDE DEF q
<1> QED BY <1>2, <1>4, <1>5, QuietStep DEF Hydrate

(* receive-pack applies the commands to what was hydrated.                 *)
LEMMA ReceiveKeepsGit ==
    ASSUME GitInv, NEW p \in Pushers, Receive(p)
    PROVE  GitInv'
<1>1. PICK x : x = push[p]
    OBVIOUS
<1>2. PICK head, refs :
         /\ refs = Repo!Apply(x.parent.refs, New(x.cmd))
         /\ push' = [push EXCEPT ![p] = [pc |-> "received", id |-> x.id, cmd |-> x.cmd,
                         digest |-> x.digest, parent |-> x.parent, refs |-> refs, head |-> head]]
    BY <1>1 DEF Receive, New
<1> DEFINE q == [pc |-> "received", id |-> x.id, cmd |-> x.cmd, digest |-> x.digest,
                 parent |-> x.parent, refs |-> refs, head |-> head]
<1>3. PushOK(x) /\ x.pc = "hydrated"
    BY <1>1 DEF Receive, GitInv
<1>4. \A r \in DOMAIN x.cmd : x.cmd[r].old = Repo!Value(x.parent.refs, r)
    BY <1>1 DEF Receive, Accepted
<1>5. PushOK(q)'
    BY <1>2, <1>3, <1>4 DEF PushOK, Receive, Follows
<1>6. OkIsPublished' /\ pushes' \in Nat
    BY DEF Receive, GitInv, OkIsPublished
<1>7. push' = [push EXCEPT ![p] = q]
    BY <1>2
<1> HIDE DEF q
<1> QED BY <1>5, <1>6, <1>7, QuietStep DEF Receive

(* Every pack a compaction makes is of what the refs reach, and together   *)
(* they are all of it; ...                                                 *)
LEMMA CompactionCovers ==
    ASSUME NEW refs, NEW new \in CompactedPacks(refs)
    PROVE  UNION new = Closure(refs)
<1>1. CASE refs = << >>
    BY <1>1 DEF CompactedPacks, Closure
<1>2. CASE refs # << >> /\ new = {Closure(refs)}
    BY <1>2
<1>3. CASE \E part \in (SUBSET Closure(refs)) \ {{}} : new = {part, Closure(refs) \ part}
    BY <1>3
<1> QED BY <1>1, <1>2, <1>3 DEF CompactedPacks

(* ... and a delta is what the parent's packs lack.                        *)
LEMMA DeltaCovers ==
    ASSUME NEW before, NEW after, NEW new \in DeltaPacks(before, after)
    PROVE  Closure(after) \subseteq Closure(before) \cup UNION new
<1>1. CASE after = << >>
    BY <1>1 DEF Closure
<1>2. CASE after # << >> /\ Closure(after) \ Closure(before) = {}
    BY <1>2
<1>3. CASE after # << >> /\ Closure(after) \ Closure(before) # {}
    <2>1. new = {Closure(after) \ Closure(before)}
        BY <1>3 DEF DeltaPacks
    <2> QED BY <2>1
<1> QED BY <1>1, <1>2, <1>3

(* The manifest that a push composes is complete: its packs are in the     *)
(* store before it is.                                                     *)
LEMMA StageKeepsGit ==
    ASSUME GitInv, NEW p \in Pushers, Compact(p) \/ Capture(p)
    PROVE  GitInv'
<1>1. PICK x : x = push[p]
    OBVIOUS
<1>2. PushOK(x) /\ x.pc = "received"
    BY <1>1 DEF Compact, Capture, GitInv
<1>3. Complete(x.parent, packStore)
    BY <1>2, BaseIsComplete DEF PushOK
<1>4. x.refs \in RefMaps
    BY <1>2, <1>3, ApplyIsRefs DEF PushOK, Follows, Complete
<1>5. PICK new, m :
         /\ packStore' = packStore \cup new
         /\ m = [head |-> x.head, refs |-> x.refs, packs |-> m.packs, parent |-> x.digest]
         /\ m.packs \subseteq packStore' /\ Closure(x.refs) \subseteq UNION m.packs
         /\ push' = [push EXCEPT ![p] = [pc |-> "composed", id |-> x.id, cmd |-> x.cmd,
                                          digest |-> x.digest, m |-> m]]
    <2>1. CASE Compact(p)
        <3>1. PICK new \in CompactedPacks(x.refs) :
                 /\ packStore' = packStore \cup new
                 /\ Stage(p, ComposeCompactedAfter(x.digest, x.head, x.refs, new))
            BY <1>1, <2>1 DEF Compact
        <3>2. Closure(x.refs) \subseteq UNION new
            BY CompactionCovers
        <3> WITNESS new, ComposeCompactedAfter(x.digest, x.head, x.refs, new)
        <3> QED BY <1>1, <3>1, <3>2 DEF Stage, ComposeCompactedAfter
    <2>2. CASE Capture(p)
        <3>1. PICK new \in DeltaPacks(x.parent.refs, x.refs) :
                 /\ packStore' = packStore \cup new
                 /\ Stage(p, ComposeAfter(x.parent, x.digest, x.head, x.refs, new))
            BY <1>1, <2>2 DEF Capture
        <3>2. Closure(x.refs) \subseteq UNION (x.parent.packs \cup new)
            BY <1>3, DeltaCovers DEF Complete
        <3>3. x.parent.packs \cup new \subseteq packStore'
            BY <1>3, <3>1 DEF Complete
        <3> WITNESS new, ComposeAfter(x.parent, x.digest, x.head, x.refs, new)
        <3> QED BY <1>1, <3>1, <3>2, <3>3 DEF Stage, ComposeAfter
    <2> QED BY <2>1, <2>2
<1>6. m # NoManifest /\ m.refs = x.refs
    BY <1>5 DEF NoManifest
<1> DEFINE q == [pc |-> "composed", id |-> x.id, cmd |-> x.cmd, digest |-> x.digest, m |-> m]
<1>7. UNCHANGED <<pointer, manifestStore, pushes, applied, reports>>
    BY DEF Compact, Capture
<1>8. Complete(m, packStore')
    BY <1>4, <1>5, <1>6 DEF Complete
<1>9. PushOK(q)'
    BY <1>2, <1>6, <1>7, <1>8 DEF PushOK
<1>10. push' = [push EXCEPT ![p] = q]
    BY <1>5
<1> HIDE DEF q
<1>11. /\ push' = [y \in Pushers |-> push'[y]]
       /\ \A y \in Pushers : PushOK(push[y])'
    BY <1>5, <1>7, <1>9, <1>10, OthersUndisturbed
<1>12. \A y \in manifestStore : Complete(y, packStore')
    BY <1>5 DEF GitInv, Complete
<1> QED BY <1>7, <1>11, <1>12 DEF GitInv, OkIsPublished

(* A manifest is in the store before the pointer can name it.              *)
LEMMA PutManifestKeepsGit ==
    ASSUME GitInv, NEW p \in Pushers, PutManifest(p)
    PROVE  GitInv'
<1>1. PICK x : x = push[p]
    OBVIOUS
<1>2. /\ PushOK(x) /\ x.pc = "composed"
      /\ x = [pc |-> x.pc, id |-> x.id, cmd |-> x.cmd, digest |-> x.digest, m |-> x.m]
    BY <1>1 DEF PutManifest, GitInv, PushOK
<1>3. PICK q : q = [pc |-> "staged", id |-> x.id, cmd |-> x.cmd, digest |-> x.digest, m |-> x.m]
    OBVIOUS
<1>4. push' = [push EXCEPT ![p] = [x EXCEPT !.pc = "staged"]]
    BY <1>1, Zenon DEF PutManifest
<1>5. [x EXCEPT !.pc = "staged"] = q
    BY <1>2, <1>3
<1>6. push' = [push EXCEPT ![p] = q]
    BY <1>4, <1>5
<1>7. /\ manifestStore' = manifestStore \cup {x.m}
      /\ UNCHANGED <<pointer, packStore, pushes, applied, reports>>
    BY <1>1 DEF PutManifest
<1>8. PushOK(q)'
    BY <1>2, <1>3, <1>7 DEF PushOK
<1>9. /\ push' = [y \in Pushers |-> push'[y]]
      /\ \A y \in Pushers : PushOK(push[y])'
    BY <1>6, <1>7, <1>8, OthersUndisturbed
<1>10. \A m \in manifestStore' : m # NoManifest /\ Complete(m, packStore)
    BY <1>2, <1>7 DEF GitInv, PushOK
<1> QED BY <1>7, <1>9, <1>10 DEF GitInv, OkIsPublished

(* The conditional write: the manifest that is installed follows the one   *)
(* that the pointer still names.                                           *)
LEMMA InstallFollows ==
    ASSUME GitInv, NEW p \in Pushers, Install(p)
    PROVE  /\ pointer' \in manifestStore
           /\ push[p].id \in 0 .. MaxPushes - 1 /\ push[p].cmd \in Commands
           /\ Follows(push[p].cmd, Published.refs, Published'.refs)
           /\ applied' = Append(applied, [id |-> push[p].id, cmd |-> push[p].cmd])
           /\ applied' \in Seq([id : 0 .. MaxPushes - 1, cmd : Commands])
           /\ Len(applied') = Len(applied) + 1
           /\ \A i \in DOMAIN applied : i \in DOMAIN applied' /\ applied'[i] = applied[i]
           /\ \E i \in DOMAIN applied' : applied'[i].id = push[p].id
<1> DEFINE x == push[p]
           new == [id |-> x.id, cmd |-> x.cmd]
<1>1. PushOK(x) /\ x.pc = "staged" /\ pointer = x.digest /\ pointer' = x.m
    BY DEF Install, Precond, GitInv
<1>2. applied' = Append(applied, new)
    BY DEF Install
<1>3. /\ x.m \in manifestStore /\ x.m # NoManifest
      /\ x.id \in 0 .. MaxPushes - 1 /\ x.cmd \in Commands
      /\ Follows(x.cmd, Base(x.digest).refs, x.m.refs)
    BY <1>1 DEF PushOK
<1>4. Published = Base(x.digest) /\ Published' = x.m
    BY <1>1, <1>3 DEF Published, Base
<1>5. new \in [id : 0 .. MaxPushes - 1, cmd : Commands] /\ new.id = x.id
    BY <1>3
<1>6. applied \in Seq([id : 0 .. MaxPushes - 1, cmd : Commands])
    BY DEF GitInv
<1> HIDE DEF x, new
<1>7. /\ applied' \in Seq([id : 0 .. MaxPushes - 1, cmd : Commands])
      /\ Len(applied') = Len(applied) + 1
      /\ \A i \in DOMAIN applied : i \in DOMAIN applied' /\ applied'[i] = applied[i]
      /\ Len(applied) + 1 \in DOMAIN applied' /\ applied'[Len(applied) + 1] = new
    BY <1>2, <1>5, <1>6
<1>8. \E i \in DOMAIN applied' : applied'[i].id = x.id
    BY <1>5, <1>7
<1>9. Follows(x.cmd, Published.refs, Published'.refs)
    BY <1>3, <1>4
<1> QED BY <1>1, <1>2, <1>3, <1>7, <1>8, <1>9 DEF x, new

(* The pointer moves to a complete manifest, and the push is in the        *)
(* history with it.                                                        *)
LEMMA InstallKeepsGit ==
    ASSUME GitInv, NEW p \in Pushers, PutPointerWon(p) \/ PutPointerLostAnswer(p)
    PROVE  GitInv'
<1>1. Install(p)
    BY DEF PutPointerWon, PutPointerLostAnswer
<1>2. UNCHANGED <<packStore, manifestStore, pushes, reports>>
    BY DEF PutPointerWon, PutPointerLostAnswer, Answer
<1>3. PICK x : x = push[p]
    OBVIOUS
<1>4. PushOK(x) /\ x.pc = "staged"
    BY <1>1, <1>3 DEF Install, GitInv
<1>5. \E q : push' = [push EXCEPT ![p] = q] /\ PushOK(q)'
    <2>1. CASE PutPointerWon(p)
        <3>1. PICK q : q = [pc |-> "won", id |-> x.id, cmd |-> x.cmd, digest |-> x.digest, m |-> x.m]
            OBVIOUS
        <3>2. x = [pc |-> x.pc, id |-> x.id, cmd |-> x.cmd, digest |-> x.digest, m |-> x.m]
            BY <1>4 DEF PushOK
        <3>3. push' = [push EXCEPT ![p] = [x EXCEPT !.pc = "won"]]
            BY <1>3, <2>1, Zenon DEF PutPointerWon
        <3>4. [x EXCEPT !.pc = "won"] = q
            BY <3>1, <3>2
        <3>5. \E i \in DOMAIN applied' : applied'[i].id = x.id
            BY <1>1, <1>3, InstallFollows
        <3>6. PushOK(q)'
            BY <1>4, <3>1, <3>5 DEF PushOK
        <3> QED BY <3>3, <3>4, <3>6
    <2>2. CASE PutPointerLostAnswer(p)
        <3>1. PICK q : q = Idle
            OBVIOUS
        <3>2. PushOK(q)'
            BY <3>1 DEF PushOK, Idle
        <3> QED BY <2>2, <3>1, <3>2 DEF PutPointerLostAnswer, Answer
    <2> QED BY <2>1, <2>2
<1>6. /\ applied' \in Seq([id : 0 .. MaxPushes - 1, cmd : Commands])
      /\ \A i \in DOMAIN applied : i \in DOMAIN applied' /\ applied'[i] = applied[i]
      /\ pointer' \in manifestStore
    BY <1>1, InstallFollows
<1>7. /\ push' = [y \in Pushers |-> push'[y]]
      /\ \A y \in Pushers : PushOK(push[y])'
    BY <1>2, <1>5, <1>6, OthersUndisturbed
<1>8. OkIsPublished'
    BY <1>2, <1>6 DEF GitInv, OkIsPublished
<1> QED BY <1>2, <1>6, <1>7, <1>8 DEF GitInv

(* GitInv is kept by every step ...                                        *)
LEMMA GitInvariance == GitInv /\ [GitNext]_gitVars => GitInv'
<1> SUFFICES ASSUME GitInv, [GitNext]_gitVars
             PROVE  GitInv'
    OBVIOUS
<1>1. ASSUME NEW p \in Pushers, ReceiveRejected(p) \/ PutPointerLost(p) \/ Finish(p) \/ Fail(p)
      PROVE  GitInv'
    BY <1>1, AnswerKeepsGit DEF ReceiveRejected, PutPointerLost, Finish, Fail
<1>2. CASE UNCHANGED gitVars
    BY <1>2 DEF gitVars, GitInv, PushOK, OkIsPublished
<1> QED BY <1>1, <1>2, RequestKeepsGit, HydrateKeepsGit, ReceiveKeepsGit, StageKeepsGit,
           PutManifestKeepsGit, InstallKeepsGit DEF GitNext

(* ... and holds in every initial state.                                   *)
LEMMA GitInitially == GitInit => GitInv
<1> SUFFICES ASSUME GitInit
             PROVE  GitInv
    OBVIOUS
<1>1. /\ push = [p \in Pushers |-> push[p]]
      /\ \A p \in Pushers : PushOK(push[p])
    BY DEF GitInit, Idle, PushOK
<1>2. /\ pushes \in Nat
      /\ applied \in Seq([id : 0 .. MaxPushes - 1, cmd : Commands])
      /\ OkIsPublished
    BY DEF GitInit, OkIsPublished
<1>3. /\ {pointer} \ {NoManifest} \subseteq manifestStore
      /\ \A m \in manifestStore : m # NoManifest /\ Complete(m, packStore)
    <2>1. \A packs : Complete(Seed, packs)
        BY FreshIsComplete DEF Complete
    <2>2. CASE pointer \in {NoManifest, Seed} /\ manifestStore = {pointer} \ {NoManifest}
        BY <2>1, <2>2, FreshIsComplete
    <2>3. ASSUME NEW o \in Oids, pointer = OnePush(o), manifestStore = {Seed, OnePush(o)}
          PROVE  /\ {pointer} \ {NoManifest} \subseteq manifestStore
                 /\ \A m \in manifestStore : m # NoManifest /\ Complete(m, packStore)
        <3>1. /\ OnePush(o).refs = [r \in {Main} |-> o] /\ OnePush(o).packs = {Ancestors[o]}
              /\ OnePush(o) # NoManifest
            BY DEF OnePush, NoManifest
        <3>2. [r \in {Main} |-> o] \in RefMaps
            <4>1. {Main} \in SUBSET Refs
                BY GitAssumption
            <4>2. [r \in {Main} |-> o] \in [{Main} -> Oids]
                OBVIOUS
            <4> QED BY <4>1, <4>2 DEF RefMaps
        <3>3. Closure([r \in {Main} |-> o]) = Ancestors[o]
            BY DEF Closure
        <3>4. packStore = {Ancestors[o]}
            BY <2>3, <3>1 DEF GitInit, Published
        <3>5. Complete(OnePush(o), packStore)
            BY <3>1, <3>2, <3>3, <3>4 DEF Complete
        <3> QED BY <2>1, <2>3, <3>1, <3>5, FreshIsComplete
    <2> QED BY <2>2, <2>3 DEF GitInit
<1> QED BY <1>1, <1>2, <1>3 DEF GitInv

(* What the pointer names, a clone can hydrate: all packs of every stored  *)
(* manifest are there, and all that its refs reach is in them, for any     *)
(* pushers, refs, histories and compaction threshold.                      *)
THEOREM AlwaysClonable == GitSpec => []Clonable
<1>1. GitInv => Clonable
    BY DEF GitInv, Complete, Clonable
<1> QED BY <1>1, GitInitially, GitInvariance, PTL DEF GitSpec

(* A push that was told "ok" for every ref is in the history of the        *)
(* pointer.                                                                *)
THEOREM OkIsAlwaysPublished == GitSpec => []OkIsPublished
<1>1. GitInv => OkIsPublished
    BY DEF GitInv
<1> QED BY <1>1, GitInitially, GitInvariance, PTL DEF GitSpec

(* The pushes implement GitRepository: the refs a reader sees change by    *)
(* one whole push at a time, each from the values that its commands name.  *)
THEOREM PushesLinearize == GitSpec => Linearizable
<1>1. GitInit => Repo!RepositoryInit
    <2> SUFFICES ASSUME GitInit
                 PROVE  Published.refs \in RefMaps /\ applied = << >>
        BY DEF Repo!RepositoryInit, RefMaps
    <2>1. pointer \in manifestStore \cup {NoManifest} /\ GitInv
        BY GitInitially DEF GitInv
    <2> QED BY <2>1, BaseIsComplete DEF GitInit, Complete, Base, Published
<1>2. ASSUME GitInv, [GitNext]_gitVars
      PROVE  [Repo!RepositoryNext]_<<Published.refs, applied>>
    <2>1. ASSUME NEW p \in Pushers, Install(p)
          PROVE  Repo!RepositoryNext
        <3> DEFINE cmd == push[p].cmd
                   id == push[p].id
        <3>1. /\ cmd \in Commands /\ id \in 0 .. MaxPushes - 1
              /\ Follows(cmd, Published.refs, Published'.refs)
              /\ applied' = Append(applied, [id |-> id, cmd |-> cmd])
              /\ Len(applied') = Len(applied) + 1
            BY <1>2, <2>1, InstallFollows
        <3> HIDE DEF cmd, id
        <3>2. /\ DOMAIN cmd \in (SUBSET Refs) \ {{}}
              /\ New(cmd) \in [DOMAIN cmd -> Oids \cup {NoOid}]
              /\ DOMAIN New(cmd) = DOMAIN cmd
            BY <3>1 DEF Commands, New, Values
        <3>3. cmd = [r \in DOMAIN New(cmd) |->
                        [old |-> Repo!Value(Published.refs, r), new |-> New(cmd)[r]]]
            BY <3>1 DEF Commands, Follows, New
        <3>4. Repo!PushApplied(id, New(cmd))
            BY <3>1, <3>3 DEF Follows, Repo!PushApplied
        <3> QED BY <3>1, <3>2, <3>4 DEF Repo!RepositoryNext
    <2>2. CASE UNCHANGED <<pointer, applied>>
        BY <2>2 DEF Published
    <2>3. ASSUME NEW p \in Pushers,
                 \/ Request(p) \/ Hydrate(p) \/ ReceiveRejected(p) \/ Receive(p)
                 \/ Compact(p) \/ Capture(p) \/ PutManifest(p) \/ PutPointerLost(p)
                 \/ Finish(p) \/ Fail(p)
          PROVE  UNCHANGED <<pointer, applied>>
        BY <2>3 DEF Request, Hydrate, ReceiveRejected, Receive, Compact, Capture, PutManifest,
                    PutPointerLost, Finish, Fail
    <2>4. CASE UNCHANGED gitVars
        BY <2>2, <2>4 DEF gitVars
    <2> QED BY <1>2, <2>1, <2>2, <2>3, <2>4 DEF GitNext, PutPointerWon, PutPointerLostAnswer
<1> QED BY <1>1, <1>2, GitInitially, GitInvariance, PTL
        DEF GitSpec, Linearizable, Repo!Repository

-----------------------------------------------------------------------------
(* The pack cache: PackCache *)

(* Where a request takes part in its flight, and where it has its lock. *)
Locked == {"populate", "fetch", "install", "leave"}
Inside == Locked \cup {"wait"}

(* The requests in a flight.                                               *)
Members(f) == {r \in Requests : request[r].at \in Inside /\ request[r].fl = f}

(* A flight.                                                               *)
Flights == [participants : Nat, lock : SUBSET Requests]

(* The types of the variables that flights use.                            *)
FlightTypeOK ==
    /\ request = [r \in Requests |-> request[r]]
    /\ flight \in Seq(Flights)
    /\ flights \in [Digests -> {NoFlight} \cup (1 .. Len(flight))]

(* A request on its way has a digest, and a hit is in no flight; ... *)
RequestsInv ==
    \A r \in Requests :
        /\ request[r].at # "unstarted" => request[r].d \in Digests
        /\ request[r].at = "hit" => request[r].fl = NoFlight

(* ... a flight counts the requests in it, which is why it stays in the    *)
(* map while there are any, ...                                            *)
MembersInv ==
    /\ \A f \in 1 .. Len(flight) : flight[f].participants = Cardinality(Members(f))
    /\ \A r \in Requests : request[r].at \in Inside =>
          request[r].fl \in 1 .. Len(flight) /\ flights[request[r].d] = request[r].fl

(* ... and only one of them has its lock.                                  *)
LockInv ==
    \A r \in Requests : request[r].at \in Locked => flight[request[r].fl].lock = {r}

(* The inductive invariant.                                                *)
FlightInv == FlightTypeOK /\ RequestsInv /\ MembersInv /\ LockInv

-----------------------------------------------------------------------------
(* The request moves, and the others stay.                                 *)
Becomes(r, at, d, f) ==
    /\ request' = [q \in Requests |-> request'[q]]
    /\ \A q \in Requests : q # r => request'[q] = request[q]
    /\ request'[r].at = at /\ request'[r].d = d /\ request'[r].fl = f

(* Whatever else a request's record holds, a step sets these three.        *)
LEMMA Moved ==
    ASSUME FlightTypeOK, NEW r \in Requests, NEW at, NEW d, NEW f
    PROVE  /\ request' = [request EXCEPT ![r] = [at |-> at, d |-> d, fl |-> f]] => Becomes(r, at, d, f)
           /\ \A arc : request' = [request EXCEPT ![r] = [at |-> at, d |-> d, fl |-> f, arc |-> arc]]
                       => Becomes(r, at, d, f)
           /\ \A removed, then :
                 request' = [request EXCEPT ![r] = [at |-> at, d |-> d, fl |-> f,
                                                    removed |-> removed, then |-> then]]
                       => Becomes(r, at, d, f)
<1>1. ASSUME NEW new, request' = [request EXCEPT ![r] = new],
             new.at = at, new.d = d, new.fl = f
      PROVE  Becomes(r, at, d, f)
    <2>1. /\ request' = [q \in Requests |-> request'[q]]
          /\ \A q \in Requests : q # r => request'[q] = request[q]
          /\ request'[r] = new
        BY <1>1 DEF FlightTypeOK
    <2> QED BY <1>1, <2>1 DEF Becomes
<1>2. ASSUME request' = [request EXCEPT ![r] = [at |-> at, d |-> d, fl |-> f]]
      PROVE  Becomes(r, at, d, f)
    <2> DEFINE new == [at |-> at, d |-> d, fl |-> f]
    <2>1. new.at = at /\ new.d = d /\ new.fl = f
        OBVIOUS
    <2>2. request' = [request EXCEPT ![r] = new]
        BY <1>2
    <2> HIDE DEF new
    <2> QED BY <1>1, <2>1, <2>2
<1>3. ASSUME NEW arc, request' = [request EXCEPT ![r] = [at |-> at, d |-> d, fl |-> f, arc |-> arc]]
      PROVE  Becomes(r, at, d, f)
    <2> DEFINE new == [at |-> at, d |-> d, fl |-> f, arc |-> arc]
    <2>1. new.at = at /\ new.d = d /\ new.fl = f
        OBVIOUS
    <2>2. request' = [request EXCEPT ![r] = new]
        BY <1>3
    <2> HIDE DEF new
    <2> QED BY <1>1, <2>1, <2>2
<1>4. ASSUME NEW removed, NEW then,
             request' = [request EXCEPT ![r] = [at |-> at, d |-> d, fl |-> f,
                                                removed |-> removed, then |-> then]]
      PROVE  Becomes(r, at, d, f)
    <2> DEFINE new == [at |-> at, d |-> d, fl |-> f, removed |-> removed, then |-> then]
    <2>1. new.at = at /\ new.d = d /\ new.fl = f
        OBVIOUS
    <2>2. request' = [request EXCEPT ![r] = new]
        BY <1>4
    <2> HIDE DEF new
    <2> QED BY <1>1, <2>1, <2>2
<1> QED BY <1>2, <1>3, <1>4

(* The steps that neither enter nor leave a flight. *)
LEMMA Stays ==
    ASSUME FlightInv, NEW r \in Requests, NEW at, NEW d, NEW f, Becomes(r, at, d, f),
           UNCHANGED <<flight, flights>>,
           d \in Digests, at = "hit" => f = NoFlight,
           \/ request[r].at \notin Inside /\ at \notin Inside
           \/ /\ request[r].at \in Locked /\ at \in Locked
              /\ d = request[r].d /\ f = request[r].fl
    PROVE  FlightInv'
<1>0. FlightTypeOK /\ RequestsInv /\ MembersInv /\ LockInv
    BY DEF FlightInv
<1>1. /\ request'[r].at = at /\ request'[r].d = d /\ request'[r].fl = f
      /\ \A q \in Requests : q # r => request'[q] = request[q]
    BY DEF Becomes
<1>2. FlightTypeOK'
    BY <1>0 DEF FlightTypeOK, Becomes
<1>3. RequestsInv'
    BY <1>0, <1>1 DEF RequestsInv
<1>4. \A g : Members(g)' = Members(g)
    BY <1>1 DEF Members, Inside
<1>5. MembersInv'
    BY <1>0, <1>1, <1>4 DEF MembersInv, Inside
<1>6. LockInv'
    BY <1>0, <1>1 DEF LockInv, Inside
<1> QED BY <1>2, <1>3, <1>5, <1>6 DEF FlightInv

(* ... and those that end a request.                                       *)
LEMMA Ends ==
    ASSUME FlightInv, NEW r \in Requests, request[r].at \notin Inside,
           request' = [request EXCEPT ![r] = Unstarted], UNCHANGED <<flight, flights>>
    PROVE  FlightInv'
<1>0. FlightTypeOK /\ RequestsInv /\ MembersInv /\ LockInv
    BY DEF FlightInv
<1>1. /\ request'[r].at = "unstarted"
      /\ \A q \in Requests : q # r => request'[q] = request[q]
    BY <1>0 DEF FlightTypeOK, Unstarted
<1>2. FlightTypeOK'
    <2>1. request' = [q \in Requests |-> request'[q]]
        BY <1>0 DEF FlightTypeOK
    <2> QED BY <1>0, <2>1 DEF FlightTypeOK
<1>3. RequestsInv'
    BY <1>0, <1>1 DEF RequestsInv
<1>4. \A g : Members(g)' = Members(g)
    BY <1>1 DEF Members, Inside, Locked
<1>5. MembersInv' /\ LockInv'
    BY <1>0, <1>1, <1>4 DEF MembersInv, LockInv, Inside, Locked
<1> QED BY <1>2, <1>3, <1>5 DEF FlightInv

(* The requests in a flight can be counted.                                *)
LEMMA MembersFinite ==
    ASSUME NEW f
    PROVE  IsFiniteSet(Members(f)) /\ Cardinality(Members(f)) \in Nat
BY FS_Subset, FS_CardinalityType, PackCacheAssumption DEF Members

(* Who joins is counted in, in the flight that the map has or in a new     *)
(* one.                                                                    *)
LEMMA JoinKeepsFlights ==
    ASSUME FlightInv, NEW r \in Requests, Join(r)
    PROVE  FlightInv'
<1>0. FlightTypeOK /\ RequestsInv /\ MembersInv /\ LockInv
    BY DEF FlightInv
<1>1. PICK d \in Digests : d = request[r].d
    BY <1>0 DEF Join, RequestsInv
<1>2. PICK f : f = IF flights[d] = NoFlight THEN Len(flight) + 1 ELSE flights[d]
    OBVIOUS
<1>3. PICK new : new = [at |-> "wait", d |-> d, fl |-> f]
    OBVIOUS
<1>4. /\ request[r].at = "miss"
      /\ flights' = [flights EXCEPT ![d] = f]
      /\ flight' = IF f \in DOMAIN flight
                   THEN [flight EXCEPT ![f].participants = @ + 1]
                   ELSE Append(flight, [participants |-> 1, lock |-> {}])
      /\ request' = [request EXCEPT ![r] = new]
    BY <1>1, <1>2, <1>3 DEF Join
<1>5. /\ new.at = "wait" /\ new.d = d /\ new.fl = f
      /\ request'[r] = new /\ \A q \in Requests : q # r => request'[q] = request[q]
      /\ request' = [q \in Requests |-> request'[q]]
    BY <1>0, <1>3, <1>4 DEF FlightTypeOK
<1>6. /\ Len(flight) \in Nat /\ f \in 1 .. Len(flight) + 1
      /\ f \in 1 .. Len(flight) <=> flights[d] = f
      /\ f = Len(flight) + 1 => flights[d] = NoFlight
    BY <1>0, <1>2, PackCacheAssumption DEF FlightTypeOK
<1>7. /\ Members(f)' = Members(f) \cup {r} /\ r \notin Members(f)
      /\ \A g : g # f => Members(g)' = Members(g)
    BY <1>4, <1>5 DEF Members, Inside, Locked
<1>8. Cardinality(Members(f)') = Cardinality(Members(f)) + 1
    BY <1>7, MembersFinite, FS_AddElement
<1>9. f = Len(flight) + 1 => Members(f) = {}
    BY <1>0, <1>6 DEF MembersInv, Members
<1>10. /\ flight' \in Seq(Flights)
       /\ Len(flight') >= Len(flight) /\ f \in 1 .. Len(flight')
       /\ 1 .. Len(flight') \subseteq (1 .. Len(flight)) \cup {f}
       /\ flight'[f].participants = Cardinality(Members(f)')
       /\ \A g \in 1 .. Len(flight) : flight'[g].lock = flight[g].lock
       /\ \A g \in 1 .. Len(flight) : g # f => flight'[g] = flight[g]
    <2>1. CASE f \in 1 .. Len(flight)
        <3> DEFINE x == [flight[f] EXCEPT !.participants = @ + 1]
        <3>0. flight[f] \in Flights
            BY <1>0, <2>1 DEF FlightTypeOK
        <3>1. x \in Flights /\ x.participants = flight[f].participants + 1 /\ x.lock = flight[f].lock
            BY <3>0 DEF Flights
        <3>2. flight' = [flight EXCEPT ![f] = x]
            <4>1. f \in DOMAIN flight
                BY <1>0, <2>1 DEF FlightTypeOK
            <4>2. flight' = [flight EXCEPT ![f].participants = @ + 1]
                BY <1>4, <4>1, Zenon
            <4> QED BY <4>2, Zenon
        <3> HIDE DEF x
        <3>3. flight[f].participants = Cardinality(Members(f))
            BY <1>0, <2>1 DEF MembersInv
        <3>4. /\ flight' \in Seq(Flights) /\ Len(flight') = Len(flight) /\ flight'[f] = x
              /\ \A g \in 1 .. Len(flight) : g # f => flight'[g] = flight[g]
            BY <1>0, <2>1, <3>1, <3>2 DEF FlightTypeOK
        <3> QED BY <1>6, <1>8, <2>1, <3>1, <3>3, <3>4
    <2>2. CASE f = Len(flight) + 1
        <3> DEFINE x == [participants |-> 1, lock |-> {}]
        <3>1. x \in Flights /\ x.participants = 1
            BY DEF Flights
        <3>2. f \notin DOMAIN flight
            BY <1>0, <1>6, <2>2 DEF FlightTypeOK
        <3>3. flight' = Append(flight, x)
            BY <1>4, <3>2
        <3> HIDE DEF x
        <3>4. /\ flight' \in Seq(Flights) /\ Len(flight') = Len(flight) + 1 /\ flight'[f] = x
              /\ \A g \in 1 .. Len(flight) : flight'[g] = flight[g]
            BY <1>0, <2>2, <3>1, <3>3 DEF FlightTypeOK
        <3>5. Cardinality(Members(f)') = 1
            <4>1. Cardinality(Members(f)) = 0
                BY <1>9, <2>2, FS_EmptySet
            <4> QED BY <1>8, <4>1
        <3> QED BY <1>6, <2>2, <3>1, <3>4, <3>5
    <2> QED BY <1>6, <2>1, <2>2
<1>11. /\ flights' \in [Digests -> {NoFlight} \cup (1 .. Len(flight'))]
       /\ flights'[d] = f /\ \A e \in Digests : e # d => flights'[e] = flights[e]
    <2>1. 1 .. Len(flight) \subseteq 1 .. Len(flight')
        BY <1>0, <1>10 DEF FlightTypeOK
    <2> QED BY <1>0, <1>4, <1>10, <2>1 DEF FlightTypeOK
<1>12. FlightTypeOK'
    BY <1>5, <1>10, <1>11 DEF FlightTypeOK
<1>13. RequestsInv'
    BY <1>0, <1>5 DEF RequestsInv
<1>14. MembersInv'
    <2>1. \A g \in 1 .. Len(flight') : flight'[g].participants = Cardinality(Members(g)')
        BY <1>0, <1>7, <1>10 DEF MembersInv
    <2>2. ASSUME NEW q \in Requests, request'[q].at \in Inside
          PROVE  request'[q].fl \in 1 .. Len(flight') /\ flights'[request'[q].d] = request'[q].fl
        <3>1. CASE q = r
            BY <1>5, <1>10, <1>11, <3>1
        <3>2. CASE q # r
            <4>1. /\ request'[q] = request[q] /\ request[q].d \in Digests
                  /\ request[q].fl \in 1 .. Len(flight) /\ flights[request[q].d] = request[q].fl
                BY <1>0, <1>5, <2>2, <3>2 DEF MembersInv, RequestsInv, Inside, Locked
            <4>2. request[q].d = d => request[q].fl = f
                BY <1>6, <4>1, PackCacheAssumption
            <4>3. request[q].fl \in 1 .. Len(flight')
                BY <1>0, <1>10, <4>1 DEF FlightTypeOK
            <4> QED BY <1>11, <4>1, <4>2, <4>3
        <3> QED BY <3>1, <3>2
    <2> QED BY <2>1, <2>2 DEF MembersInv
<1>15. LockInv'
    BY <1>0, <1>5, <1>10 DEF LockInv, MembersInv, Inside, Locked
<1> QED BY <1>12, <1>13, <1>14, <1>15 DEF FlightInv

(* A flight's lock is taken when nobody has it. *)
LEMMA LockKeepsFlights ==
    ASSUME FlightInv, NEW r \in Requests, Lock(r)
    PROVE  FlightInv'
<1>0. FlightTypeOK /\ RequestsInv /\ MembersInv /\ LockInv
    BY DEF FlightInv
<1>1. PICK d \in Digests, f \in 1 .. Len(flight) :
         /\ d = request[r].d /\ f = request[r].fl /\ request[r].at = "wait"
         /\ flights[d] = f
    BY <1>0 DEF Lock, RequestsInv, MembersInv, Inside
<1>2. PICK at \in Locked : Becomes(r, at, d, f)
    <2>1. \/ \E arc : request' = [request EXCEPT ![r] = [at |-> "install", d |-> d, fl |-> f,
                                                          arc |-> arc]]
          \/ request' = [request EXCEPT ![r] = [at |-> "populate", d |-> d, fl |-> f]]
        BY <1>1 DEF Lock, Hold, Step
    <2> QED BY <1>0, <2>1, Moved DEF Locked
<1>3. /\ request'[r].at = at /\ request'[r].d = d /\ request'[r].fl = f
      /\ \A q \in Requests : q # r => request'[q] = request[q]
      /\ request' = [q \in Requests |-> request'[q]]
    BY <1>2 DEF Becomes
<1>4. /\ flight' \in Seq(Flights) /\ Len(flight') = Len(flight)
      /\ flight'[f].lock = {r} /\ flight[f].lock = {}
      /\ \A g \in 1 .. Len(flight) : g # f => flight'[g] = flight[g]
      /\ \A g \in 1 .. Len(flight) : flight'[g].participants = flight[g].participants
    <2> DEFINE x == [flight[f] EXCEPT !.lock = {r}]
    <2>0. flight[f] \in Flights /\ flight[f].lock = {}
        BY <1>0, <1>1 DEF FlightTypeOK, Lock
    <2>1. x \in Flights /\ x.participants = flight[f].participants /\ x.lock = {r}
        BY <2>0 DEF Flights
    <2>2. flight' = [flight EXCEPT ![f].lock = {r}]
        BY <1>1 DEF Lock
    <2>3. flight' = [flight EXCEPT ![f] = x]
        BY <2>2, Zenon
    <2> HIDE DEF x
    <2> QED BY <1>0, <2>0, <2>1, <2>3 DEF FlightTypeOK
<1>5. flights' = flights
    BY DEF Lock
<1>6. FlightTypeOK'
    BY <1>0, <1>3, <1>4, <1>5 DEF FlightTypeOK
<1>7. RequestsInv'
    BY <1>0, <1>2, <1>3 DEF RequestsInv, Locked
<1>8. \A g : Members(g)' = Members(g)
    BY <1>1, <1>2, <1>3 DEF Members, Inside
<1>9. MembersInv'
    BY <1>0, <1>1, <1>2, <1>3, <1>4, <1>5, <1>8 DEF MembersInv
<1>10. \A q \in Requests : request[q].at \in Locked => request[q].fl # f
    BY <1>0, <1>4 DEF LockInv
<1>11. LockInv'
    BY <1>0, <1>2, <1>3, <1>4, <1>10 DEF LockInv, MembersInv, Inside
<1> QED BY <1>6, <1>7, <1>9, <1>11 DEF FlightInv

(* Whoever departs gives back its own lock and its own place. *)
LEMMA DepartKeepsFlights ==
    ASSUME FlightInv, NEW r \in Requests, request[r].at \in Inside, flights' = flights,
           \E last, otherwise : /\ {last, otherwise} \subseteq {"last", "prune", "cancelled"}
                                /\ Depart(r, last, otherwise)
    PROVE  FlightInv'
<1>0. FlightTypeOK /\ RequestsInv /\ MembersInv /\ LockInv
    BY DEF FlightInv
<1>1. PICK d \in Digests, f \in 1 .. Len(flight) :
         d = request[r].d /\ f = request[r].fl /\ flights[d] = f
    BY <1>0 DEF RequestsInv, MembersInv, Inside, Locked
<1>2. PICK at \in {"last", "prune", "cancelled"} : Becomes(r, at, d, f)
    <2>1. \E at \in {"last", "prune", "cancelled"} : Step(r, at)
        BY DEF Depart
    <2>2. \E at \in {"last", "prune", "cancelled"} :
             request' = [request EXCEPT ![r] = [at |-> at, d |-> d, fl |-> f]]
        BY <1>1, <2>1 DEF Step
    <2> QED BY <1>0, <2>2, Moved
<1>3. /\ request'[r].at = at /\ request'[r].d = d /\ request'[r].fl = f
      /\ \A q \in Requests : q # r => request'[q] = request[q]
      /\ request' = [q \in Requests |-> request'[q]]
    BY <1>2 DEF Becomes
<1>4. /\ r \in Members(f) /\ Members(f)' = Members(f) \ {r}
      /\ \A g : g # f => Members(g)' = Members(g)
    BY <1>1, <1>2, <1>3 DEF Members, Inside, Locked
<1>5. /\ Cardinality(Members(f)') = Cardinality(Members(f)) - 1
      /\ Cardinality(Members(f)') \in Nat
    <2>1. IsFiniteSet(Members(f)) /\ Cardinality(Members(f)) \in Nat
        BY MembersFinite
    <2>2. IsFiniteSet(Members(f) \ {r}) /\ Cardinality(Members(f) \ {r}) = Cardinality(Members(f)) - 1
        BY <1>4, <2>1, FS_RemoveElement
    <2>3. Cardinality(Members(f) \ {r}) \in Nat
        BY <2>2, FS_CardinalityType
    <2> QED BY <1>4, <2>2, <2>3
<1>6. /\ flight' \in Seq(Flights) /\ Len(flight') = Len(flight)
      /\ flight'[f].lock = flight[f].lock \ {r}
      /\ flight'[f].participants = Cardinality(Members(f)')
      /\ \A g \in 1 .. Len(flight) : g # f => flight'[g] = flight[g]
    <2> DEFINE x == [participants |-> flight[f].participants - 1, lock |-> flight[f].lock \ {r}]
    <2>0. flight[f] \in Flights /\ flight[f].participants = Cardinality(Members(f))
        BY <1>0, <1>1 DEF FlightTypeOK, MembersInv
    <2>1. x.participants = Cardinality(Members(f)') /\ x.lock = flight[f].lock \ {r}
        BY <1>5, <2>0
    <2>2. x \in Flights
        BY <1>5, <2>0 DEF Flights
    <2>3. flight' = [flight EXCEPT ![f] = x]
        BY <1>1 DEF Depart
    <2> HIDE DEF x
    <2> QED BY <1>0, <2>1, <2>2, <2>3 DEF FlightTypeOK
<1>7. FlightTypeOK'
    BY <1>0, <1>3, <1>6 DEF FlightTypeOK
<1>8. RequestsInv'
    BY <1>0, <1>2, <1>3 DEF RequestsInv
<1>9. MembersInv'
    <2>1. \A g \in 1 .. Len(flight') : flight'[g].participants = Cardinality(Members(g)')
        BY <1>0, <1>4, <1>6 DEF MembersInv
    <2>2. \A q \in Requests : request'[q].at \in Inside =>
             request'[q].fl \in 1 .. Len(flight') /\ flights'[request'[q].d] = request'[q].fl
        BY <1>0, <1>2, <1>3, <1>6 DEF MembersInv, Inside, Locked
    <2> QED BY <2>1, <2>2 DEF MembersInv
<1>10. LockInv'
    <2> SUFFICES ASSUME NEW q \in Requests, request'[q].at \in Locked
                 PROVE  flight'[request'[q].fl].lock = {q}
        BY DEF LockInv
    <2>1. q # r
        BY <1>3 DEF Locked
    <2>2. /\ request'[q] = request[q] /\ request[q].fl \in 1 .. Len(flight)
          /\ flight[request[q].fl].lock = {q}
        BY <1>0, <1>3, <2>1 DEF LockInv, MembersInv, Inside
    <2> QED BY <1>6, <2>1, <2>2
<1> QED BY <1>7, <1>8, <1>9, <1>10 DEF FlightInv

(* A flight leaves the map only when nobody is in it. *)
LEMMA LeaveLastKeepsFlights ==
    ASSUME FlightInv, NEW r \in Requests, LeaveLast(r)
    PROVE  FlightInv'
<1>0. FlightTypeOK /\ RequestsInv /\ MembersInv /\ LockInv
    BY DEF FlightInv
<1>1. PICK d \in Digests : d = request[r].d /\ request[r].at \in {"last", "cancelled"}
    BY <1>0 DEF LeaveLast, RequestsInv
<1> DEFINE f == request[r].fl
<1>2. /\ request'[r].at = "unstarted" \/ (request'[r].at = "prune" /\ request'[r].d = d)
      /\ \A q \in Requests : q # r => request'[q] = request[q]
      /\ request' = [q \in Requests |-> request'[q]]
    <2>1. CASE request' = [request EXCEPT ![r] = [at |-> "prune", d |-> d, fl |-> f]]
        BY <1>0, <2>1, Moved DEF Becomes
    <2>2. CASE request' = [request EXCEPT ![r] = Unstarted]
        BY <1>0, <2>2 DEF FlightTypeOK, Unstarted
    <2> QED BY <1>1, <2>1, <2>2 DEF LeaveLast, Step
<1>3. flight' = flight
    BY DEF LeaveLast
<1>4. \/ flights' = flights
      \/ /\ flights' = [flights EXCEPT ![d] = NoFlight]
         /\ flights[d] = f /\ flight[f].participants = 0
    BY <1>1 DEF LeaveLast, RemoveFlight
<1>5. flights' \in [Digests -> {NoFlight} \cup (1 .. Len(flight))]
    BY <1>0, <1>4 DEF FlightTypeOK
<1>6. \A g : Members(g)' = Members(g)
    BY <1>1, <1>2 DEF Members, Inside, Locked
<1>7. FlightTypeOK' /\ RequestsInv' /\ LockInv'
    BY <1>0, <1>2, <1>3, <1>5 DEF FlightTypeOK, RequestsInv, LockInv, Locked
<1>8. ASSUME NEW q \in Requests, request'[q].at \in Inside
      PROVE  request'[q].fl \in 1 .. Len(flight') /\ flights'[request'[q].d] = request'[q].fl
    <2>1. /\ request'[q] = request[q] /\ request[q].d \in Digests /\ q \in Members(request[q].fl)
          /\ request[q].fl \in 1 .. Len(flight) /\ flights[request[q].d] = request[q].fl
        BY <1>0, <1>2, <1>8 DEF MembersInv, RequestsInv, Members, Inside, Locked
    <2>2. flight[request[q].fl].participants # 0
        BY <1>0, <2>1, MembersFinite, FS_EmptySet DEF MembersInv
    <2>3. flights'[request[q].d] = flights[request[q].d]
        BY <1>0, <1>4, <2>1, <2>2 DEF FlightTypeOK
    <2> QED BY <1>3, <2>1, <2>3
<1>9. MembersInv'
    BY <1>0, <1>3, <1>6, <1>8 DEF MembersInv
<1> QED BY <1>7, <1>9 DEF FlightInv

-----------------------------------------------------------------------------
(* All steps but Join, Lock, Leave, LeaveLast and Cancel are of this kind. *)
LEMMA OthersStay ==
    ASSUME FlightInv, NEW r \in Requests,
           \/ \E d \in Digests : Begin(r, d)
           \/ InstallHit(r) \/ InstallHitFails(r) \/ AcquirePermit(r) \/ FetchFails(r)
           \/ FetchBypass(r) \/ Publish(r) \/ InstallEntry(r) \/ Prune(r) \/ Unlink(r)
    PROVE  FlightInv'
<1>0. FlightTypeOK /\ RequestsInv
    BY DEF FlightInv
<1>1. UNCHANGED <<flight, flights>>
    BY DEF Begin, InstallHit, InstallHitFails, AcquirePermit, FetchFails, FetchBypass, Publish,
           InstallEntry, Prune, Unlink
<1>2. PICK d, f : d = request[r].d /\ f = request[r].fl
    OBVIOUS
<1>3. ASSUME NEW at \in Locked, Step(r, at) \/ \E arc : Hold(r, at, arc), request[r].at \in Locked
      PROVE  FlightInv'
    <2>1. d \in Digests
        BY <1>0, <1>2, <1>3 DEF RequestsInv, Locked
    <2>2. \/ request' = [request EXCEPT ![r] = [at |-> at, d |-> d, fl |-> f]]
          \/ \E arc : request' = [request EXCEPT ![r] = [at |-> at, d |-> d, fl |-> f, arc |-> arc]]
        BY <1>2, <1>3 DEF Step, Hold
    <2>3. Becomes(r, at, d, f)
        BY <1>0, <2>2, Moved
    <2> QED BY <1>1, <1>2, <1>3, <2>1, <2>3, Stays DEF Locked
<1>4. ASSUME NEW at, at \notin Inside \cup {"hit", "unstarted"}, Step(r, at),
             request[r].at \notin Inside, request[r].at # "unstarted"
      PROVE  FlightInv'
    <2>1. d \in Digests
        BY <1>0, <1>2, <1>4 DEF RequestsInv
    <2>2. request' = [request EXCEPT ![r] = [at |-> at, d |-> d, fl |-> f]]
        BY <1>2, <1>4 DEF Step
    <2>3. Becomes(r, at, d, f)
        BY <1>0, <2>2, Moved
    <2> QED BY <1>1, <1>4, <2>1, <2>3, Stays
<1>5. ASSUME request' = [request EXCEPT ![r] = Unstarted], request[r].at \notin Inside
      PROVE  FlightInv'
    BY <1>1, <1>5, Ends
<1>6. ASSUME NEW e \in Digests, NEW removed, NEW then, request[r].at \notin Inside,
             request' = [request EXCEPT ![r] = [at |-> "unlink", d |-> e, fl |-> NoFlight,
                                                removed |-> removed, then |-> then]]
      PROVE  FlightInv'
    <2>1. Becomes(r, "unlink", e, NoFlight)
        BY <1>0, <1>6, Moved
    <2> QED BY <1>1, <1>6, <2>1, Stays DEF Inside, Locked
<1>7. ASSUME NEW e \in Digests, Begin(r, e)
      PROVE  FlightInv'
    <2>1. PICK at \in {"hit", "miss"} : Becomes(r, at, e, NoFlight)
        <3>1. CASE Found(e)
            BY <1>0, <1>7, <3>1, Moved DEF Begin
        <3>2. CASE ~Found(e)
            BY <1>0, <1>7, <3>2, Moved DEF Begin
        <3> QED BY <3>1, <3>2
    <2>2. request[r].at = "unstarted"
        BY <1>7 DEF Begin
    <2> QED BY <1>1, <2>1, <2>2, Stays DEF Inside, Locked
<1>8. CASE InstallHit(r)
    BY <1>4, <1>8 DEF InstallHit, Inside, Locked
<1>9. CASE InstallHitFails(r)
    <2>1. request[r].at = "hit" /\ d \in Digests
        BY <1>0, <1>2, <1>9 DEF InstallHitFails, RequestsInv
    <2>2. \/ Step(r, "miss")
          \/ request' = [request EXCEPT ![r] = [at |-> "unlink", d |-> d, fl |-> NoFlight,
                                                removed |-> {d}, then |-> "miss"]]
        BY <1>2, <1>9 DEF InstallHitFails
    <2> QED BY <1>4, <1>6, <2>1, <2>2 DEF Inside, Locked
<1>10. CASE AcquirePermit(r) \/ FetchFails(r) \/ FetchBypass(r) \/ InstallEntry(r) \/ Publish(r)
    BY <1>3, <1>10 DEF AcquirePermit, FetchFails, FetchBypass, InstallEntry, Publish, Insert, Locked
<1>11. CASE Prune(r)
    <2>1. request[r].at = "prune" /\ d \in Digests
        BY <1>0, <1>2, <1>11 DEF Prune, RequestsInv
    <2>2. \/ request' = [request EXCEPT ![r] = Unstarted]
          \/ \E gone : request' = [request EXCEPT ![r] = [at |-> "unlink", d |-> d, fl |-> NoFlight,
                                                          removed |-> gone, then |-> "unstarted"]]
        BY <1>2, <1>11 DEF Prune
    <2> QED BY <1>5, <1>6, <2>1, <2>2 DEF Inside, Locked
<1>12. CASE Unlink(r)
    BY <1>4, <1>5, <1>12 DEF Unlink, Inside, Locked
<1> QED BY <1>7, <1>8, <1>9, <1>10, <1>11, <1>12

(* FlightInv holds at the start ...                                        *)
LEMMA FlightsInitially ==
    ASSUME PackCacheInit
    PROVE  FlightInv
<1>1. /\ request = [r \in Requests |-> Unstarted] /\ flight = << >>
      /\ flights = [d \in Digests |-> NoFlight]
    BY DEF PackCacheInit
<1>2. FlightTypeOK
    <2>1. request = [r \in Requests |-> request[r]]
        BY <1>1
    <2> QED BY <1>1, <2>1 DEF FlightTypeOK
<1>3. \A r \in Requests : request[r].at = "unstarted"
    BY <1>1 DEF Unstarted
<1> QED BY <1>1, <1>2, <1>3 DEF FlightInv, RequestsInv, MembersInv, LockInv, Inside, Locked

(* ... and is kept by every step.                                          *)
LEMMA FlightsInvariance ==
    ASSUME FlightInv, [PackCacheNext]_cacheVars
    PROVE  FlightInv'
<1>1. CASE UNCHANGED cacheVars
    BY <1>1 DEF cacheVars, FlightInv, FlightTypeOK, RequestsInv, MembersInv, LockInv, Members
<1>2. ASSUME NEW r \in Requests, Leave(r)
      PROVE  FlightInv'
    BY <1>2, DepartKeepsFlights DEF Leave, Inside, Locked
<1>3. ASSUME NEW r \in Requests, Cancel(r)
      PROVE  FlightInv'
    <2>0. FlightTypeOK /\ RequestsInv /\ MembersInv
        BY DEF FlightInv
    <2>1. CASE request[r].at = "hit"
        <3>1. /\ request' = [request EXCEPT ![r] = Unstarted] /\ flight' = flight /\ flights' = flights
            BY <1>3, <2>0, <2>1 DEF Cancel, RequestsInv
        <3> QED BY <2>1, <3>1, Ends DEF Inside, Locked
    <2>2. CASE request[r].at # "hit"
        <3>1. request[r].at \in Inside /\ flights' = flights
            BY <1>3, <2>2 DEF Cancel, Inside, Locked
        <3>2. request[r].fl # NoFlight
            BY <2>0, <3>1, PackCacheAssumption DEF MembersInv
        <3> QED BY <1>3, <3>1, <3>2, DepartKeepsFlights DEF Cancel
    <2> QED BY <2>1, <2>2
<1> QED BY <1>1, <1>2, <1>3, OthersStay, JoinKeepsFlights, LockKeepsFlights, LeaveLastKeepsFlights
        DEF PackCacheNext

(* Two requests never populate the cache with the same digest at the same  *)
(* time, though flights are joined, left, cancelled and removed without a  *)
(* common lock, for any requests and digests.                              *)
THEOREM OnePopulationAlways == PackCacheSpec => []OnePopulation
<1>1. PackCacheSpec => []FlightInv
    BY FlightsInitially, FlightsInvariance, PTL DEF PackCacheSpec
<1>2. FlightInv => OnePopulation
    <2> SUFFICES ASSUME FlightInv, NEW q \in Requests, NEW r \in Requests,
                        request[q].at \in Locked, request[r].at \in Locked, request[q].d = request[r].d
                 PROVE  q = r
        BY DEF OnePopulation, Locked
    <2>1. request[q].fl = request[r].fl
        BY DEF FlightInv, MembersInv, Inside
    <2> QED BY <2>1 DEF FlightInv, LockInv
<1> QED BY <1>1, <1>2, PTL

-----------------------------------------------------------------------------
(* The bytes of the cache: sums over sets of packs *)

(* Induction over sets of digests: a set of sets that is not empty has one *)
(* of which no other is a part. It is applied to sets of counterexamples.  *)
LEMMA LeastSet ==
    ASSUME NEW W \in SUBSET (SUBSET Digests), W # {}
    PROVE  \E S \in W : \A T \in W : T \subseteq S => T = S
<1>1. W \subseteq FiniteSubsetsOf(Digests)
    BY PackCacheAssumption, FS_Subset DEF FiniteSubsetsOf
<1>2. \E S \in W : \A T \in W : <<T, S>> \notin StrictSubsetOrdering(Digests)
    BY <1>1, FS_StrictSubsetOrderingWellFounded, WFMin
<1> QED BY <1>2 DEF StrictSubsetOrdering

(* The digest that BytesOf takes first. *)
Any(S) == CHOOSE d \in S : TRUE

(* It is one of the set. *)
LEMMA AnyIsOne ==
    ASSUME NEW S, S # {}
    PROVE  Any(S) \in S
BY DEF Any

(* What BytesOf is for a set, from what f is for smaller ones ... *)
SumStep(f, T) == IF T = {} THEN 0 ELSE PackBytes[Any(T)] + f[T \ {Any(T)}]

(* ... and that f is it for the subsets of S. *)
Sums(f, S) == f = [T \in SUBSET S |-> SumStep(f, T)]

(* BytesOf is such a function, if there is one: ... *)
LEMMA BytesOfIsSums ==
    ASSUME NEW f, Sums(f, Digests)
    PROVE  Sums(BytesOf, Digests)
BY DEF BytesOf, Sums, SumStep, Any

(* ... any two agree where both are defined, ... *)
LEMMA SumsAgree ==
    ASSUME NEW S \in SUBSET Digests, NEW U \in SUBSET Digests, NEW f, NEW g, Sums(f, S), Sums(g, U)
    PROVE  \A T \in SUBSET S : T \subseteq U => f[T] = g[T]
<1> DEFINE W == {T \in SUBSET S : T \subseteq U /\ f[T] # g[T]}
<1> SUFFICES ASSUME W # {} PROVE FALSE
    OBVIOUS
<1>0. W \in SUBSET (SUBSET Digests)
    OBVIOUS
<1> HIDE DEF W
<1>1. PICK T \in W : \A V \in W : V \subseteq T => V = T
    BY <1>0, LeastSet
<1> USE DEF W
<1>2. f[T] = SumStep(f, T) /\ g[T] = SumStep(g, T)
    BY DEF Sums
<1>3. T # {}
    BY <1>2 DEF SumStep
<1>4. Any(T) \in T
    BY <1>3, AnyIsOne
<1>5. f[T \ {Any(T)}] = g[T \ {Any(T)}]
    BY <1>1, <1>4
<1> QED BY <1>1, <1>2, <1>3, <1>5 DEF SumStep

(* ... so that one for a set is put together from those for its parts. *)
LEMMA SumsExist ==
    \A S \in SUBSET Digests : \E f : Sums(f, S)
<1> DEFINE W == {S \in SUBSET Digests : ~\E f : Sums(f, S)}
<1> SUFFICES ASSUME W # {} PROVE FALSE
    OBVIOUS
<1>0. W \in SUBSET (SUBSET Digests)
    OBVIOUS
<1> HIDE DEF W
<1>1. PICK S \in W : \A V \in W : V \subseteq S => V = S
    BY <1>0, LeastSet
<1> USE DEF W
<1> DEFINE h(T) == CHOOSE f : Sums(f, T)
<1>2. \A T \in SUBSET S : T # S => Sums(h(T), T)
    BY <1>1
<1> HIDE DEF h
<1> DEFINE below(T) == IF T = {} THEN 0 ELSE PackBytes[Any(T)] + h(T \ {Any(T)})[T \ {Any(T)}]
           f == [T \in SUBSET S |-> below(T)]
<1>3. ASSUME NEW T \in SUBSET S, T # S PROVE h(T)[T] = below(T)
    <2>1. Sums(h(T), T)
        BY <1>2, <1>3
    <2>2. h(T)[T] = SumStep(h(T), T)
        BY <2>1 DEF Sums
    <2>3. CASE T = {}
        BY <2>2, <2>3 DEF SumStep
    <2>4. CASE T # {}
        <3>1. Any(T) \in T
            BY <2>4, AnyIsOne
        <3>2. PICK V : V = T \ {Any(T)}
            OBVIOUS
        <3>3. V \subseteq T /\ V \subseteq S /\ V # S /\ T \in SUBSET Digests /\ V \in SUBSET Digests
            BY <3>1, <3>2
        <3>4. Sums(h(V), V)
            BY <1>2, <3>3
        <3>5. h(T)[V] = h(V)[V]
            BY <2>1, <3>3, <3>4, SumsAgree
        <3> QED BY <2>2, <2>4, <3>2, <3>5 DEF SumStep
    <2> QED BY <2>3, <2>4
<1>4. ASSUME NEW T \in SUBSET S PROVE f[T] = SumStep(f, T)
    <2>1. f[T] = below(T)
        OBVIOUS
    <2>2. CASE T = {}
        BY <2>1, <2>2 DEF SumStep
    <2>3. CASE T # {}
        <3>1. Any(T) \in T
            BY <2>3, AnyIsOne
        <3>2. PICK V : V = T \ {Any(T)}
            OBVIOUS
        <3>3. V \in SUBSET S /\ V # S
            BY <3>1, <3>2
        <3>4. h(V)[V] = below(V) /\ f[V] = below(V)
            BY <1>3, <3>3
        <3>5. below(T) = PackBytes[Any(T)] + h(V)[V]
            BY <2>3, <3>2
        <3> QED BY <2>1, <2>3, <3>2, <3>4, <3>5 DEF SumStep
    <2> QED BY <2>2, <2>3
<1> HIDE DEF below
<1>5. f = [T \in SUBSET S |-> f[T]]
    OBVIOUS
<1> HIDE DEF f
<1>6. Sums(f, S)
    BY <1>4, <1>5 DEF Sums
<1> QED BY <1>1, <1>6

(* The equation that defines BytesOf holds of it. *)
LEMMA BytesOfEquation ==
    ASSUME NEW S \in SUBSET Digests
    PROVE  BytesOf[S] = SumStep(BytesOf, S)
<1>1. \E f : Sums(f, Digests)
    BY SumsExist
<1>2. Sums(BytesOf, Digests)
    BY <1>1, BytesOfIsSums
<1> QED BY <1>2 DEF Sums

(* No packs have no bytes. *)
LEMMA BytesOfNone ==
    BytesOf[{}] = 0
BY BytesOfEquation DEF SumStep

(* A sum of packs is a number. *)
LEMMA BytesOfType ==
    \A S \in SUBSET Digests : BytesOf[S] \in Nat
<1> DEFINE W == {S \in SUBSET Digests : BytesOf[S] \notin Nat}
<1> SUFFICES ASSUME W # {} PROVE FALSE
    OBVIOUS
<1>0. W \in SUBSET (SUBSET Digests)
    OBVIOUS
<1> HIDE DEF W
<1>1. PICK S \in W : \A T \in W : T \subseteq S => T = S
    BY <1>0, LeastSet
<1> USE DEF W
<1>2. S # {}
    BY BytesOfNone
<1>3. PICK d \in Digests : d \in S /\ BytesOf[S] = PackBytes[d] + BytesOf[S \ {d}]
    BY <1>2, AnyIsOne, BytesOfEquation DEF SumStep
<1>4. BytesOf[S \ {d}] \in Nat
    BY <1>1, <1>3
<1> QED BY <1>3, <1>4, PackCacheAssumption

(* The order does not matter: any pack may be taken first. *)
LEMMA BytesOfAdd ==
    \A S \in SUBSET Digests : \A e \in Digests \ S :
        BytesOf[S \cup {e}] = PackBytes[e] + BytesOf[S]
<1> DEFINE W == {S \in SUBSET Digests : \E e \in Digests \ S :
                                            BytesOf[S \cup {e}] # PackBytes[e] + BytesOf[S]}
<1> SUFFICES ASSUME W # {} PROVE FALSE
    OBVIOUS
<1>0. W \in SUBSET (SUBSET Digests)
    OBVIOUS
<1> HIDE DEF W
<1>1. PICK S \in W : \A T \in W : T \subseteq S => T = S
    BY <1>0, LeastSet
<1> USE DEF W
<1>2. PICK e \in Digests \ S : BytesOf[S \cup {e}] # PackBytes[e] + BytesOf[S]
    OBVIOUS
<1>3. PICK U \in SUBSET Digests : U = S \cup {e}
    OBVIOUS
<1>4. PICK d \in U : BytesOf[U] = PackBytes[d] + BytesOf[U \ {d}]
    <2>1. U # {}
        BY <1>3
    <2> QED BY <2>1, AnyIsOne, BytesOfEquation DEF SumStep
<1>5. CASE d = e
    <2>1. U \ {d} = S
        BY <1>3, <1>5
    <2> QED BY <1>2, <1>3, <1>4, <1>5, <2>1
<1>6. CASE d # e
    <2>1. PICK T \in SUBSET Digests : T = S \ {d}
        OBVIOUS
    <2>2. /\ d \in S /\ e \in Digests \ T /\ d \in Digests \ T /\ T \notin W
          /\ U \ {d} = T \cup {e} /\ S = T \cup {d}
        BY <1>1, <1>2, <1>3, <1>6, <2>1
    <2>3. /\ BytesOf[T \cup {e}] = PackBytes[e] + BytesOf[T]
          /\ BytesOf[T \cup {d}] = PackBytes[d] + BytesOf[T]
        BY <2>2
    <2>4. BytesOf[T] \in Nat /\ PackBytes[d] \in Nat /\ PackBytes[e] \in Nat
        BY <2>1, <2>2, BytesOfType, PackCacheAssumption
    <2>5. BytesOf[S \cup {e}] = PackBytes[d] + BytesOf[U \ {d}]
        BY <1>3, <1>4
    <2>6. BytesOf[U \ {d}] = PackBytes[e] + BytesOf[T] /\ BytesOf[S] = PackBytes[d] + BytesOf[T]
        BY <2>2, <2>3
    <2> QED BY <1>2, <2>4, <2>5, <2>6
<1> QED BY <1>5, <1>6

(* What remains when some are taken away. *)
LEMMA BytesOfRest ==
    ASSUME NEW S \in SUBSET Digests
    PROVE  \A G \in SUBSET S : BytesOf[S \ G] = BytesOf[S] - BytesOf[G]
<1> DEFINE W == {G \in SUBSET S : BytesOf[S \ G] # BytesOf[S] - BytesOf[G]}
<1> SUFFICES ASSUME W # {} PROVE FALSE
    OBVIOUS
<1>0. W \in SUBSET (SUBSET Digests)
    OBVIOUS
<1> HIDE DEF W
<1>1. PICK G \in W : \A T \in W : T \subseteq G => T = G
    BY <1>0, LeastSet
<1> USE DEF W
<1>2. BytesOf[S] \in Nat
    BY BytesOfType
<1>3. G # {}
    <2>1. BytesOf[S \ {}] = BytesOf[S]
        <3>1. S \ {} = S
            OBVIOUS
        <3> QED BY <3>1
    <2>2. BytesOf[S] - BytesOf[{}] = BytesOf[S]
        BY <1>2, BytesOfNone
    <2>3. BytesOf[S \ G] # BytesOf[S] - BytesOf[G]
        OBVIOUS
    <2> HIDE DEF W
    <2> QED BY <2>1, <2>2, <2>3
<1>4. PICK d \in G : TRUE
    BY <1>3
<1>5. PICK T \in SUBSET Digests, V \in SUBSET Digests : T = G \ {d} /\ V = S \ G
    OBVIOUS
<1>6. /\ T \in SUBSET S /\ T \subseteq G /\ T # G /\ d \in Digests \ T /\ d \in Digests \ V
      /\ G = T \cup {d} /\ S \ T = V \cup {d}
    BY <1>4, <1>5
<1>7. /\ BytesOf[G] = PackBytes[d] + BytesOf[T] /\ BytesOf[S \ T] = PackBytes[d] + BytesOf[V]
    BY <1>5, <1>6, BytesOfAdd
<1>8. BytesOf[S \ T] = BytesOf[S] - BytesOf[T]
    BY <1>1, <1>6
<1>9. BytesOf[T] \in Nat /\ BytesOf[V] \in Nat /\ PackBytes[d] \in Nat
    BY <1>5, <1>6, BytesOfType, PackCacheAssumption
<1>10. BytesOf[S \ G] # BytesOf[S] - BytesOf[G] /\ BytesOf[S \ G] = BytesOf[V]
    BY <1>5
<1> QED BY <1>2, <1>7, <1>8, <1>9, <1>10

(* One pack has its own bytes. *)
LEMMA BytesOfOne ==
    ASSUME NEW d \in Digests
    PROVE  BytesOf[{d}] = PackBytes[d]
<1>1. {d} = {} \cup {d} /\ {} \in SUBSET Digests /\ d \in Digests \ {}
    OBVIOUS
<1>2. BytesOf[{d}] = PackBytes[d] + BytesOf[{}]
    BY <1>1, BytesOfAdd
<1> QED BY <1>2, BytesOfNone, PackCacheAssumption

-----------------------------------------------------------------------------
(* The bytes and the bound of the cache *)

(* The records are of digests, last used at a tick that has been, and      *)
(* their bytes are counted.                                                *)
EntriesInv ==
    /\ tick \in Nat
    /\ DOMAIN entries \subseteq Digests
    /\ \A d \in DOMAIN entries : entries[d].last_used \in 0 .. tick
    /\ BytesAccounted

(* A request that will still prune, unless its client goes away.           *)
Due(r) ==
    \/ request[r].at \in {"hit", "miss", "wait", "populate", "fetch", "install", "leave", "last", "prune"}
    \/ request[r].at = "unlink" /\ request[r].then = "miss"

(* Whoever holds what keeps the cache above its bound is one.              *)
BoundInv == total_bytes > MaxBytes /\ ~unpruned => \E r \in Requests : Due(r)

(* Fewer records, with what is left of the bytes. *)
LEMMA RemovalKeepsEntries ==
    ASSUME EntriesInv, NEW gone, gone \subseteq DOMAIN entries,
           entries' = [d \in DOMAIN entries \ gone |-> entries[d]],
           total_bytes' = total_bytes - BytesOf[gone], tick' = tick
    PROVE  EntriesInv'
<1>1. /\ DOMAIN entries' = DOMAIN entries \ gone
      /\ \A d \in DOMAIN entries' : d \in DOMAIN entries /\ entries'[d] = entries[d]
    OBVIOUS
<1>2. total_bytes' = BytesOf[DOMAIN entries']
    <2>1. total_bytes = BytesOf[DOMAIN entries] /\ DOMAIN entries \in SUBSET Digests
        BY DEF EntriesInv, BytesAccounted
    <2> QED BY <1>1, <2>1, BytesOfRest
<1>3. BytesAccounted'
    BY <1>1, <1>2 DEF EntriesInv, BytesAccounted
<1> QED BY <1>1, <1>3 DEF EntriesInv

(* A record that is removed takes its own bytes along. *)
LEMMA ForgetKeepsEntries ==
    ASSUME EntriesInv, NEW d \in DOMAIN entries, Forget(d), tick' = tick
    PROVE  EntriesInv'
<1>1. entries' = [x \in DOMAIN entries \ {d} |-> entries[x]]
    BY DEF Forget, Without
<1>2. total_bytes' = total_bytes - BytesOf[{d}]
    BY BytesOfOne DEF Forget, EntriesInv
<1> QED BY <1>1, <1>2, RemovalKeepsEntries

(* A lookup stamps a record with a tick that none has yet. *)
LEMMA LookupKeepsEntries ==
    ASSUME EntriesInv, NEW d, Lookup(d), total_bytes' = total_bytes
    PROVE  EntriesInv'
<1>1. tick \in Nat /\ tick' = tick + 1
    BY DEF EntriesInv, Lookup
<1>2. /\ DOMAIN entries' = DOMAIN entries
      /\ \A x \in DOMAIN entries : \/ entries'[x].last_used = entries[x].last_used
                                   \/ x = d /\ entries'[x].last_used = tick'
    <2>1. CASE Found(d)
        <3>1. PICK new : new = [entry |-> entries[d].entry, last_used |-> tick + 1]
            OBVIOUS
        <3>2. entries' = [entries EXCEPT ![d] = new] /\ new.last_used = tick'
            BY <1>1, <2>1, <3>1 DEF Lookup
        <3> QED BY <3>2
    <2>2. CASE ~Found(d)
        BY <2>2 DEF Lookup
    <2> QED BY <2>1, <2>2
<1>3. \A x \in DOMAIN entries : entries[x].last_used \in 0 .. tick
    BY DEF EntriesInv
<1>4. BytesAccounted'
    BY <1>1, <1>2, <1>3 DEF EntriesInv, BytesAccounted
<1>5. \A x \in DOMAIN entries' : entries'[x].last_used \in 0 .. tick'
    BY <1>1, <1>2, <1>3
<1> QED BY <1>1, <1>2, <1>4, <1>5 DEF EntriesInv

(* An insertion too, and counts a pack that was not there. *)
LEMMA InsertKeepsEntries ==
    ASSUME EntriesInv, NEW r, NEW d \in Digests, Insert(r, d)
    PROVE  EntriesInv'
<1>1. tick \in Nat /\ tick' = tick + 1
    BY DEF EntriesInv, Insert
<1>2. PICK new : new = [entry |-> arcs + 1, last_used |-> tick + 1]
    OBVIOUS
<1>3. /\ entries' = [x \in DOMAIN entries \cup {d} |-> IF x = d THEN new ELSE entries[x]]
      /\ new.last_used = tick'
    BY <1>1, <1>2 DEF Insert
<1>4. /\ DOMAIN entries' = DOMAIN entries \cup {d} /\ entries'[d].last_used = tick'
      /\ \A x \in DOMAIN entries' : x # d => x \in DOMAIN entries /\ entries'[x] = entries[x]
    BY <1>3
<1>5. \A x \in DOMAIN entries : entries[x].last_used \in 0 .. tick
    BY DEF EntriesInv
<1>6. total_bytes' = BytesOf[DOMAIN entries']
    <2>1. total_bytes = BytesOf[DOMAIN entries] /\ DOMAIN entries \in SUBSET Digests
        BY DEF EntriesInv, BytesAccounted
    <2>2. CASE d \in DOMAIN entries
        <3>1. DOMAIN entries' = DOMAIN entries
            BY <1>4, <2>2
        <3> QED BY <2>1, <2>2, <3>1 DEF Insert
    <2>3. CASE d \notin DOMAIN entries
        <3>1. BytesOf[DOMAIN entries \cup {d}] = PackBytes[d] + BytesOf[DOMAIN entries]
            BY <2>1, <2>3, BytesOfAdd
        <3>2. BytesOf[DOMAIN entries] \in Nat /\ PackBytes[d] \in Nat
            BY <2>1, BytesOfType, PackCacheAssumption
        <3>3. total_bytes' = total_bytes + PackBytes[d]
            BY <2>3 DEF Insert
        <3> QED BY <1>4, <2>1, <3>1, <3>2, <3>3
    <2> QED BY <2>2, <2>3
<1>7. BytesAccounted'
    BY <1>1, <1>4, <1>5, <1>6 DEF EntriesInv, BytesAccounted
<1>8. \A x \in DOMAIN entries' : entries'[x].last_used \in 0 .. tick'
    BY <1>1, <1>4, <1>5
<1> QED BY <1>1, <1>4, <1>7, <1>8 DEF EntriesInv

(* What is evicted was evictable. *)
LEMMA EvictedAreEvictable ==
    Evicted \subseteq Evictable /\ Evictable \subseteq DOMAIN entries
BY DEF Evicted, Evictable

(* Every step keeps the records and their bytes. *)
LEMMA EntriesInvariance ==
    ASSUME FlightInv, EntriesInv, [PackCacheNext]_cacheVars
    PROVE  EntriesInv'
<1>1. ASSUME UNCHANGED <<entries, tick, total_bytes>>
      PROVE  EntriesInv'
    BY <1>1 DEF EntriesInv, BytesAccounted
<1>2. ASSUME NEW r \in Requests, Lock(r) \/ \E d \in Digests : Begin(r, d)
      PROVE  EntriesInv'
    BY <1>2, LookupKeepsEntries DEF Lock, Begin
<1>3. ASSUME NEW r \in Requests, InstallHitFails(r)
      PROVE  EntriesInv'
    <2>1. PICK d : d = request[r].d
        OBVIOUS
    <2>2. \/ d \in DOMAIN entries /\ Forget(d)
          \/ UNCHANGED <<entries, total_bytes>>
        BY <1>3, <2>1 DEF InstallHitFails
    <2>3. tick' = tick
        BY <1>3 DEF InstallHitFails
    <2> QED BY <1>1, <2>2, <2>3, ForgetKeepsEntries
<1>4. ASSUME NEW r \in Requests, Publish(r)
      PROVE  EntriesInv'
    <2>1. request[r].d \in Digests /\ Insert(r, request[r].d)
        BY <1>4 DEF Publish, FlightInv, RequestsInv
    <2> QED BY <2>1, InsertKeepsEntries
<1>5. ASSUME NEW r \in Requests, Prune(r)
      PROVE  EntriesInv'
    <2>1. PICK gone : gone = Evicted
        OBVIOUS
    <2>2. /\ entries' = [d \in DOMAIN entries \ gone |-> entries[d]]
          /\ total_bytes' = total_bytes - BytesOf[gone] /\ tick' = tick
        BY <1>5, <2>1 DEF Prune
    <2>3. gone \subseteq DOMAIN entries
        BY <2>1, EvictedAreEvictable
    <2> QED BY <2>2, <2>3, RemovalKeepsEntries
<1>6. ASSUME NEW r \in Requests,
             \/ InstallHit(r) \/ Join(r) \/ AcquirePermit(r) \/ FetchFails(r) \/ FetchBypass(r)
             \/ InstallEntry(r) \/ Leave(r) \/ LeaveLast(r) \/ Cancel(r) \/ Unlink(r)
      PROVE  EntriesInv'
    BY <1>1, <1>6 DEF InstallHit, Join, AcquirePermit, FetchFails, FetchBypass, InstallEntry, Leave,
                      LeaveLast, Cancel, Unlink
<1>7. CASE UNCHANGED cacheVars
    BY <1>1, <1>7 DEF cacheVars
<1> QED BY <1>2, <1>3, <1>4, <1>5, <1>6, <1>7 DEF PackCacheNext

(* A prune that leaves the cache above its bound has left nothing that no  *)
(* request holds.                                                          *)
LEMMA PruneLeavesHeld ==
    ASSUME EntriesInv, total_bytes - BytesOf[Evicted] > MaxBytes
    PROVE  /\ DOMAIN entries # Evicted
           /\ \A d \in DOMAIN entries \ Evicted : \E q \in Requests : Holds(q, entries[d].entry)
<1> DEFINE older(d) == {x \in Evictable : entries[x].last_used < entries[d].last_used}
<1>0. /\ DOMAIN entries \in SUBSET Digests /\ Evictable \in SUBSET Digests
      /\ Evicted \in SUBSET Digests /\ Evicted \subseteq Evictable
    BY EvictedAreEvictable DEF EntriesInv
<1>1. /\ total_bytes = BytesOf[DOMAIN entries] /\ total_bytes \in Nat /\ BytesOf[Evicted] \in Nat
      /\ MaxBytes \in Nat
    BY <1>0, BytesOfType, PackCacheAssumption DEF EntriesInv, BytesAccounted
<1>2. \A d \in DOMAIN entries : entries[d].last_used \in Nat
    BY DEF EntriesInv
<1>3. DOMAIN entries # Evicted
    BY <1>1
<1>4. ASSUME Evictable \ Evicted # {}
      PROVE  FALSE
    <2>1. PICK W : W = {older(d) : d \in Evictable \ Evicted}
        OBVIOUS
    <2>2. W \in SUBSET (SUBSET Digests) /\ W # {}
        BY <1>0, <1>4, <2>1
    <2>3. PICK S \in W : \A T \in W : T \subseteq S => T = S
        BY <2>2, LeastSet
    <2>4. PICK d \in Evictable \ Evicted : S = older(d)
        BY <2>1
    <2>5. older(d) \subseteq Evicted
        <3> SUFFICES ASSUME NEW x \in older(d), x \notin Evicted
                     PROVE  FALSE
            OBVIOUS
        <3>1. x \in Evictable \ Evicted /\ x \in DOMAIN entries /\ d \in DOMAIN entries
            BY <2>4, EvictedAreEvictable
        <3>2. older(x) \in W
            BY <2>1, <3>1
        <3>3. older(x) \subseteq older(d) /\ x \notin older(x)
            BY <1>2, <3>1, EvictedAreEvictable
        <3> QED BY <2>3, <2>4, <3>2, <3>3
    <2>6. total_bytes - BytesOf[older(d)] <= MaxBytes
        <3>1. ~(total_bytes - BytesOf[older(d)] > MaxBytes)
            BY <2>4 DEF Evicted
        <3>2. BytesOf[older(d)] \in Nat
            BY <1>0, BytesOfType
        <3> QED BY <1>1, <3>1, <3>2
    <2>7. BytesOf[older(d)] <= BytesOf[Evicted]
        <3>1. PICK o \in SUBSET Evicted : o = older(d)
            BY <2>5
        <3>2. BytesOf[Evicted \ o] = BytesOf[Evicted] - BytesOf[o]
            BY <1>0, BytesOfRest
        <3>3. BytesOf[Evicted \ o] \in Nat /\ BytesOf[o] \in Nat
            BY <1>0, BytesOfType
        <3>4. BytesOf[o] <= BytesOf[Evicted]
            BY <1>1, <3>2, <3>3
        <3> QED BY <3>1, <3>4
    <2>8. BytesOf[older(d)] \in Nat
        BY <1>0, BytesOfType
    <2> HIDE DEF older
    <2> QED BY <1>1, <2>6, <2>7, <2>8
<1> QED BY <1>3, <1>4 DEF Evictable

(* A step of a request that neither prunes nor is dropped leaves it due,   *)
(* or it was not and no byte was added.                                    *)
LEMMA StaysDue ==
    ASSUME FlightTypeOK, NEW r \in Requests,
           \/ \E d \in Digests : Begin(r, d)
           \/ InstallHit(r) \/ InstallHitFails(r) \/ Join(r) \/ Lock(r) \/ AcquirePermit(r)
           \/ FetchFails(r) \/ FetchBypass(r) \/ Publish(r) \/ InstallEntry(r) \/ Leave(r)
           \/ LeaveLast(r) \/ Unlink(r)
    PROVE  /\ \A q \in Requests : q # r => request'[q] = request[q]
           /\ Due(r)' \/ (~Due(r) /\ total_bytes' = total_bytes)
<1>1. ASSUME NEW new, request' = [request EXCEPT ![r] = new],
             \/ new.at \in {"hit", "miss", "wait", "populate", "fetch", "install", "leave", "last", "prune"}
             \/ new.at = "unlink" /\ new.then = "miss"
      PROVE  (\A q \in Requests : q # r => request'[q] = request[q]) /\ Due(r)'
    <2>1. request'[r] = new /\ \A q \in Requests : q # r => request'[q] = request[q]
        BY <1>1 DEF FlightTypeOK
    <2> QED BY <1>1, <2>1 DEF Due
<1>2. ASSUME NEW at \in {"miss", "populate", "fetch", "leave", "last", "prune"}, Step(r, at)
      PROVE  (\A q \in Requests : q # r => request'[q] = request[q]) /\ Due(r)'
    <2>1. PICK new : new = [at |-> at, d |-> request[r].d, fl |-> request[r].fl]
        OBVIOUS
    <2>2. request' = [request EXCEPT ![r] = new] /\ new.at = at
        BY <1>2, <2>1 DEF Step
    <2> QED BY <1>1, <2>2
<1>3. ASSUME NEW arc, Hold(r, "install", arc)
      PROVE  (\A q \in Requests : q # r => request'[q] = request[q]) /\ Due(r)'
    <2>1. PICK new : new = [at |-> "install", d |-> request[r].d, fl |-> request[r].fl, arc |-> arc]
        OBVIOUS
    <2>2. request' = [request EXCEPT ![r] = new] /\ new.at = "install"
        BY <1>3, <2>1 DEF Hold
    <2> QED BY <1>1, <2>2
<1>4. ASSUME request' = [request EXCEPT ![r] = Unstarted]
      PROVE  \A q \in Requests : q # r => request'[q] = request[q]
    BY <1>4 DEF FlightTypeOK
<1>5. ASSUME NEW d \in Digests, Begin(r, d)
      PROVE  (\A q \in Requests : q # r => request'[q] = request[q]) /\ Due(r)'
    <2>1. PICK hit, miss : /\ hit = [at |-> "hit", d |-> d, fl |-> NoFlight, arc |-> entries[d].entry]
                           /\ miss = [at |-> "miss", d |-> d, fl |-> NoFlight]
        OBVIOUS
    <2>2. /\ hit.at = "hit" /\ miss.at = "miss"
          /\ request' = [request EXCEPT ![r] = hit] \/ request' = [request EXCEPT ![r] = miss]
        BY <1>5, <2>1 DEF Begin
    <2> QED BY <1>1, <2>2
<1>6. CASE InstallHitFails(r)
    <2>1. PICK d, new : /\ d = request[r].d
                        /\ new = [at |-> "unlink", d |-> d, fl |-> NoFlight, removed |-> {d}, then |-> "miss"]
        OBVIOUS
    <2>2. /\ new.at = "unlink" /\ new.then = "miss"
          /\ Step(r, "miss") \/ request' = [request EXCEPT ![r] = new]
        BY <1>6, <2>1 DEF InstallHitFails
    <2> QED BY <1>1, <1>2, <2>2
<1>7. CASE Join(r)
    <2>1. PICK d, f : /\ d = request[r].d
                      /\ f = IF flights[d] = NoFlight THEN Len(flight) + 1 ELSE flights[d]
        OBVIOUS
    <2>2. PICK new : new = [at |-> "wait", d |-> d, fl |-> f]
        OBVIOUS
    <2>3. request' = [request EXCEPT ![r] = new] /\ new.at = "wait"
        BY <1>7, <2>1, <2>2 DEF Join
    <2> QED BY <1>1, <2>3
<1>8. CASE Lock(r)
    BY <1>2, <1>3, <1>8 DEF Lock
<1>9. CASE Leave(r)
    BY <1>2, <1>9 DEF Leave, Depart
<1>10. CASE InstallHit(r) \/ AcquirePermit(r) \/ FetchFails(r) \/ FetchBypass(r) \/ InstallEntry(r)
    BY <1>2, <1>10 DEF InstallHit, AcquirePermit, FetchFails, FetchBypass, InstallEntry
<1>11. CASE Publish(r)
    BY <1>3, <1>11 DEF Publish, Insert
<1>12. CASE LeaveLast(r)
    BY <1>2, <1>4, <1>12 DEF LeaveLast, Due
<1>13. CASE Unlink(r)
    BY <1>2, <1>4, <1>13 DEF Unlink, Due
<1> QED BY <1>5, <1>6, <1>7, <1>8, <1>9, <1>10, <1>11, <1>12, <1>13

(* After a prune that was not enough, a holder is due. *)
LEMMA PruneKeepsBound ==
    ASSUME FlightInv, EntriesInv, NEW r \in Requests, Prune(r)
    PROVE  BoundInv'
<1>1. PICK gone : gone = Evicted
    OBVIOUS
<1>2. total_bytes' = total_bytes - BytesOf[gone] /\ request[r].at = "prune"
    BY <1>1 DEF Prune
<1>3. \A q \in Requests : q # r => request'[q] = request[q]
    BY DEF Prune, FlightInv, FlightTypeOK
<1>4. ASSUME total_bytes' > MaxBytes
      PROVE  \E q \in Requests : Due(q)'
    <2>1. PICK d \in DOMAIN entries \ Evicted : TRUE
        BY <1>1, <1>2, <1>4, PruneLeavesHeld, EvictedAreEvictable
    <2>2. PICK q \in Requests : Holds(q, entries[d].entry)
        BY <1>1, <1>2, <1>4, <2>1, PruneLeavesHeld
    <2>3. request[q].at \in {"hit", "install"}
        BY <2>2 DEF Holds
    <2> QED BY <1>2, <1>3, <2>3 DEF Due
<1> QED BY <1>4 DEF BoundInv

(* Every step leaves a cache that is above its bound to a request that     *)
(* will prune it.                                                          *)
LEMMA BoundInvariance ==
    ASSUME FlightInv, EntriesInv, BoundInv, [PackCacheNext]_cacheVars
    PROVE  BoundInv'
<1>1. CASE UNCHANGED cacheVars
    BY <1>1 DEF cacheVars, BoundInv, Due
<1>2. ASSUME NEW r \in Requests, Cancel(r)
      PROVE  BoundInv'
    BY <1>2 DEF Cancel, BoundInv
<1>3. ASSUME NEW r \in Requests,
             \/ \E d \in Digests : Begin(r, d)
             \/ InstallHit(r) \/ InstallHitFails(r) \/ Join(r) \/ Lock(r) \/ AcquirePermit(r)
             \/ FetchFails(r) \/ FetchBypass(r) \/ Publish(r) \/ InstallEntry(r) \/ Leave(r)
             \/ LeaveLast(r) \/ Unlink(r)
      PROVE  BoundInv'
    <2>1. unpruned' = unpruned
        BY <1>3 DEF Begin, InstallHit, InstallHitFails, Join, Lock, AcquirePermit, FetchFails,
                    FetchBypass, Publish, InstallEntry, Leave, LeaveLast, Unlink
    <2>2. /\ \A q \in Requests : q # r => request'[q] = request[q]
          /\ Due(r)' \/ (~Due(r) /\ total_bytes' = total_bytes)
        BY <1>3, StaysDue DEF FlightInv
    <2>3. \A q \in Requests : q # r /\ Due(q) => Due(q)'
        BY <2>2 DEF Due
    <2> QED BY <2>1, <2>2, <2>3 DEF BoundInv
<1> QED BY <1>1, <1>2, <1>3, PruneKeepsBound DEF PackCacheNext

(* The inductive invariant of the cache. *)
CacheInv == FlightInv /\ EntriesInv /\ BoundInv

(* CacheInv holds of every behaviour. *)
LEMMA CacheInvAlways == PackCacheSpec => []CacheInv
<1>1. PackCacheInit => CacheInv
    <2> SUFFICES ASSUME PackCacheInit
                 PROVE  CacheInv
        OBVIOUS
    <2>1. FlightInv
        BY FlightsInitially
    <2>2. DOMAIN entries = {} /\ tick = 0 /\ total_bytes = 0
        BY DEF PackCacheInit
    <2>3. EntriesInv
        BY <2>2, BytesOfNone DEF EntriesInv, BytesAccounted
    <2>4. BoundInv
        BY <2>2, PackCacheAssumption DEF BoundInv
    <2> QED BY <2>1, <2>3, <2>4 DEF CacheInv
<1>2. CacheInv /\ [PackCacheNext]_cacheVars => CacheInv'
    BY FlightsInvariance, EntriesInvariance, BoundInvariance DEF CacheInv
<1> QED BY <1>1, <1>2, PTL DEF PackCacheSpec

(* The count of bytes in the cache's state is the sum over its records,    *)
(* over lookups, replacements, invalidations and evictions in any order,   *)
(* and no two records share the tick by which prune chooses, for any       *)
(* requests, digests and sizes.                                            *)
THEOREM BytesAlwaysAccounted == PackCacheSpec => []BytesAccounted
<1>1. CacheInv => BytesAccounted
    BY DEF CacheInv, EntriesInv
<1> QED BY <1>1, CacheInvAlways, PTL

(* The cache at rest is within its bound, unless a client went away since  *)
(* the last prune: an entry that its holder keeps from being evicted is    *)
(* evicted by the holder's own prune, or a later one's.                    *)
THEOREM BoundHoldsAtRest == PackCacheSpec => []WithinBoundAtRest
<1>1. CacheInv => WithinBoundAtRest
    <2> SUFFICES ASSUME CacheInv, \A r \in Requests : request[r] = Unstarted, ~unpruned
                 PROVE  total_bytes <= MaxBytes
        BY DEF WithinBoundAtRest
    <2>1. total_bytes \in Nat /\ MaxBytes \in Nat
        BY BytesOfType, PackCacheAssumption DEF CacheInv, EntriesInv, BytesAccounted
    <2>2. \A r \in Requests : ~Due(r)
        BY DEF Due, Unstarted
    <2> QED BY <2>1, <2>2 DEF CacheInv, BoundInv
<1> QED BY <1>1, CacheInvAlways, PTL

-----------------------------------------------------------------------------
(* Final delivery: FinalDelivery *)

(* The records of the outbox, and what a courier carries.                  *)
Records == [state : {"Pending", "AwaitingRetry", "Accepted", "TerminalFailed"},
            attempts : Nat, sources : SUBSET Sources]

Deliveries == {NoDelivery} \cup [at : {"loop"}, reply : ReplyIds]
              \cup [at : {"send", "submit", "stored", "lost"}, reply : ReplyIds, record : Records]

(* The types of the variables.                                             *)
DeliveryTypeOK ==
    /\ source \in [Sources -> {"away", "queued", "taken", "done"}]
    /\ turn \in [Turns -> [batch : SUBSET Sources, steered : SUBSET Sources]]
    /\ disk \in [ReplyIds -> Records \cup {NoRecord, Corrupt}]
    /\ index \in [ReplyIds -> Records \cup {NoRecord}]
    /\ courier \in [DeliveryTasks -> Deliveries]
    /\ answers \in [ReplyIds -> SUBSET Sources]

(* The index has a record of the reply.                                    *)
Claims(r) == index[r] # NoRecord

(* The index has what the disk has, but for the states; a record names the *)
(* events of its reply.                                                    *)
RecordsInv ==
    \A r \in ReplyIds :
        /\ Claims(r) <=> disk[r] \notin {NoRecord, Corrupt}
        /\ Claims(r) => /\ index[r].sources = answers[r] /\ disk[r].sources = answers[r]
                        /\ disk[r].attempts = index[r].attempts

(* Who delivers, delivers what the index has, and what is on the relay was *)
(* written; ...                                                            *)
CouriersInv ==
    /\ \A d \in DeliveryTasks : courier[d] # NoDelivery =>
          /\ Claims(courier[d].reply)
          /\ courier[d].at # "loop" => courier[d].record.sources = answers[courier[d].reply]
    /\ backlog # NotStarted => \A r \in backlog : r \in ReplyIds /\ Claims(r)
    /\ \A r \in onRelay : r \in ReplyIds /\ disk[r] # NoRecord

(* ... and an event that waits or is taken is in no record, and is taken   *)
(* by one turn only.                                                       *)
SourcesInv ==
    /\ \A t \in Turns : \A s \in Answered(t) : source[s] = "taken"
    /\ \A t, u \in Turns : t # u => Answered(t) \cap Answered(u) = {}
    /\ \A s \in Sources : source[s] \in {"queued", "taken"} =>
          \A r \in ReplyIds : Claims(r) => s \notin answers[r]
    /\ \A r, q \in ReplyIds : r # q /\ Claims(r) /\ Claims(q) => answers[r] \cap answers[q] = {}

(* The inductive invariant of the fence.                                   *)
DeliveryInv == DeliveryTypeOK /\ RecordsInv /\ CouriersInv /\ SourcesInv

(* A record is not one of the two values that stand for none.              *)
LEMMA RecordsAreRecords ==
    /\ NoRecord \notin Records /\ Corrupt \notin Records /\ NoRecord # Corrupt
    /\ \A x \in Records : Retryable(x) <=> x.state \in {"Pending", "AwaitingRetry"}
    /\ ~Retryable(NoRecord)
    /\ \A x \in Records : Terminalized(x) \in Records /\ Terminalized(x).sources = x.sources
                          /\ Terminalized(x).attempts = x.attempts
BY DEF NoRecord, Corrupt, Records, Retryable, Terminalized

(* The record with one attempt more.                                       *)
LEMMA CountedRecord ==
    ASSUME NEW x \in Records
    PROVE  [x EXCEPT !.attempts = @ + 1, !.state = "Pending"]
             = [state |-> "Pending", attempts |-> x.attempts + 1, sources |-> x.sources]
<1>1. x = [state |-> x.state, attempts |-> x.attempts, sources |-> x.sources]
    BY DEF Records
<1> DEFINE y == [x EXCEPT !.attempts = @ + 1]
<1>2. y = [state |-> x.state, attempts |-> x.attempts + 1, sources |-> x.sources]
    BY <1>1
<1> HIDE DEF y
<1>3. [y EXCEPT !.state = "Pending"]
         = [state |-> "Pending", attempts |-> x.attempts + 1, sources |-> x.sources]
    BY <1>2
<1> QED BY <1>3, Zenon DEF y

(* contains_source_event finds the events of the replies in the index.     *)
LEMMA FencedIsClaimed ==
    ASSUME DeliveryInv, NEW s
    PROVE  Fenced(s) <=> \E r \in ReplyIds : Claims(r) /\ s \in answers[r]
<1>1. \A r \in ReplyIds : index[r] \notin {NoRecord, Corrupt} <=> Claims(r)
    BY RecordsAreRecords DEF DeliveryInv, DeliveryTypeOK, Claims
<1>2. \A r \in ReplyIds : Claims(r) => index[r].sources = answers[r]
    BY DEF DeliveryInv, RecordsInv
<1> QED BY <1>1, <1>2 DEF Fenced, SourcesOf

(* A turn that is over gives its events back, or is done with them. *)
LEMMA TurnIsOver ==
    ASSUME DeliveryInv, NEW t \in Turns, NEW fate \in {"queued", "done"}, LeaveTurn(t, fate)
    PROVE  /\ source' \in [Sources -> {"away", "queued", "taken", "done"}]
           /\ turn' \in [Turns -> [batch : SUBSET Sources, steered : SUBSET Sources]]
           /\ Answered(t)' = {} /\ \A u \in Turns : u # t => Answered(u)' = Answered(u)
           /\ Answered(t) \subseteq Sources
           /\ \A s \in Answered(t) : source'[s] \in {fate, "done"} /\ source[s] = "taken"
           /\ \A s \in Sources \ Answered(t) : source'[s] = source[s]
           /\ \A u \in Turns : \A s \in Answered(u)' : source'[s] = "taken"
           /\ \A u, v \in Turns : u # v => Answered(u)' \cap Answered(v)' = {}
<1>1. /\ source \in [Sources -> {"away", "queued", "taken", "done"}]
      /\ turn \in [Turns -> [batch : SUBSET Sources, steered : SUBSET Sources]]
      /\ SourcesInv
    BY DEF DeliveryInv, DeliveryTypeOK
<1>2. /\ turn' = [turn EXCEPT ![t] = NoTurn]
      /\ source' = [s \in Sources |-> IF s \in turn[t].batch THEN fate
                                      ELSE IF s \in turn[t].steered THEN "done" ELSE source[s]]
    BY DEF LeaveTurn
<1>3. NoTurn \in [batch : SUBSET Sources, steered : SUBSET Sources]
      /\ NoTurn.batch \cup NoTurn.steered = {}
    BY DEF NoTurn
<1>4. /\ turn' \in [Turns -> [batch : SUBSET Sources, steered : SUBSET Sources]]
      /\ turn'[t] = NoTurn /\ \A u \in Turns : u # t => turn'[u] = turn[u]
    BY <1>1, <1>2, <1>3
<1>5. Answered(t)' = {} /\ \A u \in Turns : u # t => Answered(u)' = Answered(u)
    BY <1>3, <1>4 DEF Answered
<1>6. \A u \in Turns : Answered(u) \subseteq Sources
    BY <1>1 DEF Answered
<1>7. /\ \A s \in Answered(t) : source'[s] \in {fate, "done"} /\ source[s] = "taken"
      /\ \A s \in Sources \ Answered(t) : source'[s] = source[s]
    BY <1>1, <1>2, <1>6 DEF Answered, SourcesInv
<1>8. source' \in [Sources -> {"away", "queued", "taken", "done"}]
    BY <1>1, <1>2
<1>9. \A u \in Turns : u # t =>
         \A s \in Answered(u) : s \in Sources \ Answered(t) /\ source[s] = "taken"
    BY <1>1, <1>6 DEF SourcesInv
<1>10. \A u \in Turns : \A s \in Answered(u)' : source'[s] = "taken"
    BY <1>5, <1>7, <1>9
<1>11. \A u, v \in Turns : u # v => Answered(u)' \cap Answered(v)' = {}
    BY <1>1, <1>5 DEF SourcesInv
<1> QED BY <1>4, <1>5, <1>6, <1>7, <1>8, <1>10, <1>11

-----------------------------------------------------------------------------
(* The intake and the turns move events about and touch nothing else. *)
LEMMA EventsMove ==
    ASSUME DeliveryInv,
           \/ \E s \in Sources : Intake(s) \/ SuppressReplay(s)
           \/ \E t \in Turns :
                 \/ \E batch \in SUBSET Sources : StartTurn(t, batch)
                 \/ \E s \in Sources : NativeSteer(t, s)
                 \/ TurnFails(t) \/ EndsWithoutRecord(t) \/ PersistFails(t)
    PROVE  /\ UNCHANGED <<disk, index, courier, backlog, onRelay, deliveryHistory>>
           /\ DeliveryInv'
<1>1. UNCHANGED <<disk, index, courier, backlog, onRelay, deliveryHistory>>
    BY DEF Intake, SuppressReplay, StartTurn, NativeSteer, TurnFails, EndsWithoutRecord, PersistFails
<1>2. SUFFICES /\ source' \in [Sources -> {"away", "queued", "taken", "done"}]
               /\ turn' \in [Turns -> [batch : SUBSET Sources, steered : SUBSET Sources]]
               /\ SourcesInv'
    BY <1>1 DEF DeliveryInv, DeliveryTypeOK, RecordsInv, CouriersInv, Claims, deliveryHistory
<1>3. /\ source \in [Sources -> {"away", "queued", "taken", "done"}]
      /\ turn \in [Turns -> [batch : SUBSET Sources, steered : SUBSET Sources]]
      /\ SourcesInv
    BY DEF DeliveryInv, DeliveryTypeOK
<1>4. \A r \in ReplyIds : Claims(r)' = Claims(r) /\ answers'[r] = answers[r]
    BY <1>1 DEF Claims, deliveryHistory
<1>5. \A r, q \in ReplyIds : r # q /\ Claims(r)' /\ Claims(q)' => answers'[r] \cap answers'[q] = {}
    BY <1>3, <1>4 DEF SourcesInv
<1>6. ASSUME NEW s \in Sources, Intake(s) \/ SuppressReplay(s)
      PROVE  /\ source' \in [Sources -> {"away", "queued", "taken", "done"}]
             /\ turn' \in [Turns -> [batch : SUBSET Sources, steered : SUBSET Sources]]
             /\ SourcesInv'
    <2>1. PICK at \in {"queued", "done"} :
             /\ source' = [source EXCEPT ![s] = at] /\ turn' = turn
             /\ source[s] # "taken"
             /\ at = "queued" => ~Fenced(s)
        BY <1>6 DEF Intake, SuppressReplay
    <2>2. source' \in [Sources -> {"away", "queued", "taken", "done"}]
        BY <1>3, <2>1
    <2>3. \A t \in Turns : Answered(t)' = Answered(t) /\ \A x \in Answered(t) : x \in Sources /\ x # s
        BY <1>3, <2>1 DEF SourcesInv, Answered
    <2>4. /\ \A x \in Sources : x # s => source'[x] = source[x]
          /\ source'[s] = at
        BY <1>3, <2>1
    <2>5. at = "queued" => \A r \in ReplyIds : Claims(r) => s \notin answers[r]
        BY <2>1, FencedIsClaimed
    <2>6. \A t \in Turns : \A x \in Answered(t)' : source'[x] = "taken"
        BY <1>3, <2>3, <2>4 DEF SourcesInv
    <2>7. \A x \in Sources : source'[x] \in {"queued", "taken"} =>
             \A r \in ReplyIds : Claims(r)' => x \notin answers'[r]
        BY <1>3, <1>4, <2>1, <2>4, <2>5 DEF SourcesInv
    <2>8. \A t, u \in Turns : t # u => Answered(t)' \cap Answered(u)' = {}
        BY <1>3, <2>3 DEF SourcesInv
    <2> QED BY <1>3, <1>5, <2>1, <2>2, <2>6, <2>7, <2>8 DEF SourcesInv
<1>7. ASSUME NEW t \in Turns,
             \/ \E batch \in SUBSET Sources : StartTurn(t, batch)
             \/ \E s \in Sources : NativeSteer(t, s)
      PROVE  /\ source' \in [Sources -> {"away", "queued", "taken", "done"}]
             /\ turn' \in [Turns -> [batch : SUBSET Sources, steered : SUBSET Sources]]
             /\ SourcesInv'
    <2>1. PICK S \in SUBSET Sources, new \in [batch : SUBSET Sources, steered : SUBSET Sources] :
             /\ \A s \in S : source[s] = "queued"
             /\ source' = [s \in Sources |-> IF s \in S THEN "taken" ELSE source[s]]
             /\ turn' = [turn EXCEPT ![t] = new]
             /\ new.batch \cup new.steered \subseteq Answered(t) \cup S
        <3>1. turn[t] \in [batch : SUBSET Sources, steered : SUBSET Sources]
            BY <1>3
        <3>2. ASSUME NEW batch \in SUBSET Sources, StartTurn(t, batch)
              PROVE  \E S \in SUBSET Sources,
                        new \in [batch : SUBSET Sources, steered : SUBSET Sources] :
                 /\ \A s \in S : source[s] = "queued"
                 /\ source' = [s \in Sources |-> IF s \in S THEN "taken" ELSE source[s]]
                 /\ turn' = [turn EXCEPT ![t] = new]
                 /\ new.batch \cup new.steered \subseteq Answered(t) \cup S
            <4> DEFINE new == [turn[t] EXCEPT !.batch = batch]
            <4>1. turn' = [turn EXCEPT ![t] = new]
                BY <3>2, Zenon DEF StartTurn
            <4>2. /\ new \in [batch : SUBSET Sources, steered : SUBSET Sources]
                  /\ new.batch = batch /\ new.steered = turn[t].steered
                BY <3>1
            <4> HIDE DEF new
            <4>3. new.batch \cup new.steered \subseteq Answered(t) \cup batch
                BY <4>2 DEF Answered
            <4> QED BY <3>2, <4>1, <4>2, <4>3 DEF StartTurn
        <3>3. ASSUME NEW s \in Sources, NativeSteer(t, s)
              PROVE  \E S \in SUBSET Sources,
                        new \in [batch : SUBSET Sources, steered : SUBSET Sources] :
                 /\ \A x \in S : source[x] = "queued"
                 /\ source' = [x \in Sources |-> IF x \in S THEN "taken" ELSE source[x]]
                 /\ turn' = [turn EXCEPT ![t] = new]
                 /\ new.batch \cup new.steered \subseteq Answered(t) \cup S
            <4> DEFINE new == [turn[t] EXCEPT !.steered = @ \cup {s}]
            <4>1. turn' = [turn EXCEPT ![t] = new]
                BY <3>3, Zenon DEF NativeSteer
            <4>2. /\ new \in [batch : SUBSET Sources, steered : SUBSET Sources]
                  /\ new.batch = turn[t].batch /\ new.steered = turn[t].steered \cup {s}
                BY <3>1
            <4> HIDE DEF new
            <4>3. new.batch \cup new.steered \subseteq Answered(t) \cup {s}
                BY <4>2 DEF Answered
            <4>4. source' = [x \in Sources |-> IF x \in {s} THEN "taken" ELSE source[x]]
                BY <1>3, <3>3 DEF NativeSteer
            <4> QED BY <3>3, <4>1, <4>2, <4>3, <4>4 DEF NativeSteer
        <3> QED BY <1>7, <3>2, <3>3
    <2>2. /\ source' \in [Sources -> {"away", "queued", "taken", "done"}]
          /\ turn' \in [Turns -> [batch : SUBSET Sources, steered : SUBSET Sources]]
        BY <1>3, <2>1
    <2>3. /\ Answered(t)' \subseteq Answered(t) \cup S
          /\ \A u \in Turns : u # t => Answered(u)' = Answered(u)
        BY <1>3, <2>1 DEF Answered
    <2>4. \A u \in Turns : Answered(u) \subseteq Sources /\ Answered(u) \cap S = {}
        BY <1>3, <2>1 DEF SourcesInv, Answered
    <2>5. \A x \in Sources : /\ x \in S => source'[x] = "taken" /\ source[x] = "queued"
                             /\ x \notin S => source'[x] = source[x]
        BY <2>1
    <2>6. \A u \in Turns : \A x \in Answered(u)' : source'[x] = "taken"
        BY <1>3, <2>3, <2>4, <2>5 DEF SourcesInv
    <2>7. \A u, v \in Turns : u # v => Answered(u)' \cap Answered(v)' = {}
        BY <1>3, <2>3, <2>4 DEF SourcesInv
    <2>8. \A x \in Sources : source'[x] \in {"queued", "taken"} =>
             \A r \in ReplyIds : Claims(r)' => x \notin answers'[r]
        BY <1>3, <1>4, <2>5 DEF SourcesInv
    <2> QED BY <1>5, <2>2, <2>6, <2>7, <2>8 DEF SourcesInv
<1>8. ASSUME NEW t \in Turns, TurnFails(t) \/ EndsWithoutRecord(t) \/ PersistFails(t)
      PROVE  /\ source' \in [Sources -> {"away", "queued", "taken", "done"}]
             /\ turn' \in [Turns -> [batch : SUBSET Sources, steered : SUBSET Sources]]
             /\ SourcesInv'
    <2>1. PICK fate \in {"queued", "done"} : LeaveTurn(t, fate)
        BY <1>8 DEF TurnFails, EndsWithoutRecord, PersistFails
    <2>2. /\ source' \in [Sources -> {"away", "queued", "taken", "done"}]
          /\ turn' \in [Turns -> [batch : SUBSET Sources, steered : SUBSET Sources]]
          /\ Answered(t) \subseteq Sources
          /\ \A s \in Answered(t) : source[s] = "taken"
          /\ \A s \in Sources \ Answered(t) : source'[s] = source[s]
          /\ \A u \in Turns : \A s \in Answered(u)' : source'[s] = "taken"
          /\ \A u, v \in Turns : u # v => Answered(u)' \cap Answered(v)' = {}
        BY <2>1, TurnIsOver
    <2>3. \A x \in Sources : source'[x] \in {"queued", "taken"} =>
             \A r \in ReplyIds : Claims(r)' => x \notin answers'[r]
        BY <1>3, <1>4, <2>2 DEF SourcesInv
    <2> QED BY <1>5, <2>2, <2>3 DEF SourcesInv
<1> QED BY <1>1, <1>6, <1>7, <1>8

-----------------------------------------------------------------------------
(* A reply that is signed claims the events of its turn, which no record   *)
(* claims.                                                                 *)
LEMMA ReplySigned ==
    ASSUME DeliveryInv, NEW t \in Turns, NEW r \in ReplyIds, PersistSigned(t, r)
    PROVE  DeliveryInv'
<1>0. /\ DeliveryTypeOK /\ RecordsInv /\ CouriersInv /\ SourcesInv
      /\ t \in DeliveryTasks
    BY DEF DeliveryInv, DeliveryTasks
<1>1. PICK S : S = Answered(t)
    OBVIOUS
<1>2. PICK record : record = [state |-> "Pending", attempts |-> 0, sources |-> S]
    OBVIOUS
<1>3. PICK del : del = [at |-> "loop", reply |-> r]
    OBVIOUS
<1>4. /\ disk[r] = NoRecord /\ ~Claims(r)
      /\ disk' = [disk EXCEPT ![r] = record]
      /\ index' = [index EXCEPT ![r] = record]
      /\ answers' = [answers EXCEPT ![r] = S]
      /\ courier' = [courier EXCEPT ![t] = del]
      /\ UNCHANGED <<backlog, onRelay>>
      /\ LeaveTurn(t, "done")
    BY <1>1, <1>2, <1>3 DEF PersistSigned, ReplaceRecord, Claims
<1>5. /\ source' \in [Sources -> {"away", "queued", "taken", "done"}]
      /\ turn' \in [Turns -> [batch : SUBSET Sources, steered : SUBSET Sources]]
      /\ S \subseteq Sources
      /\ \A s \in S : source'[s] = "done" /\ source[s] = "taken"
      /\ \A s \in Sources \ S : source'[s] = source[s]
      /\ \A u \in Turns : \A s \in Answered(u)' : source'[s] = "taken"
      /\ \A u, v \in Turns : u # v => Answered(u)' \cap Answered(v)' = {}
    BY <1>1, <1>4, TurnIsOver
<1>6. record \in Records /\ record # NoRecord /\ record # Corrupt /\ record.sources = S
      /\ del \in Deliveries /\ del.reply = r /\ del.at = "loop"
    BY <1>2, <1>3, <1>5, RecordsAreRecords DEF Records, Deliveries
<1>7. /\ disk' \in [ReplyIds -> Records \cup {NoRecord, Corrupt}]
      /\ index' \in [ReplyIds -> Records \cup {NoRecord}]
      /\ answers' \in [ReplyIds -> SUBSET Sources]
      /\ courier' \in [DeliveryTasks -> Deliveries]
      /\ disk'[r] = record /\ index'[r] = record /\ answers'[r] = S /\ courier'[t] = del
      /\ \A q \in ReplyIds : q # r => /\ disk'[q] = disk[q] /\ index'[q] = index[q]
                                      /\ answers'[q] = answers[q]
      /\ \A d \in DeliveryTasks : d # t => courier'[d] = courier[d]
    BY <1>0, <1>4, <1>5, <1>6 DEF DeliveryTypeOK
<1>8. /\ Claims(r)'
      /\ \A q \in ReplyIds : q # r => Claims(q)' = Claims(q)
      /\ \A q \in ReplyIds : Claims(q) => q # r
    BY <1>4, <1>6, <1>7 DEF Claims
<1>9. DeliveryTypeOK'
    BY <1>5, <1>7 DEF DeliveryTypeOK
<1>10. RecordsInv'
    BY <1>0, <1>6, <1>7, <1>8 DEF RecordsInv
<1>11. CouriersInv'
    <2>1. \A q \in onRelay' : q \in ReplyIds /\ disk'[q] # NoRecord
        BY <1>0, <1>4, <1>6, <1>7 DEF CouriersInv
    <2>2. backlog' # NotStarted => \A q \in backlog' : q \in ReplyIds /\ Claims(q)'
        BY <1>0, <1>4, <1>8 DEF CouriersInv
    <2>3. ASSUME NEW d \in DeliveryTasks, courier'[d] # NoDelivery
          PROVE  /\ Claims(courier[d].reply)'
                 /\ courier'[d].at # "loop" => courier'[d].record.sources = answers'[courier'[d].reply]
        <3>1. CASE d = t
            BY <1>6, <1>7, <1>8, <3>1 DEF Claims
        <3>2. CASE d # t
            <4>1. courier'[d] = courier[d] /\ Claims(courier[d].reply) /\ courier[d].reply \in ReplyIds
                BY <1>0, <1>7, <2>3, <3>2 DEF CouriersInv, DeliveryTypeOK, Deliveries
            <4>2. courier[d].reply # r
                BY <1>8, <4>1
            <4>3. Claims(courier[d].reply)'
                BY <1>7, <4>1, <4>2 DEF Claims
            <4> QED BY <1>0, <1>7, <2>3, <4>1, <4>2, <4>3 DEF CouriersInv
        <3> QED BY <3>1, <3>2
    <2> QED BY <2>1, <2>2, <2>3 DEF CouriersInv
<1>12. \A q \in ReplyIds : Claims(q) => answers[q] \cap S = {}
    BY <1>0, <1>5 DEF SourcesInv
<1>13. \A x \in Sources : source'[x] \in {"queued", "taken"} =>
             \A q \in ReplyIds : Claims(q)' => x \notin answers'[q]
    BY <1>0, <1>5, <1>7, <1>8 DEF SourcesInv
<1>14. \A p, q \in ReplyIds : p # q /\ Claims(p)' /\ Claims(q)' => answers'[p] \cap answers'[q] = {}
    BY <1>0, <1>7, <1>8, <1>12 DEF SourcesInv
<1>15. SourcesInv'
    BY <1>5, <1>13, <1>14 DEF SourcesInv
<1> QED BY <1>9, <1>10, <1>11, <1>15 DEF DeliveryInv

-----------------------------------------------------------------------------
(* A step of a courier moves the courier, may write the record of its      *)
(* reply, and may bring that reply to the relay.                           *)
CourierStep(d, r, del, x) ==
    /\ courier[d] # NoDelivery /\ courier[d].reply = r
    /\ courier' = [courier EXCEPT ![d] = del]
    /\ del # NoDelivery => del.reply = r /\ (del.at # "loop" => del.record.sources = answers[r])
    /\ UNCHANGED <<disk, index>> \/ (ReplaceRecord(r, x) /\ x.sources = answers[r])
    /\ onRelay \subseteq onRelay' /\ onRelay' \subseteq onRelay \cup {r}
    /\ UNCHANGED <<source, turn, backlog, answers>>

(* Such a step keeps the fence.                                            *)
LEMMA CourierStepKeeps ==
    ASSUME DeliveryInv, NEW d \in DeliveryTasks, NEW r \in ReplyIds, NEW del \in Deliveries,
           NEW x \in Records, CourierStep(d, r, del, x)
    PROVE  DeliveryInv'
<1>0. DeliveryTypeOK /\ RecordsInv /\ CouriersInv /\ SourcesInv
    BY DEF DeliveryInv
<1>1. /\ courier' \in [DeliveryTasks -> Deliveries] /\ courier'[d] = del
      /\ \A e \in DeliveryTasks : e # d => courier'[e] = courier[e]
    BY <1>0 DEF DeliveryTypeOK, CourierStep
<1>2. Claims(r) /\ x # NoRecord /\ x # Corrupt
    BY <1>0, RecordsAreRecords DEF CouriersInv, CourierStep
<1>3. /\ disk' \in [ReplyIds -> Records \cup {NoRecord, Corrupt}]
      /\ index' \in [ReplyIds -> Records \cup {NoRecord}]
      /\ \A q \in ReplyIds : q # r => disk'[q] = disk[q] /\ index'[q] = index[q]
      /\ \/ disk'[r] = disk[r] /\ index'[r] = index[r]
         \/ disk'[r] = x /\ index'[r] = x /\ x.sources = answers[r]
    BY <1>0 DEF DeliveryTypeOK, CourierStep, ReplaceRecord
<1>4. \A q \in ReplyIds : Claims(q)' = Claims(q)
    BY <1>2, <1>3 DEF Claims
<1>5. /\ source' = source /\ turn' = turn /\ backlog' = backlog /\ answers' = answers
      /\ onRelay' \subseteq onRelay \cup {r}
      /\ courier[d].reply = r
      /\ del # NoDelivery => del.reply = r /\ (del.at # "loop" => del.record.sources = answers[r])
    BY DEF CourierStep
<1>6. DeliveryTypeOK'
    BY <1>0, <1>1, <1>3, <1>5 DEF DeliveryTypeOK
<1>7. RecordsInv'
    BY <1>0, <1>2, <1>3, <1>4, <1>5 DEF RecordsInv
<1>8. CouriersInv'
    <2>1. \A q \in onRelay' : q \in ReplyIds /\ disk'[q] # NoRecord
        <3>1. disk[r] # NoRecord
            BY <1>0, <1>2 DEF RecordsInv
        <3> QED BY <1>0, <1>2, <1>3, <1>5, <3>1 DEF CouriersInv
    <2>2. backlog' # NotStarted => \A q \in backlog' : q \in ReplyIds /\ Claims(q)'
        BY <1>0, <1>4, <1>5 DEF CouriersInv
    <2>3. \A e \in DeliveryTasks : courier[e] # NoDelivery => courier[e].reply \in ReplyIds
        BY <1>0 DEF DeliveryTypeOK, Deliveries
    <2>4. ASSUME NEW e \in DeliveryTasks, courier'[e] # NoDelivery
          PROVE  /\ Claims(courier[e].reply)'
                 /\ courier'[e].at # "loop" => courier'[e].record.sources = answers'[courier'[e].reply]
        <3>1. CASE e = d
            BY <1>1, <1>2, <1>4, <1>5, <2>4, <3>1 DEF Claims
        <3>2. CASE e # d
            <4>1. courier'[e] = courier[e] /\ Claims(courier[e].reply) /\ courier[e].reply \in ReplyIds
                BY <1>0, <1>1, <2>3, <2>4, <3>2 DEF CouriersInv
            <4>2. Claims(courier[e].reply)'
                BY <1>4, <4>1 DEF Claims
            <4> QED BY <1>0, <1>5, <2>4, <4>1, <4>2 DEF CouriersInv
        <3> QED BY <3>1, <3>2
    <2> QED BY <2>1, <2>2, <2>4 DEF CouriersInv
<1>9. SourcesInv'
    <2>1. \A t \in Turns : Answered(t)' = Answered(t)
        BY <1>5 DEF Answered
    <2> QED BY <1>0, <1>4, <1>5, <2>1 DEF SourcesInv
<1> QED BY <1>6, <1>7, <1>8, <1>9 DEF DeliveryInv

(* Every step of deliver_until_terminal is one. *)
LEMMA CourierTakesSteps ==
    ASSUME DeliveryInv, NEW d \in DeliveryTasks, Courier(d)
    PROVE  \E r \in ReplyIds, del \in Deliveries, x \in Records : CourierStep(d, r, del, x)
<1>0. DeliveryTypeOK /\ RecordsInv /\ CouriersInv
    BY DEF DeliveryInv
<1>1. courier[d] # NoDelivery
    BY DEF Courier, ReadRecord, AlreadyTerminal, BudgetExhausted, CountAttempt, CountAttemptFails,
           Submit, Confirmed, Unconfirmed, GivesUp, NoDelivery
<1>2. PICK r \in ReplyIds : courier[d].reply = r /\ Claims(r)
    BY <1>0, <1>1 DEF DeliveryTypeOK, Deliveries, CouriersInv
<1>3. /\ index[r] \in Records /\ index[r].sources = answers[r]
      /\ index[r] # NoRecord
    BY <1>0, <1>2 DEF RecordsInv, DeliveryTypeOK, Claims
<1>4. NoDelivery \in Deliveries
    BY DEF Deliveries
<1>5. courier[d].at # "loop" => /\ courier[d].record \in Records
                                /\ courier[d].record.sources = answers[r]
                                /\ courier[d] = [at |-> courier[d].at, reply |-> r,
                                                 record |-> courier[d].record]
                                /\ courier[d].at \in {"send", "submit", "stored", "lost"}
    BY <1>0, <1>1, <1>2 DEF DeliveryTypeOK, Deliveries, CouriersInv
<1>6. \A x \in Records : x = [state |-> x.state, attempts |-> x.attempts, sources |-> x.sources]
                         /\ x.attempts \in Nat /\ x.sources \in SUBSET Sources
    BY DEF Records
<1>7. [at |-> "loop", reply |-> r] \in Deliveries
    BY DEF Deliveries
<1>8. \A at \in {"send", "submit", "stored", "lost"}, x \in Records :
         [at |-> at, reply |-> r, record |-> x] \in Deliveries
    BY DEF Deliveries
<1>9. CASE ReadRecord(d)
    <2> DEFINE del == [at |-> "send", reply |-> r, record |-> index[r]]
    <2>1. del \in Deliveries /\ del.reply = r /\ del.record = index[r]
        BY <1>3, <1>8
    <2>2. courier' = [courier EXCEPT ![d] = del]
        BY <1>2, <1>9 DEF ReadRecord
    <2>3. UNCHANGED <<source, turn, disk, index, backlog, onRelay, answers>>
        BY <1>9 DEF ReadRecord
    <2> HIDE DEF del
    <2>4. CourierStep(d, r, del, index[r])
        BY <1>1, <1>2, <1>3, <2>1, <2>2, <2>3 DEF CourierStep
    <2> QED BY <1>3, <2>1, <2>4
<1>10. CASE AlreadyTerminal(d) \/ CountAttemptFails(d)
    <2>1. CourierStep(d, r, NoDelivery, index[r])
        BY <1>1, <1>2, <1>3, <1>10
        DEF AlreadyTerminal, CountAttemptFails, Returns, deliveryHistory, CourierStep
    <2> QED BY <1>3, <1>4, <2>1
<1>11. CASE BudgetExhausted(d)
    <2>1. Terminalized(index[r]) \in Records /\ Terminalized(index[r]).sources = answers[r]
        BY <1>3, RecordsAreRecords
    <2>2. CourierStep(d, r, NoDelivery, Terminalized(index[r]))
        BY <1>1, <1>2, <1>11, <2>1 DEF BudgetExhausted, Returns, deliveryHistory, CourierStep
    <2> QED BY <1>4, <2>1, <2>2
<1>12. CASE CountAttempt(d)
    <2> DEFINE x == [courier[d].record EXCEPT !.attempts = @ + 1, !.state = "Pending"]
               del == [at |-> "submit", reply |-> r, record |-> x]
    <2>0. courier[d].at = "send"
        BY <1>12 DEF CountAttempt
    <2>1. x \in Records /\ x.sources = answers[r]
        <3>1. x = [state |-> "Pending", attempts |-> courier[d].record.attempts + 1,
                   sources |-> answers[r]]
            <4>1. PICK old : old = courier[d].record
                OBVIOUS
            <4>2. /\ x = [old EXCEPT !.attempts = @ + 1, !.state = "Pending"]
                  /\ old.sources = answers[r] /\ old \in Records
                BY <1>5, <2>0, <4>1
            <4>3. [old EXCEPT !.attempts = @ + 1, !.state = "Pending"]
                    = [state |-> "Pending", attempts |-> old.attempts + 1, sources |-> old.sources]
                BY <4>2, CountedRecord
            <4> QED BY <4>1, <4>2, <4>3, Zenon
        <3>2. courier[d].record.attempts + 1 \in Nat /\ answers[r] \in SUBSET Sources
            BY <1>5, <1>6, <2>0
        <3> QED BY <3>1, <3>2 DEF Records
    <2>2. del \in Deliveries /\ del.reply = r /\ del.record = x
        BY <1>8, <2>1
    <2>3. /\ ReplaceRecord(r, x)
          /\ courier' = [courier EXCEPT ![d].record = x, ![d].at = "submit"]
          /\ UNCHANGED <<source, turn, backlog, onRelay, answers>>
        BY <1>2, <1>12 DEF CountAttempt, Sending, deliveryHistory
    <2> HIDE DEF x
    <2>4. courier' = [courier EXCEPT ![d] = del]
        <3> DEFINE first == [courier[d] EXCEPT !.record = x]
        <3>1. first = [at |-> courier[d].at, reply |-> r, record |-> x]
            BY <1>5, <2>0
        <3>3. [courier EXCEPT ![d].record = x] = [courier EXCEPT ![d] = first]
            BY Zenon
        <3> HIDE DEF first
        <3>2. [first EXCEPT !.at = "submit"] = del
            BY <3>1
        <3>4. courier' = [[courier EXCEPT ![d] = first] EXCEPT ![d].at = "submit"]
            BY <2>3, <3>3, Zenon
        <3>5. courier' = [[courier EXCEPT ![d] = first] EXCEPT ![d] = [first EXCEPT !.at = "submit"]]
            BY <1>0, <3>4 DEF DeliveryTypeOK
        <3> QED BY <1>0, <3>2, <3>5 DEF DeliveryTypeOK
    <2> HIDE DEF del
    <2>5. CourierStep(d, r, del, x)
        BY <1>1, <1>2, <2>1, <2>2, <2>3, <2>4 DEF CourierStep
    <2> QED BY <2>1, <2>2, <2>5
<1>13. CASE \E reaches \in BOOLEAN : Submit(d, reaches)
    <2>1. PICK at \in {"stored", "lost"} : courier' = [courier EXCEPT ![d].at = at]
        BY <1>13 DEF Submit, Arrives
    <2> DEFINE del == [at |-> at, reply |-> r, record |-> courier[d].record]
    <2>2. courier[d].at = "submit"
        BY <1>13 DEF Submit
    <2>3. del \in Deliveries /\ del.reply = r /\ del.record = courier[d].record
        BY <1>5, <1>8, <2>1, <2>2
    <2>4. courier' = [courier EXCEPT ![d] = del]
        <3>1. [courier[d] EXCEPT !.at = at] = del
            BY <1>5, <2>2
        <3>2. courier' = [courier EXCEPT ![d] = [courier[d] EXCEPT !.at = at]]
            BY <2>1, Zenon
        <3> QED BY <3>1, <3>2, Zenon
    <2>5. /\ onRelay \subseteq onRelay' /\ onRelay' \subseteq onRelay \cup {r}
          /\ UNCHANGED <<source, turn, disk, index, backlog, answers>>
        BY <1>2, <1>13 DEF Submit
    <2> HIDE DEF del
    <2>6. CourierStep(d, r, del, index[r])
        BY <1>1, <1>2, <1>3, <1>5, <2>2, <2>3, <2>4, <2>5 DEF CourierStep
    <2> QED BY <1>3, <2>3, <2>6
<1>14. CASE Confirmed(d) \/ GivesUp(d)
    <2>0. courier[d].at # "loop"
        BY <1>14 DEF Confirmed, GivesUp
    <2>1. PICK x \in Records : /\ x.sources = answers[r]
                               /\ UNCHANGED <<disk, index>> \/ ReplaceRecord(r, x)
        <3>1. CASE Confirmed(d)
            <4> DEFINE x == [courier[d].record EXCEPT !.state = "Accepted"]
            <4>1. x \in Records /\ x.sources = answers[r]
                BY <1>5, <1>6, <2>0 DEF Records
            <4>2. UNCHANGED <<disk, index>> \/ ReplaceRecord(r, x)
                BY <1>2, <3>1 DEF Confirmed, Sending
            <4> QED BY <4>1, <4>2
        <3>2. CASE GivesUp(d)
            <4>1. /\ Terminalized(courier[d].record) \in Records
                  /\ Terminalized(courier[d].record).sources = answers[r]
                BY <1>5, <2>0, RecordsAreRecords
            <4> QED BY <1>2, <3>2, <4>1 DEF GivesUp, Sending
        <3> QED BY <1>14, <3>1, <3>2
    <2>2. CourierStep(d, r, NoDelivery, x)
        BY <1>1, <1>2, <1>14, <2>1 DEF Confirmed, GivesUp, Returns, deliveryHistory, CourierStep
    <2> QED BY <1>4, <2>2
<1>15. CASE Unconfirmed(d)
    <2> DEFINE x == [courier[d].record EXCEPT !.state = "AwaitingRetry"]
               del == [at |-> "loop", reply |-> r]
    <2>0. courier[d].at # "loop"
        BY <1>15 DEF Unconfirmed
    <2>1. x \in Records /\ x.sources = answers[r]
        BY <1>5, <1>6, <2>0 DEF Records
    <2>2. del \in Deliveries /\ del.reply = r /\ del.at = "loop"
        BY <1>7
    <2>3. /\ \/ ReplaceRecord(r, x) /\ courier' = [courier EXCEPT ![d] = del]
             \/ Returns(d) /\ UNCHANGED <<disk, index>>
          /\ UNCHANGED <<source, turn, backlog, onRelay, answers>>
        BY <1>2, <1>15 DEF Unconfirmed, Sending, deliveryHistory
    <2> HIDE DEF x, del
    <2>4. CourierStep(d, r, del, x) \/ CourierStep(d, r, NoDelivery, x)
        BY <1>1, <1>2, <2>1, <2>2, <2>3 DEF CourierStep, Returns
    <2> QED BY <1>4, <2>1, <2>2, <2>4
<1> QED BY <1>9, <1>10, <1>11, <1>12, <1>13, <1>14, <1>15 DEF Courier

-----------------------------------------------------------------------------
(* The recovery lists and resumes records that the index has. *)
LEMMA RecoveryResumes ==
    ASSUME DeliveryInv, ListPending \/ \E r \in ReplyIds : ResumeNext(r)
    PROVE  DeliveryInv'
<1>0. DeliveryTypeOK /\ RecordsInv /\ CouriersInv /\ SourcesInv
    BY DEF DeliveryInv
<1>1. UNCHANGED <<source, turn, disk, index, onRelay, answers>>
    BY DEF ListPending, ResumeNext, deliveryHistory
<1>2. RecordsInv' /\ SourcesInv'
    BY <1>0, <1>1 DEF RecordsInv, SourcesInv, Claims, Answered
<1>3. \A q \in ReplyIds : Claims(q)' = Claims(q)
    BY <1>1 DEF Claims
<1>4. CASE ListPending
    <2>1. courier' = courier /\ backlog' = {r \in ReplyIds : Retryable(index[r])}
        BY <1>4 DEF ListPending
    <2>2. \A r \in backlog' : r \in ReplyIds /\ Claims(r)
        BY <2>1, RecordsAreRecords DEF Claims
    <2>3. DeliveryTypeOK'
        BY <1>0, <1>1, <2>1 DEF DeliveryTypeOK
    <2>4. CouriersInv'
        BY <1>0, <1>1, <1>3, <2>1, <2>2 DEF CouriersInv, Claims
    <2> QED BY <1>2, <2>3, <2>4 DEF DeliveryInv
<1>5. ASSUME NEW r \in ReplyIds, ResumeNext(r)
      PROVE  DeliveryInv'
    <2> DEFINE del == [at |-> "loop", reply |-> r]
    <2>1. /\ backlog # NotStarted /\ r \in backlog
          /\ courier' = [courier EXCEPT ![Recovery] = del]
          /\ backlog' = backlog \ {r}
        BY <1>5 DEF ResumeNext
    <2>2. del \in Deliveries /\ del.reply = r /\ del.at = "loop"
        BY DEF Deliveries
    <2> HIDE DEF del
    <2>3. /\ courier' \in [DeliveryTasks -> Deliveries] /\ courier'[Recovery] = del
          /\ \A e \in DeliveryTasks : e # Recovery => courier'[e] = courier[e]
          /\ Recovery \in DeliveryTasks
        BY <1>0, <2>1, <2>2 DEF DeliveryTypeOK, DeliveryTasks
    <2>4. Claims(r)
        BY <1>0, <2>1 DEF CouriersInv
    <2>5. DeliveryTypeOK'
        BY <1>0, <1>1, <2>3 DEF DeliveryTypeOK
    <2>6. ASSUME NEW e \in DeliveryTasks, courier'[e] # NoDelivery
          PROVE  /\ Claims(courier[e].reply)'
                 /\ courier'[e].at # "loop" => courier'[e].record.sources = answers'[courier'[e].reply]
        <3>1. CASE e = Recovery
            BY <1>3, <2>2, <2>3, <2>4, <3>1 DEF Claims
        <3>2. CASE e # Recovery
            <4>1. courier'[e] = courier[e] /\ Claims(courier[e].reply) /\ courier[e].reply \in ReplyIds
                BY <1>0, <2>3, <2>6, <3>2 DEF CouriersInv, DeliveryTypeOK, Deliveries
            <4>2. Claims(courier[e].reply)'
                BY <1>3, <4>1 DEF Claims
            <4> QED BY <1>0, <1>1, <2>6, <4>1, <4>2 DEF CouriersInv
        <3> QED BY <3>1, <3>2
    <2>7. backlog' # NotStarted => \A q \in backlog' : q \in ReplyIds /\ Claims(q)'
        BY <1>0, <1>3, <2>1 DEF CouriersInv
    <2>8. CouriersInv'
        BY <1>0, <1>1, <2>6, <2>7 DEF CouriersInv
    <2> QED BY <1>2, <2>5, <2>8 DEF DeliveryInv
<1> QED BY <1>4, <1>5

(* What open() loads of a record keeps its events and its attempts.        *)
LEMMA LoadedKeeps ==
    ASSUME NEW x \in Records \cup {NoRecord, Corrupt}
    PROVE  /\ x \in {NoRecord, Corrupt} => Loaded(x) = NoRecord
           /\ x \in Records => /\ Loaded(x) \in Records
                               /\ Loaded(x).sources = x.sources
                               /\ Loaded(x).attempts = x.attempts
<1>1. CASE x \in {NoRecord, Corrupt}
    BY <1>1, RecordsAreRecords DEF Loaded
<1>2. CASE x \in Records
    BY <1>2, RecordsAreRecords DEF Loaded
<1> QED BY <1>1, <1>2

(* A crash: after open(), the index has every record that is readable,     *)
(* with its events and its attempts, and no record is there that was not   *)
(* there before.                                                           *)
LEMMA CrashLoads ==
    ASSUME DeliveryInv, NEW torn \in SUBSET ReplyIds, CrashAndOpen(torn)
    PROVE  /\ disk' \in [ReplyIds -> Records \cup {NoRecord, Corrupt}]
           /\ index' \in [ReplyIds -> Records \cup {NoRecord}]
           /\ \A r \in ReplyIds :
                 /\ (disk'[r] = NoRecord) <=> (disk[r] = NoRecord)
                 /\ Claims(r)' <=> disk'[r] \notin {NoRecord, Corrupt}
                 /\ Claims(r)' => /\ Claims(r)
                                  /\ index'[r].sources = answers[r] /\ disk'[r].sources = answers[r]
                                  /\ index'[r].attempts = index[r].attempts
                                  /\ disk'[r].attempts = index[r].attempts
<1> DEFINE found == [r \in ReplyIds |-> IF r \in torn THEN Corrupt ELSE disk[r]]
           changed == {r \in ReplyIds : found[r] # Corrupt /\ Loaded(found[r]) # found[r]}
<1>0. DeliveryTypeOK /\ RecordsInv
    BY DEF DeliveryInv
<1>1. PICK unwritten \in SUBSET changed :
         disk' = [r \in ReplyIds |-> IF r \in changed \ unwritten THEN Loaded(found[r]) ELSE found[r]]
    BY DEF CrashAndOpen
<1>2. /\ index' = [r \in ReplyIds |-> Loaded(found[r])]
      /\ \A r \in torn : disk[r] # NoRecord /\ disk[r] # Corrupt
    BY DEF CrashAndOpen
<1>3. /\ found \in [ReplyIds -> Records \cup {NoRecord, Corrupt}]
      /\ \A r \in ReplyIds : found[r] = disk[r] \/ (found[r] = Corrupt /\ disk[r] # NoRecord)
    BY <1>0, <1>2 DEF DeliveryTypeOK
<1> HIDE DEF found
<1>4. ASSUME NEW r \in ReplyIds
      PROVE  /\ disk'[r] \in Records \cup {NoRecord, Corrupt}
             /\ index'[r] \in Records \cup {NoRecord}
             /\ (disk'[r] = NoRecord) <=> (disk[r] = NoRecord)
             /\ index'[r] # NoRecord <=> disk'[r] \notin {NoRecord, Corrupt}
             /\ index'[r] # NoRecord =>
                      /\ Claims(r)
                      /\ index'[r].sources = answers[r] /\ disk'[r].sources = answers[r]
                      /\ index'[r].attempts = index[r].attempts
                      /\ disk'[r].attempts = index[r].attempts
    <2>1. /\ index'[r] = Loaded(found[r])
          /\ disk'[r] = found[r] \/ (disk'[r] = Loaded(found[r]) /\ r \in changed)
        BY <1>1, <1>2
    <2>2. r \in changed => found[r] # Corrupt /\ Loaded(found[r]) # found[r]
        OBVIOUS
    <2> HIDE DEF changed
    <2>3. CASE found[r] \in {NoRecord, Corrupt}
        <3>1. index'[r] = NoRecord
            BY <2>1, <2>3, LoadedKeeps
        <3>2. disk'[r] = found[r]
            BY <2>1, <2>2, <2>3, LoadedKeeps
        <3> QED BY <1>3, <2>3, <3>1, <3>2, RecordsAreRecords
    <2>4. CASE found[r] \in Records
        <3>1. disk[r] = found[r] /\ found[r] # NoRecord /\ found[r] # Corrupt
            BY <1>3, <2>4, RecordsAreRecords
        <3>2. /\ Claims(r) /\ found[r].sources = answers[r]
              /\ found[r].attempts = index[r].attempts
            BY <1>0, <3>1 DEF RecordsInv
        <3>3. /\ Loaded(found[r]) \in Records
              /\ Loaded(found[r]).sources = answers[r]
              /\ Loaded(found[r]).attempts = index[r].attempts
            BY <2>4, <3>2, LoadedKeeps
        <3>4. /\ disk'[r] \in Records /\ disk'[r].sources = answers[r]
              /\ disk'[r].attempts = index[r].attempts
            BY <2>1, <2>4, <3>2, <3>3
        <3> QED BY <2>1, <3>1, <3>2, <3>3, <3>4, RecordsAreRecords
    <2> QED BY <1>3, <2>3, <2>4
<1>5. /\ disk' \in [ReplyIds -> Records \cup {NoRecord, Corrupt}]
      /\ index' \in [ReplyIds -> Records \cup {NoRecord}]
    BY <1>1, <1>2, <1>4
<1> QED BY <1>4, <1>5 DEF Claims

(* A crash keeps the fence: the events of every readable record are        *)
(* claimed again before the relay replays anything.                        *)
LEMMA CrashKeeps ==
    ASSUME DeliveryInv, NEW torn \in SUBSET ReplyIds, CrashAndOpen(torn)
    PROVE  DeliveryInv'
<1>0. DeliveryTypeOK /\ RecordsInv /\ CouriersInv /\ SourcesInv
    BY DEF DeliveryInv
<1>1. /\ disk' \in [ReplyIds -> Records \cup {NoRecord, Corrupt}]
      /\ index' \in [ReplyIds -> Records \cup {NoRecord}]
      /\ \A r \in ReplyIds :
            /\ (disk'[r] = NoRecord) <=> (disk[r] = NoRecord)
            /\ Claims(r)' <=> disk'[r] \notin {NoRecord, Corrupt}
            /\ Claims(r)' => /\ Claims(r)
                             /\ index'[r].sources = answers[r] /\ disk'[r].sources = answers[r]
                             /\ index'[r].attempts = index[r].attempts
                             /\ disk'[r].attempts = index[r].attempts
    BY CrashLoads
<1>2. /\ source' = [s \in Sources |-> "away"] /\ turn' = [t \in Turns |-> NoTurn]
      /\ courier' = [d \in DeliveryTasks |-> NoDelivery] /\ backlog' = NotStarted
      /\ onRelay' = onRelay /\ answers' = answers
    BY DEF CrashAndOpen, deliveryHistory
<1>3. DeliveryTypeOK'
    BY <1>0, <1>1, <1>2 DEF DeliveryTypeOK, NoTurn, Deliveries
<1>4. RecordsInv'
    BY <1>1, <1>2 DEF RecordsInv
<1>5. CouriersInv'
    BY <1>0, <1>1, <1>2 DEF CouriersInv
<1>6. \A t \in Turns : Answered(t)' = {}
    BY <1>2 DEF Answered, NoTurn
<1>7. SourcesInv'
    BY <1>0, <1>1, <1>2, <1>6 DEF SourcesInv
<1> QED BY <1>3, <1>4, <1>5, <1>7 DEF DeliveryInv

-----------------------------------------------------------------------------
(* DeliveryInv holds at the start ...                                      *)
LEMMA DeliveryInitially ==
    ASSUME DeliveryInit
    PROVE  DeliveryInv
<1>1. \A t \in Turns : Answered(t) = {}
    BY DEF DeliveryInit, Answered, NoTurn
<1>2. DeliveryTypeOK
    BY DEF DeliveryInit, DeliveryTypeOK, NoTurn, Deliveries
<1>3. \A r \in ReplyIds : ~Claims(r) /\ disk[r] = NoRecord
    BY DEF DeliveryInit, Claims
<1>4. RecordsInv /\ SourcesInv
    BY <1>1, <1>3 DEF RecordsInv, SourcesInv, DeliveryInit
<1>5. CouriersInv
    BY DEF CouriersInv, DeliveryInit
<1> QED BY <1>2, <1>4, <1>5 DEF DeliveryInv

(* ... and is kept by every step.                                          *)
LEMMA DeliveryInvariance ==
    ASSUME DeliveryInv, [DeliveryNext]_deliveryVars
    PROVE  DeliveryInv'
<1>1. CASE UNCHANGED deliveryVars
    BY <1>1 DEF deliveryVars, deliveryHistory, DeliveryInv, DeliveryTypeOK, RecordsInv, CouriersInv,
                SourcesInv, Claims, Answered
<1>2. ASSUME NEW d \in DeliveryTasks, Courier(d)
      PROVE  DeliveryInv'
    BY <1>2, CourierTakesSteps, CourierStepKeeps
<1> QED BY <1>1, <1>2, EventsMove, ReplySigned, RecoveryResumes, CrashKeeps DEF DeliveryNext

(* No event is answered by two replies on the relay, unless a crash left   *)
(* the record of one of them unreadable, for any number of events, turns,  *)
(* replies, crashes and failed writes.                                     *)
THEOREM OneReplyAlways == DeliverySpec => []OneReplyPerSource
<1>1. DeliverySpec => []DeliveryInv
    BY DeliveryInitially, DeliveryInvariance, PTL DEF DeliverySpec
<1>2. DeliveryInv => OneReplyPerSource
    <2> SUFFICES ASSUME DeliveryInv, NEW r \in onRelay, NEW q \in onRelay, r # q,
                        disk[r] # Corrupt, disk[q] # Corrupt
                 PROVE  answers[r] \cap answers[q] = {}
        BY DEF OneReplyPerSource
    <2>1. r \in ReplyIds /\ q \in ReplyIds /\ Claims(r) /\ Claims(q)
        BY DEF DeliveryInv, CouriersInv, RecordsInv
    <2> QED BY <2>1 DEF DeliveryInv, SourcesInv
<1> QED BY <1>1, <1>2, PTL

-----------------------------------------------------------------------------
(* A courier that has read its record and not yet returned. *)
Past(d) == courier[d] # NoDelivery /\ courier[d].at # "loop"

(* The count of submissions is a number.                                   *)
BudgetTypeOK == submissions \in [ReplyIds -> Nat]

(* A reply that was never written was never submitted; one that no two     *)
(* couriers delivered at a time was submitted no more often than its       *)
(* record counts; ...                                                      *)
CountedInv ==
    \A r \in ReplyIds :
        /\ disk[r] = NoRecord => submissions[r] = 0
        /\ r \notin contended => submissions[r] <= MaxSubmissions
        /\ r \notin contended /\ Claims(r) => /\ submissions[r] <= index[r].attempts
                                              /\ index[r].attempts <= MaxSubmissions

(* ... its courier holds the count of the record, with one left to send,   *)
(* or one counted and not yet sent; ...                                    *)
HoldsInv ==
    \A d \in DeliveryTasks : Past(d) /\ courier[d].reply \notin contended =>
        /\ courier[d].record.attempts = index[courier[d].reply].attempts
        /\ courier[d].at = "send" => courier[d].record.attempts < MaxSubmissions
        /\ courier[d].at = "submit" => submissions[courier[d].reply] < courier[d].record.attempts

(* ... and there is no other such courier.                                 *)
AloneInv ==
    \A d, e \in DeliveryTasks :
        d # e /\ Past(d) /\ Past(e) /\ courier[d].reply = courier[e].reply =>
            courier[d].reply \in contended

(* The inductive invariant of the budget.                                  *)
BudgetInv == BudgetTypeOK /\ CountedInv /\ HoldsInv /\ AloneInv

(* Steps that read no record, send nothing and keep the count of the       *)
(* record: every courier past the loop stays there or returns.             *)
LEMMA BudgetKept ==
    ASSUME DeliveryInv, BudgetInv,
           submissions' = submissions, contended' = contended,
           \A r \in ReplyIds :
              /\ disk'[r] = NoRecord => disk[r] = NoRecord
              /\ Claims(r)' /\ r \notin contended =>
                    \/ Claims(r) /\ index'[r].attempts = index[r].attempts
                    \/ disk[r] = NoRecord /\ index'[r].attempts = 0,
           \A d \in DeliveryTasks : Past(d)' => courier'[d] = courier[d] /\ Claims(courier[d].reply)'
    PROVE  BudgetInv'
<1>0. BudgetTypeOK /\ CountedInv /\ HoldsInv /\ AloneInv
    BY DEF BudgetInv
<1>1. BudgetTypeOK'
    BY <1>0 DEF BudgetTypeOK
<1>2. CountedInv'
    BY <1>0, DeliveryAssumption DEF CountedInv, BudgetTypeOK
<1>3. \A d \in DeliveryTasks : Past(d)' => Past(d) /\ courier'[d] = courier[d]
    BY DEF Past
<1>4. AloneInv'
    BY <1>0, <1>3 DEF AloneInv
<1>5. ASSUME NEW d \in DeliveryTasks, Past(d)', courier'[d].reply \notin contended'
      PROVE  /\ courier'[d].record.attempts = index'[courier'[d].reply].attempts
             /\ courier'[d].at = "send" => courier'[d].record.attempts < MaxSubmissions
             /\ courier'[d].at = "submit" => submissions'[courier'[d].reply] < courier'[d].record.attempts
    <2>1. PICK r \in ReplyIds : courier[d].reply = r /\ Claims(r) /\ disk[r] # NoRecord
        BY <1>3, <1>5 DEF DeliveryInv, DeliveryTypeOK, Deliveries, Past, CouriersInv, RecordsInv
    <2>2. Past(d) /\ courier'[d] = courier[d] /\ Claims(r)'
        BY <1>3, <1>5, <2>1 DEF Claims
    <2>3. index'[r].attempts = index[r].attempts
        BY <1>5, <2>1, <2>2
    <2> QED BY <1>0, <1>5, <2>1, <2>2, <2>3 DEF HoldsInv
<1>6. HoldsInv'
    BY <1>5 DEF HoldsInv
<1> QED BY <1>1, <1>2, <1>4, <1>6 DEF BudgetInv

(* Intake, turns, recovery and crashes leave the budget alone: what open() *)
(* loads has the attempts that the index had.                              *)
LEMMA OthersKeepBudget ==
    ASSUME DeliveryInv, DeliveryInv', BudgetInv,
           \/ UNCHANGED <<disk, index, courier, submissions, contended>>
           \/ \E t \in Turns, r \in ReplyIds : PersistSigned(t, r)
           \/ ListPending
           \/ \E r \in ReplyIds : ResumeNext(r)
           \/ \E torn \in SUBSET ReplyIds : CrashAndOpen(torn)
    PROVE  BudgetInv'
<1>0. DeliveryTypeOK /\ \A d \in DeliveryTasks : Past(d)' => Claims(courier[d].reply)'
    BY DEF DeliveryInv, CouriersInv, Past
<1>1. CASE UNCHANGED <<disk, index, courier, submissions, contended>> \/ ListPending
    <2>1. UNCHANGED <<disk, index, courier, submissions, contended>>
        BY <1>1 DEF ListPending, deliveryHistory
    <2> QED BY <1>0, <2>1, BudgetKept DEF Claims
<1>2. ASSUME NEW t \in Turns, NEW r \in ReplyIds, PersistSigned(t, r)
      PROVE  BudgetInv'
    <2>1. PICK record : record = [state |-> "Pending", attempts |-> 0, sources |-> Answered(t)]
        OBVIOUS
    <2>2. /\ disk[r] = NoRecord
          /\ disk' = [disk EXCEPT ![r] = record] /\ index' = [index EXCEPT ![r] = record]
          /\ courier' = [courier EXCEPT ![t] = [at |-> "loop", reply |-> r]]
          /\ UNCHANGED <<submissions, contended>>
        BY <1>2, <2>1 DEF PersistSigned, ReplaceRecord
    <2>3. record.attempts = 0 /\ record # NoRecord
        BY <2>1 DEF NoRecord
    <2>4. \A q \in ReplyIds :
             /\ disk'[q] = NoRecord => disk[q] = NoRecord
             /\ Claims(q)' => \/ Claims(q) /\ index'[q].attempts = index[q].attempts
                              \/ disk[q] = NoRecord /\ index'[q].attempts = 0
        BY <1>0, <2>2, <2>3 DEF DeliveryTypeOK, Claims
    <2>5. \A d \in DeliveryTasks : Past(d)' => courier'[d] = courier[d]
        BY <1>0, <2>2 DEF DeliveryTypeOK, Past
    <2> QED BY <1>0, <2>2, <2>4, <2>5, BudgetKept
<1>3. ASSUME NEW r \in ReplyIds, ResumeNext(r)
      PROVE  BudgetInv'
    <2>1. /\ UNCHANGED <<disk, index, submissions, contended>>
          /\ courier' = [courier EXCEPT ![Recovery] = [at |-> "loop", reply |-> r]]
        BY <1>3 DEF ResumeNext, deliveryHistory
    <2>2. \A d \in DeliveryTasks : Past(d)' => courier'[d] = courier[d]
        BY <1>0, <2>1 DEF DeliveryTypeOK, Past
    <2> QED BY <1>0, <2>1, <2>2, BudgetKept DEF Claims
<1>4. ASSUME NEW torn \in SUBSET ReplyIds, CrashAndOpen(torn)
      PROVE  BudgetInv'
    <2>1. UNCHANGED <<submissions, contended>> /\ courier' = [d \in DeliveryTasks |-> NoDelivery]
        BY <1>4 DEF CrashAndOpen, deliveryHistory
    <2>2. \A d \in DeliveryTasks : ~Past(d)'
        BY <2>1 DEF Past
    <2>3. \A r \in ReplyIds : /\ disk'[r] = NoRecord => disk[r] = NoRecord
                              /\ Claims(r)' => Claims(r) /\ index'[r].attempts = index[r].attempts
        BY <1>4, CrashLoads
    <2> QED BY <2>1, <2>2, <2>3, BudgetKept
<1> QED BY <1>1, <1>2, <1>3, <1>4

-----------------------------------------------------------------------------
(* A courier that returns, or goes back to the loop, leaves the count of   *)
(* an uncontended record alone.                                            *)
LEMMA ReturnKeepsBudget ==
    ASSUME DeliveryInv, DeliveryInv', BudgetInv, NEW d \in DeliveryTasks,
           \/ AlreadyTerminal(d) \/ BudgetExhausted(d) \/ CountAttemptFails(d)
           \/ Confirmed(d) \/ Unconfirmed(d) \/ GivesUp(d)
    PROVE  BudgetInv'
<1>0. /\ DeliveryTypeOK /\ CouriersInv /\ BudgetTypeOK /\ HoldsInv
      /\ \A e \in DeliveryTasks : Past(e)' => Claims(courier[e].reply)'
    BY DEF DeliveryInv, CouriersInv, Past, BudgetInv
<1>1. /\ courier[d] # NoDelivery
      /\ submissions' = submissions /\ contended' = contended
    BY DEF AlreadyTerminal, BudgetExhausted, CountAttemptFails, Confirmed, Unconfirmed, GivesUp,
           NoDelivery, deliveryHistory
<1>2. PICK r \in ReplyIds : courier[d].reply = r /\ Claims(r) /\ index[r] \in Records
    BY <1>0, <1>1 DEF DeliveryTypeOK, Deliveries, CouriersInv, Claims
<1>3. /\ \/ courier' = [courier EXCEPT ![d] = NoDelivery]
         \/ courier' = [courier EXCEPT ![d] = [at |-> "loop", reply |-> r]]
    BY <1>2 DEF AlreadyTerminal, BudgetExhausted, CountAttemptFails, Confirmed, Unconfirmed, GivesUp,
                Returns
<1>4. \A e \in DeliveryTasks : Past(e)' => courier'[e] = courier[e]
    BY <1>0, <1>3 DEF DeliveryTypeOK, Past
<1>5. PICK x \in Records :
         /\ UNCHANGED <<disk, index>> \/ ReplaceRecord(r, x)
         /\ r \notin contended => x.attempts = index[r].attempts
    <2>1. CASE AlreadyTerminal(d) \/ CountAttemptFails(d)
        BY <1>2, <2>1 DEF AlreadyTerminal, CountAttemptFails
    <2>2. CASE BudgetExhausted(d)
        BY <1>2, <2>2, RecordsAreRecords DEF BudgetExhausted
    <2>3. CASE Confirmed(d) \/ Unconfirmed(d) \/ GivesUp(d)
        <3>1. PICK old \in Records : /\ courier[d].record = old
                                     /\ r \notin contended => old.attempts = index[r].attempts
            <4>1. courier[d].at # "loop" /\ courier[d].at # "idle"
                BY <2>3 DEF Confirmed, Unconfirmed, GivesUp
            <4> QED BY <1>0, <1>1, <1>2, <4>1
                    DEF DeliveryTypeOK, Deliveries, NoDelivery, Past, HoldsInv
        <3>2. \A st \in {"Accepted", "AwaitingRetry"} :
                 /\ [old EXCEPT !.state = st] \in Records
                 /\ [old EXCEPT !.state = st].attempts = old.attempts
            BY DEF Records
        <3>3. Terminalized(old) \in Records /\ Terminalized(old).attempts = old.attempts
            BY RecordsAreRecords
        <3>4. CASE Confirmed(d)
            BY <1>2, <3>1, <3>2, <3>4 DEF Confirmed, Sending
        <3>5. CASE Unconfirmed(d)
            BY <1>2, <3>1, <3>2, <3>5 DEF Unconfirmed, Sending
        <3>6. CASE GivesUp(d)
            BY <1>2, <3>1, <3>3, <3>6 DEF GivesUp, Sending
        <3> QED BY <2>3, <3>4, <3>5, <3>6
    <2> QED BY <2>1, <2>2, <2>3
<1>6. \A q \in ReplyIds :
         /\ disk'[q] = NoRecord => disk[q] = NoRecord
         /\ Claims(q)' /\ q \notin contended => Claims(q) /\ index'[q].attempts = index[q].attempts
    BY <1>0, <1>2, <1>5, RecordsAreRecords DEF DeliveryTypeOK, ReplaceRecord, Claims
<1> QED BY <1>0, <1>1, <1>4, <1>6, BudgetKept

(* A courier reads a record that has submissions left; if another delivers *)
(* the same reply, the reply is contended from then on.                    *)
LEMMA ReadKeepsBudget ==
    ASSUME DeliveryInv, BudgetInv, NEW d \in DeliveryTasks, ReadRecord(d)
    PROVE  BudgetInv'
<1>0. DeliveryTypeOK /\ CouriersInv /\ BudgetTypeOK /\ CountedInv /\ HoldsInv /\ AloneInv
    BY DEF DeliveryInv, BudgetInv
<1>1. PICK r \in ReplyIds : courier[d].reply = r /\ Claims(r) /\ index[r] \in Records
    BY <1>0 DEF DeliveryTypeOK, Deliveries, CouriersInv, Claims, ReadRecord, NoDelivery
<1>2. /\ courier[d].at = "loop" /\ courier[d] # NoDelivery
      /\ ~Exhausted(index[r])
      /\ courier' = [courier EXCEPT ![d] = [at |-> "send", reply |-> r, record |-> index[r]]]
      /\ contended \subseteq contended' /\ contended' \subseteq contended \cup {r}
      /\ (\E e \in DeliveryTasks \ {d} : courier[e] # NoDelivery /\ courier[e].reply = r) =>
            r \in contended'
      /\ UNCHANGED <<disk, index, submissions>>
    BY <1>1 DEF ReadRecord, NoDelivery
<1>3. index[r].attempts < MaxSubmissions
    BY <1>1, <1>2, DeliveryAssumption DEF Exhausted, Records
<1>4. /\ courier'[d] = [at |-> "send", reply |-> r, record |-> index[r]]
      /\ \A e \in DeliveryTasks : e # d => courier'[e] = courier[e]
    BY <1>0, <1>2 DEF DeliveryTypeOK
<1>5. \A e \in DeliveryTasks : e # d => (Past(e)' <=> Past(e))
    BY <1>4 DEF Past
<1>6. BudgetTypeOK' /\ CountedInv'
    BY <1>0, <1>2 DEF BudgetTypeOK, CountedInv, Claims
<1>7. HoldsInv'
    BY <1>0, <1>2, <1>3, <1>4, <1>5 DEF HoldsInv
<1>8. AloneInv'
    <2>1. \A e \in DeliveryTasks : e # d /\ Past(e)' /\ courier'[e].reply = r => r \in contended'
        BY <1>2, <1>4, <1>5 DEF Past
    <2> QED BY <1>0, <1>2, <1>4, <1>5, <2>1 DEF AloneInv
<1> QED BY <1>6, <1>7, <1>8 DEF BudgetInv

(* The attempt is counted before it is made. *)
LEMMA CountKeepsBudget ==
    ASSUME DeliveryInv, BudgetInv, NEW d \in DeliveryTasks, CountAttempt(d)
    PROVE  BudgetInv'
<1>0. DeliveryTypeOK /\ CouriersInv /\ BudgetTypeOK /\ CountedInv /\ HoldsInv /\ AloneInv
    BY DEF DeliveryInv, BudgetInv
<1>1. PICK r \in ReplyIds, old \in Records :
         /\ courier[d].reply = r /\ Claims(r) /\ courier[d].record = old /\ index[r] \in Records
         /\ courier[d] = [at |-> "send", reply |-> r, record |-> old]
    BY <1>0 DEF DeliveryTypeOK, Deliveries, CouriersInv, Claims, CountAttempt, NoDelivery
<1>2. PICK x : x = [state |-> "Pending", attempts |-> old.attempts + 1, sources |-> old.sources]
    OBVIOUS
<1>3. PICK del : del = [at |-> "submit", reply |-> r, record |-> x]
    OBVIOUS
<1>4. [old EXCEPT !.attempts = @ + 1, !.state = "Pending"] = x
    BY <1>2, CountedRecord
<1>5. ReplaceRecord(r, x) /\ submissions' = submissions /\ contended' = contended
    BY <1>1, <1>4 DEF CountAttempt, Sending, deliveryHistory
<1>6. /\ courier'[d] = del
      /\ \A e \in DeliveryTasks : e # d => courier'[e] = courier[e]
    <2>0. courier' = [courier EXCEPT ![d].record = x, ![d].at = "submit"]
        BY <1>1, <1>4 DEF CountAttempt, Sending
    <2> DEFINE first == [courier[d] EXCEPT !.record = x]
    <2>1. first = [at |-> "send", reply |-> r, record |-> x]
        BY <1>1
    <2>2. [courier EXCEPT ![d].record = x] = [courier EXCEPT ![d] = first]
        BY Zenon
    <2> HIDE DEF first
    <2>3. [first EXCEPT !.at = "submit"] = del
        BY <1>3, <2>1
    <2>4. courier' = [[courier EXCEPT ![d] = first] EXCEPT ![d].at = "submit"]
        BY <2>0, <2>2, Zenon
    <2> QED BY <1>0, <2>3, <2>4 DEF DeliveryTypeOK
<1>7. /\ disk'[r] = x /\ index'[r] = x
      /\ \A q \in ReplyIds : q # r => disk'[q] = disk[q] /\ index'[q] = index[q]
    BY <1>0, <1>5 DEF DeliveryTypeOK, ReplaceRecord
<1>8. /\ x.attempts = old.attempts + 1 /\ old.attempts \in Nat /\ x # NoRecord
      /\ del.at = "submit" /\ del.reply = r /\ del.record = x /\ del # NoDelivery
    BY <1>1, <1>2, <1>3 DEF Records, NoRecord, NoDelivery
<1>9. Past(d) /\ Past(d)'
    BY <1>1, <1>6, <1>8 DEF Past, NoDelivery
<1>10. r \notin contended => /\ old.attempts = index[r].attempts
                             /\ old.attempts < MaxSubmissions
                             /\ submissions[r] <= old.attempts
    BY <1>0, <1>1, <1>9 DEF HoldsInv, CountedInv
<1>11. BudgetTypeOK' /\ CountedInv'
    <2>1. \A q \in ReplyIds : q # r => Claims(q)' = Claims(q)
        BY <1>7 DEF Claims
    <2>2. disk'[r] # NoRecord
        BY <1>7, <1>8
    <2> QED BY <1>0, <1>5, <1>7, <1>8, <1>10, <2>1, <2>2, DeliveryAssumption
            DEF BudgetTypeOK, CountedInv
<1>12. \A e \in DeliveryTasks : e # d => (Past(e)' <=> Past(e))
    BY <1>6 DEF Past
<1>13. AloneInv'
    BY <1>0, <1>1, <1>5, <1>6, <1>8, <1>9, <1>12 DEF AloneInv
<1>14. HoldsInv'
    <2> SUFFICES ASSUME NEW e \in DeliveryTasks, Past(e)', courier'[e].reply \notin contended'
                 PROVE  /\ courier'[e].record.attempts = index'[courier'[e].reply].attempts
                        /\ courier'[e].at = "send" => courier'[e].record.attempts < MaxSubmissions
                        /\ courier'[e].at = "submit" =>
                              submissions'[courier'[e].reply] < courier'[e].record.attempts
        BY DEF HoldsInv
    <2>1. CASE e = d
        BY <1>0, <1>5, <1>6, <1>7, <1>8, <1>10, <2>1 DEF BudgetTypeOK
    <2>2. CASE e # d
        <3>1. courier'[e] = courier[e] /\ Past(e) /\ courier[e].reply \in ReplyIds
            BY <1>0, <1>6, <1>12, <2>2 DEF DeliveryTypeOK, Deliveries, Past
        <3>2. courier[e].reply # r
            BY <1>0, <1>1, <1>5, <1>9, <2>2, <3>1 DEF AloneInv
        <3> QED BY <1>0, <1>5, <1>7, <3>1, <3>2 DEF HoldsInv
    <2> QED BY <2>1, <2>2
<1> QED BY <1>11, <1>13, <1>14 DEF BudgetInv

(* What is submitted was counted. *)
LEMMA SubmitKeepsBudget ==
    ASSUME DeliveryInv, BudgetInv, NEW d \in DeliveryTasks, NEW reaches \in BOOLEAN,
           Submit(d, reaches)
    PROVE  BudgetInv'
<1>0. DeliveryTypeOK /\ RecordsInv /\ CouriersInv /\ BudgetTypeOK /\ CountedInv /\ HoldsInv /\ AloneInv
    BY DEF DeliveryInv, BudgetInv
<1>1. PICK r \in ReplyIds, old \in Records :
         /\ courier[d].reply = r /\ Claims(r) /\ courier[d].record = old /\ disk[r] # NoRecord
         /\ courier[d] = [at |-> "submit", reply |-> r, record |-> old]
    BY <1>0 DEF DeliveryTypeOK, Deliveries, CouriersInv, RecordsInv, Submit, NoDelivery
<1>2. PICK at \in {"stored", "lost"} : courier' = [courier EXCEPT ![d].at = at]
    BY DEF Submit, Arrives
<1>3. PICK del : del = [at |-> at, reply |-> r, record |-> old]
    OBVIOUS
<1>4. /\ submissions' = [submissions EXCEPT ![r] = @ + 1]
      /\ UNCHANGED <<disk, index, contended>>
    BY <1>1 DEF Submit
<1>5. /\ courier'[d] = del
      /\ \A e \in DeliveryTasks : e # d => courier'[e] = courier[e]
    <2>1. [courier[d] EXCEPT !.at = at] = del
        BY <1>1, <1>3
    <2>2. courier' = [courier EXCEPT ![d] = [courier[d] EXCEPT !.at = at]]
        BY <1>2, Zenon
    <2> QED BY <1>0, <2>1, <2>2 DEF DeliveryTypeOK
<1>6. /\ submissions'[r] = submissions[r] + 1 /\ submissions' \in [ReplyIds -> Nat]
      /\ \A q \in ReplyIds : q # r => submissions'[q] = submissions[q]
    BY <1>0, <1>4 DEF BudgetTypeOK
<1>7. /\ del.at \in {"stored", "lost"} /\ del.reply = r /\ del.record = old /\ del # NoDelivery
      /\ old.attempts \in Nat
    BY <1>1, <1>3 DEF Records, NoDelivery
<1>8. Past(d) /\ Past(d)'
    BY <1>1, <1>5, <1>7 DEF Past, NoDelivery
<1>9. r \notin contended => /\ old.attempts = index[r].attempts
                            /\ submissions[r] < old.attempts
                            /\ index[r].attempts <= MaxSubmissions
    BY <1>0, <1>1, <1>8 DEF HoldsInv, CountedInv
<1>10. BudgetTypeOK' /\ CountedInv'
    <2>1. \A q \in ReplyIds : Claims(q)' = Claims(q)
        BY <1>4 DEF Claims
    <2>2. r \notin contended => submissions'[r] <= index[r].attempts /\ submissions'[r] <= MaxSubmissions
        BY <1>0, <1>6, <1>7, <1>9, DeliveryAssumption DEF BudgetTypeOK
    <2> QED BY <1>0, <1>1, <1>4, <1>6, <1>9, <2>1, <2>2 DEF BudgetTypeOK, CountedInv
<1>11. \A e \in DeliveryTasks : e # d => (Past(e)' <=> Past(e))
    BY <1>5 DEF Past
<1>12. AloneInv'
    BY <1>0, <1>1, <1>4, <1>5, <1>7, <1>8, <1>11 DEF AloneInv
<1>13. HoldsInv'
    <2> SUFFICES ASSUME NEW e \in DeliveryTasks, Past(e)', courier'[e].reply \notin contended'
                 PROVE  /\ courier'[e].record.attempts = index'[courier'[e].reply].attempts
                        /\ courier'[e].at = "send" => courier'[e].record.attempts < MaxSubmissions
                        /\ courier'[e].at = "submit" =>
                              submissions'[courier'[e].reply] < courier'[e].record.attempts
        BY DEF HoldsInv
    <2>1. CASE e = d
        BY <1>4, <1>5, <1>7, <1>9, <2>1
    <2>2. CASE e # d
        <3>1. courier'[e] = courier[e] /\ Past(e) /\ courier[e].reply \in ReplyIds
            BY <1>0, <1>5, <1>11, <2>2 DEF DeliveryTypeOK, Deliveries, Past
        <3>2. courier[e].reply # r
            BY <1>0, <1>1, <1>4, <1>8, <2>2, <3>1 DEF AloneInv
        <3> QED BY <1>0, <1>4, <1>6, <3>1, <3>2 DEF HoldsInv
    <2> QED BY <2>1, <2>2
<1> QED BY <1>10, <1>12, <1>13 DEF BudgetInv

-----------------------------------------------------------------------------
(* BudgetInv holds at the start ...                                        *)
LEMMA BudgetInitially ==
    ASSUME DeliveryInit
    PROVE  BudgetInv
<1>1. \A d \in DeliveryTasks : ~Past(d)
    BY DEF DeliveryInit, Past
<1>2. \A r \in ReplyIds : ~Claims(r)
    BY DEF DeliveryInit, Claims
<1> QED BY <1>1, <1>2, DeliveryAssumption
        DEF DeliveryInit, BudgetInv, BudgetTypeOK, CountedInv, HoldsInv, AloneInv

(* ... and is kept by every step.                                          *)
LEMMA BudgetInvariance ==
    ASSUME DeliveryInv, DeliveryInv', BudgetInv, [DeliveryNext]_deliveryVars
    PROVE  BudgetInv'
<1>1. CASE UNCHANGED deliveryVars
    BY <1>1, OthersKeepBudget DEF deliveryVars, deliveryHistory
<1>2. ASSUME NEW d \in DeliveryTasks, Courier(d)
      PROVE  BudgetInv'
    BY <1>2, ReturnKeepsBudget, ReadKeepsBudget, CountKeepsBudget, SubmitKeepsBudget DEF Courier
<1>3. ASSUME \/ \E s \in Sources : Intake(s) \/ SuppressReplay(s)
             \/ \E t \in Turns :
                   \/ \E batch \in SUBSET Sources : StartTurn(t, batch)
                   \/ \E s \in Sources : NativeSteer(t, s)
                   \/ TurnFails(t) \/ EndsWithoutRecord(t) \/ PersistFails(t)
      PROVE  BudgetInv'
    <2>1. UNCHANGED <<disk, index, courier, submissions, contended>>
        BY <1>3, EventsMove DEF deliveryHistory
    <2> QED BY <2>1, OthersKeepBudget
<1> QED BY <1>1, <1>2, <1>3, OthersKeepBudget DEF DeliveryNext

(* A reply that no two couriers delivered at the same time is submitted at *)
(* most MaxSubmissions times, whenever the process died and whichever      *)
(* write failed.                                                           *)
THEOREM BudgetAlwaysSurvives == DeliverySpec => []BudgetSurvivesCrashes
<1>1. DeliverySpec => [](DeliveryInv /\ BudgetInv)
    BY DeliveryInitially, DeliveryInvariance, BudgetInitially, BudgetInvariance, PTL DEF DeliverySpec
<1>2. BudgetInv => BudgetSurvivesCrashes
    BY DEF BudgetInv, CountedInv, BudgetSurvivesCrashes
<1> QED BY <1>1, <1>2, PTL
=============================================================================
