---------------------------- MODULE RepoAnnounce ----------------------------
(***************************************************************************)
(* Announcing a git repository (kind 30617): handle_git_repo_announcement  *)
(* in crates/buzz-relay/src/handlers/side_effects.rs and the name registry *)
(* in crates/buzz-db/src/git_repo.rs. An announcement reserves the name in *)
(* Postgres, then seeds the pointer of (owner, name) in the object store,  *)
(* and takes the reservation back when that fails. The handlers of one     *)
(* owner and of several run at once, each statement and each request to    *)
(* the store on its own; pushes go on meanwhile.                           *)
(*                                                                         *)
(* The announcement itself is stored before its handler runs, and stays    *)
(* whatever the handler returns. The 30618 event that follows a fresh      *)
(* reservation is a notification and left out.                             *)
(***************************************************************************)
EXTENDS FiniteSets, Naturals

CONSTANTS
    Owners, NoOwner,
    RepoNames,
    Handlers,         \* announcements being handled at a time
    MaxRepos,         \* git_max_repos_per_pubkey
    MaxAnnouncements  \* bound on the announcements

ASSUME AnnounceAssumption ==
    /\ NoOwner \notin Owners /\ IsFiniteSet(Handlers)
    /\ MaxRepos \in Nat \ {0} /\ MaxAnnouncements \in Nat

VARIABLES
    nameOwner,      \* git_repo_names: the owner of each name's row
    repoPointer,    \* of (owner, name): "absent", "empty" or "pushed"
    announced,      \* the (owner, name) with a stored announcement
    handler,        \* what each handler is at
    announcements,  \* announcements begun
    confirmed       \* history: the (owner, name) some handler returned Ok for

announceVars == <<nameOwner, repoPointer, announced, handler, announcements, confirmed>>

Resting == [pc |-> "resting"]

AnnounceInit ==
    /\ nameOwner = [n \in RepoNames |-> NoOwner]
    /\ repoPointer = [r \in Owners \X RepoNames |-> "absent"]
    /\ announced = {}
    /\ handler = [h \in Handlers |-> Resting]
    /\ announcements = 0
    /\ confirmed = {}

-----------------------------------------------------------------------------
At(h, pc) == handler[h].pc = pc

RepoOf(h) == <<handler[h].owner, handler[h].name>>

Goto(h, pc) == handler' = [handler EXCEPT ![h].pc = pc]

Return(h) == handler' = [handler EXCEPT ![h] = Resting]

ReturnOk(h) == Return(h) /\ confirmed' = confirmed \cup {RepoOf(h)}

(* The pointer could not be established: take the row back if this attempt *)
(* inserted it.                                                            *)
PointerErr(h) ==
    /\ IF handler[h].fresh THEN Goto(h, "releasing") ELSE Return(h)
    /\ UNCHANGED confirmed

(* ingest stores the announcement and then runs the handler. *)
Announce(h, o, n) ==
    /\ At(h, "resting")
    /\ announcements < MaxAnnouncements
    /\ announcements' = announcements + 1
    /\ announced' = announced \cup {<<o, n>>}
    /\ handler' = [handler EXCEPT ![h] =
                      [pc |-> "announced", owner |-> o, name |-> n, fresh |-> FALSE]]
    /\ UNCHANGED <<nameOwner, repoPointer, confirmed>>

(* Mutant of PeekOwner: the row is taken for the repository. *)
PeekOwnerTrustsRow(h) ==
    /\ At(h, "announced")
    /\ CASE nameOwner[handler[h].name] = NoOwner -> Goto(h, "unowned") /\ UNCHANGED confirmed
         [] nameOwner[handler[h].name] = handler[h].owner -> ReturnOk(h)
         [] OTHER -> Return(h) /\ UNCHANGED confirmed
    /\ UNCHANGED <<nameOwner, repoPointer, announced, announcements>>

(* repo_name_owner: a re-announcement, a collision or a new name. *)
PeekOwner(h) ==
    /\ At(h, "announced")
    /\ CASE nameOwner[handler[h].name] = NoOwner -> Goto(h, "unowned")
         [] nameOwner[handler[h].name] = handler[h].owner -> Goto(h, "owned")
         [] OTHER -> Return(h)
    /\ UNCHANGED <<nameOwner, repoPointer, announced, announcements, confirmed>>

Owned(o) == {n \in RepoNames : nameOwner[n] = o}

(* Mutant of CheckQuota: no limit. *)
CheckQuotaNot(h) ==
    /\ At(h, "unowned")
    /\ Goto(h, "counted")
    /\ UNCHANGED <<nameOwner, repoPointer, announced, announcements, confirmed>>

(* count_repos_for_owner. *)
CheckQuota(h) ==
    /\ At(h, "unowned")
    /\ IF Cardinality(Owned(handler[h].owner)) >= MaxRepos THEN Return(h) ELSE Goto(h, "counted")
    /\ UNCHANGED <<nameOwner, repoPointer, announced, announcements, confirmed>>

(* reserve_repo_name: INSERT ... ON CONFLICT DO NOTHING ... *)
InsertName(h) ==
    /\ At(h, "counted")
    /\ IF nameOwner[handler[h].name] = NoOwner
       THEN /\ nameOwner' = [nameOwner EXCEPT ![handler[h].name] = handler[h].owner]
            /\ handler' = [handler EXCEPT ![h].pc = "seeding", ![h].fresh = TRUE]
       ELSE Goto(h, "conflict") /\ UNCHANGED nameOwner
    /\ UNCHANGED <<repoPointer, announced, announcements, confirmed>>

(* ... and SELECT, when the row was there. One that is gone again counts   *)
(* as another owner's.                                                     *)
ReadHolder(h) ==
    /\ At(h, "conflict")
    /\ IF nameOwner[handler[h].name] = handler[h].owner THEN Goto(h, "owned") ELSE Return(h)
    /\ UNCHANGED <<nameOwner, repoPointer, announced, announcements, confirmed>>

(* ensure_manifest_pointer: any pointer will do. *)
EnsurePointer(h) ==
    /\ At(h, "owned")
    /\ IF repoPointer[RepoOf(h)] = "absent"
       THEN Goto(h, "seeding") /\ UNCHANGED confirmed
       ELSE ReturnOk(h)
    /\ UNCHANGED <<nameOwner, repoPointer, announced, announcements>>

(* Mutant of SeedPointer: the pointer is put, present or not. *)
SeedPointerAnyway(h) ==
    /\ At(h, "seeding")
    /\ repoPointer' = [repoPointer EXCEPT ![RepoOf(h)] = "empty"]
    /\ ReturnOk(h)
    /\ UNCHANGED <<nameOwner, announced, announcements>>

(* seed_manifest_pointer: the create-only put of the empty manifest. *)
SeedPointer(h) ==
    /\ At(h, "seeding")
    /\ IF repoPointer[RepoOf(h)] = "absent"
       THEN repoPointer' = [repoPointer EXCEPT ![RepoOf(h)] = "empty"] /\ ReturnOk(h)
       ELSE Goto(h, "lost_race") /\ UNCHANGED <<repoPointer, confirmed>>
    /\ UNCHANGED <<nameOwner, announced, announcements>>

(* ... after a lost race the pointer must still be the empty one. *)
RereadPointer(h) ==
    /\ At(h, "lost_race")
    /\ IF repoPointer[RepoOf(h)] = "empty" THEN ReturnOk(h) ELSE PointerErr(h)
    /\ UNCHANGED <<nameOwner, repoPointer, announced, announcements>>

(* The store fails, before the pointer was written or after. *)
StoreFails(h) ==
    /\ \/ handler[h].pc \in {"owned", "lost_race", "seeding"} /\ UNCHANGED repoPointer
       \/ /\ At(h, "seeding")
          /\ repoPointer[RepoOf(h)] = "absent"
          /\ repoPointer' = [repoPointer EXCEPT ![RepoOf(h)] = "empty"]
    /\ PointerErr(h)
    /\ UNCHANGED <<nameOwner, announced, announcements>>

(* release_repo_name: DELETE ... WHERE owner_pubkey = $3. *)
ReleaseName(h) ==
    /\ At(h, "releasing")
    /\ nameOwner' = [nameOwner EXCEPT ![handler[h].name] =
                        IF @ = handler[h].owner THEN NoOwner ELSE @]
    /\ Return(h)
    /\ UNCHANGED <<repoPointer, announced, announcements, confirmed>>

(* The database fails, or the process dies: nothing more is undone. *)
Abandon(h) ==
    /\ ~At(h, "resting")
    /\ Return(h)
    /\ UNCHANGED <<nameOwner, repoPointer, announced, announcements, confirmed>>

(* hook_policy_check asks for a stored announcement, not for the name's    *)
(* row, and a push that finds no pointer makes one.                        *)
Push(o, n) ==
    /\ <<o, n>> \in announced
    /\ repoPointer[<<o, n>>] # "pushed"
    /\ repoPointer' = [repoPointer EXCEPT ![<<o, n>>] = "pushed"]
    /\ UNCHANGED <<nameOwner, announced, handler, announcements, confirmed>>

AnnounceNext ==
    \/ \E h \in Handlers :
          \/ \E o \in Owners, n \in RepoNames : Announce(h, o, n)
          \/ PeekOwner(h) \/ CheckQuota(h) \/ InsertName(h) \/ ReadHolder(h)
          \/ EnsurePointer(h) \/ SeedPointer(h) \/ RereadPointer(h)
          \/ StoreFails(h) \/ ReleaseName(h) \/ Abandon(h)
    \/ \E o \in Owners, n \in RepoNames : Push(o, n)

AnnounceSpec == AnnounceInit /\ [][AnnounceNext]_announceVars

-----------------------------------------------------------------------------
(* "trusting the row alone would let this handler 'accept' an uncloneable  *)
(* repo": what a handler confirmed has a pointer, however the attempts of  *)
(* its owner overlapped, failed or were rolled back.                       *)
ConfirmedIsClonable == \A r \in confirmed : repoPointer[r] # "absent"

(* "a re-announce ... must never overwrite real ref state": once pushed to *)
(* a repository is never empty again.                                      *)
PushSurvivesAnnounce ==
    [][\A r \in Owners \X RepoNames :
          repoPointer[r] = "pushed" => repoPointer'[r] = "pushed"]_announceVars

(* The quota is read in one statement and the row inserted in another, so  *)
(* announcements at the same time overrun it, by one each and no more.     *)
QuotaOverrunBounded ==
    \A o \in Owners : Cardinality(Owned(o)) <= MaxRepos + Cardinality(Handlers) - 1

(* "A genuine failure from a fresh Reserved attempt means the pointer      *)
(* truly could not be established, so releasing our own just-inserted row  *)
(* is safe and correct": a name is not given up while its repository is    *)
(* one that was confirmed.                                                 *)
ReleaseIsSafe ==
    [][\A r \in confirmed : nameOwner[r[2]] = r[1] => nameOwner'[r[2]] = r[1]]_announceVars
=============================================================================
