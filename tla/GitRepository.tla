--------------------------- MODULE GitRepository ---------------------------
(***************************************************************************)
(* What the relay promises of a hosted repository, with no object store,   *)
(* no workspaces and no concurrent handlers in sight: its refs change by   *)
(* whole pushes, one at a time, each of which finds every ref it updates   *)
(* at the value its client saw.                                            *)
(***************************************************************************)
EXTENDS Naturals, Sequences

CONSTANTS
    Refs,      \* names of branches and tags
    Oids,      \* commits
    NoOid,     \* "this ref does not exist", as old or new value of a command
    Ids        \* of pushes

VARIABLES
    repoRefs,  \* the refs that exist, each with its commit
    applied    \* the pushes so far

Value(refs, r) == IF r \in DOMAIN refs THEN refs[r] ELSE NoOid

(* The refs after a set of updates. *)
Apply(refs, new) ==
    LET value(r) == IF r \in DOMAIN new THEN new[r] ELSE Value(refs, r)
        exist    == {r \in DOMAIN refs \cup DOMAIN new : value(r) # NoOid}
    IN [r \in exist |-> value(r)]

(* A push is an id and, for each ref it updates, the value that ref had    *)
(* and the value it got.                                                   *)
PushApplied(id, new) ==
    /\ repoRefs' = Apply(repoRefs, new)
    /\ applied' = Append(applied,
           [id |-> id, cmd |-> [r \in DOMAIN new |-> [old |-> Value(repoRefs, r), new |-> new[r]]]])

(* A repository may be old: it has the refs it has. *)
RepositoryInit ==
    /\ repoRefs \in UNION {[S -> Oids] : S \in SUBSET Refs}
    /\ applied = << >>

(* A push is all that ever happens to it. *)
RepositoryNext ==
    /\ Len(applied') = Len(applied) + 1
    /\ \E id \in Ids, S \in (SUBSET Refs) \ {{}} : \E new \in [S -> Oids \cup {NoOid}] :
          PushApplied(id, new)

Repository == RepositoryInit /\ [][RepositoryNext]_<<repoRefs, applied>>
=============================================================================
