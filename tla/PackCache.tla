----------------------------- MODULE PackCache -----------------------------
(***************************************************************************)
(* The relay's local cache of git packs (crates/buzz-relay/src/api/git/    *)
(* pack_cache.rs): entries in memory that name directories on disk, one    *)
(* population of a digest at a time, eviction of the least recently used   *)
(* entry that no request holds. The state is behind a mutex; disk and      *)
(* object store are reached without it, so the steps below interleave.     *)
(*                                                                         *)
(* A pack and its index are one thing here, and both hard links too: an    *)
(* entry is installed as a whole or not at all. An Arc is a number, its    *)
(* strong_count the record and the requests that hold it.                  *)
(***************************************************************************)
EXTENDS Naturals, Sequences, FiniteSets

CONSTANTS
    Requests,
    Digests,
    PackBytes,       \* pack and index of each digest
    MaxBytes,        \* git_pack_cache_max_bytes
    MaxPopulations,  \* permits of population_semaphore
    MaxRequests,     \* bound on the requests
    NoFlight

ASSUME PackCacheAssumption ==
    /\ PackBytes \in [Digests -> Nat \ {0}]
    /\ MaxBytes \in Nat /\ MaxPopulations \in Nat \ {0} /\ MaxRequests \in Nat
    /\ IsFiniteSet(Requests) /\ IsFiniteSet(Digests) /\ NoFlight \notin Nat

VARIABLES
    entries,     \* digest -> its record: the Arc, and the tick of its last use
    tick,        \* lookups and insertions so far
    total_bytes,
    dirs,        \* the digests whose directory is on disk
    flights,     \* digest -> its flight, a number
    flight,      \* each flight ever: its participants, and who has its lock
    request,     \* what each request is at
    begun,       \* requests begun
    arcs,        \* Arcs made
    unpruned     \* history: a request went away without pruning

cacheVars == <<entries, tick, total_bytes, dirs, flights, flight, request, begun, arcs, unpruned>>

Unstarted == [at |-> "unstarted"]

PackCacheInit ==
    /\ entries = << >> /\ tick = 0 /\ total_bytes = 0
    /\ dirs = {}
    /\ flights = [d \in Digests |-> NoFlight]
    /\ flight = << >>
    /\ request = [r \in Requests |-> Unstarted]
    /\ begun = 0 /\ arcs = 0
    /\ unpruned = FALSE

-----------------------------------------------------------------------------
Without(f, d) == [x \in DOMAIN f \ {d} |-> f[x]]

(* An entry is in scope while it is installed. *)
Holds(r, arc) == request[r].at \in {"hit", "install"} /\ request[r].arc = arc

(* lookup: the entry's files must be there. *)
Found(d) == d \in DOMAIN entries /\ d \in dirs

(* A lookup takes a tick, found or not. *)
Lookup(d) ==
    /\ tick' = tick + 1
    /\ entries' = IF Found(d)
                  THEN [entries EXCEPT ![d] = [entry |-> @.entry, last_used |-> tick + 1]]
                  ELSE entries

Step(r, at) == request' = [request EXCEPT ![r] = [at |-> at, d |-> @.d, fl |-> @.fl]]

Hold(r, at, arc) ==
    request' = [request EXCEPT ![r] = [at |-> at, d |-> @.d, fl |-> @.fl, arc |-> arc]]

(* materialize_pack begins with a lookup. *)
Begin(r, d) ==
    /\ request[r].at = "unstarted"
    /\ begun < MaxRequests
    /\ begun' = begun + 1
    /\ Lookup(d)
    /\ IF Found(d)
       THEN request' = [request EXCEPT ![r] = [at |-> "hit", d |-> d, fl |-> NoFlight,
                                               arc |-> entries[d].entry]]
       ELSE request' = [request EXCEPT ![r] = [at |-> "miss", d |-> d, fl |-> NoFlight]]
    /\ UNCHANGED <<total_bytes, dirs, flights, flight, arcs, unpruned>>

InstallHit(r) ==
    /\ request[r].at = "hit"
    /\ request[r].d \in dirs
    /\ Step(r, "prune")
    /\ UNCHANGED <<entries, tick, total_bytes, dirs, flights, flight, begun, arcs, unpruned>>

(* Mutant of Forget: the bytes of the record stay counted. *)
ForgetKeepsBytes(d) ==
    /\ entries' = Without(entries, d)
    /\ UNCHANGED total_bytes

(* A record is removed, with its bytes. *)
Forget(d) ==
    /\ entries' = Without(entries, d)
    /\ total_bytes' = total_bytes - PackBytes[d]

(* The files are gone or cannot be linked or copied: invalidate, whose     *)
(* caller still holds the entry, so that its directory is removed only if  *)
(* the record is a newer one.                                              *)
InstallHitFails(r) ==
    /\ request[r].at = "hit"
    /\ LET d == request[r].d IN
       IF d \in DOMAIN entries
       THEN /\ Forget(d)
            /\ IF \E q \in Requests : Holds(q, entries[d].entry)
               THEN Step(r, "miss")
               ELSE request' = [request EXCEPT ![r] = [at |-> "unlink", d |-> d, fl |-> NoFlight,
                                                       removed |-> {d}, then |-> "miss"]]
       ELSE Step(r, "miss") /\ UNCHANGED <<entries, total_bytes>>
    /\ UNCHANGED <<tick, dirs, flights, flight, begun, arcs, unpruned>>

(* Join the flight of the digest, or start one. *)
Join(r) ==
    /\ request[r].at = "miss"
    /\ LET d == request[r].d
           f == IF flights[d] = NoFlight THEN Len(flight) + 1 ELSE flights[d]
       IN
       /\ flights' = [flights EXCEPT ![d] = f]
       /\ flight' = IF f \in DOMAIN flight
                    THEN [flight EXCEPT ![f].participants = @ + 1]
                    ELSE Append(flight, [participants |-> 1, lock |-> {}])
       /\ request' = [request EXCEPT ![r] = [at |-> "wait", d |-> d, fl |-> f]]
    /\ UNCHANGED <<entries, tick, total_bytes, dirs, begun, arcs, unpruned>>

(* The flight's lock, and the second lookup. *)
Lock(r) ==
    /\ request[r].at = "wait"
    /\ flight[request[r].fl].lock = {}
    /\ flight' = [flight EXCEPT ![request[r].fl].lock = {r}]
    /\ Lookup(request[r].d)
    /\ IF Found(request[r].d)
       THEN Hold(r, "install", entries[request[r].d].entry)
       ELSE Step(r, "populate")
    /\ UNCHANGED <<total_bytes, dirs, flights, begun, arcs, unpruned>>

Populating == {r \in Requests : request[r].at = "fetch"}

AcquirePermit(r) ==
    /\ request[r].at = "populate"
    /\ Cardinality(Populating) < MaxPopulations
    /\ Step(r, "fetch")
    /\ UNCHANGED <<entries, tick, total_bytes, dirs, flights, flight, begun, arcs, unpruned>>

(* The store or the disk fails. *)
FetchFails(r) ==
    /\ request[r].at \in {"populate", "fetch"}
    /\ Step(r, "leave")
    /\ UNCHANGED <<entries, tick, total_bytes, dirs, flights, flight, begun, arcs, unpruned>>

(* Larger than the cache: installed from the staging directory. *)
FetchBypass(r) ==
    /\ request[r].at = "fetch"
    /\ PackBytes[request[r].d] > MaxBytes
    /\ Step(r, "leave")
    /\ UNCHANGED <<entries, tick, total_bytes, dirs, flights, flight, begun, arcs, unpruned>>

(* insert, in place of a record whose files had gone. *)
Insert(r, d) ==
    /\ arcs' = arcs + 1 /\ tick' = tick + 1
    /\ Hold(r, "install", arcs + 1)
    /\ entries' = [x \in DOMAIN entries \cup {d} |->
                     IF x = d THEN [entry |-> arcs + 1, last_used |-> tick + 1] ELSE entries[x]]
    /\ total_bytes' = IF d \in DOMAIN entries THEN total_bytes ELSE total_bytes + PackBytes[d]

(* The pack is verified and indexed. A directory that is already there is  *)
(* taken as it is, even one that a prune is about to remove.               *)
Publish(r) ==
    /\ request[r].at = "fetch"
    /\ PackBytes[request[r].d] <= MaxBytes
    /\ dirs' = dirs \cup {request[r].d}
    /\ Insert(r, request[r].d)
    /\ UNCHANGED <<flights, flight, begun, unpruned>>

(* install_entry: an error if the directory has gone, or on a full disk.   *)
InstallEntry(r) ==
    /\ request[r].at = "install"
    /\ Step(r, "leave")
    /\ UNCHANGED <<entries, tick, total_bytes, dirs, flights, flight, begun, arcs, unpruned>>

(* drop(guard), then drop(flight_participant), which counts itself out ... *)
Depart(r, last, otherwise) ==
    LET f == request[r].fl IN
    /\ flight' = [flight EXCEPT ![f] = [participants |-> @.participants - 1,
                                        lock |-> @.lock \ {r}]]
    /\ Step(r, IF flight[f].participants = 1 THEN last ELSE otherwise)

Leave(r) ==
    /\ request[r].at = "leave"
    /\ Depart(r, "last", "prune")
    /\ UNCHANGED <<entries, tick, total_bytes, dirs, flights, begun, arcs, unpruned>>

(* Mutant of RemoveFlight: whoever brought the count to zero removes the   *)
(* flight, though another has joined it since.                             *)
RemoveFlightAnyway(d, f) == flights' = [flights EXCEPT ![d] = NoFlight]

(* ... and remove_flight, under the lock of the map. *)
RemoveFlight(d, f) ==
    flights' = IF flights[d] = f /\ flight[f].participants = 0
               THEN [flights EXCEPT ![d] = NoFlight] ELSE flights

(* Mutant of LeaveLast: the last of a flight returns without pruning. *)
LeaveLastReturns(r) ==
    /\ request[r].at \in {"last", "cancelled"}
    /\ RemoveFlight(request[r].d, request[r].fl)
    /\ request' = [request EXCEPT ![r] = Unstarted]
    /\ UNCHANGED <<entries, tick, total_bytes, dirs, flight, begun, arcs, unpruned>>

LeaveLast(r) ==
    /\ request[r].at \in {"last", "cancelled"}
    /\ RemoveFlight(request[r].d, request[r].fl)
    /\ IF request[r].at = "last" THEN Step(r, "prune")
       ELSE request' = [request EXCEPT ![r] = Unstarted]
    /\ UNCHANGED <<entries, tick, total_bytes, dirs, flight, begun, arcs, unpruned>>

(* The client goes away and the handler's future is dropped at an await:   *)
(* entry, lock and participation are given back, nothing is pruned.        *)
Cancel(r) ==
    /\ request[r].at \in {"hit", "wait", "populate", "fetch", "install"}
    /\ IF request[r].fl = NoFlight
       THEN request' = [request EXCEPT ![r] = Unstarted] /\ UNCHANGED flight
       ELSE Depart(r, "cancelled", "cancelled")
    /\ unpruned' = TRUE
    /\ UNCHANGED <<entries, tick, total_bytes, dirs, flights, begun, arcs>>

(* The bytes of a set of packs. *)
BytesOf[S \in SUBSET Digests] ==
    IF S = {} THEN 0
    ELSE LET d == CHOOSE d \in S : TRUE IN PackBytes[d] + BytesOf[S \ {d}]

(* The entries that no request holds. *)
Evictable == {d \in DOMAIN entries : ~\E q \in Requests : Holds(q, entries[d].entry)}

(* Of these, least recently used first, as many as bring the cache within  *)
(* its bound, or all.                                                      *)
Evicted ==
    LET older(d) == {x \in Evictable : entries[x].last_used < entries[d].last_used}
    IN {d \in Evictable : total_bytes - BytesOf[older(d)] > MaxBytes}

(* prune, under the mutex; the directories are removed after it. *)
Prune(r) ==
    /\ request[r].at = "prune"
    /\ LET gone == Evicted IN
       /\ entries' = [d \in DOMAIN entries \ gone |-> entries[d]]
       /\ total_bytes' = total_bytes - BytesOf[gone]
       /\ request' = [request EXCEPT ![r] =
                         IF gone = {} THEN Unstarted
                         ELSE [at |-> "unlink", d |-> @.d, fl |-> NoFlight,
                               removed |-> gone, then |-> "unstarted"]]
    /\ unpruned' = FALSE
    /\ UNCHANGED <<tick, dirs, flights, flight, begun, arcs>>

Unlink(r) ==
    /\ request[r].at = "unlink"
    /\ dirs' = dirs \ request[r].removed
    /\ IF request[r].then = "miss" THEN Step(r, "miss")
       ELSE request' = [request EXCEPT ![r] = Unstarted]
    /\ UNCHANGED <<entries, tick, total_bytes, flights, flight, begun, arcs, unpruned>>

PackCacheNext ==
    \E r \in Requests :
        \/ \E d \in Digests : Begin(r, d)
        \/ InstallHit(r) \/ InstallHitFails(r) \/ Join(r) \/ Lock(r)
        \/ AcquirePermit(r) \/ FetchFails(r) \/ FetchBypass(r) \/ Publish(r)
        \/ InstallEntry(r) \/ Leave(r) \/ LeaveLast(r) \/ Cancel(r)
        \/ Prune(r) \/ Unlink(r)

PackCacheSpec == PackCacheInit /\ [][PackCacheNext]_cacheVars

-----------------------------------------------------------------------------
(* The count of bytes is that of the records, whatever was replaced,       *)
(* invalidated by a request with an older entry, or evicted, so that the   *)
(* subtractions never saturate; and no two records were last used at the   *)
(* same tick, so that prune's choice is not left to the map's order.       *)
BytesAccounted ==
    /\ total_bytes = BytesOf[DOMAIN entries]
    /\ \A d, e \in DOMAIN entries : entries[d].last_used = entries[e].last_used => d = e

(* "Concurrent misses for the same digest share one population flight":    *)
(* no two requests fetch the same digest, though flights are left, removed *)
(* and joined without a common lock.                                       *)
OnePopulation ==
    \A q, r \in Requests :
        /\ {request[q].at, request[r].at} \subseteq {"populate", "fetch"}
        /\ request[q].d = request[r].d
        => q = r

(* "byte-bounded": when the last request has gone the cache is within its  *)
(* bound, unless one was dropped since before it could prune. An entry     *)
(* held during somebody's prune is pruned by its holder.                   *)
WithinBoundAtRest ==
    (\A r \in Requests : request[r] = Unstarted) /\ ~unpruned => total_bytes <= MaxBytes
=============================================================================
