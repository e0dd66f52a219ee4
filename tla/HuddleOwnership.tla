-------------------------- MODULE HuddleOwnership --------------------------
(***************************************************************************)
(* One huddle across the pods of a relay deployment. The lease in Redis    *)
(* (crates/buzz-relay/src/tunnel/directory.rs) says which pod owns it; the *)
(* owner keeps a registry entry and a renewer for the lease (audio/        *)
(* join.rs); every connection resolves the owner, joins the owner's room,  *)
(* over the mesh if need be, and the last one out archives the channel,    *)
(* cleans the room up and gives the lease back (audio/handler.rs,          *)
(* audio/room.rs). Leases expire, Redis and the database fail, and pods    *)
(* drain, between any two awaits of a connection.                          *)
(*                                                                         *)
(* A connection lives once. The capacity and the protocol version of a     *)
(* room are left to choice, media and rosters are left out, and a crash of *)
(* a pod is seen by the others as the expiry of its lease.                 *)
(***************************************************************************)
EXTENDS Naturals, Sequences

CONSTANTS
    Pods,
    Connections,    \* each a join of some client at some pod
    MaxGeneration   \* bound on the acquisitions

ASSUME HuddleAssumption == MaxGeneration \in Nat \ {0}

VARIABLES
    lease,       \* the lease key: the owner and its generation, or NoLease
    generation,  \* the generation key, never expiring
    renewer,     \* by generation: its task and the tokens around it
    entry,       \* HuddleOwnerRegistry::entries of each pod: a generation or 0
    drain,       \* drain_all of each pod: "no", "begun", "collected" or "done"
    drainGen,    \* what drain_all collected: a generation or 0
    rooms,       \* every Room ever created: its peers and its ended flag
    manager,     \* AudioRoomManager of each pod: an index into rooms or 0
    archived,    \* the channel's archived_at
    conn

leaseVars == <<lease, generation>>
roomVars == <<rooms, manager>>
drainVars == <<drain, drainGen>>
huddleVars == <<leaseVars, renewer, entry, drainVars, roomVars, archived, conn>>

NoLease == [owner |-> "nobody", gen |-> 0]

Generations == 1 .. MaxGeneration

(* pod: where the WebSocket is; owner, gen: what resolve_join returned;    *)
(* acquired: this connection won the lease; room, ownerRoom: the Arc<Room> *)
(* it holds, and the one the owner's control loop holds for it.            *)
Fresh(p) == [pc |-> "resolving", pod |-> p, owner |-> p, gen |-> 0, acquired |-> FALSE,
             room |-> 0, ownerRoom |-> 0]

HuddleInit ==
    /\ lease = NoLease
    /\ generation = 0
    /\ renewer = [g \in Generations |-> [task |-> "none", cancel |-> FALSE]]
    /\ entry = [p \in Pods |-> 0]
    /\ drain = [p \in Pods |-> "no"]
    /\ drainGen = [p \in Pods |-> 0]
    /\ rooms = << >>
    /\ manager = [p \in Pods |-> 0]
    /\ archived = FALSE
    /\ conn \in [Connections -> {[pc |-> "out", pod |-> p] : p \in Pods}]

-----------------------------------------------------------------------------
IsAt(c, pc) == conn[c].pc = pc

Move(c, pc) == conn' = [conn EXCEPT ![c].pc = pc]

IsRemote(c) == conn[c].owner # conn[c].pod

(* get_or_create: the room, and the rooms and manager after it. *)
RoomAt(p) == IF manager[p] = 0 THEN Len(rooms) + 1 ELSE manager[p]

GetOrCreate(p) ==
    IF manager[p] = 0
    THEN /\ rooms' = Append(rooms, [peers |-> {}, ended |-> FALSE])
         /\ manager' = [manager EXCEPT ![p] = RoomAt(p)]
    ELSE UNCHANGED roomVars

Empties(p) == manager[p] # 0 /\ rooms[manager[p]].peers = {}

CleanupIfEmpty(p) ==
    /\ manager' = IF Empties(p) THEN [manager EXCEPT ![p] = 0] ELSE manager
    /\ UNCHANGED rooms

-----------------------------------------------------------------------------
(* ensure_membership lets nobody into an archived channel, and a draining  *)
(* pod admits nobody.                                                      *)
JoinHuddle(c) ==
    /\ IsAt(c, "out")
    /\ ~archived
    /\ drain[conn[c].pod] = "no"
    /\ conn' = [conn EXCEPT ![c] = Fresh(conn[c].pod)]
    /\ UNCHANGED <<leaseVars, renewer, entry, drainVars, roomVars, archived>>

(* Where resolve_join goes with a lease that is held. *)
RouteTo(c, l) ==
    conn' = [conn EXCEPT ![c] = [@ EXCEPT
                !.owner = l.owner, !.gen = l.gen,
                !.pc = IF l.owner = conn[c].pod THEN "owner_ready" ELSE "resolved"]]

(* resolve_join: owner_of, ... *)
LookUpOwner(c) ==
    /\ IsAt(c, "resolving")
    /\ IF lease = NoLease THEN Move(c, "acquiring") ELSE RouteTo(c, lease)
    /\ UNCHANGED <<leaseVars, renewer, entry, drainVars, roomVars, archived>>

(* ... and ACQUIRE_SCRIPT if nobody was. *)
AcquireLease(c) ==
    /\ IsAt(c, "acquiring")
    /\ IF lease = NoLease
       THEN /\ generation < MaxGeneration
            /\ generation' = generation + 1
            /\ lease' = [owner |-> conn[c].pod, gen |-> generation']
            /\ conn' = [conn EXCEPT ![c] = [@ EXCEPT
                            !.pc = "resolved", !.gen = generation',
                            !.owner = conn[c].pod, !.acquired = TRUE]]
       ELSE RouteTo(c, lease) /\ UNCHANGED leaseVars
    /\ UNCHANGED <<renewer, entry, drainVars, roomVars, archived>>

(* resolve_join_owner_ready: reuse asks for a registry entry, and resolves *)
(* again while there is none.                                              *)
OwnerReady(c) ==
    /\ IsAt(c, "owner_ready")
    /\ Move(c, IF entry[conn[c].pod] = 0 THEN "resolving" ELSE "resolved")
    /\ UNCHANGED <<leaseVars, renewer, entry, drainVars, roomVars, archived>>

(* Redis fails, the fence rejects, or the attempts are used up. *)
ResolveFails(c) ==
    /\ conn[c].pc \in {"resolving", "acquiring", "owner_ready"}
    /\ Move(c, "gone")
    /\ UNCHANGED <<leaseVars, renewer, entry, drainVars, roomVars, archived>>

EnterRoom(c) ==
    /\ IsAt(c, "resolved")
    /\ GetOrCreate(conn[c].pod)
    /\ conn' = [conn EXCEPT ![c] = [@ EXCEPT !.pc = "checking", !.room = RoomAt(conn[c].pod)]]
    /\ UNCHANGED <<leaseVars, renewer, entry, drainVars, archived>>

(* The second look at archived_at, after the room was obtained. *)
RecheckArchived(c) ==
    /\ IsAt(c, "checking")
    /\ ~archived
    /\ Move(c, IF IsRemote(c) THEN "dialing" ELSE "admission")
    /\ UNCHANGED <<leaseVars, renewer, entry, drainVars, roomVars, archived>>

(* archived, or unknown (fail-closed); and what dial_remote_owner rejects. *)
TurnedAway(c) ==
    /\ conn[c].pc \in {"checking", "dialing"}
    /\ CleanupIfEmpty(conn[c].pod)
    /\ Move(c, "gone")
    /\ UNCHANGED <<leaseVars, renewer, entry, drainVars, archived>>

(* The owner's control loop: the room is obtained and the fence validated, *)
Dial(c) ==
    /\ IsAt(c, "dialing")
    /\ drain[conn[c].owner] = "no"
    /\ GetOrCreate(conn[c].owner)
    /\ conn' = [conn EXCEPT ![c] = [@ EXCEPT
                    !.ownerRoom = RoomAt(conn[c].owner),
                    !.pc = IF lease = [owner |-> conn[c].owner, gen |-> conn[c].gen]
                           THEN "registering" ELSE "rejected"]]
    /\ UNCHANGED <<leaseVars, renewer, entry, drainVars, archived>>

(* and then the peer is added: register_remote_peer. *)
RegisterRemotePeer(c) ==
    /\ IsAt(c, "registering")
    /\ IF rooms[conn[c].ownerRoom].ended
       THEN Move(c, "rejected") /\ UNCHANGED rooms
       ELSE /\ rooms' = [rooms EXCEPT ![conn[c].ownerRoom].peers = @ \cup {c}]
            /\ Move(c, "admission")
    /\ UNCHANGED <<leaseVars, renewer, entry, drainVars, manager, archived>>

Rejected(c) ==
    /\ IsAt(c, "rejected")
    /\ CleanupIfEmpty(conn[c].pod)
    /\ Move(c, "gone")
    /\ UNCHANGED <<leaseVars, renewer, entry, drainVars, archived>>

(* Mutant of AddPeer: the room's ended flag is not read. *)
AddPeerAnyway(c) ==
    /\ IsAt(c, "admission")
    /\ rooms' = [rooms EXCEPT ![conn[c].room].peers = @ \cup {c}]
    /\ Move(c, IF IsRemote(c) THEN "in" ELSE "attaching")
    /\ UNCHANGED <<leaseVars, renewer, entry, drainVars, manager, archived>>

(* add_peer, and add_peer_at_index for the mirror of a remote client. *)
AddPeer(c) ==
    /\ IsAt(c, "admission")
    /\ ~rooms[conn[c].room].ended
    /\ rooms' = [rooms EXCEPT ![conn[c].room].peers = @ \cup {c}]
    /\ Move(c, IF IsRemote(c) THEN "in" ELSE "attaching")
    /\ UNCHANGED <<leaseVars, renewer, entry, drainVars, manager, archived>>

(* The room has ended, is full or speaks another version: nothing is given *)
(* back, the lease of the connection included.                             *)
AdmissionRefused(c) ==
    /\ (IsAt(c, "checking") /\ ~archived) \/ IsAt(c, "admission")
    /\ Move(c, "gone")
    /\ UNCHANGED <<leaseVars, renewer, entry, drainVars, roomVars, archived>>

-----------------------------------------------------------------------------
(* A local peer that reused a lease looks for the room's owner signals and *)
(* goes on with what there is.                                             *)
ReuseSignals(c) ==
    /\ IsAt(c, "attaching")
    /\ ~conn[c].acquired
    /\ Move(c, "in")
    /\ UNCHANGED <<leaseVars, renewer, entry, drainVars, roomVars, archived>>

(* One that won its lease calls attach_signals. If the pod drains or the   *)
(* room has an entry, the renewer is started only to release the lease.    *)
AttachSignals(c) ==
    /\ IsAt(c, "attaching")
    /\ conn[c].acquired
    /\ LET p == conn[c].pod IN
       IF drain[p] # "no" \/ entry[p] # 0
       THEN /\ renewer' = [renewer EXCEPT ![conn[c].gen] = [task |-> "running", cancel |-> TRUE]]
            /\ Move(c, "in")
       ELSE Move(c, "inserting") /\ UNCHANGED renewer
    /\ UNCHANGED <<leaseVars, entry, drainVars, roomVars, archived>>

InsertEntry(c) ==
    /\ IsAt(c, "inserting")
    /\ renewer' = [renewer EXCEPT ![conn[c].gen].task = "running"]
    /\ entry' = [entry EXCEPT ![conn[c].pod] = conn[c].gen]
    /\ Move(c, "inserted")
    /\ UNCHANGED <<leaseVars, drainVars, roomVars, archived>>

(* Mutant of RecheckDraining: the first check was enough. *)
RecheckDrainingNot(c) ==
    /\ IsAt(c, "inserted")
    /\ Move(c, "in")
    /\ UNCHANGED <<leaseVars, renewer, entry, drainVars, roomVars, archived>>

(* "Close the check-insert race with drain_all". *)
RecheckDraining(c) ==
    /\ IsAt(c, "inserted")
    /\ Move(c, "in")
    /\ LET p == conn[c].pod
           g == conn[c].gen IN
       IF drain[p] = "no" THEN UNCHANGED <<renewer, entry>>
       ELSE /\ entry' = IF entry[p] = g THEN [entry EXCEPT ![p] = 0] ELSE entry
            /\ renewer' = [renewer EXCEPT ![g].cancel = TRUE]
    /\ UNCHANGED <<leaseVars, drainVars, roomVars, archived>>

-----------------------------------------------------------------------------
(* The client goes, its connection breaks, or the loss or drain signal of  *)
(* its owner closes it. A client may go at any time, so the model does not *)
(* keep the signals.                                                       *)
Disconnect(c) ==
    /\ IsAt(c, "in")
    /\ Move(c, "leaving")
    /\ UNCHANGED <<leaseVars, renewer, entry, drainVars, roomVars, archived>>

(* remove_peer_and_check_ended; a mirror only removes its peer. *)
RemovePeer(c) ==
    /\ IsAt(c, "leaving")
    /\ LET r == rooms[conn[c].room]
           left == r.peers \ {c}
           ends == ~IsRemote(c) /\ ~r.ended /\ left = {} IN
       /\ rooms' = [rooms EXCEPT ![conn[c].room] = [peers |-> left, ended |-> r.ended \/ ends]]
       /\ Move(c, IF ends THEN "archiving" ELSE "cleanup")
    /\ UNCHANGED <<leaseVars, renewer, entry, drainVars, manager, archived>>

(* The end of the control loop removes the remote peer from the room the   *)
(* owner has now. Nothing is cleaned up or released there.                 *)
OwnerUnregisters(c) ==
    /\ conn[c].pc \in {"leaving", "archiving", "cleanup", "gone"}
    /\ IsRemote(c) /\ conn[c].ownerRoom # 0
    /\ manager[conn[c].owner] # 0
    /\ c \in rooms[manager[conn[c].owner]].peers
    /\ rooms' = [rooms EXCEPT ![manager[conn[c].owner]].peers = @ \ {c}]
    /\ UNCHANGED <<leaseVars, renewer, entry, drainVars, manager, archived, conn>>

ArchiveSucceeds(c) ==
    /\ IsAt(c, "archiving")
    /\ archived' = TRUE
    /\ Move(c, "cleanup")
    /\ UNCHANGED <<leaseVars, renewer, entry, drainVars, roomVars>>

(* clear_ended: the huddle stays alive. *)
ArchiveFails(c) ==
    /\ IsAt(c, "archiving")
    /\ rooms' = [rooms EXCEPT ![conn[c].room].ended = FALSE]
    /\ Move(c, "gone")
    /\ UNCHANGED <<leaseVars, renewer, entry, drainVars, manager, archived>>

(* The room the manager has now, this connection's or a later one. *)
Cleanup(c) ==
    /\ IsAt(c, "cleanup")
    /\ CleanupIfEmpty(conn[c].pod)
    /\ Move(c, IF Empties(conn[c].pod) /\ ~IsRemote(c) THEN "releasing" ELSE "gone")
    /\ UNCHANGED <<leaseVars, renewer, entry, drainVars, archived>>

(* HuddleOwnerRegistry::release. *)
ReleaseEntry(c) ==
    /\ IsAt(c, "releasing")
    /\ LET p == conn[c].pod
           g == conn[c].gen IN
       IF entry[p] = g
       THEN /\ entry' = [entry EXCEPT ![p] = 0]
            /\ renewer' = [renewer EXCEPT ![g].cancel = TRUE]
       ELSE UNCHANGED <<entry, renewer>>
    /\ Move(c, "gone")
    /\ UNCHANGED <<leaseVars, drainVars, roomVars, archived>>

-----------------------------------------------------------------------------
(* drain_all: the flag, the entries there are, and drain for each. One pod *)
(* drains, as in a rolling update (bound).                                 *)
DrainBegins(p) ==
    /\ \A q \in Pods : drain[q] = "no"
    /\ drain' = [drain EXCEPT ![p] = "begun"]
    /\ UNCHANGED <<leaseVars, renewer, entry, drainGen, roomVars, archived, conn>>

DrainCollects(p) ==
    /\ drain[p] = "begun"
    /\ drain' = [drain EXCEPT ![p] = "collected"]
    /\ drainGen' = [drainGen EXCEPT ![p] = entry[p]]
    /\ UNCHANGED <<leaseVars, renewer, entry, roomVars, archived, conn>>

DrainRoom(p) ==
    /\ drain[p] = "collected"
    /\ drain' = [drain EXCEPT ![p] = "done"]
    /\ LET g == drainGen[p] IN
       IF g # 0 /\ entry[p] = g
       THEN /\ entry' = [entry EXCEPT ![p] = 0]
            /\ renewer' = [renewer EXCEPT ![g].cancel = TRUE]
       ELSE UNCHANGED <<entry, renewer>>
    /\ UNCHANGED <<leaseVars, drainGen, roomVars, archived, conn>>

(* The renewer of generation g. A renewal that succeeds changes nothing    *)
(* but the TTL; one that is lost or fails ends the loop, as cancel does.   *)
RenewFails(g) ==
    /\ renewer[g].task = "running"
    /\ renewer' = [renewer EXCEPT ![g].task = "releasing"]
    /\ UNCHANGED <<leaseVars, entry, drainVars, roomVars, archived, conn>>

RenewerCancelled(g) ==
    /\ renewer[g].task = "running"
    /\ renewer[g].cancel
    /\ renewer' = [renewer EXCEPT ![g].task = "releasing"]
    /\ UNCHANGED <<leaseVars, entry, drainVars, roomVars, archived, conn>>

(* The generation's owner: its lease's owner_runtime_id. *)
OwnerOf(g) == (CHOOSE c \in Connections :
                  conn[c].pc # "out" /\ conn[c].acquired /\ conn[c].gen = g)

(* Mutant of ReleaseLease: RELEASE_SCRIPT compares the owner only. *)
ReleaseLeaseOfOwner(g) ==
    /\ renewer[g].task = "releasing"
    /\ IF lease.owner = conn[OwnerOf(g)].pod
       THEN lease' = NoLease
       ELSE UNCHANGED lease
    /\ renewer' = [renewer EXCEPT ![g].task = "stopped"]
    /\ UNCHANGED <<generation, entry, drainVars, roomVars, archived, conn>>

(* RELEASE_SCRIPT. *)
ReleaseLease(g) ==
    /\ renewer[g].task = "releasing"
    /\ IF lease.gen = g
       THEN lease' = NoLease
       ELSE UNCHANGED lease
    /\ renewer' = [renewer EXCEPT ![g].task = "stopped"]
    /\ UNCHANGED <<generation, entry, drainVars, roomVars, archived, conn>>

ReleaseLeaseFails(g) ==
    /\ renewer[g].task = "releasing"
    /\ renewer' = [renewer EXCEPT ![g].task = "stopped"]
    /\ UNCHANGED <<leaseVars, entry, drainVars, roomVars, archived, conn>>

(* The TTL runs out, for want of a renewal in time. *)
LeaseExpires ==
    /\ lease # NoLease
    /\ lease' = NoLease
    /\ UNCHANGED <<generation, renewer, entry, drainVars, roomVars, archived, conn>>

HuddleNext ==
    \/ \E c \in Connections :
          \/ JoinHuddle(c) \/ LookUpOwner(c) \/ AcquireLease(c) \/ OwnerReady(c)
          \/ ResolveFails(c) \/ EnterRoom(c) \/ RecheckArchived(c) \/ TurnedAway(c)
          \/ Dial(c) \/ RegisterRemotePeer(c) \/ Rejected(c)
          \/ AddPeer(c) \/ AdmissionRefused(c)
          \/ ReuseSignals(c) \/ AttachSignals(c) \/ InsertEntry(c) \/ RecheckDraining(c)
          \/ Disconnect(c) \/ RemovePeer(c) \/ OwnerUnregisters(c)
          \/ ArchiveSucceeds(c) \/ ArchiveFails(c) \/ Cleanup(c) \/ ReleaseEntry(c)
    \/ \E p \in Pods : DrainBegins(p) \/ DrainCollects(p) \/ DrainRoom(p)
    \/ \E g \in Generations :
          RenewFails(g) \/ RenewerCancelled(g) \/ ReleaseLease(g) \/ ReleaseLeaseFails(g)
    \/ LeaseExpires

HuddleSpec == HuddleInit /\ [][HuddleNext]_huddleVars

-----------------------------------------------------------------------------
(* "Once true, new huddle owner admissions fail closed even if they raced  *)
(* an earlier Redis lookup": when drain_all is through and no attach is    *)
(* between its two looks at the flag, the registry of the pod is empty,    *)
(* and stays so.                                                           *)
DrainedRegistryIsEmpty ==
    \A p \in Pods :
        /\ drain[p] = "done"
        /\ \A c \in Connections : conn[c].pod = p => conn[c].pc \notin {"inserting", "inserted"}
        => entry[p] = 0

(* "A stale teardown cannot release a newer epoch": a lease goes by its    *)
(* TTL or by the renewer of its own generation, never by that of an        *)
(* earlier epoch of the same pod.                                          *)
LeaseEndsByItsEpoch ==
    [][LeaseExpires \/ lease = NoLease \/ lease' = lease
          \/ renewer[lease.gen].task = "releasing"]_huddleVars

(* "No window for a concurrent add_peer to sneak in between removal and    *)
(* the ended flag": while the last leaver archives the huddle its room     *)
(* stays empty, local joins and registrations by other pods included.      *)
EndedRoomIsEmpty == \A i \in DOMAIN rooms : rooms[i].ended => rooms[i].peers = {}

=============================================================================
