----------------------- MODULE HuddleOwnership_proofs -----------------------
(***************************************************************************)
(* Rooms, the owner registry and the lease of a huddle, for any pods and   *)
(* connections.                                                            *)
(***************************************************************************)
EXTENDS HuddleOwnership, TLAPS

-----------------------------------------------------------------------------
RoomRecord == [peers : SUBSET Connections, ended : BOOLEAN]

RoomInv == rooms \in Seq(RoomRecord) /\ EndedRoomIsEmpty

(* A room replaced by one that is empty if ended keeps RoomInv, whatever   *)
(* its index.                                                              *)
LEMMA RoomReplaced ==
    ASSUME RoomInv, NEW i, NEW r,
           i \in DOMAIN rooms => r \in RoomRecord /\ (r.ended => r.peers = {}),
           rooms' = [rooms EXCEPT ![i] = r]
    PROVE  RoomInv'
  <1> DEFINE n == Len(rooms)
  <1>a. n \in Nat /\ rooms \in [1 .. n -> RoomRecord] /\ DOMAIN rooms = 1 .. n
    BY DEF RoomInv
  <1>b. rooms' \in [1 .. n -> RoomRecord]
    BY <1>a
  <1> HIDE DEF n
  <1>1. rooms' \in Seq(RoomRecord)
    BY <1>a, <1>b
  <1>2. EndedRoomIsEmpty'
    BY <1>a DEF RoomInv, EndedRoomIsEmpty
  <1> QED
    BY <1>1, <1>2 DEF RoomInv

(* get_or_create keeps the rooms or adds an empty one. *)
LEMMA RoomCreated ==
    ASSUME RoomInv, NEW p, GetOrCreate(p)
    PROVE  RoomInv'
  <1>1. CASE UNCHANGED rooms
    BY <1>1 DEF RoomInv, EndedRoomIsEmpty
  <1>2. CASE rooms' = Append(rooms, [peers |-> {}, ended |-> FALSE])
    <2>1. [peers |-> {}, ended |-> FALSE] \in RoomRecord
      BY DEF RoomRecord
    <2>2. rooms' \in Seq(RoomRecord)
      BY <1>2, <2>1 DEF RoomInv
    <2>3. EndedRoomIsEmpty'
      BY <1>2 DEF RoomInv, EndedRoomIsEmpty
    <2> QED
      BY <2>2, <2>3 DEF RoomInv
  <1> QED
    BY <1>1, <1>2 DEF GetOrCreate, roomVars

(* RoomInv is kept by every step. *)
LEMMA RoomSteps ==
    ASSUME RoomInv, [HuddleNext]_huddleVars
    PROVE  RoomInv'
  <1>1. ASSUME NEW c \in Connections, EnterRoom(c) \/ Dial(c)
        PROVE  RoomInv'
    BY <1>1, RoomCreated DEF EnterRoom, Dial
  <1>2. ASSUME NEW c \in Connections, RegisterRemotePeer(c) \/ AddPeer(c),
               rooms' # rooms
        PROVE  RoomInv'
    <2>1. PICK i : /\ rooms' = [rooms EXCEPT ![i].peers = @ \cup {c}]
                   /\ ~rooms[i].ended
      BY <1>2 DEF RegisterRemotePeer, AddPeer
    <2> DEFINE r == [rooms[i] EXCEPT !.peers = @ \cup {c}]
    <2>2. rooms' = [rooms EXCEPT ![i] = r]
      BY <2>1, Zenon
    <2>3. i \in DOMAIN rooms => r \in RoomRecord /\ ~r.ended
      <3> SUFFICES ASSUME i \in DOMAIN rooms PROVE r \in RoomRecord /\ ~r.ended
        OBVIOUS
      <3>1. rooms[i] \in RoomRecord
        BY DEF RoomInv
      <3> QED
        BY <2>1, <3>1 DEF RoomRecord
    <2> HIDE DEF r
    <2> QED
      BY <2>2, <2>3, RoomReplaced
  <1>3. ASSUME NEW c \in Connections, RemovePeer(c)
        PROVE  RoomInv'
    <2> DEFINE i == conn[c].room
               left == rooms[i].peers \ {c}
               ends == ~IsRemote(c) /\ ~rooms[i].ended /\ left = {}
               r == [peers |-> left, ended |-> rooms[i].ended \/ ends]
    <2>1. rooms' = [rooms EXCEPT ![i] = r]
      BY <1>3 DEF RemovePeer
    <2>2. i \in DOMAIN rooms => r \in RoomRecord /\ (r.ended => r.peers = {})
      <3> SUFFICES ASSUME i \in DOMAIN rooms PROVE r \in RoomRecord /\ (r.ended => r.peers = {})
        OBVIOUS
      <3>1. rooms[i] \in RoomRecord /\ (rooms[i].ended => rooms[i].peers = {})
        BY DEF RoomInv, EndedRoomIsEmpty
      <3> HIDE DEF i
      <3> QED
        BY <3>1 DEF RoomRecord
    <2> HIDE DEF r, i
    <2> QED
      BY <2>1, <2>2, RoomReplaced
  <1>4. ASSUME NEW c \in Connections, OwnerUnregisters(c)
        PROVE  RoomInv'
    <2> DEFINE i == manager[conn[c].owner]
               r == [rooms[i] EXCEPT !.peers = @ \ {c}]
    <2>1. rooms' = [rooms EXCEPT ![i] = r]
      BY <1>4, Zenon DEF OwnerUnregisters
    <2>2. i \in DOMAIN rooms => r \in RoomRecord /\ (r.ended => r.peers = {})
      <3> SUFFICES ASSUME i \in DOMAIN rooms
                   PROVE  r \in RoomRecord /\ (r.ended => r.peers = {})
        OBVIOUS
      <3>1. rooms[i] \in RoomRecord /\ (rooms[i].ended => rooms[i].peers = {})
        BY DEF RoomInv, EndedRoomIsEmpty
      <3> HIDE DEF i
      <3> QED
        BY <3>1 DEF RoomRecord
    <2> HIDE DEF r, i
    <2> QED
      BY <2>1, <2>2, RoomReplaced
  <1>5. ASSUME NEW c \in Connections, ArchiveFails(c)
        PROVE  RoomInv'
    <2> DEFINE i == conn[c].room
               r == [rooms[i] EXCEPT !.ended = FALSE]
    <2>1. rooms' = [rooms EXCEPT ![i] = r]
      BY <1>5, Zenon DEF ArchiveFails
    <2>2. i \in DOMAIN rooms => r \in RoomRecord /\ (r.ended => r.peers = {})
      <3> SUFFICES ASSUME i \in DOMAIN rooms
                   PROVE  r \in RoomRecord /\ (r.ended => r.peers = {})
        OBVIOUS
      <3>1. rooms[i] \in RoomRecord
        BY DEF RoomInv
      <3> HIDE DEF i
      <3> QED
        BY <3>1 DEF RoomRecord
    <2> HIDE DEF r, i
    <2> QED
      BY <2>1, <2>2, RoomReplaced
  <1>6. CASE rooms' = rooms
    BY <1>6 DEF RoomInv, EndedRoomIsEmpty
  <1>7. CASE rooms' # rooms
    <2>1. PICK c \in Connections :
             \/ EnterRoom(c) \/ Dial(c) \/ RegisterRemotePeer(c) \/ AddPeer(c)
             \/ RemovePeer(c) \/ OwnerUnregisters(c) \/ ArchiveFails(c)
      BY <1>7, Zenon
         DEF HuddleNext, huddleVars, roomVars, JoinHuddle, LookUpOwner, AcquireLease,
             OwnerReady, ResolveFails, RecheckArchived, TurnedAway, CleanupIfEmpty,
             Rejected, AdmissionRefused, ReuseSignals, AttachSignals, InsertEntry,
             RecheckDraining, Disconnect, ArchiveSucceeds, Cleanup, ReleaseEntry,
             DrainBegins, DrainCollects, DrainRoom, RenewFails, RenewerCancelled,
             ReleaseLease, ReleaseLeaseFails, LeaseExpires
    <2> QED
      BY <2>1, <1>1, <1>2, <1>3, <1>4, <1>5, <1>7
  <1> QED
    BY <1>6, <1>7

(* The room that remove_peer_and_check_ended has marked stays empty while  *)
(* the huddle is archived: no add_peer, local or from another pod, gets in.*)
THEOREM EndedRoomStaysEmpty == HuddleSpec => []EndedRoomIsEmpty
  <1>1. HuddleInit => RoomInv
    BY DEF HuddleInit, RoomInv, EndedRoomIsEmpty
  <1>2. RoomInv /\ [HuddleNext]_huddleVars => RoomInv'
    BY RoomSteps
  <1>3. RoomInv => EndedRoomIsEmpty
    BY DEF RoomInv
  <1> QED
    BY <1>1, <1>2, <1>3, PTL DEF HuddleSpec

-----------------------------------------------------------------------------
OutRecord == [pc : {"out"}, pod : Pods]

Places == {"resolving", "acquiring", "owner_ready", "resolved", "checking", "dialing",
           "registering", "rejected", "admission", "attaching", "inserting", "inserted",
           "in", "leaving", "archiving", "cleanup", "releasing", "gone"}

ConnRecord == [pc : Places, pod : Pods, owner : Pods, gen : Nat,
               acquired : BOOLEAN, room : Nat, ownerRoom : Nat]

(* A connection is at one pod, and holds one generation once it has begun. *)
HuddleTypeOK ==
    /\ lease \in [owner : Pods, gen : Nat] \cup {NoLease}
    /\ generation \in Nat
    /\ rooms \in Seq(RoomRecord)
    /\ manager \in [Pods -> Nat]
    /\ entry \in [Pods -> Nat]
    /\ drain \in [Pods -> {"no", "begun", "collected", "done"}]
    /\ drainGen \in [Pods -> Nat]
    /\ conn \in [Connections -> OutRecord \cup ConnRecord]

(* Once drain_all has collected, what is in the registry is what it        *)
(* collected, until it is through, or the entry of a connection that has   *)
(* yet to look at the flag again.                                          *)
Pending(p) == \E c \in Connections :
                 /\ conn[c].pc = "inserted"
                 /\ conn[c].pod = p /\ conn[c].gen = entry[p]

DrainInv ==
    \A p \in Pods :
        /\ drain[p] \in {"collected", "done"}
        /\ entry[p] # 0
        => (drain[p] = "collected" /\ entry[p] = drainGen[p]) \/ Pending(p)

(* Steps that leave alone the connections at their second look.            *)
InsertedStays == \A c \in Connections : conn[c].pc = "inserted" => conn'[c] = conn[c]

RegistryShrinks == \A p \in Pods : entry'[p] = entry[p] \/ entry'[p] = 0

(* A step that neither inserts, looks again nor drains keeps DrainInv.     *)
LEMMA QuietStep ==
    ASSUME DrainInv, InsertedStays, RegistryShrinks, UNCHANGED drainVars
    PROVE  DrainInv'
  <1> SUFFICES ASSUME NEW p \in Pods, drain[p] \in {"collected", "done"}, entry'[p] # 0
               PROVE  (drain[p] = "collected" /\ entry'[p] = drainGen[p]) \/ Pending(p)'
    BY DEF DrainInv, drainVars
  <1>1. entry'[p] = entry[p]
    BY DEF RegistryShrinks
  <1>2. CASE drain[p] = "collected" /\ entry[p] = drainGen[p]
    BY <1>1, <1>2
  <1>3. CASE Pending(p)
    BY <1>1, <1>3 DEF Pending, InsertedStays
  <1> QED
    BY <1>1, <1>2, <1>3 DEF DrainInv

(* A connection that has begun has a whole record. *)
LEMMA Begun ==
    ASSUME HuddleTypeOK, NEW c \in Connections, conn[c].pc # "out"
    PROVE  conn[c] \in ConnRecord
  BY DEF HuddleTypeOK, OutRecord

(* What a step does that gives one connection another record. *)
LEMMA Replaced ==
    ASSUME HuddleTypeOK, NEW c \in Connections, NEW r \in ConnRecord,
           conn' = [conn EXCEPT ![c] = r]
    PROVE  /\ conn' \in [Connections -> OutRecord \cup ConnRecord]
           /\ conn'[c] = r
           /\ \A d \in Connections \ {c} : conn'[d] = conn[d]
           /\ conn[c].pc # "inserted" => InsertedStays
  BY DEF HuddleTypeOK, InsertedStays

(* The same for one that moves on. *)
LEMMA Moved ==
    ASSUME HuddleTypeOK, NEW c \in Connections, NEW pc \in Places,
           conn[c].pc # "out", Move(c, pc)
    PROVE  /\ conn' \in [Connections -> OutRecord \cup ConnRecord]
           /\ conn'[c].pc = pc /\ conn'[c].pod = conn[c].pod /\ conn'[c].gen = conn[c].gen
           /\ \A d \in Connections \ {c} : conn'[d] = conn[d]
           /\ conn[c].pc # "inserted" => InsertedStays
  <1> DEFINE r == [conn[c] EXCEPT !.pc = pc]
  <1>1. r \in ConnRecord /\ r.pc = pc /\ r.pod = conn[c].pod /\ r.gen = conn[c].gen
    BY Begun DEF ConnRecord
  <1>2. conn' = [conn EXCEPT ![c] = r]
    BY Zenon DEF Move
  <1> HIDE DEF r
  <1> QED
    BY <1>1, <1>2, Replaced

(* The same for a connection that is routed to an owner. *)
LEMMA Routed ==
    ASSUME HuddleTypeOK, NEW c \in Connections,
           conn[c].pc # "out", conn[c].pc # "inserted", lease # NoLease, RouteTo(c, lease)
    PROVE  conn' \in [Connections -> OutRecord \cup ConnRecord] /\ InsertedStays
  <1> DEFINE pc == IF lease.owner = conn[c].pod THEN "owner_ready" ELSE "resolved"
             r == [conn[c] EXCEPT !.owner = lease.owner, !.gen = lease.gen, !.pc = pc]
  <1>1. r \in ConnRecord
    <2>1. lease.owner \in Pods /\ lease.gen \in Nat
      BY DEF HuddleTypeOK
    <2>2. pc \in Places
      BY DEF Places
    <2> HIDE DEF pc
    <2> QED
      BY <2>1, <2>2, Begun DEF ConnRecord
  <1>2. conn' = [conn EXCEPT ![c] = r]
    BY DEF RouteTo
  <1> HIDE DEF r
  <1> QED
    BY <1>1, <1>2, Replaced

(* get_or_create keeps the types of what it changes. *)
LEMMA Created ==
    ASSUME HuddleTypeOK, NEW p \in Pods, GetOrCreate(p)
    PROVE  rooms' \in Seq(RoomRecord) /\ manager' \in [Pods -> Nat] /\ RoomAt(p) \in Nat
  <1>1. RoomAt(p) \in Nat
    BY DEF HuddleTypeOK, RoomAt
  <1>2. [peers |-> {}, ended |-> FALSE] \in RoomRecord
    BY DEF RoomRecord
  <1>3. CASE manager[p] = 0
    <2>1. /\ rooms' = Append(rooms, [peers |-> {}, ended |-> FALSE])
          /\ manager' = [manager EXCEPT ![p] = RoomAt(p)]
      BY <1>3 DEF GetOrCreate
    <2>2. rooms' \in Seq(RoomRecord)
      BY <1>2, <2>1 DEF HuddleTypeOK
    <2>3. manager' \in [Pods -> Nat]
      BY <1>1, <2>1 DEF HuddleTypeOK
    <2> QED
      BY <1>1, <2>2, <2>3
  <1>4. CASE manager[p] # 0
    BY <1>1, <1>4 DEF HuddleTypeOK, GetOrCreate, roomVars
  <1> QED
    BY <1>3, <1>4

(* What the connections' steps keep: everything the proof of DrainInv      *)
(* needs, the two steps of attach_signals and drain_all apart.             *)
Quiet == HuddleTypeOK' /\ InsertedStays /\ RegistryShrinks /\ UNCHANGED drainVars

(* The steps that only move a connection on are quiet. *)
LEMMA MovesAreQuiet ==
    ASSUME HuddleTypeOK, RoomInv', NEW c \in Connections,
           \/ OwnerReady(c) \/ ResolveFails(c) \/ RecheckArchived(c) \/ TurnedAway(c)
           \/ RegisterRemotePeer(c) \/ Rejected(c) \/ AddPeer(c) \/ AdmissionRefused(c)
           \/ ReuseSignals(c) \/ AttachSignals(c) \/ Disconnect(c) \/ RemovePeer(c)
           \/ ArchiveSucceeds(c) \/ ArchiveFails(c) \/ Cleanup(c)
    PROVE  Quiet
  <1>1. PICK pc \in Places : conn[c].pc # "out" /\ conn[c].pc # "inserted" /\ Move(c, pc)
    <2>1. conn[c].pc # "out" /\ conn[c].pc # "inserted"
      BY DEF OwnerReady, ResolveFails, RecheckArchived, TurnedAway, RegisterRemotePeer,
             Rejected, AddPeer, AdmissionRefused, ReuseSignals, AttachSignals, Disconnect,
             RemovePeer, ArchiveSucceeds, ArchiveFails, Cleanup, IsAt
    <2>2. \E pc \in Places : Move(c, pc)
      BY DEF OwnerReady, ResolveFails, RecheckArchived, TurnedAway, RegisterRemotePeer,
             Rejected, AddPeer, AdmissionRefused, ReuseSignals, AttachSignals, Disconnect,
             RemovePeer, ArchiveSucceeds, ArchiveFails, Cleanup, Places
    <2> QED
      BY <2>1, <2>2
  <1>2. conn' \in [Connections -> OutRecord \cup ConnRecord] /\ InsertedStays
    BY <1>1, Moved
  <1>3. UNCHANGED <<leaseVars, entry, drainVars>>
    BY Zenon
       DEF OwnerReady, ResolveFails, RecheckArchived, TurnedAway, RegisterRemotePeer,
           Rejected, AddPeer, AdmissionRefused, ReuseSignals, AttachSignals, Disconnect,
           RemovePeer, ArchiveSucceeds, ArchiveFails, Cleanup
  <1>4. manager' \in [Pods -> Nat]
    BY DEF OwnerReady, ResolveFails, RecheckArchived, TurnedAway, RegisterRemotePeer,
           Rejected, AddPeer, AdmissionRefused, ReuseSignals, AttachSignals, Disconnect,
           RemovePeer, ArchiveSucceeds, ArchiveFails, Cleanup, CleanupIfEmpty, roomVars,
           HuddleTypeOK
  <1> QED
    BY <1>2, <1>3, <1>4
       DEF Quiet, HuddleTypeOK, RoomInv, RegistryShrinks, leaseVars, drainVars

(* The first steps of a connection, those that give it more than a place.  *)
LEMMA JoinsAreQuiet ==
    ASSUME HuddleTypeOK, RoomInv', NEW c \in Connections,
           JoinHuddle(c) \/ LookUpOwner(c) \/ AcquireLease(c) \/ EnterRoom(c) \/ Dial(c)
    PROVE  Quiet
  <1> SUFFICES /\ lease' \in [owner : Pods, gen : Nat] \cup {NoLease}
               /\ generation' \in Nat
               /\ manager' \in [Pods -> Nat]
               /\ conn' \in [Connections -> OutRecord \cup ConnRecord]
               /\ InsertedStays
               /\ UNCHANGED <<entry, drainVars>>
    BY DEF Quiet, HuddleTypeOK, RoomInv, RegistryShrinks, drainVars
  <1>1. CASE JoinHuddle(c)
    <2>1. conn[c].pod \in Pods /\ conn[c].pc = "out"
      BY <1>1 DEF JoinHuddle, IsAt, HuddleTypeOK, OutRecord, ConnRecord
    <2>2. Fresh(conn[c].pod) \in ConnRecord
      BY <2>1 DEF Fresh, ConnRecord, Places
    <2> QED
      BY <1>1, <2>1, <2>2, Replaced DEF JoinHuddle, HuddleTypeOK, leaseVars, roomVars
  <1>2. CASE LookUpOwner(c)
    <2>1. conn[c].pc = "resolving"
      BY <1>2 DEF LookUpOwner, IsAt
    <2>2. conn' \in [Connections -> OutRecord \cup ConnRecord] /\ InsertedStays
      <3>1. CASE lease = NoLease
        BY <1>2, <2>1, <3>1, Moved DEF LookUpOwner, Places
      <3>2. CASE lease # NoLease
        BY <1>2, <2>1, <3>2, Routed DEF LookUpOwner
      <3> QED
        BY <3>1, <3>2
    <2> QED
      BY <1>2, <2>2 DEF LookUpOwner, HuddleTypeOK, leaseVars, roomVars
  <1>3. CASE AcquireLease(c)
    <2>1. conn[c].pc = "acquiring" /\ conn[c] \in ConnRecord
      BY <1>3, Begun DEF AcquireLease, IsAt
    <2>2. CASE lease # NoLease
      BY <1>3, <2>1, <2>2, Routed DEF AcquireLease, HuddleTypeOK, leaseVars, roomVars
    <2>3. CASE lease = NoLease
      <3> DEFINE r == [conn[c] EXCEPT !.pc = "resolved", !.gen = generation',
                                      !.owner = conn[c].pod, !.acquired = TRUE]
      <3>1. generation' \in Nat
        BY <1>3, <2>3 DEF AcquireLease, HuddleTypeOK
      <3>2. r \in ConnRecord
        BY <2>1, <3>1 DEF ConnRecord, Places
      <3>3. conn' = [conn EXCEPT ![c] = r]
        BY <1>3, <2>3 DEF AcquireLease
      <3> HIDE DEF r
      <3>4. conn' \in [Connections -> OutRecord \cup ConnRecord] /\ InsertedStays
        BY <2>1, <3>2, <3>3, Replaced
      <3>5. lease' \in [owner : Pods, gen : Nat]
        BY <1>3, <2>1, <2>3, <3>1 DEF AcquireLease, ConnRecord
      <3> QED
        BY <1>3, <3>1, <3>4, <3>5 DEF AcquireLease, HuddleTypeOK, roomVars
    <2> QED
      BY <2>2, <2>3
  <1>4. CASE EnterRoom(c)
    <2>1. conn[c].pc = "resolved" /\ conn[c] \in ConnRecord /\ conn[c].pod \in Pods
      BY <1>4, Begun DEF EnterRoom, IsAt, ConnRecord
    <2>2. manager' \in [Pods -> Nat] /\ RoomAt(conn[c].pod) \in Nat
      BY <1>4, <2>1, Created DEF EnterRoom
    <2> DEFINE r == [conn[c] EXCEPT !.pc = "checking", !.room = RoomAt(conn[c].pod)]
    <2>3. r \in ConnRecord
      BY <2>1, <2>2 DEF ConnRecord, Places
    <2>4. conn' = [conn EXCEPT ![c] = r]
      BY <1>4 DEF EnterRoom
    <2> HIDE DEF r
    <2>5. conn' \in [Connections -> OutRecord \cup ConnRecord] /\ InsertedStays
      BY <2>1, <2>3, <2>4, Replaced
    <2> QED
      BY <1>4, <2>2, <2>5 DEF EnterRoom, HuddleTypeOK, leaseVars
  <1>5. CASE Dial(c)
    <2>1. conn[c].pc = "dialing" /\ conn[c] \in ConnRecord /\ conn[c].owner \in Pods
      BY <1>5, Begun DEF Dial, IsAt, ConnRecord
    <2>2. manager' \in [Pods -> Nat] /\ RoomAt(conn[c].owner) \in Nat
      BY <1>5, <2>1, Created DEF Dial
    <2> DEFINE pc == IF lease = [owner |-> conn[c].owner, gen |-> conn[c].gen]
                     THEN "registering" ELSE "rejected"
               r == [conn[c] EXCEPT !.ownerRoom = RoomAt(conn[c].owner), !.pc = pc]
    <2>3. conn' = [conn EXCEPT ![c] = r]
      BY <1>5 DEF Dial
    <2>4. r \in ConnRecord
      <3>1. pc \in Places
        BY DEF Places
      <3> HIDE DEF pc
      <3> QED
        BY <2>1, <2>2, <3>1 DEF ConnRecord
    <2> HIDE DEF r
    <2>5. conn' \in [Connections -> OutRecord \cup ConnRecord] /\ InsertedStays
      BY <2>1, <2>3, <2>4, Replaced
    <2> QED
      BY <1>5, <2>2, <2>5 DEF Dial, HuddleTypeOK, leaseVars
  <1> QED
    BY <1>1, <1>2, <1>3, <1>4, <1>5

(* Steps of a renewer, of the lease, of the owner's control loop and of    *)
(* the last leaver.                                                        *)
LEMMA ReleasesAreQuiet ==
    ASSUME HuddleTypeOK, RoomInv',
           \/ \E c \in Connections : OwnerUnregisters(c) \/ ReleaseEntry(c)
           \/ \E g \in Generations :
                 RenewFails(g) \/ RenewerCancelled(g) \/ ReleaseLease(g) \/ ReleaseLeaseFails(g)
           \/ LeaseExpires
    PROVE  Quiet
  <1>1. ASSUME NEW c \in Connections, ReleaseEntry(c)
        PROVE  Quiet
    <2>1. conn[c].pc = "releasing" /\ conn[c].pod \in Pods
      BY <1>1, Begun DEF ReleaseEntry, IsAt, ConnRecord
    <2>2. conn' \in [Connections -> OutRecord \cup ConnRecord] /\ InsertedStays
      BY <1>1, <2>1, Moved DEF ReleaseEntry, Places
    <2>3. entry' = entry \/ entry' = [entry EXCEPT ![conn[c].pod] = 0]
      BY <1>1, Zenon DEF ReleaseEntry
    <2>4. entry' \in [Pods -> Nat] /\ RegistryShrinks
      BY <2>1, <2>3 DEF HuddleTypeOK, RegistryShrinks
    <2> QED
      BY <1>1, <2>2, <2>4
         DEF ReleaseEntry, Quiet, HuddleTypeOK, RoomInv, leaseVars, drainVars, roomVars
  <1>2. ASSUME UNCHANGED <<entry, drainVars, manager, conn, generation>>,
               lease' = lease \/ lease' = NoLease
        PROVE  Quiet
    BY <1>2 DEF Quiet, HuddleTypeOK, RoomInv, InsertedStays, RegistryShrinks, drainVars
  <1> QED
    BY <1>1, <1>2
       DEF OwnerUnregisters, RenewFails, RenewerCancelled, ReleaseLease, ReleaseLeaseFails,
           LeaseExpires, leaseVars, roomVars

-----------------------------------------------------------------------------
(* InsertEntry leaves an entry with its own connection to look again, and  *)
(* RecheckDraining takes only its own entry away.                          *)
LEMMA AttachKeeps ==
    ASSUME HuddleTypeOK, DrainInv, NEW c \in Connections, InsertEntry(c) \/ RecheckDraining(c)
    PROVE  HuddleTypeOK' /\ DrainInv'
  <1>1. CASE InsertEntry(c)
    <2>1. conn[c].pc = "inserting" /\ conn[c] \in ConnRecord
      BY <1>1, Begun DEF InsertEntry, IsAt
    <2>2. /\ conn' \in [Connections -> OutRecord \cup ConnRecord]
          /\ conn'[c].pc = "inserted" /\ conn'[c].pod = conn[c].pod /\ conn'[c].gen = conn[c].gen
          /\ InsertedStays
      BY <1>1, <2>1, Moved DEF InsertEntry, Places
    <2>3. entry' = [entry EXCEPT ![conn[c].pod] = conn[c].gen] /\ entry' \in [Pods -> Nat]
      BY <1>1, <2>1 DEF InsertEntry, HuddleTypeOK, ConnRecord
    <2>4. DrainInv'
      <3> SUFFICES ASSUME NEW p \in Pods, drain[p] \in {"collected", "done"}, entry'[p] # 0
                   PROVE  (drain[p] = "collected" /\ entry'[p] = drainGen[p]) \/ Pending(p)'
        BY <1>1 DEF DrainInv, InsertEntry, drainVars
      <3>1. CASE p = conn[c].pod
        BY <2>2, <2>3, <3>1 DEF Pending, HuddleTypeOK
      <3>2. CASE p # conn[c].pod
        <4>1. entry'[p] = entry[p]
          BY <2>3, <3>2 DEF HuddleTypeOK
        <4> QED
          BY <2>2, <4>1 DEF DrainInv, Pending, InsertedStays
      <3> QED
        BY <3>1, <3>2
    <2> QED
      BY <1>1, <2>2, <2>3, <2>4 DEF InsertEntry, HuddleTypeOK, leaseVars, drainVars, roomVars
  <1>2. CASE RecheckDraining(c)
    <2>1. conn[c].pc = "inserted" /\ conn[c].pod \in Pods
      BY <1>2, Begun DEF RecheckDraining, IsAt, ConnRecord
    <2>2. /\ conn' \in [Connections -> OutRecord \cup ConnRecord]
          /\ \A d \in Connections \ {c} : conn'[d] = conn[d]
      BY <1>2, <2>1, Moved DEF RecheckDraining, Places
    <2>a. drain[conn[c].pod] # "no" /\ entry[conn[c].pod] = conn[c].gen
             => entry' = [entry EXCEPT ![conn[c].pod] = 0]
      BY <1>2, Zenon DEF RecheckDraining
    <2>b. entry' = entry \/ entry' = [entry EXCEPT ![conn[c].pod] = 0]
      BY <1>2, Zenon DEF RecheckDraining
    <2>3. entry' \in [Pods -> Nat] /\ RegistryShrinks
      BY <2>1, <2>b DEF HuddleTypeOK, RegistryShrinks
    <2>4. DrainInv'
      <3> SUFFICES ASSUME NEW p \in Pods, drain[p] \in {"collected", "done"}, entry'[p] # 0
                   PROVE  (drain[p] = "collected" /\ entry'[p] = drainGen[p]) \/ Pending(p)'
        BY <1>2 DEF DrainInv, RecheckDraining, drainVars
      <3>1. entry'[p] = entry[p]
        BY <2>3 DEF RegistryShrinks
      <3>2. p = conn[c].pod => entry[p] # conn[c].gen
        BY <2>a, <3>1 DEF HuddleTypeOK
      <3>3. CASE Pending(p)
        <4>1. PICK d \in Connections : /\ conn[d].pc = "inserted"
                                       /\ conn[d].pod = p /\ conn[d].gen = entry[p]
          BY <3>3 DEF Pending
        <4>2. d # c
          BY <3>2, <4>1
        <4> QED
          BY <2>2, <3>1, <4>1, <4>2 DEF Pending
      <3> QED
        BY <3>1, <3>3 DEF DrainInv
    <2> QED
      BY <1>2, <2>2, <2>3, <2>4 DEF RecheckDraining, HuddleTypeOK, leaseVars, drainVars, roomVars
  <1> QED
    BY <1>1, <1>2

(* drain_all collects the entry there is, and empties the registry of it.  *)
LEMMA DrainKeeps ==
    ASSUME HuddleTypeOK, DrainInv, NEW q \in Pods,
           DrainBegins(q) \/ DrainCollects(q) \/ DrainRoom(q)
    PROVE  HuddleTypeOK' /\ DrainInv'
  <1>1. UNCHANGED <<leaseVars, roomVars, conn>>
    BY Zenon DEF DrainBegins, DrainCollects, DrainRoom
  <1>2. \A p \in Pods : entry'[p] = entry[p] => (Pending(p)' <=> Pending(p))
    BY <1>1 DEF Pending
  <1>3. CASE DrainBegins(q)
    <2>1. drain' = [drain EXCEPT ![q] = "begun"] /\ entry' = entry /\ drainGen' = drainGen
      BY <1>3 DEF DrainBegins
    <2>2. HuddleTypeOK'
      BY <1>1, <2>1 DEF HuddleTypeOK, leaseVars, roomVars
    <2>3. \A p \in Pods : drain'[p] = drain[p] \/ drain'[p] = "begun"
      BY <2>1 DEF HuddleTypeOK
    <2> QED
      BY <1>2, <2>1, <2>2, <2>3 DEF DrainInv
  <1>4. CASE DrainCollects(q)
    <2>1. /\ drain' = [drain EXCEPT ![q] = "collected"] /\ entry' = entry
          /\ drainGen' = [drainGen EXCEPT ![q] = entry[q]]
      BY <1>4 DEF DrainCollects
    <2>2. HuddleTypeOK'
      BY <1>1, <2>1 DEF HuddleTypeOK, leaseVars, roomVars
    <2>3. \A p \in Pods : \/ drain'[p] = drain[p] /\ drainGen'[p] = drainGen[p]
                          \/ drain'[p] = "collected" /\ drainGen'[p] = entry[p]
      BY <2>1 DEF HuddleTypeOK
    <2> QED
      BY <1>2, <2>1, <2>2, <2>3 DEF DrainInv
  <1>5. CASE DrainRoom(q)
    <2>1. /\ drain' = [drain EXCEPT ![q] = "done"] /\ drainGen' = drainGen
          /\ drain[q] = "collected"
          /\ entry' = entry \/ entry' = [entry EXCEPT ![q] = 0]
          /\ drainGen[q] # 0 /\ entry[q] = drainGen[q] => entry' = [entry EXCEPT ![q] = 0]
      BY <1>5, Zenon DEF DrainRoom
    <2>2. HuddleTypeOK'
      BY <1>1, <2>1 DEF HuddleTypeOK, leaseVars, roomVars
    <2> SUFFICES ASSUME NEW p \in Pods, drain'[p] \in {"collected", "done"}, entry'[p] # 0
                 PROVE  (drain'[p] = "collected" /\ entry'[p] = drainGen'[p]) \/ Pending(p)'
      BY <2>2 DEF DrainInv
    <2>3. entry'[p] = entry[p]
      BY <2>1 DEF HuddleTypeOK
    <2>4. CASE p = q
      <3>1. entry[p] # drainGen[p]
        BY <2>1, <2>3, <2>4 DEF HuddleTypeOK
      <3> QED
        BY <1>2, <2>1, <2>3, <2>4, <3>1 DEF DrainInv
    <2>5. CASE p # q
      <3>1. drain'[p] = drain[p]
        BY <2>1, <2>5 DEF HuddleTypeOK
      <3> QED
        BY <1>2, <2>1, <2>3, <3>1 DEF DrainInv
    <2> QED
      BY <2>4, <2>5
  <1> QED
    BY <1>3, <1>4, <1>5

(* The inductive invariant of the registry. *)
RegistryInv == RoomInv /\ HuddleTypeOK /\ DrainInv

(* RegistryInv is kept by every step. *)
LEMMA RegistrySteps ==
    ASSUME RegistryInv, [HuddleNext]_huddleVars
    PROVE  RegistryInv'
  <1>1. RoomInv'
    BY RoomSteps DEF RegistryInv
  <1>2. CASE Quiet
    BY <1>1, <1>2, QuietStep DEF RegistryInv, Quiet
  <1>3. CASE UNCHANGED huddleVars
    <2>1. HuddleTypeOK'
      BY <1>3 DEF RegistryInv, HuddleTypeOK, huddleVars, leaseVars, roomVars, drainVars
    <2>2. InsertedStays /\ RegistryShrinks /\ UNCHANGED drainVars
      BY <1>3 DEF InsertedStays, RegistryShrinks, huddleVars
    <2> QED
      BY <1>2, <2>1, <2>2 DEF Quiet
  <1>4. CASE HuddleNext
    BY <1>1, <1>2, <1>4, MovesAreQuiet, JoinsAreQuiet, ReleasesAreQuiet, AttachKeeps, DrainKeeps
       DEF HuddleNext, RegistryInv
  <1> QED
    BY <1>3, <1>4

(* When drain_all is through and no attach_signals is between its two      *)
(* looks at the draining flag, the pod owns no huddle any more: the second *)
(* look closes the race with the insertion, for any number of connections. *)
THEOREM DrainEmptiesRegistry == HuddleSpec => []DrainedRegistryIsEmpty
  <1>1. HuddleInit => RegistryInv
    <2> SUFFICES ASSUME HuddleInit PROVE RegistryInv
      OBVIOUS
    <2>1. RoomInv
      BY DEF HuddleInit, RoomInv, EndedRoomIsEmpty
    <2>2. HuddleTypeOK
      <3>1. conn \in [Connections -> OutRecord]
        BY DEF HuddleInit, OutRecord
      <3>2. rooms \in Seq(RoomRecord)
        BY <2>1 DEF RoomInv
      <3> QED
        BY <3>1, <3>2 DEF HuddleInit, HuddleTypeOK
    <2>3. DrainInv
      BY DEF HuddleInit, DrainInv
    <2> QED
      BY <2>1, <2>2, <2>3 DEF RegistryInv
  <1>2. RegistryInv /\ [HuddleNext]_huddleVars => RegistryInv'
    BY RegistrySteps
  <1>3. RegistryInv => DrainedRegistryIsEmpty
    BY DEF RegistryInv, DrainInv, DrainedRegistryIsEmpty, Pending
  <1> QED
    BY <1>1, <1>2, <1>3, PTL DEF HuddleSpec

-----------------------------------------------------------------------------
(* "A stale teardown cannot release a newer epoch", for any pods,          *)
(* connections and generations: ACQUIRE_SCRIPT leaves a lease that is held *)
(* alone, and RELEASE_SCRIPT compares the generation, so that a lease ends *)
(* by its TTL or by the renewer of its own epoch. No invariant is needed:  *)
(* the comparison is made in the step that deletes.                        *)
THEOREM LeaseAlwaysEndsByItsEpoch == HuddleSpec => LeaseEndsByItsEpoch
  <1> DEFINE Ends == LeaseExpires \/ lease = NoLease \/ lease' = lease
                        \/ renewer[lease.gen].task = "releasing"
  <1>1. ASSUME [HuddleNext]_huddleVars PROVE Ends
    <2>1. ASSUME NEW c \in Connections, AcquireLease(c)
          PROVE  Ends
      BY <2>1 DEF AcquireLease, leaseVars
    <2>2. ASSUME NEW g \in Generations, ReleaseLease(g)
          PROVE  Ends
      BY <2>2 DEF ReleaseLease
    <2>3. CASE lease' = lease
      BY <2>3
    <2>4. CASE lease' # lease
      <3>1. \/ \E c \in Connections : AcquireLease(c)
            \/ \E g \in Generations : ReleaseLease(g)
            \/ LeaseExpires
        BY <1>1, <2>4, Zenon
           DEF HuddleNext, huddleVars, leaseVars, JoinHuddle, LookUpOwner, OwnerReady,
               ResolveFails, EnterRoom, RecheckArchived, TurnedAway, Dial,
               RegisterRemotePeer, Rejected, AddPeer, AdmissionRefused, ReuseSignals,
               AttachSignals, InsertEntry, RecheckDraining, Disconnect, RemovePeer,
               OwnerUnregisters, ArchiveSucceeds, ArchiveFails, Cleanup, ReleaseEntry,
               DrainBegins, DrainCollects, DrainRoom, RenewFails, RenewerCancelled,
               ReleaseLeaseFails
      <3> QED
        BY <3>1, <2>1, <2>2
    <2> QED
      BY <2>3, <2>4
  <1> QED
    BY <1>1, PTL DEF HuddleSpec, LeaseEndsByItsEpoch
=============================================================================
