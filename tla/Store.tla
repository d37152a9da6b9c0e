------------------------------- MODULE Store --------------------------------
(***************************************************************************)
(* The relay's database (internal/server/store): the tables users, nodes,  *)
(* zones, zone_members, announcements and announcement_zones, and one      *)
(* action per transaction that writes them.                                *)
(*                                                                         *)
(* SQLite is opened with _txlock=immediate and foreign keys on, so every   *)
(* transaction, and every single statement outside one, is one atomic,     *)
(* serialized step.  The module therefore allows any order of the          *)
(* transactions of concurrent requests; which order a request runs its     *)
(* transactions in is module Relay's subject.                              *)
(*                                                                         *)
(* A table is a function from the ids of its live rows to rows; lastId is  *)
(* sqlite_sequence: the ids are AUTOINCREMENT and are never used twice.    *)
(***************************************************************************)
EXTENDS Ipam

CONSTANTS
    MaxRows,          \* [user, node, zone, ann |-> Nat]: bound on rows ever inserted
    NodeNames, Keys, Platforms,   \* values of nodes.name, wg_pubkey, platform
    ZoneNames, Hashes,            \* values of zones.name, password_hash
    FirstIP, LastIP,  \* ipam.PoolRange of the configured VPN network
    RealBlocks,       \* the subnets announce requests name
    SynthPool,        \* the configured announce pool, a block
    MaxDevices, MaxOwnedZones, MaxAnnounced   \* per-user caps, 0 = unlimited

ASSUME StoreAssumption ==
    /\ MaxRows \in [user : Nat \ {0}, node : Nat, zone : Nat, ann : Nat]
    /\ FirstIP \in Nat /\ LastIP \in Nat
    /\ MaxDevices \in Nat /\ MaxOwnedZones \in Nat /\ MaxAnnounced \in Nat
    /\ SynthPool \in Block /\ RealBlocks \subseteq Block

VARIABLES
    user,     \* id -> [admin]
    node,     \* id -> [user, name, key, ip, platform]
    zone,     \* id -> [name, owner, hash]
    member,   \* zone_members: set of <<zone id, node id>>
    ann,      \* announcements: id -> [node, real, synth]
    att,      \* announcement_zones: set of <<announcement id, zone id>>
    lastId    \* sqlite_sequence

dbvars == <<user, node, zone, member, ann, att, lastId>>

-----------------------------------------------------------------------------
(* Queries *)

Put(table, id, row) ==
    [i \in DOMAIN table \cup {id} |-> IF i = id THEN row ELSE table[i]]

Without(table, ids) == [i \in DOMAIN table \ ids |-> table[i]]

NodesOf(u) == {n \in DOMAIN node : node[n].user = u}
ZonesOf(u) == {z \in DOMAIN zone : zone[z].owner = u}
AnnsOf(ns) == {a \in DOMAIN ann : ann[a].node \in ns}
Admins     == {u \in DOMAIN user : user[u].admin}

TakenIPs    == {node[n].ip : n \in DOMAIN node}
SynthInUse  == {ann[a].synth : a \in DOMAIN ann}
RealBy(n)   == {ann[a].real : a \in AnnsOf({n})}

\* A slip: the count is compared with <= cap instead of < cap.
AtZoneCapLate(u) ==
    MaxOwnedZones > 0 /\ ~ user[u].admin /\ Cardinality(ZonesOf(u)) > MaxOwnedZones

\* The capped INSERT .. SELECT .. WHERE count < cap, and Create's limit check;
\* administrators and a cap of 0 take the unlimited path.
Capped(u, cap)     == cap > 0 /\ ~ user[u].admin
AtDeviceCap(u)     == Capped(u, MaxDevices) /\ Cardinality(NodesOf(u)) >= MaxDevices
AtZoneCap(u)       == Capped(u, MaxOwnedZones) /\ Cardinality(ZonesOf(u)) >= MaxOwnedZones
AtAnnounceCap(u)   == Capped(u, MaxAnnounced) /\ Cardinality(AnnsOf(NodesOf(u))) >= MaxAnnounced

\* A slip of the schema: nodes.ip without UNIQUE.
NodeConflictNotOnIP(u, nm, k, ip) ==
    \E n \in DOMAIN node : \/ node[n].key = k
                           \/ node[n].user = u /\ node[n].name = nm

\* UNIQUE constraints of nodes.
NodeConflict(u, nm, k, ip) ==
    \E n \in DOMAIN node : \/ node[n].ip = ip
                           \/ node[n].key = k
                           \/ node[n].user = u /\ node[n].name = nm

-----------------------------------------------------------------------------
(* users *)

\* CreateAdmin (admin = TRUE) and the insert of Register (FALSE).
CreateUser(admin) ==
    LET u == lastId.user + 1 IN
    /\ u <= MaxRows.user
    /\ user' = Put(user, u, [admin |-> admin])
    /\ lastId' = [lastId EXCEPT !.user = u]
    /\ UNCHANGED <<node, zone, member, ann, att>>

\* A slip of DeleteCascade: the last-administrator check is left out.
DeleteUserUnchecked(u) ==
    LET dn == NodesOf(u)
        dz == ZonesOf(u)
        da == AnnsOf(dn)
    IN
    /\ u \in DOMAIN user
    /\ user' = Without(user, {u})
    /\ node' = Without(node, dn)
    /\ zone' = Without(zone, dz)
    /\ member' = {m \in member : m[1] \notin dz /\ m[2] \notin dn}
    /\ att' = {t \in att : t[1] \notin da /\ t[2] \notin dz}
    /\ ann' = [a \in {x \in DOMAIN ann \ da : \E t \in att' : t[1] = x} |-> ann[a]]
    /\ UNCHANGED lastId

\* DeleteCascade: the user, and by ON DELETE CASCADE their nodes, owned zones,
\* memberships, announcements and attachments; then every announcement left
\* without an attachment is reclaimed.
DeleteUser(u) ==
    LET dn == NodesOf(u)
        dz == ZonesOf(u)
        da == AnnsOf(dn)
    IN
    /\ u \in DOMAIN user
    /\ user[u].admin => Cardinality(Admins) > 1
    /\ user' = Without(user, {u})
    /\ node' = Without(node, dn)
    /\ zone' = Without(zone, dz)
    /\ member' = {m \in member : m[1] \notin dz /\ m[2] \notin dn}
    /\ att' = {t \in att : t[1] \notin da /\ t[2] \notin dz}
    /\ ann' = [a \in {x \in DOMAIN ann \ da : \E t \in att' : t[1] = x} |-> ann[a]]
    /\ UNCHANGED lastId

-----------------------------------------------------------------------------
(* nodes *)

NodeInsertable(u, nm, k, ip) ==
    u \in DOMAIN user /\ ~ AtDeviceCap(u) /\ ~ NodeConflict(u, nm, k, ip)

\* insertNode when it inserts a row: ip was read as free by an earlier
\* lowestFree and may be taken by now.
InsertNode(u, nm, k, ip, pf) ==
    LET n == lastId.node + 1 IN
    /\ NodeInsertable(u, nm, k, ip) /\ n <= MaxRows.node
    /\ node' = Put(node, n, [user |-> u, name |-> nm, key |-> k, ip |-> ip, platform |-> pf])
    /\ lastId' = [lastId EXCEPT !.node = n]
    /\ UNCHANGED <<user, zone, member, ann, att>>

\* A slip of the schema: zone_members without ON DELETE CASCADE on node_id.
DeleteNodeKeepsMembers(n) ==
    LET da == AnnsOf({n}) IN
    /\ n \in DOMAIN node
    /\ node' = Without(node, {n})
    /\ ann' = Without(ann, da)
    /\ att' = {t \in att : t[1] \notin da}
    /\ UNCHANGED <<user, zone, member, lastId>>

\* DeleteOwned, with the cascade to memberships and announcements.
DeleteNode(n) ==
    LET da == AnnsOf({n}) IN
    /\ n \in DOMAIN node
    /\ node' = Without(node, {n})
    /\ member' = {m \in member : m[2] # n}
    /\ ann' = Without(ann, da)
    /\ att' = {t \in att : t[1] \notin da}
    /\ UNCHANGED <<user, zone, lastId>>

-----------------------------------------------------------------------------
(* zones and memberships *)

ZoneInsertable(u, nm) ==
    u \in DOMAIN user /\ ~ AtZoneCap(u) /\ \A y \in DOMAIN zone : zone[y].name # nm

\* A slip of the schema: zones.id without AUTOINCREMENT, so the id of the newest
\* zone is handed out again once that zone is deleted.
InsertZoneReusingId(u, nm, h) ==
    LET z == Cardinality(DOMAIN zone) + 1 IN
    /\ ZoneInsertable(u, nm) /\ z <= MaxRows.zone
    /\ zone' = Put(zone, z, [name |-> nm, owner |-> u, hash |-> h])
    /\ UNCHANGED <<user, node, member, ann, att, lastId>>

InsertZone(u, nm, h) ==
    LET z == lastId.zone + 1 IN
    /\ ZoneInsertable(u, nm) /\ z <= MaxRows.zone
    /\ zone' = Put(zone, z, [name |-> nm, owner |-> u, hash |-> h])
    /\ lastId' = [lastId EXCEPT !.zone = z]
    /\ UNCHANGED <<user, node, member, ann, att>>

UpdatePassword(z, h) ==
    /\ z \in DOMAIN zone
    /\ zone' = [zone EXCEPT ![z].hash = h]
    /\ UNCHANGED <<user, node, member, ann, att, lastId>>

\* ZoneRepo.Delete: the cascade takes memberships and attachments with it, but
\* not the announcements they attached.
DeleteZone(z) ==
    /\ z \in DOMAIN zone
    /\ zone' = Without(zone, {z})
    /\ member' = {m \in member : m[1] # z}
    /\ att' = {t \in att : t[2] # z}
    /\ UNCHANGED <<user, node, ann, lastId>>

\* Join is idempotent; both foreign keys must be live.
Join(z, n) ==
    /\ z \in DOMAIN zone /\ n \in DOMAIN node
    /\ member' = member \cup {<<z, n>>}
    /\ UNCHANGED <<user, node, zone, ann, att, lastId>>

Leave(z, n) ==
    /\ <<z, n>> \in member
    /\ member' = member \ {<<z, n>>}
    /\ UNCHANGED <<user, node, zone, ann, att, lastId>>

-----------------------------------------------------------------------------
(* announcements *)

\* A slip of Create: the self-overlap check is left out.
AnnounceableOverlapping(n, real, z) ==
    /\ <<z, n>> \in member
    /\ real \notin RealBy(n)
    /\ ~ AtAnnounceCap(node[n].user)
    /\ AllocateBlock(SynthPool, real.len, SynthInUse) # NoBlock

\* Create's checks on the new-announcement path.
Announceable(n, real, z) ==
    /\ <<z, n>> \in member
    /\ real \notin RealBy(n)
    /\ \A r \in RealBy(n) : ~ Overlaps(real, r)
    /\ ~ AtAnnounceCap(node[n].user)
    /\ AllocateBlock(SynthPool, real.len, SynthInUse) # NoBlock

\* Create's reuse path: the (node, subnet) keeps its block, a zone is attached.
AttachAgain(n, real, z) ==
    /\ <<z, n>> \in member
    /\ \E a \in AnnsOf({n}) : /\ ann[a].real = real
                              /\ att' = att \cup {<<a, z>>}
    /\ UNCHANGED <<user, node, zone, member, ann, lastId>>

\* Create's new-announcement path.
Announce(n, real, z) ==
    LET a == lastId.ann + 1
        s == AllocateBlock(SynthPool, real.len, SynthInUse)
    IN
    /\ Announceable(n, real, z) /\ a <= MaxRows.ann
    /\ ann' = Put(ann, a, [node |-> n, real |-> real, synth |-> s])
    /\ att' = att \cup {<<a, z>>}
    /\ lastId' = [lastId EXCEPT !.ann = a]
    /\ UNCHANGED <<user, node, zone, member>>

\* The announcements that lose their last attachment when gone is detached.
Reclaimed(gone) ==
    {a \in DOMAIN ann : (\E t \in gone : t[1] = a) /\ ~ \E t \in att \ gone : t[1] = a}

\* A slip: reclaimIfOrphaned is not called.
DetachSetNoReclaim(gone) ==
    /\ att' = att \ gone
    /\ UNCHANGED <<user, node, zone, member, ann, lastId>>

\* The body shared by the three detaching transactions.
DetachSet(gone) ==
    /\ att' = att \ gone
    /\ ann' = Without(ann, Reclaimed(gone))
    /\ UNCHANGED <<user, node, zone, member, lastId>>

OfNodeZone(n, z) == {t \in att : t[2] = z /\ ann[t[1]].node = n}
OfZone(z)        == {t \in att : t[2] = z}

Detach(a, z)               == <<a, z>> \in att /\ DetachSet({<<a, z>>})
DetachAllForNodeZone(n, z) == DetachSet(OfNodeZone(n, z))
DetachAllForZone(z)        == DetachSet(OfZone(z))

-----------------------------------------------------------------------------

\* The database after migration and EnsureAdmin: one administrator.
InitStore ==
    /\ user = [u \in {1} |-> [admin |-> TRUE]]
    /\ node = [n \in {} |-> 0]
    /\ zone = [z \in {} |-> 0]
    /\ ann  = [a \in {} |-> 0]
    /\ member = {} /\ att = {}
    /\ lastId = [user |-> 1, node |-> 0, zone |-> 0, ann |-> 0]

NextUsers == \/ \E admin \in BOOLEAN : CreateUser(admin)
             \/ \E u \in DOMAIN user : DeleteUser(u)

NextNodes ==
    \/ \E u \in DOMAIN user, nm \in NodeNames, k \in Keys,
          ip \in FirstIP .. LastIP, pf \in Platforms : InsertNode(u, nm, k, ip, pf)
    \/ \E n \in DOMAIN node : DeleteNode(n)

NextZones ==
    \/ \E u \in DOMAIN user, nm \in ZoneNames, h \in Hashes : InsertZone(u, nm, h)
    \/ \E z \in DOMAIN zone :
          \/ \E h \in Hashes : UpdatePassword(z, h)
          \/ DeleteZone(z)
          \/ \E n \in DOMAIN node : Join(z, n) \/ Leave(z, n)

NextAnns ==
    \E z \in DOMAIN zone :
        \/ \E n \in DOMAIN node, r \in RealBlocks : AttachAgain(n, r, z) \/ Announce(n, r, z)
        \/ \E a \in DOMAIN ann : Detach(a, z)
        \/ \E n \in DOMAIN node : DetachAllForNodeZone(n, z)
        \/ DetachAllForZone(z)

NextStore == NextUsers \/ NextNodes \/ NextZones \/ NextAnns

(***************************************************************************)
(* What the database promises to the code around it: it starts with one    *)
(* administrator and changes by whole transactions.  Module Relay's        *)
(* handlers implement it.                                                  *)
(***************************************************************************)
SpecStore == InitStore /\ [][NextStore]_dbvars

-----------------------------------------------------------------------------
(* Properties *)

UserRow == [admin : BOOLEAN]
NodeRow == [user : Nat, name : NodeNames, key : Keys, ip : FirstIP .. LastIP,
            platform : Platforms]
ZoneRow == [name : ZoneNames, owner : Nat, hash : Hashes]
AnnRow  == [node : Nat, real : RealBlocks, synth : Block]

\* Every table holds rows of its type under ids that were handed out.
StoreTypeOK ==
    /\ lastId \in [user : 0 .. MaxRows.user, node : 0 .. MaxRows.node,
                   zone : 0 .. MaxRows.zone, ann : 0 .. MaxRows.ann]
    /\ user \in [DOMAIN user -> UserRow] /\ DOMAIN user \subseteq 1 .. lastId.user
    /\ node \in [DOMAIN node -> NodeRow] /\ DOMAIN node \subseteq 1 .. lastId.node
    /\ zone \in [DOMAIN zone -> ZoneRow] /\ DOMAIN zone \subseteq 1 .. lastId.zone
    /\ ann \in [DOMAIN ann -> AnnRow] /\ DOMAIN ann \subseteq 1 .. lastId.ann
    /\ member \subseteq (1 .. lastId.zone) \X (1 .. lastId.node)
    /\ att \subseteq (1 .. lastId.ann) \X (1 .. lastId.zone)

(***************************************************************************)
(* Foreign keys: no cascade leaves a row that names a missing one, however *)
(* users, nodes, zones and announcements are deleted (migrations/*.sql).   *)
(***************************************************************************)
ReferentialIntegrity ==
    /\ \A n \in DOMAIN node : node[n].user \in DOMAIN user
    /\ \A z \in DOMAIN zone : zone[z].owner \in DOMAIN user
    /\ \A a \in DOMAIN ann : ann[a].node \in DOMAIN node
    /\ \A m \in member : m[1] \in DOMAIN zone /\ m[2] \in DOMAIN node
    /\ \A t \in att : t[1] \in DOMAIN ann /\ t[2] \in DOMAIN zone

(***************************************************************************)
(* The synthetic pool is never allocated twice, whatever is announced,     *)
(* detached, deleted and announced again: no two announcements of any node *)
(* hold overlapping synthetic blocks (AnnouncementRepo.Create).            *)
(***************************************************************************)
SyntheticDisjoint ==
    \A a, b \in DOMAIN ann : a # b => ~ Overlaps(ann[a].synth, ann[b].synth)

(***************************************************************************)
(* One node's real subnets never overlap, so its router can translate each *)
(* address one way (Create's self-overlap check).                          *)
(***************************************************************************)
RealDisjoint ==
    \A a, b \in DOMAIN ann :
        a # b /\ ann[a].node = ann[b].node => ~ Overlaps(ann[a].real, ann[b].real)

(***************************************************************************)
(* No address of an announced subnet is ambiguous: no synthetic block is   *)
(* handed out twice in the relay, and no real subnet twice on one router,  *)
(* after any sequence of announcing, detaching and deleting.               *)
(***************************************************************************)
AnnouncementsDisjoint == SyntheticDisjoint /\ RealDisjoint

(***************************************************************************)
(* Two live nodes never share an address or a public key, although the     *)
(* address is chosen by a read outside the inserting statement.            *)
(***************************************************************************)
NodesDistinct ==
    \A m, n \in DOMAIN node : m # n => /\ node[m].ip # node[n].ip
                                       /\ node[m].key # node[n].key

(***************************************************************************)
(* No ordinary user exceeds the caps on devices, owned zones and announced *)
(* subnets, whatever the order of concurrent requests; administrators and  *)
(* a cap of 0 are unlimited.                                               *)
(***************************************************************************)
CapsRespected ==
    \A u \in DOMAIN user :
        /\ Capped(u, MaxDevices) => Cardinality(NodesOf(u)) <= MaxDevices
        /\ Capped(u, MaxOwnedZones) => Cardinality(ZonesOf(u)) <= MaxOwnedZones
        /\ Capped(u, MaxAnnounced) => Cardinality(AnnsOf(NodesOf(u))) <= MaxAnnounced

(***************************************************************************)
(* An announcement that loses its last attachment is removed in the same   *)
(* transaction, and its synthetic block freed, by every transaction but    *)
(* ZoneRepo.Delete, whose callers must detach the zone first               *)
(* (reclaimIfOrphaned, DeleteCascade).                                     *)
(***************************************************************************)
Attached(a) == \E t \in att : t[1] = a

OrphansOnlyByZoneDelete ==
    [][\A a \in DOMAIN ann \cap DOMAIN ann' :
          Attached(a) /\ ~ Attached(a)' => \E z \in DOMAIN zone : DeleteZone(z)]_dbvars

(***************************************************************************)
(* The relay never loses its last administrator, even when administrators  *)
(* delete each other concurrently (DeleteCascade's ErrLastAdmin).          *)
(***************************************************************************)
SomeAdmin == Admins # {}
=============================================================================
