------------------------------- MODULE Relay --------------------------------
(***************************************************************************)
(* The relay's HTTP handlers (internal/server/api) over the database       *)
(* (Store) and the kernel (Kernel), the restart, and the rebuild of the    *)
(* kernel state at startup (internal/server/app).                          *)
(*                                                                         *)
(* net/http runs every request on a goroutine of its own and no lock spans *)
(* a database step and a kernel step, so a request is a process whose      *)
(* steps interleave with those of the others at every database and kernel  *)
(* call.  job[p] is the request process p is serving: pc is the call it    *)
(* makes next, the other fields are the handler's locals it still needs.   *)
(*                                                                         *)
(* A request that is refused by a check before its first write changes     *)
(* nothing and is not a step.  Checks of rows whose fields never change    *)
(* are merged into the first step of their handler.                        *)
(***************************************************************************)
EXTENDS Store, Kernel, SequencesExt

CONSTANTS
    Procs,             \* concurrent requests
    Ops,               \* the handlers clients call
    FaultKinds,        \* which calls may fail: "kernel", "db"
    MaxFaults,         \* bound on failing calls
    MaxCrashes,        \* bound on restarts
    MaxAllocRetries    \* maxAllocRetries of NodeRepo.Create

VARIABLES
    job,       \* [Procs -> request being served]
    phase,     \* app.Run: "wg", "peers", "clear", "build", "serving"
    faults, crashes

env   == <<phase, crashes>>
rvars == <<dbvars, kvars, job, phase, faults, crashes>>

ASSUME RelayAssumption ==
    /\ MaxFaults \in Nat /\ MaxCrashes \in Nat /\ MaxAllocRetries \in Nat \ {0}
    /\ FaultKinds \subseteq {"kernel", "db"}
    /\ Procs # {}

\* config.Validate: the announce pool does not overlap the VPN network, so that a
\* synthetic block is never a node's address.
ASSUME PoolsApart == \A ip \in FirstIP .. LastIP : ~ Overlaps(Host(ip), SynthPool)

-----------------------------------------------------------------------------
(* Processes *)

Idle == [pc |-> "idle"]

Ready(p, op) == op \in Ops /\ phase = "serving" /\ job[p] = Idle
At(p, pc)    == job[p].pc = pc
Go(p, j)     == job' = [job EXCEPT ![p] = j]
Done(p)      == Go(p, Idle)

\* The rest of the handler is a list of best-effort calls, made in order.
BestEffort(p, todo) == Go(p, IF todo = <<>> THEN Idle ELSE [pc |-> "todo", todo |-> todo])

\* A call fails: the request context is cancelled, the disk or netlink errs.
Fault(kind) == kind \in FaultKinds /\ faults < MaxFaults /\ faults' = faults + 1

NoDb     == UNCHANGED dbvars
NoKernel == UNCHANGED kvars
NoFault  == UNCHANGED faults

\* Keeps the rows ever inserted within MaxRows, requests in flight included.
Room(table, pcs) ==
    lastId[table] + Cardinality({q \in Procs : job[q].pc \in pcs}) < MaxRows[table]

RoutesForNode(n) == {ann[a].synth : a \in AnnsOf({n})}

-----------------------------------------------------------------------------
(* registerNode *)

RegisterStart(p) ==
    /\ Ready(p, "registerNode") /\ Room("node", {"insertNode", "realloc"})
    /\ LowestFree(TakenIPs, FirstIP, LastIP) # NoAddr
    /\ \E u \in DOMAIN user, nm \in NodeNames, k \in Keys, pf \in Platforms :
          Go(p, [pc |-> "insertNode", u |-> u, nm |-> nm, k |-> k, pf |-> pf, tries |-> 1,
                 ip |-> LowestFree(TakenIPs, FirstIP, LastIP)])
    /\ NoDb /\ NoKernel /\ NoFault /\ UNCHANGED env

\* Another registration took the address since lowestFree read it as free.
LostRace(j) ==
    /\ j.u \in DOMAIN user /\ ~ AtDeviceCap(j.u)
    /\ j.ip \in TakenIPs
    /\ \A n \in DOMAIN node : node[n].key # j.k

RegisterInsert(p) ==
    LET j == job[p] IN
    /\ At(p, "insertNode")
    /\ \/ /\ InsertNode(j.u, j.nm, j.k, j.ip, j.pf)
          /\ Go(p, [pc |-> "addPeer", n |-> lastId.node + 1, k |-> j.k, ip |-> j.ip])
          /\ NoFault
       \/ /\ ~ NodeInsertable(j.u, j.nm, j.k, j.ip)
          /\ IF LostRace(j) /\ j.tries < MaxAllocRetries
             THEN Go(p, [j EXCEPT !.pc = "realloc", !.tries = @ + 1])
             ELSE Done(p)
          /\ NoDb /\ NoFault
       \/ Fault("db") /\ Done(p) /\ NoDb
    /\ NoKernel /\ UNCHANGED env

\* A slip: an exhausted pool is not noticed on the retry.
RegisterReallocUnchecked(p) ==
    /\ At(p, "realloc")
    /\ \/ /\ Go(p, [job[p] EXCEPT !.pc = "insertNode", !.ip = LowestFree(TakenIPs, FirstIP, LastIP)])
          /\ NoFault
       \/ Fault("db") /\ Done(p)
    /\ NoDb /\ NoKernel /\ UNCHANGED env

RegisterRealloc(p) ==
    LET ip == LowestFree(TakenIPs, FirstIP, LastIP) IN
    /\ At(p, "realloc")
    /\ \/ /\ IF ip = NoAddr THEN Done(p)
                            ELSE Go(p, [job[p] EXCEPT !.pc = "insertNode", !.ip = ip])
          /\ NoFault
       \/ Fault("db") /\ Done(p)
    /\ NoDb /\ NoKernel /\ UNCHANGED env

RegisterAddPeer(p) ==
    LET j == job[p] IN
    /\ At(p, "addPeer")
    /\ \/ AddPeer(j.k, j.ip) /\ Done(p) /\ NoFault
       \/ Fault("kernel") /\ Go(p, [pc |-> "undoNode", n |-> j.n]) /\ NoKernel
    /\ NoDb /\ UNCHANGED env

RegisterUndo(p) ==
    LET n == job[p].n IN
    /\ At(p, "undoNode")
    /\ \/ n \in DOMAIN node /\ DeleteNode(n) /\ NoFault
       \/ n \notin DOMAIN node /\ NoDb /\ NoFault
       \/ Fault("db") /\ NoDb
    /\ Done(p) /\ NoKernel /\ UNCHANGED env

-----------------------------------------------------------------------------
(* deleteNode *)

\* GetOwned and ZonesForNode; then, separately, AttachmentsForNode.
DeleteNodeStart(p) ==
    /\ Ready(p, "deleteNode")
    /\ \E n \in DOMAIN node :
          Go(p, [pc |-> "snapshot", n |-> n, k |-> node[n].key, ip |-> node[n].ip,
                 zs |-> {z \in DOMAIN zone : <<z, n>> \in member}])
    /\ NoDb /\ NoKernel /\ NoFault /\ UNCHANGED env

DeleteNodeSnapshot(p) ==
    LET j == job[p] IN
    /\ At(p, "snapshot")
    /\ \/ /\ Go(p, [pc |-> "lookup", n |-> j.n, k |-> j.k, ip |-> j.ip, zs |-> j.zs,
                    rs |-> {<<t[2], ann[t[1]].synth>> :
                               t \in {x \in att : ann[x[1]].node = j.n}}])
          /\ NoFault
       \/ Fault("db") /\ Done(p)
    /\ NoDb /\ NoKernel /\ UNCHANGED env

\* DeleteOwned selects the row, then deletes it: two statements.
DeleteNodeLookup(p) ==
    /\ At(p, "lookup")
    /\ \/ /\ IF job[p].n \in DOMAIN node THEN Go(p, [job[p] EXCEPT !.pc = "deleteNode"])
                                         ELSE Done(p)
          /\ NoFault
       \/ Fault("db") /\ Done(p)
    /\ NoDb /\ NoKernel /\ UNCHANGED env

\* The calls made once the row is gone.
NodeCleanup(j) ==
    <<[c |-> "rmPeer", k |-> j.k]>>
        \o SetToSeq({[c |-> "rmMember", z |-> z, ip |-> j.ip] : z \in j.zs})
        \o SetToSeq({[c |-> "rmRoute", z |-> r[1], b |-> r[2]] : r \in j.rs})

DeleteNodeRow(p) ==
    LET j == job[p] IN
    /\ At(p, "deleteNode")
    /\ \/ /\ IF j.n \in DOMAIN node THEN DeleteNode(j.n) ELSE NoDb
          /\ BestEffort(p, NodeCleanup(j)) /\ NoFault
       \/ Fault("db") /\ Done(p) /\ NoDb
    /\ NoKernel /\ UNCHANGED env

-----------------------------------------------------------------------------
(* createZone *)

\* The auto-join node (0 for none) is resolved before anything is created.
CreateZoneStart(p) ==
    /\ Ready(p, "createZone") /\ Room("zone", {"insertZone"})
    /\ \E u \in DOMAIN user, nm \in ZoneNames, h \in Hashes :
       \E n \in {0} \cup NodesOf(u) :
          Go(p, [pc |-> "insertZone", u |-> u, nm |-> nm, h |-> h, n |-> n,
                 ip |-> IF n = 0 THEN NoAddr ELSE node[n].ip])
    /\ NoDb /\ NoKernel /\ NoFault /\ UNCHANGED env

CreateZoneInsert(p) ==
    LET j == job[p] IN
    /\ At(p, "insertZone")
    /\ \/ /\ InsertZone(j.u, j.nm, j.h)
          /\ Go(p, [pc |-> "addZone", z |-> lastId.zone + 1, n |-> j.n, ip |-> j.ip])
          /\ NoFault
       \/ ~ ZoneInsertable(j.u, j.nm) /\ Done(p) /\ NoDb /\ NoFault
       \/ Fault("db") /\ Done(p) /\ NoDb
    /\ NoKernel /\ UNCHANGED env

CreateZoneAddZone(p) ==
    LET j == job[p] IN
    /\ At(p, "addZone")
    /\ \/ AddZone(j.z) /\ (IF j.n = 0 THEN Done(p) ELSE Go(p, [j EXCEPT !.pc = "autoJoin"])) /\ NoFault
       \/ Fault("kernel") /\ Go(p, [pc |-> "undoZone", z |-> j.z, todo |-> <<>>]) /\ NoKernel
    /\ NoDb /\ UNCHANGED env

\* rollbackZone: the row, then the sets.
Rollback(z) == [pc |-> "undoZone", z |-> z, todo |-> <<[c |-> "rmZone", z |-> z]>>]

CreateZoneJoin(p) ==
    LET j == job[p] IN
    /\ At(p, "autoJoin")
    /\ \/ Join(j.z, j.n) /\ Go(p, [j EXCEPT !.pc = "autoMember"]) /\ NoFault
       \/ /\ j.z \notin DOMAIN zone \/ j.n \notin DOMAIN node
          /\ Go(p, Rollback(j.z)) /\ NoDb /\ NoFault
       \/ Fault("db") /\ Go(p, Rollback(j.z)) /\ NoDb
    /\ NoKernel /\ UNCHANGED env

CreateZoneMember(p) ==
    LET j == job[p] IN
    /\ At(p, "autoMember")
    /\ \/ AddMember(j.z, j.ip) /\ Done(p) /\ NoFault
       \/ j.z \notin DOMAIN nft /\ Go(p, Rollback(j.z)) /\ NoKernel /\ NoFault
       \/ Fault("kernel") /\ Go(p, Rollback(j.z)) /\ NoKernel
    /\ NoDb /\ UNCHANGED env

CreateZoneUndo(p) ==
    LET j == job[p] IN
    /\ At(p, "undoZone")
    /\ \/ (IF j.z \in DOMAIN zone THEN DeleteZone(j.z) ELSE NoDb) /\ NoFault
       \/ Fault("db") /\ NoDb
    /\ BestEffort(p, j.todo) /\ NoKernel /\ UNCHANGED env

-----------------------------------------------------------------------------
(* joinZone, leaveZone, kickMember, changeZonePassword *)

JoinStart(p) ==
    /\ Ready(p, "joinZone")
    /\ \E z \in DOMAIN zone, n \in DOMAIN node :
          Go(p, [pc |-> "join", z |-> z, n |-> n, ip |-> node[n].ip])
    /\ NoDb /\ NoKernel /\ NoFault /\ UNCHANGED env

JoinRow(p) ==
    LET j == job[p] IN
    /\ At(p, "join")
    /\ \/ Join(j.z, j.n) /\ Go(p, [j EXCEPT !.pc = "addMember"]) /\ NoFault
       \/ (j.z \notin DOMAIN zone \/ j.n \notin DOMAIN node) /\ Done(p) /\ NoDb /\ NoFault
       \/ Fault("db") /\ Done(p) /\ NoDb
    /\ NoKernel /\ UNCHANGED env

\* A slip: a failed AddMember is reported but the membership is kept.
JoinMemberNoUndo(p) ==
    LET j == job[p] IN
    /\ At(p, "addMember")
    /\ \/ AddMember(j.z, j.ip) /\ NoFault
       \/ j.z \notin DOMAIN nft /\ NoKernel /\ NoFault
       \/ Fault("kernel") /\ NoKernel
    /\ Done(p) /\ NoDb /\ UNCHANGED env

\* A slip: the handler waits for the zone's sets to appear.
JoinMemberWaits(p) ==
    LET j == job[p] IN
    /\ At(p, "addMember")
    /\ \/ AddMember(j.z, j.ip) /\ Done(p) /\ NoFault
       \/ Fault("kernel") /\ Go(p, [j EXCEPT !.pc = "undoJoin"]) /\ NoKernel
    /\ NoDb /\ UNCHANGED env

JoinMember(p) ==
    LET j == job[p] IN
    /\ At(p, "addMember")
    /\ \/ AddMember(j.z, j.ip) /\ Done(p) /\ NoFault
       \/ j.z \notin DOMAIN nft /\ Go(p, [j EXCEPT !.pc = "undoJoin"]) /\ NoKernel /\ NoFault
       \/ Fault("kernel") /\ Go(p, [j EXCEPT !.pc = "undoJoin"]) /\ NoKernel
    /\ NoDb /\ UNCHANGED env

\* A slip: the compensation deletes by node_id alone.
JoinUndoEverywhere(p) ==
    /\ At(p, "undoJoin")
    /\ member' = {m \in member : m[2] # job[p].n}
    /\ Done(p) /\ NoKernel /\ NoFault
    /\ UNCHANGED <<user, node, zone, ann, att, lastId, env>>

JoinUndo(p) ==
    LET j == job[p] IN
    /\ At(p, "undoJoin")
    /\ \/ (IF <<j.z, j.n>> \in member THEN Leave(j.z, j.n) ELSE NoDb) /\ NoFault
       \/ Fault("db") /\ NoDb
    /\ Done(p) /\ NoKernel /\ UNCHANGED env

Exit(p, z, n) == Go(p, [pc |-> "leave", z |-> z, n |-> n, k |-> node[n].key, ip |-> node[n].ip])

LeaveStart(p) ==
    /\ Ready(p, "leaveZone")
    /\ \E z \in DOMAIN zone, n \in DOMAIN node : Exit(p, z, n)
    /\ NoDb /\ NoKernel /\ NoFault /\ UNCHANGED env

\* The zone's owner may remove any node; the calls that follow are leaveZone's.
KickStart(p) ==
    /\ Ready(p, "kickMember")
    /\ \E u \in DOMAIN user : \E z \in ZonesOf(u), n \in DOMAIN node : Exit(p, z, n)
    /\ NoDb /\ NoKernel /\ NoFault /\ UNCHANGED env

\* A slip: leaving clears the zone's set but not the node's announcements.
LeaveRowNoCascade(p) ==
    LET j == job[p] IN
    /\ At(p, "leave")
    /\ \/ /\ Leave(j.z, j.n)
          /\ BestEffort(p, <<[c |-> "rmMember", z |-> j.z, ip |-> j.ip]>>)
          /\ NoFault
       \/ <<j.z, j.n>> \notin member /\ Done(p) /\ NoDb /\ NoFault
       \/ Fault("db") /\ Done(p) /\ NoDb
    /\ NoKernel /\ UNCHANGED env

LeaveRow(p) ==
    LET j == job[p] IN
    /\ At(p, "leave")
    /\ \/ /\ Leave(j.z, j.n)
          /\ BestEffort(p, <<[c |-> "rmMember", z |-> j.z, ip |-> j.ip],
                             [c |-> "detach", z |-> j.z, n |-> j.n, k |-> j.k, ip |-> j.ip]>>)
          /\ NoFault
       \/ <<j.z, j.n>> \notin member /\ Done(p) /\ NoDb /\ NoFault
       \/ Fault("db") /\ Done(p) /\ NoDb
    /\ NoKernel /\ UNCHANGED env

PasswordStart(p) ==
    /\ Ready(p, "changeZonePassword")
    /\ \E z \in DOMAIN zone, h \in Hashes : Go(p, [pc |-> "setPassword", z |-> z, h |-> h])
    /\ NoDb /\ NoKernel /\ NoFault /\ UNCHANGED env

PasswordUpdate(p) ==
    LET j == job[p] IN
    /\ At(p, "setPassword")
    /\ \/ (IF j.z \in DOMAIN zone THEN UpdatePassword(j.z, j.h) ELSE NoDb) /\ NoFault
       \/ Fault("db") /\ NoDb
    /\ Done(p) /\ NoKernel /\ UNCHANGED env

-----------------------------------------------------------------------------
(* deleteZone *)

\* A slip: the zone is deleted without detaching its announcements first.
DeleteZoneStartNoDetach(p) ==
    /\ Ready(p, "deleteZone")
    /\ \E z \in DOMAIN zone : Go(p, [pc |-> "deleteZone", z |-> z, ns |-> {}])
    /\ NoDb /\ NoKernel /\ NoFault /\ UNCHANGED env

DeleteZoneStart(p) ==
    /\ Ready(p, "deleteZone")
    /\ \E z \in DOMAIN zone : Go(p, [pc |-> "detachZone", z |-> z])
    /\ NoDb /\ NoKernel /\ NoFault /\ UNCHANGED env

DeleteZoneDetach(p) ==
    LET z == job[p].z IN
    /\ At(p, "detachZone")
    /\ \/ /\ DetachAllForZone(z)
          /\ Go(p, [pc |-> "deleteZone", z |-> z,
                    ns |-> {ann[a].node : a \in Reclaimed(OfZone(z))}])
          /\ NoFault
       \/ Fault("db") /\ Done(p) /\ NoDb
    /\ NoKernel /\ UNCHANGED env

DeleteZoneRow(p) ==
    LET j == job[p] IN
    /\ At(p, "deleteZone")
    /\ \/ /\ IF j.z \in DOMAIN zone THEN DeleteZone(j.z) ELSE NoDb
          /\ BestEffort(p, <<[c |-> "rmZone", z |-> j.z]>>
                              \o SetToSeq({[c |-> "recomputeByID", n |-> n] : n \in j.ns}))
          /\ NoFault
       \/ Fault("db") /\ Done(p) /\ NoDb
    /\ NoKernel /\ UNCHANGED env

-----------------------------------------------------------------------------
(* createAnnouncement, deleteAnnouncement *)

\* memberZone, GetOwned, the platform gate and the subnet's validation.
AnnounceStart(p) ==
    /\ Ready(p, "createAnnouncement") /\ Room("ann", {"announce"})
    /\ \E z \in DOMAIN zone, n \in DOMAIN node, r \in RealBlocks :
          /\ \/ zone[z].owner = node[n].user
             \/ \E m \in NodesOf(node[n].user) : <<z, m>> \in member
          /\ node[n].platform = "openwrt"
          /\ Go(p, [pc |-> "announce", z |-> z, n |-> n, r |-> r, k |-> node[n].key, ip |-> node[n].ip])
    /\ NoDb /\ NoKernel /\ NoFault /\ UNCHANGED env

\* The locals of the growth steps after announcement a is attached.
Growing(j, a, b) ==
    [pc |-> "routes", z |-> j.z, n |-> j.n, k |-> j.k, ip |-> j.ip, a |-> a, b |-> b]

AnnounceTx(p) ==
    LET j    == job[p]
        mine == {a \in AnnsOf({j.n}) : ann[a].real = j.r}
        b    == AllocateBlock(SynthPool, j.r.len, SynthInUse)
    IN
    /\ At(p, "announce")
    /\ \/ Announce(j.n, j.r, j.z) /\ Go(p, Growing(j, lastId.ann + 1, b)) /\ NoFault
       \/ /\ AttachAgain(j.n, j.r, j.z)
          /\ \E a \in mine : IF <<a, j.z>> \in att THEN Done(p)
                                                    ELSE Go(p, Growing(j, a, ann[a].synth))
          /\ NoFault
       \/ /\ ~ Announceable(j.n, j.r, j.z)
          /\ ~ (<<j.z, j.n>> \in member /\ mine # {})
          /\ Done(p) /\ NoDb /\ NoFault
       \/ Fault("db") /\ Done(p) /\ NoDb
    /\ NoKernel /\ UNCHANGED env

Undo(j) == [pc |-> "undoAnnounce", z |-> j.z, n |-> j.n, k |-> j.k, ip |-> j.ip, a |-> j.a]

AnnounceRoutes(p) ==
    LET j == job[p] IN
    /\ At(p, "routes")
    /\ \/ /\ Go(p, [pc |-> "setRoutes", z |-> j.z, n |-> j.n, k |-> j.k, ip |-> j.ip, a |-> j.a,
                    b |-> j.b, rs |-> RoutesForNode(j.n)])
          /\ NoFault
       \/ Fault("db") /\ Go(p, Undo(j))
    /\ NoDb /\ NoKernel /\ UNCHANGED env

AnnouncePeer(p) ==
    LET j == job[p] IN
    /\ At(p, "setRoutes")
    /\ \/ SetPeerRoutes(j.k, j.ip, j.rs) /\ Go(p, [Growing(j, j.a, j.b) EXCEPT !.pc = "addRoute"]) /\ NoFault
       \/ Fault("kernel") /\ Go(p, Undo(j)) /\ NoKernel
    /\ NoDb /\ UNCHANGED env

AnnounceZoneRoute(p) ==
    LET j == job[p] IN
    /\ At(p, "addRoute")
    /\ \/ AddZoneRoute(j.z, j.b) /\ Done(p) /\ NoFault
       \/ ~ RouteFits(j.z, j.b) /\ Go(p, Undo(j)) /\ NoKernel /\ NoFault
       \/ Fault("kernel") /\ Go(p, Undo(j)) /\ NoKernel
    /\ NoDb /\ UNCHANGED env

Recompute(j) == [c |-> "recompute", n |-> j.n, k |-> j.k, ip |-> j.ip]

\* rollbackAnnouncement gives up when the attachment is already gone.
AnnounceUndo(p) ==
    LET j == job[p] IN
    /\ At(p, "undoAnnounce")
    /\ \/ Detach(j.a, j.z) /\ BestEffort(p, <<Recompute(j)>>) /\ NoFault
       \/ <<j.a, j.z>> \notin att /\ Done(p) /\ NoDb /\ NoFault
       \/ Fault("db") /\ Done(p) /\ NoDb
    /\ NoKernel /\ UNCHANGED env

\* A slip: the zone's route is taken away before the detach is committed.
WithdrawStartEager(p) ==
    /\ Ready(p, "deleteAnnouncement")
    /\ \E z \in DOMAIN zone, a \in DOMAIN ann :
          LET n == ann[a].node IN
          /\ Go(p, [pc |-> "withdraw", z |-> z, a |-> a, b |-> ann[a].synth, n |-> n,
                    k |-> node[n].key, ip |-> node[n].ip])
          /\ RemoveZoneRoute(z, ann[a].synth)
    /\ NoDb /\ NoFault /\ UNCHANGED env

\* Get and GetByID; the zone's owner or the node's owner may detach.
WithdrawStart(p) ==
    /\ Ready(p, "deleteAnnouncement")
    /\ \E z \in DOMAIN zone, a \in DOMAIN ann :
          LET n == ann[a].node IN
          Go(p, [pc |-> "withdraw", z |-> z, a |-> a, b |-> ann[a].synth, n |-> n,
                 k |-> node[n].key, ip |-> node[n].ip])
    /\ NoDb /\ NoKernel /\ NoFault /\ UNCHANGED env

\* A slip: the peer's AllowedIPs are left as they are.
WithdrawalNoShrink(j) == <<[c |-> "rmRoute", z |-> j.z, b |-> j.b]>>

\* The calls after the detach; AllowedIPs shrink only when the body is reclaimed.
Withdrawal(j) ==
    <<[c |-> "rmRoute", z |-> j.z, b |-> j.b]>>
        \o (IF j.a \in Reclaimed({<<j.a, j.z>>}) THEN <<Recompute(j)>> ELSE <<>>)

WithdrawDetach(p) ==
    LET j == job[p] IN
    /\ At(p, "withdraw")
    /\ \/ Detach(j.a, j.z) /\ BestEffort(p, Withdrawal(j)) /\ NoFault
       \/ <<j.a, j.z>> \notin att /\ Done(p) /\ NoDb /\ NoFault
       \/ Fault("db") /\ Done(p) /\ NoDb
    /\ NoKernel /\ UNCHANGED env

-----------------------------------------------------------------------------
(* deleteUser *)

\* DeletionResult: the kernel footprint of user t, gathered in DeleteCascade.
UserCleanup(t) ==
    LET dn      == NodesOf(t)
        dz      == ZonesOf(t)
        orphans == {a \in DOMAIN ann \ AnnsOf(dn) : \A x \in att : x[1] = a => x[2] \in dz}
    IN  SetToSeq({[c |-> "rmPeer", k |-> node[n].key] : n \in dn})
        \o SetToSeq({[c |-> "rmMember", z |-> m[1], ip |-> node[m[2]].ip] :
                        m \in {x \in member : x[2] \in dn /\ x[1] \notin dz}})
        \o SetToSeq({[c |-> "rmZone", z |-> z] : z \in dz})
        \o SetToSeq({[c |-> "rmRoute", z |-> x[2], b |-> ann[x[1]].synth] :
                        x \in {y \in att : ann[y[1]].node \in dn /\ y[2] \notin dz}})
        \o SetToSeq({[c |-> "recompute", n |-> n, k |-> node[n].key, ip |-> node[n].ip] :
                        n \in {ann[a].node : a \in orphans}})

\* Another administrator deletes t.
DeleteUserStart(p) ==
    /\ Ready(p, "deleteUser")
    /\ \E t \in DOMAIN user :
          /\ Admins \ {t} # {}
          /\ DeleteUser(t)
          /\ BestEffort(p, UserCleanup(t))
    /\ NoKernel /\ NoFault /\ UNCHANGED env

-----------------------------------------------------------------------------
(* The best-effort tail of a handler *)

Next1(p) == Head(job[p].todo)
Rest(p)  == Tail(job[p].todo)

KernelCall(c) ==
    \/ c.c = "rmPeer"   /\ RemovePeer(c.k)
    \/ c.c = "rmMember" /\ RemoveMember(c.z, c.ip)
    \/ c.c = "rmRoute"  /\ RemoveZoneRoute(c.z, c.b)
    \/ c.c = "rmZone"   /\ DeleteZoneSets(c.z)
    \/ c.c = "setPeer"  /\ SetPeerRoutes(c.k, c.ip, c.rs)

\* A kernel call; its error is logged and the next call made.
TodoKernel(p) ==
    /\ At(p, "todo") /\ Next1(p).c \in {"rmPeer", "rmMember", "rmRoute", "rmZone", "setPeer"}
    /\ \/ KernelCall(Next1(p)) /\ NoFault
       \/ Fault("kernel") /\ NoKernel
    /\ BestEffort(p, Rest(p)) /\ NoDb /\ UNCHANGED env

\* RoutesForNode, then SetPeerRoutes with what was read (of a node a handler
\* resolved before, or resolves now by GetByID).
TodoRecompute(p) ==
    LET c    == Next1(p)
        gone == c.c = "recomputeByID" /\ c.n \notin DOMAIN node
        k    == IF c.c = "recompute" THEN c.k ELSE node[c.n].key
        ip   == IF c.c = "recompute" THEN c.ip ELSE node[c.n].ip
    IN
    /\ At(p, "todo") /\ c.c \in {"recompute", "recomputeByID"}
    /\ \/ /\ BestEffort(p, IF gone THEN Rest(p)
                            ELSE <<[c |-> "setPeer", k |-> k, ip |-> ip, rs |-> RoutesForNode(c.n)]>>
                                   \o Rest(p))
          /\ NoFault
       \/ Fault("db") /\ BestEffort(p, Rest(p))
    /\ NoDb /\ NoKernel /\ UNCHANGED env

\* cascadeNodeZoneAnnouncements.
TodoDetach(p) ==
    LET c    == Next1(p)
        gone == OfNodeZone(c.n, c.z)
    IN
    /\ At(p, "todo") /\ c.c = "detach"
    /\ \/ /\ DetachAllForNodeZone(c.n, c.z)
          /\ BestEffort(p, SetToSeq({[c |-> "rmRoute", z |-> c.z, b |-> ann[t[1]].synth] : t \in gone})
                              \o (IF Reclaimed(gone) # {} THEN <<Recompute(c)>> ELSE <<>>)
                              \o Rest(p))
          /\ NoFault
       \/ Fault("db") /\ BestEffort(p, Rest(p)) /\ NoDb
    /\ NoKernel /\ UNCHANGED env

-----------------------------------------------------------------------------
(* Restart: app.Run *)

\* The kernel keeps its state, requests in flight are lost.
Crash ==
    /\ crashes < MaxCrashes
    /\ crashes' = crashes + 1 /\ phase' = "wg" /\ job' = [p \in Procs |-> Idle]
    /\ NoDb /\ NoKernel /\ NoFault

BootStep(from, to) == phase = from /\ phase' = to /\ NoDb /\ NoFault /\ UNCHANGED <<job, crashes>>

\* What the database says the kernel should hold.
PeersFromDb ==
    [k \in {node[n].key : n \in DOMAIN node} |->
        UNION {{Host(node[n].ip)} \cup RoutesForNode(n) : n \in {m \in DOMAIN node : node[m].key = k}}]
ZonesFromDb ==
    [z \in DOMAIN zone |-> [members |-> {node[n].ip : n \in {m \in DOMAIN node : <<z, m>> \in member}},
                            routes  |-> {ann[t[1]].synth : t \in OfZone(z)}]]

\* A slip: only the nodes come back, not the blocks they announce.
BootPeersNoRoutes ==
    BootStep("peers", "clear")
    /\ ReplacePeers([k \in {node[n].key : n \in DOMAIN node} |->
                        {Host(node[n].ip) : n \in {m \in DOMAIN node : node[m].key = k}}])

BootPeers == BootStep("peers", "clear") /\ ReplacePeers(PeersFromDb)
BootInterface == BootStep("wg", "peers") /\ ReplacePeers([k \in {} |-> 0])
BootClear == BootStep("clear", "build") /\ ClearTable
BootBuild == BootStep("build", "serving") /\ BuildTable(ZonesFromDb)

-----------------------------------------------------------------------------

InitRelay ==
    /\ InitStore
    /\ peers = PeersFromDb /\ nft = ZonesFromDb
    /\ job = [p \in Procs |-> Idle] /\ phase = "serving" /\ faults = 0 /\ crashes = 0

Start(p) ==
    \/ RegisterStart(p) \/ DeleteNodeStart(p) \/ CreateZoneStart(p) \/ JoinStart(p)
    \/ LeaveStart(p) \/ KickStart(p) \/ PasswordStart(p) \/ DeleteZoneStart(p)
    \/ AnnounceStart(p) \/ WithdrawStart(p) \/ DeleteUserStart(p)

Step(p) ==
    \/ RegisterInsert(p) \/ RegisterRealloc(p) \/ RegisterAddPeer(p) \/ RegisterUndo(p)
    \/ DeleteNodeSnapshot(p) \/ DeleteNodeLookup(p) \/ DeleteNodeRow(p)
    \/ CreateZoneInsert(p) \/ CreateZoneAddZone(p) \/ CreateZoneJoin(p)
    \/ CreateZoneMember(p) \/ CreateZoneUndo(p)
    \/ JoinRow(p) \/ JoinMember(p) \/ JoinUndo(p) \/ LeaveRow(p) \/ PasswordUpdate(p)
    \/ DeleteZoneDetach(p) \/ DeleteZoneRow(p)
    \/ AnnounceTx(p) \/ AnnounceRoutes(p) \/ AnnouncePeer(p) \/ AnnounceZoneRoute(p)
    \/ AnnounceUndo(p) \/ WithdrawDetach(p)
    \/ TodoKernel(p) \/ TodoRecompute(p) \/ TodoDetach(p)

Boot == BootInterface \/ BootPeers \/ BootClear \/ BootBuild

\* A new account (store.Register), which involves no kernel state.
NewUser ==
    /\ "register" \in Ops /\ phase = "serving" /\ CreateUser(FALSE)
    /\ NoKernel /\ NoFault /\ UNCHANGED <<job, phase, crashes>>

NextRelay == (\E p \in Procs : Start(p) \/ Step(p)) \/ NewUser \/ Crash \/ Boot

\* Goroutines are scheduled and every call returns; nobody has to send requests.
FairRelay == (\A p \in Procs : WF_rvars(Step(p))) /\ WF_rvars(Boot)

SpecRelay == InitRelay /\ [][NextRelay]_rvars /\ FairRelay

-----------------------------------------------------------------------------
(* Properties *)

\* What a process is doing is a call of some handler on rows that were inserted
\* and addresses of the pool.
RelayTypeOK ==
    /\ phase \in {"wg", "peers", "clear", "build", "serving"}
    /\ faults \in 0 .. MaxFaults /\ crashes \in 0 .. MaxCrashes
    /\ DOMAIN job = Procs
    /\ \A p \in Procs :
          LET j == job[p] IN
          /\ "ip" \in DOMAIN j => \/ j.ip \in FirstIP .. LastIP
                                  \/ j.pc \in {"insertZone", "addZone"} /\ j.n = 0
          /\ "n" \in DOMAIN j => j.n \in 0 .. lastId.node
          /\ "z" \in DOMAIN j => j.z \in 1 .. lastId.zone
          /\ "a" \in DOMAIN j => j.a \in 1 .. lastId.ann
          /\ "tries" \in DOMAIN j => j.tries \in 1 .. MaxAllocRetries
    /\ DOMAIN peers \subseteq Keys /\ DOMAIN nft \subseteq 1 .. lastId.zone

Quiet == phase = "serving" /\ \A p \in Procs : job[p] = Idle

KernelMatches == peers = PeersFromDb /\ nft = ZonesFromDb

(***************************************************************************)
(* No drift: when no request is in flight and no call has failed, the      *)
(* peers and the zone sets are exactly what the database says.  This is    *)
(* what the incremental updates of every handler must add up to            *)
(* (SetPeerRoutes: "the derived state can never drift").                   *)
(***************************************************************************)
DriftFree == Quiet /\ faults = 0 => KernelMatches

(***************************************************************************)
(* A failing call never costs a node its connectivity: once the handlers   *)
(* have compensated, every peer, allowed block, member and zone route the  *)
(* database records is in the kernel.  What may be left over is removed by *)
(* the next restart.                                                       *)
(***************************************************************************)
NothingMissing ==
    Quiet =>
        /\ \A k \in DOMAIN PeersFromDb : k \in DOMAIN peers /\ PeersFromDb[k] \subseteq peers[k]
        /\ \A z \in DOMAIN zone :
              /\ z \in DOMAIN nft
              /\ ZonesFromDb[z].members \subseteq nft[z].members
              /\ ZonesFromDb[z].routes \subseteq nft[z].routes

(***************************************************************************)
(* A restart heals any drift: when the relay starts serving, the kernel is *)
(* what the database says, whatever request was cut short and whatever was *)
(* left in the kernel (rebuildNodePeers, rebuildZoneRules).                *)
(***************************************************************************)
RestartHeals == [][phase # "serving" /\ phase' = "serving" => KernelMatches']_rvars

\* Peers and zone sets as a set of facts.
PeerFacts(ps) ==
    UNION {{<<"peer", k>>} \cup {<<"allows", k, b>> : b \in ps[k]} : k \in DOMAIN ps}
ZoneFacts(zs) ==
    UNION {{<<"zone", z>>} \cup {<<"member", z, ip>> : ip \in zs[z].members}
              \cup {<<"route", z, b>> : b \in zs[z].routes} : z \in DOMAIN zs}
Facts(ps, zs) == PeerFacts(ps) \cup ZoneFacts(zs)

Derived == INSTANCE Mirror WITH want <- Facts(PeersFromDb, ZonesFromDb),
                                have <- Facts(peers, nft),
                                up   <- phase = "serving"

(***************************************************************************)
(* One request at a time, the kernel is a mirror of the database: every    *)
(* handler, its failing calls and its compensations included, adds a peer, *)
(* an allowed block, a member or a route only while the database records   *)
(* it, and takes one away only once the database does not, so that a node  *)
(* is never cut off, or let in, ahead of its rows.  The rollback order     *)
(* (the row, then the sets) and the order of every removal are what make   *)
(* it hold; requests that interleave break it (relay_drift).               *)
(***************************************************************************)
MirrorsDatabase == Derived!Spec

(***************************************************************************)
(* Every announcement is attached to some zone, so its synthetic block can *)
(* be withdrawn and comes back to the pool (DetachAllForZone: "would leak  *)
(* its synthetic block forever").                                          *)
(***************************************************************************)
NoLeakedBlock == \A a \in DOMAIN ann : Attached(a)

\* Some request has still to detach node n's announcements from zone z.
DetachPending(z, n) ==
    \E p \in Procs : At(p, "todo") /\ \E i \in DOMAIN job[p].todo :
        LET c == job[p].todo[i] IN c.c = "detach" /\ c.z = z /\ c.n = n

(***************************************************************************)
(* A zone routes only its members' blocks: an attachment of a node that is *)
(* no longer a member is about to be removed by the request that removed   *)
(* the membership, however joins, leaves, kicks, announcements, deletions  *)
(* of nodes and of users interleave (cascadeNodeZoneAnnouncements).  What  *)
(* can break it is a restart between the two transactions, a failing call, *)
(* and a join that is undone because the zone's sets do not exist yet.     *)
(***************************************************************************)
OnlyMembersAnnounce ==
    crashes = 0 =>
    \A t \in att : <<t[2], ann[t[1]].node>> \in member \/ DetachPending(t[2], ann[t[1]].node)

(***************************************************************************)
(* Every request is answered, and a restarted relay gets to serve: no      *)
(* handler waits for another's zone, and the retries of an allocation end. *)
(***************************************************************************)
HandlersFinish ==
    /\ \A p \in Procs : job[p] # Idle ~> job[p] = Idle
    /\ phase # "serving" ~> phase = "serving"
=============================================================================
